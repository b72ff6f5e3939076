--------------------------- MODULE MCOifConnection ---------------------------
(* Small instances of OifConnection for TLC. *)
EXTENDS OifConnection, TLC

\* Two commands with the same reply keyword would be GETAPINFO of two points;
\* SETAPMODE, ALLOWPASS and LOGIN all answer OK.
MCKeyword == [r \in Requests |-> IF r = "GETAPINFO" THEN "APINFO" ELSE "OK"]

\* The tasks that never call connect() can be exchanged (the safety run only).
OtherCallers == Permutations(Callers \ {Owner})
=============================================================================
