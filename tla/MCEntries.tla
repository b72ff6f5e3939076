------------------------------ MODULE MCEntries ------------------------------
(* A small instance of Entries for TLC. *)
EXTENDS Entries, TLC

\* Slots, addresses, dialogs and points can each be exchanged.
Exchanges == Permutations(Entries) \cup Permutations(Addresses) \cup Permutations(Dialogs) \cup Permutations(Points)
=============================================================================
