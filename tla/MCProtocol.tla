----------------------------- MODULE MCProtocol ------------------------------
(* A small instance of Protocol for TLC. *)
EXTENDS Protocol

MCSymbols == STRING
MCChars == {Mark, "#", "2", ",", " ", "\n", "z"}
MCKinds ==
    {[classic |-> "OBJECTPASS", code |-> 4], [classic |-> "OPENDOOR", code |-> 5], [classic |-> "FREEPASS", code |-> 2],
     [classic |-> "MANUALPASS", code |-> 3], [classic |-> "BREAKINGPASS", code |-> 1], [classic |-> "DENY", code |-> 10],
     [classic |-> "ALARM", code |-> 259]}
\* The two W26 numbers end in the same two digits.
MCKeys == {[format |-> "W34", hex_value |-> "DEADBEEF"]}
          \cup [format : {"W26"}, facility : {249}, number : {123, 223}]
=============================================================================
