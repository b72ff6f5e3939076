------------------------------- MODULE MCPanel -------------------------------
(* A small instance of Panel for TLC: the server has one point, in a zone, or two,
   the other of which is in that zone then. *)
EXTENDS Panel, TLC

CONSTANTS gate, door, hall
MCAnswers ==
    {[points |-> {door}, zone |-> (gate :> NoZone) @@ (door :> hall), status |-> "connected"],
     [points |-> {gate, door}, zone |-> (gate :> hall) @@ (door :> NoZone), status |-> "lost"]}
\* A point and its user, a zone and its user, and a view of nothing that names
\* nobody.
MCSelections ==
    {[points |-> {gate}, zones |-> {}, users |-> Users], [points |-> {}, zones |-> {hall}, users |-> Users],
     [points |-> {}, zones |-> {}, users |-> {}]}
MCTargets == {{gate, door}}
Exchanges == Permutations(PresetIds) \cup Permutations(Cameras)
=============================================================================
