---------------------------- MODULE MCHubSessions ----------------------------
(* HubSessions for TLC: the worker, the supervisor and a task of Home       *)
(* Assistant.  A session name is used again once its socket is closed, so   *)
(* names can be exchanged (the safety runs only).                           *)
EXTENDS HubSessions, TLC

SessionNames == Permutations(Sessions)
=============================================================================
