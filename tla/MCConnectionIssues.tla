------------------------- MODULE MCConnectionIssues -------------------------
(* ConnectionIssues for TLC: the model is finite once IssueAfter is small.  *)
EXTENDS ConnectionIssues
=============================================================================
