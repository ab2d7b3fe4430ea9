----------------------------- MODULE MCIssueList -----------------------------
(***************************************************************************)
(* IssueList on a small instance: more queries than the cache holds, and   *)
(* two requests in flight.                                                 *)
(***************************************************************************)
EXTENDS IssueList, TLC

Symmetry == Permutations(Requests) \cup Permutations(Keys)
=============================================================================
