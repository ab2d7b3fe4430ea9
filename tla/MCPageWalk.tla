------------------------------ MODULE MCPageWalk ------------------------------
(***************************************************************************)
(* PageWalk over a short list of issues and one of comments.               *)
(***************************************************************************)
EXTENDS PageWalk

ShortLists == { <<"issue", "pull", "issue", "issue">>, <<"comment", "comment", "comment">> }
=============================================================================
