------------------------------ MODULE FreshList ------------------------------
(***************************************************************************)
(* What GET /issues promises its callers: the page a caller is told to     *)
(* have is one the query had at GitHub at some moment between the request  *)
(* and the reply, or the request fails.  A 304 tells the caller that it    *)
(* has the page its validator names.  No cache appears here: it may save   *)
(* quota, and must not be seen.                                            *)
(***************************************************************************)
CONSTANTS Requests, Keys, Pages,
          NoKey,      \* no query asked
          Nothing,    \* not told yet
          Failure     \* told that the request failed

VARIABLES upstream, asked, told

freshVars == <<upstream, asked, told>>

Init == /\ upstream \in [Keys -> Pages]
        /\ asked = [r \in Requests |-> NoKey]
        /\ told = [r \in Requests |-> Nothing]

Ask(r) == /\ asked[r] = NoKey
          /\ \E key \in Keys : asked' = [asked EXCEPT ![r] = key]
          /\ UNCHANGED <<upstream, told>>

(* The one moment at which the page is read. *)
Read(r) == /\ asked[r] # NoKey /\ told[r] = Nothing
           /\ told' = [told EXCEPT ![r] = upstream[asked[r]]]
           /\ UNCHANGED <<upstream, asked>>

Fail(r) == /\ asked[r] # NoKey /\ told[r] = Nothing
           /\ told' = [told EXCEPT ![r] = Failure]
           /\ UNCHANGED <<upstream, asked>>

Return(r) == /\ told[r] # Nothing
             /\ asked' = [asked EXCEPT ![r] = NoKey]
             /\ told' = [told EXCEPT ![r] = Nothing]
             /\ UNCHANGED upstream

Change(key) == /\ \E page \in Pages : upstream' = [upstream EXCEPT ![key] = page]
               /\ UNCHANGED <<asked, told>>

(* A restart drops every request. *)
Drop == /\ asked' = [r \in Requests |-> NoKey]
        /\ told' = [r \in Requests |-> Nothing]
        /\ UNCHANGED upstream

Next == \/ \E r \in Requests : Ask(r) \/ Read(r) \/ Fail(r) \/ Return(r)
        \/ \E key \in Keys : Change(key)
        \/ Drop

Spec == Init /\ [][Next]_freshVars
=============================================================================
