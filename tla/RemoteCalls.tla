----------------------------- MODULE RemoteCalls -----------------------------
(***************************************************************************)
(* What a caller may conclude from the answer to a request that is carried *)
(* out elsewhere: "done" comes after the effect, "refused" excludes it for *)
(* good, and after "unknown" it may have happened, may still happen, or    *)
(* never will.  No request takes effect twice.                             *)
(***************************************************************************)
EXTENDS Naturals

CONSTANT Calls

VARIABLES asked,   \* the requests made
          times,   \* how often each has taken effect
          told     \* what its caller knows

vars == <<asked, times, told>>

Init == /\ asked = {}
        /\ times = [a \in Calls |-> 0]
        /\ told = [a \in Calls |-> "nothing"]

Ask(a) == /\ a \notin asked
          /\ asked' = asked \cup {a}
          /\ UNCHANGED <<times, told>>

(* Refused without asking anybody. *)
Reject(a) == /\ a \notin asked
             /\ asked' = asked \cup {a}
             /\ told' = [told EXCEPT ![a] = "refused"]
             /\ UNCHANGED times

Perform(a) == /\ a \in asked /\ times[a] = 0 /\ told[a] # "refused"
              /\ times' = [times EXCEPT ![a] = 1]
              /\ UNCHANGED <<asked, told>>

Tell(a, word) ==
  /\ a \in asked /\ told[a] = "nothing"
  /\ word = "done" => times[a] = 1
  /\ word = "refused" => times[a] = 0
  /\ told' = [told EXCEPT ![a] = word]
  /\ UNCHANGED <<asked, times>>

(* The callers of many requests lose touch at once. *)
Abandon(lost) ==
  /\ lost \subseteq {a \in asked : told[a] = "nothing"}
  /\ told' = [a \in Calls |-> IF a \in lost THEN "unknown" ELSE told[a]]
  /\ UNCHANGED <<asked, times>>

Next == \/ \E a \in Calls : Ask(a) \/ Reject(a) \/ Perform(a)
        \/ \E a \in Calls, word \in {"done", "refused", "unknown"} : Tell(a, word)
        \/ \E lost \in SUBSET Calls : Abandon(lost)

Spec == Init /\ [][Next]_vars
=============================================================================
