----------------------------- MODULE DeliveryLog -----------------------------
(***************************************************************************)
(* What POST /webhook promises the sender of deliveries: an append-only    *)
(* log with one entry per key, in which a delivery is found before it is   *)
(* acknowledged, and of which one delivery per key at most is told to be   *)
(* the first.  Tasks, transactions, failures and restarts are absent: they *)
(* are what EventStore and WebhookService implement it with.               *)
(***************************************************************************)
EXTENDS Naturals

CONSTANTS Keys

VARIABLES log,      \* the entries: records with a field delivery
          acked,    \* the keys acknowledged
          firsts    \* per key, the acknowledgements as a first delivery

logVars == <<log, acked, firsts>>

KeyOf(entry) == <<entry.delivery.id, entry.delivery.action>>
Logged == {KeyOf(e) : e \in log}

Init == log = {} /\ acked = {} /\ firsts = [k \in Keys |-> 0]

(* Entries of new keys become durable; no entry is changed or removed. *)
Persist ==
  /\ log \subseteq log'
  /\ \A e, f \in log' : KeyOf(e) = KeyOf(f) => e = f
  /\ UNCHANGED <<acked, firsts>>

Acknowledge(k) ==
  /\ k \in Logged
  /\ acked' = acked \cup {k}
  /\ UNCHANGED <<log, firsts>>

AcknowledgeAsFirst(k) ==
  /\ k \in Logged
  /\ firsts[k] = 0
  /\ firsts' = [firsts EXCEPT ![k] = 1]
  /\ acked' = acked \cup {k}
  /\ UNCHANGED log

Next == Persist \/ \E k \in Keys : Acknowledge(k) \/ AcknowledgeAsFirst(k)

Spec == Init /\ [][Next]_logVars
=============================================================================
