-------------------------- MODULE MCWebhookService --------------------------
(***************************************************************************)
(* WebhookService on small instances: two actions under one delivery id,   *)
(* and a delivery that SQLite cannot store.                                *)
(***************************************************************************)
EXTENDS WebhookService

Delivered(id, action, storable) ==
  [sig |-> "valid", event |-> "issues", id |-> id, body |-> "object",
   action |-> action, storable |-> storable]

StorableRequests == {Delivered("d1", "opened", TRUE),
                     Delivered("d1", "closed", TRUE)}
MCRequests == StorableRequests \cup {Delivered("d2", "opened", FALSE)}
MCDeliveries == {Summarize(r) : r \in MCRequests}
=============================================================================
