--------------------------- MODULE WebhookRequest ---------------------------
(***************************************************************************)
(* The checks POST /webhook makes before it touches the store              *)
(* (app/routers/webhooks.py, app/webhooks.py), as operators over a class   *)
(* of requests.                                                            *)
(*                                                                         *)
(* A header or a body is abstracted to the classes the checks tell apart:  *)
(*   sig     "valid", "absent", "mismatch", or "non_ascii" (a header that  *)
(*           hmac.compare_digest refuses to compare: TypeError)            *)
(*   event   the X-GitHub-Event header, or "absent"                        *)
(*   id      the X-GitHub-Delivery header, or "absent"                     *)
(*   body    "object", "empty" (no bytes: parsed as {}), "not_an_object",  *)
(*           "invalid_json", or "not_utf8" (json.loads raises              *)
(*           UnicodeDecodeError, which the handler does not catch)         *)
(*   action  the payload's action: a string, or "absent" for a missing or  *)
(*           non-string one                                                *)
(*   storable  whether SQLite can store the payload's values (EventStore)  *)
(***************************************************************************)
EXTENDS Integers, Sequences

(* What one check says: go on, or the status the request is answered with. *)
Continue == 0

SUPPORTED_EVENTS == {"issues", "issue_comment", "ping"}
ACTION_REQUIRED_EVENTS == {"issues", "issue_comment"}

(* verify_signature; the TypeError of a non-ASCII header is unhandled: 500. *)
VerifySignature(r) ==
  CASE r.sig = "valid"                  -> Continue
    [] r.sig \in {"absent", "mismatch"} -> 401
    [] r.sig = "non_ascii"              -> 500

ValidateEvent(r) == IF r.event \in SUPPORTED_EVENTS THEN Continue ELSE 400

RequireDeliveryId(r) == IF r.id = "absent" THEN 400 ELSE Continue

ParseBody(r) ==
  CASE r.body \in {"object", "empty"}               -> Continue
    [] r.body \in {"not_an_object", "invalid_json"} -> 400
    [] r.body = "not_utf8"                          -> 500

(* An empty body is the empty object: it has no action. *)
PayloadAction(r) == IF r.body = "object" THEN r.action ELSE "absent"

(* Mutant: every event needs an action. *)
RequireActionAlways(r) ==
  IF PayloadAction(r) = "absent" THEN 400 ELSE Continue

RequireAction(r) ==
  IF r.event \in ACTION_REQUIRED_EVENTS /\ PayloadAction(r) = "absent"
  THEN 400 ELSE Continue

(* Mutant: the event is looked at before the signature. *)
ChecksEventFirst(r) == << ValidateEvent(r), VerifySignature(r),
                          RequireDeliveryId(r), ParseBody(r), RequireAction(r) >>

(* The checks in the order receive_webhook makes them. *)
Checks(r) == << VerifySignature(r), ValidateEvent(r), RequireDeliveryId(r),
                ParseBody(r), RequireAction(r) >>

Accepted(r) == \A i \in DOMAIN Checks(r) : Checks(r)[i] = Continue

(* The status of a request: that of the first check that stops it.  One    *)
(* that passes them all is recorded and acknowledged (WebhookService),     *)
(* unless it cannot be stored: an unhandled error of sqlite3.              *)
Status(r) ==
  IF Accepted(r) THEN IF r.storable THEN 204 ELSE 500
  ELSE LET first == CHOOSE i \in DOMAIN Checks(r) :
                      /\ Checks(r)[i] # Continue
                      /\ \A j \in 1 .. i - 1 : Checks(r)[j] = Continue
       IN  Checks(r)[first]

(* The columns of the delivery's row that the store tells apart. The       *)
(* action column holds '' for a payload without one (action or "").        *)
Summarize(r) ==
  [id     |-> r.id,
   event  |-> r.event,
   action |-> IF PayloadAction(r) = "absent" THEN "" ELSE PayloadAction(r),
   storable |-> r.storable]
=============================================================================
