---------------------------- MODULE WebhookIntake ----------------------------
(***************************************************************************)
(* receive_webhook over every class of request, refused ones included      *)
(* (app/routers/webhooks.py): one request is answered, and the next comes. *)
(* The store is empty and does not fail: its part is WebhookService.       *)
(***************************************************************************)
EXTENDS WebhookRequest

CONSTANTS Events, Ids, Actions   \* the header and payload values that occur

(* A header or an action that is missing is none that is there. *)
ASSUME AbsentAssumption == "absent" \notin Ids \cup Actions

VARIABLES request, status

vars == <<request, status>>

(* No status yet: the handler is at its first line. *)
Unanswered == Continue

AllRequests ==
  [sig : {"valid", "absent", "mismatch", "non_ascii"},
   event : Events \cup {"absent"},
   id : Ids \cup {"absent"},
   body : {"object", "empty", "not_an_object", "invalid_json", "not_utf8"},
   action : Actions \cup {"absent"},
   storable : BOOLEAN]

(* Only a parsed object has values SQLite may fail to store. *)
RequestClasses == {r \in AllRequests : r.body = "object" \/ r.storable}

Init == request \in RequestClasses /\ status = Unanswered

Answer == /\ status = Unanswered
          /\ status' = Status(request)
          /\ UNCHANGED request

NextRequest == /\ status # Unanswered
               /\ status' = Unanswered
               /\ request' \in RequestClasses

Next == Answer \/ NextRequest

Spec == Init /\ [][Next]_vars

-----------------------------------------------------------------------------
(* UnauthenticatedLearnsNothing: the answer to a request without a valid   *)
(* signature is the answer to every request with that signature header,    *)
(* whatever its event, its headers and its body: "an unauthenticated       *)
(* caller learns nothing about which events or payloads this service       *)
(* accepts" (webhooks.py:65).                                              *)
UnauthenticatedLearnsNothing ==
  status # Unanswered /\ request.sig # "valid" =>
    \A r \in RequestClasses : r.sig = request.sig => Status(r) = status

(* AcceptsExactly: 204 goes to the deliveries that can be verified,        *)
(* identified, parsed and stored, and to no others: nothing refused leaves *)
(* a row, nothing well formed is refused.                                  *)
WellFormed(r) ==
  /\ r.sig = "valid"
  /\ r.id \in Ids
  /\ r.storable
  /\ \/ r.event = "ping" /\ r.body \in {"object", "empty"}
     \/ /\ r.event \in {"issues", "issue_comment"}
        /\ r.body = "object" /\ r.action \in Actions

AcceptsExactly ==
  status # Unanswered => (status = 204 <=> WellFormed(request))

(* RefusedAsDocumented: a delivery without a valid signature is refused    *)
(* with 401, "identical for every cause" (openapi.yaml:533, DESIGN.md:117),*)
(* and a signed one whose body is not a JSON object with 400: "Unknown     *)
(* event, or malformed payload" (webhooks.py:52).                          *)
RefusedAsDocumented ==
  status # Unanswered =>
    /\ request.sig # "valid" => status = 401
    /\ /\ request.sig = "valid"
       /\ request.body \in {"not_an_object", "invalid_json", "not_utf8"}
       => status = 400
=============================================================================
