------------------------------- MODULE Schemas -------------------------------
(***************************************************************************)
(* The request models of app/schemas.py and the projection of payloads.    *)
(*                                                                         *)
(* A caller's JSON object is a record of classes, those the validators     *)
(* tell apart; "absent" is a missing field, or null where the model allows *)
(* it:                                                                     *)
(*   title   "plain", "other", "padded" (plain within white space),        *)
(*           "blank" (nothing but white space) or "long"                   *)
(*   body    "text", "blank" or "long"                                     *)
(*   state   "open", "closed" or "unknown" (no value of IssueState)        *)
(*   labels  "clean" or "blank" (one entry is)                             *)
(*   extra   whether there is a field of another name                      *)
(***************************************************************************)

Titles == {"plain", "other"}
States == {"open", "closed"}

Payload ==
  [title : Titles \cup {"padded", "blank", "long", "absent"},
   body : {"text", "blank", "long", "absent"},
   state : States \cup {"unknown", "absent"},
   labels : {"clean", "blank", "absent"},
   extra : BOOLEAN]

NoPayload == [title |-> "absent", body |-> "absent", state |-> "absent",
              labels |-> "absent", extra |-> FALSE]

(* str.strip() *)
Strip(title) == IF title = "padded" THEN "plain" ELSE title

ValidTitle(title) == Strip(title) \in Titles

(* extra="forbid": the fields of the other models are unknown to this one. *)
ValidCreate(p) ==
  /\ ~ p.extra /\ p.state = "absent"
  /\ ValidTitle(p.title)
  /\ p.body # "long"
  /\ p.labels # "blank"

ValidPatch(p) ==
  /\ ~ p.extra /\ p.labels = "absent"
  /\ p.title = "absent" \/ ValidTitle(p.title)
  /\ p.body # "long"
  /\ p.state \in States \cup {"absent"}
  /\ {p.title, p.body, p.state} # {"absent"}

ValidComment(p) ==
  /\ ~ p.extra /\ {p.title, p.state, p.labels} = {"absent"}
  /\ p.body = "text"

(* Mutant: a patch that names no state is one to "open". *)
GithubPayloadWithDefault(p) ==
  [p EXCEPT !.title = Strip(@),
            !.state = IF @ = "absent" THEN "open" ELSE @]

(* model_dump(exclude_none=True), to_github_payload: what was given, in    *)
(* its clean form, and nothing else.                                       *)
GithubPayload(p) == [p EXCEPT !.title = Strip(@)]

(* What GitHub makes of a field that is not in the payload: nothing. *)
Given(new, old) == IF new = "absent" THEN old ELSE new
=============================================================================
