------------------------------ MODULE IssueList ------------------------------
(***************************************************************************)
(* GET /issues (list_issues in app/routers/issues.py): conditional         *)
(* requests to GitHub on behalf of concurrent callers, with the response   *)
(* cache between them.                                                     *)
(*                                                                         *)
(* The handler runs without interruption up to its one await, the call to  *)
(* GitHub, and from there to its return.  Other handlers run in between    *)
(* and change the cache; issues change upstream at any time.               *)
(*                                                                         *)
(* A page is what GitHub answers one query with: the list and its Link     *)
(* header.  An ETag is modelled by the page it names.  The filter for pull *)
(* requests and the rewriting of Link are functions of the page and are    *)
(* left out, as are the counters hits and misses, which only tests read.   *)
(***************************************************************************)
EXTENDS ResponseCache

CONSTANTS Requests,       \* handlers that may run at the same time
          Keys,           \* queries: (state, labels, page, per_page)
          Pages,          \* what a query may be answered with
          EmptyPage,      \* the list of no issues
          NoEtag,         \* no validator, no ETag
          NoEntry,        \* cache.get() found nothing
          NoKey,          \* what an idle handler is asked for
          CacheEnabled    \* settings.cache_enabled

ASSUME ValuesAssumption ==
  /\ EmptyPage \in Pages
  /\ NoEtag \notin Pages
  /\ NoKey \notin Keys
  /\ CacheEnabled \in BOOLEAN

Etags == Pages \cup {NoEtag}
EntrySet == [key : Keys, etag : Pages, data : Pages]

ASSUME NoEntryAssumption == NoEntry \notin EntrySet \cup Etags

VARIABLES
  upstream,   \* the page of each query at GitHub
  entries,    \* the content of app.state.cache
  req,        \* per handler: where it is and what it holds
  used        \* history: <<j, k>> when the last use of k is later than j's

vars == <<upstream, entries, req, used>>

NoAnswer == [status |-> 0, etag |-> NoEtag, data |-> EmptyPage]

Idle == [pc |-> "idle", key |-> NoKey, inm |-> NoEtag, cached |-> NoEntry,
         answer |-> NoAnswer]

(* The key becomes the last one used. *)
UseOf(key) == {p \in used : p[1] # key /\ p[2] # key}
                \cup ((Keys \ {key}) \X {key})

-----------------------------------------------------------------------------
(* The handler.                                                            *)

(* conditional_etag: the caller's own validator wins over the cached one.  *)
Conditional(c) ==
  IF c.inm # NoEtag THEN c.inm
  ELSE IF c.cached # NoEntry THEN c.cached.etag ELSE NoEtag

(* From the call to the await. *)
List(r, key, inm) ==
  LET found == CacheEnabled /\ Has(entries, key)
  IN  /\ req[r].pc = "idle"
      /\ req' = [req EXCEPT ![r] =
                  [pc |-> "sent", key |-> key, inm |-> inm, answer |-> NoAnswer,
                   cached |-> IF found THEN Entry(entries, key) ELSE NoEntry]]
      /\ IF found
         THEN entries' = Touch(entries, key) /\ used' = UseOf(key)
         ELSE UNCHANGED <<entries, used>>
      /\ UNCHANGED upstream

(* A reply has the fields of an answer; an error has status 0. *)
Reply(r, answer) ==
  req' = [req EXCEPT ![r] = [Idle EXCEPT !.pc = "done", !.key = req[r].key,
                                         !.answer = answer]]

(* 304 to the caller's own validator: nothing to serve, nothing to cache.  *)
CompleteNotModified(r) ==
  LET c == req[r]
  IN  /\ c.pc = "answered" /\ c.answer.status = 304 /\ c.inm # NoEtag
      /\ Reply(r, [status |-> 304, etag |-> c.inm, data |-> EmptyPage])
      /\ UNCHANGED <<upstream, entries, used>>

(* Mutant: the caller's validator is not looked at first. *)
CompleteHitFirst(r) ==
  LET c == req[r]
  IN  /\ c.pc = "answered" /\ c.answer.status = 304 /\ c.cached # NoEntry
      /\ Reply(r, [status |-> 200, etag |-> c.cached.etag,
                   data |-> c.cached.data])
      /\ UNCHANGED <<upstream, entries, used>>

(* 304 to the cached validator: the entry got before the await is served,  *)
(* whatever has happened to the cache since.                               *)
CompleteHit(r) ==
  LET c == req[r]
  IN  /\ c.pc = "answered" /\ c.answer.status = 304
      /\ c.inm = NoEtag /\ c.cached # NoEntry
      /\ Reply(r, [status |-> 200, etag |-> c.cached.etag,
                   data |-> c.cached.data])
      /\ UNCHANGED <<upstream, entries, used>>

(* Mutant: any 304 that is no hit is cached with its empty body. *)
CompleteMissOn304(r) ==
  LET c     == req[r]
      entry == [key |-> c.key, etag |-> c.answer.etag, data |-> c.answer.data]
  IN  /\ c.pc = "answered"
      /\ ~ (c.answer.status = 304 /\ c.cached # NoEntry)
      /\ Reply(r, [status |-> 200, etag |-> entry.etag, data |-> entry.data])
      /\ IF CacheEnabled /\ entry.etag # NoEtag
         THEN entries' = Put(entries, entry) /\ used' = UseOf(c.key)
         ELSE UNCHANGED <<entries, used>>
      /\ UNCHANGED upstream

(* Mutant: an answer without an ETag is cached, too. *)
CompleteMissWithoutEtag(r) ==
  LET c     == req[r]
      entry == [key |-> c.key, etag |-> c.answer.etag, data |-> c.answer.data]
  IN  /\ c.pc = "answered"
      /\ ~ (c.answer.status = 304 /\ (c.inm # NoEtag \/ c.cached # NoEntry))
      /\ Reply(r, [status |-> 200, etag |-> entry.etag, data |-> entry.data])
      /\ IF CacheEnabled
         THEN entries' = Put(entries, entry) /\ used' = UseOf(c.key)
         ELSE UNCHANGED <<entries, used>>
      /\ UNCHANGED upstream

(* Everything else is served as it came, and cached if it has an ETag.     *)
CompleteMiss(r) ==
  LET c     == req[r]
      entry == [key |-> c.key, etag |-> c.answer.etag, data |-> c.answer.data]
  IN  /\ c.pc = "answered"
      /\ ~ (c.answer.status = 304 /\ (c.inm # NoEtag \/ c.cached # NoEntry))
      /\ Reply(r, [status |-> 200, etag |-> entry.etag, data |-> entry.data])
      /\ IF CacheEnabled /\ entry.etag # NoEtag
         THEN entries' = Put(entries, entry) /\ used' = UseOf(c.key)
         ELSE UNCHANGED <<entries, used>>
      /\ UNCHANGED upstream

Complete(r) == CompleteNotModified(r) \/ CompleteHit(r) \/ CompleteMiss(r)

(* The framework sends the reply. *)
Respond(r) == /\ req[r].pc = "done"
              /\ req' = [req EXCEPT ![r] = Idle]
              /\ UNCHANGED <<upstream, entries, used>>

-----------------------------------------------------------------------------
(* GitHub, as the handler relies on it, and the process.                   *)

Answered(r, status, etag, data) ==
  req' = [req EXCEPT ![r].pc = "answered",
                     ![r].answer = [status |-> status, etag |-> etag,
                                    data |-> data]]

(* 304 only to a validator that names the current page; a 304 has no body. *)
AnswerNotModified(r) ==
  /\ req[r].pc = "sent"
  /\ Conditional(req[r]) = upstream[req[r].key]
  /\ Answered(r, 304, Conditional(req[r]), EmptyPage)
  /\ UNCHANGED <<upstream, entries, used>>

(* 200 with the current page, with or without an ETag. *)
AnswerPage(r) ==
  /\ req[r].pc = "sent"
  /\ \E etag \in {upstream[req[r].key], NoEtag} :
       Answered(r, 200, etag, upstream[req[r].key])
  /\ UNCHANGED <<upstream, entries, used>>

(* A timeout, a transport error, or a status the client turns into an      *)
(* AppError: the await raises and the handler does nothing more.           *)
RequestFails(r) ==
  /\ req[r].pc = "sent"
  /\ Reply(r, NoAnswer)
  /\ UNCHANGED <<upstream, entries, used>>

(* A 200 whose body is empty or is no JSON: _decode makes it None, and     *)
(* list(result.data or []) the empty list; the ETag is the response's.     *)
AnswerGarbled(r) ==
  /\ req[r].pc = "sent"
  /\ Answered(r, 200, upstream[req[r].key], EmptyPage)
  /\ UNCHANGED <<upstream, entries, used>>

UpstreamChanges(key) ==
  /\ \E page \in Pages : upstream' = [upstream EXCEPT ![key] = page]
  /\ UNCHANGED <<entries, req, used>>

(* The cache is per-process. *)
Restart ==
  /\ entries' = <<>> /\ used' = {}
  /\ req' = [r \in Requests |-> Idle]
  /\ UNCHANGED upstream

-----------------------------------------------------------------------------

Init ==
  /\ upstream \in [Keys -> Pages]
  /\ entries = <<>>
  /\ req = [r \in Requests |-> Idle]
  /\ used = {}

Handle(r) ==
  \/ \E key \in Keys, inm \in Etags : List(r, key, inm)
  \/ AnswerNotModified(r) \/ AnswerPage(r) \/ RequestFails(r)
  \/ Complete(r) \/ Respond(r)

Next == \/ \E r \in Requests : Handle(r)
        \/ \E key \in Keys : UpstreamChanges(key)
        \/ Restart

Spec == Init /\ [][Next]_vars

(* The same with bodies that cannot be decoded. *)
SpecGarbled ==
  Init /\ [][Next \/ \E r \in Requests : AnswerGarbled(r)]_vars

-----------------------------------------------------------------------------
(* TypeOK: the state has its shape. *)
AnswerSet == [status : {0, 200, 304}, etag : Etags, data : Pages]

HandlerSet ==
  [pc : {"idle", "sent", "answered", "done"}, key : Keys \cup {NoKey},
   inm : Etags, cached : EntrySet \cup {NoEntry}, answer : AnswerSet]

TypeOK ==
  /\ upstream \in [Keys -> Pages]
  /\ entries \in Seq(EntrySet)
  /\ req \in [Requests -> HandlerSet]
  /\ used \subseteq Keys \X Keys

(* EtagNamesData: every page the cache holds is the one its ETag names     *)
(* ("a previously fetched page, held alongside the ETag that identifies    *)
(* it"), so a 304 to that ETag means that the page is current.             *)
EtagNamesData ==
  \A i \in 1 .. Len(entries) : entries[i].data = entries[i].etag

(* CacheBounded: no query is cached twice, and no more than MaxEntries     *)
(* are, in whatever order concurrent misses store their entries.           *)
CacheBounded ==
  /\ Len(entries) <= MaxEntries
  /\ \A i, j \in 1 .. Len(entries) : entries[i].key = entries[j].key => i = j

(* EvictsLeastRecent: a step that drops entries drops those whose last use *)
(* (a get that found them or a set) is older than that of all that stay.   *)
EvictsLeastRecent ==
  [][entries' # <<>> =>
       \A j \in KeysIn(entries) \ KeysIn(entries'),
          k \in KeysIn(entries) \cap KeysIn(entries') : <<j, k>> \in used]_vars

-----------------------------------------------------------------------------
(* What a caller of GET /issues is promised, with no cache in sight: the   *)
(* page the handler will answer with is settled when GitHub answers.       *)
Told(c) ==
  CASE c.pc = "answered" -> IF c.answer.status = 304
                            THEN Conditional(c) ELSE c.answer.data
    [] c.pc = "done" -> IF c.answer.status = 0 THEN NoEtag
                        ELSE IF c.answer.status = 304
                        THEN c.answer.etag ELSE c.answer.data
    [] OTHER -> NoEntry

Fresh == INSTANCE FreshList
           WITH asked   <- [r \in Requests |-> req[r].key],
                told    <- [r \in Requests |-> Told(req[r])],
                Failure <- NoEtag,
                Nothing <- NoEntry

FreshSpec == Fresh!Spec
=============================================================================
