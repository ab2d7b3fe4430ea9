--------------------------- MODULE WebhookService ---------------------------
(***************************************************************************)
(* The two handlers over the event store (app/routers/webhooks.py), run by *)
(* any number of concurrent tasks:                                         *)
(*                                                                         *)
(*   POST /webhook   checks the delivery (WebhookRequest), awaits          *)
(*                   store.record, answers 204 and logs whether the        *)
(*                   delivery was a duplicate                              *)
(*   GET /events     awaits store.recent and answers with the rows         *)
(*                                                                         *)
(* A request that fails a check is answered without a change of state and  *)
(* is no step of this module.  An exception of the store is an             *)
(* unhandled one: 500.                                                     *)
(***************************************************************************)
EXTENDS EventStore, WebhookRequest

CONSTANTS Requests,        \* the requests POST /webhook may get
          Limits,          \* the values of ?limit= (1..500 in the code)
          EventsMaxLimit,  \* settings.events_max_limit
          MaxClock         \* bound: the last value of the clock

ASSUME RequestsAssumption ==
  \A r \in Requests : Accepted(r) => Summarize(r) \in Deliveries
ASSUME LimitsAssumption == Limits \subseteq Int /\ EventsMaxLimit \in Int
ASSUME ClockAssumption == MaxClock \in Nat

VARIABLES
  clock,         \* datetime.now(UTC)
  acked,         \* history: keys of the deliveries answered with 204
  firsts,        \* history: per key, the 204s logged with duplicate=False
  owed,          \* history: acked when the listing of a task began
  commitFailed   \* history: a COMMIT has failed since the last one that did not

history == <<acked, firsts, owed, commitFailed>>
vars == <<storeVars, clock, history>>

Keys == {Key(d) : d \in Deliveries}

-----------------------------------------------------------------------------

Receive(t, r) ==
  /\ Accepted(r)
  /\ Record(t, Summarize(r), clock)
  /\ UNCHANGED <<clock, history>>

AfterInsert(t) == RecordCommit(t) /\ UNCHANGED <<clock, history>>

(* 204, and the background task logs duplicate=not stored. *)
Acknowledge(t) ==
  LET key == Key(coro[t].delivery)
  IN  /\ RecordReturn(t)
      /\ acked' = acked \cup {key}
      /\ firsts' = [firsts EXCEPT ![key] = IF coro[t].new THEN @ + 1 ELSE @]
      /\ UNCHANGED <<clock, owed, commitFailed>>

(* capped = min(limit, settings.events_max_limit) *)
ListEvents(t, n) ==
  /\ Recent(t, IF n < EventsMaxLimit THEN n ELSE EventsMaxLimit)
  /\ owed' = [owed EXCEPT ![t] = acked]
  /\ UNCHANGED <<clock, acked, firsts, commitFailed>>

AfterSelect(t) == RecentFetch(t) /\ UNCHANGED <<clock, history>>

ListReply(t) ==
  /\ RecentReturn(t)
  /\ owed' = [owed EXCEPT ![t] = {}]
  /\ UNCHANGED <<clock, acked, firsts, commitFailed>>

(* handle_unexpected: 500 internal_error, to either request. *)
Fail(t) ==
  /\ Raise(t)
  /\ owed' = [owed EXCEPT ![t] = {}]
  /\ UNCHANGED <<clock, acked, firsts, commitFailed>>

Handler(t) == \/ AfterInsert(t) \/ Acknowledge(t)
              \/ AfterSelect(t) \/ ListReply(t) \/ Fail(t)

-----------------------------------------------------------------------------

Thread ==
  /\ ThreadStep
  /\ commitFailed' = (commitFailed /\ ~ Executes("commit"))
  /\ UNCHANGED <<clock, acked, firsts, owed>>

Fault ==
  /\ ThreadFault
  /\ commitFailed' = (commitFailed \/ Executes("commit"))
  /\ UNCHANGED <<clock, acked, firsts, owed>>

Rollback == ThreadRollback /\ UNCHANGED <<clock, history>>

Startup == Connect /\ UNCHANGED <<clock, history>>

(* The answers given before a restart stay given. *)
Restart ==
  /\ Close \/ Crash
  /\ owed' = [t \in Tasks |-> {}]
  /\ commitFailed' = FALSE
  /\ UNCHANGED <<clock, acked, firsts>>

Tick == clock < MaxClock /\ clock' = clock + 1 /\ UNCHANGED <<storeVars, history>>

-----------------------------------------------------------------------------

Init ==
  /\ StoreInit
  /\ clock = 1
  /\ acked = {}
  /\ firsts = [k \in Keys |-> 0]
  /\ owed = [t \in Tasks |-> {}]
  /\ commitFailed = FALSE

Next ==
  \/ \E t \in Tasks : \/ \E r \in Requests : Receive(t, r)
                      \/ \E n \in Limits : ListEvents(t, n)
                      \/ Handler(t)
  \/ Thread \/ Fault \/ Startup \/ Restart \/ Tick

(* The event loop resumes a task whose call has returned, and the worker   *)
(* thread takes the next call as long as there is one.                     *)
Fairness == WF_vars(Thread) /\ \A t \in Tasks : WF_vars(Handler(t))

Spec == Init /\ [][Next]_vars /\ Fairness

(* The same system on a disk that may be full. *)
SpecFullDisk == Init /\ [][Next \/ Rollback]_vars

-----------------------------------------------------------------------------
(* TypeOK: the state has its shape. *)
RowSet == [delivery : Deliveries, at : Nat, rowid : Nat]

CoroSet ==
  [pc : {"idle", "insert", "commit", "select", "fetch"},
   reply : {"pending", "ok", "error"},
   delivery : Deliveries \cup {NoDelivery},
   at : Nat, limit : Int, new : BOOLEAN, rows : Seq(RowSet)]

TypeOK ==
  /\ connected \in BOOLEAN
  /\ table \subseteq RowSet /\ txn \subseteq RowSet
  /\ queue \in Seq(Tasks)
  /\ coro \in [Tasks -> CoroSet]
  /\ clock \in Nat
  /\ acked \subseteq Keys
  /\ firsts \in [Keys -> Nat]
  /\ owed \in [Tasks -> SUBSET Keys]
  /\ commitFailed \in BOOLEAN

(* AckedIsDurable: a delivery that was answered with 204 is in the table   *)
(* and stays there, whatever the other tasks, a failed call or a crash do: *)
(* the 204 is sent after record() has awaited the commit.                  *)
AckedIsDurable == acked \subseteq KeysOf(table)

(* ReportedNewOnce: of all the deliveries of one key, concurrent ones      *)
(* and redeliveries after a 500 or a crash included, at most one is        *)
(* answered as new (record() returned True).                               *)
ReportedNewOnce == \A k \in Keys : firsts[k] <= 1

(* OneRowPerKey: the committed rows and those of the open transaction hold *)
(* no key twice, and no two rows have one rowid.                           *)
OneRowPerKey ==
  \A r, s \in Rows :
    Key(r.delivery) = Key(s.delivery) \/ r.rowid = s.rowid => r = s

(* ListingIsRecent: a list of GET /events is an unbroken run of the latest *)
(* arrivals, newest first, no longer than the limit; it ends early only at *)
(* the first row, and a delivery acknowledged before the request is in it  *)
(* unless it is full of later arrivals.                                    *)
Listing(t) == coro[t].rows

ListingIsRecent ==
  \A t \in Tasks : coro[t].pc = "fetch" /\ coro[t].reply = "ok" =>
    LET list == Listing(t)  n == Len(list)
    IN  /\ coro[t].limit >= 0 => n <= coro[t].limit
        /\ \A i \in 1 .. n - 1 : list[i].rowid = list[i + 1].rowid + 1
        /\ n < coro[t].limit /\ n > 0 => list[n].rowid = 1
        /\ \A k \in owed[t] :
             \/ \E i \in 1 .. n : Key(list[i].delivery) = k
             \/ n = coro[t].limit

(* NothingLeftPending: when no request is in progress the connection has   *)
(* no open transaction, unless a commit failed: no path through record()   *)
(* forgets the rows it has inserted.                                       *)
NothingLeftPending ==
  (\A t \in Tasks : coro[t].pc = "idle") /\ ~ commitFailed => txn = {}

(* RequestAnswered: every request that has reached the store is answered,  *)
(* by a reply, an error or the death of the process.                       *)
RequestAnswered ==
  \A t \in Tasks : coro[t].pc # "idle" ~> coro[t].pc = "idle"

(* ListedIsDurable: a delivery shown by GET /events is in the table: what  *)
(* the list confirms to have been recorded was recorded (openapi.yaml).    *)
ListedIsDurable ==
  \A t \in Tasks : coro[t].pc = "fetch" /\ coro[t].reply = "ok" =>
    \A i \in DOMAIN Listing(t) : Listing(t)[i] \in table

-----------------------------------------------------------------------------
(* What the service promises the sender of deliveries. *)
Log == INSTANCE DeliveryLog WITH log <- table

LogSpec == Log!Spec
=============================================================================
