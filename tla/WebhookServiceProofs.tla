------------------------ MODULE WebhookServiceProofs ------------------------
(***************************************************************************)
(* Proofs about WebhookService, for any set of tasks and of requests: the  *)
(* state keeps its type, an acknowledged delivery is durable, one delivery *)
(* per key at most is answered as new, no key is stored twice, nothing     *)
(* stays pending, and the service implements DeliveryLog.                  *)
(***************************************************************************)
EXTENDS WebhookService, SequenceTheorems, FiniteSetTheorems, TLAPS

-----------------------------------------------------------------------------
(* The inductive invariant.                                                *)

(* Each task has at most one call with the worker thread, and is waiting   *)
(* for it.                                                                 *)
QueueOK ==
  /\ \A i \in 1 .. Len(queue) : /\ coro[queue[i]].pc # "idle"
                                /\ coro[queue[i]].reply = "pending"
  /\ \A i, j \in 1 .. Len(queue) : queue[i] = queue[j] => i = j

(* What record() knows about its delivery at each of its awaits.           *)
RecordAt(t) ==
  /\ coro[t].pc \in {"insert", "commit"} => coro[t].delivery \in Deliveries
  /\ coro[t].pc = "insert" /\ coro[t].reply = "ok" =>
       Key(coro[t].delivery) \in KeysOf(Rows)
  /\ coro[t].pc = "commit" => Key(coro[t].delivery) \in KeysOf(Rows)
  /\ coro[t].pc = "commit" /\ coro[t].reply = "ok" =>
       Key(coro[t].delivery) \in KeysOf(table)

RecordOK == \A t \in Tasks : RecordAt(t)

(* A task whose INSERT made a row is the only one that will report its key *)
(* as new, and nobody has.                                                 *)
ClaimsOK ==
  \A t \in Tasks : coro[t].new =>
    /\ coro[t].pc \in {"insert", "commit"}
    /\ coro[t].pc = "insert" => coro[t].reply = "ok"
    /\ firsts[Key(coro[t].delivery)] = 0
    /\ \A u \in Tasks : /\ coro[u].new
                        /\ Key(coro[u].delivery) = Key(coro[t].delivery)
                        => u = t

ReportsOK == \A k \in Keys : firsts[k] > 0 => k \in acked

(* Rowids number the rows; those of the table come first.                  *)
RowidsOK ==
  /\ \A r \in table : r.rowid <= Cardinality(table)
  /\ \A r \in Rows : r.rowid <= Cardinality(Rows)

(* Someone is going to commit what is pending.                             *)
PendingOK ==
  \/ txn = {}
  \/ commitFailed
  \/ \E t \in Tasks : \/ coro[t].pc = "insert" /\ coro[t].reply = "ok"
                      \/ coro[t].pc = "commit" /\ coro[t].reply = "pending"

FiniteOK == IsFiniteSet(table) /\ IsFiniteSet(txn)

TypeInv == TypeOK /\ FiniteOK

IInv == /\ TypeInv /\ QueueOK /\ RecordOK /\ ClaimsOK /\ ReportsOK
        /\ RowidsOK /\ PendingOK
        /\ AckedIsDurable /\ ReportedNewOnce /\ OneRowPerKey

-----------------------------------------------------------------------------
(* Lemmas about the operators of the store.                                *)

(* A list that answers a SELECT is a sequence of rows. *)
LEMMA NewestType ==
  ASSUME NEW S, NEW rows \in SUBSET S, IsFiniteSet(rows), NEW n \in Int,
         NEW list \in Newest(rows, n)
  PROVE  list \in Seq(S)
<1>1. Cardinality(rows) \in Nat
  BY FS_CardinalityType
<1>2. PICK m \in Nat : list \in [1 .. m -> rows]
  BY <1>1 DEF Newest
<1>3. QED
  BY <1>2, SeqDef

(* The rows a task sees are finitely many, so the next rowid is a number. *)
LEMMA NextRowidType ==
  ASSUME FiniteOK
  PROVE  IsFiniteSet(Rows) /\ NextRowid \in Nat
<1>1. IsFiniteSet(Rows)
  BY FS_Union DEF FiniteOK, Rows
<1>2. QED
  BY <1>1, FS_CardinalityType DEF NextRowid

(* An idle task's record, and the steps a call takes through its fields,   *)
(* keep the type of coro.                                                  *)
LEMMA IdleType == Idle \in CoroSet
BY EmptySeq DEF Idle, CoroSet

-----------------------------------------------------------------------------
(* Type correctness.                                                       *)

LEMMA InitType == Init => TypeInv
<1> SUFFICES ASSUME Init PROVE TypeInv
  OBVIOUS
<1>1. coro \in [Tasks -> CoroSet]
  BY IdleType DEF Init, StoreInit
<1>2. queue \in Seq(Tasks)
  BY EmptySeq DEF Init, StoreInit
<1>3. FiniteOK
  BY FS_EmptySet DEF Init, StoreInit, FiniteOK
<1>4. QED
  BY <1>1, <1>2, <1>3 DEF Init, StoreInit, TypeInv, TypeOK

(* The step of a coroutine: the handed-over call is well typed. *)
LEMMA CallType ==
  ASSUME TypeInv, NEW t \in Tasks, NEW c \in CoroSet, Call(t, c)
  PROVE  coro' \in [Tasks -> CoroSet] /\ queue' \in Seq(Tasks)
BY AppendProperties DEF TypeInv, TypeOK, Call

(* The step of the thread: so is the result. *)
LEMMA ReplyType ==
  ASSUME TypeInv, NEW c \in CoroSet, queue # <<>>, Reply(c)
  PROVE  coro' \in [Tasks -> CoroSet] /\ queue' \in Seq(Tasks)
BY HeadTailProperties DEF TypeInv, TypeOK, Reply

LEMMA CurrentType ==
  ASSUME TypeInv, queue # <<>>
  PROVE  Head(queue) \in Tasks /\ Current \in CoroSet
BY HeadTailProperties DEF TypeInv, TypeOK, Current

LEMMA HandlerType ==
  ASSUME TypeInv, NEW t \in Tasks, Handler(t), RecordOK
  PROVE  TypeInv'
<1> USE DEF TypeInv, TypeOK, FiniteOK
<1>1. CASE AfterInsert(t)
  <2>1. [coro[t] EXCEPT !.pc = "commit", !.reply = "pending"] \in CoroSet
    BY DEF CoroSet
  <2>2. QED
    BY <1>1, <2>1, CallType DEF AfterInsert, RecordCommit, history
<1>2. CASE Acknowledge(t)
  <2>1. Key(coro[t].delivery) \in Keys
    BY <1>2 DEF Acknowledge, RecordReturn, RecordOK, RecordAt, Keys
  <2>2. coro' \in [Tasks -> CoroSet]
    BY <1>2, IdleType DEF Acknowledge, RecordReturn
  <2>3. firsts' \in [Keys -> Nat]
    BY <1>2, <2>1 DEF Acknowledge
  <2>4. acked' \subseteq Keys
    BY <1>2, <2>1 DEF Acknowledge
  <2>5. QED
    BY <1>2, <2>2, <2>3, <2>4 DEF Acknowledge, RecordReturn
<1>3. CASE AfterSelect(t)
  <2>1. [coro[t] EXCEPT !.pc = "fetch", !.reply = "pending"] \in CoroSet
    BY DEF CoroSet
  <2>2. QED
    BY <1>3, <2>1, CallType DEF AfterSelect, RecentFetch, history
<1>4. CASE ListReply(t)
  BY <1>4, IdleType DEF ListReply, RecentReturn
<1>5. CASE Fail(t)
  BY <1>5, IdleType DEF Fail, Raise
<1>6. QED
  BY <1>1, <1>2, <1>3, <1>4, <1>5 DEF Handler

LEMMA ThreadType ==
  ASSUME TypeInv, RecordOK, Thread
  PROVE  TypeInv'
<1> USE DEF TypeInv, TypeOK
<1>0. queue # <<>> /\ Head(queue) \in Tasks /\ Current \in CoroSet
  BY CurrentType DEF Thread, ThreadStep, Executes, ThreadInsert, ThreadIgnore,
     ThreadReject, ThreadCommit, ThreadSelect, ThreadFetch
<1>1. commitFailed' \in BOOLEAN /\ UNCHANGED <<clock, acked, firsts, owed>>
  BY DEF Thread
<1>2. CASE ThreadInsert
  <2>1. [Current EXCEPT !.reply = "ok", !.new = TRUE] \in CoroSet
    BY <1>0 DEF CoroSet
  <2>2. coro' \in [Tasks -> CoroSet] /\ queue' \in Seq(Tasks)
    BY <1>0, <1>2, <2>1, ReplyType DEF ThreadInsert
  <2>3. Current.delivery \in Deliveries
    BY <1>0, <1>2 DEF ThreadInsert, Executes, Current, RecordOK, RecordAt
  <2>4. Row(Current) \in RowSet
    BY <1>0, <2>3, NextRowidType DEF Row, RowSet, CoroSet
  <2>5. IsFiniteSet(txn')
    BY <1>2, FS_AddElement DEF ThreadInsert, FiniteOK
  <2>6. QED
    BY <1>1, <1>2, <2>2, <2>4, <2>5 DEF ThreadInsert, FiniteOK
<1>3. CASE ThreadIgnore
  <2>1. [Current EXCEPT !.reply = "ok", !.new = FALSE] \in CoroSet
    BY <1>0 DEF CoroSet
  <2>2. QED
    BY <1>0, <1>1, <1>3, <2>1, ReplyType DEF ThreadIgnore, FiniteOK
<1>4. CASE ThreadReject
  <2>1. [Current EXCEPT !.reply = "error"] \in CoroSet
    BY <1>0 DEF CoroSet
  <2>2. QED
    BY <1>0, <1>1, <1>4, <2>1, ReplyType DEF ThreadReject, FiniteOK
<1>5. CASE ThreadCommit
  <2>1. [Current EXCEPT !.reply = "ok"] \in CoroSet
    BY <1>0 DEF CoroSet
  <2>2. coro' \in [Tasks -> CoroSet] /\ queue' \in Seq(Tasks)
    BY <1>0, <1>5, <2>1, ReplyType DEF ThreadCommit
  <2>3. IsFiniteSet(table') /\ IsFiniteSet(txn')
    BY <1>5, NextRowidType, FS_EmptySet DEF ThreadCommit
  <2>4. QED
    BY <1>1, <1>5, <2>2, <2>3 DEF ThreadCommit, FiniteOK, Rows
<1>6. CASE ThreadSelect
  <2>1. PICK list \in Newest(Rows, Current.limit) :
          Reply([Current EXCEPT !.reply = "ok", !.rows = list])
    BY <1>6 DEF ThreadSelect
  <2>2. list \in Seq(RowSet)
    <3>1. Rows \in SUBSET RowSet
      BY DEF Rows
    <3>2. Current.limit \in Int
      BY <1>0 DEF CoroSet
    <3>3. QED
      BY <2>1, <3>1, <3>2, NextRowidType, NewestType
  <2>3. [Current EXCEPT !.reply = "ok", !.rows = list] \in CoroSet
    BY <1>0, <2>2 DEF CoroSet
  <2>4. coro' \in [Tasks -> CoroSet] /\ queue' \in Seq(Tasks)
    BY <1>0, <2>1, <2>3, ReplyType
  <2>5. QED
    BY <1>1, <1>6, <2>4 DEF ThreadSelect, FiniteOK
<1>7. CASE ThreadFetch
  <2>1. [Current EXCEPT !.reply = "ok"] \in CoroSet
    BY <1>0 DEF CoroSet
  <2>2. QED
    BY <1>0, <1>1, <1>7, <2>1, ReplyType DEF ThreadFetch, FiniteOK
<1>8. QED
  BY <1>2, <1>3, <1>4, <1>5, <1>6, <1>7 DEF Thread, ThreadStep

LEMMA RequestType ==
  ASSUME TypeInv, NEW t \in Tasks,
         \/ \E r \in Requests : Receive(t, r)
         \/ \E n \in Limits : ListEvents(t, n)
  PROVE  TypeInv'
<1> USE DEF TypeInv, TypeOK, FiniteOK
<1>1. ASSUME NEW r \in Requests, Receive(t, r) PROVE TypeInv'
  <2> DEFINE c == [Idle EXCEPT !.pc = "insert", !.delivery = Summarize(r), !.at = clock]
  <2>1. c \in CoroSet
    BY <1>1, IdleType, RequestsAssumption DEF CoroSet, Receive
  <2>2. Call(t, c)
    BY <1>1 DEF Receive, Record
  <2>3. coro' \in [Tasks -> CoroSet] /\ queue' \in Seq(Tasks)
    BY <2>1, <2>2, CallType
  <2>4. QED
    BY <1>1, <2>3 DEF Receive, Record, history
<1>2. ASSUME NEW n \in Limits, ListEvents(t, n) PROVE TypeInv'
  <2> DEFINE capped == IF n < EventsMaxLimit THEN n ELSE EventsMaxLimit
             c == [Idle EXCEPT !.pc = "select", !.limit = capped]
  <2>1. c \in CoroSet
    BY <1>2, IdleType, LimitsAssumption DEF CoroSet
  <2>2. Call(t, c)
    BY <1>2 DEF ListEvents, Recent
  <2>3. coro' \in [Tasks -> CoroSet] /\ queue' \in Seq(Tasks)
    BY <2>1, <2>2, CallType
  <2>4. QED
    BY <1>2, <2>3 DEF ListEvents, Recent
<1>3. QED
  BY <1>1, <1>2

LEMMA EnvironmentType ==
  ASSUME TypeInv, Fault \/ Startup \/ Restart \/ Tick
  PROVE  TypeInv'
<1> USE DEF TypeInv, TypeOK, FiniteOK
<1>1. CASE Fault
  <2>1. queue # <<>> /\ Current \in CoroSet
    BY <1>1, CurrentType DEF Fault, ThreadFault
  <2>2. [Current EXCEPT !.reply = "error"] \in CoroSet
    BY <2>1 DEF CoroSet
  <2>3. coro' \in [Tasks -> CoroSet] /\ queue' \in Seq(Tasks)
    BY <1>1, <2>1, <2>2, ReplyType DEF Fault, ThreadFault
  <2>4. QED
    BY <1>1, <2>3 DEF Fault, ThreadFault
<1>2. CASE Startup
  BY <1>2 DEF Startup, Connect, history
<1>3. CASE Restart
  BY <1>3, IdleType, EmptySeq, FS_EmptySet DEF Restart, Close, Crash
<1>4. CASE Tick
  BY <1>4, ClockAssumption DEF Tick, storeVars, history
<1>5. QED
  BY <1>1, <1>2, <1>3, <1>4

LEMMA StepType == TypeInv /\ RecordOK /\ [Next]_vars => TypeInv'
<1> SUFFICES ASSUME TypeInv, RecordOK, [Next]_vars PROVE TypeInv'
  OBVIOUS
<1>1. CASE Next
  <2>1. ASSUME NEW t \in Tasks, \/ \E r \in Requests : Receive(t, r)
                               \/ \E n \in Limits : ListEvents(t, n)
        PROVE  TypeInv'
    BY <2>1, RequestType
  <2>2. ASSUME NEW t \in Tasks, Handler(t) PROVE TypeInv'
    BY <2>2, HandlerType
  <2>3. CASE Thread
    BY <2>3, ThreadType
  <2>4. CASE Fault \/ Startup \/ Restart \/ Tick
    BY <2>4, EnvironmentType
  <2>5. QED
    BY <1>1, <2>1, <2>2, <2>3, <2>4 DEF Next
<1>2. CASE UNCHANGED vars
  BY <1>2 DEF vars, storeVars, history, TypeInv, TypeOK, FiniteOK
<1>3. QED
  BY <1>1, <1>2

-----------------------------------------------------------------------------
(* One call per task (QueueOK).                                            *)

(* A task that waits for nothing is not in the queue. *)
LEMMA NotQueued ==
  ASSUME TypeInv, QueueOK, NEW t \in Tasks,
         coro[t].pc = "idle" \/ coro[t].reply # "pending"
  PROVE  \A i \in 1 .. Len(queue) : queue[i] # t
BY DEF QueueOK

LEMMA CallQueue ==
  ASSUME TypeInv, QueueOK, NEW t \in Tasks, NEW c \in CoroSet, Call(t, c),
         coro[t].pc = "idle" \/ coro[t].reply # "pending",
         c.pc # "idle", c.reply = "pending"
  PROVE  QueueOK'
<1>1. /\ queue \in Seq(Tasks) /\ Len(queue) \in Nat
      /\ coro \in [Tasks -> CoroSet]
      /\ \A i \in 1 .. Len(queue) : queue[i] \in Tasks
  BY ElementOfSeq, LenProperties DEF TypeInv, TypeOK
<1>2. /\ Len(queue') = Len(queue) + 1
      /\ \A i \in 1 .. Len(queue) : queue'[i] = queue[i]
      /\ queue'[Len(queue) + 1] = t
  BY <1>1, AppendProperties DEF Call
<1>3. \A i \in 1 .. Len(queue) : queue[i] # t
  BY NotQueued
<1>4. coro' = [coro EXCEPT ![t] = c]
  BY DEF Call
<1>5. QED
  BY <1>1, <1>2, <1>3, <1>4 DEF QueueOK

LEMMA ReplyQueue ==
  ASSUME TypeInv, QueueOK, queue # <<>>, NEW c, Reply(c)
  PROVE  QueueOK'
<1>1. /\ queue \in Seq(Tasks) /\ Len(queue) \in Nat
      /\ coro \in [Tasks -> CoroSet]
      /\ \A i \in 1 .. Len(queue) : queue[i] \in Tasks
  BY ElementOfSeq, LenProperties DEF TypeInv, TypeOK
<1>2. /\ Len(queue') = Len(queue) - 1
      /\ \A i \in 1 .. Len(queue) - 1 : queue'[i] = queue[i + 1]
      /\ Head(queue) = queue[1]
  BY <1>1, HeadTailProperties DEF Reply
<1>3. coro' = [coro EXCEPT ![queue[1]] = c]
  BY <1>2 DEF Reply
<1>4. QED
  BY <1>1, <1>2, <1>3 DEF QueueOK

LEMMA LeaveQueue ==
  ASSUME TypeInv, QueueOK, NEW t \in Tasks, coro[t].reply # "pending",
         coro' = [coro EXCEPT ![t] = Idle], queue' = queue
  PROVE  QueueOK'
<1>1. /\ coro \in [Tasks -> CoroSet]
      /\ \A i \in 1 .. Len(queue) : queue[i] \in Tasks
  BY ElementOfSeq, LenProperties DEF TypeInv, TypeOK
<1>2. QED
  BY <1>1, NotQueued DEF QueueOK

LEMMA InitQueue == Init => QueueOK
BY EmptySeq DEF Init, StoreInit, QueueOK

LEMMA QueueStep == TypeInv /\ QueueOK /\ [Next]_vars => QueueOK'
<1> SUFFICES ASSUME TypeInv, QueueOK, [Next]_vars PROVE QueueOK'
  OBVIOUS
<1> USE DEF TypeInv, TypeOK
<1>1. ASSUME NEW t \in Tasks, NEW r \in Requests, Receive(t, r) PROVE QueueOK'
  <2> DEFINE c == [Idle EXCEPT !.pc = "insert", !.delivery = Summarize(r), !.at = clock]
  <2>1. c \in CoroSet /\ c.pc # "idle" /\ c.reply = "pending"
    <3>1. c \in CoroSet
      BY <1>1, IdleType, RequestsAssumption DEF Receive, CoroSet
    <3>2. c.pc # "idle" /\ c.reply = "pending"
      BY DEF Idle
    <3>3. QED
      BY <3>1, <3>2
  <2>2. Call(t, c) /\ coro[t].pc = "idle"
    BY <1>1 DEF Receive, Record
  <2>3. QED
    BY <2>1, <2>2, CallQueue
<1>2. ASSUME NEW t \in Tasks, NEW n \in Limits, ListEvents(t, n) PROVE QueueOK'
  <2> DEFINE capped == IF n < EventsMaxLimit THEN n ELSE EventsMaxLimit
             c == [Idle EXCEPT !.pc = "select", !.limit = capped]
  <2>1. c \in CoroSet /\ c.pc # "idle" /\ c.reply = "pending"
    <3>1. c \in CoroSet
      BY IdleType, LimitsAssumption DEF CoroSet
    <3>2. c.pc # "idle" /\ c.reply = "pending"
      BY DEF Idle
    <3>3. QED
      BY <3>1, <3>2
  <2>2. Call(t, c) /\ coro[t].pc = "idle"
    BY <1>2 DEF ListEvents, Recent
  <2>3. QED
    BY <2>1, <2>2, CallQueue
<1>3. ASSUME NEW t \in Tasks, AfterInsert(t) PROVE QueueOK'
  <2> DEFINE c == [coro[t] EXCEPT !.pc = "commit", !.reply = "pending"]
  <2>1. c \in CoroSet /\ c.pc # "idle" /\ c.reply = "pending"
    BY DEF CoroSet
  <2>2. Call(t, c) /\ coro[t].reply = "ok"
    BY <1>3 DEF AfterInsert, RecordCommit
  <2>3. QED
    BY <2>1, <2>2, CallQueue
<1>4. ASSUME NEW t \in Tasks, AfterSelect(t) PROVE QueueOK'
  <2> DEFINE c == [coro[t] EXCEPT !.pc = "fetch", !.reply = "pending"]
  <2>1. c \in CoroSet /\ c.pc # "idle" /\ c.reply = "pending"
    BY DEF CoroSet
  <2>2. Call(t, c) /\ coro[t].reply = "ok"
    BY <1>4 DEF AfterSelect, RecentFetch
  <2>3. QED
    BY <2>1, <2>2, CallQueue
<1>5. ASSUME NEW t \in Tasks, Acknowledge(t) \/ ListReply(t) \/ Fail(t)
      PROVE  QueueOK'
  BY <1>5, LeaveQueue
     DEF Acknowledge, RecordReturn, ListReply, RecentReturn, Fail, Raise
<1>6. CASE Thread \/ Fault
  <2>1. queue # <<>> /\ \E c : Reply(c)
    BY <1>6 DEF Thread, ThreadStep, Executes, ThreadInsert, ThreadIgnore,
       ThreadReject, ThreadCommit, ThreadSelect, ThreadFetch, Fault, ThreadFault
  <2>2. QED
    BY <2>1, ReplyQueue
<1>7. CASE Restart
  <2>1. CASE Close
    BY <2>1 DEF Close, QueueOK
  <2>2. CASE Crash
    BY <2>2, EmptySeq DEF Crash, QueueOK
  <2>3. QED
    BY <1>7, <2>1, <2>2 DEF Restart
<1>8. CASE Startup \/ Tick \/ UNCHANGED vars
  BY <1>8 DEF Startup, Connect, Tick, vars, storeVars, QueueOK
<1>9. QED
  BY <1>1, <1>2, <1>3, <1>4, <1>5, <1>6, <1>7, <1>8 DEF Next, Handler

-----------------------------------------------------------------------------
(* What a record() knows stays true (RecordOK).                            *)

(* Rows disappear only with the connection, and no task uses it then. *)
LEMMA RowsGrow ==
  ASSUME Next
  PROVE  /\ table \subseteq table'
         /\ ~ Restart => Rows \subseteq Rows'
<1>1. CASE Thread
  BY <1>1 DEF Thread, ThreadStep, ThreadInsert, ThreadIgnore, ThreadReject,
     ThreadCommit, ThreadSelect, ThreadFetch, Rows
<1>2. CASE Restart
  BY <1>2 DEF Restart, Close, Crash
<1>3. CASE ~ Thread /\ ~ Restart
  <2>1. UNCHANGED <<table, txn>>
    BY <1>3 DEF Next, Receive, Record, ListEvents, Recent, Handler, AfterInsert,
       RecordCommit, Acknowledge, RecordReturn, AfterSelect, RecentFetch,
       ListReply, RecentReturn, Fail, Raise, Fault, ThreadFault, Startup,
       Connect, Tick, storeVars
  <2>2. QED
    BY <2>1 DEF Rows
<1>4. QED
  BY <1>1, <1>2, <1>3

(* A task whose call does not move keeps what it knows. *)
LEMMA RecordFrame ==
  ASSUME NEW u \in Tasks, RecordAt(u), coro'[u] = coro[u],
         table \subseteq table', Rows \subseteq Rows'
  PROVE  RecordAt(u)'
BY DEF RecordAt, KeysOf

LEMMA IdleRecord ==
  ASSUME NEW u \in Tasks, coro'[u].pc \notin {"insert", "commit"}
  PROVE  RecordAt(u)'
BY DEF RecordAt

LEMMA InitRecord == Init => RecordOK
BY DEF Init, StoreInit, RecordOK, RecordAt, Idle

LEMMA RecordStep == TypeInv /\ RecordOK /\ [Next]_vars => RecordOK'
<1> SUFFICES ASSUME TypeInv, RecordOK, [Next]_vars, NEW u \in Tasks
             PROVE  RecordAt(u)'
  BY DEF RecordOK
<1>1. RecordAt(u) /\ coro \in [Tasks -> CoroSet]
  BY DEF RecordOK, TypeInv, TypeOK
<1>2. CASE UNCHANGED vars
  BY <1>1, <1>2 DEF vars, storeVars, RecordAt, Rows, KeysOf
<1>3. CASE Restart
  <2>1. coro'[u].pc = "idle"
    BY <1>3 DEF Restart, Close, Crash, Idle
  <2>2. QED
    BY <2>1, IdleRecord
<1>4. ASSUME Next, ~ Restart PROVE RecordAt(u)'
  <2>1. table \subseteq table' /\ Rows \subseteq Rows'
    BY <1>4, RowsGrow
  <2>2. CASE coro'[u] = coro[u]
    BY <1>1, <2>1, <2>2, RecordFrame
  <2>3. ASSUME NEW t \in Tasks, NEW r \in Requests, Receive(t, r)
        PROVE  RecordAt(u)'
    <3>1. CASE u = t
      <4>1. /\ coro'[u].pc = "insert" /\ coro'[u].reply = "pending"
            /\ coro'[u].delivery = Summarize(r)
        BY <1>1, <2>3, <3>1 DEF Receive, Record, Call, Idle
      <4>2. Summarize(r) \in Deliveries
        BY <2>3, RequestsAssumption DEF Receive
      <4>3. QED
        BY <4>1, <4>2 DEF RecordAt
    <3>2. QED
      BY <1>1, <2>2, <2>3, <3>1 DEF Receive, Record, Call
  <2>4. ASSUME NEW t \in Tasks, AfterInsert(t) PROVE RecordAt(u)'
    <3>1. CASE u = t
      <4>1. /\ coro[u].pc = "insert" /\ coro[u].reply = "ok"
            /\ coro'[u].pc = "commit" /\ coro'[u].reply = "pending"
            /\ coro'[u].delivery = coro[u].delivery
        BY <1>1, <2>4, <3>1 DEF AfterInsert, RecordCommit, Call, CoroSet
      <4>2. QED
        BY <1>1, <2>1, <4>1 DEF RecordAt, KeysOf
    <3>2. QED
      BY <1>1, <2>2, <2>4, <3>1 DEF AfterInsert, RecordCommit, Call
  <2>5. ASSUME NEW t \in Tasks,
               \/ \E n \in Limits : ListEvents(t, n)
               \/ AfterSelect(t) \/ Acknowledge(t) \/ ListReply(t) \/ Fail(t)
        PROVE  RecordAt(u)'
    <3>1. CASE u = t
      <4>1. coro'[u].pc \notin {"insert", "commit"}
        <5>1. ASSUME NEW n \in Limits, ListEvents(t, n) PROVE coro'[u].pc = "select"
          BY <1>1, <3>1, <5>1 DEF ListEvents, Recent, Call, Idle
        <5>2. CASE AfterSelect(t)
          BY <1>1, <3>1, <5>2 DEF AfterSelect, RecentFetch, Call, CoroSet
        <5>3. CASE Acknowledge(t) \/ ListReply(t) \/ Fail(t)
          BY <1>1, <3>1, <5>3
             DEF Acknowledge, RecordReturn, ListReply, RecentReturn, Fail, Raise,
                 Idle
        <5>4. QED
          BY <2>5, <5>1, <5>2, <5>3
      <4>2. QED
        BY <4>1, IdleRecord
    <3>2. QED
      BY <1>1, <2>2, <2>5, <3>1
         DEF ListEvents, Recent, AfterSelect, RecentFetch, Acknowledge,
             RecordReturn, ListReply, RecentReturn, Fail, Raise, Call
  <2>6. CASE Thread \/ Fault
    <3>1. Head(queue) \in Tasks /\ Current \in CoroSet
      BY <2>6, CurrentType
         DEF Thread, ThreadStep, Executes, ThreadInsert, ThreadIgnore,
             ThreadReject, ThreadCommit, ThreadSelect, ThreadFetch, Fault,
             ThreadFault
    <3>2. u # Head(queue) => coro'[u] = coro[u]
      BY <1>1, <2>6, <3>1
         DEF Thread, ThreadStep, ThreadInsert, ThreadIgnore, ThreadReject,
             ThreadCommit, ThreadSelect, ThreadFetch, Fault, ThreadFault, Reply
    <3>3. ASSUME u = Head(queue) PROVE RecordAt(u)'
      <4>0. coro[u] = Current
        BY <3>3 DEF Current
      <4>1. CASE ThreadInsert
        <5>1. /\ coro'[u].pc = "insert"
              /\ coro'[u].delivery = Current.delivery
              /\ Current.pc = "insert"
          BY <1>1, <3>1, <3>3, <4>1 DEF ThreadInsert, Executes, Reply, CoroSet
        <5>2. Row(Current) \in Rows' /\ Row(Current).delivery = Current.delivery
          BY <4>1 DEF ThreadInsert, Rows, Row
        <5>3. QED
          BY <1>1, <4>0, <5>1, <5>2 DEF RecordAt, KeysOf
      <4>2. CASE ThreadIgnore
        <5>1. /\ coro'[u].pc = "insert"
              /\ coro'[u].delivery = Current.delivery
              /\ Current.pc = "insert"
              /\ Key(Current.delivery) \in KeysOf(Rows)
          BY <1>1, <3>1, <3>3, <4>2 DEF ThreadIgnore, Executes, Reply, CoroSet
        <5>2. QED
          BY <1>1, <2>1, <4>0, <5>1 DEF RecordAt, KeysOf
      <4>3. CASE ThreadCommit
        <5>1. /\ coro'[u].pc = "commit"
              /\ coro'[u].delivery = Current.delivery
              /\ Current.pc = "commit"
              /\ table' = Rows
          BY <1>1, <3>1, <3>3, <4>3 DEF ThreadCommit, Executes, Reply, CoroSet
        <5>2. QED
          BY <1>1, <2>1, <4>0, <5>1 DEF RecordAt, KeysOf
      <4>4. CASE ThreadReject \/ Fault
        <5>1. /\ coro'[u].pc = Current.pc
              /\ coro'[u].delivery = Current.delivery
              /\ coro'[u].reply = "error"
          BY <1>1, <3>1, <3>3, <4>4
             DEF ThreadReject, Fault, ThreadFault, Executes, Reply, CoroSet
        <5>2. QED
          BY <1>1, <2>1, <4>0, <5>1 DEF RecordAt, KeysOf
      <4>5. CASE ThreadSelect \/ ThreadFetch
        <5>1. coro'[u].pc \in {"select", "fetch"}
          BY <1>1, <3>1, <3>3, <4>5
             DEF ThreadSelect, ThreadFetch, Executes, Reply, CoroSet
        <5>2. QED
          BY <5>1, IdleRecord
      <4>6. QED
        BY <2>6, <4>1, <4>2, <4>3, <4>4, <4>5 DEF Thread, ThreadStep
    <3>4. QED
      BY <2>2, <3>2, <3>3
  <2>7. CASE Startup \/ Tick
    BY <2>2, <2>7 DEF Startup, Connect, Tick, storeVars
  <2>8. QED
    BY <1>4, <2>3, <2>4, <2>5, <2>6, <2>7 DEF Next, Handler
<1>5. QED
  BY <1>2, <1>3, <1>4

-----------------------------------------------------------------------------
(* One claim per key (ClaimsOK).                                           *)

LEMMA InitClaims == Init => ClaimsOK
BY DEF Init, StoreInit, ClaimsOK, Idle

(* A step that makes no claim and reports none. *)
LEMMA ClaimsKept ==
  ASSUME ClaimsOK, firsts' = firsts,
         \A t \in Tasks : coro'[t].new =>
            /\ coro[t].new
            /\ coro'[t].delivery = coro[t].delivery
            /\ coro'[t].pc \in {"insert", "commit"}
            /\ coro'[t].pc = "insert" => coro'[t].reply = "ok"
  PROVE  ClaimsOK'
BY DEF ClaimsOK

(* A claimed key is in a row. *)
LEMMA ClaimHasRow ==
  ASSUME RecordOK, ClaimsOK, NEW t \in Tasks, coro[t].new
  PROVE  /\ coro[t].delivery \in Deliveries
         /\ Key(coro[t].delivery) \in KeysOf(Rows)
BY DEF RecordOK, RecordAt, ClaimsOK

LEMMA ClaimsStep ==
  TypeInv /\ QueueOK /\ RecordOK /\ ClaimsOK /\ ReportsOK /\ AckedIsDurable
    /\ [Next]_vars => ClaimsOK'
<1> SUFFICES ASSUME TypeInv, QueueOK, RecordOK, ClaimsOK, ReportsOK,
                    AckedIsDurable, [Next]_vars
             PROVE  ClaimsOK'
  OBVIOUS
<1>1. coro \in [Tasks -> CoroSet] /\ firsts \in [Keys -> Nat]
  BY DEF TypeInv, TypeOK
<1>2. CASE UNCHANGED vars
  BY <1>2, ClaimsKept DEF vars, storeVars, history, ClaimsOK
<1>3. ASSUME NEW t \in Tasks,
             \/ \E r \in Requests : Receive(t, r)
             \/ \E n \in Limits : ListEvents(t, n)
      PROVE  ClaimsOK'
  <2>1. firsts' = firsts
    BY <1>3 DEF Receive, ListEvents, history
  <2>2. ~ coro'[t].new
    BY <1>1, <1>3 DEF Receive, Record, ListEvents, Recent, Call, Idle
  <2>3. \A u \in Tasks : u # t => coro'[u] = coro[u]
    BY <1>1, <1>3 DEF Receive, Record, ListEvents, Recent, Call
  <2>4. QED
    BY <2>1, <2>2, <2>3, ClaimsKept DEF ClaimsOK
<1>4. ASSUME NEW t \in Tasks, AfterInsert(t) \/ AfterSelect(t) PROVE ClaimsOK'
  <2>1. firsts' = firsts
    BY <1>4 DEF AfterInsert, AfterSelect, history
  <2>2. \A u \in Tasks : u # t => coro'[u] = coro[u]
    BY <1>1, <1>4 DEF AfterInsert, RecordCommit, AfterSelect, RecentFetch, Call
  <2>3. /\ coro'[t].new = coro[t].new
        /\ coro'[t].delivery = coro[t].delivery
        /\ \/ coro[t].pc = "insert" /\ coro'[t].pc = "commit"
           \/ coro[t].pc = "select"
    <3>1. CASE AfterInsert(t)
      BY <1>1, <3>1 DEF AfterInsert, RecordCommit, Call, CoroSet
    <3>2. CASE AfterSelect(t)
      BY <1>1, <3>2 DEF AfterSelect, RecentFetch, Call, CoroSet
    <3>3. QED
      BY <1>4, <3>1, <3>2
  <2>4. QED
    BY <2>1, <2>2, <2>3, ClaimsKept DEF ClaimsOK
<1>5. ASSUME NEW t \in Tasks, Acknowledge(t) PROVE ClaimsOK'
  <2> DEFINE key == Key(coro[t].delivery)
  <2>1. /\ ~ coro'[t].new
        /\ \A u \in Tasks : u # t => coro'[u] = coro[u]
    BY <1>1, <1>5 DEF Acknowledge, RecordReturn, Idle
  <2>2. \A k \in Keys : k # key \/ ~ coro[t].new => firsts'[k] = firsts[k]
    BY <1>1, <1>5 DEF Acknowledge
  <2>3. \A u \in Tasks : coro[u].new => Key(coro[u].delivery) \in Keys
    BY ClaimHasRow DEF Keys
  <2>4. ASSUME NEW u \in Tasks, coro'[u].new
        PROVE  firsts'[Key(coro[u].delivery)] = firsts[Key(coro[u].delivery)]
    BY <2>1, <2>2, <2>3, <2>4 DEF ClaimsOK
  <2>5. QED
    BY <2>1, <2>4 DEF ClaimsOK
<1>6. ASSUME NEW t \in Tasks, ListReply(t) \/ Fail(t) PROVE ClaimsOK'
  <2>1. firsts' = firsts
    BY <1>6 DEF ListReply, Fail
  <2>2. /\ ~ coro'[t].new
        /\ \A u \in Tasks : u # t => coro'[u] = coro[u]
    BY <1>1, <1>6 DEF ListReply, RecentReturn, Fail, Raise, Idle
  <2>3. QED
    BY <2>1, <2>2, ClaimsKept DEF ClaimsOK
<1>7. CASE Thread \/ Fault
  <2> DEFINE h == Head(queue)
  <2>1. /\ queue # <<>> /\ h \in Tasks /\ Current = coro[h]
        /\ Current \in CoroSet
    BY <1>7, CurrentType
       DEF Thread, ThreadStep, Executes, ThreadInsert, ThreadIgnore,
           ThreadReject, ThreadCommit, ThreadSelect, ThreadFetch, Fault,
           ThreadFault, Current
  <2>2. \A u \in Tasks : u # h => coro'[u] = coro[u]
    BY <1>1, <1>7, <2>1
       DEF Thread, ThreadStep, ThreadInsert, ThreadIgnore, ThreadReject,
           ThreadCommit, ThreadSelect, ThreadFetch, Fault, ThreadFault, Reply
  <2>3. Current.reply = "pending"
    <3>1. Len(queue) \in Nat \ {0} /\ h = queue[1]
      BY <2>1, EmptySeq, LenProperties DEF TypeInv, TypeOK
    <3>2. QED
      BY <2>1, <3>1 DEF QueueOK
  <2>4. firsts' = firsts
    BY <1>7 DEF Thread, Fault
  <2>5. CASE ThreadInsert
    <3>1. /\ coro'[h].delivery = Current.delivery
          /\ coro'[h].pc = "insert" /\ coro'[h].reply = "ok"
          /\ Current.pc = "insert"
      BY <1>1, <2>1, <2>5 DEF ThreadInsert, Executes, Reply, CoroSet
    <3>2. Current.delivery \in Deliveries
      BY <2>1, <3>1 DEF RecordOK, RecordAt
    <3>3. Key(Current.delivery) \notin KeysOf(Rows)
      BY <2>5 DEF ThreadInsert
    <3>4. firsts[Key(Current.delivery)] = 0
      <4>1. Key(Current.delivery) \in Keys
        BY <3>2 DEF Keys
      <4>2. Key(Current.delivery) \notin acked
        BY <3>3 DEF AckedIsDurable, KeysOf, Rows
      <4>3. QED
        BY <1>1, <4>1, <4>2 DEF ReportsOK
    <3>5. \A u \in Tasks : coro[u].new =>
             Key(coro[u].delivery) # Key(Current.delivery)
      BY <3>3, ClaimHasRow
    <3>6. QED
      BY <2>2, <2>4, <3>1, <3>4, <3>5 DEF ClaimsOK
  <2>6. CASE ThreadIgnore
    <3>1. ~ coro'[h].new
      BY <1>1, <2>1, <2>6 DEF ThreadIgnore, Reply, CoroSet
    <3>2. QED
      BY <2>2, <2>4, <3>1, ClaimsKept DEF ClaimsOK
  <2>7. CASE ThreadReject \/ ThreadCommit \/ ThreadFetch \/ Fault
    <3>1. /\ coro'[h].new = Current.new
          /\ coro'[h].delivery = Current.delivery
          /\ coro'[h].pc = Current.pc
      <4>1. PICK r \in {"ok", "error"} : Reply([Current EXCEPT !.reply = r])
        BY <2>7 DEF ThreadReject, ThreadCommit, ThreadFetch, Fault, ThreadFault
      <4>2. coro'[h] = [Current EXCEPT !.reply = r]
        BY <1>1, <2>1, <4>1 DEF Reply
      <4>3. QED
        BY <2>1, <4>2 DEF CoroSet
    <3>2. QED
      BY <2>1, <2>2, <2>3, <2>4, <3>1, ClaimsKept DEF ClaimsOK
  <2>8. CASE ThreadSelect
    <3>1. PICK list : Reply([Current EXCEPT !.reply = "ok", !.rows = list])
      BY <2>8 DEF ThreadSelect
    <3>2. coro'[h].new = Current.new /\ Current.pc = "select"
      BY <1>1, <2>1, <2>8, <3>1 DEF ThreadSelect, Executes, Reply, CoroSet
    <3>3. QED
      BY <2>1, <2>2, <2>4, <3>2, ClaimsKept DEF ClaimsOK
  <2>9. QED
    BY <1>7, <2>5, <2>6, <2>7, <2>8 DEF Thread, ThreadStep
<1>8. CASE Startup \/ Tick
  BY <1>8, ClaimsKept DEF Startup, Connect, Tick, storeVars, history, ClaimsOK
<1>9. CASE Restart
  <2>1. \A t \in Tasks : coro'[t].new => coro'[t] = coro[t]
    BY <1>1, <1>9 DEF Restart, Close, Crash, Idle
  <2>2. firsts' = firsts
    BY <1>9 DEF Restart
  <2>3. QED
    BY <2>1, <2>2, ClaimsKept DEF ClaimsOK
<1>10. QED
  BY <1>2, <1>3, <1>4, <1>5, <1>6, <1>7, <1>8, <1>9 DEF Next, Handler

-----------------------------------------------------------------------------
(* Acknowledgements (AckedIsDurable, ReportedNewOnce).                     *)

LEMMA InitReports == Init => ReportsOK /\ AckedIsDurable /\ ReportedNewOnce
BY DEF Init, StoreInit, ReportsOK, AckedIsDurable, ReportedNewOnce

LEMMA OthersAnswerNothing ==
  ASSUME Next, \A t \in Tasks : ~ Acknowledge(t)
  PROVE  UNCHANGED <<acked, firsts>>
BY DEF Next, Handler, Receive, ListEvents, AfterInsert, AfterSelect, ListReply,
   Fail, Thread, Fault, Startup, Restart, Tick, history

LEMMA ReportsStep ==
  TypeInv /\ RecordOK /\ ClaimsOK /\ ReportsOK /\ AckedIsDurable
    /\ ReportedNewOnce /\ [Next]_vars
    => ReportsOK' /\ AckedIsDurable' /\ ReportedNewOnce'
<1> SUFFICES ASSUME TypeInv, RecordOK, ClaimsOK, ReportsOK, AckedIsDurable,
                    ReportedNewOnce, [Next]_vars
             PROVE  ReportsOK' /\ AckedIsDurable' /\ ReportedNewOnce'
  OBVIOUS
<1>1. CASE UNCHANGED vars
  BY <1>1 DEF vars, storeVars, history, ReportsOK, AckedIsDurable,
     ReportedNewOnce, KeysOf
<1>2. ASSUME Next PROVE KeysOf(table) \subseteq KeysOf(table')
  BY <1>2, RowsGrow DEF KeysOf
<1>3. ASSUME NEW t \in Tasks, Acknowledge(t)
      PROVE  ReportsOK' /\ AckedIsDurable' /\ ReportedNewOnce'
  <2> DEFINE key == Key(coro[t].delivery)
  <2>1. /\ acked' = acked \cup {key}
        /\ firsts' = [firsts EXCEPT ![key] = IF coro[t].new THEN @ + 1 ELSE @]
        /\ table' = table
    BY <1>3 DEF Acknowledge, RecordReturn
  <2>2. key \in KeysOf(table) /\ key \in Keys
    BY <1>3 DEF Acknowledge, RecordReturn, RecordOK, RecordAt, Keys
  <2>3. coro[t].new => firsts[key] = 0
    BY DEF ClaimsOK
  <2>4. firsts \in [Keys -> Nat]
    BY DEF TypeInv, TypeOK
  <2>5. AckedIsDurable'
    BY <2>1, <2>2 DEF AckedIsDurable, KeysOf
  <2>6. ReportsOK' /\ ReportedNewOnce'
    BY <2>1, <2>2, <2>3, <2>4 DEF ReportsOK, ReportedNewOnce
  <2>7. QED
    BY <2>5, <2>6
<1>4. CASE Next /\ UNCHANGED <<acked, firsts>>
  BY <1>2, <1>4 DEF ReportsOK, AckedIsDurable, ReportedNewOnce, KeysOf
<1>5. ASSUME Next, \A t \in Tasks : ~ Acknowledge(t)
      PROVE  UNCHANGED <<acked, firsts>>
  BY <1>5, OthersAnswerNothing
<1>6. QED
  BY <1>1, <1>3, <1>4, <1>5

-----------------------------------------------------------------------------
(* Keys and rowids (OneRowPerKey).                                         *)

LEMMA InitRows == Init => RowidsOK /\ OneRowPerKey
BY FS_EmptySet DEF Init, StoreInit, RowidsOK, OneRowPerKey, Rows

(* The store changes its rows in three ways only. *)
LEMMA RowsChange ==
  ASSUME [Next]_vars
  PROVE  \/ UNCHANGED <<table, txn>>
         \/ ThreadInsert
         \/ table' = Rows /\ txn' = {}
         \/ table' = table /\ txn' = {}
BY DEF Next, Handler, Receive, Record, ListEvents, Recent, AfterInsert,
   RecordCommit, Acknowledge, RecordReturn, AfterSelect, RecentFetch, ListReply,
   RecentReturn, Fail, Raise, Thread, ThreadStep, ThreadIgnore, ThreadReject,
   ThreadCommit, ThreadSelect, ThreadFetch, Fault, ThreadFault, Startup, Connect,
   Restart, Close, Crash, Tick, vars, storeVars

LEMMA RowsStep ==
  TypeInv /\ RowidsOK /\ OneRowPerKey /\ [Next]_vars
    => RowidsOK' /\ OneRowPerKey'
<1> SUFFICES ASSUME TypeInv, RowidsOK, OneRowPerKey, [Next]_vars
             PROVE  RowidsOK' /\ OneRowPerKey'
  OBVIOUS
<1>1. CASE UNCHANGED <<table, txn>>
  BY <1>1 DEF RowidsOK, OneRowPerKey, Rows
<1>2. CASE ThreadInsert
  <2> DEFINE row == Row(Current)
  <2>1. /\ Rows' = Rows \cup {row} /\ table' = table
        /\ row.rowid = 1 + Cardinality(Rows)
        /\ row.delivery = Current.delivery
        /\ Key(Current.delivery) \notin KeysOf(Rows)
    BY <1>2 DEF ThreadInsert, Rows, Row, NextRowid
  <2>2. IsFiniteSet(Rows) /\ Cardinality(Rows) \in Nat
    BY NextRowidType, FS_CardinalityType DEF TypeInv
  <2>3. \A r \in Rows : r.rowid \in Nat /\ r.rowid <= Cardinality(Rows)
    BY DEF TypeInv, TypeOK, RowSet, Rows, RowidsOK
  <2>4. row \notin Rows
    BY <2>1, <2>2, <2>3
  <2>5. Cardinality(Rows') = Cardinality(Rows) + 1
    BY <2>1, <2>2, <2>4, FS_AddElement
  <2>6. RowidsOK'
    BY <2>1, <2>2, <2>3, <2>5 DEF RowidsOK
  <2>7. \A r \in Rows : /\ Key(r.delivery) # Key(row.delivery)
                        /\ r.rowid # row.rowid
    BY <2>1, <2>2, <2>3 DEF KeysOf
  <2>8. OneRowPerKey'
    BY <2>1, <2>7 DEF OneRowPerKey
  <2>9. QED
    BY <2>6, <2>8
<1>3. CASE table' = Rows /\ txn' = {}
  <2>1. Rows' = Rows
    BY <1>3 DEF Rows
  <2>2. QED
    BY <1>3, <2>1 DEF RowidsOK, OneRowPerKey
<1>4. CASE table' = table /\ txn' = {}
  <2>1. Rows' = table /\ table \subseteq Rows
    BY <1>4 DEF Rows
  <2>2. QED
    BY <1>4, <2>1 DEF RowidsOK, OneRowPerKey
<1>5. QED
  BY <1>1, <1>2, <1>3, <1>4, RowsChange

-----------------------------------------------------------------------------
(* Pending rows have a committer (PendingOK).                              *)

Committing(t) == \/ coro[t].pc = "insert" /\ coro[t].reply = "ok"
                 \/ coro[t].pc = "commit" /\ coro[t].reply = "pending"

LEMMA InitPending == Init => PendingOK
BY DEF Init, StoreInit, PendingOK

(* A step under which the committers stay committers. *)
LEMMA PendingKept ==
  ASSUME PendingOK, txn' = txn, commitFailed => commitFailed',
         \A t \in Tasks : Committing(t) => Committing(t)'
  PROVE  PendingOK'
BY DEF PendingOK, Committing

LEMMA PendingStep ==
  TypeInv /\ QueueOK /\ PendingOK /\ [Next]_vars => PendingOK'
<1> SUFFICES ASSUME TypeInv, QueueOK, PendingOK, [Next]_vars PROVE PendingOK'
  OBVIOUS
<1>1. coro \in [Tasks -> CoroSet]
  BY DEF TypeInv, TypeOK
<1>2. CASE UNCHANGED vars
  BY <1>2, PendingKept DEF vars, storeVars, history, Committing
<1>3. ASSUME NEW t \in Tasks,
             \/ \E r \in Requests : Receive(t, r)
             \/ \E n \in Limits : ListEvents(t, n)
             \/ Handler(t)
      PROVE  PendingOK'
  <2>1. txn' = txn /\ commitFailed' = commitFailed
    BY <1>3 DEF Receive, Record, ListEvents, Recent, Handler, AfterInsert,
       RecordCommit, Acknowledge, RecordReturn, AfterSelect, RecentFetch,
       ListReply, RecentReturn, Fail, Raise, history
  <2>2. \A u \in Tasks : u # t => coro'[u] = coro[u]
    BY <1>1, <1>3 DEF Receive, Record, ListEvents, Recent, Handler, AfterInsert,
       RecordCommit, Acknowledge, RecordReturn, AfterSelect, RecentFetch,
       ListReply, RecentReturn, Fail, Raise, Call
  <2>3. CASE AfterInsert(t)
    <3>1. Committing(t)'
      BY <1>1, <2>3 DEF AfterInsert, RecordCommit, Call, CoroSet, Committing
    <3>2. QED
      BY <2>1, <2>2, <3>1, PendingKept DEF Committing
  <2>4. CASE ~ AfterInsert(t)
    <3>1. ~ Committing(t)
      BY <1>3, <2>4 DEF Receive, Record, ListEvents, Recent, Handler, Acknowledge,
         RecordReturn, AfterSelect, RecentFetch, ListReply, RecentReturn, Fail,
         Raise, Committing
    <3>2. QED
      BY <2>1, <2>2, <3>1, PendingKept DEF Committing
  <2>5. QED
    BY <2>3, <2>4
<1>4. CASE Thread \/ Fault
  <2> DEFINE h == Head(queue)
  <2>1. /\ queue # <<>> /\ h \in Tasks /\ Current = coro[h]
        /\ Current \in CoroSet
    BY <1>4, CurrentType
       DEF Thread, ThreadStep, Executes, ThreadInsert, ThreadIgnore,
           ThreadReject, ThreadCommit, ThreadSelect, ThreadFetch, Fault,
           ThreadFault, Current
  <2>2. \A u \in Tasks : u # h => coro'[u] = coro[u]
    BY <1>1, <1>4, <2>1
       DEF Thread, ThreadStep, ThreadInsert, ThreadIgnore, ThreadReject,
           ThreadCommit, ThreadSelect, ThreadFetch, Fault, ThreadFault, Reply
  <2>3. Current.reply = "pending"
    <3>1. Len(queue) \in Nat \ {0} /\ h = queue[1]
      BY <2>1, EmptySeq, LenProperties DEF TypeInv, TypeOK
    <3>2. QED
      BY <2>1, <3>1 DEF QueueOK
  <2>4. CASE ThreadInsert
    <3>1. coro'[h].pc = "insert" /\ coro'[h].reply = "ok"
      BY <1>1, <2>1, <2>4 DEF ThreadInsert, Executes, Reply, CoroSet
    <3>2. QED
      BY <2>1, <3>1 DEF PendingOK
  <2>5. CASE ThreadCommit
    BY <2>5 DEF ThreadCommit, PendingOK
  <2>6. CASE Fault /\ Executes("commit")
    BY <2>6 DEF Fault, PendingOK
  <2>7. CASE \/ Thread /\ ~ ThreadInsert /\ ~ ThreadCommit
             \/ Fault /\ ~ Executes("commit")
    <3>1. Current.pc # "commit" /\ txn' = txn
      BY <2>7 DEF Thread, ThreadStep, ThreadIgnore, ThreadReject, ThreadSelect,
         ThreadFetch, Fault, ThreadFault, Executes
    <3>2. commitFailed => commitFailed'
      BY <1>4, <2>7, <3>1 DEF Thread, Fault, Executes
    <3>3. ~ Committing(h)
      BY <2>1, <2>3, <3>1 DEF Committing
    <3>4. QED
      BY <2>2, <3>1, <3>2, <3>3, PendingKept DEF Committing
  <2>8. QED
    BY <1>4, <2>4, <2>5, <2>6, <2>7
<1>5. CASE Startup \/ Tick
  BY <1>5, PendingKept DEF Startup, Connect, Tick, storeVars, history, Committing
<1>6. CASE Restart
  BY <1>6 DEF Restart, Close, Crash, PendingOK
<1>7. QED
  BY <1>2, <1>3, <1>4, <1>5, <1>6 DEF Next

-----------------------------------------------------------------------------
(* The theorems.                                                           *)

LEMMA Inductive == Spec => []IInv
<1>1. Init => IInv
  BY InitType, InitQueue, InitRecord, InitClaims, InitReports, InitRows,
     InitPending DEF IInv
<1>2. IInv /\ [Next]_vars => IInv'
  BY StepType, QueueStep, RecordStep, ClaimsStep, ReportsStep, RowsStep,
     PendingStep DEF IInv
<1>3. QED
  BY <1>1, <1>2, PTL DEF Spec

(* The variables of the store and of the handlers keep their types: every  *)
(* call in the queue is a task's, every row a delivery's, and a list a     *)
(* sequence of rows.                                                       *)
THEOREM TypeCorrect == Spec => []TypeOK
<1>1. IInv => TypeOK
  BY DEF IInv, TypeInv
<1>2. QED
  BY <1>1, Inductive, PTL

(* A delivery answered with 204 is in the committed table, for ever. *)
THEOREM Durability == Spec => []AckedIsDurable
<1>1. IInv => AckedIsDurable
  BY DEF IInv
<1>2. QED
  BY <1>1, Inductive, PTL

(* Of the deliveries of one key at most one is answered as new. *)
THEOREM NewAtMostOnce == Spec => []ReportedNewOnce
<1>1. IInv => ReportedNewOnce
  BY DEF IInv
<1>2. QED
  BY <1>1, Inductive, PTL

(* No key and no rowid is in two rows, committed or pending. *)
THEOREM KeysUnique == Spec => []OneRowPerKey
<1>1. IInv => OneRowPerKey
  BY DEF IInv
<1>2. QED
  BY <1>1, Inductive, PTL

(* An idle service has no open transaction, unless a commit failed. *)
THEOREM NoPendingRows == Spec => []NothingLeftPending
<1>1. IInv => NothingLeftPending
  BY DEF IInv, PendingOK, NothingLeftPending
<1>2. QED
  BY <1>1, Inductive, PTL

(* The service implements the log it promises the sender: a step appends   *)
(* to the log, acknowledges an entry of it, or leaves both alone.          *)
THEOREM ImplementsLog == Spec => LogSpec
<1>1. Init => Log!Init
  BY DEF Init, StoreInit, Log!Init
<1>2. IInv /\ IInv' /\ [Next]_vars => [Log!Next]_(Log!logVars)
  <2> SUFFICES ASSUME IInv, IInv', [Next]_vars
               PROVE  Log!Next \/ UNCHANGED <<table, acked, firsts>>
    BY DEF Log!logVars
  <2>1. ASSUME NEW t \in Tasks, Acknowledge(t) PROVE Log!Next
    <3> DEFINE key == Key(coro[t].delivery)
    <3>1. /\ acked' = acked \cup {key}
          /\ firsts' = [firsts EXCEPT ![key] = IF coro[t].new THEN @ + 1 ELSE @]
          /\ table' = table
      BY <2>1 DEF Acknowledge, RecordReturn
    <3>2. key \in KeysOf(table) /\ key \in Keys
      BY <2>1 DEF Acknowledge, RecordReturn, IInv, RecordOK, RecordAt, Keys
    <3>3. key \in Log!Logged
      BY <3>2 DEF Log!Logged, Log!KeyOf, KeysOf, Key
    <3>4. firsts \in [Keys -> Nat]
      BY DEF IInv, TypeInv, TypeOK
    <3>5. CASE coro[t].new
      <4>1. firsts[key] = 0
        BY <3>5 DEF IInv, ClaimsOK
      <4>2. firsts' = [firsts EXCEPT ![key] = 1]
        BY <3>1, <3>5, <4>1
      <4>3. Log!AcknowledgeAsFirst(key)
        BY <3>1, <3>3, <4>1, <4>2 DEF Log!AcknowledgeAsFirst
      <4>4. QED
        BY <3>2, <4>3 DEF Log!Next
    <3>6. CASE ~ coro[t].new
      <4>1. firsts' = firsts
        BY <3>1, <3>4, <3>6
      <4>2. Log!Acknowledge(key)
        BY <3>1, <3>3, <4>1 DEF Log!Acknowledge
      <4>3. QED
        BY <3>2, <4>2 DEF Log!Next
    <3>7. QED
      BY <3>5, <3>6
  <2>2. ASSUME Next, UNCHANGED <<acked, firsts>> PROVE Log!Next
    <3>1. table \subseteq table'
      BY <2>2, RowsGrow
    <3>2. \A e, f \in table' : Log!KeyOf(e) = Log!KeyOf(f) => e = f
      BY DEF IInv, OneRowPerKey, Rows, Log!KeyOf, Key
    <3>3. QED
      BY <2>2, <3>1, <3>2 DEF Log!Next, Log!Persist
  <2>3. ASSUME Next, \A t \in Tasks : ~ Acknowledge(t)
        PROVE  UNCHANGED <<acked, firsts>>
    BY <2>3, OthersAnswerNothing
  <2>4. CASE UNCHANGED vars
    BY <2>4 DEF vars, storeVars, history
  <2>5. QED
    BY <2>1, <2>2, <2>3, <2>4
<1>3. QED
  BY <1>1, <1>2, Inductive, PTL DEF Spec, LogSpec, Log!Spec
=============================================================================
