---------------------------- MODULE ListingProofs ----------------------------
(***************************************************************************)
(* What GET /events lists, proved about WebhookService for any set of      *)
(* tasks, requests and limits: an unbroken run of the latest arrivals that *)
(* misses nothing acknowledged before the request (ListingIsRecent).       *)
(*                                                                         *)
(* A list is ordered by received_at first, which a task takes when it      *)
(* hands its INSERT over, and by rowid second, which the INSERT is given   *)
(* when it is executed.  The argument is that the queue makes one order of *)
(* the two: calls are executed in the order they were handed over.         *)
(***************************************************************************)
EXTENDS WebhookServiceProofs

-----------------------------------------------------------------------------
(* The inductive invariant, beside that of WebhookServiceProofs.           *)

(* Rowids count the rows, those of the table alone and with the open       *)
(* transaction's.                                                          *)
Counted(rows) ==
  /\ \A r \in rows : r.rowid \in 1 .. Cardinality(rows)
  /\ \A i \in 1 .. Cardinality(rows) : \E r \in rows : r.rowid = i

CountOK == Counted(table) /\ Counted(Rows)

Inserting(i) == coro[queue[i]].pc = "insert"

(* Arrival times grow along the rows, from there along the INSERTs in the  *)
(* queue, and up to the clock.                                             *)
TimesOK ==
  /\ \A r, s \in Rows : r.rowid < s.rowid => r.at <= s.at
  /\ \A r \in Rows : r.at <= clock
  /\ \A i \in 1 .. Len(queue) : Inserting(i) =>
       /\ coro[queue[i]].at <= clock
       /\ \A r \in Rows : r.at <= coro[queue[i]].at
  /\ \A i, j \in 1 .. Len(queue) : i < j /\ Inserting(i) /\ Inserting(j) =>
       coro[queue[i]].at <= coro[queue[j]].at

OwedOK == \A t \in Tasks : owed[t] \subseteq acked

(* A list as ListingIsRecent wants it, for a task and what it is owed.     *)
Recently(list, limit, due) ==
  LET n == Len(list)
  IN  /\ limit >= 0 => n <= limit
      /\ \A i \in 1 .. n - 1 : list[i].rowid = list[i + 1].rowid + 1
      /\ n < limit /\ n > 0 => list[n].rowid = 1
      /\ \A k \in due : \/ \E i \in 1 .. n : Key(list[i].delivery) = k
                        \/ n = limit

(* It is so from the SELECT's answer on. *)
Selected(c) == c.pc = "fetch" \/ (c.pc = "select" /\ c.reply = "ok")

ListsOK ==
  \A t \in Tasks : Selected(coro[t]) =>
    Recently(coro[t].rows, coro[t].limit, owed[t])

LInv == CountOK /\ TimesOK /\ OwedOK /\ ListsOK

-----------------------------------------------------------------------------
(* Rows and their count.                                                   *)

LEMMA RowsAreFinite ==
  ASSUME TypeInv
  PROVE  /\ IsFiniteSet(table) /\ Cardinality(table) \in Nat
         /\ IsFiniteSet(Rows) /\ Cardinality(Rows) \in Nat
         /\ \A r \in Rows : r \in RowSet /\ r.rowid \in Nat /\ r.at \in Nat
<1>1. IsFiniteSet(table) /\ IsFiniteSet(Rows)
  BY NextRowidType DEF TypeInv, FiniteOK
<1>2. Cardinality(table) \in Nat /\ Cardinality(Rows) \in Nat
  BY <1>1, FS_CardinalityType
<1>3. \A r \in Rows : r \in RowSet
  BY DEF TypeInv, TypeOK, Rows
<1>4. QED
  BY <1>1, <1>2, <1>3 DEF RowSet

LEMMA InitCount == Init => CountOK
BY FS_EmptySet DEF Init, StoreInit, CountOK, Counted, Rows

LEMMA CountStep == TypeInv /\ CountOK /\ [Next]_vars => CountOK'
<1> SUFFICES ASSUME TypeInv, CountOK, [Next]_vars PROVE CountOK'
  OBVIOUS
<1>1. CASE UNCHANGED <<table, txn>>
  BY <1>1 DEF CountOK, Counted, Rows
<1>2. CASE ThreadInsert
  <2> DEFINE row == Row(Current)
  <2>1. /\ Rows' = Rows \cup {row} /\ table' = table
        /\ row.rowid = 1 + Cardinality(Rows)
    BY <1>2 DEF ThreadInsert, Rows, Row, NextRowid
  <2>2. IsFiniteSet(Rows) /\ Cardinality(Rows) \in Nat
    BY RowsAreFinite
  <2>3. row \notin Rows
    BY <2>1, <2>2 DEF CountOK, Counted
  <2>4. Cardinality(Rows') = Cardinality(Rows) + 1
    BY <2>1, <2>2, <2>3, FS_AddElement
  <2> HIDE DEF row
  <2>5. \A r \in Rows' : r.rowid \in 1 .. Cardinality(Rows')
    BY <2>1, <2>2, <2>4 DEF CountOK, Counted
  <2>6. ASSUME NEW i \in 1 .. Cardinality(Rows')
        PROVE  \E r \in Rows' : r.rowid = i
    <3>1. CASE i = 1 + Cardinality(Rows)
      BY <2>1, <3>1
    <3>2. CASE i \in 1 .. Cardinality(Rows)
      BY <2>1, <3>2 DEF CountOK, Counted
    <3>3. QED
      BY <2>2, <2>4, <3>1, <3>2
  <2>7. QED
    BY <2>1, <2>5, <2>6 DEF CountOK, Counted
<1>3. CASE table' = Rows /\ txn' = {}
  BY <1>3 DEF CountOK, Counted, Rows
<1>4. CASE table' = table /\ txn' = {}
  BY <1>4 DEF CountOK, Counted, Rows
<1>5. QED
  BY <1>1, <1>2, <1>3, <1>4, RowsChange

-----------------------------------------------------------------------------
(* Arrival times along the rows and the queue.                             *)

(* A call handed over goes to the end of the queue; those before it stay.  *)
LEMMA CallAppends ==
  ASSUME TypeInv, QueueOK, NEW t \in Tasks, NEW c, Call(t, c),
         coro[t].pc = "idle" \/ coro[t].reply # "pending"
  PROVE  /\ Len(queue) \in Nat
         /\ Len(queue') = Len(queue) + 1
         /\ \A i \in 1 .. Len(queue) : coro'[queue'[i]] = coro[queue[i]]
         /\ coro'[queue'[Len(queue) + 1]] = c
<1>1. /\ queue \in Seq(Tasks) /\ Len(queue) \in Nat
      /\ coro \in [Tasks -> CoroSet]
      /\ \A i \in 1 .. Len(queue) : queue[i] \in Tasks
  BY ElementOfSeq, LenProperties DEF TypeInv, TypeOK
<1>2. /\ Len(queue') = Len(queue) + 1
      /\ \A i \in 1 .. Len(queue) : queue'[i] = queue[i]
      /\ queue'[Len(queue) + 1] = t
  BY <1>1, AppendProperties DEF Call
<1>3. \A i \in 1 .. Len(queue) : queue[i] # t
  BY NotQueued
<1>4. QED
  BY <1>1, <1>2, <1>3 DEF Call

(* The thread's answer takes the first call off. *)
LEMMA ReplyRemoves ==
  ASSUME TypeInv, QueueOK, queue # <<>>, NEW c, Reply(c)
  PROVE  /\ Len(queue) \in Nat \ {0}
         /\ Len(queue') = Len(queue) - 1
         /\ \A i \in 1 .. Len(queue) - 1 : coro'[queue'[i]] = coro[queue[i + 1]]
         /\ coro[queue[1]] = Current /\ coro'[queue[1]] = c
         /\ \A t \in Tasks : t # queue[1] => coro'[t] = coro[t]
<1>1. /\ queue \in Seq(Tasks) /\ Len(queue) \in Nat \ {0}
      /\ coro \in [Tasks -> CoroSet]
      /\ \A i \in 1 .. Len(queue) : queue[i] \in Tasks
  BY ElementOfSeq, LenProperties, EmptySeq DEF TypeInv, TypeOK
<1>2. /\ Len(queue') = Len(queue) - 1
      /\ \A i \in 1 .. Len(queue) - 1 : queue'[i] = queue[i + 1]
      /\ Head(queue) = queue[1]
  BY <1>1, HeadTailProperties DEF Reply
<1>3. \A i \in 1 .. Len(queue) - 1 : queue[i + 1] # queue[1]
  BY <1>1 DEF QueueOK
<1>4. QED
  BY <1>1, <1>2, <1>3 DEF Reply, Current

LEMMA InitTimes == Init => TimesOK
BY EmptySeq DEF Init, StoreInit, TimesOK, Rows

(* An INSERT handed over now is the latest. *)
LEMMA TimesAppended ==
  ASSUME TypeInv, QueueOK, TimesOK, NEW t \in Tasks, NEW c, Call(t, c),
         coro[t].pc = "idle" \/ coro[t].reply # "pending",
         c.pc = "insert" => c.at = clock,
         UNCHANGED <<table, txn, clock>>
  PROVE  TimesOK'
<1>1. /\ Len(queue) \in Nat
      /\ Len(queue') = Len(queue) + 1
      /\ \A i \in 1 .. Len(queue) : coro'[queue'[i]] = coro[queue[i]]
      /\ coro'[queue'[Len(queue) + 1]] = c
  BY CallAppends
<1>2. Rows' = Rows /\ clock' = clock /\ clock \in Nat
  BY DEF Rows, TypeInv, TypeOK
<1> PICK n \in Nat : n = Len(queue)
  BY <1>1
<1>3. /\ \A r, s \in Rows' : r.rowid < s.rowid => r.at <= s.at
      /\ \A r \in Rows' : r.at <= clock'
  BY <1>2 DEF TimesOK
<1>4. \A i \in 1 .. n : Inserting(i)' =>
        /\ Inserting(i)
        /\ coro'[queue'[i]].at = coro[queue[i]].at
        /\ coro[queue[i]].at <= clock
  BY <1>1 DEF TimesOK, Inserting
<1>5. Inserting(n + 1)' => coro'[queue'[n + 1]].at = clock
  BY <1>1 DEF Inserting
<1>6. \A i \in 1 .. Len(queue') : i \in 1 .. n \/ i = n + 1
  BY <1>1
<1>7. \A i \in 1 .. Len(queue') : Inserting(i)' =>
        /\ coro'[queue'[i]].at <= clock'
        /\ \A r \in Rows' : r.at <= coro'[queue'[i]].at
  BY <1>2, <1>3, <1>4, <1>5, <1>6 DEF TimesOK
<1>8. \A i, j \in 1 .. Len(queue') : i < j /\ Inserting(i)' /\ Inserting(j)' =>
        coro'[queue'[i]].at <= coro'[queue'[j]].at
  <2> SUFFICES ASSUME NEW i \in 1 .. Len(queue'), NEW j \in 1 .. Len(queue'),
                      i < j, Inserting(i)', Inserting(j)'
               PROVE  coro'[queue'[i]].at <= coro'[queue'[j]].at
    OBVIOUS
  <2>1. i \in 1 .. n
    BY <1>1
  <2>2. CASE j \in 1 .. n
    BY <1>4, <2>1, <2>2 DEF TimesOK
  <2>3. CASE j = n + 1
    BY <1>4, <1>5, <2>1, <2>3
  <2>4. QED
    BY <1>6, <2>2, <2>3
<1>9. QED
  BY <1>3, <1>7, <1>8 DEF TimesOK

(* An answer to the first call, of which at most its row is left.          *)
LEMMA TimesRemoved ==
  ASSUME TypeInv, QueueOK, TimesOK, queue # <<>>, NEW c, Reply(c),
         Rows' \subseteq Rows, clock' = clock
  PROVE  TimesOK'
<1>1. /\ Len(queue) \in Nat \ {0}
      /\ Len(queue') = Len(queue) - 1
      /\ \A i \in 1 .. Len(queue) - 1 : coro'[queue'[i]] = coro[queue[i + 1]]
  BY ReplyRemoves
<1>2. /\ \A r, s \in Rows' : r.rowid < s.rowid => r.at <= s.at
      /\ \A r \in Rows' : r.at <= clock'
  BY DEF TimesOK
<1>3. \A i \in 1 .. Len(queue') : Inserting(i)' =>
        /\ Inserting(i + 1) /\ i + 1 \in 1 .. Len(queue)
        /\ coro'[queue'[i]].at = coro[queue[i + 1]].at
  BY <1>1 DEF Inserting
<1>4. \A i \in 1 .. Len(queue') : Inserting(i)' =>
        /\ coro'[queue'[i]].at <= clock'
        /\ \A r \in Rows' : r.at <= coro'[queue'[i]].at
  BY <1>3 DEF TimesOK
<1>5. \A i, j \in 1 .. Len(queue') : i < j /\ Inserting(i)' /\ Inserting(j)' =>
        coro'[queue'[i]].at <= coro'[queue'[j]].at
  <2> SUFFICES ASSUME NEW i \in 1 .. Len(queue'), NEW j \in 1 .. Len(queue'),
                      i < j, Inserting(i)', Inserting(j)'
               PROVE  coro'[queue'[i]].at <= coro'[queue'[j]].at
    OBVIOUS
  <2>1. i + 1 < j + 1
    BY <1>1
  <2>2. QED
    BY <1>3, <2>1 DEF TimesOK
<1>6. QED
  BY <1>2, <1>4, <1>5 DEF TimesOK

LEMMA TimesInserted ==
  ASSUME TypeInv, QueueOK, CountOK, TimesOK, ThreadInsert, clock' = clock
  PROVE  TimesOK'
<1> DEFINE row == Row(Current)
           c == [Current EXCEPT !.reply = "ok", !.new = TRUE]
<1>1. queue # <<>> /\ Current.pc = "insert" /\ Reply(c)
  BY DEF ThreadInsert, Executes
<1>2. /\ Len(queue) \in Nat \ {0}
      /\ Len(queue') = Len(queue) - 1
      /\ \A i \in 1 .. Len(queue) - 1 : coro'[queue'[i]] = coro[queue[i + 1]]
      /\ coro[queue[1]] = Current
  BY <1>1, ReplyRemoves
<1>3. /\ Rows' = Rows \cup {row}
      /\ row.rowid = 1 + Cardinality(Rows)
      /\ row.at = Current.at
  BY DEF ThreadInsert, Rows, Row, NextRowid
<1>4. /\ Cardinality(Rows) \in Nat /\ Current.at \in Nat /\ clock \in Nat
      /\ \A r \in Rows : r.rowid \in 1 .. Cardinality(Rows) /\ r.at \in Nat
  BY <1>1, RowsAreFinite, CurrentType DEF CountOK, Counted, CoroSet, TypeInv, TypeOK
<1>5. Inserting(1)
  BY <1>1, <1>2 DEF Inserting
<1>6. /\ Current.at <= clock
      /\ \A r \in Rows : r.at <= Current.at
      /\ \A i \in 2 .. Len(queue) : Inserting(i) => Current.at <= coro[queue[i]].at
  BY <1>2, <1>5 DEF TimesOK
<1>7. \A r, s \in Rows' : r.rowid < s.rowid => r.at <= s.at
  BY <1>3, <1>4, <1>6 DEF TimesOK
<1>8. \A r \in Rows' : r.at <= clock'
  BY <1>3, <1>6 DEF TimesOK
<1>9. \A i \in 1 .. Len(queue') : Inserting(i)' =>
        /\ Inserting(i + 1) /\ i + 1 \in 2 .. Len(queue)
        /\ coro'[queue'[i]].at = coro[queue[i + 1]].at
  BY <1>2 DEF Inserting
<1>10. \A i \in 1 .. Len(queue') : Inserting(i)' =>
         /\ coro'[queue'[i]].at <= clock'
         /\ \A r \in Rows' : r.at <= coro'[queue'[i]].at
  BY <1>2, <1>3, <1>6, <1>9 DEF TimesOK
<1>11. \A i, j \in 1 .. Len(queue') : i < j /\ Inserting(i)' /\ Inserting(j)' =>
         coro'[queue'[i]].at <= coro'[queue'[j]].at
  BY <1>2, <1>9 DEF TimesOK
<1>12. QED
  BY <1>7, <1>8, <1>10, <1>11 DEF TimesOK

LEMMA TimesStep ==
  TypeInv /\ QueueOK /\ CountOK /\ TimesOK /\ [Next]_vars => TimesOK'
<1> SUFFICES ASSUME TypeInv, QueueOK, CountOK, TimesOK, [Next]_vars
             PROVE  TimesOK'
  OBVIOUS
<1>1. ASSUME NEW t \in Tasks, NEW r \in Requests, Receive(t, r) PROVE TimesOK'
  <2> DEFINE c == [Idle EXCEPT !.pc = "insert", !.delivery = Summarize(r), !.at = clock]
  <2>1. c.at = clock
    BY DEF Idle
  <2>2. /\ Call(t, c) /\ coro[t].pc = "idle"
        /\ UNCHANGED <<table, txn, clock>>
    BY <1>1 DEF Receive, Record
  <2>3. QED
    BY <2>1, <2>2, TimesAppended
<1>2. ASSUME NEW t \in Tasks, NEW n \in Limits, ListEvents(t, n) PROVE TimesOK'
  <2> DEFINE capped == IF n < EventsMaxLimit THEN n ELSE EventsMaxLimit
             c == [Idle EXCEPT !.pc = "select", !.limit = capped]
  <2>1. c.pc = "select"
    BY DEF Idle
  <2>2. /\ Call(t, c) /\ coro[t].pc = "idle"
        /\ UNCHANGED <<table, txn, clock>>
    BY <1>2 DEF ListEvents, Recent
  <2>3. QED
    BY <2>1, <2>2, TimesAppended
<1>3. ASSUME NEW t \in Tasks, NEW pc \in {"commit", "fetch"},
             Call(t, [coro[t] EXCEPT !.pc = pc, !.reply = "pending"]),
             coro[t].reply = "ok", UNCHANGED <<table, txn, clock>>
      PROVE  TimesOK'
  <2> DEFINE c == [coro[t] EXCEPT !.pc = pc, !.reply = "pending"]
  <2>1. c.pc = pc
    BY DEF TypeInv, TypeOK, CoroSet
  <2>2. QED
    BY <1>3, <2>1, TimesAppended
<1>4. ASSUME NEW t \in Tasks, AfterInsert(t) \/ AfterSelect(t) PROVE TimesOK'
  BY <1>3, <1>4 DEF AfterInsert, RecordCommit, AfterSelect, RecentFetch
<1>5. ASSUME NEW t \in Tasks, Acknowledge(t) \/ ListReply(t) \/ Fail(t)
      PROVE  TimesOK'
  <2>1. /\ coro[t].reply # "pending" /\ coro' = [coro EXCEPT ![t] = Idle]
        /\ UNCHANGED <<table, txn, clock, queue>>
    BY <1>5 DEF Acknowledge, RecordReturn, ListReply, RecentReturn, Fail, Raise
  <2>2. \A i \in 1 .. Len(queue) : coro'[queue[i]] = coro[queue[i]]
    <3>1. \A i \in 1 .. Len(queue) : queue[i] # t /\ queue[i] \in Tasks
      BY <2>1, NotQueued, ElementOfSeq DEF TypeInv, TypeOK
    <3>2. QED
      BY <2>1, <3>1 DEF TypeInv, TypeOK
  <2>3. QED
    BY <2>1, <2>2 DEF TimesOK, Inserting, Rows
<1>6. CASE Thread \/ Fault
  <2>1. clock' = clock
    BY <1>6 DEF Thread, Fault
  <2>2. CASE ThreadInsert
    BY <2>1, <2>2, TimesInserted
  <2>3. CASE ~ ThreadInsert
    <3>1. Rows' \subseteq Rows
      BY <1>6, <2>3 DEF Thread, ThreadStep, ThreadIgnore, ThreadReject,
         ThreadCommit, ThreadSelect, ThreadFetch, Fault, ThreadFault, Rows
    <3>2. queue # <<>> /\ \E c : Reply(c)
      BY <1>6, <2>3 DEF Thread, ThreadStep, Executes, ThreadIgnore, ThreadReject,
         ThreadCommit, ThreadSelect, ThreadFetch, Fault, ThreadFault
    <3>3. QED
      BY <2>1, <3>1, <3>2, TimesRemoved
  <2>4. QED
    BY <2>2, <2>3
<1>7. CASE Restart
  <2>1. Rows' \subseteq Rows /\ clock' = clock
    BY <1>7 DEF Restart, Close, Crash, Rows
  <2>2. CASE Close
    BY <2>1, <2>2 DEF Close, TimesOK, Inserting
  <2>3. CASE Crash
    <3>1. Len(queue') = 0
      BY <2>3, EmptySeq DEF Crash
    <3>2. QED
      BY <2>1, <3>1 DEF TimesOK
  <2>4. QED
    BY <1>7, <2>2, <2>3 DEF Restart
<1>8. CASE Startup \/ UNCHANGED vars
  BY <1>8 DEF Startup, Connect, vars, storeVars, history, TimesOK, Inserting, Rows
<1>9. CASE Tick
  <2>1. /\ clock \in Nat /\ clock' = clock + 1 /\ Rows' = Rows
        /\ queue' = queue /\ coro' = coro
    BY <1>9 DEF Tick, storeVars, Rows, TypeInv, TypeOK
  <2>2. /\ \A r \in Rows : r.at \in Nat
        /\ \A i \in 1 .. Len(queue) : coro[queue[i]].at \in Nat
    <3>1. \A i \in 1 .. Len(queue) : queue[i] \in Tasks
      BY ElementOfSeq DEF TypeInv, TypeOK
    <3>2. QED
      BY <3>1, RowsAreFinite DEF TypeInv, TypeOK, CoroSet
  <2>3. QED
    BY <2>1, <2>2 DEF TimesOK, Inserting
<1>10. QED
  BY <1>1, <1>2, <1>4, <1>5, <1>6, <1>7, <1>8, <1>9 DEF Next, Handler

-----------------------------------------------------------------------------
(* What a listing is owed.                                                 *)

LEMMA InitOwed == Init => OwedOK
BY DEF Init, OwedOK

LEMMA OwedStep == TypeInv /\ OwedOK /\ [Next]_vars => OwedOK'
<1> SUFFICES ASSUME TypeInv, OwedOK, [Next]_vars, NEW u \in Tasks
             PROVE  owed'[u] \subseteq acked'
  BY DEF OwedOK
<1>1. owed[u] \subseteq acked
  BY DEF OwedOK
<1>2. owed'[u] \in {owed[u], acked, {}}
  BY DEF Next, Handler, Receive, ListEvents, AfterInsert, Acknowledge, AfterSelect,
     ListReply, Fail, Thread, Fault, Startup, Restart, Tick, vars, history,
     TypeInv, TypeOK
<1>3. acked \subseteq acked'
  BY DEF Next, Handler, Receive, ListEvents, AfterInsert, Acknowledge, AfterSelect,
     ListReply, Fail, Thread, Fault, Startup, Restart, Tick, vars, history
<1>4. QED
  BY <1>1, <1>2, <1>3

-----------------------------------------------------------------------------
(* What a SELECT answers.                                                  *)

(* With the arrival times in order, newer means a larger rowid. *)
LEMMA NewerByRowid ==
  ASSUME TypeInv, CountOK, TimesOK, OneRowPerKey, NEW r \in Rows, NEW s \in Rows
  PROVE  Newer(r, s) <=> r.rowid > s.rowid
<1>1. /\ r.rowid \in Nat /\ s.rowid \in Nat /\ r.at \in Nat /\ s.at \in Nat
  BY RowsAreFinite
<1>2. r.rowid = s.rowid => r = s
  BY DEF OneRowPerKey
<1>3. /\ r.rowid < s.rowid => r.at <= s.at
      /\ s.rowid < r.rowid => s.at <= r.at
  BY DEF TimesOK
<1>4. QED
  BY <1>1, <1>2, <1>3 DEF Newer

(* A list as long as there are rows holds them all. *)
LEMMA WholeList ==
  ASSUME NEW rows, IsFiniteSet(rows), NEW list \in [1 .. Cardinality(rows) -> rows],
         \A i, j \in 1 .. Cardinality(rows) : i < j => list[i] # list[j]
  PROVE  \A r \in rows : \E i \in 1 .. Cardinality(rows) : list[i] = r
<1> DEFINE n == Cardinality(rows)
<1>1. n \in Nat
  BY FS_CardinalityType
<1>2. list \in Injection(1 .. n, rows)
  <2>1. \A i, j \in 1 .. n : list[i] = list[j] => i = j
    BY <1>1
  <2>2. QED
    BY <2>1 DEF Injection, IsInjective
<1>3. Cardinality(1 .. n) = n
  BY <1>1, FS_Interval
<1>4. list \in Surjection(1 .. n, rows)
  BY <1>2, <1>3, FS_Injection
<1>5. QED
  BY <1>4 DEF Surjection

LEMMA SelectIsRecent ==
  ASSUME TypeInv, CountOK, TimesOK, OneRowPerKey, NEW limit \in Int,
         NEW list \in Newest(Rows, limit), NEW due, due \subseteq KeysOf(Rows)
  PROVE  Recently(list, limit, due)
<1> DEFINE size == Cardinality(Rows)
           n == Len(list)
<1>1. /\ IsFiniteSet(Rows) /\ size \in Nat
      /\ \A r \in Rows : r.rowid \in 1 .. size
      /\ \A i \in 1 .. size : \E r \in Rows : r.rowid = i
  BY RowsAreFinite DEF CountOK, Counted
<1>2. /\ n = IF limit < 0 \/ limit > size THEN size ELSE limit
      /\ n \in Nat
      /\ list \in [1 .. n -> Rows]
      /\ \A i, j \in 1 .. n : i < j => Newer(list[i], list[j])
      /\ \A r \in Rows : \/ \E i \in 1 .. n : list[i] = r
                         \/ \A i \in 1 .. n : Newer(list[i], r)
  <2> DEFINE length == IF limit < 0 \/ limit > size THEN size ELSE limit
  <2>1. /\ length \in Nat
        /\ list \in [1 .. length -> Rows]
        /\ \A i, j \in 1 .. length : i < j => Newer(list[i], list[j])
        /\ \A r \in Rows : \/ \E i \in 1 .. length : list[i] = r
                           \/ \A i \in 1 .. length : Newer(list[i], r)
    BY <1>1 DEF Newest
  <2>2. list \in Seq(Rows)
    BY <2>1, SeqDef
  <2>3. n = length
    BY <2>1, <2>2, LenProperties
  <2>4. QED
    BY <2>1, <2>3
<1> HIDE DEF size, n
<1>3. \A i, j \in 1 .. n : i < j => list[i].rowid > list[j].rowid
  BY <1>2, NewerByRowid
<1>4. \A r \in Rows : \/ \E i \in 1 .. n : list[i] = r
                     \/ \A i \in 1 .. n : list[i].rowid > r.rowid
  BY <1>2, NewerByRowid
<1>5. \A i \in 1 .. n : list[i] \in Rows /\ list[i].rowid \in 1 .. size
  BY <1>1, <1>2
<1>6. ASSUME n = size PROVE \A r \in Rows : \E i \in 1 .. n : list[i] = r
  <2>1. \A i, j \in 1 .. n : i < j => list[i] # list[j]
    BY <1>1, <1>3, <1>5
  <2>2. QED
    BY <1>1, <1>2, <1>6, <2>1, WholeList DEF size
<1>7. ASSUME NEW i \in 1 .. n - 1
      PROVE  list[i].rowid = list[i + 1].rowid + 1
  <2> DEFINE next == list[i + 1].rowid + 1
  <2>1. i \in 1 .. n /\ i + 1 \in 1 .. n
    BY <1>2
  <2>2. list[i].rowid \in 1 .. size /\ list[i + 1].rowid \in 1 .. size
    BY <1>5, <2>1
  <2>3. list[i].rowid >= next
    BY <1>3, <2>1, <2>2
  <2>4. ASSUME list[i].rowid > next PROVE FALSE
    <3>1. PICK r \in Rows : r.rowid = next
      BY <1>1, <2>2, <2>4
    <3>2. ~ \A j \in 1 .. n : list[j].rowid > r.rowid
      BY <1>1, <2>1, <2>2, <3>1
    <3>3. PICK j \in 1 .. n : list[j] = r
      BY <1>4, <3>2
    <3>4. CASE j < i
      BY <1>3, <1>5, <2>1, <2>2, <2>4, <3>1, <3>3, <3>4
    <3>5. CASE j = i
      BY <2>4, <3>1, <3>3, <3>5, <2>2
    <3>6. CASE j = i + 1
      BY <2>2, <3>1, <3>3, <3>6
    <3>7. CASE j > i + 1
      BY <1>3, <1>5, <2>1, <2>2, <3>1, <3>3, <3>7
    <3>8. QED
      BY <3>4, <3>5, <3>6, <3>7, <1>2
  <2>5. QED
    BY <2>2, <2>3, <2>4
<1>8. ASSUME n < limit, n > 0 PROVE list[n].rowid = 1
  <2>1. n = size /\ size \in Nat /\ size > 0
    BY <1>1, <1>2, <1>8
  <2>2. PICK r \in Rows : r.rowid = 1
    BY <1>1, <2>1
  <2>3. PICK i \in 1 .. n : list[i] = r
    BY <1>6, <2>1
  <2>4. n \in 1 .. n /\ list[n].rowid \in 1 .. size
    BY <1>5, <2>1
  <2>5. ~ (i < n)
    BY <1>3, <2>2, <2>3, <2>4
  <2>6. QED
    BY <1>2, <2>2, <2>3, <2>5
<1>9. ASSUME NEW k \in due, n # limit
      PROVE  \E i \in 1 .. n : Key(list[i].delivery) = k
  <2>1. n = size
    BY <1>2, <1>9
  <2>2. PICK r \in Rows : Key(r.delivery) = k
    BY DEF KeysOf
  <2>3. QED
    BY <1>6, <2>1, <2>2
<1>10. limit >= 0 => n <= limit
  BY <1>1, <1>2
<1>11. QED
  BY <1>7, <1>8, <1>9, <1>10 DEF Recently, n

-----------------------------------------------------------------------------
(* A list once selected stays as it is.                                    *)

LEMMA InitLists == Init => ListsOK
BY DEF Init, StoreInit, Idle, ListsOK, Selected

LEMMA ListsKept ==
  ASSUME NEW u \in Tasks, ListsOK, owed'[u] = owed[u],
         Selected(coro'[u]) => /\ Selected(coro[u])
                               /\ coro'[u].rows = coro[u].rows
                               /\ coro'[u].limit = coro[u].limit
  PROVE  Selected(coro'[u]) => Recently(coro'[u].rows, coro'[u].limit, owed'[u])
BY DEF ListsOK

LEMMA ListsStep == IInv /\ LInv /\ [Next]_vars => ListsOK'
<1> SUFFICES ASSUME IInv, LInv, [Next]_vars, NEW u \in Tasks, Selected(coro'[u])
             PROVE  Recently(coro'[u].rows, coro'[u].limit, owed'[u])
  BY DEF ListsOK
<1> DEFINE Kept == /\ Selected(coro[u])
                   /\ coro'[u].rows = coro[u].rows
                   /\ coro'[u].limit = coro[u].limit
<1>1. /\ TypeInv /\ QueueOK /\ AckedIsDurable /\ OneRowPerKey
      /\ CountOK /\ TimesOK /\ OwedOK /\ ListsOK
      /\ coro \in [Tasks -> CoroSet] /\ owed \in [Tasks -> SUBSET Keys]
  BY DEF IInv, LInv, TypeInv, TypeOK
<1>2. CASE coro'[u] = coro[u] /\ owed'[u] = owed[u]
  BY <1>1, <1>2, ListsKept
<1>3. CASE UNCHANGED vars
  BY <1>2, <1>3 DEF vars, storeVars, history
<1>4. ASSUME NEW t \in Tasks,
             \/ \E r \in Requests : Receive(t, r)
             \/ \E n \in Limits : ListEvents(t, n)
             \/ AfterInsert(t) \/ Acknowledge(t) \/ ListReply(t) \/ Fail(t)
      PROVE  Recently(coro'[u].rows, coro'[u].limit, owed'[u])
  <2>1. u # t => coro'[u] = coro[u] /\ owed'[u] = owed[u]
    BY <1>1, <1>4 DEF Receive, Record, ListEvents, Recent, AfterInsert,
       RecordCommit, Acknowledge, RecordReturn, ListReply, RecentReturn, Fail,
       Raise, Call, history
  <2>2. ~ Selected(coro'[t])
    <3>1. ASSUME NEW n \in Limits, ListEvents(t, n) PROVE ~ Selected(coro'[t])
      BY <1>1, <3>1 DEF ListEvents, Recent, Call, Idle, Selected
    <3>2. ASSUME NEW r \in Requests, Receive(t, r) PROVE ~ Selected(coro'[t])
      BY <1>1, <3>2 DEF Receive, Record, Call, Idle, Selected
    <3>3. CASE AfterInsert(t)
      BY <1>1, <3>3 DEF AfterInsert, RecordCommit, Call, Selected, CoroSet
    <3>4. CASE Acknowledge(t) \/ ListReply(t) \/ Fail(t)
      <4>1. coro'[t] = Idle
        BY <1>1, <3>4 DEF Acknowledge, RecordReturn, ListReply, RecentReturn, Fail, Raise
      <4>2. QED
        BY <4>1 DEF Idle, Selected
    <3>5. QED
      BY <1>4, <3>1, <3>2, <3>3, <3>4
  <2>3. QED
    BY <1>2, <2>1, <2>2
<1>5. ASSUME NEW t \in Tasks, AfterSelect(t)
      PROVE  Recently(coro'[u].rows, coro'[u].limit, owed'[u])
  <2>1. owed' = owed
    BY <1>5 DEF AfterSelect, history
  <2>2. u # t => coro'[u] = coro[u]
    BY <1>1, <1>5 DEF AfterSelect, RecentFetch, Call
  <2>3. u = t => Kept
    BY <1>1, <1>5 DEF AfterSelect, RecentFetch, Call, Selected, CoroSet
  <2>4. QED
    BY <1>1, <1>2, <2>1, <2>2, <2>3, ListsKept
<1>6. CASE Thread \/ Fault
  <2> DEFINE h == Head(queue)
  <2>1. /\ queue # <<>> /\ h \in Tasks /\ Current = coro[h]
        /\ Current \in CoroSet
    BY <1>1, <1>6, CurrentType
       DEF Thread, ThreadStep, Executes, ThreadInsert, ThreadIgnore,
           ThreadReject, ThreadCommit, ThreadSelect, ThreadFetch, Fault,
           ThreadFault, Current
  <2>2. owed' = owed
    BY <1>6 DEF Thread, Fault
  <2>3. u # h => coro'[u] = coro[u]
    BY <1>1, <1>6, <2>1
       DEF Thread, ThreadStep, ThreadInsert, ThreadIgnore, ThreadReject,
           ThreadCommit, ThreadSelect, ThreadFetch, Fault, ThreadFault, Reply
  <2>4. CASE ThreadSelect /\ u = h
    <3>1. PICK list \in Newest(Rows, Current.limit) :
            Reply([Current EXCEPT !.reply = "ok", !.rows = list])
      BY <2>4 DEF ThreadSelect
    <3>2. coro'[u].rows = list /\ coro'[u].limit = Current.limit
      BY <1>1, <2>1, <2>4, <3>1 DEF Reply, CoroSet
    <3>3. owed[u] \subseteq KeysOf(Rows)
      BY <1>1 DEF OwedOK, AckedIsDurable, KeysOf, Rows
    <3>4. Current.limit \in Int
      BY <2>1 DEF CoroSet
    <3>5. QED
      BY <1>1, <2>2, <3>1, <3>2, <3>3, <3>4, SelectIsRecent
  <2>5. CASE ~ ThreadSelect /\ u = h
    <3>1. /\ coro'[h].rows = Current.rows
          /\ coro'[h].limit = Current.limit
          /\ coro'[h].pc = Current.pc
          /\ coro'[h].reply = "ok" => Current.pc # "select"
      <4>1. PICK r \in {"ok", "error"}, b \in BOOLEAN :
              /\ Reply([Current EXCEPT !.reply = r, !.new = b])
              /\ r = "ok" => Current.pc # "select"
        <5>1. CASE ThreadInsert
          BY <5>1 DEF ThreadInsert, Executes
        <5>2. CASE ThreadIgnore
          BY <5>2 DEF ThreadIgnore, Executes
        <5>3. ASSUME NEW r \in {"ok", "error"},
                     Reply([Current EXCEPT !.reply = r]),
                     r = "ok" => Current.pc # "select"
              PROVE  /\ Reply([Current EXCEPT !.reply = r, !.new = Current.new])
                     /\ Current.new \in BOOLEAN
                     /\ r = "ok" => Current.pc # "select"
          <6>1. /\ [Current EXCEPT !.reply = r]
                     = [Current EXCEPT !.reply = r, !.new = Current.new]
                /\ Current.new \in BOOLEAN
            BY <2>1 DEF CoroSet
          <6>2. QED
            BY <5>3, <6>1
        <5>4. CASE ThreadReject \/ Fault
          <6>1. Reply([Current EXCEPT !.reply = "error"])
            BY <5>4 DEF ThreadReject, Fault, ThreadFault
          <6>2. QED
            BY <5>3, <6>1
        <5>5. CASE ThreadCommit \/ ThreadFetch
          <6>1. Reply([Current EXCEPT !.reply = "ok"]) /\ Current.pc # "select"
            BY <5>5 DEF ThreadCommit, ThreadFetch, Executes
          <6>2. QED
            BY <5>3, <6>1
        <5>6. QED
          BY <1>6, <2>5, <5>1, <5>2, <5>4, <5>5 DEF Thread, ThreadStep
      <4>2. coro'[h] = [Current EXCEPT !.reply = r, !.new = b]
        BY <1>1, <2>1, <4>1 DEF Reply
      <4>3. QED
        BY <2>1, <4>1, <4>2 DEF CoroSet
    <3>2. Kept
      BY <2>1, <2>5, <3>1 DEF Selected
    <3>3. QED
      BY <1>1, <2>2, <3>2, ListsKept
  <2>6. QED
    BY <1>2, <2>2, <2>3, <2>4, <2>5
<1>7. CASE Restart
  <2>1. coro'[u].pc = "idle"
    BY <1>7 DEF Restart, Close, Crash, Idle
  <2>2. QED
    BY <2>1 DEF Selected
<1>8. CASE Startup \/ Tick
  BY <1>2, <1>8 DEF Startup, Connect, Tick, storeVars, history
<1>9. QED
  BY <1>3, <1>4, <1>5, <1>6, <1>7, <1>8 DEF Next, Handler

-----------------------------------------------------------------------------
(* The theorem.                                                            *)

LEMMA ListingsInductive == Spec => []LInv
<1>1. Init => LInv
  BY InitCount, InitTimes, InitOwed, InitLists DEF LInv
<1>2. IInv /\ LInv /\ [Next]_vars => LInv'
  <2>1. IInv => TypeInv /\ QueueOK
    BY DEF IInv
  <2>2. QED
    BY <2>1, CountStep, TimesStep, OwedStep, ListsStep DEF LInv
<1>3. QED
  BY <1>1, <1>2, Inductive, PTL DEF Spec

(* A list of GET /events is an unbroken run of the latest arrivals, and    *)
(* what was acknowledged before the request is in it or beyond its limit,  *)
(* however many requests there are and however they interleave.            *)
THEOREM ListsAreRecent == Spec => []ListingIsRecent
<1>1. LInv => ListingIsRecent
  BY DEF LInv, ListsOK, Selected, Recently, ListingIsRecent, Listing
<1>2. QED
  BY <1>1, ListingsInductive, PTL
=============================================================================
