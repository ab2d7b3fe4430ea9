----------------------------- MODULE EventStore -----------------------------
(***************************************************************************)
(* The SQLite store of webhook deliveries (app/store.py): the coroutines   *)
(* of EventStore and the one connection they share.                        *)
(*                                                                         *)
(* aiosqlite hands every connection call to one worker thread, in call     *)
(* order, and resumes the caller with the result later.  So record() is    *)
(* an INSERT and a COMMIT with an await after each, recent() a SELECT and  *)
(* a fetchall, and the calls of concurrent requests interleave between     *)
(* them, inside one transaction: sqlite3 opens it before the first INSERT  *)
(* and the next COMMIT, whoever asks for it, ends it.                      *)
(*                                                                         *)
(* The worker thread and SQLite are not under src/ and are modelled from   *)
(* how store.py uses them (the Thread... actions).                         *)
(***************************************************************************)
EXTENDS Integers, Sequences, FiniteSets

CONSTANTS Tasks,        \* handlers that may run at the same time
          Deliveries,   \* summaries: [id, event, action, storable]
          NoDelivery    \* what a task that records nothing holds

ASSUME NoDeliveryAssumption == NoDelivery \notin Deliveries

VARIABLES
  connected,   \* self._connection is not None
  table,       \* the committed rows of webhook_events
  txn,         \* the rows of the connection's open transaction
  queue,       \* the tasks whose calls wait for the worker thread
  coro         \* per task: the call it awaits, its arguments and its result

storeVars == <<connected, table, txn, queue, coro>>

-----------------------------------------------------------------------------

(* PRIMARY KEY (delivery_id, action). *)
Key(d) == <<d.id, d.action>>
KeysOf(rows) == {Key(r.delivery) : r \in rows}

(* What a statement on the connection sees: its own transaction included.  *)
Rows == table \cup txn

(* A rowid table without AUTOINCREMENT: the largest rowid in use plus one, *)
(* and no row is ever deleted.                                             *)
NextRowid == 1 + Cardinality(Rows)

Row(c) == [delivery |-> c.delivery, at |-> c.at, rowid |-> NextRowid]

(* Mutant: rows of one instant in any order. *)
NewerByTime(r, s) == r.at > s.at \/ (r.at = s.at /\ r # s)

(* ORDER BY received_at DESC, rowid DESC LIMIT n: the set of the lists     *)
(* that satisfy it, which is one list; SQLite reads a negative n as no     *)
(* limit.                                                                  *)
Newer(r, s) == r.at > s.at \/ (r.at = s.at /\ r.rowid > s.rowid)
Newest(rows, n) ==
  LET size   == Cardinality(rows)
      length == IF n < 0 \/ n > size THEN size ELSE n
  IN  {list \in [1 .. length -> rows] :
         /\ \A i, j \in 1 .. length : i < j => Newer(list[i], list[j])
         /\ \A r \in rows :
              \/ \E i \in 1 .. length : list[i] = r
              \/ \A i \in 1 .. length : Newer(list[i], r)}

(* A task outside the store. *)
Idle == [pc |-> "idle", reply |-> "pending", delivery |-> NoDelivery,
         at |-> 0, limit |-> 0, new |-> FALSE, rows |-> <<>>]

-----------------------------------------------------------------------------
(* The coroutines: each runs up to its next await in one step.             *)

Call(t, c) == /\ coro' = [coro EXCEPT ![t] = c]
              /\ queue' = Append(queue, t)

(* record(): received_at is taken when the INSERT is handed over, not when *)
(* the thread executes it.                                                 *)
Record(t, d, now) ==
  /\ connected
  /\ coro[t].pc = "idle"
  /\ Call(t, [Idle EXCEPT !.pc = "insert", !.delivery = d, !.at = now])
  /\ UNCHANGED <<connected, table, txn>>

(* Mutant: a duplicate returns without a commit. *)
RecordCommitIfNew(t) ==
  /\ coro[t].pc = "insert" /\ coro[t].reply = "ok"
  /\ IF coro[t].new
     THEN Call(t, [coro[t] EXCEPT !.pc = "commit", !.reply = "pending"])
     ELSE coro' = [coro EXCEPT ![t].pc = "commit"] /\ UNCHANGED queue
  /\ UNCHANGED <<connected, table, txn>>

(* Mutant: the commit is left to somebody else. *)
RecordNoCommit(t) ==
  /\ coro[t].pc = "insert" /\ coro[t].reply = "ok"
  /\ coro' = [coro EXCEPT ![t].pc = "commit"]
  /\ UNCHANGED <<connected, table, txn, queue>>

RecordCommit(t) ==
  /\ coro[t].pc = "insert" /\ coro[t].reply = "ok"
  /\ Call(t, [coro[t] EXCEPT !.pc = "commit", !.reply = "pending"])
  /\ UNCHANGED <<connected, table, txn>>

(* return cursor.rowcount > 0, which is coro[t].new. *)
RecordReturn(t) ==
  /\ coro[t].pc = "commit" /\ coro[t].reply = "ok"
  /\ coro' = [coro EXCEPT ![t] = Idle]
  /\ UNCHANGED <<connected, table, txn, queue>>

Recent(t, n) ==
  /\ connected
  /\ coro[t].pc = "idle"
  /\ Call(t, [Idle EXCEPT !.pc = "select", !.limit = n])
  /\ UNCHANGED <<connected, table, txn>>

RecentFetch(t) ==
  /\ coro[t].pc = "select" /\ coro[t].reply = "ok"
  /\ Call(t, [coro[t] EXCEPT !.pc = "fetch", !.reply = "pending"])
  /\ UNCHANGED <<connected, table, txn>>

RecentReturn(t) ==
  /\ coro[t].pc = "fetch" /\ coro[t].reply = "ok"
  /\ coro' = [coro EXCEPT ![t] = Idle]
  /\ UNCHANGED <<connected, table, txn, queue>>

(* Mutant: the error is caught and the method goes nowhere. *)
RaiseCaught(t) ==
  /\ coro[t].reply = "error"
  /\ coro' = [coro EXCEPT ![t] = [Idle EXCEPT !.pc = "failed"]]
  /\ UNCHANGED <<connected, table, txn, queue>>

(* A call that raised: neither method catches anything. *)
Raise(t) ==
  /\ coro[t].reply = "error"
  /\ coro' = [coro EXCEPT ![t] = Idle]
  /\ UNCHANGED <<connected, table, txn, queue>>

-----------------------------------------------------------------------------
(* The worker thread: one call at a time, the oldest first.                *)

Current == coro[Head(queue)]

Executes(op) == queue # <<>> /\ Current.pc = op

Reply(c) == /\ coro' = [coro EXCEPT ![Head(queue)] = c]
            /\ queue' = Tail(queue)

(* Mutant: no PRIMARY KEY. *)
ThreadInsertAlways ==
  /\ Executes("insert")
  /\ Current.delivery.storable
  /\ txn' = txn \cup {Row(Current)}
  /\ Reply([Current EXCEPT !.reply = "ok", !.new = TRUE])
  /\ UNCHANGED <<connected, table>>

(* INSERT OR IGNORE of a key that is in no row yet. *)
ThreadInsert ==
  /\ Executes("insert")
  /\ Current.delivery.storable
  /\ Key(Current.delivery) \notin KeysOf(Rows)
  /\ txn' = txn \cup {Row(Current)}
  /\ Reply([Current EXCEPT !.reply = "ok", !.new = TRUE])
  /\ UNCHANGED <<connected, table>>

(* Mutant: rowcount 1 for a row that was ignored. *)
ThreadIgnoreAsNew ==
  /\ Executes("insert")
  /\ Current.delivery.storable
  /\ Key(Current.delivery) \in KeysOf(Rows)
  /\ Reply([Current EXCEPT !.reply = "ok", !.new = TRUE])
  /\ UNCHANGED <<connected, table, txn>>

(* The same of a key that is: rowcount 0. *)
ThreadIgnore ==
  /\ Executes("insert")
  /\ Current.delivery.storable
  /\ Key(Current.delivery) \in KeysOf(Rows)
  /\ Reply([Current EXCEPT !.reply = "ok", !.new = FALSE])
  /\ UNCHANGED <<connected, table, txn>>

(* A value that cannot be bound to a parameter: a lone surrogate in a      *)
(* string, an integer of more than 64 bits.                                *)
ThreadReject ==
  /\ Executes("insert")
  /\ ~Current.delivery.storable
  /\ Reply([Current EXCEPT !.reply = "error"])
  /\ UNCHANGED <<connected, table, txn>>

(* COMMIT ends the connection's transaction: the rows of every task that   *)
(* has inserted into it become durable.  Without one it does nothing.      *)
ThreadCommit ==
  /\ Executes("commit")
  /\ table' = Rows
  /\ txn' = {}
  /\ Reply([Current EXCEPT !.reply = "ok"])
  /\ UNCHANGED connected

(* The SELECT reads what the connection sees when it is executed; rows     *)
(* inserted before the fetchall are newer than its cursor's position.      *)
ThreadSelect ==
  /\ Executes("select")
  /\ \E list \in Newest(Rows, Current.limit) :
       Reply([Current EXCEPT !.reply = "ok", !.rows = list])
  /\ UNCHANGED <<connected, table, txn>>

ThreadFetch ==
  /\ Executes("fetch")
  /\ Reply([Current EXCEPT !.reply = "ok"])
  /\ UNCHANGED <<connected, table, txn>>

(* A call fails and leaves the database and the transaction as they were   *)
(* (the file is locked by another process, a read fails).                  *)
ThreadFault ==
  /\ queue # <<>>
  /\ Reply([Current EXCEPT !.reply = "error"])
  /\ UNCHANGED <<connected, table, txn>>

(* A full disk or an I/O error under an INSERT: SQLite rolls back the      *)
(* whole transaction, with the rows other tasks have inserted into it.     *)
ThreadRollback ==
  /\ Executes("insert")
  /\ txn' = {}
  /\ Reply([Current EXCEPT !.reply = "error"])
  /\ UNCHANGED <<connected, table>>

ThreadStep == \/ ThreadInsert \/ ThreadIgnore \/ ThreadReject
              \/ ThreadCommit \/ ThreadSelect \/ ThreadFetch

-----------------------------------------------------------------------------

StoreInit ==
  /\ connected = FALSE
  /\ table = {}
  /\ txn = {}
  /\ queue = <<>>
  /\ coro = [t \in Tasks |-> Idle]

(* Mutant: the schema drops the table it finds. *)
ConnectAnew ==
  /\ ~connected
  /\ connected' = TRUE
  /\ table' = {}
  /\ UNCHANGED <<txn, queue, coro>>

(* connect() and close(), around the application's life; close() discards  *)
(* an open transaction.  The file, with the table in it, stays.            *)
Connect ==
  /\ ~connected
  /\ connected' = TRUE
  /\ UNCHANGED <<table, txn, queue, coro>>

Close ==
  /\ connected
  /\ \A t \in Tasks : coro[t].pc = "idle"
  /\ connected' = FALSE
  /\ txn' = {}
  /\ UNCHANGED <<table, queue, coro>>

(* The process dies; SQLite rolls the transaction back on the next open.   *)
Crash ==
  /\ connected
  /\ connected' = FALSE
  /\ txn' = {}
  /\ queue' = <<>>
  /\ coro' = [t \in Tasks |-> Idle]
  /\ UNCHANGED table
=============================================================================
