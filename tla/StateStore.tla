----------------------------- MODULE StateStore -----------------------------
(***************************************************************************)
(* The file backend of the state store (state_store/file_backend.py): a    *)
(* SQLite table, and a JSONL log of its changes that watch follows.        *)
(*                                                                         *)
(* One process runs the coroutines Clients; a call is split where it       *)
(* awaits.  set and delete commit before they log, under the lock of the   *)
(* one shard a store has by default; a transaction logs before it commits, *)
(* under another lock and SQLite's write lock; get takes no lock.  The     *)
(* watcher is another process, for which every change of the table must    *)
(* come through the log.  An etag is the hash of the value: the value.     *)
(***************************************************************************)
EXTENDS Naturals, Sequences

CONSTANTS
  Clients,   \* the coroutines that use the store
  Keys, 
  TxKeys,    \* keys written in transactions: the CRDTs of the event store
  TtlKeys,   \* keys set with ttl_seconds: its views
  Values,
  Nil,       \* no row, no holder, no etag
  MaxLog     \* bound of the model: lines in the log

VARIABLES
  row,    \* row[k]: the row of k, or Nil
  log,    \* the lines of the log
  shard,  \* the coroutine that holds the shard lock, or Nil
  txn,    \* the coroutine inside BEGIN IMMEDIATE ... COMMIT, or Nil
  call,   \* call[c]: the call c is in
  pos,    \* last_seq of the watcher
  seen,   \* seen[k]: the value the watcher was last told for k, or Nil
  cut     \* history: keys whose last change may have no line in the log

vars == <<row, log, shard, txn, call, pos, seen, cut>>

Row == [val : Values, old : BOOLEAN]

\* A line of the log; "torn": no JSON, which watch skips.  ended: it has its newline.
Line == [type : {"upsert", "delete", "torn"}, key : Keys, ended : BOOLEAN]

\* at: the await the call is suspended in; val: the value it writes (set,
\* transaction) or read (get); etag: the version a FIRST_WRITE names, or Nil;
\* first: is it a FIRST_WRITE?
Call == [at : {"lock", "check", "write", "log", "unlock", "purge", "txlog", "commit"},
         op : {"set", "delete", "get", "tx"},
         key : Keys, val : Values \union {Nil}, etag : Values \union {Nil},
         first : BOOLEAN]

Init ==
  /\ row = [k \in Keys |-> Nil]
  /\ log = <<>>
  /\ shard = Nil
  /\ txn = Nil
  /\ call = [c \in Clients |-> Nil]
  /\ pos = 0
  /\ seen = [k \in Keys |-> Nil]
  /\ cut = {}

Val(k) == IF row[k] = Nil THEN Nil ELSE row[k].val

At(c, at) == call[c] # Nil /\ call[c].at = at

Goto(c, at) == call' = [call EXCEPT ![c].at = at]

\* The call of c ends, with its result or an exception.
Return(c) == call' = [call EXCEPT ![c] = Nil]

-----------------------------------------------------------------------------
(* set and delete.                                                         *)

Start(c) ==
  /\ call[c] = Nil
  /\ Len(log) < MaxLog
  /\ \E op \in {"set", "delete"}, k \in Keys \ TxKeys, v \in Values,
        e \in Values \union {Nil}, first \in BOOLEAN :
       /\ first \/ e = Nil
       /\ call' = [call EXCEPT ![c] = [at |-> "lock", op |-> op, key |-> k,
              val |-> IF op = "set" THEN v ELSE Nil, etag |-> e, first |-> first]]
  /\ UNCHANGED <<row, log, shard, txn, pos, seen, cut>>

\* Mutant of TakeShard: every call has a lock of its own.
TakeShardFree(c) ==
  /\ At(c, "lock")
  /\ Goto(c, "check")
  /\ UNCHANGED <<row, log, shard, txn, pos, seen, cut>>

TakeShard(c) ==
  /\ At(c, "lock")
  /\ shard = Nil
  /\ shard' = c
  /\ Goto(c, "check")
  /\ UNCHANGED <<row, log, txn, pos, seen, cut>>

\* Does the row allow the call?  An absent row always does for a set.
Matches(c) ==
  LET cl == call[c] IN
  cl.first /\ row[cl.key] # Nil => row[cl.key].val = cl.etag

\* SELECT etag: a mismatch raises ConcurrencyError.
Check(c) ==
  /\ At(c, "check")
  /\ Goto(c, IF Matches(c) THEN "write" ELSE "unlock")
  /\ UNCHANGED <<row, log, shard, txn, pos, seen, cut>>

\* Mutant of Write: a delete leaves a row without a value.
WriteTombstone(c) ==
  /\ At(c, "write")
  /\ txn = Nil
  /\ row' = [row EXCEPT ![call[c].key] = [val |-> call[c].val, old |-> FALSE]]
  /\ Goto(c, "log")
  /\ UNCHANGED <<log, shard, txn, pos, seen, cut>>

\* INSERT OR REPLACE or DELETE, and commit.  DELETE without a row raises
\* KeyNotFoundError; a database locked for longer than the timeout raises too.
Write(c) ==
  /\ At(c, "write")
  /\ LET cl == call[c] IN
     \/ /\ txn = Nil
        /\ \/ cl.op = "set" /\ row' = [row EXCEPT ![cl.key] = [val |-> cl.val, old |-> FALSE]]
           \/ cl.op = "delete" /\ row[cl.key] # Nil /\ row' = [row EXCEPT ![cl.key] = Nil]
        /\ Goto(c, "log")
     \/ /\ txn # Nil \/ (cl.op = "delete" /\ row[cl.key] = Nil)
        /\ Goto(c, "unlock")
        /\ UNCHANGED row
  /\ UNCHANGED <<log, shard, txn, pos, seen, cut>>

\* The last line has no newline: an append to it was cut off.
Ragged == Len(log) > 0 /\ ~log[Len(log)].ended

\* The log with more text at its end: a line of its own, or one with what was cut off.
Put(line) ==
  IF Ragged
  THEN [log EXCEPT ![Len(log)] = [type |-> "torn", key |-> line.key, ended |-> line.ended]]
  ELSE Append(log, line)

TypeOf(c) == IF call[c].op = "delete" THEN "delete" ELSE "upsert"

LogLine(c) == Put([type |-> TypeOf(c), key |-> call[c].key, ended |-> TRUE])

\* What is left of an append that is cut off: nothing, a part of the line, or all of it
\* but its newline.
LogCut(c) ==
  \/ UNCHANGED log
  \/ \E type \in {"torn", TypeOf(c)} :
       log' = Put([type |-> type, key |-> call[c].key, ended |-> FALSE])

\* Mutant of WriteLog: the lock is given up before the line is written.
WriteLogUnlocked(c) ==
  /\ \/ At(c, "log") /\ shard = c /\ shard' = Nil /\ UNCHANGED <<log, call>>
     \/ At(c, "log") /\ shard # c /\ log' = LogLine(c) /\ Return(c) /\ UNCHANGED shard
  /\ UNCHANGED <<row, txn, pos, seen, cut>>

\* _append_log, after the commit.
WriteLog(c) ==
  /\ At(c, "log")
  /\ log' = LogLine(c)
  /\ Goto(c, "unlock")
  /\ cut' = IF Ragged THEN cut \union {call[c].key}
            ELSE IF Val(call[c].key) = call[c].val THEN cut \ {call[c].key}
            ELSE cut
  /\ UNCHANGED <<row, shard, txn, pos, seen>>

\* The append raises (a full disk); the call raises, its change is committed.
WriteLogFails(c) ==
  /\ At(c, "log")
  /\ LogCut(c)
  /\ Goto(c, "unlock")
  /\ cut' = cut \union {call[c].key}
  /\ UNCHANGED <<row, shard, txn, pos, seen>>

Unlock(c) ==
  /\ At(c, "unlock")
  /\ shard' = Nil
  /\ Return(c)
  /\ UNCHANGED <<row, log, txn, pos, seen, cut>>

-----------------------------------------------------------------------------
(* get.  A row found expired is deleted by key, whatever it holds by then, *)
(* and without a line in the log.                                          *)

Expire(k) ==
  /\ row[k] # Nil
  /\ ~row[k].old
  /\ row' = [row EXCEPT ![k].old = TRUE]
  /\ UNCHANGED <<log, shard, txn, call, pos, seen, cut>>

Get(c) ==
  /\ call[c] = Nil
  /\ \E k \in TtlKeys :
       /\ row[k] # Nil
       /\ row[k].old
       /\ call' = [call EXCEPT ![c] = [at |-> "purge", op |-> "get", key |-> k,
                                       val |-> row[k].val, etag |-> Nil, first |-> FALSE]]
  /\ UNCHANGED <<row, log, shard, txn, pos, seen, cut>>

Purge(c) ==
  /\ At(c, "purge")
  /\ IF txn = Nil
     THEN /\ row' = [row EXCEPT ![call[c].key] = Nil]
          /\ cut' = cut \union {call[c].key}
     ELSE UNCHANGED <<row, cut>>
  /\ Return(c)
  /\ UNCHANGED <<log, shard, txn, pos, seen>>

-----------------------------------------------------------------------------
(* A transaction that writes one key, as those of the CRDTs do: what the   *)
(* body read is not looked at again.                                       *)

Begin(c) ==
  /\ call[c] = Nil
  /\ txn = Nil
  /\ Len(log) < MaxLog
  /\ txn' = c
  /\ \E k \in TxKeys, v \in Values :
       call' = [call EXCEPT ![c] = [at |-> "txlog", op |-> "tx", key |-> k,
                                    val |-> v, etag |-> Nil, first |-> FALSE]]
  /\ UNCHANGED <<row, log, shard, pos, seen, cut>>

\* The line is appended before the COMMIT.
TxLog(c) ==
  /\ At(c, "txlog")
  /\ log' = LogLine(c)
  /\ Goto(c, "commit")
  /\ UNCHANGED <<row, shard, txn, pos, seen, cut>>

\* The append or the COMMIT raises: the transaction is rolled back.
TxFails(c) ==
  /\ \/ At(c, "txlog") /\ LogCut(c)
     \/ At(c, "commit") /\ UNCHANGED log
  /\ txn' = Nil
  /\ Return(c)
  /\ UNCHANGED <<row, shard, pos, seen, cut>>

Commit(c) ==
  /\ At(c, "commit")
  /\ row' = [row EXCEPT ![call[c].key] = [val |-> call[c].val, old |-> FALSE]]
  /\ txn' = Nil
  /\ Return(c)
  /\ UNCHANGED <<log, shard, pos, seen, cut>>

-----------------------------------------------------------------------------
(* The process dies: SQLite rolls an open transaction back, the locks of   *)
(* asyncio are gone, a change committed but not logged stays unlogged, and *)
(* an append may be cut off.                                               *)

Crash ==
  /\ \E c \in Clients : call[c] # Nil
  /\ cut' = cut \union {call[c].key : c \in {d \in Clients : At(d, "log")}}
  /\ UNCHANGED log \/ \E c \in Clients : (At(c, "log") \/ At(c, "txlog")) /\ LogCut(c)
  /\ call' = [c \in Clients |-> Nil]
  /\ shard' = Nil
  /\ txn' = Nil
  /\ UNCHANGED <<row, pos, seen>>

\* watch: for the next line, the row as it is now; nothing if there is none, or if the
\* line cannot be parsed.
Watch ==
  /\ pos < Len(log)
  /\ pos' = pos + 1
  /\ LET line == log[pos + 1] IN
     seen' = [seen EXCEPT ![line.key] =
       IF line.type = "delete" THEN Nil
       ELSE IF line.type = "torn" \/ row[line.key] = Nil THEN @
       ELSE Val(line.key)]
  /\ UNCHANGED <<row, log, shard, txn, call, cut>>

Client(c) ==
  \/ Start(c) \/ TakeShard(c) \/ Check(c) \/ Write(c) \/ WriteLog(c) \/ WriteLogFails(c)
  \/ Unlock(c)
  \/ Get(c) \/ Purge(c)
  \/ Begin(c) \/ TxLog(c) \/ TxFails(c) \/ Commit(c)

Next ==
  \/ \E c \in Clients : Client(c)
  \/ \E k \in TtlKeys : Expire(k)
  \/ Crash
  \/ Watch

Spec == Init /\ [][Next]_vars

-----------------------------------------------------------------------------
(* Properties.                                                             *)

\* Type invariant.
TypeOK ==
  /\ row \in [Keys -> Row \union {Nil}]
  /\ log \in Seq(Line)
  /\ shard \in Clients \union {Nil}
  /\ txn \in Clients \union {Nil}
  /\ call \in [Clients -> Call \union {Nil}]
  /\ pos \in 0..Len(log)
  /\ seen \in [Keys -> Values \union {Nil}]
  /\ cut \subseteq Keys

\* A watcher that has read the whole log knows every key as it is, unless its
\* last change was an expiry, or its line was not appended or was appended to a line
\* cut off (what the transactions cut off counts too): no notification of another set
\* or delete is missing, and none arrives in the wrong order.
WatcherUpToDate ==
  pos = Len(log) =>
    \A k \in Keys \ (TxKeys \union cut) :
      seen[k] = Val(k) \/ \E c \in Clients : At(c, "log") /\ call[c].key = k

\* A FIRST_WRITE that succeeds replaces the version it names: between the check
\* of the etag and the write no other set or delete changes the row.
FirstWriteExact ==
  [][\A c \in Clients :
       At(c, "write") /\ call[c].op = "set" /\ call'[c] # Nil /\ call'[c].at = "log"
         => Matches(c)]_vars
=============================================================================
