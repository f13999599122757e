------------------------------- MODULE Stores -------------------------------
(* The event store, the file backend and the migration adapters: a         *)
(* behaviour is one of one of the three, chosen in the initial state,      *)
(* while the variables of the others stay as they are.                     *)
EXTENDS EventStore

CONSTANTS Clients, Keys, TxKeys, TtlKeys, Values, MaxLog,
          Callers, Items, Record, MaxWrites, Torn

VARIABLES
  part,
  row, log, shard, txn, call, pos, seen, cut,
  adapter, view, legacy, lock, at, want, steps, clock, viewed, raised, parted

Store == INSTANCE StateStore
Dual == INSTANCE DualWrite

\* The bounds are numbers.
ASSUME LengthAssumption == {MaxLog, MaxWrites} \subseteq Nat

\* Transactions and views have keys of their store, and what is not there is none
\* of what can be.
ASSUME KeysAssumption ==
  /\ TxKeys \union TtlKeys \subseteq Keys
  /\ Record \in Items
  /\ Nil \notin Clients \union Callers \union Values \union Store!Row \union Store!Call
  /\ {Nil, Torn} \intersect (Dual!States \union Dual!Want) = {}
  /\ Torn \notin [Items -> Dual!States \union {Nil}]

rowVars == <<row, log, shard, txn, call, pos, seen, cut>>
dualVars == <<adapter, view, legacy, lock, at, want, steps, clock, viewed, raised,
              parted>>

StoresInit ==
  /\ part \in {"events", "store", "dual"}
  /\ Init /\ Store!Init /\ Dual!Init
  /\ part # "dual" => adapter = "session"

StoresNext ==
  /\ UNCHANGED part
  /\ IF part = "events" THEN Next ELSE UNCHANGED vars
  /\ IF part = "store" THEN Store!Next ELSE UNCHANGED rowVars
  /\ IF part = "dual" THEN Dual!Next ELSE UNCHANGED dualVars

storesVars == <<part, vars, rowVars, dualVars>>

StoresSpec == StoresInit /\ [][StoresNext]_storesVars

-----------------------------------------------------------------------------
(* Properties: those of EventStore, and those of the other two, see there. *)

\* Type invariant.
AllTypesOK ==
  CASE part = "events" -> TypeOK
    [] part = "store" -> Store!TypeOK
    [] part = "dual" -> Dual!TypeOK

\* The watcher of the file backend misses no change that was logged.
WatcherUpToDate == Store!WatcherUpToDate

\* A FIRST_WRITE replaces the version it names.
FirstWriteExact == Store!FirstWriteExact

\* No legacy file runs ahead of its view, and none stays behind without a failure.
LegacyFollowsView == Dual!LegacyFollowsView
=============================================================================
