---------------------------- MODULE Idempotency -----------------------------
(***************************************************************************)
(* register of the idempotency ledger (idempotency.py) with its two locks: *)
(* the key in Redis, if AHD_REDIS_LOCK is set, and the lock file.          *)
(*                                                                         *)
(* The callers are processes or threads of one run with one key, so that   *)
(* they share both locks and the ledger; DagExecution has the callers with *)
(* different keys, their retries and torn lines.  The lock file is taken   *)
(* for exclusive: what its removal does is in FileLock.                    *)
(***************************************************************************)
EXTENDS Naturals, Sequences

CONSTANTS
  Registrars,  \* callers of register
  MaxRegisters, \* bound of the model: calls begun
  Nil          \* nobody, no result

VARIABLES
  distributed, \* is AHD_REDIS_LOCK set?  Chosen once
  lease,       \* the Redis key: who set it, or Nil
  keyFile,     \* the lock file: who holds it, or Nil
  stage,       \* stage[c]: where c is in register
  handle,      \* handle[c]: "redis", "file", or Nil
  result,      \* result[c]: the operation whose result c returns, or Nil
  recorded,    \* the entries of the key in the ledger: the results of operations
  executed,    \* history: operations begun
  registers    \* history: calls begun

idemVars == <<distributed, lease, keyFile, stage, handle, result, recorded, executed,
              registers>>

Init ==
  /\ distributed \in BOOLEAN
  /\ lease = Nil
  /\ keyFile = Nil
  /\ stage = [c \in Registrars |-> "idle"]
  /\ handle = [c \in Registrars |-> Nil]
  /\ result = [c \in Registrars |-> Nil]
  /\ recorded = <<>>
  /\ executed = 0
  /\ registers = 0

Goes(c, from, to) ==
  /\ stage[c] = from
  /\ stage' = [stage EXCEPT ![c] = to]

Register(c) ==
  /\ registers < MaxRegisters
  /\ registers' = registers + 1
  /\ Goes(c, "idle", IF distributed THEN "redis" ELSE "file")
  /\ result' = [result EXCEPT ![c] = Nil]
  /\ UNCHANGED <<distributed, lease, keyFile, handle, recorded, executed>>

\* SET NX EX 30.
TakeLease(c) ==
  /\ Goes(c, "redis", "lookup")
  /\ lease = Nil
  /\ lease' = c
  /\ handle' = [handle EXCEPT ![c] = "redis"]
  /\ UNCHANGED <<distributed, keyFile, result, recorded, executed, registers>>

\* "redis lock held", like no Redis at all, is caught: the lock file is taken.
LeaseRefused(c) ==
  /\ Goes(c, "redis", "file")
  /\ UNCHANGED <<distributed, lease, keyFile, handle, result, recorded, executed,
                 registers>>

Expire ==
  /\ lease # Nil
  /\ lease' = Nil
  /\ UNCHANGED <<distributed, keyFile, stage, handle, result, recorded, executed, registers>>

TakeFile(c) ==
  /\ Goes(c, "file", "lookup")
  /\ keyFile = Nil
  /\ keyFile' = c
  /\ handle' = [handle EXCEPT ![c] = "file"]
  /\ UNCHANGED <<distributed, lease, result, recorded, executed, registers>>

\* Neither attempt of 5 s got the lock: IdempotencyLockError.
Refused(c) ==
  /\ Goes(c, "file", "idle")
  /\ keyFile # Nil
  /\ UNCHANGED <<distributed, lease, keyFile, handle, result, recorded, executed,
                 registers>>

\* _read_ledger: the last entry of the key counts.
Lookup(c) ==
  /\ IF recorded = <<>>
       THEN /\ Goes(c, "lookup", "op")
            /\ executed' = executed + 1
            /\ result' = [result EXCEPT ![c] = executed']
       ELSE /\ Goes(c, "lookup", "release")
            /\ result' = [result EXCEPT ![c] = recorded[Len(recorded)]]
            /\ UNCHANGED executed
  /\ UNCHANGED <<distributed, lease, keyFile, handle, recorded, registers>>

Return(c) ==
  /\ Goes(c, "op", "record")
  /\ UNCHANGED <<distributed, lease, keyFile, handle, result, recorded, executed, registers>>

\* The operation or the append raises.
Raise(c) ==
  /\ \E from \in {"op", "record"} : Goes(c, from, "release")
  /\ result' = [result EXCEPT ![c] = Nil]
  /\ UNCHANGED <<distributed, lease, keyFile, handle, recorded, executed, registers>>

Record(c) ==
  /\ Goes(c, "record", "release")
  /\ recorded' = Append(recorded, result[c])
  /\ UNCHANGED <<distributed, lease, keyFile, handle, result, executed, registers>>

\* The Redis key is deleted whoever has set it by now.
Release(c) ==
  /\ Goes(c, "release", "idle")
  /\ handle' = [handle EXCEPT ![c] = Nil]
  /\ IF handle[c] = "redis" THEN lease' = Nil /\ UNCHANGED keyFile
                            ELSE keyFile' = Nil /\ UNCHANGED lease
  /\ UNCHANGED <<distributed, result, recorded, executed, registers>>

\* The kernel unlocks the file of a process that dies; the Redis key stays until
\* it expires.
Die(c) ==
  /\ Goes(c, stage[c], "idle")
  /\ stage[c] # "idle"
  /\ keyFile' = IF keyFile = c THEN Nil ELSE keyFile
  /\ handle' = [handle EXCEPT ![c] = Nil]
  /\ result' = [result EXCEPT ![c] = Nil]
  /\ UNCHANGED <<distributed, lease, recorded, executed, registers>>

Next ==
  \/ \E c \in Registrars :
       \/ Register(c) \/ TakeLease(c) \/ LeaseRefused(c) \/ TakeFile(c) \/ Refused(c)
       \/ Lookup(c) \/ Return(c) \/ Raise(c) \/ Record(c) \/ Release(c) \/ Die(c)
  \/ Expire

Spec == Init /\ [][Next]_idemVars

-----------------------------------------------------------------------------
(* Properties.                                                             *)

\* Type invariant.
TypeOK ==
  /\ distributed \in BOOLEAN
  /\ {lease, keyFile} \subseteq Registrars \union {Nil}
  /\ stage \in [Registrars -> {"idle", "redis", "file", "lookup", "op", "record", "release"}]
  /\ handle \in [Registrars -> {"redis", "file", Nil}]
  /\ result \in [Registrars -> 1..MaxRegisters \union {Nil}]
  /\ recorded \in Seq(1..MaxRegisters)
  /\ executed \in 0..MaxRegisters
  /\ registers \in 0..MaxRegisters

\* idempotency.py:186 "take the lock to avoid the race condition", and :188 "never
\* run unlocked": two callers never run the operation of a key at the same time.
OneRunsAtATime ==
  \A c, d \in Registrars : stage[c] = "op" /\ stage[d] = "op" => c = d
=============================================================================
