------------------------------ MODULE StateLog ------------------------------
(***************************************************************************)
(* The hash-chained log of loop memory (loop_memory_state_log.py):         *)
(* append_state_log, which reads the last line and appends without a lock, *)
(* and verify_state_log.                                                   *)
(*                                                                         *)
(* A line is an entry, the beginning of one (its end was not written) or   *)
(* no JSON at all.  Hashes do not collide: that of the n-th append is n,   *)
(* that of an empty log 0, that of a line that is no JSON Corrupt.         *)
(***************************************************************************)
EXTENDS Naturals, Sequences, SequencesExt

CONSTANTS
  Loggers,  \* processes
  MaxLines, \* bound of the model: appends begun
  Nil,      \* no append
  Corrupt   \* the hash of a line that is no JSON

VARIABLES
  lines,     \* the lines of the log
  logging,   \* logging[p]: the entry p is about to append, or Nil
  appended,  \* history: appends begun
  entries,   \* history: the hashes of the entries returned, in order
  forked,    \* history: has an append begun during another?
  halved     \* history: has a line been cut off?

logVars == <<lines, logging, appended, entries, forked, halved>>

\* form: "entry", "half" or "junk".  prev and hash of an entry.
Line(form, prev, hash) == [form |-> form, prev |-> prev, hash |-> hash]

Init ==
  /\ lines = <<>>
  /\ logging = [p \in Loggers |-> Nil]
  /\ appended = 0
  /\ entries = <<>>
  /\ forked = FALSE
  /\ halved = FALSE

\* The prev_hash that the next entry takes from the last line.
LastHash ==
  IF lines = <<>> THEN 0
  ELSE IF Last(lines).form = "entry" THEN Last(lines).hash ELSE Corrupt

ReadLast(p) ==
  /\ logging[p] = Nil
  /\ appended < MaxLines
  /\ appended' = appended + 1
  /\ logging' = [logging EXCEPT ![p] = Line("entry", LastHash, appended + 1)]
  /\ forked' = (forked \/ \E q \in Loggers : logging[q] # Nil)
  /\ UNCHANGED <<lines, entries, halved>>

\* An append goes on where the last line was cut off.
Continued(line) ==
  IF lines # <<>> /\ Last(lines).form = "half"
  THEN Append(Front(lines), IF line.form = "half" THEN line ELSE Line("junk", 0, 0))
  ELSE Append(lines, line)

AppendEntry(p) ==
  /\ logging[p] # Nil
  /\ lines' = Continued(logging[p])
  /\ entries' = Append(entries, logging[p].hash)
  /\ logging' = [logging EXCEPT ![p] = Nil]
  /\ UNCHANGED <<appended, forked, halved>>

\* The append fails or its process dies, before it has written, half way or after.
AppendEntryFails(p) ==
  /\ logging[p] # Nil
  /\ \/ UNCHANGED <<lines, halved>>
     \/ lines' = Continued(Line("half", 0, 0)) /\ halved' = TRUE
     \/ lines' = Continued(logging[p]) /\ UNCHANGED halved
  /\ logging' = [logging EXCEPT ![p] = Nil]
  /\ UNCHANGED <<appended, entries, forked>>

\* Mutant of MerkleOk: lines that are no JSON are only counted.
MerkleOkLenient ==
  LET chain == SelectSeq(lines, LAMBDA l : l.form = "entry") IN
  \A n \in DOMAIN chain : chain[n].prev = IF n = 1 THEN 0 ELSE chain[n - 1].hash

\* merkle_ok of verify_state_log.  Every hash is that of its entry's prev_hash,
\* so that it fits as soon as prev_hash does.
MerkleOk ==
  \A n \in DOMAIN lines :
    /\ lines[n].form = "entry"
    /\ lines[n].prev = IF n = 1 THEN 0 ELSE lines[n - 1].hash

Next == \E p \in Loggers : ReadLast(p) \/ AppendEntry(p) \/ AppendEntryFails(p)

Spec == Init /\ [][Next]_logVars

-----------------------------------------------------------------------------
(* Properties.                                                             *)

\* Type invariant.
TypeOK ==
  /\ \A n \in DOMAIN lines : lines[n].form \in {"entry", "half", "junk"}
  /\ \A p \in Loggers : logging[p] = Nil \/ logging[p].form = "entry"
  /\ appended \in 0..MaxLines
  /\ entries \in Seq(1..MaxLines)
  /\ {forked, halved} \subseteq BOOLEAN

\* A log that verifies holds every entry that append_state_log returned, in the
\* order in which it did, whatever appends overlapped, failed or died: one that is
\* lost or out of order is noticed.  And a log verifies unless appends overlapped
\* or a line was cut off.
LogVerifies ==
  /\ MerkleOk => \A j \in DOMAIN entries : \E m \in DOMAIN lines :
       /\ lines[m].hash = entries[j]
       /\ \A i \in 1..(j - 1) : \E n \in 1..(m - 1) : lines[n].hash = entries[i]
  /\ ~forked /\ ~halved => MerkleOk
=============================================================================
