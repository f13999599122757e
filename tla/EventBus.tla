------------------------------ MODULE EventBus ------------------------------
(***************************************************************************)
(* One topic of the event bus (event_bus.py): publish, subscribe with the  *)
(* offset its caller keeps, and what torn lines do to the messages.        *)
(*                                                                         *)
(* The lock of a topic lies in ".locks" and is exclusive, so that a read   *)
(* is one step.  A topic is the sequence of its readable messages, which   *)
(* are numbers, and how the last write to its file ended; lines that are   *)
(* no JSON are skipped by every read and left out.                         *)
(***************************************************************************)
EXTENDS Naturals, Sequences, FiniteSets, SequencesExt

CONSTANTS
  Publishers,
  Subscribers,
  MaxMessages, \* bound of the model: messages published
  MaxMisses,   \* bound of the model: subscribes that cannot read
  Nil

VARIABLES
  topic,      \* the readable messages of the topic's file
  tail,       \* its end: "whole", "cut", "open" (only the newline is missing) or "mangled"
  inLock,     \* the publisher in the lock
  publishing, \* publishing[p]: the message p publishes
  offset,     \* offset[s]: the next_offset s was last answered
  got,        \* got[s]: the messages s was answered, in order
  sent,       \* history: messages made
  published,  \* history: the messages whose publish answered so, in order
  missed,     \* history: subscribes that got no lock or could not read the file
  broken,     \* history: has a line been cut off?
  withdrawn   \* history: has a readable message been made unreadable?

busVars == <<topic, tail, inLock, publishing, offset, got, sent, published, missed, broken,
             withdrawn>>

Init ==
  /\ topic = <<>>
  /\ tail = "whole"
  /\ inLock = Nil
  /\ publishing = [p \in Publishers |-> 0]
  /\ offset = [s \in Subscribers |-> 0]
  /\ got = [s \in Subscribers |-> <<>>]
  /\ sent = 0
  /\ published = <<>>
  /\ missed = [s \in Subscribers |-> 0]
  /\ broken = FALSE
  /\ withdrawn = FALSE

\* A write of message m that ends so: whole, cut off, cut off inside a character,
\* or all but its newline.  It goes on where the last line ended: the line that
\* becomes of the two is no JSON.  A file that is no UTF-8 stays so.
Written(m, end) ==
  /\ topic' = CASE tail = "whole" /\ end \in {"whole", "open"} -> Append(topic, m)
                [] tail = "open" -> Front(topic)
                [] OTHER -> topic
  /\ tail' = CASE tail = "mangled" -> "mangled"
               [] tail # "whole" /\ end = "open" -> "cut"
               [] OTHER -> end
  /\ broken' = (broken \/ end # "whole")
  /\ withdrawn' = (withdrawn \/ tail = "open")

\* The topic and the payload are valid: publish makes the message.
Publish(p) ==
  /\ publishing[p] = 0
  /\ sent < MaxMessages
  /\ sent' = sent + 1
  /\ publishing' = [publishing EXCEPT ![p] = sent + 1]
  /\ UNCHANGED <<topic, tail, inLock, offset, got, published, missed, broken, withdrawn>>

LockTopic(p) ==
  /\ publishing[p] # 0
  /\ inLock = Nil
  /\ inLock' = p
  /\ UNCHANGED <<topic, tail, publishing, offset, got, sent, published, missed, broken, withdrawn>>

Done(p) ==
  /\ publishing' = [publishing EXCEPT ![p] = 0]
  /\ inLock' = IF inLock = p THEN Nil ELSE inLock

AppendMessage(p) ==
  /\ inLock = p
  /\ Written(publishing[p], "whole")
  /\ published' = Append(published, publishing[p])
  /\ Done(p)
  /\ UNCHANGED <<offset, got, sent, missed>>

\* publish answers that it did not: no lock within 5 s, or an OSError.  Or the
\* process dies.  The append may have written the line or some of it.
PublishFails(p) ==
  /\ publishing[p] # 0
  /\ \/ UNCHANGED <<topic, tail, broken, withdrawn>>
     \/ /\ inLock = p
        /\ \E end \in {"whole", "cut", "open", "mangled"} : Written(publishing[p], end)
  /\ Done(p)
  /\ UNCHANGED <<offset, got, sent, published, missed>>

\* Mutant of Subscribe: the next offset is how many messages were answered.
SubscribeAnswered(s) ==
  /\ inLock = Nil
  /\ tail # "mangled"
  /\ LET unread == SubSeq(topic, offset[s] + 1, Len(topic)) IN
     /\ got' = [got EXCEPT ![s] = @ \o unread]
     /\ offset' = [offset EXCEPT ![s] = Len(unread)]
  /\ UNCHANGED <<topic, tail, inLock, publishing, sent, published, missed, broken, withdrawn>>

\* The unread messages, and how many there are altogether.  A file that is no
\* UTF-8 makes the call raise, now and always.
Subscribe(s) ==
  /\ inLock = Nil
  /\ tail # "mangled"
  /\ got' = [got EXCEPT ![s] = @ \o SubSeq(topic, offset[s] + 1, Len(topic))]
  /\ offset' = [offset EXCEPT ![s] = Len(topic)]
  /\ UNCHANGED <<topic, tail, inLock, publishing, sent, published, missed, broken, withdrawn>>

\* Without the lock within 5 s, or after an OSError while reading under it: no
\* messages, and next_offset 0.
SubscribeFails(s) ==
  /\ missed[s] < MaxMisses
  /\ missed' = [missed EXCEPT ![s] = @ + 1]
  /\ offset' = [offset EXCEPT ![s] = 0]
  /\ UNCHANGED <<topic, tail, inLock, publishing, got, sent, published, broken, withdrawn>>

Next ==
  \/ \E p \in Publishers :
       Publish(p) \/ LockTopic(p) \/ AppendMessage(p) \/ PublishFails(p)
  \/ \E s \in Subscribers : Subscribe(s) \/ SubscribeFails(s)

Spec == Init /\ [][Next]_busVars

-----------------------------------------------------------------------------
(* Properties.                                                             *)

\* Type invariant.
TypeOK ==
  /\ topic \in Seq(1..MaxMessages)
  /\ tail \in {"whole", "cut", "open", "mangled"}
  /\ inLock \in Publishers \union {Nil}
  /\ publishing \in [Publishers -> 0..MaxMessages]
  /\ offset \in [Subscribers -> Nat]
  /\ \A s \in Subscribers : got[s] \in Seq(1..MaxMessages)
  /\ sent \in 0..MaxMessages
  /\ published \in Seq(1..MaxMessages)
  /\ missed \in [Subscribers -> 0..MaxMisses]
  /\ {broken, withdrawn} \subseteq BOOLEAN

\* A subscriber that could always read the topic has no message twice.  As long as
\* no message was made unreadable again, it has every message up to its offset in
\* the order of the file, lines cut off among them or not; one that sometimes got
\* no lock, or could not read, has no other messages, and still none is skipped
\* before its last, though it may be answered some of them again.  Unless
\* a line was cut off, the messages whose publish answered so are all in the file,
\* in the order of these answers.
DeliveredInOrder ==
  /\ \A s \in Subscribers :
       /\ missed[s] = 0 => IsInjective(got[s])
       /\ ~withdrawn =>
            /\ offset[s] <= Len(topic)
            /\ missed[s] = 0 => got[s] = SubSeq(topic, 1, offset[s])
            /\ \A m \in DOMAIN topic : topic[m] \in ToSet(got[s]) =>
                 \A n \in 1..m : topic[n] \in ToSet(got[s])
  /\ ~broken => \A j \in DOMAIN published : \E m \in DOMAIN topic :
       /\ topic[m] = published[j]
       /\ \A i \in 1..(j - 1) : \E n \in 1..(m - 1) : topic[n] = published[i]
=============================================================================
