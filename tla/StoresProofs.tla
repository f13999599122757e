---------------------------- MODULE StoresProofs ----------------------------
(***************************************************************************)
(* Proofs about the event store, the file backend and the migration        *)
(* adapters, for any coroutines, callers, keys, appends and restarts.      *)
(***************************************************************************)
EXTENDS Stores, FiniteSetTheorems, TLAPS

\* The places of a coroutine in append and in the counter.
Places == {"idle", "event", "pointer", "heartbeat", "view", "commit"}

\* Where a coroutine has an event in hand.
Appending == {"event", "pointer", "heartbeat", "view"}

\* What holds in any case: hashes and numbers are not ahead of the appends.
Typed ==
  /\ event \in [Ids -> Event \union {Nil}]
  /\ last \in Event \union {Nil} /\ session \in Event \union {Nil} /\ plan \in Event \union {Nil}
  /\ counter \in Nat
  /\ made \in 0..MaxAppends
  /\ seq \in 0..made
  /\ prev \in 0..made
  /\ pc \in [Tasks -> Places]
  /\ mine \in [Tasks -> Event \union {Nil}]
  /\ read \in [Tasks -> Nat]
  /\ acked \subseteq Event
  /\ counts \in Nat \X Nat
  /\ overlap \in BOOLEAN

\* An event is numbered within n appends, and made after the one whose hash it
\* carries.
Numbered(e, n) == e \in Event /\ e.seq \in 1..n /\ e.id <= n /\ e.prev < e.id

\* A coroutine has an event in hand that it made.
InHand == \A t \in Tasks : pc[t] \in Appending => Numbered(mine[t], made)

\* The pointer names an event that was made.
LastNumbered == last # Nil => Numbered(last, made)

\* What holds in any case.
Sound == Typed /\ InHand /\ LastNumbered

-----------------------------------------------------------------------------
(* What holds as long as no two calls overlap.                             *)

\* Event e is stored under its number.
Stored(e) == e.seq \in Ids /\ event[e.seq] = e

\* The event with hash p is stored before number n.
Linked(p, n) == p = 0 \/ \E m \in 1..(n - 1) : event[m] # Nil /\ event[m].id = p

\* One coroutine at a time is in a call.
Single == \A t, u \in Tasks : pc[t] # "idle" /\ pc[u] # "idle" => t = u

\* The pointer, the hash the next event will carry, and the views.
PointerInv ==
  /\ last # Nil => Stored(last) /\ last.seq <= seq
  /\ Linked(prev, seq + 1)
  /\ session # Nil => Stored(session) /\ last # Nil /\ session.seq <= last.seq
  /\ plan # Nil => Stored(plan) /\ last # Nil /\ plan.seq <= last.seq

\* The events whose append returned are not after the pointer, where no number
\* is given out again.
AckedInv ==
  /\ \A e \in acked :
       /\ last # Nil /\ e.seq <= last.seq /\ e.id <= last.id /\ e.id <= prev
       /\ Stored(e) /\ Linked(e.prev, e.seq)
  /\ \A e, f \in acked : f.seq < e.seq => f.id <= e.prev

\* The event in hand is the newest, and after the pointer until that is moved.
HandInv ==
  \A t \in Tasks :
    /\ pc[t] \in Appending =>
         /\ mine[t].seq = seq
         /\ Linked(mine[t].prev, mine[t].seq)
         /\ \A f \in acked : f.id <= mine[t].prev /\ f.seq < mine[t].seq
    /\ pc[t] \in {"event", "pointer"} /\ last # Nil => last.seq < mine[t].seq
    /\ pc[t] = "pointer" => Stored(mine[t])
    /\ pc[t] \in {"heartbeat", "view"} => last = mine[t]
    /\ pc[t] \in Appending \ {"event"} => prev = mine[t].id

\* The counter is between the calls that returned and those that began.
CountInv ==
  /\ counts[2] <= counter /\ counter <= counts[1]
  /\ \A t \in Tasks : pc[t] = "commit" => read[t] = counter /\ counter < counts[1]

\* All of this, while no two calls overlap.
Alone == Single /\ PointerInv /\ AckedInv /\ HandInv /\ CountInv

\* The inductive invariant of the hash chain.
ChainInv == Sound /\ (~overlap => Alone)

-----------------------------------------------------------------------------
(* Types and numbers.                                                      *)

\* The empty store.
LEMMA SoundInitially == Init => Sound
<1> SUFFICES ASSUME Init PROVE Sound
  OBVIOUS
<1>a. 0 \in 0..MaxAppends /\ 0 \in 0..0
  BY EventAssumption
<1>b. counts \in Nat \X Nat
  BY DEF Init
<1>c. pc \in [Tasks -> Places] /\ overlap \in BOOLEAN
  BY DEF Init, Places
<1>1. Typed
  BY <1>a, <1>b, <1>c DEF Init, Typed
<1>2. InHand /\ LastNumbered
  BY DEF Init, InHand, LastNumbered, Appending
<1> QED BY <1>1, <1>2 DEF Sound

\* What an event is made of.
LEMMA EventTyped ==
  ASSUME NEW e \in Event
  PROVE  /\ e.id \in Nat /\ e.id \in Ids /\ e.seq \in Nat
         /\ e.prev \in Nat /\ e.type \in Types
<1>1. /\ e.id \in Ids /\ e.seq \in Nat
      /\ e.prev \in Ids \union {0} /\ e.type \in Types
  BY DEF Event
<1>2. Ids \subseteq Nat /\ 0 \in Nat
  BY EventAssumption DEF Ids
<1> QED BY <1>1, <1>2

\* Events stay numbered while more appends begin.
LEMMA StillNumbered ==
  ASSUME NEW n \in Nat, NEW e, Numbered(e, n)
  PROVE  Numbered(e, n + 1)
<1>1. e.id \in Nat /\ e.seq \in Nat
  BY EventTyped DEF Numbered
<1> QED
  BY <1>1 DEF Numbered

\* Every step keeps types and numbers.
LEMMA SoundPreserved == Sound /\ [Next]_vars => Sound'
<1> SUFFICES ASSUME Sound, [Next]_vars PROVE Sound'
  OBVIOUS
<1> USE EventAssumption DEF Sound, storeVars, taskVars, history
\* A coroutine moves on, no event is made.
<1>a. ASSUME Typed', made' = made, last' = last,
             \A t \in Tasks : pc'[t] \in Appending =>
               pc[t] \in Appending /\ mine'[t] = mine[t]
      PROVE  Sound'
  BY <1>a DEF InHand, LastNumbered, Numbered
<1>1. ASSUME NEW t \in Tasks, Append(t) PROVE Sound'
  <2>1. PICK type \in Types : mine' = [mine EXCEPT ![t] =
             [id |-> made + 1, seq |-> seq + 1, prev |-> prev, type |-> type]]
    BY <1>1 DEF Append
  <2> DEFINE e == [id |-> made + 1, seq |-> seq + 1, prev |-> prev, type |-> type]
  <2>2. made + 1 \in Ids /\ prev \in Ids \union {0} /\ made' = made + 1
    BY <1>1 DEF Append, Typed, Ids
  <2>3. e \in Event
    BY <2>2 DEF Event, Typed
  <2>4. Numbered(e, made')
    BY <2>2, <2>3 DEF Numbered, Typed
  <2> HIDE DEF e
  <2>5. Typed'
    BY <1>1, <2>1, <2>2, <2>3 DEF Append, Typed, Goto, Places, Ids, e
  <2>6. InHand'
    <3> SUFFICES ASSUME NEW u \in Tasks, pc'[u] \in Appending
                 PROVE  Numbered(mine'[u], made')
      BY DEF InHand
    <3>1. CASE u = t
      BY <2>1, <2>4, <3>1 DEF Typed, e
    <3>2. CASE u # t
      <4>1. pc'[u] = pc[u] /\ mine'[u] = mine[u]
        BY <1>1, <2>1, <3>2 DEF Append, Goto, Typed
      <4> QED
        BY <2>2, <4>1, StillNumbered DEF InHand, Typed
    <3> QED BY <3>1, <3>2
  <2>7. LastNumbered'
    BY <1>1, <2>2, StillNumbered DEF Append, LastNumbered, Typed
  <2> QED BY <2>5, <2>6, <2>7
<1>2. ASSUME NEW t \in Tasks, PersistEvent(t) PROVE Sound'
  <2>1. Numbered(mine[t], made)
    BY <1>2 DEF PersistEvent, At, InHand, Appending
  <2>2. mine[t].id \in Nat /\ mine[t].id \in 0..made
    BY <2>1, EventTyped DEF Numbered, Typed
  <2>3. Typed'
    BY <1>2, <2>1, <2>2 DEF PersistEvent, Typed, Goto, Places, Numbered
  <2> QED
    BY <1>a, <1>2, <2>3 DEF PersistEvent, At, Goto, Typed, Appending
<1>3. ASSUME NEW t \in Tasks, StoreFails(t) PROVE Sound'
  <2>1. Typed'
    BY <1>3 DEF StoreFails, Typed, Goto, Places
  <2> QED
    BY <1>a, <1>3, <2>1 DEF StoreFails, Goto, Typed, Appending
<1>4. ASSUME NEW t \in Tasks, PersistPointer(t) PROVE Sound'
  <2>1. Numbered(mine[t], made)
    BY <1>4 DEF PersistPointer, At, InHand, Appending
  <2>2. Typed'
    BY <1>4, <2>1 DEF PersistPointer, Typed, Goto, Places, Numbered
  <2>3. LastNumbered'
    BY <1>4, <2>1 DEF PersistPointer, LastNumbered, Numbered
  <2>4. InHand'
    BY <1>4, <2>1 DEF PersistPointer, At, Goto, InHand, Numbered, Typed, Appending
  <2> QED BY <2>2, <2>3, <2>4
<1>5. ASSUME NEW t \in Tasks, ReadSession(t) PROVE Sound'
  <2>1. Typed'
    BY <1>5 DEF ReadSession, Typed, Goto, Places
  <2> QED
    BY <1>a, <1>5, <2>1 DEF ReadSession, At, Goto, Typed, Appending
<1>6. ASSUME NEW t \in Tasks, UpdateView(t) PROVE Sound'
  <2>1. Numbered(mine[t], made)
    BY <1>6 DEF UpdateView, At, InHand, Appending
  <2>2. Typed'
    BY <1>6, <2>1 DEF UpdateView, Typed, Goto, Places, Numbered
  <2> QED
    BY <1>a, <1>6, <2>2 DEF UpdateView, At, Goto, Typed, Appending
<1>7. ASSUME NEW t \in Tasks, Increment(t) PROVE Sound'
  <2>1. Typed'
    BY <1>7 DEF Increment, Typed, Goto, Places
  <2> QED
    BY <1>a, <1>7, <2>1 DEF Increment, At, Goto, Typed, Appending
<1>8. ASSUME NEW t \in Tasks, CommitIncrement(t) PROVE Sound'
  <2>1. Typed'
    BY <1>8 DEF CommitIncrement, Typed, Goto, Places
  <2> QED
    BY <1>a, <1>8, <2>1 DEF CommitIncrement, At, Goto, Typed, Appending
<1>9. ASSUME Expire PROVE Sound'
  <2>1. Typed'
    BY <1>9 DEF Expire, Typed
  <2> QED
    BY <1>a, <1>9, <2>1 DEF Expire
<1>10. ASSUME Restart PROVE Sound'
  <2>1. last # Nil => last.seq \in 0..made /\ last.id \in 0..made
    BY EventTyped DEF LastNumbered, Numbered, Typed
  <2>2. Typed'
    BY <1>10, <2>1 DEF Restart, Typed, Places
  <2> QED
    BY <1>a, <1>10, <2>2 DEF Restart, Appending
<1>11. CASE UNCHANGED vars
  <2>1. Typed'
    BY <1>11 DEF vars, Typed
  <2> QED
    BY <1>a, <1>11, <2>1 DEF vars
<1> QED
  BY <1>1, <1>2, <1>3, <1>4, <1>5, <1>6, <1>7, <1>8, <1>9, <1>10, <1>11 DEF Next, Task

-----------------------------------------------------------------------------
(* The steps of a coroutine that no other call overlaps.                   *)

\* Nothing is stored, and no call is made.
LEMMA AloneInitially == Init => Alone
<1> SUFFICES ASSUME Init PROVE Alone
  OBVIOUS
<1>1. Single /\ PointerInv /\ AckedInv
  BY DEF Init, Single, PointerInv, AckedInv, Linked
<1>2. HandInv /\ CountInv
  BY DEF Init, HandInv, CountInv, Appending
<1> QED BY <1>1, <1>2 DEF Alone

\* A call that nobody overlaps begins when every coroutine is idle.
LEMMA BeginsAlone ==
  ASSUME Sound, overlap' = (overlap \/ Busy), ~overlap'
  PROVE  ~overlap /\ \A u \in Tasks : pc[u] = "idle"
  BY DEF Busy

\* When one coroutine is busy, the others are idle.
LEMMA OthersIdle ==
  ASSUME Single, NEW t \in Tasks, pc[t] # "idle", NEW u \in Tasks, u # t
  PROVE  pc[u] = "idle"
  BY DEF Single

\* A number and a hash are taken.
LEMMA AppendAlone ==
  ASSUME Sound, ~overlap => Alone, ~overlap', NEW t \in Tasks, Append(t)
  PROVE  Alone'
<1>1. Alone /\ \A u \in Tasks : pc[u] = "idle"
  BY BeginsAlone DEF Append
<1>2. PICK type \in Types : mine' = [mine EXCEPT ![t] =
           [id |-> made + 1, seq |-> seq + 1, prev |-> prev, type |-> type]]
  BY DEF Append
<1>3. /\ pc'[t] = "event" /\ \A u \in Tasks : u # t => pc'[u] = "idle"
      /\ mine'[t].seq = seq + 1 /\ mine'[t].prev = prev
  BY <1>1, <1>2 DEF Append, Goto, Sound, Typed
<1>4. /\ UNCHANGED <<event, last, session, plan, counter, prev, read, acked, counts>>
      /\ seq' = seq + 1 /\ seq \in Nat
  BY DEF Append, storeVars, Sound, Typed
<1>6. Single'
  BY <1>3 DEF Single
<1>7. last # Nil => last.seq \in Nat
  BY DEF Sound, LastNumbered, Numbered
<1>8. PointerInv'
  <2>1. Linked(prev, seq + 1)'
    BY <1>1, <1>4 DEF Alone, PointerInv, Linked
  <2> QED
    BY <1>1, <1>4, <1>7, <2>1 DEF Alone, PointerInv, Stored
<1>9. AckedInv'
  BY <1>1, <1>4 DEF Alone, AckedInv, Stored, Linked
<1>10. HandInv'
  <2>1. \A f \in acked : f.id <= prev /\ f.seq < seq + 1
    <3> SUFFICES ASSUME NEW f \in acked PROVE f.id <= prev /\ f.seq < seq + 1
      OBVIOUS
    <3>1. f.seq \in Nat
      BY EventTyped DEF Sound, Typed
    <3> QED
      BY <1>1, <1>4, <1>7, <3>1 DEF Alone, AckedInv, PointerInv
  <2>2. last # Nil => last.seq < seq + 1
    BY <1>1, <1>4, <1>7 DEF Alone, PointerInv
  <2>3. Linked(mine[t].prev, mine[t].seq)'
    BY <1>1, <1>3, <1>4 DEF Alone, PointerInv, Linked
  <2> QED
    BY <1>3, <1>4, <2>1, <2>2, <2>3 DEF HandInv, Appending
<1>11. CountInv'
  BY <1>1, <1>3, <1>4 DEF Alone, CountInv
<1> QED
  BY <1>6, <1>8, <1>9, <1>10, <1>11 DEF Alone

\* The row of the event, which is after all that the pointer covers.
LEMMA PersistEventAlone ==
  ASSUME Sound, Alone, NEW t \in Tasks, PersistEvent(t)
  PROVE  Alone'
<1> DEFINE e == mine[t]
<1>1. /\ pc[t] = "event" /\ pc'[t] = "pointer" /\ mine' = mine
      /\ \A u \in Tasks : u # t => pc[u] = "idle" /\ pc'[u] = "idle"
  BY OthersIdle DEF PersistEvent, At, Goto, Alone, Sound, Typed
<1>2. /\ UNCHANGED <<last, session, plan, counter, seq, read, acked, counts>>
      /\ event' = [event EXCEPT ![e.seq] = e] /\ prev' = e.id
  BY DEF PersistEvent
<1>3. Numbered(e, made) /\ e \in Event /\ e # Nil
  BY <1>1, EventAssumption DEF Sound, InHand, Appending, Numbered
<1>4. e.seq \in Ids /\ e.seq \in Nat /\ e.id \in Nat /\ e.prev \in Nat /\ e.prev < e.id
          /\ e.seq >= 1
  BY <1>3, EventTyped, EventAssumption DEF Numbered, Ids, Sound, Typed
<1>5. /\ e.seq = seq /\ Linked(e.prev, e.seq)
      /\ \A f \in acked : f.id <= e.prev /\ f.seq < e.seq
      /\ last # Nil => last.seq < e.seq
  BY <1>1 DEF Alone, HandInv, Appending
<1> HIDE DEF e
<1>6. event'[e.seq] = e
  BY <1>2, <1>4 DEF Sound, Typed
<1>7. ASSUME NEW n \in Nat, n < e.seq PROVE event'[n] = event[n]
  <2>1. CASE n \in Ids
    BY <1>2, <1>4, <1>7, <2>1 DEF Sound, Typed
  <2>2. CASE n \notin Ids
    BY <1>2, <1>4, <1>7, <2>2, EventAssumption DEF Sound, Typed, Ids
  <2> QED BY <2>1, <2>2
<1>8. ASSUME NEW p, NEW n \in Nat, n <= e.seq, Linked(p, n) PROVE Linked(p, n)'
  BY <1>4, <1>7, <1>8 DEF Linked
<1>9. ASSUME NEW f \in Event, f.seq < e.seq, Stored(f) PROVE Stored(f)'
  BY <1>7, <1>9, EventTyped DEF Stored
<1>10. last # Nil => last \in Event /\ last.seq \in Nat
  BY DEF Sound, LastNumbered, Numbered
<1>11. Single'
  BY <1>1 DEF Single
<1>12. PointerInv'
  <2>1. Linked(prev, seq + 1)'
    BY <1>2, <1>3, <1>4, <1>5, <1>6 DEF Linked
  <2>2. ASSUME NEW v \in Event \union {Nil},
               v # Nil => Stored(v) /\ last # Nil /\ v.seq <= last.seq
        PROVE  v # Nil => Stored(v)'
    BY <1>4, <1>5, <1>9, <1>10, <2>2, EventTyped
  <2>3. session \in Event \union {Nil} /\ plan \in Event \union {Nil} /\ last \in Event \union {Nil}
    BY DEF Sound, Typed
  <2>4. /\ last # Nil => Stored(last)'
        /\ session # Nil => Stored(session)'
        /\ plan # Nil => Stored(plan)'
    BY <1>2, <1>10, <2>2, <2>3 DEF Alone, PointerInv, Stored
  <2> QED
    BY <1>2, <2>1, <2>4 DEF Alone, PointerInv
<1>13. AckedInv'
  <2>1. ASSUME NEW f \in acked PROVE f.id <= e.id /\ Stored(f)' /\ Linked(f.prev, f.seq)'
    <3>1. f \in Event /\ f.seq \in Nat /\ f.id \in Nat
      BY EventTyped DEF Sound, Typed
    <3>2. f.id <= e.prev /\ f.seq < e.seq /\ Stored(f) /\ Linked(f.prev, f.seq)
      BY <1>5 DEF Alone, AckedInv
    <3> QED
      BY <1>4, <1>8, <1>9, <3>1, <3>2
  <2> QED
    BY <1>2, <2>1 DEF Alone, AckedInv
<1>14. HandInv'
  <2>1. Linked(mine[t].prev, mine[t].seq)'
    BY <1>1, <1>4, <1>5, <1>8 DEF e
  <2>2. Stored(mine[t])'
    BY <1>1, <1>4, <1>6 DEF e, Stored
  <2> QED
    BY <1>1, <1>2, <1>5, <2>1, <2>2 DEF HandInv, Appending, e
<1>15. CountInv'
  BY <1>1, <1>2 DEF Alone, CountInv
<1> QED
  BY <1>11, <1>12, <1>13, <1>14, <1>15 DEF Alone

\* A coroutine gives up its event, or is about to go on with it.
LEMMA StoreFailsAlone ==
  ASSUME Sound, Alone, NEW t \in Tasks, StoreFails(t)
  PROVE  Alone'
<1>1. \A u \in Tasks : pc'[u] = "idle"
  BY OthersIdle DEF StoreFails, Goto, Alone, Sound, Typed
<1>2. UNCHANGED <<event, last, session, plan, counter, seq, prev, acked, counts>>
  BY DEF StoreFails, storeVars
<1>3. Single' /\ HandInv' /\ CountInv'
  BY <1>1, <1>2 DEF Single, HandInv, CountInv, Appending, Alone
<1>4. PointerInv' /\ AckedInv'
  BY <1>2 DEF Alone, PointerInv, AckedInv, Stored, Linked
<1> QED BY <1>3, <1>4 DEF Alone

\* The pointer moves to the event, which is after all that it covered.
LEMMA PersistPointerAlone ==
  ASSUME Sound, Alone, NEW t \in Tasks, PersistPointer(t)
  PROVE  Alone'
<1> DEFINE e == mine[t]
<1>1. /\ pc[t] = "pointer" /\ pc'[t] \in {"heartbeat", "view"} /\ mine' = mine
      /\ \A u \in Tasks : u # t => pc[u] = "idle" /\ pc'[u] = "idle"
  BY OthersIdle DEF PersistPointer, At, Goto, Alone, Sound, Typed
<1>2. /\ UNCHANGED <<event, session, plan, counter, seq, prev, read, acked, counts>>
      /\ last' = e
  BY DEF PersistPointer, history
<1>3. Numbered(e, made) /\ e \in Event /\ e # Nil
  BY <1>1, EventAssumption DEF Sound, InHand, Appending, Numbered
<1>4. e.seq \in Nat /\ e.id \in Nat /\ e.prev \in Nat /\ e.prev < e.id
  BY <1>3, EventTyped DEF Numbered
<1>5. /\ e.seq = seq /\ Stored(e)
      /\ \A f \in acked : f.id <= e.prev /\ f.seq < e.seq
      /\ last # Nil => last.seq < e.seq
  BY <1>1 DEF Alone, HandInv, Appending
<1>6. last # Nil => last.seq \in Nat
  BY DEF Sound, LastNumbered, Numbered
<1> HIDE DEF e
<1>7. Single'
  BY <1>1 DEF Single
<1>8. PointerInv'
  <2>1. ASSUME NEW v \in Event \union {Nil}, v # Nil => last # Nil /\ v.seq <= last.seq
        PROVE  v # Nil => v.seq <= e.seq
    BY <1>4, <1>5, <1>6, <2>1, EventTyped
  <2>2. session \in Event \union {Nil} /\ plan \in Event \union {Nil}
    BY DEF Sound, Typed
  <2>3. (session # Nil => session.seq <= e.seq) /\ (plan # Nil => plan.seq <= e.seq)
    BY <2>1, <2>2 DEF Alone, PointerInv
  <2> QED
    BY <1>2, <1>3, <1>4, <1>5, <2>3 DEF Alone, PointerInv, Stored, Linked
<1>9. AckedInv'
  <2>1. ASSUME NEW f \in acked PROVE f.seq <= e.seq /\ f.id <= e.id
    <3>1. f.seq \in Nat /\ f.id \in Nat
      BY EventTyped DEF Sound, Typed
    <3> QED BY <1>4, <1>5, <3>1
  <2> QED
    BY <1>2, <1>3, <2>1 DEF Alone, AckedInv, Stored, Linked
<1>10. HandInv'
  BY <1>1, <1>2, <1>5 DEF Alone, HandInv, Appending, Linked, e
<1>11. CountInv'
  BY <1>1, <1>2 DEF Alone, CountInv
<1> QED
  BY <1>7, <1>8, <1>9, <1>10, <1>11 DEF Alone

\* A row that has expired is deleted.
LEMMA ReadSessionAlone ==
  ASSUME Sound, Alone, NEW t \in Tasks, ReadSession(t)
  PROVE  Alone'
<1>1. /\ pc[t] = "heartbeat" /\ pc'[t] = "view" /\ mine' = mine
      /\ \A u \in Tasks : u # t => pc[u] = "idle" /\ pc'[u] = "idle"
  BY OthersIdle DEF ReadSession, At, Goto, Alone, Sound, Typed
<1>2. /\ UNCHANGED <<event, last, plan, counter, seq, prev, read, acked, counts>>
      /\ session' \in {session, Nil}
  BY DEF ReadSession, history
<1>3. Single'
  BY <1>1 DEF Single
<1>4. PointerInv' /\ AckedInv'
  BY <1>2 DEF Alone, PointerInv, AckedInv, Stored, Linked
<1>5. HandInv' /\ CountInv'
  BY <1>1, <1>2 DEF Alone, HandInv, CountInv, Appending, Linked
<1> QED BY <1>3, <1>4, <1>5 DEF Alone

\* The view shows the last event, and append returns.
LEMMA UpdateViewAlone ==
  ASSUME Sound, Alone, NEW t \in Tasks, UpdateView(t)
  PROVE  Alone'
<1> DEFINE e == mine[t]
<1>1. /\ pc[t] = "view" /\ \A u \in Tasks : pc'[u] = "idle"
  BY OthersIdle DEF UpdateView, At, Goto, Alone, Sound, Typed
<1>2. /\ UNCHANGED <<event, last, counter, seq, prev, counts>>
      /\ session' \in {session, e} /\ plan' \in {plan, e}
      /\ acked' \in {acked, acked \union {e}}
  BY DEF UpdateView
<1>3. Numbered(e, made) /\ e \in Event /\ e # Nil
  BY <1>1, EventAssumption DEF Sound, InHand, Appending, Numbered
<1>4. e.seq \in Nat /\ e.id \in Nat /\ e.prev \in Nat /\ e.prev < e.id
  BY <1>3, EventTyped DEF Numbered
<1>5. /\ e.seq = seq /\ last = e /\ Linked(e.prev, e.seq)
      /\ \A f \in acked : f.id <= e.prev /\ f.seq < e.seq
  BY <1>1 DEF Alone, HandInv, Appending
<1>6. Stored(e) /\ e.id <= prev
  BY <1>1, <1>3, <1>4, <1>5 DEF Alone, PointerInv, HandInv, Appending
<1> HIDE DEF e
<1>7. Single' /\ HandInv'
  BY <1>1 DEF Single, HandInv, Appending
<1>8. PointerInv'
  BY <1>2, <1>3, <1>4, <1>5, <1>6 DEF Alone, PointerInv, Stored, Linked
<1>9. AckedInv'
  <2>1. ASSUME NEW f \in acked \union {e}
        PROVE  /\ last # Nil /\ f.seq <= last.seq /\ f.id <= last.id /\ f.id <= prev
               /\ Stored(f) /\ Linked(f.prev, f.seq)
    <3>1. CASE f = e
      BY <1>3, <1>4, <1>5, <1>6, <3>1
    <3>2. CASE f \in acked
      BY <3>2 DEF Alone, AckedInv
    <3> QED BY <3>1, <3>2
  <2>2. ASSUME NEW f \in acked \union {e}, NEW g \in acked \union {e}, g.seq < f.seq
        PROVE  g.id <= f.prev
    <3>1. CASE f \in acked /\ g \in acked
      BY <2>2, <3>1 DEF Alone, AckedInv
    <3>2. CASE f = e /\ g \in acked
      BY <1>5, <3>2
    <3>3. CASE g = e
      <4>1. f \in acked => f.seq < e.seq /\ f.seq \in Nat
        BY <1>5, EventTyped DEF Sound, Typed
      <4> QED BY <1>4, <2>2, <3>3, <4>1
    <3> QED BY <3>1, <3>2, <3>3
  <2>3. acked' \subseteq acked \union {e}
    BY <1>2
  <2> QED
    BY <1>2, <2>1, <2>2, <2>3 DEF AckedInv, Stored, Linked
<1>10. CountInv'
  BY <1>1, <1>2 DEF Alone, CountInv
<1> QED
  BY <1>7, <1>8, <1>9, <1>10 DEF Alone

\* An increment begins when nobody is in another, and ends with what it read.
LEMMA IncrementAlone ==
  ASSUME Sound, ~overlap => Alone, ~overlap', NEW t \in Tasks, Increment(t)
  PROVE  Alone'
<1>1. Alone /\ \A u \in Tasks : pc[u] = "idle"
  BY BeginsAlone DEF Increment
<1>2. /\ pc'[t] = "commit" /\ \A u \in Tasks : u # t => pc'[u] = "idle"
      /\ read'[t] = counter
  BY <1>1 DEF Increment, Goto, Sound, Typed
<1>3. /\ UNCHANGED <<event, last, session, plan, counter, seq, prev, mine, acked>>
      /\ counts' = [counts EXCEPT ![1] = @ + 1]
  BY DEF Increment, storeVars
<1>4. counts'[1] = counts[1] + 1 /\ counts'[2] = counts[2] /\ counts[1] \in Nat /\ counter \in Nat
  BY <1>3 DEF Sound, Typed
<1>5. Single' /\ HandInv'
  BY <1>2 DEF Single, HandInv, Appending
<1>6. PointerInv' /\ AckedInv'
  BY <1>1, <1>3 DEF Alone, PointerInv, AckedInv, Stored, Linked
<1>7. CountInv'
  BY <1>1, <1>2, <1>3, <1>4 DEF Alone, CountInv
<1> QED BY <1>5, <1>6, <1>7 DEF Alone

\* Committing the counter while no two calls overlap.
LEMMA CommitAlone ==
  ASSUME Sound, Alone, NEW t \in Tasks, CommitIncrement(t)
  PROVE  Alone'
<1>1. pc[t] = "commit" /\ \A u \in Tasks : pc'[u] = "idle"
  BY OthersIdle DEF CommitIncrement, At, Goto, Alone, Sound, Typed
<1>2. /\ UNCHANGED <<event, last, session, plan, seq, prev, mine, acked>>
      /\ counts' = [counts EXCEPT ![2] = @ + 1] /\ counter' = read[t] + 1
  BY DEF CommitIncrement
<1>3. /\ counts'[2] = counts[2] + 1 /\ counts'[1] = counts[1]
      /\ counts[1] \in Nat /\ counts[2] \in Nat /\ counter \in Nat
  BY <1>2 DEF Sound, Typed
<1>4. Single' /\ HandInv'
  BY <1>1 DEF Single, HandInv, Appending
<1>5. PointerInv' /\ AckedInv'
  BY <1>2 DEF Alone, PointerInv, AckedInv, Stored, Linked
<1>6. CountInv'
  BY <1>1, <1>2, <1>3 DEF Alone, CountInv
<1> QED BY <1>4, <1>5, <1>6 DEF Alone

\* A new process continues after the pointer.
LEMMA RestartAlone ==
  ASSUME Sound, Alone, Restart
  PROVE  Alone'
<1>1. \A u \in Tasks : pc'[u] = "idle"
  BY DEF Restart
<1>2. /\ UNCHANGED <<event, last, session, plan, counter, acked, counts>>
      /\ last # Nil => seq' = last.seq /\ prev' = last.id
      /\ last = Nil => seq' = 0 /\ prev' = 0
  BY DEF Restart, storeVars, history
<1>3. last # Nil => Numbered(last, made) /\ last.seq \in Nat /\ last.id \in Nat /\ last.seq >= 1
  BY EventTyped DEF Sound, LastNumbered, Numbered
<1>4. Single' /\ HandInv' /\ CountInv'
  BY <1>1, <1>2 DEF Single, HandInv, CountInv, Appending, Alone
<1>5. Linked(prev, seq + 1)'
  BY <1>2, <1>3 DEF Alone, PointerInv, Stored, Linked
<1>6. PointerInv'
  BY <1>2, <1>3, <1>5 DEF Alone, PointerInv, Stored
<1>7. AckedInv'
  BY <1>2 DEF Alone, AckedInv, Stored, Linked
<1> QED BY <1>4, <1>6, <1>7 DEF Alone

\* Every step keeps the invariant.
LEMMA ChainPreserved == ChainInv /\ [Next]_vars => ChainInv'
<1> SUFFICES ASSUME ChainInv, [Next]_vars, ~overlap' PROVE Alone'
  BY SoundPreserved DEF ChainInv
<1> USE DEF ChainInv
<1>a. ASSUME UNCHANGED <<event, last, session, plan, counter, taskVars, acked, counts, overlap>>
      PROVE  Alone'
  <2>1. Alone
    BY <1>a
  <2>2. UNCHANGED <<event, last, session, plan, counter, seq, prev, pc, mine, read, acked, counts>>
    BY <1>a DEF taskVars
  <2> QED
    BY <2>1, <2>2 DEF Alone, Single, PointerInv, AckedInv, HandInv, CountInv, Stored, Linked
<1>1. ASSUME NEW t \in Tasks, Append(t) PROVE Alone'
  BY <1>1, AppendAlone
<1>2. ASSUME NEW t \in Tasks, Increment(t) PROVE Alone'
  BY <1>2, IncrementAlone
<1>3. ASSUME NEW t \in Tasks, PersistEvent(t) PROVE Alone'
  BY <1>3, PersistEventAlone DEF PersistEvent
<1>4. ASSUME NEW t \in Tasks, StoreFails(t) PROVE Alone'
  BY <1>4, StoreFailsAlone DEF StoreFails
<1>5. ASSUME NEW t \in Tasks, PersistPointer(t) PROVE Alone'
  BY <1>5, PersistPointerAlone DEF PersistPointer, history
<1>6. ASSUME NEW t \in Tasks, ReadSession(t) PROVE Alone'
  BY <1>6, ReadSessionAlone DEF ReadSession, history
<1>7. ASSUME NEW t \in Tasks, UpdateView(t) PROVE Alone'
  BY <1>7, UpdateViewAlone DEF UpdateView
<1>8. ASSUME NEW t \in Tasks, CommitIncrement(t) PROVE Alone'
  BY <1>8, CommitAlone DEF CommitIncrement
<1>9. ASSUME Expire PROVE Alone'
  BY <1>9, <1>a DEF Expire, history
<1>10. ASSUME Restart PROVE Alone'
  BY <1>10, RestartAlone DEF Restart, history
<1>11. CASE UNCHANGED vars
  BY <1>11, <1>a DEF vars, storeVars, history
<1> QED
  BY <1>1, <1>2, <1>3, <1>4, <1>5, <1>6, <1>7, <1>8, <1>9, <1>10, <1>11 DEF Next, Task

\* The invariant at the start.
LEMMA ChainInitially == Init => ChainInv
  BY SoundInitially, AloneInitially DEF ChainInv


\* A step of the stores is one of the event store or leaves it as it is.
LEMMA EventSpec ==
  /\ StoresInit => Init
  /\ [StoresNext]_storesVars => [Next]_vars
  BY DEF StoresInit, StoresNext, storesVars

\* ChainLinked (append takes the hash of the event persisted last): the events
\* whose append returned carry the hash of a stored earlier one, none of them
\* skipping another, through any number of restarts and failed writes.
THEOREM OneChain == StoresSpec => []ChainLinked
<1>1. ChainInv => ChainLinked
  <2> SUFFICES ASSUME ChainInv, ~overlap, NEW e \in acked
               PROVE  /\ e.prev = 0 \/ \E n \in 1..(e.seq - 1) : event[n] # Nil
                           /\ event[n].id = e.prev
                      /\ \A f \in acked : f.seq < e.seq => f.id <= e.prev
    BY DEF ChainLinked
  <2> QED
    BY DEF ChainInv, Alone, AckedInv, Linked
<1> QED
  BY <1>1, ChainInitially, ChainPreserved, EventSpec, PTL DEF StoresSpec

\* AckedKept: their rows stay, no view runs ahead of the log, and no increment
\* that returned is lost.
THEOREM NothingLost == StoresSpec => []AckedKept
<1>1. ChainInv => AckedKept
  <2> SUFFICES ASSUME ChainInv, ~overlap PROVE AckedKept
    BY DEF AckedKept
  <2>1. Alone /\ counter \in Nat /\ counts[1] \in Nat /\ counts[2] \in Nat
    BY DEF ChainInv, Sound, Typed
  <2>2. counter \in counts[2]..counts[1]
    BY <2>1 DEF Alone, CountInv
  <2> QED
    BY <2>1, <2>2 DEF Alone, AckedInv, PointerInv, Stored, AckedKept
<1> QED
  BY <1>1, ChainInitially, ChainPreserved, EventSpec, PTL DEF StoresSpec

-----------------------------------------------------------------------------
(* Replay: as long as no write of an event has failed, none is missing.    *)

\* No number below the last one is without its event, but for one in hand.
Unbroken ==
  ~failed => \A l \in 1..seq :
    event[l] # Nil \/ \E t \in Tasks : pc[t] = "event" /\ mine[t].seq = l

\* The inductive invariant of the numbers.
ReplayInv == ChainInv /\ (~overlap => Unbroken)

\* Every step of the event store keeps the numbers unbroken.
LEMMA ReplayPreserved == ReplayInv /\ [Next]_vars => ReplayInv'
<1> SUFFICES ASSUME ReplayInv, [Next]_vars, ~overlap' PROVE Unbroken'
  BY ChainPreserved DEF ReplayInv
<1> USE DEF storeVars, taskVars, history
<1>1. Sound /\ ChainInv /\ seq \in Nat /\ pc \in [Tasks -> Places]
          /\ mine \in [Tasks -> Event \union {Nil}]
  BY DEF ReplayInv, ChainInv, Sound, Typed
<1>2. ASSUME UNCHANGED <<event, seq, failed, overlap>>,
             \A t \in Tasks : pc[t] = "event" => pc'[t] = "event" /\ mine'[t] = mine[t]
      PROVE  Unbroken'
  BY <1>2 DEF ReplayInv, Unbroken
<1>3. ASSUME NEW t \in Tasks, Append(t) PROVE Unbroken'
  <2>1. ~overlap /\ \A u \in Tasks : pc[u] = "idle"
    BY <1>1, <1>3, BeginsAlone DEF Append
  <2>2. /\ event' = event /\ failed' = failed /\ seq' = seq + 1
        /\ pc'[t] = "event" /\ mine'[t].seq = seq + 1
    BY <1>1, <1>3 DEF Append, Goto
  <2>3. ~failed => \A l \in 1..seq : event[l] # Nil
    BY <2>1 DEF ReplayInv, Unbroken
  <2>4. \A l \in 1..(seq + 1) : l \in 1..seq \/ l = seq + 1
    BY <1>1
  <2> QED BY <2>2, <2>3, <2>4 DEF Unbroken
<1>4. ASSUME NEW t \in Tasks, PersistEvent(t) PROVE Unbroken'
  <2>1. /\ pc[t] = "event" /\ pc'[t] = "pointer" /\ mine' = mine /\ overlap' = overlap
        /\ seq' = seq /\ failed' = failed /\ event' = [event EXCEPT ![mine[t].seq] = mine[t]]
        /\ \A u \in Tasks : u # t => pc'[u] = pc[u]
    BY <1>1, <1>4 DEF PersistEvent, At, Goto
  <2>2. mine[t] \in Event /\ mine[t] # Nil
    BY <1>1, <2>1, EventAssumption DEF Sound, InHand, Appending, Numbered
  <2>3. mine[t].seq \in Ids
    <3>1. mine[t].seq \in 1..made /\ made \in 0..MaxAppends
      BY <1>1, <2>1 DEF Sound, InHand, Appending, Numbered, Typed
    <3> QED BY <3>1, EventAssumption DEF Ids
  <2>4. event'[mine[t].seq] # Nil /\ \A l : event[l] # Nil /\ l \in Ids => event'[l] # Nil
    BY <1>1, <2>1, <2>2, <2>3 DEF Sound, Typed
  <2>5. 1..seq \subseteq Ids
    BY <1>1, EventAssumption DEF Sound, Typed, Ids
  <2> SUFFICES ASSUME ~failed, NEW l \in 1..seq
               PROVE  event'[l] # Nil \/ \E u \in Tasks : pc'[u] = "event" /\ mine'[u].seq = l
    BY <2>1 DEF Unbroken
  <2>6. event[l] # Nil \/ \E u \in Tasks : pc[u] = "event" /\ mine[u].seq = l
    BY <2>1 DEF ReplayInv, Unbroken
  <2> QED BY <2>1, <2>4, <2>5, <2>6
<1>5. ASSUME NEW t \in Tasks, StoreFails(t) PROVE Unbroken'
  BY <1>5 DEF StoreFails, Unbroken
<1>6. ASSUME NEW t \in Tasks,
             PersistPointer(t) \/ ReadSession(t) \/ UpdateView(t) \/ CommitIncrement(t)
      PROVE  Unbroken'
  <2>1. /\ event' = event /\ seq' = seq /\ failed' = failed /\ overlap' = overlap
        /\ pc[t] # "event" /\ \A u \in Tasks : u # t => pc'[u] = pc[u] /\ mine'[u] = mine[u]
    BY <1>1, <1>6 DEF PersistPointer, ReadSession, UpdateView, CommitIncrement, At, Goto
  <2> QED BY <1>2, <2>1
<1>7. ASSUME NEW t \in Tasks, Increment(t) PROVE Unbroken'
  <2>1. ~overlap /\ \A u \in Tasks : pc[u] = "idle"
    BY <1>1, <1>7, BeginsAlone DEF Increment
  <2>2. event' = event /\ seq' = seq /\ failed' = failed
    BY <1>7 DEF Increment
  <2> QED BY <2>1, <2>2 DEF ReplayInv, Unbroken
<1>8. ASSUME Expire PROVE Unbroken'
  BY <1>2, <1>8 DEF Expire
<1>9. ASSUME Restart PROVE Unbroken'
  <2>1. event' = event /\ failed' = failed /\ overlap' = overlap /\ seq' = IF last = Nil THEN 0
            ELSE last.seq
    BY <1>9 DEF Restart
  <2>2. CASE last = Nil
    BY <2>1, <2>2 DEF Unbroken
  <2>3. CASE last # Nil
    <3>1. last.seq \in Nat /\ last.seq <= seq /\ Alone
      BY <1>1, <2>1, <2>3, EventTyped DEF Sound, LastNumbered, Numbered, ReplayInv, ChainInv,
           Alone, PointerInv
    <3>2. \A t \in Tasks : pc[t] = "event" => last.seq < mine[t].seq
      BY <2>3, <3>1 DEF Alone, HandInv
    <3>3. ASSUME ~failed, NEW l \in 1..last.seq PROVE event[l] # Nil
      <4>1. l \in 1..seq /\ l <= last.seq
        BY <1>1, <3>1
      <4>2. \A t \in Tasks : pc[t] = "event" => mine[t].seq # l
        BY <3>1, <3>2, <4>1
      <4> QED BY <2>1, <3>3, <4>1, <4>2 DEF ReplayInv, Unbroken
    <3> QED BY <2>1, <2>3, <3>3 DEF Unbroken
  <2> QED BY <2>2, <2>3
<1>10. CASE UNCHANGED vars
  BY <1>2, <1>10 DEF vars
<1> QED
  BY <1>3, <1>4, <1>5, <1>6, <1>7, <1>8, <1>9, <1>10 DEF Next, Task

\* Replayable (replay of event_store.py): unless calls overlapped or a write failed,
\* replay finds every event that append returned, as no number between is missing, for
\* any coroutines, appends and restarts.
THEOREM ReplayComplete == StoresSpec => []Replayable
<1>1. Init => ReplayInv
  BY ChainInitially DEF ReplayInv, Unbroken, Init
<1>2. ReplayInv => Replayable
  <2> SUFFICES ASSUME ReplayInv, ~overlap, ~failed, ~Busy, NEW e \in acked
               PROVE  e \in Replayed
    BY DEF Replayable
  <2>1. /\ last # Nil /\ e.seq <= last.seq /\ last.seq <= seq /\ Stored(e)
        /\ e \in Event /\ last \in Event /\ seq \in 0..made /\ made \in Nat
    BY DEF ReplayInv, ChainInv, Alone, AckedInv, PointerInv, Sound, Typed, LastNumbered, Numbered
  <2>2. e.seq \in Nat /\ last.seq \in Nat /\ e.seq \in Ids /\ event[e.seq] = e
    BY <2>1, EventTyped DEF Stored
  <2>3. e.seq \in 1..seq
    BY <2>1, <2>2 DEF Ids
  <2>4. \A l \in 1..seq : event[l] # Nil
    BY DEF ReplayInv, Unbroken, Busy
  <2>5. \A l \in 1..e.seq : event[l] # Nil
    <3>1. 1..e.seq \subseteq 1..seq
      BY <2>1, <2>2, <2>3
    <3> QED BY <2>4, <3>1
  <2> QED BY <2>2, <2>3, <2>5 DEF Replayed
<1> QED
  BY <1>1, <1>2, ReplayPreserved, EventSpec, PTL DEF StoresSpec

-----------------------------------------------------------------------------
(* The bounds of the counter, and the rest of the types.                   *)

\* The calls that are about to commit the counter.
Counting == {t \in Tasks : pc[t] = "commit"}

\* An increment that has not returned has been counted when it began.
Counted ==
  /\ counts[1] <= MaxCount /\ counter <= counts[1]
  /\ \A t \in Tasks : pc[t] = "commit" => read[t] < counts[1]
  /\ \A t \in Tasks : read[t] <= counts[1]
  /\ IsFiniteSet(Counting)
  /\ counts[2] + Cardinality(Counting) <= counts[1]

\* The flags of the history are such.
Flagged == expired \in BOOLEAN /\ failed \in BOOLEAN

\* The inductive invariant of the types and of the counter.
EventInv == Sound /\ Counted /\ Flagged

\* A step that leaves the counter and those that count alone.
LEMMA CountedKept ==
  ASSUME Sound, Counted, UNCHANGED <<counts, counter, read>>,
         \A t \in Tasks : pc'[t] = "commit" <=> pc[t] = "commit"
  PROVE  Counted'
<1>1. Counting' = Counting
  BY DEF Counting
<1> QED BY <1>1 DEF Counted

\* Every step of the event store keeps its counter ahead of nobody.
LEMMA EventPreserved == EventInv /\ [Next]_vars => EventInv'
<1> SUFFICES ASSUME EventInv, [Next]_vars PROVE Counted' /\ Flagged'
  BY SoundPreserved DEF EventInv
<1> USE DEF storeVars, taskVars, history
<1>1. /\ Sound /\ Counted /\ pc \in [Tasks -> Places] /\ read \in [Tasks -> Nat]
      /\ counts \in Nat \X Nat /\ counter \in Nat
  BY DEF EventInv, Sound, Typed
<1>2. Flagged'
  BY DEF EventInv, Flagged, Next, Task, Append, PersistEvent, StoreFails, PersistPointer,
       ReadSession,
         UpdateView, Increment, CommitIncrement, Expire, Restart, vars
<1>3. ASSUME NEW t \in Tasks,
             \/ Append(t) \/ PersistEvent(t) \/ StoreFails(t) \/ PersistPointer(t)
             \/ ReadSession(t) \/ UpdateView(t)
      PROVE  Counted'
  <2>1. /\ UNCHANGED <<counts, counter, read>> /\ pc[t] # "commit" /\ pc'[t] # "commit"
        /\ \A u \in Tasks : u # t => pc'[u] = pc[u]
    BY <1>1, <1>3 DEF Append, PersistEvent, StoreFails, PersistPointer, ReadSession, UpdateView,
         At, Goto
  <2> QED BY <1>1, <2>1, CountedKept
<1>4. ASSUME NEW t \in Tasks, Increment(t) PROVE Counted'
  <2>1. /\ counts[1] < MaxCount /\ counter' = counter /\ pc[t] = "idle"
        /\ pc' = [pc EXCEPT ![t] = "commit"] /\ read' = [read EXCEPT ![t] = counter]
        /\ counts' = [counts EXCEPT ![1] = @ + 1]
    BY <1>4 DEF Increment, At, Goto
  <2>2. counts'[1] = counts[1] + 1 /\ counts'[2] = counts[2] /\ counts[1] \in Nat
            /\ counts[2] \in Nat
    BY <1>1, <2>1
  <2>3. Counting' = Counting \union {t} /\ t \notin Counting
    BY <1>1, <2>1 DEF Counting
  <2>4. /\ IsFiniteSet(Counting') /\ Cardinality(Counting') = Cardinality(Counting) + 1
        /\ Cardinality(Counting) \in Nat
    BY <1>1, <2>3, FS_AddElement, FS_CardinalityType DEF Counted
  <2>5. \A u \in Tasks : read'[u] = (IF u = t THEN counter ELSE read[u])
            /\ (u # t => pc'[u] = pc[u])
    BY <1>1, <2>1
  <2>6. /\ counts'[1] <= MaxCount /\ counter' <= counts'[1]
        /\ counts'[2] + Cardinality(Counting') <= counts'[1]
    BY <1>1, <2>1, <2>2, <2>4, EventAssumption DEF Counted
  <2>7. \A u \in Tasks : read'[u] < counts'[1]
    BY <1>1, <2>2, <2>5 DEF Counted
  <2>8. \A u \in Tasks : read'[u] <= counts'[1]
    BY <1>1, <2>2, <2>5 DEF Counted
  <2> QED BY <2>4, <2>6, <2>7, <2>8 DEF Counted
<1>5. ASSUME NEW t \in Tasks, CommitIncrement(t) PROVE Counted'
  <2>1. /\ pc[t] = "commit" /\ pc' = [pc EXCEPT ![t] = "idle"] /\ read' = read
        /\ counts' = [counts EXCEPT ![2] = @ + 1] /\ counter' = read[t] + 1
    BY <1>5 DEF CommitIncrement, At, Goto
  <2>2. /\ counts'[1] = counts[1] /\ counts'[2] = counts[2] + 1
        /\ counts[1] \in Nat /\ counts[2] \in Nat /\ read[t] \in Nat
    BY <1>1, <2>1
  <2>3. Counting' = Counting \ {t} /\ t \in Counting
    BY <1>1, <2>1 DEF Counting
  <2>4. /\ IsFiniteSet(Counting') /\ Cardinality(Counting') = Cardinality(Counting) - 1
        /\ Cardinality(Counting) \in Nat
    BY <1>1, <2>3, FS_RemoveElement, FS_CardinalityType DEF Counted
  <2>5. \A u \in Tasks : pc'[u] = "commit" => pc[u] = "commit"
    BY <1>1, <2>1
  <2>6. /\ counts'[1] <= MaxCount /\ counter' <= counts'[1]
        /\ counts'[2] + Cardinality(Counting') <= counts'[1]
    BY <1>1, <2>1, <2>2, <2>4 DEF Counted
  <2> QED BY <1>1, <2>1, <2>2, <2>4, <2>5, <2>6 DEF Counted
<1>6. ASSUME Expire PROVE Counted'
  BY <1>1, <1>6, CountedKept DEF Expire
<1>7. ASSUME Restart PROVE Counted'
  <2>1. UNCHANGED <<counts, counter, read>> /\ \A t \in Tasks : pc'[t] = "idle"
    BY <1>7 DEF Restart
  <2>2. Counting' = {}
    BY <2>1 DEF Counting
  <2>3. IsFiniteSet(Counting') /\ Cardinality(Counting') = 0 /\ Cardinality(Counting) \in Nat
    BY <1>1, <2>2, FS_EmptySet, FS_CardinalityType DEF Counted
  <2>4. counts[1] \in Nat /\ counts[2] \in Nat
    BY <1>1
  <2>5. counts'[2] + Cardinality(Counting') <= counts'[1]
    BY <1>1, <2>1, <2>3, <2>4 DEF Counted
  <2> QED BY <1>1, <2>1, <2>3, <2>5 DEF Counted
<1>8. CASE UNCHANGED vars
  <2>1. UNCHANGED <<counts, counter, read>> /\ pc' = pc
    BY <1>8 DEF vars
  <2> QED BY <1>1, <1>2, <2>1, CountedKept
<1> QED
  BY <1>2, <1>3, <1>4, <1>5, <1>6, <1>7, <1>8 DEF Next, Task

\* The event store begins with nothing.
LEMMA EventInitially == Init => EventInv
<1> SUFFICES ASSUME Init PROVE EventInv
  OBVIOUS
<1>1. Counting = {}
  BY DEF Init, Counting
<1>2. IsFiniteSet(Counting) /\ Cardinality(Counting) = 0
  BY <1>1, FS_EmptySet
<1>3. Counted
  BY <1>2, EventAssumption DEF Init, Counted
<1> QED BY <1>3, SoundInitially DEF EventInv, Flagged, Init

\* The types of the event store follow.
LEMMA EventTypes == EventInv => TypeOK
<1> SUFFICES ASSUME EventInv PROVE TypeOK
  OBVIOUS
<1>1. Typed /\ Counted /\ counts \in Nat \X Nat /\ counter \in Nat /\ MaxAppends \in Nat
          /\ MaxCount \in Nat
      /\ read \in [Tasks -> Nat] /\ IsFiniteSet(Counting)
  BY EventAssumption DEF EventInv, Sound, Typed, Counted
<1>2. counts[1] \in 0..MaxCount /\ counts[2] \in 0..MaxCount
  <2>1. counts[1] \in Nat /\ counts[2] \in Nat /\ Cardinality(Counting) \in Nat
    BY <1>1, FS_CardinalityType
  <2> QED BY <1>1, <2>1 DEF Counted
<1>3. counts \in (0..MaxCount) \X (0..MaxCount) /\ counter \in 0..MaxCount
      /\ read \in [Tasks -> 0..MaxCount]
  <2>1. counts \in (0..MaxCount) \X (0..MaxCount)
    BY <1>1, <1>2
  <2>2. counter \in 0..MaxCount
    BY <1>1, <1>2 DEF Counted
  <2>3. \A t \in Tasks : read[t] \in 0..MaxCount
    BY <1>1, <1>2 DEF Counted
  <2> QED BY <1>1, <2>1, <2>2, <2>3
<1>4. made \in 0..MaxAppends /\ seq \in 0..MaxAppends /\ prev \in Ids \union {0}
  BY <1>1 DEF Typed, Ids
<1> QED BY <1>1, <1>3, <1>4 DEF TypeOK, Typed, Places, EventInv, Flagged

-----------------------------------------------------------------------------
(* The file backend.                                                       *)

\* What the variables of the store can be.
StoreTyped ==
  /\ row \in [Keys -> Store!Row \union {Nil}]
  /\ log \in Store!Seq(Store!Line)
  /\ shard \in Clients \union {Nil}
  /\ txn \in Clients \union {Nil}
  /\ call \in [Clients -> Store!Call \union {Nil}]
  /\ pos \in 0..Store!Len(log)
  /\ seen \in [Keys -> Values \union {Nil}]
  /\ cut \in SUBSET Keys

\* A call writes the keys of its kind, holds the lock where the code says so, and
\* then finds the row as it checked or wrote it.
CallSound(c) ==
  LET cl == call[c] IN
  /\ cl.at \in {"lock", "check", "write", "log", "unlock"} =>
       /\ cl.op \in {"set", "delete"}
       /\ cl.key \notin TxKeys
       /\ cl.op = "delete" <=> cl.val = Nil
  /\ cl.at \in {"txlog", "commit"} => cl.op = "tx" /\ cl.key \in TxKeys /\ cl.val # Nil
  /\ cl.at \in {"check", "write", "log", "unlock"} => shard = c
  /\ cl.at = "write" => Store!Matches(c)
  /\ cl.at = "log" /\ cl.key \notin cut => Store!Val(cl.key) = cl.val

\* The calls under way are as their steps leave them.
CallsSound == \A c \in Clients : call[c] # Nil => CallSound(c)

\* The lines about a key that the watcher has not read and can parse.
Unread(k, n) ==
  n \in (pos + 1)..Store!Len(log) /\ log[n].key = k /\ log[n].type # "torn"

\* The last of these lines.
LastUnread(k, n) == Unread(k, n) /\ \A m \in (n + 1)..Store!Len(log) : ~Unread(k, m)

\* What the watcher has seen of a key is its row unless it has lines of it to read, and
\* the last of these says whether there is a row.
Told(k) ==
  /\ (\A n \in (pos + 1)..Store!Len(log) : ~Unread(k, n)) => seen[k] = Store!Val(k)
  /\ \A n \in Nat : LastUnread(k, n) => (log[n].type = "delete" <=> row[k] = Nil)

\* A call on the key has written its row and not yet its line.
Logging(k) == \E c \in Clients : Store!At(c, "log") /\ call[c].key = k

\* The watcher is told of every key but those of transactions and those whose last line
\* may be lost.
KeysTold == \A k \in Keys : k \notin TxKeys /\ k \notin cut /\ ~Logging(k) => Told(k)

\* The line that the next append will make unreadable is one of those that are marked.
LastMarked ==
  Store!Ragged =>
    LET line == log[Store!Len(log)] IN line.type = "torn" \/ line.key \in cut \union TxKeys

\* The inductive invariant of the file backend.
StoreInv == StoreTyped /\ CallsSound /\ KeysTold /\ LastMarked

-----------------------------------------------------------------------------
\* Calls, rows and lines.
LEMMA CallTyped ==
  ASSUME StoreTyped, NEW c \in Clients, call[c] # Nil
  PROVE  /\ call[c] \in Store!Call
         /\ call[c].key \in Keys
         /\ call[c].val \in Values \union {Nil}
         /\ call[c].op \in {"set", "delete", "get", "tx"}
         /\ call[c].at \in {"lock", "check", "write", "log", "unlock", "purge", "txlog", "commit"}
<1>1. call[c] \in Store!Call
  BY DEF StoreTyped
<1> QED BY <1>1 DEF Store!Call

\* The log after an append: a line more, or a last line that cannot be read.
LEMMA PutTyped ==
  ASSUME StoreTyped, NEW line \in Store!Line, log' = Store!Put(line), pos' = pos
  PROVE  /\ log' \in Store!Seq(Store!Line)
         /\ pos' \in 0..Store!Len(log')
         /\ ~Store!Ragged => log' = Store!Append(log, line)
         /\ Store!Ragged =>
              /\ Store!Len(log') = Store!Len(log) /\ Store!Len(log) > 0
              /\ log'[Store!Len(log)] =
                   [type |-> "torn", key |-> line.key, ended |-> line.ended]
              /\ \A n \in 1..(Store!Len(log) - 1) : log'[n] = log[n]
<1>1. pos \in 0..Store!Len(log) /\ log \in Store!Seq(Store!Line) /\ Store!Len(log) \in Nat
  BY DEF StoreTyped
<1>2. CASE ~Store!Ragged
  <2>1. log' = Store!Append(log, line)
    BY <1>2 DEF Store!Put
  <2>2. log' \in Store!Seq(Store!Line) /\ Store!Len(log') = Store!Len(log) + 1
    BY <1>1, <2>1
  <2>3. pos' \in 0..Store!Len(log')
    BY <1>1, <2>2
  <2> QED BY <1>2, <2>1, <2>2, <2>3
<1>3. CASE Store!Ragged
  <2> DEFINE joined == [type |-> "torn", key |-> line.key, ended |-> line.ended]
  <2>1. joined \in Store!Line
    BY DEF Store!Line
  <2>2. log' = [log EXCEPT ![Store!Len(log)] = joined] /\ Store!Len(log) > 0
    BY <1>3 DEF Store!Put, Store!Ragged
  <2> HIDE DEF joined
  <2>3. log' \in Store!Seq(Store!Line) /\ Store!Len(log') = Store!Len(log)
    BY <1>1, <2>1, <2>2
  <2>4. log'[Store!Len(log)] = joined /\ \A n \in 1..(Store!Len(log) - 1) : log'[n] = log[n]
    BY <1>1, <2>2
  <2>5. pos' \in 0..Store!Len(log')
    BY <1>1, <2>3
  <2> QED BY <1>3, <2>2, <2>3, <2>4, <2>5 DEF joined
<1> QED BY <1>2, <1>3

\* The line of a call.
LEMMA LineTyped ==
  ASSUME StoreTyped, NEW c \in Clients, call[c] # Nil, log' = Store!LogLine(c)
  PROVE  \E line \in Store!Line :
           /\ line.key = call[c].key
           /\ line.type # "torn" /\ line.ended
           /\ line.type = "delete" <=> call[c].op = "delete"
           /\ log' = Store!Put(line)
<1> DEFINE line == [type |-> Store!TypeOf(c), key |-> call[c].key, ended |-> TRUE]
<1>1. line \in Store!Line
  BY CallTyped DEF Store!Line, Store!TypeOf
<1>2. /\ line.key = call[c].key /\ line.type # "torn" /\ line.ended
      /\ line.type = "delete" <=> call[c].op = "delete"
  BY DEF Store!TypeOf
<1>3. log' = Store!Put(line)
  BY DEF Store!LogLine
<1> HIDE DEF line
<1> QED BY <1>1, <1>2, <1>3

\* What is left of it when the append is cut off.
LEMMA CutTyped ==
  ASSUME StoreTyped, NEW c \in Clients, call[c] # Nil, Store!LogCut(c), log' # log
  PROVE  \E line \in Store!Line : line.key = call[c].key /\ log' = Store!Put(line)
<1>1. PICK type \in {"torn", Store!TypeOf(c)} :
        log' = Store!Put([type |-> type, key |-> call[c].key, ended |-> FALSE])
  BY DEF Store!LogCut
<1>2. [type |-> type, key |-> call[c].key, ended |-> FALSE] \in Store!Line
  BY CallTyped DEF Store!Line, Store!TypeOf
<1> QED BY <1>1, <1>2

\* Nothing that is appended leaves a line to be spoilt that is not marked.
LEMMA MarkedPut ==
  ASSUME StoreTyped, NEW line \in Store!Line, log' = Store!Put(line),
         line.ended \/ line.key \in cut' \union TxKeys
  PROVE  LastMarked'
<1>1. log \in Store!Seq(Store!Line) /\ Store!Len(log) \in Nat
  BY DEF StoreTyped
<1>2. CASE ~Store!Ragged
  <2>1. log' = Store!Append(log, line)
    BY <1>2 DEF Store!Put
  <2>2. log'[Store!Len(log')] = line
    BY <1>1, <2>1
  <2> QED BY <2>2 DEF LastMarked, Store!Ragged
<1>3. CASE Store!Ragged
  <2>1. log' = [log EXCEPT ![Store!Len(log)] =
                 [type |-> "torn", key |-> line.key, ended |-> line.ended]]
        /\ Store!Len(log) > 0
    BY <1>3 DEF Store!Put, Store!Ragged
  <2>2. log'[Store!Len(log')].type = "torn"
    BY <1>1, <2>1
  <2> QED BY <2>2 DEF LastMarked
<1> QED BY <1>2, <1>3

\* More is marked, and the log is the same.
LEMMA MarkedKept ==
  ASSUME LastMarked, log' = log, cut \subseteq cut' PROVE LastMarked'
  BY DEF LastMarked, Store!Ragged

\* Nothing the watcher will be told about a key changes.
LEMMA ToldSame ==
  ASSUME NEW k, Told(k), log' = log, pos' = pos, seen'[k] = seen[k],
         Store!Val(k)' = Store!Val(k), row'[k] = Nil <=> row[k] = Nil
  PROVE  Told(k)'
  BY DEF Told, LastUnread, Unread

\* The log is extended by something that is not a line about the key.
LEMMA ToldOther ==
  ASSUME NEW k, Told(k), StoreTyped, LastMarked, k \notin cut \union TxKeys,
         NEW line \in Store!Line, log' = Store!Put(line),
         line.key # k, pos' = pos, seen' = seen, row' = row
  PROVE  Told(k)'
<1>1. pos \in Nat /\ Store!Len(log) \in Nat /\ pos <= Store!Len(log)
          /\ log \in Store!Seq(Store!Line)
  BY DEF StoreTyped
<1>2. Store!Val(k)' = Store!Val(k)
  BY DEF Store!Val
<1> DEFINE joined == [type |-> "torn", key |-> line.key, ended |-> line.ended]
<1>a. /\ ~Store!Ragged => log' = Store!Append(log, line)
      /\ Store!Ragged =>
           /\ Store!Len(log') = Store!Len(log) /\ Store!Len(log) > 0
           /\ log'[Store!Len(log)] = joined
           /\ \A m \in 1..(Store!Len(log) - 1) : log'[m] = log[m]
  BY PutTyped
<1>b. joined.type = "torn"
  OBVIOUS
<1> HIDE DEF joined
<1>c. Store!Ragged => log[Store!Len(log)].type = "torn" \/ log[Store!Len(log)].key # k
  BY DEF LastMarked
<1>3. ASSUME NEW n \in Nat PROVE Unread(k, n)' <=> Unread(k, n)
  <2>1. CASE ~Store!Ragged
    <3>1. log' = Store!Append(log, line)
      BY <1>a, <2>1
    <3>2. Store!Len(log') = Store!Len(log) + 1 /\ log'[Store!Len(log) + 1] = line
      BY <1>1, <3>1
    <3>3. \A m \in 1..Store!Len(log) : log'[m] = log[m]
      BY <1>1, <3>1
    <3> QED BY <1>1, <3>2, <3>3 DEF Unread
  <2>2. CASE Store!Ragged
    <3>1. /\ Store!Len(log') = Store!Len(log) /\ Store!Len(log) > 0
          /\ log'[Store!Len(log)].type = "torn"
          /\ \A m \in 1..(Store!Len(log) - 1) : log'[m] = log[m]
      BY <1>a, <1>b, <2>2
    <3>2. ~Unread(k, Store!Len(log)) /\ ~Unread(k, Store!Len(log))'
      BY <1>c, <2>2, <3>1 DEF Unread
    <3>3. CASE n = Store!Len(log)
      BY <3>1, <3>2, <3>3 DEF Unread
    <3>4. CASE n # Store!Len(log)
      <4>1. CASE n \in (pos + 1)..(Store!Len(log) - 1)
        <5>1. log'[n] = log[n]
          BY <1>1, <3>1, <4>1
        <5> QED BY <3>1, <5>1 DEF Unread
      <4>2. CASE n \notin (pos + 1)..(Store!Len(log) - 1)
        BY <1>1, <3>1, <3>4, <4>2 DEF Unread
      <4> QED BY <4>1, <4>2
    <3> QED BY <3>3, <3>4
  <2> QED BY <2>1, <2>2
<1>4. /\ Store!Len(log') \in Nat
      /\ \A n \in (pos + 1)..Store!Len(log) : Store!Len(log') >= n
      /\ \A n \in Nat : Unread(k, n)' => n \in (pos + 1)..Store!Len(log')
      /\ \A n \in Nat : Unread(k, n) => n \in (pos + 1)..Store!Len(log)
  <2>1. Store!Len(log') \in Nat /\ Store!Len(log') >= Store!Len(log)
    <3>1. CASE ~Store!Ragged
      BY <1>1, <1>a, <3>1
    <3>2. CASE Store!Ragged
      BY <1>1, <1>a, <3>2
    <3> QED BY <3>1, <3>2
  <2> QED BY <1>1, <2>1 DEF Unread
<1>5. ASSUME \A n \in (pos' + 1)..Store!Len(log') : ~Unread(k, n)'
      PROVE  seen'[k] = Store!Val(k)'
  <2>1. \A n \in (pos + 1)..Store!Len(log) : ~Unread(k, n)
    BY <1>1, <1>3, <1>4, <1>5
  <2> QED BY <1>2, <2>1 DEF Told
<1>6. ASSUME NEW n \in Nat, LastUnread(k, n)'
      PROVE  log'[n].type = "delete" <=> row'[k] = Nil
  <2>1. Unread(k, n)' /\ Unread(k, n)
    BY <1>3, <1>6 DEF LastUnread
  <2>2. \A m \in (n + 1)..Store!Len(log) : ~Unread(k, m)
    BY <1>1, <1>3, <1>4, <1>6 DEF LastUnread, Unread
  <2>3. LastUnread(k, n)
    BY <2>1, <2>2 DEF LastUnread
  <2>4. log'[n] = log[n]
    <3>1. CASE ~Store!Ragged
      BY <1>1, <1>a, <2>1, <3>1 DEF Unread
    <3>2. CASE Store!Ragged
      <4>1. n # Store!Len(log)
        BY <1>c, <2>1, <3>2 DEF Unread
      <4> QED BY <1>1, <1>a, <2>1, <3>2, <4>1 DEF Unread
    <3> QED BY <3>1, <3>2
  <2> QED BY <2>3, <2>4 DEF Told
<1> QED BY <1>5, <1>6 DEF Told

\* A line that says of the key what the row says.
LEMMA ToldLine ==
  ASSUME NEW k, StoreTyped, NEW line \in Store!Line, log' = Store!Append(log, line),
         line.key = k, line.type # "torn", line.type = "delete" <=> row[k] = Nil,
         pos' = pos, row' = row
  PROVE  Told(k)'
<1>1. pos \in Nat /\ Store!Len(log) \in Nat /\ pos <= Store!Len(log)
          /\ log \in Store!Seq(Store!Line)
  BY DEF StoreTyped
<1>2. Store!Len(log') = Store!Len(log) + 1 /\ log'[Store!Len(log) + 1] = line
  BY <1>1
<1>a. PICK newest : newest = Store!Len(log) + 1
  OBVIOUS
<1>3. newest \in (pos' + 1)..Store!Len(log') /\ Unread(k, newest)'
  <2>1. newest \in (pos' + 1)..Store!Len(log') /\ log'[newest] = line
    BY <1>a, <1>1, <1>2
  <2> QED BY <2>1 DEF Unread
<1>4. ASSUME NEW n \in Nat, LastUnread(k, n)' PROVE n = Store!Len(log) + 1
  <2>1. n \in (pos' + 1)..Store!Len(log') /\ \A m \in (n + 1)..Store!Len(log') : ~Unread(k, m)'
    BY <1>4 DEF LastUnread, Unread
  <2>2. newest \notin (n + 1)..Store!Len(log')
    BY <1>3, <2>1
  <2> QED BY <1>a, <1>1, <1>2, <2>1, <2>2
<1> QED BY <1>a, <1>2, <1>3, <1>4 DEF Told

\* The watcher reads a line.
LEMMA ToldWatched ==
  ASSUME NEW k \in Keys, Told(k), StoreTyped, Store!Watch
  PROVE  Told(k)'
<1>1. /\ pos \in Nat /\ Store!Len(log) \in Nat /\ pos < Store!Len(log) /\ pos' = pos + 1
      /\ log \in Store!Seq(Store!Line) /\ row' = row /\ log' = log
  BY DEF StoreTyped, Store!Watch
<1> DEFINE line == log[pos + 1]
<1>2. line.key \in Keys
  <2>1. line \in Store!Line
    BY <1>1
  <2> QED BY <2>1 DEF Store!Line
<1>3. seen' = [seen EXCEPT ![line.key] =
       IF line.type = "delete" THEN Nil
       ELSE IF line.type = "torn" \/ row[line.key] = Nil THEN @
       ELSE Store!Val(line.key)]
  BY DEF Store!Watch
<1>4. Store!Val(k)' = Store!Val(k)
  BY <1>1 DEF Store!Val
<1>5. ASSUME \A n \in (pos' + 1)..Store!Len(log') : ~Unread(k, n)'
      PROVE  seen'[k] = Store!Val(k)'
  <2>1. CASE line.key = k /\ line.type # "torn"
    <3>1. LastUnread(k, pos + 1)
      BY <1>1, <1>5, <2>1 DEF LastUnread, Unread
    <3>2. line.type = "delete" <=> row[k] = Nil
      BY <1>1, <3>1 DEF Told
    <3>3. seen'[k] = IF line.type = "delete" THEN Nil
                     ELSE IF row[k] = Nil THEN seen[k] ELSE Store!Val(k)
      BY <1>3, <2>1 DEF StoreTyped
    <3> QED BY <1>4, <3>2, <3>3 DEF Store!Val
  <2>2. CASE line.key # k \/ line.type = "torn"
    <3>1. \A n \in (pos + 1)..Store!Len(log) : ~Unread(k, n)
      BY <1>1, <1>5, <2>2 DEF Unread
    <3>2. seen'[k] = seen[k]
      BY <1>3, <2>2 DEF StoreTyped
    <3> QED BY <1>4, <3>1, <3>2 DEF Told
  <2> QED BY <2>1, <2>2
<1>6. ASSUME NEW n \in Nat, LastUnread(k, n)' PROVE log'[n].type = "delete" <=> row'[k] = Nil
  <2>1. LastUnread(k, n)
    BY <1>1, <1>6 DEF LastUnread, Unread
  <2> QED BY <1>1, <2>1 DEF Told
<1> QED BY <1>5, <1>6 DEF Told

-----------------------------------------------------------------------------
\* A call that is not the one that moves.
LEMMA CallKept ==
  ASSUME NEW d \in Clients, CallSound(d), call'[d] = call[d],
         call[d].at \in {"check", "write", "log", "unlock"} => shard' = shard,
         row'[call[d].key] = row[call[d].key], call[d].key \in cut' <=> call[d].key \in cut
  PROVE  CallSound(d)'
  BY DEF CallSound, Store!Matches, Store!Val

\* A step that leaves rows, log and watcher alone and puts no call at its line or
\* takes it from there.
LEMMA KeysQuiet ==
  ASSUME KeysTold, StoreTyped, NEW c \in Clients, NEW v, call' = [call EXCEPT ![c] = v],
         call[c] # Nil => call[c].at # "log", v # Nil => v.at # "log",
         row' = row, log' = log, pos' = pos, seen' = seen, cut' = cut
  PROVE  KeysTold'
<1> SUFFICES ASSUME NEW k \in Keys, k \notin TxKeys, k \notin cut, ~Logging(k)'
             PROVE  Told(k)'
  BY DEF KeysTold
<1>1. ~Logging(k)
  <2> SUFFICES ASSUME NEW d \in Clients, Store!At(d, "log"), call[d].key = k PROVE FALSE
    BY DEF Logging
  <2>1. d # c
    BY DEF Store!At
  <2>2. call'[d] = call[d]
    BY <2>1 DEF StoreTyped
  <2> QED BY <2>2 DEF Logging, Store!At
<1>2. Told(k) /\ Store!Val(k)' = Store!Val(k)
  BY <1>1 DEF KeysTold, Store!Val
<1> QED BY <1>2, ToldSame

\* A step of one call that leaves rows, log, watcher and cut alone.
LEMMA QuietStep ==
  ASSUME StoreInv, NEW c \in Clients, NEW v \in Store!Call \union {Nil},
         call' = [call EXCEPT ![c] = v],
         call[c] # Nil => call[c].at # "log", v # Nil => v.at # "log",
         row' = row, log' = log, pos' = pos, seen' = seen, cut' = cut,
         txn' \in Clients \union {Nil}, shard' \in Clients \union {Nil},
         shard' = shard \/ shard \in {Nil, c},
         v # Nil => CallSound(c)'
  PROVE  StoreInv'
<1>1. StoreTyped'
  BY DEF StoreInv, StoreTyped
<1>2. KeysTold'
  BY KeysQuiet DEF StoreInv
<1>3. ASSUME NEW d \in Clients, call'[d] # Nil PROVE CallSound(d)'
  <2>1. CASE d = c
    BY <1>3, <2>1 DEF StoreInv, StoreTyped
  <2>2. CASE d # c
    <3>1. call'[d] = call[d] /\ CallSound(d)
      BY <1>3, <2>2 DEF StoreInv, StoreTyped, CallsSound
    <3>2. call[d].at \in {"check", "write", "log", "unlock"} => shard' = shard
      BY <3>1, <2>2, KeysAssumption DEF CallSound
    <3> QED BY <3>1, <3>2, CallKept
  <2> QED BY <2>1, <2>2
<1>4. LastMarked'
  BY MarkedKept DEF StoreInv
<1> QED BY <1>1, <1>2, <1>3, <1>4 DEF StoreInv, CallsSound

\* A call of set or delete begins with the lock of its shard to take.
LEMMA StartStep ==
  ASSUME StoreInv, NEW c \in Clients, Store!Start(c) PROVE StoreInv'
<1>1. PICK op \in {"set", "delete"}, k \in Keys \ TxKeys, v \in Values,
        e \in Values \union {Nil}, first \in BOOLEAN :
        /\ first \/ e = Nil
        /\ call' = [call EXCEPT ![c] = [at |-> "lock", op |-> op, key |-> k,
              val |-> IF op = "set" THEN v ELSE Nil, etag |-> e, first |-> first]]
  BY DEF Store!Start
<1> DEFINE w == [at |-> "lock", op |-> op, key |-> k,
              val |-> IF op = "set" THEN v ELSE Nil, etag |-> e, first |-> first]
<1>2. w \in Store!Call
  BY DEF Store!Call
<1>3. call'[c] = w /\ w.at = "lock" /\ w.op = op /\ w.key = k
          /\ w.val = (IF op = "set" THEN v ELSE Nil)
  BY <1>1 DEF StoreInv, StoreTyped
<1>4. CallSound(c)'
  BY <1>3, KeysAssumption DEF CallSound
<1>5. /\ call[c] = Nil /\ row' = row /\ log' = log /\ pos' = pos /\ seen' = seen /\ cut' = cut
      /\ txn' = txn /\ shard' = shard
  BY DEF Store!Start
<1> HIDE DEF w
<1> QED BY <1>1, <1>2, <1>3, <1>4, <1>5, QuietStep DEF w, StoreInv, StoreTyped

\* A call goes from one place to another.
LEMMA Went ==
  ASSUME StoreTyped, NEW c \in Clients, call[c] # Nil,
         NEW to \in {"lock", "check", "write", "log", "unlock", "purge", "txlog", "commit"},
         Store!Goto(c, to)
  PROVE  \E v \in Store!Call :
           /\ call' = [call EXCEPT ![c] = v] /\ call'[c] = v /\ v # Nil
           /\ v.at = to /\ v.op = call[c].op /\ v.key = call[c].key /\ v.val = call[c].val
           /\ v.etag = call[c].etag /\ v.first = call[c].first
<1> DEFINE v == [call[c] EXCEPT !.at = to]
<1>1. call[c] \in Store!Call
  BY CallTyped
<1>2. /\ v \in Store!Call
      /\ v.at = to /\ v.op = call[c].op /\ v.key = call[c].key /\ v.val = call[c].val
      /\ v.etag = call[c].etag /\ v.first = call[c].first
  BY <1>1 DEF Store!Call
<1>3. call' = [call EXCEPT ![c] = v]
  BY DEF Store!Goto
<1>4. v # Nil
  BY <1>2, KeysAssumption
<1> HIDE DEF v
<1>5. call'[c] = v
  BY <1>3 DEF StoreTyped
<1> QED BY <1>2, <1>3, <1>4, <1>5

\* The lock of the shard is taken.
LEMMA TakeShardStep ==
  ASSUME StoreInv, NEW c \in Clients, Store!TakeShard(c) PROVE StoreInv'
<1>1. /\ call[c] # Nil /\ call[c].at = "lock" /\ shard = Nil /\ shard' = c /\ Store!Goto(c, "check")
      /\ row' = row /\ log' = log /\ pos' = pos /\ seen' = seen /\ cut' = cut /\ txn' = txn
  BY DEF Store!TakeShard, Store!At
<1>2. PICK v \in Store!Call :
           /\ call' = [call EXCEPT ![c] = v] /\ call'[c] = v /\ v # Nil
           /\ v.at = "check" /\ v.op = call[c].op /\ v.key = call[c].key /\ v.val = call[c].val
  BY <1>1, Went DEF StoreInv
<1>3. CallSound(c)'
  BY <1>1, <1>2 DEF StoreInv, CallsSound, CallSound
<1> QED BY <1>1, <1>2, <1>3, QuietStep DEF StoreInv, StoreTyped

\* The etag and first-write conditions are checked under the lock.
LEMMA CheckStep ==
  ASSUME StoreInv, NEW c \in Clients, Store!Check(c) PROVE StoreInv'
<1> DEFINE to == IF Store!Matches(c) THEN "write" ELSE "unlock"
<1>1. /\ call[c] # Nil /\ call[c].at = "check" /\ shard' = shard /\ Store!Goto(c, to)
      /\ row' = row /\ log' = log /\ pos' = pos /\ seen' = seen /\ cut' = cut /\ txn' = txn
  BY DEF Store!Check, Store!At
<1>2. PICK v \in Store!Call :
           /\ call' = [call EXCEPT ![c] = v] /\ call'[c] = v /\ v # Nil
           /\ v.at = to /\ v.op = call[c].op /\ v.key = call[c].key /\ v.val = call[c].val
           /\ v.etag = call[c].etag /\ v.first = call[c].first
  BY <1>1, Went DEF StoreInv
<1>3. CallSound(c)'
  BY <1>1, <1>2 DEF StoreInv, CallsSound, CallSound, Store!Matches
<1> QED BY <1>1, <1>2, <1>3, QuietStep DEF StoreInv, StoreTyped

\* The lock of the shard is released.
LEMMA UnlockStep ==
  ASSUME StoreInv, NEW c \in Clients, Store!Unlock(c) PROVE StoreInv'
<1>1. /\ call[c] # Nil /\ call[c].at = "unlock" /\ shard' = Nil /\ call' = [call EXCEPT ![c] = Nil]
      /\ row' = row /\ log' = log /\ pos' = pos /\ seen' = seen /\ cut' = cut /\ txn' = txn
  BY DEF Store!Unlock, Store!At, Store!Return
<1>2. shard = c
  BY <1>1 DEF StoreInv, CallsSound, CallSound
<1> QED BY <1>1, <1>2, QuietStep DEF StoreInv, StoreTyped

\* A read finds a row whose time has passed.
LEMMA GetStep ==
  ASSUME StoreInv, NEW c \in Clients, Store!Get(c) PROVE StoreInv'
<1>1. PICK k \in TtlKeys : 
       /\ row[k] # Nil
       /\ call' = [call EXCEPT ![c] = [at |-> "purge", op |-> "get", key |-> k,
                                       val |-> row[k].val, etag |-> Nil, first |-> FALSE]]
  BY DEF Store!Get
<1> DEFINE w == [at |-> "purge", op |-> "get", key |-> k,
                 val |-> row[k].val, etag |-> Nil, first |-> FALSE]
<1>2. w \in Store!Call
  <2>1. row[k] \in Store!Row /\ k \in Keys
    BY <1>1, KeysAssumption DEF StoreInv, StoreTyped
  <2> QED BY <2>1 DEF Store!Call, Store!Row
<1>3. call'[c] = w /\ w.at = "purge"
  BY <1>1 DEF StoreInv, StoreTyped
<1>4. CallSound(c)'
  BY <1>3 DEF CallSound
<1>5. /\ call[c] = Nil /\ row' = row /\ log' = log /\ pos' = pos /\ seen' = seen /\ cut' = cut
      /\ txn' = txn /\ shard' = shard
  BY DEF Store!Get
<1> HIDE DEF w
<1> QED BY <1>1, <1>2, <1>3, <1>4, <1>5, QuietStep DEF w, StoreInv, StoreTyped

\* A transaction begins.
LEMMA BeginStep ==
  ASSUME StoreInv, NEW c \in Clients, Store!Begin(c) PROVE StoreInv'
<1>1. PICK k \in TxKeys, v \in Values : 
       call' = [call EXCEPT ![c] = [at |-> "txlog", op |-> "tx", key |-> k,
                                    val |-> v, etag |-> Nil, first |-> FALSE]]
  BY DEF Store!Begin
<1> DEFINE w == [at |-> "txlog", op |-> "tx", key |-> k,
                 val |-> v, etag |-> Nil, first |-> FALSE]
<1>2. w \in Store!Call
  BY KeysAssumption DEF Store!Call
<1>3. call'[c] = w /\ w.at = "txlog" /\ w.op = "tx" /\ w.key = k /\ w.val = v
  BY <1>1 DEF StoreInv, StoreTyped
<1>4. CallSound(c)'
  BY <1>3, KeysAssumption DEF CallSound
<1>5. /\ call[c] = Nil /\ row' = row /\ log' = log /\ pos' = pos /\ seen' = seen /\ cut' = cut
      /\ txn' = c /\ shard' = shard
  BY DEF Store!Begin
<1> HIDE DEF w
<1> QED BY <1>1, <1>2, <1>3, <1>4, <1>5, QuietStep DEF w, StoreInv, StoreTyped

-----------------------------------------------------------------------------
\* What Told is about does not change for a key, and nobody takes the call away
\* that is about to log it.
LEMMA KeyQuiet ==
  ASSUME KeysTold, NEW k \in Keys, k \notin TxKeys, k \notin cut, ~Logging(k),
         log' = log, pos' = pos, seen' = seen,
         Store!Val(k)' = Store!Val(k), row'[k] = Nil <=> row[k] = Nil
  PROVE  Told(k)'
  BY ToldSame DEF KeysTold

\* The row is written, before its line in the log.
LEMMA WriteStep ==
  ASSUME StoreInv, NEW c \in Clients, Store!Write(c) PROVE StoreInv'
<1>0. PICK k : k = call[c].key
  OBVIOUS
<1>1. /\ call[c] # Nil /\ call[c].at = "write" /\ shard' = shard
      /\ log' = log /\ pos' = pos /\ seen' = seen /\ cut' = cut /\ txn' = txn
  BY DEF Store!Write, Store!At
<1>2. /\ call[c].op \in {"set", "delete"} /\ k \notin TxKeys /\ shard = c /\ k \in Keys
      /\ call[c].op = "delete" <=> call[c].val = Nil
      /\ call[c].val \in Values \union {Nil}
  BY <1>0, <1>1, CallTyped DEF StoreInv, CallsSound, CallSound
<1>3. CASE row' = row /\ Store!Goto(c, "unlock")
  <2>1. PICK v \in Store!Call :
           /\ call' = [call EXCEPT ![c] = v] /\ call'[c] = v /\ v # Nil
           /\ v.at = "unlock" /\ v.op = call[c].op /\ v.key = call[c].key /\ v.val = call[c].val
    BY <1>1, <1>3, Went DEF StoreInv
  <2>2. CallSound(c)'
    BY <1>0, <1>1, <1>2, <2>1 DEF CallSound
  <2> QED BY <1>1, <1>3, <2>1, <2>2, QuietStep DEF StoreInv, StoreTyped
<1>4. ASSUME NEW r \in Store!Row \union {Nil}, row' = [row EXCEPT ![k] = r], Store!Goto(c, "log"),
             r = Nil <=> call[c].val = Nil, r # Nil => r.val = call[c].val
      PROVE  StoreInv'
  <2>1. PICK v \in Store!Call :
           /\ call' = [call EXCEPT ![c] = v] /\ call'[c] = v /\ v # Nil
           /\ v.at = "log" /\ v.op = call[c].op /\ v.key = call[c].key /\ v.val = call[c].val
    BY <1>1, <1>4, Went DEF StoreInv
  <2>2. row'[k] = r /\ \A j \in Keys : j # k => row'[j] = row[j]
    BY <1>2, <1>4 DEF StoreInv, StoreTyped
  <2>3. StoreTyped'
    BY <1>1, <1>2, <1>4, <2>1 DEF StoreInv, StoreTyped
  <2>4. Store!Val(k)' = call[c].val
    BY <1>4, <2>2 DEF Store!Val
  <2>5. CallSound(c)'
    BY <1>0, <1>1, <1>2, <2>1, <2>4 DEF CallSound, Store!Val
  <2>6. ASSUME NEW d \in Clients, d # c PROVE call'[d] = call[d]
    BY <2>1, <2>6 DEF StoreInv, StoreTyped
  <2>7. ASSUME NEW d \in Clients, call'[d] # Nil PROVE CallSound(d)'
    <3>1. CASE d = c
      BY <2>5, <3>1
    <3>2. CASE d # c
      <4>1. call'[d] = call[d] /\ CallSound(d)
        BY <2>6, <2>7, <3>2 DEF StoreInv, CallsSound
      <4>2. call[d].at \notin {"check", "write", "log", "unlock"}
        BY <1>2, <4>1, <3>2 DEF CallSound
      <4> QED BY <4>1, <4>2 DEF CallSound
    <3> QED BY <3>1, <3>2
  <2>8. ASSUME NEW j \in Keys, j \notin TxKeys, j \notin cut, ~Logging(j)' PROVE Told(j)'
    <3>1. j # k
      BY <1>0, <1>2, <2>1, <2>8 DEF Logging, Store!At
    <3>2. ~Logging(j)
      <4> SUFFICES ASSUME NEW d \in Clients, Store!At(d, "log"), call[d].key = j PROVE FALSE
        BY DEF Logging
      <4>1. d # c
        BY <1>1 DEF Store!At
      <4> QED BY <2>6, <2>8, <4>1 DEF Logging, Store!At
    <3>3. row'[j] = row[j] /\ Store!Val(j)' = Store!Val(j)
      BY <2>2, <3>1 DEF Store!Val
    <3> QED BY <1>1, <2>8, <3>2, <3>3, KeyQuiet DEF StoreInv
  <2>9. KeysTold'
    BY <1>1, <2>8 DEF KeysTold
  <2>10. LastMarked'
    BY <1>1, MarkedKept DEF StoreInv
  <2> QED BY <2>3, <2>7, <2>9, <2>10 DEF StoreInv, CallsSound
<1>5. CASE call[c].op = "set" /\ row' = [row EXCEPT ![k] = [val |-> call[c].val, old |-> FALSE]]
           /\ Store!Goto(c, "log")
  <2>1. call[c].val \in Values
    BY <1>2, <1>5
  <2>2. [val |-> call[c].val, old |-> FALSE] \in Store!Row
    BY <2>1 DEF Store!Row
  <2> QED BY <1>4, <1>5, <2>1, <2>2, KeysAssumption
<1>6. CASE call[c].op = "delete" /\ row' = [row EXCEPT ![k] = Nil] /\ Store!Goto(c, "log")
  BY <1>2, <1>4, <1>6
<1> QED BY <1>0, <1>1, <1>3, <1>5, <1>6 DEF Store!Write

\* The append to the log, whatever becomes of it, after the row was written.
LEMMA Logged ==
  ASSUME StoreInv, NEW c \in Clients, Store!At(c, "log"), Store!Goto(c, "unlock"),
         NEW k, k = call[c].key,
         shard' = shard, row' = row, pos' = pos, seen' = seen, txn' = txn,
         \/ log' = log
         \/ \E line \in Store!Line :
              line.key = k /\ log' = Store!Put(line) /\ (line.ended \/ k \in cut'),
         log' = log => k \in cut',
         cut' \in {cut, cut \union {k}, cut \ {k}},
         k \in cut' \/ Told(k)'
  PROVE  StoreInv'
<1>1. call[c] # Nil /\ call[c].at = "log"
  BY DEF Store!At
<1>2. /\ call[c].op \in {"set", "delete"} /\ k \notin TxKeys /\ shard = c /\ k \in Keys
      /\ call[c].op = "delete" <=> call[c].val = Nil
  BY <1>1, CallTyped DEF StoreInv, CallsSound, CallSound
<1>3. log' = log \/ \E line \in Store!Line : line.key = k /\ log' = Store!Put(line)
  OBVIOUS
<1>4. PICK v \in Store!Call :
           /\ call' = [call EXCEPT ![c] = v] /\ call'[c] = v /\ v # Nil
           /\ v.at = "unlock" /\ v.op = call[c].op /\ v.key = call[c].key /\ v.val = call[c].val
  BY <1>1, Went DEF StoreInv
<1>5. log' \in Store!Seq(Store!Line) /\ pos' \in 0..Store!Len(log')
  BY <1>3, PutTyped DEF StoreInv, StoreTyped
<1>6. StoreTyped'
  BY <1>2, <1>4, <1>5 DEF StoreInv, StoreTyped
<1>7. ASSUME NEW d \in Clients, d # c PROVE call'[d] = call[d]
  BY <1>4, <1>7 DEF StoreInv, StoreTyped
<1>8. CallSound(c)'
  BY <1>1, <1>2, <1>4 DEF CallSound
<1>9. ASSUME NEW d \in Clients, call'[d] # Nil PROVE CallSound(d)'
  <2>1. CASE d = c
    BY <1>8, <2>1
  <2>2. CASE d # c
    <3>1. call'[d] = call[d] /\ CallSound(d)
      BY <1>7, <1>9, <2>2 DEF StoreInv, CallsSound
    <3>2. call[d].at \notin {"check", "write", "log", "unlock"}
      BY <1>2, <3>1, <2>2 DEF CallSound
    <3> QED BY <3>1, <3>2 DEF CallSound
  <2> QED BY <2>1, <2>2
<1>10. ASSUME NEW j \in Keys, j \notin TxKeys, j \notin cut', ~Logging(j)', j # k
       PROVE  Told(j)'
  <2>1. ~Logging(j)
    <3> SUFFICES ASSUME NEW d \in Clients, Store!At(d, "log"), call[d].key = j PROVE FALSE
      BY DEF Logging
    <3>1. d # c
      BY <1>10
    <3> QED BY <1>7, <1>10, <3>1 DEF Logging, Store!At
  <2>2. j \notin cut
    BY <1>10
  <2>3. Told(j)
    BY <1>10, <2>1, <2>2 DEF StoreInv, KeysTold
  <2>4. CASE log' = log
    <3>1. Store!Val(j)' = Store!Val(j)
      BY DEF Store!Val
    <3> QED BY <2>3, <2>4, <3>1, ToldSame
  <2>5. CASE \E line \in Store!Line : line.key = k /\ log' = Store!Put(line)
    BY <1>10, <2>2, <2>3, <2>5, ToldOther DEF StoreInv
  <2> QED BY <1>3, <2>4, <2>5
<1>11. KeysTold'
  BY <1>10 DEF KeysTold
<1>12. LastMarked'
  <2>1. CASE log' = log
    <3>1. cut \subseteq cut'
      BY <2>1
    <3> QED BY <2>1, <3>1, MarkedKept DEF StoreInv
  <2>2. CASE log' # log
    BY <2>2, MarkedPut DEF StoreInv
  <2> QED BY <2>1, <2>2
<1> QED BY <1>6, <1>9, <1>11, <1>12 DEF StoreInv, CallsSound

\* The line in the log follows the row.
LEMMA WriteLogStep ==
  ASSUME StoreInv, NEW c \in Clients, Store!WriteLog(c) PROVE StoreInv'
<1>0. PICK k : k = call[c].key
  OBVIOUS
<1>1. /\ Store!At(c, "log") /\ call[c] # Nil /\ call[c].at = "log" /\ shard' = shard
      /\ row' = row /\ log' = Store!LogLine(c) /\ pos' = pos /\ seen' = seen /\ txn' = txn
      /\ Store!Goto(c, "unlock")
      /\ cut' = IF Store!Ragged THEN cut \union {k}
                ELSE IF Store!Val(k) = call[c].val THEN cut \ {k} ELSE cut
  BY <1>0 DEF Store!WriteLog, Store!At
<1>2. /\ call[c].op \in {"set", "delete"} /\ k \notin TxKeys /\ k \in Keys
      /\ call[c].op = "delete" <=> call[c].val = Nil
      /\ k \notin cut => Store!Val(k) = call[c].val
  BY <1>0, <1>1, CallTyped DEF StoreInv, CallsSound, CallSound
<1>3. PICK line \in Store!Line :
           /\ line.key = k /\ line.type # "torn" /\ line.ended
           /\ line.type = "delete" <=> call[c].op = "delete"
           /\ log' = Store!Put(line)
  BY <1>0, <1>1, LineTyped DEF StoreInv
<1>4. ASSUME k \notin cut' PROVE Told(k)'
  <2>1. ~Store!Ragged /\ Store!Val(k) = call[c].val
    BY <1>1, <1>2, <1>4
  <2>2. log' = Store!Append(log, line)
    BY <1>3, <2>1 DEF Store!Put
  <2>3. line.type = "delete" <=> row[k] = Nil
    <3>1. row[k] # Nil => row[k].val # Nil
      BY <1>2, KeysAssumption DEF StoreInv, StoreTyped, Store!Row
    <3> QED BY <1>2, <1>3, <2>1, <3>1 DEF Store!Val
  <2> QED BY <1>1, <1>3, <2>2, <2>3, ToldLine DEF StoreInv
<1>5. log' = log => k \in cut'
  <2>1. ASSUME ~Store!Ragged PROVE log' # log
    BY <1>3, <2>1 DEF Store!Put, StoreInv, StoreTyped
  <2> QED BY <1>1, <2>1
<1> QED BY <1>0, <1>1, <1>3, <1>4, <1>5, Logged

\* The append after the row fails.
LEMMA WriteLogFailsStep ==
  ASSUME StoreInv, NEW c \in Clients, Store!WriteLogFails(c) PROVE StoreInv'
<1>0. PICK k : k = call[c].key
  OBVIOUS
<1>1. /\ Store!At(c, "log") /\ call[c] # Nil /\ shard' = shard
      /\ row' = row /\ Store!LogCut(c) /\ pos' = pos /\ seen' = seen /\ txn' = txn
      /\ Store!Goto(c, "unlock") /\ cut' = cut \union {k}
  BY <1>0 DEF Store!WriteLogFails, Store!At
<1>2. log' # log => \E line \in Store!Line : line.key = k /\ log' = Store!Put(line)
  BY <1>0, <1>1, CutTyped DEF StoreInv
<1> QED BY <1>0, <1>1, <1>2, Logged

\* The time of a row passes.
LEMMA ExpireStep ==
  ASSUME StoreInv, NEW k \in TtlKeys, Store!Expire(k) PROVE StoreInv'
<1>1. /\ row[k] # Nil /\ row' = [row EXCEPT ![k].old = TRUE] /\ k \in Keys
      /\ log' = log /\ shard' = shard /\ txn' = txn /\ call' = call /\ pos' = pos /\ seen' = seen
      /\ cut' = cut
  BY KeysAssumption DEF Store!Expire
<1>2. row[k] \in Store!Row
  BY <1>1 DEF StoreInv, StoreTyped
<1>3. [row[k] EXCEPT !.old = TRUE] \in Store!Row /\ [row[k] EXCEPT !.old = TRUE].val = row[k].val
  BY <1>2 DEF Store!Row
<1>4. row' = [row EXCEPT ![k] = [row[k] EXCEPT !.old = TRUE]]
  BY <1>1
<1>5. row' \in [Keys -> Store!Row \union {Nil}]
  BY <1>3, <1>4 DEF StoreInv, StoreTyped
<1>6. ASSUME NEW j \in Keys
      PROVE  /\ row'[j] = Nil <=> row[j] = Nil
             /\ row[j] # Nil => row'[j].val = row[j].val
             /\ Store!Val(j)' = Store!Val(j)
  <2>1. row'[j] = Nil <=> row[j] = Nil
    BY <1>1, <1>3, <1>4, KeysAssumption DEF StoreInv, StoreTyped
  <2>2. row[j] # Nil => row'[j].val = row[j].val
    BY <1>3, <1>4 DEF StoreInv, StoreTyped
  <2> QED BY <2>1, <2>2 DEF Store!Val
<1>7. StoreTyped'
  BY <1>1, <1>5 DEF StoreInv, StoreTyped
<1>8. ASSUME NEW d \in Clients, call'[d] # Nil PROVE CallSound(d)'
  <2>1. CallSound(d) /\ call[d].key \in Keys /\ call'[d] = call[d]
    BY <1>1, <1>8, CallTyped DEF StoreInv, CallsSound
  <2>2. /\ row'[call[d].key] = Nil <=> row[call[d].key] = Nil
        /\ row[call[d].key] # Nil => row'[call[d].key].val = row[call[d].key].val
    BY <1>6, <2>1
  <2> QED BY <1>1, <2>1, <2>2 DEF CallSound, Store!Matches, Store!Val
<1>9. ASSUME NEW j \in Keys, j \notin TxKeys, j \notin cut', ~Logging(j)' PROVE Told(j)'
  <2>1. ~Logging(j)
    BY <1>1, <1>9 DEF Logging, Store!At
  <2> QED BY <1>1, <1>6, <1>9, <2>1, KeyQuiet DEF StoreInv
<1>10. LastMarked'
  BY <1>1, MarkedKept DEF StoreInv
<1> QED BY <1>7, <1>8, <1>9, <1>10 DEF StoreInv, CallsSound, KeysTold

\* A step that ends the call of c, which is not at its line.
LEMMA OthersKept ==
  ASSUME StoreTyped, NEW c \in Clients, call' = [call EXCEPT ![c] = Nil],
         call[c] # Nil, call[c].at # "log"
  PROVE  /\ \A d \in Clients : call'[d] = IF d = c THEN Nil ELSE call[d]
         /\ \A j : Logging(j)' <=> Logging(j)
<1>1. \A d \in Clients : call'[d] = IF d = c THEN Nil ELSE call[d]
  BY DEF StoreTyped
<1>2. ASSUME NEW j PROVE Logging(j)' <=> Logging(j)
  BY <1>1 DEF Logging, Store!At
<1> QED BY <1>1, <1>2

\* A row whose time has passed is removed, if it is still that row.
LEMMA PurgeStep ==
  ASSUME StoreInv, NEW c \in Clients, Store!Purge(c) PROVE StoreInv'
<1>1. /\ call[c] # Nil /\ call[c].at = "purge" /\ call' = [call EXCEPT ![c] = Nil]
      /\ log' = log /\ shard' = shard /\ txn' = txn /\ pos' = pos /\ seen' = seen
  BY DEF Store!Purge, Store!At, Store!Return
<1>2. CASE row' = row /\ cut' = cut
  BY <1>1, <1>2, QuietStep DEF StoreInv, StoreTyped
<1>3. CASE row' = [row EXCEPT ![call[c].key] = Nil] /\ cut' = cut \union {call[c].key}
  <2>0. PICK k : k = call[c].key
    OBVIOUS
  <2>1. k \in Keys
    BY <1>1, <2>0, CallTyped DEF StoreInv
  <2>2. row'[k] = Nil /\ \A j \in Keys : j # k => row'[j] = row[j]
    BY <1>3, <2>0, <2>1 DEF StoreInv, StoreTyped
  <2>3. StoreTyped'
    BY <1>1, <1>3, <2>0, <2>1 DEF StoreInv, StoreTyped
  <2>4. /\ \A d \in Clients : call'[d] = IF d = c THEN Nil ELSE call[d]
        /\ \A j : Logging(j)' <=> Logging(j)
    BY <1>1, OthersKept DEF StoreInv
  <2>5. ASSUME NEW d \in Clients, call'[d] # Nil PROVE CallSound(d)'
    <3>1. call'[d] = call[d] /\ CallSound(d) /\ call[d].key \in Keys
      BY <2>4, <2>5, CallTyped DEF StoreInv, CallsSound
    <3>2. CASE call[d].key = k
      BY <1>1, <1>3, <2>0, <2>2, <3>1, <3>2 DEF CallSound, Store!Matches
    <3>3. CASE call[d].key # k
      BY <1>1, <1>3, <2>0, <2>2, <3>1, <3>3, CallKept
    <3> QED BY <3>2, <3>3
  <2>6. ASSUME NEW j \in Keys, j \notin TxKeys, j \notin cut', ~Logging(j)' PROVE Told(j)'
    <3>1. j # k /\ j \notin cut /\ ~Logging(j)
      BY <1>3, <2>0, <2>4, <2>6
    <3>2. row'[j] = row[j] /\ Store!Val(j)' = Store!Val(j)
      BY <2>2, <3>1 DEF Store!Val
    <3> QED BY <1>1, <2>6, <3>1, <3>2, KeyQuiet DEF StoreInv
  <2>7. LastMarked'
    BY <1>1, <1>3, MarkedKept DEF StoreInv
  <2> QED BY <2>3, <2>5, <2>6, <2>7 DEF StoreInv, CallsSound, KeysTold
<1> QED BY <1>2, <1>3 DEF Store!Purge

\* A transaction goes on to its COMMIT or ends, and may have appended to the log.
LEMMA TxLogged ==
  ASSUME StoreInv, NEW c \in Clients, call[c] # Nil, call[c].at \in {"txlog", "commit"},
         NEW v \in Store!Call \union {Nil}, call' = [call EXCEPT ![c] = v],
         v # Nil => v.at = "commit" /\ v.op = call[c].op /\ v.key = call[c].key
                      /\ v.val = call[c].val,
         log' = log \/ \E line \in Store!Line : line.key = call[c].key /\ log' = Store!Put(line),
         shard' = shard, row' = row, pos' = pos, seen' = seen, cut' = cut,
         txn' \in Clients \union {Nil}
  PROVE  StoreInv'
<1>0. PICK k : k = call[c].key
  OBVIOUS
<1>1. call[c].op = "tx" /\ k \in TxKeys /\ k \in Keys /\ call[c].val # Nil
  BY <1>0, CallTyped DEF StoreInv, CallsSound, CallSound
<1>2. log' = log \/ \E line \in Store!Line : line.key = k /\ log' = Store!Put(line)
  BY <1>0
<1>3. log' \in Store!Seq(Store!Line) /\ pos' \in 0..Store!Len(log')
  BY <1>2, PutTyped DEF StoreInv, StoreTyped
<1>4. StoreTyped'
  BY <1>3 DEF StoreInv, StoreTyped
<1>5. \A d \in Clients : call'[d] = IF d = c THEN v ELSE call[d]
  BY DEF StoreInv, StoreTyped
<1>6. ASSUME NEW d \in Clients, call'[d] # Nil PROVE CallSound(d)'
  <2>1. CASE d = c
    <3>1. call'[d] = v /\ v # Nil
      BY <1>5, <1>6, <2>1
    <3> QED BY <1>0, <1>1, <2>1, <3>1 DEF CallSound
  <2>2. CASE d # c
    BY <1>5, <1>6, <2>2, CallKept DEF StoreInv, CallsSound
  <2> QED BY <2>1, <2>2
<1>7. ASSUME NEW j \in Keys, j \notin TxKeys, j \notin cut', ~Logging(j)' PROVE Told(j)'
  <2>1. ~Logging(j)
    <3> SUFFICES ASSUME NEW d \in Clients, Store!At(d, "log"), call[d].key = j PROVE FALSE
      BY DEF Logging
    <3>1. d # c
      BY DEF Store!At
    <3> QED BY <1>5, <1>7, <3>1 DEF Logging, Store!At
  <2>2. Told(j) /\ j \notin cut
    BY <1>7, <2>1 DEF StoreInv, KeysTold
  <2>3. CASE log' = log
    <3>1. Store!Val(j)' = Store!Val(j)
      BY DEF Store!Val
    <3> QED BY <2>2, <2>3, <3>1, ToldSame
  <2>4. CASE \E line \in Store!Line : line.key = k /\ log' = Store!Put(line)
    BY <1>1, <1>7, <2>2, <2>4, ToldOther DEF StoreInv
  <2> QED BY <1>2, <2>3, <2>4
<1>8. LastMarked'
  <2>1. CASE log' = log
    BY <2>1, MarkedKept DEF StoreInv
  <2>2. CASE \E line \in Store!Line : line.key = k /\ log' = Store!Put(line)
    BY <1>1, <2>2, MarkedPut DEF StoreInv
  <2> QED BY <1>2, <2>1, <2>2
<1> QED BY <1>4, <1>6, <1>7, <1>8 DEF StoreInv, CallsSound, KeysTold

\* The line of a transaction is logged.
LEMMA TxLogStep ==
  ASSUME StoreInv, NEW c \in Clients, Store!TxLog(c) PROVE StoreInv'
<1>1. /\ call[c] # Nil /\ call[c].at = "txlog" /\ shard' = shard /\ row' = row
      /\ log' = Store!LogLine(c) /\ pos' = pos /\ seen' = seen /\ txn' = txn
      /\ Store!Goto(c, "commit") /\ cut' = cut
  BY DEF Store!TxLog, Store!At
<1>2. \E line \in Store!Line : line.key = call[c].key /\ log' = Store!Put(line)
  BY <1>1, LineTyped DEF StoreInv
<1>3. PICK v \in Store!Call :
           /\ call' = [call EXCEPT ![c] = v] /\ v # Nil
           /\ v.at = "commit" /\ v.op = call[c].op /\ v.key = call[c].key /\ v.val = call[c].val
  BY <1>1, Went DEF StoreInv
<1>4. txn' \in Clients \union {Nil}
  BY <1>1 DEF StoreInv, StoreTyped
<1> QED BY <1>1, <1>2, <1>3, <1>4, TxLogged

\* A transaction is rolled back.
LEMMA TxFailsStep ==
  ASSUME StoreInv, NEW c \in Clients, Store!TxFails(c) PROVE StoreInv'
<1>1. /\ call[c] # Nil /\ call[c].at \in {"txlog", "commit"} /\ shard' = shard /\ row' = row
      /\ Store!LogCut(c) \/ log' = log
      /\ pos' = pos /\ seen' = seen /\ txn' = Nil /\ call' = [call EXCEPT ![c] = Nil]
      /\ cut' = cut
  BY DEF Store!TxFails, Store!At, Store!Return
<1>2. log' = log \/ \E line \in Store!Line : line.key = call[c].key /\ log' = Store!Put(line)
  BY <1>1, CutTyped DEF StoreInv
<1> QED BY <1>1, <1>2, TxLogged

\* The rows of a transaction are written.
LEMMA CommitStep ==
  ASSUME StoreInv, NEW c \in Clients, Store!Commit(c) PROVE StoreInv'
<1>0. PICK k : k = call[c].key
  OBVIOUS
<1>1. /\ call[c] # Nil /\ call[c].at = "commit" /\ call' = [call EXCEPT ![c] = Nil]
      /\ row' = [row EXCEPT ![k] = [val |-> call[c].val, old |-> FALSE]]
      /\ log' = log /\ shard' = shard /\ txn' = Nil /\ pos' = pos /\ seen' = seen /\ cut' = cut
  BY <1>0 DEF Store!Commit, Store!At, Store!Return
<1>2. k \in TxKeys /\ k \in Keys /\ call[c].val \in Values
  BY <1>0, <1>1, CallTyped DEF StoreInv, CallsSound, CallSound
<1>3. [val |-> call[c].val, old |-> FALSE] \in Store!Row
  BY <1>2 DEF Store!Row
<1>4. StoreTyped'
  BY <1>1, <1>2, <1>3 DEF StoreInv, StoreTyped
<1>5. /\ \A d \in Clients : call'[d] = IF d = c THEN Nil ELSE call[d]
      /\ \A j : Logging(j)' <=> Logging(j)
  BY <1>1, OthersKept DEF StoreInv
<1>6. \A j \in Keys : j # k => row'[j] = row[j]
  BY <1>1 DEF StoreInv, StoreTyped
<1>7. ASSUME NEW d \in Clients, call'[d] # Nil PROVE CallSound(d)'
  <2>1. call'[d] = call[d] /\ CallSound(d) /\ call[d].key \in Keys
    BY <1>5, <1>7, CallTyped DEF StoreInv, CallsSound
  <2>2. CASE call[d].key = k
    <3>1. call[d].at \notin {"check", "write", "log", "unlock", "lock"}
      BY <1>2, <2>1, <2>2 DEF CallSound
    <3> QED BY <2>1, <3>1 DEF CallSound
  <2>3. CASE call[d].key # k
    BY <1>1, <1>6, <2>1, <2>3, CallKept
  <2> QED BY <2>2, <2>3
<1>8. ASSUME NEW j \in Keys, j \notin TxKeys, j \notin cut', ~Logging(j)' PROVE Told(j)'
  <2>1. j # k /\ j \notin cut /\ ~Logging(j)
    BY <1>1, <1>2, <1>5, <1>8
  <2>2. row'[j] = row[j] /\ Store!Val(j)' = Store!Val(j)
    BY <1>6, <2>1 DEF Store!Val
  <2> QED BY <1>1, <1>8, <2>1, <2>2, KeyQuiet DEF StoreInv
<1>9. LastMarked'
  BY <1>1, MarkedKept DEF StoreInv
<1> QED BY <1>4, <1>7, <1>8, <1>9 DEF StoreInv, CallsSound, KeysTold

\* The process dies between two steps.
LEMMA CrashStep ==
  ASSUME StoreInv, Store!Crash PROVE StoreInv'
<1>1. /\ cut' = cut \union {call[c].key : c \in {d \in Clients : Store!At(d, "log")}}
      /\ call' = [c \in Clients |-> Nil] /\ shard' = Nil /\ txn' = Nil
      /\ row' = row /\ pos' = pos /\ seen' = seen
  BY DEF Store!Crash
<1>2. ASSUME NEW c \in Clients, Store!At(c, "log") PROVE call[c].key \in Keys
  BY <1>2, CallTyped DEF StoreInv, Store!At
<1>3. \/ log' = log
      \/ \E line \in Store!Line : line.key \in cut' \union TxKeys /\ log' = Store!Put(line)
  <2> SUFFICES ASSUME NEW c \in Clients, Store!At(c, "log") \/ Store!At(c, "txlog"),
                      Store!LogCut(c), log' # log
               PROVE  \E line \in Store!Line :
                        line.key \in cut' \union TxKeys /\ log' = Store!Put(line)
    BY DEF Store!Crash
  <2>1. call[c] # Nil /\ call[c].at \in {"log", "txlog"}
    BY DEF Store!At
  <2>2. call[c].key \in cut' \union TxKeys
    <3>1. CASE call[c].at = "log"
      BY <1>1, <2>1, <3>1 DEF Store!At
    <3>2. CASE call[c].at = "txlog"
      BY <2>1, <3>2 DEF StoreInv, CallsSound, CallSound
    <3> QED BY <2>1, <3>1, <3>2
  <2> QED BY <2>1, <2>2, CutTyped DEF StoreInv
<1>4. StoreTyped'
  <2>1. cut' \in SUBSET Keys
    BY <1>1, <1>2 DEF StoreInv, StoreTyped
  <2>2. log' \in Store!Seq(Store!Line) /\ pos' \in 0..Store!Len(log')
    BY <1>1, <1>3, PutTyped DEF StoreInv, StoreTyped
  <2> QED BY <1>1, <2>1, <2>2 DEF StoreInv, StoreTyped
<1>5. ASSUME NEW j \in Keys, j \notin TxKeys, j \notin cut' PROVE Told(j)'
  <2>1. ~Logging(j) /\ j \notin cut
    BY <1>1, <1>5 DEF Logging
  <2>2. Store!Val(j)' = Store!Val(j)
    BY <1>1 DEF Store!Val
  <2>3. Told(j)
    BY <1>5, <2>1 DEF StoreInv, KeysTold
  <2>4. CASE log' = log
    BY <1>1, <2>2, <2>3, <2>4, ToldSame
  <2>5. ASSUME NEW line \in Store!Line, line.key \in cut' \union TxKeys, log' = Store!Put(line)
        PROVE  Told(j)'
    BY <1>1, <1>5, <2>1, <2>3, <2>5, ToldOther DEF StoreInv
  <2> QED BY <1>3, <2>4, <2>5
<1>6. LastMarked'
  <2>1. CASE log' = log
    BY <1>1, <2>1, MarkedKept DEF StoreInv
  <2>2. ASSUME NEW line \in Store!Line, line.key \in cut' \union TxKeys, log' = Store!Put(line)
        PROVE  LastMarked'
    BY <2>2, MarkedPut DEF StoreInv
  <2> QED BY <1>3, <2>1, <2>2
<1>7. CallsSound'
  BY <1>1 DEF CallsSound
<1>8. KeysTold'
  BY <1>5 DEF KeysTold
<1> QED BY <1>4, <1>6, <1>7, <1>8 DEF StoreInv

\* The watcher reads on in the log.
LEMMA WatchStep ==
  ASSUME StoreInv, Store!Watch PROVE StoreInv'
<1>1. /\ pos < Store!Len(log) /\ pos' = pos + 1 /\ row' = row /\ log' = log
      /\ shard' = shard /\ txn' = txn /\ call' = call /\ cut' = cut
      /\ Store!Len(log) \in Nat /\ pos \in Nat /\ log \in Store!Seq(Store!Line)
  BY DEF Store!Watch, StoreInv, StoreTyped
<1>2. \A j \in Keys : Store!Val(j) \in Values \union {Nil}
  BY DEF StoreInv, StoreTyped, Store!Val, Store!Row
<1>3. PICK line : line = log[pos + 1]
  OBVIOUS
<1>4. line \in Store!Line
  BY <1>1, <1>3
<1>5. line.key \in Keys
  BY <1>4 DEF Store!Line
<1>6. seen' = [seen EXCEPT ![line.key] =
       IF line.type = "delete" THEN Nil
       ELSE IF line.type = "torn" \/ row[line.key] = Nil THEN @
       ELSE Store!Val(line.key)]
  BY <1>3 DEF Store!Watch
<1>7. seen' \in [Keys -> Values \union {Nil}]
  BY <1>2, <1>5, <1>6 DEF StoreInv, StoreTyped
<1>8. StoreTyped'
  BY <1>1, <1>7 DEF StoreInv, StoreTyped
<1>9. CallsSound'
  BY <1>1 DEF StoreInv, CallsSound, CallSound, Store!Matches, Store!Val
<1>10. KeysTold'
  BY <1>1, ToldWatched DEF StoreInv, KeysTold, Logging, Store!At
<1>11. LastMarked'
  BY <1>1, MarkedKept DEF StoreInv
<1> QED BY <1>8, <1>9, <1>10, <1>11 DEF StoreInv

\* The invariant of the file backend holds initially.
LEMMA StoreInitially == Store!Init => StoreInv
<1> SUFFICES ASSUME Store!Init PROVE StoreInv
  OBVIOUS
<1>1. StoreTyped
  BY DEF Store!Init, StoreTyped
<1>2. CallsSound
  BY DEF Store!Init, CallsSound
<1>3. KeysTold
  BY DEF Store!Init, KeysTold, Told, LastUnread, Unread, Store!Val
<1>4. LastMarked
  BY DEF Store!Init, LastMarked, Store!Ragged
<1> QED BY <1>1, <1>2, <1>3, <1>4 DEF StoreInv

\* Every step of the file backend keeps its invariant.
LEMMA StorePreserved == StoreInv /\ [Store!Next]_rowVars => StoreInv'
<1> SUFFICES ASSUME StoreInv, [Store!Next]_rowVars PROVE StoreInv'
  OBVIOUS
<1>1. ASSUME NEW c \in Clients, Store!Client(c) PROVE StoreInv'
  BY <1>1, StartStep, TakeShardStep, CheckStep, WriteStep, WriteLogStep, WriteLogFailsStep,
     UnlockStep, GetStep, PurgeStep, BeginStep, TxLogStep, TxFailsStep, CommitStep
     DEF Store!Client
<1>2. CASE UNCHANGED rowVars
  <2>1. UNCHANGED <<row, log, shard, txn, call, pos, seen, cut>>
    BY <1>2 DEF rowVars
  <2>2. StoreTyped'
    BY <2>1 DEF StoreInv, StoreTyped
  <2>3. CallsSound'
    BY <2>1 DEF StoreInv, CallsSound, CallSound, Store!Matches, Store!Val
  <2>4. KeysTold'
    BY <2>1 DEF StoreInv, KeysTold, Logging, Store!At, Told, LastUnread, Unread, Store!Val
  <2>5. LastMarked'
    BY <2>1, MarkedKept DEF StoreInv
  <2> QED BY <2>2, <2>3, <2>4, <2>5 DEF StoreInv
<1> QED BY <1>1, <1>2, ExpireStep, CrashStep, WatchStep DEF Store!Next

\* The invariant of the file backend holds always.
LEMMA StoreStays == StoresSpec => []StoreInv
<1>1. StoresInit => StoreInv
  BY StoreInitially DEF StoresInit
<1>2. [StoresNext]_storesVars => [Store!Next]_rowVars
  BY DEF StoresNext, storesVars
<1> QED BY <1>1, <1>2, StorePreserved, PTL DEF StoresSpec

\* WatcherUpToDate (watch of file_backend.py): a watcher that has read the log was told
\* what the rows hold, but for a write in progress, transactions, expiries, and changes
\* whose line was cut off or joined to one, for any keys and callers.
THEOREM WatcherTold == StoresSpec => []WatcherUpToDate
<1>1. StoreInv => WatcherUpToDate
  <2> SUFFICES ASSUME StoreInv, pos = Store!Len(log), NEW k \in Keys \ (TxKeys \union cut),
                   ~Logging(k)
               PROVE  seen[k] = Store!Val(k)
    BY DEF WatcherUpToDate, Store!WatcherUpToDate, Logging
  <2>1. Told(k)
    BY DEF StoreInv, KeysTold
  <2>2. pos \in Nat
    BY DEF StoreInv, StoreTyped
  <2> QED BY <2>1, <2>2 DEF Told, Unread
<1> QED BY <1>1, StoreStays, PTL

\* FirstWriteExact (set of file_backend.py): a FIRST_WRITE writes only over the version
\* it names, for any keys and callers.
THEOREM VersionsExact == StoresSpec => FirstWriteExact
<1>1. StoreInv /\ [StoresNext]_storesVars =>
        [\A c \in Clients :
           Store!At(c, "write") /\ call[c].op = "set" /\ call'[c] # Nil /\ call'[c].at = "log"
             => Store!Matches(c)]_(Store!vars)
  BY DEF StoreInv, CallsSound, CallSound, Store!At
<1> QED BY <1>1, StoreStays, PTL DEF StoresSpec, FirstWriteExact, Store!FirstWriteExact

-----------------------------------------------------------------------------
(* The migration adapters.                                                 *)

\* Where a call of an adapter can stop.
Stops == {"idle", "set", "update", "primary", "secondary", "compensate", "done"}

\* What the variables of the adapters can be.
DualTyped ==
  /\ adapter \in {"session", "plan", "execution"}
  /\ view \in [Items -> Dual!States \union {Nil}]
  /\ legacy \in [Items -> Dual!States \union {Nil}] \union {Torn}
  /\ lock \in Callers \union {Nil}
  /\ at \in [Callers -> Stops]
  /\ want \in [Callers -> Dual!Want \union {Nil}]
  /\ steps \in [Callers -> Dual!Seq({"pending", "completed"})]
  /\ clock \in 0..MaxWrites
  /\ viewed \subseteq Dual!States /\ raised \subseteq Dual!States /\ parted \subseteq Items

\* Where a caller has a state to write.
Wishing == \A c \in Callers :
  at[c] \in {"set", "primary", "secondary", "compensate"} => want[c] # Nil

\* A caller in front of the legacy file has put its state into the view, where nobody
\* else puts another.
ViewFirst == \A c \in Callers :
  at[c] = "secondary" =>
    want[c].state \in viewed /\ view[want[c].item] \in {Nil, want[c].state}

\* A saga runs under the lock.
Holding == \A c \in Callers :
  at[c] \in {"primary", "secondary", "compensate", "done"} => lock = c

\* A caller is between its two writes of the item.
Between(i) == \E c \in Callers : at[c] = "secondary" /\ want[c].item = i

\* The legacy file holds only what was in the view.
FileViewed ==
  legacy # Torn => \A i \in Items : legacy[i] # Nil => legacy[i] \in viewed

\* An item of the view is in the legacy file, or on its way there, or counted as missing.
FileAgrees ==
  legacy # Torn =>
    \A i \in Items : i \notin parted /\ ~Between(i) /\ view[i] # Nil => legacy[i] = view[i]

\* The inductive invariant of the adapters.
DualInv == DualTyped /\ Wishing /\ ViewFirst /\ Holding /\ FileViewed /\ FileAgrees

\* What a caller wants to write.
LEMMA WishTyped ==
  ASSUME DualTyped, NEW c \in Callers, want[c] # Nil
  PROVE  want[c].item \in Items /\ want[c].state \in Dual!States
<1>1. want[c] \in Dual!Want
  BY DEF DualTyped
<1> QED BY <1>1 DEF Dual!Want

\* A step of one caller from one place to another, with the legacy file left alone, which
\* changes at most its own wish, keeps the invariant.
LEMMA MoveQuiet ==
  ASSUME DualInv, NEW c \in Callers, NEW from \in Stops \ {"secondary"},
         NEW to \in Stops \ {"secondary"}, Dual!Move(c, from, to),
         UNCHANGED <<adapter, legacy, viewed, parted>>,
         view' \in [Items -> Dual!States \union {Nil}],
         \A i \in Items : view'[i] \in {Nil, view[i]},
         lock' \in Callers \union {Nil},
         lock' = lock \/ lock = Nil \/ (lock = c /\ to = "idle"),
         to \in {"primary", "compensate", "done"} => lock' = c,
         steps' \in [Callers -> Dual!Seq({"pending", "completed"})],
         clock' \in 0..MaxWrites, raised' \subseteq Dual!States,
         \/ want' = want /\ (to \in {"set", "primary", "compensate"} => want[c] # Nil)
         \/ \E v \in Dual!Want : want' = [want EXCEPT ![c] = v] /\ v # Nil
         \/ want' = [want EXCEPT ![c] = Nil] /\ to \notin {"set", "primary", "compensate"}
  PROVE  DualInv'
<1>1. at' = [at EXCEPT ![c] = to] /\ at' \in [Callers -> Stops] /\ at[c] # "secondary"
  BY DEF Dual!Move, DualInv, DualTyped
<1>2. at'[c] = to /\ \A d \in Callers : d # c => at'[d] = at[d] /\ want'[d] = want[d]
  BY <1>1 DEF DualInv, DualTyped
<1>3. DualTyped'
  <2>1. want' \in [Callers -> Dual!Want \union {Nil}]
    BY DEF DualInv, DualTyped
  <2> QED BY <1>1, <2>1 DEF DualInv, DualTyped
<1>4. Wishing'
  <2>1. to \in {"set", "primary", "compensate"} => want'[c] # Nil
    BY DEF DualInv, DualTyped
  <2> QED BY <1>2, <2>1 DEF DualInv, Wishing
<1>5. ViewFirst'
  <2> SUFFICES ASSUME NEW d \in Callers, at'[d] = "secondary"
               PROVE  want'[d].state \in viewed /\ view'[want'[d].item] \in {Nil, want'[d].state}
    BY DEF ViewFirst
  <2>1. d # c /\ at[d] = "secondary" /\ want'[d] = want[d]
    BY <1>2
  <2>2. want[d].item \in Items
    BY <2>1, WishTyped DEF DualInv, Wishing
  <2> QED BY <2>1, <2>2 DEF DualInv, ViewFirst
<1>6. Holding'
  BY <1>2, KeysAssumption DEF DualInv, Holding
<1>7. FileViewed'
  BY DEF DualInv, FileViewed
<1>8. FileAgrees'
  <2>1. \A i \in Items : Between(i)' <=> Between(i)
    BY <1>1, <1>2 DEF Between
  <2> QED BY <2>1 DEF DualInv, FileAgrees
<1> QED BY <1>3, <1>4, <1>5, <1>6, <1>7, <1>8 DEF DualInv

\* A wish is made.
LEMMA NewWish ==
  ASSUME DualInv, NEW c \in Callers, NEW items \in SUBSET Items, Dual!NewState(c, items)
  PROVE  /\ clock' \in 0..MaxWrites
         /\ \E v \in Dual!Want : want' = [want EXCEPT ![c] = v] /\ v # Nil
<1>1. PICK i \in items : want' = [want EXCEPT ![c] = [item |-> i, state |-> clock + 1]]
  BY DEF Dual!NewState
<1>2. clock' = clock + 1 /\ clock < MaxWrites /\ clock \in 0..MaxWrites /\ MaxWrites \in Nat
  BY LengthAssumption DEF Dual!NewState, DualInv, DualTyped
<1>3. clock + 1 \in Dual!States
  BY <1>2 DEF Dual!States
<1>4. [item |-> i, state |-> clock + 1] \in Dual!Want
  BY <1>3 DEF Dual!Want
<1>5. Nil \notin Dual!Want
  BY KeysAssumption
<1>6. [item |-> i, state |-> clock + 1] # Nil
  BY <1>4, <1>5
<1>7. clock' \in 0..MaxWrites
  BY <1>2
<1> HIDE DEF Dual!Want
<1> QED BY <1>1, <1>4, <1>6, <1>7

\* Nothing is written at the start.
LEMMA DualInitially == Dual!Init => DualInv
<1> SUFFICES ASSUME Dual!Init PROVE DualInv
  OBVIOUS
<1>1. DualTyped
  <2>1. 0 \in 0..MaxWrites
    BY LengthAssumption
  <2> QED BY <2>1 DEF Dual!Init, DualTyped, Dual!Empty, Stops
<1>2. Wishing /\ ViewFirst /\ Holding
  BY DEF Dual!Init, Wishing, ViewFirst, Holding
<1>3. FileViewed /\ FileAgrees
  BY DEF Dual!Init, FileViewed, FileAgrees, Dual!Empty
<1> QED BY <1>1, <1>2, <1>3 DEF DualInv

\* What the write of the legacy file starts from.
LEMMA BaseTyped ==
  ASSUME DualInv, NEW c \in Callers, at[c] = "secondary", NEW base \in Dual!Bases
  PROVE  /\ want[c].item \in Items /\ want[c].state \in Dual!States
         /\ want[c].state \in viewed
         /\ base \in [Items -> Dual!States \union {Nil}]
         /\ base # Torn
         /\ \A i \in Items : base[i] # Nil => base[i] \in viewed
<1>1. want[c].item \in Items /\ want[c].state \in Dual!States /\ want[c].state \in viewed
  BY WishTyped DEF DualInv, Wishing, ViewFirst
<1>2. /\ base \in [Items -> Dual!States \union {Nil}]
      /\ \A i \in Items : base[i] # Nil => base[i] \in viewed
  <2>1. CASE base = Dual!Empty
    BY <2>1 DEF Dual!Empty
  <2>2. CASE base = legacy /\ legacy # Torn
    BY <2>2 DEF DualInv, DualTyped, FileViewed
  <2> QED BY <2>1, <2>2 DEF Dual!Bases
<1>3. base # Torn
  BY <1>2, KeysAssumption
<1> QED BY <1>1, <1>2, <1>3

\* What it makes of it.
LEMMA FileWritten ==
  ASSUME DualInv, NEW c \in Callers, at[c] = "secondary", NEW base \in Dual!Bases,
         NEW to \in Stops, at' = [at EXCEPT ![c] = to],
         legacy' = [base EXCEPT ![want[c].item] = want[c].state],
         \/ parted' = (parted \ {want[c].item}) \union Dual!Dropped(c, base)
         \/ parted' = parted \union {want[c].item} \union Dual!Dropped(c, base),
         UNCHANGED <<adapter, view, lock, want, steps, clock, viewed, raised>>
  PROVE  /\ DualTyped' /\ FileViewed'
         /\ legacy'[want[c].item] = want[c].state
         /\ \A i \in Items : i # want[c].item => legacy'[i] = base[i]
<1>1. /\ want[c].item \in Items /\ want[c].state \in Dual!States /\ want[c].state \in viewed
      /\ base \in [Items -> Dual!States \union {Nil}]
      /\ \A i \in Items : base[i] # Nil => base[i] \in viewed
  BY BaseTyped
<1>2. at' \in [Callers -> Stops] /\ legacy' \in [Items -> Dual!States \union {Nil}]
  BY <1>1 DEF DualInv, DualTyped
<1>3. parted' \subseteq Items
  BY <1>1 DEF DualInv, DualTyped, Dual!Dropped
<1>4. DualTyped'
  BY <1>2, <1>3 DEF DualInv, DualTyped
<1>5. /\ legacy'[want[c].item] = want[c].state
      /\ \A i \in Items : i # want[c].item => legacy'[i] = base[i]
  BY <1>1
<1>6. FileViewed'
  BY <1>1, <1>5 DEF FileViewed
<1> QED BY <1>4, <1>5, <1>6

\* Every step keeps the invariant.
LEMMA DualPreserved == DualInv /\ [Dual!Next]_dualVars => DualInv'
<1> SUFFICES ASSUME DualInv, [Dual!Next]_dualVars PROVE DualInv'
  OBVIOUS
<1>a. /\ view \in [Items -> Dual!States \union {Nil}] /\ lock \in Callers \union {Nil}
      /\ steps \in [Callers -> Dual!Seq({"pending", "completed"})]
      /\ clock \in 0..MaxWrites /\ raised \subseteq Dual!States
      /\ at \in [Callers -> Stops] /\ want \in [Callers -> Dual!Want \union {Nil}]
      /\ viewed \subseteq Dual!States /\ parted \subseteq Items
  BY DEF DualInv, DualTyped
<1>b. {Record} \in SUBSET Items /\ Items \in SUBSET Items
  BY KeysAssumption
<1>1. ASSUME NEW c \in Callers, Dual!SetSession(c) \/ Dual!SetPlan(c) \/ Dual!SetTask(c)
      PROVE DualInv'
  <2>1. /\ Dual!Move(c, "idle", "set")
        /\ UNCHANGED <<adapter, view, legacy, lock, steps, viewed, raised, parted>>
        /\ Dual!NewState(c, {Record}) \/ Dual!NewState(c, Items)
    BY <1>1 DEF Dual!SetSession, Dual!SetPlan, Dual!SetTask, Dual!Call
  <2>2. /\ clock' \in 0..MaxWrites
        /\ \E v \in Dual!Want : want' = [want EXCEPT ![c] = v] /\ v # Nil
    BY <1>b, <2>1, NewWish
  <2> QED BY <1>a, <2>1, <2>2, MoveQuiet DEF Stops
<1>2. ASSUME NEW c \in Callers, Dual!CallUpdate(c) PROVE DualInv'
  BY <1>a, <1>2, MoveQuiet DEF Dual!CallUpdate, Dual!Call, Stops
<1>3. ASSUME NEW c \in Callers, Dual!UpdateSession(c) PROVE DualInv'
  <2>1. CASE Dual!Locked(c, "update", "done") /\ UNCHANGED <<want, clock, steps>>
    BY <1>a, <2>1, MoveQuiet DEF Dual!Locked, Stops
  <2>2. CASE Dual!Locked(c, "update", "set") /\ Dual!NewState(c, {Record}) /\ UNCHANGED steps
    <3>1. /\ clock' \in 0..MaxWrites
          /\ \E v \in Dual!Want : want' = [want EXCEPT ![c] = v] /\ v # Nil
      BY <1>b, <2>2, NewWish
    <3> QED BY <1>a, <2>2, <3>1, MoveQuiet DEF Dual!Locked, Stops
  <2> QED BY <1>3, <2>1, <2>2 DEF Dual!UpdateSession
<1>4. ASSUME NEW c \in Callers, Dual!UpdatePlan(c) PROVE DualInv'
  <2>1. Dual!Locked(c, "update", "set") /\ Dual!NewState(c, {Record}) /\ UNCHANGED steps
    BY <1>4 DEF Dual!UpdatePlan
  <2>2. /\ clock' \in 0..MaxWrites
        /\ \E v \in Dual!Want : want' = [want EXCEPT ![c] = v] /\ v # Nil
    BY <1>b, <2>1, NewWish
  <2> QED BY <1>a, <2>1, <2>2, MoveQuiet DEF Dual!Locked, Stops
<1>5. ASSUME NEW c \in Callers, Dual!SetLocked(c) PROVE DualInv'
  <2>1. /\ Dual!Move(c, "set", "primary") /\ lock = Nil /\ lock' = c
             /\ steps' = [steps EXCEPT ![c] = <<"pending">>]
        /\ UNCHANGED <<adapter, view, legacy, viewed, raised, parted, want, clock>>
    BY <1>5 DEF Dual!SetLocked, Dual!Locked
  <2>2. steps' \in [Callers -> Dual!Seq({"pending", "completed"})]
    BY <1>a, <2>1
  <2>3. want[c] # Nil
    BY <2>1 DEF Dual!Move, DualInv, Wishing
  <2> QED BY <1>a, <2>1, <2>2, <2>3, MoveQuiet DEF Stops
<1>6. ASSUME NEW c \in Callers, Dual!PrimaryWrite(c) PROVE DualInv'
  <2>1. /\ at[c] = "primary" /\ at' = [at EXCEPT ![c] = "secondary"]
        /\ view' = [view EXCEPT ![want[c].item] = want[c].state]
        /\ viewed' = viewed \union {want[c].state}
        /\ steps' = [steps EXCEPT ![c] = Dual!Append(@, "pending")]
        /\ UNCHANGED <<adapter, legacy, lock, want, clock, raised, parted>>
    BY <1>6 DEF Dual!PrimaryWrite, Dual!Move
  <2>2. want[c] # Nil /\ want[c].item \in Items /\ want[c].state \in Dual!States
    BY <2>1, WishTyped DEF DualInv, Wishing
  <2>3. DualTyped'
    <3>1. at' \in [Callers -> Stops]
      BY <1>a, <2>1 DEF Stops
    <3>2. steps' \in [Callers -> Dual!Seq({"pending", "completed"})]
      BY <1>a, <2>1
    <3> QED BY <2>1, <2>2, <3>1, <3>2 DEF DualInv, DualTyped
  <2>4. \A d \in Callers : at'[d] = IF d = c THEN "secondary" ELSE at[d]
    BY <1>a, <2>1
  <2>5. \A d \in Callers : at'[d] = "secondary" => d = c
    BY <2>1, <2>4 DEF DualInv, Holding
  <2>6. \A i \in Items : view'[i] = IF i = want[c].item THEN want[c].state ELSE view[i]
    BY <1>a, <2>1
  <2>7. Wishing' /\ Holding'
    BY <2>1, <2>2, <2>4 DEF DualInv, Wishing, Holding
  <2>8. ViewFirst'
    BY <2>1, <2>2, <2>5, <2>6 DEF ViewFirst
  <2>9. FileViewed'
    BY <2>1 DEF DualInv, FileViewed
  <2>10. FileAgrees'
    <3> SUFFICES ASSUME legacy # Torn, NEW i \in Items, i \notin parted, ~Between(i)',
                        view'[i] # Nil
                 PROVE  legacy[i] = view'[i]
      BY <2>1 DEF FileAgrees
    <3>1. i # want[c].item
      BY <2>1, <2>4 DEF Between
    <3>2. ~Between(i)
      BY <2>1, <2>4 DEF Between
    <3> QED BY <2>6, <3>1, <3>2 DEF DualInv, FileAgrees
  <2> QED BY <2>3, <2>7, <2>8, <2>9, <2>10 DEF DualInv
<1>7. ASSUME NEW c \in Callers, Dual!PrimaryRefused(c) PROVE DualInv'
  <2>1. want[c] # Nil /\ lock = c
    BY <1>7 DEF Dual!PrimaryRefused, Dual!Move, DualInv, Wishing, Holding
  <2> QED BY <1>a, <1>7, <2>1, MoveQuiet DEF Dual!PrimaryRefused, Stops
<1>8. ASSUME NEW c \in Callers, Dual!SecondaryWrite(c) PROVE DualInv'
  <2>1. PICK base \in Dual!Bases :
        /\ legacy' = [base EXCEPT ![want[c].item] = want[c].state]
        /\ parted' = (parted \ {want[c].item}) \union Dual!Dropped(c, base)
    BY <1>8 DEF Dual!SecondaryWrite
  <2>2. /\ at[c] = "secondary" /\ at' = [at EXCEPT ![c] = "done"]
        /\ UNCHANGED <<adapter, view, lock, want, steps, clock, viewed, raised>>
    BY <1>8 DEF Dual!SecondaryWrite, Dual!Move
  <2>3. /\ DualTyped' /\ FileViewed'
        /\ legacy'[want[c].item] = want[c].state
        /\ \A i \in Items : i # want[c].item => legacy'[i] = base[i]
    BY <2>1, <2>2, FileWritten DEF Stops
  <2>7. base # Torn
    BY <2>2, BaseTyped
  <2>4. \A d \in Callers : at'[d] = IF d = c THEN "done" ELSE at[d]
    BY <1>a, <2>2
  <2>5. Wishing' /\ ViewFirst' /\ Holding'
    BY <2>2, <2>4 DEF DualInv, Wishing, ViewFirst, Holding
  <2>6. FileAgrees'
    <3> SUFFICES ASSUME NEW i \in Items, i \notin parted', view[i] # Nil, ~Between(i)'
                 PROVE  legacy'[i] = view[i]
      BY <2>2 DEF FileAgrees
    <3>1. CASE i = want[c].item
      BY <2>2, <2>3, <3>1 DEF DualInv, ViewFirst
    <3>2. CASE i # want[c].item
      <4>1. base = legacy /\ legacy # Torn /\ i \notin parted
        BY <2>1, <2>7, <3>2 DEF Dual!Dropped
      <4>2. ~Between(i)
        BY <2>2, <2>4, <3>2 DEF Between
      <4>3. legacy'[i] = legacy[i]
        BY <2>3, <3>2, <4>1
      <4> QED BY <4>1, <4>2, <4>3 DEF DualInv, FileAgrees
    <3> QED BY <3>1, <3>2
  <2> QED BY <2>3, <2>5, <2>6 DEF DualInv
<1>9. ASSUME NEW c \in Callers, Dual!SecondaryFails(c) PROVE DualInv'
  <2>1. PICK base \in Dual!Bases :
        /\ legacy' \in {legacy, Torn, [base EXCEPT ![want[c].item] = want[c].state]}
        /\ parted' = parted \union {want[c].item} \union Dual!Dropped(c, base)
    BY <1>9 DEF Dual!SecondaryFails
  <2>2. /\ at[c] = "secondary" /\ at' = [at EXCEPT ![c] = "compensate"]
        /\ UNCHANGED <<adapter, view, lock, want, steps, clock, viewed, raised>>
    BY <1>9 DEF Dual!SecondaryFails, Dual!Move
  <2>3. DualTyped' /\ FileViewed'
    <3>1. CASE legacy' \in {legacy, Torn}
      <4>1. at' \in [Callers -> Stops]
        BY <1>a, <2>2 DEF Stops
      <4>2. parted' \subseteq Items
        BY <1>a, <2>1, <2>2, WishTyped DEF Dual!Dropped, DualInv, Wishing
      <4> QED BY <2>2, <3>1, <4>1, <4>2 DEF DualInv, DualTyped, FileViewed
    <3>2. CASE legacy' = [base EXCEPT ![want[c].item] = want[c].state]
      BY <2>1, <2>2, <3>2, FileWritten DEF Stops
    <3> QED BY <2>1, <3>1, <3>2
  <2>4. \A d \in Callers : at'[d] = IF d = c THEN "compensate" ELSE at[d]
    BY <1>a, <2>2
  <2>5. Wishing' /\ ViewFirst' /\ Holding'
    BY <2>2, <2>4 DEF DualInv, Wishing, ViewFirst, Holding
  <2>6. FileAgrees'
    <3> SUFFICES ASSUME legacy' # Torn, NEW i \in Items, i \notin parted', view[i] # Nil,
                        ~Between(i)'
                 PROVE  legacy'[i] = view[i]
      BY <2>2 DEF FileAgrees
    <3>1. i # want[c].item /\ i \notin parted /\ base = legacy
      BY <2>1 DEF Dual!Dropped
    <3>2. ~Between(i)
      BY <2>2, <2>4, <3>1 DEF Between
    <3>3. legacy # Torn /\ legacy'[i] = legacy[i]
      <4>1. CASE legacy' \in {legacy, Torn}
        BY <4>1
      <4>2. CASE legacy' = [base EXCEPT ![want[c].item] = want[c].state]
        BY <2>1, <2>2, <3>1, <4>2, BaseTyped, FileWritten DEF Stops
      <4> QED BY <2>1, <4>1, <4>2
    <3> QED BY <3>1, <3>2, <3>3 DEF DualInv, FileAgrees
  <2> QED BY <2>3, <2>5, <2>6 DEF DualInv
<1>10. ASSUME NEW c \in Callers, Dual!Compensate(c) PROVE DualInv'
  <2>1. /\ Dual!Move(c, "compensate", "done")
        /\ view' \in {view, [view EXCEPT ![want[c].item] = Nil]}
        /\ raised' = raised \union {want[c].state}
        /\ UNCHANGED <<adapter, legacy, lock, want, steps, clock, viewed, parted>>
    BY <1>10 DEF Dual!Compensate
  <2>2. want[c] # Nil /\ want[c].item \in Items /\ want[c].state \in Dual!States
    BY <2>1, WishTyped DEF Dual!Move, DualInv, Wishing
  <2>3. view' \in [Items -> Dual!States \union {Nil}] /\ raised' \subseteq Dual!States
    BY <1>a, <2>1, <2>2
  <2>4. lock = c /\ \A i \in Items : view'[i] \in {Nil, view[i]}
    BY <1>a, <2>1, <2>2 DEF Dual!Move, DualInv, Holding
  <2> QED BY <1>a, <2>1, <2>3, <2>4, MoveQuiet DEF Stops
<1>11. ASSUME NEW c \in Callers, Dual!Leave(c) PROVE DualInv'
  <2>1. /\ Dual!Move(c, "done", "idle") /\ lock' = Nil /\ want' = [want EXCEPT ![c] = Nil]
        /\ steps' = [steps EXCEPT ![c] = <<>>]
        /\ UNCHANGED <<adapter, view, legacy, clock, viewed, raised, parted>>
    BY <1>11 DEF Dual!Leave
  <2>2. steps' \in [Callers -> Dual!Seq({"pending", "completed"})]
    BY <1>a, <2>1
  <2>3. lock = c
    BY <2>1 DEF Dual!Move, DualInv, Holding
  <2> QED BY <1>a, <2>1, <2>2, <2>3, MoveQuiet DEF Stops
<1>12. ASSUME NEW i \in Items, Dual!Expire(i) PROVE DualInv'
  <2>1. /\ view' = [view EXCEPT ![i] = Nil]
        /\ UNCHANGED <<adapter, legacy, lock, at, want, steps, clock, viewed, raised, parted>>
    BY <1>12 DEF Dual!Expire
  <2>2. DualTyped'
    BY <2>1 DEF DualInv, DualTyped
  <2>3. \A j \in Items : view'[j] \in {Nil, view[j]} /\ (Between(j)' <=> Between(j))
    BY <1>a, <2>1 DEF Between
  <2>4. ViewFirst'
    BY <2>1, <2>3, WishTyped DEF DualInv, ViewFirst, Wishing
  <2>5. Wishing' /\ Holding' /\ FileViewed' /\ FileAgrees'
    BY <2>1, <2>3 DEF DualInv, Wishing, Holding, FileViewed, FileAgrees
  <2> QED BY <2>2, <2>4, <2>5 DEF DualInv
<1>13. CASE Dual!Crash
  <2>1. /\ at' = [c \in Callers |-> "idle"] /\ legacy' \in {legacy, Torn} /\ lock' = Nil
        /\ want' = [c \in Callers |-> Nil] /\ steps' = [c \in Callers |-> <<>>]
        /\ parted' = parted \union {want[c].item : c \in {d \in Callers : at[d] = "secondary"}}
        /\ UNCHANGED <<adapter, view, clock, viewed, raised>>
    BY <1>13 DEF Dual!Crash
  <2>2. DualTyped'
    <3>1. parted' \subseteq Items
      BY <1>a, <2>1, WishTyped DEF DualInv, Wishing
    <3> QED BY <2>1, <3>1 DEF DualInv, DualTyped, Stops
  <2>3. Wishing' /\ ViewFirst' /\ Holding'
    BY <2>1 DEF Wishing, ViewFirst, Holding
  <2>4. FileViewed'
    BY <2>1 DEF DualInv, FileViewed
  <2>5. FileAgrees'
    <3>1. \A i \in Items : i \notin parted' => i \notin parted /\ ~Between(i)
      BY <2>1 DEF Between
    <3> QED BY <2>1, <3>1 DEF DualInv, FileAgrees
  <2> QED BY <2>2, <2>3, <2>4, <2>5 DEF DualInv
<1>14. CASE UNCHANGED dualVars
  <2>1. UNCHANGED <<adapter, view, legacy, lock, at, want, steps, clock, viewed, raised, parted>>
    BY <1>14 DEF dualVars
  <2> QED BY <2>1 DEF DualInv, DualTyped, Wishing, ViewFirst, Holding, FileViewed, FileAgrees,
          Between
<1> QED
  BY <1>1, <1>2, <1>3, <1>4, <1>5, <1>6, <1>7, <1>8, <1>9, <1>10, <1>11, <1>12, <1>13,
     <1>14 DEF Dual!Next, Dual!Progress

\* The invariant of the migration adapters holds always.
LEMMA DualStays == StoresSpec => []DualInv
<1>1. StoresInit => DualInv
  BY DualInitially DEF StoresInit
<1>2. [StoresNext]_storesVars => [Dual!Next]_dualVars
  BY DEF StoresNext, storesVars
<1> QED BY <1>1, <1>2, DualPreserved, PTL DEF StoresSpec

\* The legacy file never knows a state that the view did not have, and when nobody holds
\* the lock it has the items of the view, but for those whose write of it raised, was cut
\* off or dropped them: for any number of callers, items and states.
THEOREM NeverAhead == StoresSpec => []LegacyFollowsView
<1>1. DualInv => LegacyFollowsView
  <2> SUFFICES ASSUME DualInv, legacy # Torn
               PROVE  /\ \A i \in Items : legacy[i] # Nil => legacy[i] \in viewed
                      /\ lock = Nil =>
                           \A i \in Items \ parted : view[i] # Nil => legacy[i] = view[i]
    BY DEF LegacyFollowsView, Dual!LegacyFollowsView
  <2>1. lock = Nil => \A i \in Items : ~Between(i)
    BY KeysAssumption DEF DualInv, Holding, Between
  <2> QED BY <2>1 DEF DualInv, FileViewed, FileAgrees
<1> QED BY <1>1, DualStays, PTL

-----------------------------------------------------------------------------
(* The types of all parts.                                                 *)

\* There is one part that runs.
PartOK == part \in {"events", "store", "dual"}

\* Whatever part runs, its variables have their types.
THEOREM StoresTyped == StoresSpec => []AllTypesOK
<1>1. StoresSpec => []EventInv
  BY EventInitially, EventPreserved, EventSpec, PTL DEF StoresSpec
<1>2. StoresSpec => []PartOK
  <2>1. StoresInit => PartOK
    BY DEF StoresInit, PartOK
  <2>2. PartOK /\ [StoresNext]_storesVars => PartOK'
    BY DEF StoresNext, storesVars, PartOK
  <2> QED BY <2>1, <2>2, PTL DEF StoresSpec
<1>3. EventInv /\ StoreInv /\ DualInv /\ PartOK => AllTypesOK
  <2> SUFFICES ASSUME EventInv, StoreInv, DualInv, PartOK
               PROVE  AllTypesOK
    OBVIOUS
  <2>1. TypeOK
    BY EventTypes
  <2>2. Store!TypeOK
    BY DEF StoreInv, StoreTyped, Store!TypeOK
  <2>3. Dual!TypeOK
    <3>1. DualTyped
      BY DEF DualInv
    <3>2. \A c \in Callers : steps[c] \in Dual!Seq({"pending", "completed"})
      BY <3>1 DEF DualTyped
    <3> QED BY <3>1, <3>2 DEF DualTyped, Dual!TypeOK, Stops
  <2> QED BY <2>1, <2>2, <2>3 DEF AllTypesOK, PartOK
<1> QED BY <1>1, <1>2, <1>3, StoreStays, DualStays, PTL
=============================================================================
