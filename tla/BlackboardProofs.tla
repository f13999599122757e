-------------------------- MODULE BlackboardProofs --------------------------
(***************************************************************************)
(* Proof that the blackboard loses no accepted write but by the rule of    *)
(* its region (NoLostWrite), for any writers, keys, contents and number of *)
(* writes.                                                                 *)
(***************************************************************************)
EXTENDS Blackboard, TLAPS

\* The contents are what JSON has, and the three names are none of what they
\* are told from.
BoardAssumption ==
  /\ Contents \subseteq Values
  /\ Nil \notin Writers
  /\ Torn \notin Boards

\* The writes under way.
Posts == [step : {"lock", "log", "save"}, key : BoardKeys, value : Contents, blind : BOOLEAN]

-----------------------------------------------------------------------------
(* The inductive invariant.                                                *)

Shape ==
  /\ rule \in Rules
  /\ region \in Boards \union {Torn}
  /\ region = Torn => accepted = {}
  /\ keeper \in Writers \union {Nil}
  /\ post \in [Writers -> Posts \union {Nil}]
  /\ board \in [Writers -> Boards]
  /\ accepted \subseteq [agent : Writers, key : BoardKeys, value : Contents]
  /\ forms \in [BoardKeys -> SUBSET {"scalar", "list", "dict"}]

\* What w took the region for.
Seen(w) == IF post[w].blind THEN Empty ELSE Loaded

\* Who has loaded the region holds its lock, and the region is still what was
\* loaded, but for the key that is written.
Under(w) ==
  /\ Step(w, "log") \/ Step(w, "save") => keeper = w
  /\ Step(w, "log") => board[w] = Seen(w)
  /\ Step(w, "save") =>
       LET p == post[w]
           new == Resolve(w, Seen(w)[p.key], p.value)
       IN  new # Nil /\ board[w] = [Seen(w) EXCEPT ![p.key] = new]

\* The forms of the writes of a key are known.
FormsKnown ==
  /\ \A w \in Writers : post[w] # Nil => post[w].value.form \in forms[post[w].key]
  /\ region # Torn =>
       \A k \in BoardKeys : region[k] # Nil => region[k].value.form \in forms[k]

\* What the rule of the region owes to write a in the entry e of its key, when
\* the writes of that key have the forms F.
Kept(a, e, F) ==
  /\ e # Nil
  /\ rule = "append_only" => e.value = a.value
  /\ rule = "single_writer" => e.owner = a.agent
  /\ rule = "versioned" => \E n \in DOMAIN e.versions : e.versions[n] = a.value
  /\ rule = "crdt_union" /\ F = {"list"} => a.value.items \subseteq e.value.items

AllKept == \A a \in accepted : Kept(a, region[a.key], forms[a.key])

BoardInv == Shape /\ (\A w \in Writers : Under(w)) /\ FormsKnown /\ AllKept

-----------------------------------------------------------------------------
(* The rules.                                                              *)

\* A rule makes an entry of what is written, or refuses.
LEMMA ResolveTyped ==
  ASSUME BoardAssumption, rule \in Rules, NEW w \in Writers,
         NEW old \in Entry \union {Nil}, NEW v \in Contents
  PROVE  Resolve(w, old, v) \in Entry \union {Nil}
<1>1. v \in Values
  BY DEF BoardAssumption
<1>2. ASSUME NEW u \in Values PROVE Plain(u) \in Entry
  BY DEF Plain, Entry
<1>3. AppendOnly(old, v) \in Entry \union {Nil}
  BY <1>1, <1>2 DEF AppendOnly
<1>4. SingleWriter(w, old, v) \in Entry \union {Nil}
  BY <1>1, <1>2 DEF SingleWriter, Entry
<1>5. CrdtUnion(old, v) \in Entry \union {Nil}
  <2>1. CASE old = Nil \/ old.value.form # v.form \/ v.form = "scalar"
    BY <1>1, <1>2, <2>1 DEF CrdtUnion
  <2>2. CASE ~(old = Nil \/ old.value.form # v.form \/ v.form = "scalar")
    <3>1. old.value \in Values
      BY <2>2 DEF Entry
    <3>2. [v EXCEPT !.items = @ \union old.value.items] \in Values
      BY <1>1, <3>1 DEF Values
    <3>3. [v EXCEPT !.items = @ \union {o \in old.value.items : \A n \in v.items : n[1] # o[1]}] \in Values
      BY <1>1, <3>1 DEF Values
    <3> QED
      BY <1>2, <2>2, <3>2, <3>3 DEF CrdtUnion
  <2> QED BY <2>1, <2>2
<1>6. Versioned(old, v) \in Entry \union {Nil}
  <2>1. Plain(v) \in Entry
    BY <1>1, <1>2
  <2>2. <<v>> \in Seq(Contents)
    OBVIOUS
  <2>3. old # Nil => Append(old.versions, v) \in Seq(Contents)
    BY DEF Entry
  <2> QED
    BY <2>1, <2>2, <2>3 DEF Versioned, Entry
<1> QED
  BY <1>1, <1>2, <1>3, <1>4, <1>5, <1>6 DEF Resolve, Rules

\* The write that makes an entry is in it.
LEMMA WriteKept ==
  ASSUME BoardAssumption, rule \in Rules, NEW w \in Writers,
         NEW old \in Entry \union {Nil}, NEW v \in Contents, NEW k,
         Resolve(w, old, v) # Nil, NEW F, v.form \in F
  PROVE  Kept([agent |-> w, key |-> k, value |-> v], Resolve(w, old, v), F)
<1> DEFINE new == Resolve(w, old, v)
           a == [agent |-> w, key |-> k, value |-> v]
<1>1. v \in Values
  BY DEF BoardAssumption
<1>2. a.agent = w /\ a.value = v
  OBVIOUS
<1>3. CASE rule = "append_only"
  BY <1>2, <1>3 DEF Kept, Resolve, AppendOnly, Plain
<1>4. CASE rule = "single_writer"
  BY <1>2, <1>4 DEF Kept, Resolve, SingleWriter, Plain
<1>5. CASE rule = "versioned"
  <2>1. new.versions = IF old = Nil THEN <<v>> ELSE Append(old.versions, v)
    BY <1>5 DEF Resolve, Versioned, Plain
  <2>2. \E n \in DOMAIN new.versions : new.versions[n] = v
    <3>1. CASE old = Nil
      BY <2>1, <3>1
    <3>2. CASE old # Nil
      <4>1. old.versions \in Seq(Contents)
        BY <3>2 DEF Entry
      <4>2. Len(old.versions) + 1 \in DOMAIN new.versions
        BY <2>1, <3>2, <4>1
      <4>3. new.versions[Len(old.versions) + 1] = v
        BY <2>1, <3>2, <4>1
      <4> QED BY <4>2, <4>3
    <3> QED BY <3>1, <3>2
  <2> QED
    BY <1>2, <1>5, <2>2 DEF Kept
<1>6. CASE rule = "crdt_union"
  <2>1. ASSUME F = {"list"} PROVE v.items \subseteq new.value.items
    <3>1. v.form = "list"
      BY <2>1
    <3>2. new = Plain(v) \/ new = Plain([v EXCEPT !.items = @ \union old.value.items])
      BY <1>6, <3>1 DEF Resolve, CrdtUnion
    <3> QED
      BY <1>1, <3>2 DEF Plain, Values
  <2> QED
    BY <1>2, <1>6, <2>1 DEF Kept
<1>7. CASE rule = "last_write_wins"
  BY <1>7 DEF Kept
<1> QED
  BY <1>3, <1>4, <1>5, <1>6, <1>7 DEF Rules

\* What an entry owes to an earlier write, the next entry still does.
LEMMA EarlierKept ==
  ASSUME BoardAssumption, rule \in Rules, NEW w \in Writers,
         NEW old \in Entry \union {Nil}, NEW v \in Contents,
         Resolve(w, old, v) # Nil,
         NEW F, v.form \in F, old # Nil => old.value.form \in F,
         NEW a, Kept(a, old, F)
  PROVE  Kept(a, Resolve(w, old, v), F)
<1> DEFINE new == Resolve(w, old, v)
<1>1. v \in Values /\ old # Nil /\ old \in Entry
  BY DEF BoardAssumption, Kept
<1>2. CASE rule = "append_only"
  BY <1>1, <1>2 DEF Resolve, AppendOnly
<1>3. CASE rule = "single_writer"
  BY <1>1, <1>3 DEF Kept, Resolve, SingleWriter, Plain
<1>4. CASE rule = "versioned"
  <2>1. new.versions = Append(old.versions, v) /\ old.versions \in Seq(Contents)
    BY <1>1, <1>4 DEF Resolve, Versioned, Plain, Entry
  <2>2. PICK n \in DOMAIN old.versions : old.versions[n] = a.value
    BY <1>4 DEF Kept
  <2>3. n \in DOMAIN new.versions /\ new.versions[n] = a.value
    BY <2>1, <2>2
  <2> QED
    BY <1>4, <2>3 DEF Kept
<1>5. CASE rule = "crdt_union"
  <2>1. ASSUME F = {"list"} PROVE a.value.items \subseteq new.value.items
    <3>1. v.form = "list" /\ old.value.form = "list"
      BY <1>1, <2>1
    <3>2. new = Plain([v EXCEPT !.items = @ \union old.value.items])
      BY <1>1, <1>5, <3>1 DEF Resolve, CrdtUnion
    <3> QED
      BY <1>1, <1>5, <2>1, <3>2 DEF Kept, Plain, Values
  <2> QED
    BY <1>5, <2>1 DEF Kept
<1>6. CASE rule = "last_write_wins"
  BY <1>6 DEF Kept
<1> QED
  BY <1>2, <1>3, <1>4, <1>5, <1>6 DEF Rules

\* The entry has the form of what was written.
LEMMA ResolveForm ==
  ASSUME BoardAssumption, rule \in Rules, NEW w \in Writers,
         NEW old \in Entry \union {Nil}, NEW v \in Contents,
         Resolve(w, old, v) # Nil
  PROVE  Resolve(w, old, v).value.form = v.form
<1>1. v \in Values
  BY DEF BoardAssumption
<1>2. ASSUME NEW u PROVE Plain(u).value = u
  BY DEF Plain
<1>3. CASE rule = "crdt_union"
  <2>1. \/ CrdtUnion(old, v) = Plain(v)
        \/ CrdtUnion(old, v) = Plain([v EXCEPT !.items = @ \union old.value.items])
        \/ CrdtUnion(old, v) = Plain([v EXCEPT !.items =
              @ \union {o \in old.value.items : \A n \in v.items : n[1] # o[1]}])
    BY DEF CrdtUnion
  <2>2. /\ [v EXCEPT !.items = @ \union old.value.items].form = v.form
        /\ [v EXCEPT !.items =
              @ \union {o \in old.value.items : \A n \in v.items : n[1] # o[1]}].form = v.form
    BY <1>1 DEF Values
  <2> QED
    BY <1>2, <1>3, <2>1, <2>2 DEF Resolve
<1>4. CASE rule # "crdt_union"
  BY <1>4 DEF Resolve, AppendOnly, SingleWriter, Versioned, Plain, Rules
<1> QED BY <1>3, <1>4

-----------------------------------------------------------------------------
(* The steps.                                                              *)

\* Nothing is written at the start.
LEMMA BoardInitially == ASSUME BoardAssumption PROVE Init => BoardInv
<1> SUFFICES ASSUME Init PROVE BoardInv
  OBVIOUS
<1>1. Empty \in Boards /\ Empty # Torn
  BY DEF Empty, Boards, BoardAssumption
<1>2. Shape
  BY <1>1 DEF Init, Shape
<1>3. \A w \in Writers : Under(w)
  BY DEF Init, Under, Step
<1>4. FormsKnown
  BY DEF Init, FormsKnown, Empty
<1>5. AllKept
  BY DEF Init, AllKept
<1> QED BY <1>2, <1>3, <1>4, <1>5 DEF BoardInv

\* Who has loaded the region is the only one.
LEMMA OneLoaded ==
  ASSUME BoardInv, NEW w \in Writers, Step(w, "log") \/ Step(w, "save"),
         NEW u \in Writers, u # w
  PROVE  ~Step(u, "log") /\ ~Step(u, "save") /\ keeper = w
  BY DEF BoardInv, Under

\* A writer that is where it was, with a region that is what it was.
LEMMA SameUnder ==
  ASSUME NEW u \in Writers, Under(u), post'[u] = post[u], board'[u] = board[u],
         Step(u, "log") \/ Step(u, "save") => keeper' = u,
         UNCHANGED <<rule, region>>
  PROVE  Under(u)'
<1>1. /\ Step(u, "log")' <=> Step(u, "log")
      /\ Step(u, "save")' <=> Step(u, "save")
  BY DEF Step
<1>2. Seen(u)' = Seen(u)
  BY DEF Seen, Loaded, Empty
<1>3. ASSUME Step(u, "save")
      PROVE  Resolve(u, Seen(u)[post[u].key], post[u].value)'
               = Resolve(u, Seen(u)[post[u].key], post[u].value)
  BY <1>2 DEF Resolve, AppendOnly, SingleWriter, CrdtUnion, Versioned, Plain
<1> QED
  BY <1>1, <1>2, <1>3 DEF Under

\* A write that ends, in any way but by changing the region, leaves the others as
\* they are.
LEMMA EndKeeps ==
  ASSUME BoardInv, NEW w \in Writers,
         post' = [post EXCEPT ![w] = Nil], board' = [board EXCEPT ![w] = Empty],
         keeper' = keeper \/ (keeper = w /\ keeper' = Nil),
         UNCHANGED <<rule, region, forms, accepted>>
  PROVE  BoardInv'
<1>1. Empty \in Boards
  BY DEF Empty, Boards
<1>2. Shape'
  BY <1>1 DEF BoardInv, Shape
<1>3. ASSUME NEW u \in Writers PROVE Under(u)'
  <2>1. CASE u = w
    BY <2>1 DEF Under, Step, BoardInv, Shape
  <2>2. CASE u # w
    <3>1. post'[u] = post[u] /\ board'[u] = board[u]
      BY <2>2 DEF BoardInv, Shape
    <3>2. Step(u, "log") \/ Step(u, "save") => keeper' = u
      BY <2>2 DEF BoardInv, Under
    <3>3. Under(u)
      BY DEF BoardInv
    <3> QED
      BY <3>1, <3>2, <3>3, SameUnder
  <2> QED BY <2>1, <2>2
<1>4. FormsKnown'
  BY DEF FormsKnown, BoardInv, Shape
<1>5. AllKept'
  BY DEF AllKept, BoardInv, Kept
<1> QED BY <1>2, <1>3, <1>4, <1>5 DEF BoardInv

\* So does one that cuts the region off.
LEMMA TornKeeps ==
  ASSUME BoardInv, NEW w \in Writers, Step(w, "save"),
         post' = [post EXCEPT ![w] = Nil], board' = [board EXCEPT ![w] = Empty],
         keeper' = Nil, region' = Torn, accepted' = {},
         UNCHANGED <<rule, forms>>
  PROVE  BoardInv'
<1>1. Empty \in Boards
  BY DEF Empty, Boards
<1>2. Shape'
  BY <1>1 DEF BoardInv, Shape
<1>3. ASSUME NEW u \in Writers PROVE Under(u)'
  <2>1. post'[u] = post[u] \/ post'[u] = Nil
    BY DEF BoardInv, Shape
  <2>2. ~Step(u, "log")' /\ ~Step(u, "save")'
    <3>1. CASE u = w
      BY <3>1 DEF Step, BoardInv, Shape
    <3>2. CASE u # w
      BY <2>1, <3>2, OneLoaded DEF Step
    <3> QED BY <3>1, <3>2
  <2> QED BY <2>2 DEF Under
<1>4. FormsKnown' /\ AllKept'
  BY DEF FormsKnown, AllKept, BoardInv, Shape
<1> QED BY <1>2, <1>3, <1>4 DEF BoardInv

\* What is written is what the rule makes of the region, and keeps what is owed.
LEMMA RegionReplaced ==
  ASSUME BoardAssumption, BoardInv, NEW w \in Writers, Step(w, "save"),
         post' = [post EXCEPT ![w] = Nil], board' = [board EXCEPT ![w] = Empty],
         keeper' = Nil, region' = board[w],
         NEW a, a = [agent |-> w, key |-> post[w].key, value |-> post[w].value],
         accepted' \in {Owed(w, board[w]), Owed(w, board[w]) \union {a}},
         UNCHANGED <<rule, forms>>
  PROVE  BoardInv'
<1> DEFINE k == post[w].key
           v == post[w].value
           new == Resolve(w, Seen(w)[k], v)
<1>1. /\ k \in BoardKeys /\ v \in Contents /\ rule \in Rules /\ v.form \in forms[k]
      /\ Seen(w) \in Boards /\ board[w] \in Boards
  BY DEF Step, BoardInv, Shape, Posts, FormsKnown, Seen, Loaded, Empty, Boards
<1>2. new # Nil /\ board[w] = [Seen(w) EXCEPT ![k] = new]
  BY DEF BoardInv, Under
<1>3. Seen(w)[k] \in Entry \union {Nil}
  BY <1>1 DEF Boards
<1>4. region'[k] = new /\ \A l \in BoardKeys : l # k => region'[l] = Seen(w)[l]
  BY <1>1, <1>2 DEF Boards
<1>5. /\ region # Torn /\ ~post[w].blind => Seen(w) = region
      /\ \A l \in BoardKeys : region = Torn \/ post[w].blind => Seen(w)[l] = Nil
  BY DEF Seen, Loaded, Empty
<1>6. Empty \in Boards
  BY DEF Empty, Boards
<1>7. /\ a \in [agent : Writers, key : BoardKeys, value : Contents]
      /\ accepted' \subseteq accepted \union {a}
  BY <1>1 DEF Owed
<1>8. region' \in Boards /\ region' # Torn
  BY <1>1 DEF BoardAssumption
<1>9. Shape'
  BY <1>6, <1>7, <1>8 DEF BoardInv, Shape
<1>10. ASSUME NEW u \in Writers PROVE Under(u)'
  <2>1. ~Step(u, "log")' /\ ~Step(u, "save")'
    <3>1. CASE u = w
      BY <3>1 DEF Step, BoardInv, Shape
    <3>2. CASE u # w
      BY <3>2, OneLoaded DEF Step, BoardInv, Shape
    <3> QED BY <3>1, <3>2
  <2> QED BY <2>1 DEF Under
<1>11. new.value.form = v.form
  BY <1>1, <1>2, <1>3, ResolveForm
<1>12. FormsKnown'
  <2>1. \A u \in Writers : post'[u] # Nil => post'[u] = post[u]
    BY DEF BoardInv, Shape
  <2>2. \A u \in Writers : post'[u] # Nil => post'[u].value.form \in forms'[post'[u].key]
    BY <2>1 DEF BoardInv, FormsKnown
  <2>3. ASSUME NEW l \in BoardKeys, region'[l] # Nil
        PROVE  region'[l].value.form \in forms[l]
    <3>1. CASE l = k
      BY <1>1, <1>4, <1>11, <3>1
    <3>2. CASE l # k
      BY <1>4, <1>5, <2>3, <3>2 DEF BoardInv, FormsKnown, Shape
    <3> QED BY <3>1, <3>2
  <2> QED BY <2>2, <2>3 DEF FormsKnown
<1>13. AllKept'
  <2> SUFFICES ASSUME NEW b \in accepted'
               PROVE  Kept(b, region'[b.key], forms[b.key])
    BY <1>8 DEF AllKept, Kept
  <2>1. CASE b = a
    <3>1. Kept(a, new, forms[k])
      BY <1>1, <1>2, <1>3, WriteKept
    <3> QED BY <1>4, <2>1, <3>1
  <2>2. CASE b \in accepted /\ b # a
    <3>0. region # Torn /\ b.key \in BoardKeys /\ Kept(b, region[b.key], forms[b.key])
      BY <2>2 DEF BoardInv, Shape, AllKept
    <3>1. region' = region \/ (~post[w].blind /\ Seen(w) = region)
      BY <1>5, <2>2, <3>0 DEF Owed
    <3>2. CASE region' = region
      BY <3>0, <3>2
    <3>3. CASE b.key # k /\ Seen(w) = region
      BY <1>4, <3>0, <3>3
    <3>4. CASE b.key = k /\ Seen(w) = region
      <4>1. Seen(w)[k] # Nil => Seen(w)[k].value.form \in forms[k]
        BY <1>1, <3>0, <3>4 DEF BoardInv, FormsKnown
      <4>2. Kept(b, new, forms[k])
        BY <1>1, <1>2, <1>3, <3>0, <3>4, <4>1, EarlierKept
      <4> QED BY <1>4, <3>4, <4>2
    <3> QED BY <3>1, <3>2, <3>3, <3>4
  <2> QED BY <1>7, <2>1, <2>2
<1> QED BY <1>9, <1>10, <1>12, <1>13 DEF BoardInv

\* A write begins: it may bring a new form to its key.
LEMMA PostKeeps ==
  ASSUME BoardAssumption, BoardInv, NEW w \in Writers, Post(w)
  PROVE  BoardInv'
<1>1. PICK k \in BoardKeys, v \in Contents :
        /\ post' = [post EXCEPT ![w] = [step |-> "lock", key |-> k, value |-> v, blind |-> FALSE]]
        /\ forms' = [forms EXCEPT ![k] = @ \union {v.form}]
  BY DEF Post
<1>2. UNCHANGED <<rule, region, keeper, board, accepted>> /\ post[w] = Nil
  BY DEF Post
<1>3. /\ v.form \in {"scalar", "list", "dict"}
      /\ [step |-> "lock", key |-> k, value |-> v, blind |-> FALSE] \in Posts
  BY DEF BoardAssumption, Values, Posts
<1>4. Shape'
  <2>1. forms' \in [BoardKeys -> SUBSET {"scalar", "list", "dict"}]
    BY <1>1, <1>3 DEF BoardInv, Shape
  <2>2. post' \in [Writers -> Posts \union {Nil}]
    BY <1>1, <1>3 DEF BoardInv, Shape
  <2> QED
    BY <1>2, <2>1, <2>2 DEF BoardInv, Shape
<1>5. ASSUME NEW u \in Writers PROVE Under(u)'
  <2>1. CASE u = w
    <3>1. post'[u].step = "lock"
      BY <1>1, <2>1 DEF BoardInv, Shape
    <3> QED BY <3>1 DEF Under, Step
  <2>2. CASE u # w
    <3>1. Under(u) /\ post'[u] = post[u]
      BY <1>1, <2>2 DEF BoardInv, Shape
    <3>2. Step(u, "log") \/ Step(u, "save") => keeper' = u
      BY <1>2, <3>1 DEF Under
    <3> QED BY <1>2, <3>1, <3>2, SameUnder
  <2> QED BY <2>1, <2>2
<1>6. \A l \in BoardKeys : forms[l] \subseteq forms'[l]
  BY <1>1 DEF BoardInv, Shape
<1>7. FormsKnown'
  <2>1. ASSUME NEW u \in Writers, post'[u] # Nil
        PROVE  post'[u].value.form \in forms'[post'[u].key]
    <3>1. CASE u = w
      BY <1>1, <3>1 DEF BoardInv, Shape
    <3>2. CASE u # w
      <4>1. post'[u] = post[u] /\ post[u].key \in BoardKeys
        BY <1>1, <2>1, <3>2 DEF BoardInv, Shape, Posts
      <4> QED BY <1>6, <2>1, <4>1 DEF BoardInv, FormsKnown
    <3> QED BY <3>1, <3>2
  <2> QED
    BY <1>2, <1>6, <2>1 DEF BoardInv, FormsKnown
<1>8. AllKept'
  <2> SUFFICES ASSUME NEW a \in accepted
               PROVE  Kept(a, region[a.key], forms'[a.key])
    BY <1>2 DEF AllKept, Kept
  <2>1. Kept(a, region[a.key], forms[a.key]) /\ a.key \in BoardKeys
    BY DEF BoardInv, AllKept, Shape
  <2>2. region[a.key].value.form \in forms[a.key]
    BY <2>1 DEF BoardInv, FormsKnown, Kept, Shape
  <2>3. forms'[a.key] = {"list"} => forms[a.key] = {"list"}
    BY <1>6, <2>1, <2>2
  <2> QED BY <2>1, <2>3 DEF Kept
<1> QED BY <1>4, <1>5, <1>7, <1>8 DEF BoardInv

\* The lock is taken when nobody has the region loaded.
LEMMA LockKeeps ==
  ASSUME BoardAssumption, BoardInv, NEW w \in Writers, LockRegion(w) \/ Misread(w)
  PROVE  BoardInv'
<1>1. PICK blind \in BOOLEAN : Load(w, IF blind THEN Empty ELSE Loaded, blind)
  BY DEF LockRegion, Misread
<1>0. /\ post' = [post EXCEPT ![w].step = "log", ![w].blind = blind]
      /\ board' = [board EXCEPT ![w] = IF blind THEN Empty ELSE Loaded]
      /\ keeper = Nil /\ keeper' = w /\ UNCHANGED <<rule, region, forms, accepted>>
  BY <1>1 DEF LockRegion, Misread, Load
<1>2. post[w] # Nil /\ post[w] \in Posts
  BY <1>1 DEF Load, Step, BoardInv, Shape
<1>3. Loaded \in Boards /\ Loaded' = Loaded /\ Empty \in Boards
  BY <1>0 DEF Loaded, Empty, Boards, BoardInv, Shape
<1>4. [post[w] EXCEPT !.step = "log", !.blind = blind] \in Posts
  BY <1>2 DEF Posts
<1>5. Shape'
  BY <1>0, <1>3, <1>4 DEF BoardInv, Shape
<1>6. ASSUME NEW u \in Writers, u # w
      PROVE  ~Step(u, "log") /\ ~Step(u, "save") /\ post'[u] = post[u]
  BY <1>0, <1>6 DEF BoardInv, Under, BoardAssumption, Shape
<1>7. /\ post'[w].step = "log" /\ post'[w].key = post[w].key /\ post'[w].value = post[w].value
      /\ post'[w].blind = blind /\ board'[w] = IF blind THEN Empty ELSE Loaded
  BY <1>0, <1>2 DEF BoardInv, Shape, Posts
<1>8. ASSUME NEW u \in Writers PROVE Under(u)'
  <2>1. CASE u = w
    BY <1>0, <1>3, <1>7, <2>1 DEF Under, Step, Seen, Empty
  <2>2. CASE u # w
    BY <1>6, <2>2 DEF Under, Step
  <2> QED BY <2>1, <2>2
<1>9. FormsKnown'
  <2>1. ASSUME NEW u \in Writers, post'[u] # Nil
        PROVE  post'[u].value.form \in forms[post'[u].key]
    BY <1>2, <1>6, <1>7, <2>1 DEF BoardInv, FormsKnown
  <2> QED BY <1>0, <2>1 DEF BoardInv, FormsKnown
<1>10. AllKept'
  BY <1>0 DEF BoardInv, AllKept, Kept
<1> QED BY <1>5, <1>8, <1>9, <1>10 DEF BoardInv

\* The rule decides on the region as it is.
LEMMA LogKeeps ==
  ASSUME BoardAssumption, BoardInv, NEW w \in Writers, LogWrite(w)
  PROVE  BoardInv'
<1> DEFINE k == post[w].key
           v == post[w].value
           new == Resolve(w, board[w][k], v)
<1>1. /\ Step(w, "log") /\ board[w] = Seen(w) /\ keeper = w /\ post[w] # Nil
      /\ UNCHANGED <<rule, region, forms, accepted>>
  BY DEF LogWrite, BoardInv, Under, Step
<1>2. CASE new = Nil
  <2>1. /\ post' = [post EXCEPT ![w] = Nil] /\ board' = [board EXCEPT ![w] = Empty]
        /\ keeper' = Nil
    BY <1>2 DEF LogWrite
  <2> QED BY <1>1, <2>1, EndKeeps
<1>3. CASE new # Nil
  <2>1. /\ post' = [post EXCEPT ![w].step = "save"] /\ board' = [board EXCEPT ![w][k] = new]
        /\ keeper' = keeper
    BY <1>3 DEF LogWrite, Goto
  <2>0. /\ post[w] \in Posts /\ k \in BoardKeys /\ v \in Contents /\ rule \in Rules
        /\ Seen(w) \in Boards /\ [post[w] EXCEPT !.step = "save"] \in Posts
    BY <1>1 DEF BoardInv, Shape, Posts, Seen, Loaded, Empty, Boards
  <2>a. post'[w].blind = post[w].blind
    BY <2>0, <2>1 DEF BoardInv, Shape, Posts
  <2>b. Seen(w)' = Seen(w)
    BY <1>1, <2>a DEF Seen, Loaded, Empty
  <2>2. /\ post[w] \in Posts /\ k \in BoardKeys /\ v \in Contents /\ rule \in Rules
        /\ Seen(w) \in Boards /\ Seen(w)' = Seen(w) /\ [post[w] EXCEPT !.step = "save"] \in Posts
    BY <2>0, <2>b
  <2>3. new \in Entry \union {Nil}
    BY <1>1, <2>2, ResolveTyped DEF Boards
  <2>4. [Seen(w) EXCEPT ![k] = new] \in Boards
    BY <2>2, <2>3 DEF Boards
  <2>5. board' = [board EXCEPT ![w] = [Seen(w) EXCEPT ![k] = new]]
    BY <1>1, <2>1
  <2> HIDE DEF new, k, v
  <2>6. board'[w] = [Seen(w) EXCEPT ![k] = new] /\ board' \in [Writers -> Boards]
    BY <2>4, <2>5 DEF BoardInv, Shape
  <2>7. post' \in [Writers -> Posts \union {Nil}]
    BY <2>1, <2>2 DEF BoardInv, Shape
  <2>8. Shape'
    BY <1>1, <2>1, <2>6, <2>7 DEF BoardInv, Shape
  <2>9. post'[w].step = "save" /\ post'[w].key = k /\ post'[w].value = v
    BY <2>1, <2>2 DEF BoardInv, Shape, Posts, k, v
  <2>10. ASSUME NEW u \in Writers, u # w
         PROVE  post'[u] = post[u] /\ board'[u] = board[u] /\ ~Step(u, "log") /\ ~Step(u, "save")
    BY <1>1, <2>1, <2>5, <2>10, OneLoaded DEF BoardInv, Shape
  <2>11. Resolve(w, Seen(w)[post[w].key], post[w].value)' = new
    BY <1>1, <2>2, <2>9
       DEF Resolve, AppendOnly, SingleWriter, CrdtUnion, Versioned, Plain, new, k, v
  <2>12. ASSUME NEW u \in Writers PROVE Under(u)'
    <3>1. CASE u = w
      <4>1. ~Step(w, "log")' /\ keeper' = w
        BY <1>1, <2>1, <2>9 DEF Step
      <4> QED
        BY <1>3, <2>2, <2>6, <2>9, <2>11, <3>1, <4>1 DEF Under
    <3>2. CASE u # w
      BY <2>10, <3>2 DEF Under, Step
    <3> QED BY <3>1, <3>2
  <2>13. FormsKnown'
    <3>1. ASSUME NEW u \in Writers, post'[u] # Nil
          PROVE  post'[u].value.form \in forms[post'[u].key]
      BY <1>1, <2>9, <2>10, <3>1 DEF BoardInv, FormsKnown, k, v
    <3> QED BY <1>1, <3>1 DEF BoardInv, FormsKnown
  <2>14. AllKept'
    BY <1>1 DEF BoardInv, AllKept, Kept
  <2> QED BY <2>8, <2>12, <2>13, <2>14 DEF BoardInv
<1> QED BY <1>2, <1>3

\* Every step keeps the invariant.
LEMMA BoardPreserved ==
  ASSUME BoardAssumption
  PROVE  BoardInv /\ [Next]_boardVars => BoardInv'
<1> SUFFICES ASSUME BoardInv, [Next]_boardVars PROVE BoardInv'
  OBVIOUS
<1>1. ASSUME NEW w \in Writers, Post(w) PROVE BoardInv'
  BY <1>1, PostKeeps
<1>2. ASSUME NEW w \in Writers, LockRegion(w) \/ Misread(w) PROVE BoardInv'
  BY <1>2, LockKeeps
<1>3. ASSUME NEW w \in Writers, GiveUp(w) PROVE BoardInv'
  <2>1. keeper' = keeper \/ (keeper = w /\ keeper' = Nil)
    BY <1>3 DEF GiveUp, BoardInv, Under, Step
  <2> QED
    BY <1>3, <2>1, EndKeeps DEF GiveUp
<1>4. ASSUME NEW w \in Writers, LogWrite(w) PROVE BoardInv'
  BY <1>4, LogKeeps
<1>5. ASSUME NEW w \in Writers, SaveRegion(w) PROVE BoardInv'
  BY <1>5, RegionReplaced DEF SaveRegion, Finish
<1>6. ASSUME NEW w \in Writers, SaveFails(w) PROVE BoardInv'
  <2>1. CASE region' = region
    <3>1. keeper = w /\ keeper' = Nil /\ accepted' = accepted
      BY <1>6, <2>1 DEF SaveFails, Finish, BoardInv, Under, Owed
    <3> QED
      BY <1>6, <2>1, <3>1, EndKeeps DEF SaveFails, Finish
  <2>2. CASE region' = Torn /\ region' # region
    BY <1>6, <2>2, TornKeeps DEF SaveFails, Finish, Owed
  <2> QED BY <1>6, <2>1, <2>2 DEF SaveFails
<1>7. ASSUME NEW w \in Writers, Die(w) PROVE BoardInv'
  <2>1. CASE region' = region
    BY <1>7, <2>1, EndKeeps DEF Die, Owed
  <2>2. CASE Step(w, "save") /\ region' = Torn /\ region' # region
    <3>1. keeper' = Nil
      BY <1>7, <2>2 DEF Die, BoardInv, Under
    <3> QED
      BY <1>7, <2>2, <3>1, TornKeeps DEF Die, Owed
  <2>3. CASE Step(w, "save") /\ region' = board[w]
    <3>1. keeper' = Nil /\ accepted' = Owed(w, board[w])
      BY <1>7, <2>3 DEF Die, BoardInv, Under
    <3> QED
      BY <1>7, <2>3, <3>1, RegionReplaced DEF Die
  <2> QED BY <1>7, <2>1, <2>2, <2>3 DEF Die
<1>8. CASE UNCHANGED boardVars
  <2>1. /\ UNCHANGED <<rule, region, keeper, post, board, forms, accepted>>
    BY <1>8 DEF boardVars
  <2>2. \A u \in Writers : Under(u)'
    BY <2>1, SameUnder DEF BoardInv, Under
  <2> QED
    BY <2>1, <2>2 DEF BoardInv, Shape, FormsKnown, AllKept, Kept
<1> QED
  BY <1>1, <1>2, <1>3, <1>4, <1>5, <1>6, <1>7, <1>8 DEF Next

\* The invariant of the blackboard holds always.
LEMMA BoardInvariant == ASSUME BoardAssumption PROVE Spec => []BoardInv
<1>1. Init => BoardInv
  BY BoardInitially
<1>2. BoardInv /\ [Next]_boardVars => BoardInv'
  BY BoardPreserved
<1> QED
  BY <1>1, <1>2, PTL DEF Spec

\* Type correctness, and the bound of the writes.
LEMMA BoardTypes ==
  ASSUME BoardAssumption, MaxPosts \in Nat
  PROVE  Spec => []TypeOK
<1> DEFINE Bounded == posts \in 0..MaxPosts
<1>1. Init => Bounded
  BY DEF Init
<1>2. Bounded /\ [Next]_boardVars => Bounded'
  <2>1. ASSUME Bounded, NEW w \in Writers, Post(w) PROVE Bounded'
    BY <2>1 DEF Post
  <2>2. ASSUME NEW w \in Writers, LockRegion(w) \/ Misread(w) PROVE posts' = posts
    BY <2>2 DEF LockRegion, Misread, Load
  <2>3. ASSUME NEW w \in Writers,
               GiveUp(w) \/ LogWrite(w) \/ SaveRegion(w) \/ SaveFails(w) \/ Die(w)
        PROVE  posts' = posts
    BY <2>3 DEF GiveUp, LogWrite, SaveRegion, SaveFails, Die
  <2> QED
    BY <2>1, <2>2, <2>3 DEF Next, boardVars
<1>3. BoardInv /\ Bounded => TypeOK
  <2> SUFFICES ASSUME BoardInv, Bounded PROVE TypeOK
    OBVIOUS
  <2>1. \A w \in Writers : post[w] = Nil \/ post[w].step \in {"lock", "log", "save"}
    BY DEF BoardInv, Shape, Posts
  <2> QED
    BY Zenon, <2>1 DEF BoardInv, Shape, TypeOK
<1> QED
  BY <1>1, <1>2, <1>3, BoardInvariant, PTL DEF Spec

\* NoLostWrite (write_value under the lock of its region): until a save is cut off
\* or is of a writer that could not read the region, every accepted write is still
\* in it as far as its rule promises, however the writers overlap, give up or die.
THEOREM WritesKept == ASSUME BoardAssumption PROVE Spec => []NoLostWrite
<1>1. BoardInv => NoLostWrite
  <2> SUFFICES ASSUME BoardInv, NEW a \in accepted
               PROVE  LET e == region[a.key] IN
                      /\ e # Nil
                      /\ rule = "append_only" => e.value = a.value
                      /\ rule = "single_writer" => e.owner = a.agent
                      /\ rule = "versioned" => \E n \in DOMAIN e.versions : e.versions[n] = a.value
                      /\ rule = "crdt_union" /\ forms[a.key] = {"list"} =>
                           a.value.items \subseteq ReadValue(a.key).items
    BY DEF NoLostWrite
  <2>1. region # Torn /\ Kept(a, region[a.key], forms[a.key])
    BY DEF BoardInv, Shape, AllKept
  <2> QED
    BY <2>1 DEF Kept, ReadValue, Loaded
<1> QED
  BY <1>1, BoardInvariant, PTL
=============================================================================
