----------------------------- MODULE Blackboard -----------------------------
(***************************************************************************)
(* The blackboard (blackboard_core.py): write_value with its five conflict *)
(* rules, and what read_value answers.                                     *)
(*                                                                         *)
(* One region with a rule chosen in the initial state. Its lock lies in    *)
(* ".locks" and is therefore exclusive (SharedFilesProofs,                 *)
(* LockIsExclusive): it is one variable here. Nothing reads the write log: *)
(* what it can do to a write is not to give its lock. Values are what the  *)
(* rules tell apart: a list, a dict (a set of pairs) or a scalar (a        *)
(* singleton).                                                             *)
(***************************************************************************)
EXTENDS Naturals, Sequences, FiniteSets

CONSTANTS
  Writers,   \* agents, each one process
  BoardKeys,
  Contents,  \* the values written: records [form, items]
  MaxPosts,  \* bound of the model: writes begun
  Nil,       \* no entry, no lock holder
  Torn       \* a region file cut off by a failed or killed write

VARIABLES
  rule,     \* REGION_RULES of the region
  region,   \* the region file: an entry for each key
  keeper,   \* holder of the lock of the region
  post,     \* post[w]: the write w is in, or Nil
  board,    \* board[w]: data, as w loaded and changed it
  posts,    \* history: writes begun
  forms,    \* history: the forms that writes of a key had
  accepted  \* history: the writes that answered "written" since a save was last
            \* cut off or was of a writer that could not read the region

boardVars == <<rule, region, keeper, post, board, posts, forms, accepted>>

Rules == {"append_only", "single_writer", "crdt_union", "versioned", "last_write_wins"}

\* What the rules make of the contents.
Values == [form : {"scalar", "list", "dict"}, items : SUBSET UNION {v.items : v \in Contents}]

Entry == [owner : Writers \union {Nil}, value : Values, versions : Seq(Contents)]

\* What the file of a region holds.
Boards == [BoardKeys -> Entry \union {Nil}]

Empty == [k \in BoardKeys |-> Nil]

Init ==
  /\ rule \in Rules
  /\ region = Empty
  /\ keeper = Nil
  /\ post = [w \in Writers |-> Nil]
  /\ board = [w \in Writers |-> Empty]
  /\ posts = 0
  /\ forms = [k \in BoardKeys |-> {}]
  /\ accepted = {}

-----------------------------------------------------------------------------
(* The rules.  Resolve is the entry that a write leaves in the data, Nil if *)
(* the rule refuses it.                                                     *)

Plain(v) == [owner |-> Nil, value |-> v, versions |-> <<>>]

AppendOnly(old, v) == IF old = Nil THEN Plain(v) ELSE Nil

SingleWriter(w, old, v) ==
  IF old = Nil \/ (old # Nil /\ old.owner = w) THEN [Plain(v) EXCEPT !.owner = w] ELSE Nil

\* Lists are united; of two dicts the new one's fields go before the old one's.
CrdtUnion(old, v) ==
  IF old = Nil \/ (old # Nil /\ (old.value.form # v.form \/ v.form = "scalar")) THEN Plain(v)
  ELSE IF v.form = "list"
       THEN Plain([v EXCEPT !.items = @ \union old.value.items])
       ELSE Plain([v EXCEPT !.items =
              @ \union {o \in old.value.items : \A n \in v.items : n[1] # o[1]}])

Versioned(old, v) ==
  [Plain(v) EXCEPT !.versions = IF old = Nil THEN <<v>> ELSE Append(old.versions, v)]

Resolve(w, old, v) ==
  CASE rule = "append_only" -> AppendOnly(old, v)
    [] rule = "single_writer" -> SingleWriter(w, old, v)
    [] rule = "crdt_union" -> CrdtUnion(old, v)
    [] rule = "versioned" -> Versioned(old, v)
    [] rule = "last_write_wins" -> Plain(v)

\* _load_region: a file that is not JSON is an empty region.
Loaded == IF region = Torn THEN Empty ELSE region

\* What read_value answers: the value without the wrapper of its rule.
ReadValue(k) == IF Loaded[k] = Nil THEN Nil ELSE Loaded[k].value

-----------------------------------------------------------------------------
(* write_value.                                                            *)

Post(w) ==
  /\ post[w] = Nil
  /\ posts < MaxPosts
  /\ posts' = posts + 1
  /\ \E k \in BoardKeys, v \in Contents :
       /\ post' = [post EXCEPT ![w] = [step |-> "lock", key |-> k, value |-> v, blind |-> FALSE]]
       /\ forms' = [forms EXCEPT ![k] = @ \union {v.form}]
  /\ UNCHANGED <<rule, region, keeper, board, accepted>>

Step(w, s) == post[w] # Nil /\ post[w].step = s

Goto(w, s) == post' = [post EXCEPT ![w].step = s]

\* The lock is there and the region is loaded.
Load(w, data, blind) ==
  /\ Step(w, "lock")
  /\ keeper' = w
  /\ board' = [board EXCEPT ![w] = data]
  /\ post' = [post EXCEPT ![w].step = "log", ![w].blind = blind]
  /\ UNCHANGED <<rule, region, posts, forms, accepted>>

\* Mutant of LockRegion: the region is loaded before the lock is there.
LockRegionFree(w) == Load(w, Loaded, FALSE)

LockRegion(w) == keeper = Nil /\ Load(w, Loaded, FALSE)

\* An OSError while reading a region that is there: it is taken for empty.
Misread(w) ==
  /\ keeper = Nil
  /\ region \notin {Torn, Empty}
  /\ Load(w, Empty, TRUE)

\* No answer but "not written": after 5 s without the lock, or, in the lock, if
\* the lock of the log is not to be had.  A region cut off inside a character
\* raises while it is read, which ends here too.
GiveUp(w) ==
  /\ Step(w, "lock") \/ Step(w, "log")
  /\ keeper' = IF Step(w, "log") THEN Nil ELSE keeper
  /\ post' = [post EXCEPT ![w] = Nil]
  /\ board' = [board EXCEPT ![w] = Empty]
  /\ UNCHANGED <<rule, region, posts, forms, accepted>>

\* The resolver, which logs what it is about to do.  A refused write ends here.
LogWrite(w) ==
  /\ Step(w, "log")
  /\ LET p == post[w]
         new == Resolve(w, board[w][p.key], p.value)
     IN
     IF new = Nil
     THEN /\ post' = [post EXCEPT ![w] = Nil]
          /\ keeper' = Nil
          /\ board' = [board EXCEPT ![w] = Empty]
     ELSE /\ Goto(w, "save")
          /\ board' = [board EXCEPT ![w][p.key] = new]
          /\ UNCHANGED keeper
  /\ UNCHANGED <<rule, region, posts, forms, accepted>>

Finish(w) ==
  /\ keeper' = Nil
  /\ post' = [post EXCEPT ![w] = Nil]
  /\ board' = [board EXCEPT ![w] = Empty]

\* What a save leaves of the writes that were answered before.
Owed(w, saved) ==
  IF saved = region THEN accepted
  ELSE IF saved = Torn \/ post[w].blind THEN {} ELSE accepted

SaveRegion(w) ==
  /\ Step(w, "save")
  /\ region' = board[w]
  /\ accepted' = Owed(w, board[w]) \union
                   {[agent |-> w, key |-> post[w].key, value |-> post[w].value]}
  /\ Finish(w)
  /\ UNCHANGED <<rule, posts, forms>>

\* The file is written in place: an OSError may leave it empty or cut off.
SaveFails(w) ==
  /\ Step(w, "save")
  /\ region' \in {region, Torn}
  /\ accepted' = Owed(w, region')
  /\ Finish(w)
  /\ UNCHANGED <<rule, posts, forms>>

\* The process of w dies, in a save before, while or after it writes.
Die(w) ==
  /\ post[w] # Nil
  /\ region' \in IF Step(w, "save") THEN {region, Torn, board[w]} ELSE {region}
  /\ accepted' = Owed(w, region')
  /\ keeper' = IF keeper = w THEN Nil ELSE keeper
  /\ post' = [post EXCEPT ![w] = Nil]
  /\ board' = [board EXCEPT ![w] = Empty]
  /\ UNCHANGED <<rule, posts, forms>>

Next ==
  \E w \in Writers :
    \/ Post(w) \/ LockRegion(w) \/ Misread(w) \/ GiveUp(w) \/ LogWrite(w)
    \/ SaveRegion(w) \/ SaveFails(w) \/ Die(w)

Spec == Init /\ [][Next]_boardVars

-----------------------------------------------------------------------------
(* Properties.                                                             *)

\* Type invariant.
TypeOK ==
  /\ rule \in Rules
  /\ region \in Boards \union {Torn}
  /\ keeper \in Writers \union {Nil}
  /\ \A w \in Writers : post[w] = Nil \/ post[w].step \in {"lock", "log", "save"}
  /\ board \in [Writers -> Boards]
  /\ posts \in 0..MaxPosts
  /\ forms \in [BoardKeys -> SUBSET {"scalar", "list", "dict"}]

\* No write that was answered with "written" is lost to another one but by the
\* rule of its region, until a save is cut off or is of a writer that could not
\* read the region: an appended key keeps its value, an owned one its owner, a
\* versioned one every version, and a key that is only given lists only grows,
\* however writers overlap, die or time out.
NoLostWrite ==
  \A a \in accepted :
    LET e == region[a.key] IN
    /\ e # Nil
    /\ rule = "append_only" => e.value = a.value
    /\ rule = "single_writer" => e.owner = a.agent
    /\ rule = "versioned" => \E n \in DOMAIN e.versions : e.versions[n] = a.value
    /\ rule = "crdt_union" /\ forms[a.key] = {"list"} => a.value.items \subseteq ReadValue(a.key).items
=============================================================================
