------------------------------ MODULE MCShared ------------------------------
(* The shared files of the harness for TLC, with the values and the        *)
(* workflows that Shared leaves open.                                      *)
EXTENDS Shared, TLC

CONSTANTS Left, Right, Join, Spare

\* Two lists that are not equal, and a dict: items are tuples, those of a dict pairs.
MCContents == {[form |-> "list", items |-> {<<1>>}], [form |-> "list", items |-> {<<2>>}],
               [form |-> "dict", items |-> {<<1, 2>>}]}

\* Two tasks, one that depends on both, and the name of a branch.
MCNodes == {Left, Right, Join, Spare}
MCNeeds == [t \in MCNodes |-> IF t = Join THEN {Left, Right} ELSE {}]

\* Three subtasks; the last may depend on one that is not there.
MCSubtasks == 1..3
MCDepSets ==
  [t \in MCSubtasks |-> SUBSET ((MCSubtasks \ {t}) \union IF t = 3 THEN {Unknown} ELSE {})]

\* A regenerate of the loop registry that overlaps another, or a session that writes,
\* ends what TLC looks at: StatusKept is about the others, and the states after it are
\* twenty times as many.
Apart == part = "loop" => ~raced

Symmetry == Permutations(Procs)
=============================================================================
