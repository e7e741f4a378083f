----------------------------- MODULE ForkChoice -----------------------------
(***************************************************************************)
(* What a blockchain promises: of the blocks that it has accepted, each on *)
(* a parent accepted before, the best one has the most total difficulty,   *)
(* and of several with the same it is the one that came first.             *)
(***************************************************************************)
EXTENDS Integers

CONSTANT Genesis

VARIABLES
  tree,    \* block -> parent and difficulty
  known,   \* accepted blocks
  best

vars == <<tree, known, best>>

\* Blocks are numbered after their parents.
Weight[b \in DOMAIN tree] ==
  tree[b].difficulty + IF b = Genesis THEN 0 ELSE Weight[tree[b].parent]

Init == known = {Genesis} /\ best = Genesis

Accept(b) ==
  /\ tree[b].parent \in known
  /\ known' = known \cup {b}
  /\ best' = IF Weight[b] > Weight[best] THEN b ELSE best
  /\ UNCHANGED tree

Next == \E b \in DOMAIN tree \ {Genesis} : Accept(b)

Spec == Init /\ [][Next]_vars
=============================================================================
