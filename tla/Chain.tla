------------------------------- MODULE Chain -------------------------------
(***************************************************************************)
(* Blockchain::insert_block on an InMemoryState: a block is validated, its *)
(* branch is executed on the state of the canonical ancestor, and it       *)
(* becomes canonical if it is heavier; otherwise the canonical chain is    *)
(* executed again.                                                         *)
(*                                                                         *)
(* Blocks are numbers that stand for their hashes; `tree` holds what they  *)
(* contain.  The accounts and storage are abstracted to `world`, the       *)
(* blocks whose changes they hold, and the change set of a block to the    *)
(* world that it leads back to (BlockExecution!WritesExactly).             *)
(***************************************************************************)
EXTENDS Consensus, FiniteSets, Sequences, SequencesExt

CONSTANTS
  Chains,       \* the blocks that may be offered, and whether the engine is
                \* Ethash or another one given to new_with_consensus
  CheckRoots,   \* values of check_state_root
  Clock,        \* values of SystemTime::now
  Generations,  \* how far is_kin looks back
  None

Genesis == 0

\* Blocks are numbered after their parents: hashes form no circle.  The genesis
\* block is given, with a base fee if the fork has taken place before it.
ASSUME ChainAssumption ==
  /\ CheckRoots \subseteq BOOLEAN /\ Clock \subseteq Nat
  /\ Generations \in 1 .. 6
  /\ None \notin Nat /\ None \notin {"sender", "underflow", "re_execute"}
  /\ \A c \in Chains :
       /\ Genesis \in DOMAIN c.tree /\ c.tree[Genesis].number = 0
       /\ c.tree[Genesis].gasUsed <= c.tree[Genesis].gasLimit
       /\ c.tree[Genesis].gasLimit >= 5000
       /\ Eip1559Block = 0 => c.tree[Genesis].baseFee > 0
       /\ \A b \in DOMAIN c.tree :
            /\ b \in Nat
            /\ {c.tree[b].number, c.tree[b].difficulty, c.tree[b].gasUsed,
                c.tree[b].gasLimit, c.tree[b].baseFee} \subseteq Nat
            /\ c.tree[b].ommers \subseteq DOMAIN c.tree
            /\ b # Genesis => c.tree[b].parent \in DOMAIN c.tree /\ c.tree[b].parent < b

VARIABLES
  tree,       \* what the blocks contain; it does not change
  ethash,     \* the engine; it does not change
  headers,    \* InMemoryState.headers and bodies
  difficulty, \* total difficulty of every block in headers
  canonical,  \* canonical_hashes[number] at number + 1
  world,      \* accounts and storage
  changes,    \* number -> account_changes and storage_changes
  bad,        \* bad_blocks
  panic       \* the unwrap or arithmetic that insert_block stopped at, or None

vars == <<tree, ethash, headers, difficulty, canonical, world, changes, bad, panic>>

\* HashMap::insert
Put(map, key, value) ==
  [k \in DOMAIN map \cup {key} |-> IF k = key THEN value ELSE map[k]]

Number(b) == tree[b].number
Parent(b) == tree[b].parent
Tip == Len(canonical) - 1
CanonicalHash(n) == IF n < Len(canonical) THEN canonical[n + 1] ELSE None

\* get_parent_header: headers are looked up by number and hash.
ParentKnown(b) ==
  /\ Number(b) > 0
  /\ Parent(b) \in headers /\ Number(Parent(b)) = Number(b) - 1

-----------------------------------------------------------------------------
(* pre_validate_block *)

\* The header i generations above b on its branch, None above genesis.
Above(b, i) ==
  LET up[j \in 0 .. i] == IF j = 0 THEN b
                          ELSE IF up[j - 1] \in {None, Genesis} THEN None
                          ELSE Parent(up[j - 1])
  IN up[i]

\* old_ommers when is_kin has found the i-th block above to be a sibling.
OldOmmers(b, i) == UNION {tree[Above(b, j)].ommers : j \in 1 .. i}

\* is_kin: the i-th block above b is the first with the parent of the ommer.
Sibling(ommer, b, i) ==
  /\ \A j \in 1 .. i : /\ Above(b, j) \notin {None, Genesis, ommer}
                       /\ Above(b, j) \in headers
  /\ Parent(Above(b, i)) = Parent(ommer)

\* Mutant: an ommer may be an ancestor.
ValidOmmerAncestor(b, ommer) ==
  /\ ParentKnown(ommer)
  /\ ValidHeaderBase(tree[ommer], tree[Parent(ommer)], tree[ommer].timestamp)
  /\ \E i \in 1 .. Generations :
       /\ Above(b, i) \notin {None, Genesis}
       /\ Parent(Above(b, i)) = Parent(ommer)
       /\ ommer \notin OldOmmers(b, i)

\* The time is not looked at for an ommer; neither is its difficulty.
ValidOmmer(b, ommer) ==
  /\ ParentKnown(ommer)
  /\ ValidHeaderBase(tree[ommer], tree[Parent(ommer)], tree[ommer].timestamp)
  /\ \E i \in 1 .. Generations : Sibling(ommer, b, i) /\ ommer \notin OldOmmers(b, i)

\* Ommers are a set here, so that the same one twice cannot occur.  `bodyOk`
\* stands for the transactions and ommers that the header's hashes commit to.
PreValid(b) ==
  /\ tree[b].bodyOk
  /\ Cardinality(tree[b].ommers) <= 2
  /\ \A ommer \in tree[b].ommers : ValidOmmer(b, ommer)

-----------------------------------------------------------------------------
(* Changes of the state.  s is a record of world and changes.               *)

State == [world |-> world, changes |-> changes]

\* The blocks from genesis, which is left out, to b.
Path(b) ==
  LET up[c \in DOMAIN tree] == IF c = Genesis THEN <<>> ELSE Append(up[Parent(c)], c)
  IN up[b]

\* InMemoryState::unwind_state_changes
UnwindStateChanges(s, n) ==
  IF n \notin DOMAIN s.changes THEN s
  ELSE [world |-> s.changes[n],
        changes |-> [k \in DOMAIN s.changes \ {n} |-> s.changes[k]]]

\* unwind_last_changes: from the tip downwards.
UnwindLastChanges(s, ancestor, tip) ==
  LET down[i \in 0 .. tip - ancestor] ==
        IF i = 0 THEN s ELSE UnwindStateChanges(down[i - 1], tip + 1 - i)
  IN down[tip - ancestor]

\* Whether ExecutionProcessor accepts the block.  On any other state than its
\* parent's it does not.
Executes(s, b) == tree[b].executes /\ s.world = Path(Parent(b))

Written(s, b) == [world |-> Append(s.world, b),
                  changes |-> Put(s.changes, Number(b), s.world)]

\* Mutant: a block with a wrong root stays in the state.
ExecuteBlockKept(s, b, check) ==
  IF ~Executes(s, b) THEN [ok |-> FALSE, s |-> s]
  ELSE [ok |-> tree[b].root \/ ~check, s |-> Written(s, b)]

\* execute_block
ExecuteBlock(s, b, check) ==
  IF ~Executes(s, b) THEN [ok |-> FALSE, s |-> s]
  ELSE IF check /\ ~tree[b].root
  THEN [ok |-> FALSE, s |-> UnwindStateChanges(Written(s, b), Number(b))]
  ELSE [ok |-> TRUE, s |-> Written(s, b)]

\* The loop over a chain: how many blocks have been executed, and the state.
ExecuteChain(s, chain, check) ==
  LET after[i \in 0 .. Len(chain)] ==
        IF i = 0 THEN [n |-> 0, ok |-> TRUE, s |-> s]
        ELSE LET p == after[i - 1]
                 r == ExecuteBlock(p.s, chain[i], check)
             IN IF ~p.ok THEN p ELSE [n |-> p.n + (IF r.ok THEN 1 ELSE 0),
                                      ok |-> r.ok, s |-> r.s]
  IN after[Len(chain)]

\* re_execute_canonical_chain
ReExecute(s, ancestor) ==
  ExecuteChain(s, SubSeq(canonical, ancestor + 2, Len(canonical)), FALSE)

-----------------------------------------------------------------------------
(* insert_block *)

\* canonical_ancestor
CanonicalAncestor(b) ==
  LET up[c \in DOMAIN tree] ==
        IF CanonicalHash(Number(c)) = c THEN Number(c) ELSE up[Parent(c)]
  IN up[b]

\* intermediate_chain, and the block itself
IntermediateChain(b, ancestor) == SubSeq(Path(b), ancestor + 1, Number(b))

SetState(s) == world' = s.world /\ changes' = s.changes

Panic(what) == panic' = what /\ UNCHANGED <<tree, ethash, headers, difficulty, canonical, bad>>

\* The canonical chain is executed again on the state of its ancestor.
Restore(s, ancestor, executed) ==
  LET r == ReExecute(UnwindLastChanges(s, ancestor, ancestor + executed), ancestor)
  IN /\ SetState(r.s)
     /\ panic' = IF r.ok THEN None ELSE "re_execute"
     /\ UNCHANGED canonical

\* Mutant: a branch of the same weight wins.
HeavierOrEqual(b) == difficulty'[b] >= difficulty[CanonicalHash(Tip)]

\* Whether the new block has more total difficulty than the canonical tip.
Heavier(b) == difficulty'[b] > difficulty[CanonicalHash(Tip)]

\* decanonize_block above the ancestor, then canonize_block.
Canonized(ancestor, chain) == SubSeq(canonical, 1, ancestor + 1) \o chain

\* Mutant: the blocks below a failed one are marked as well.
MarkedBranch(b, chain) == bad \cup ToSet(chain)

\* The new block is marked, whichever block of the chain has failed.
Marked(b, chain) == bad \cup {b}

InsertExecuted(b, check) ==
  LET ancestor == CanonicalAncestor(b)
      chain == IntermediateChain(b, ancestor)
      r == ExecuteChain(UnwindLastChanges(State, ancestor, Tip), chain, check)
  IN IF ancestor = Number(b)
     \* block_number.0 - canonical_ancestor.0 in intermediate_chain
     THEN Panic("underflow") /\ SetState(UnwindLastChanges(State, ancestor, Tip))
     ELSE /\ UNCHANGED <<tree, ethash>>
          /\ IF ~r.ok
             THEN /\ bad' = Marked(b, chain)
                  /\ Restore(r.s, ancestor, r.n)
                  /\ UNCHANGED <<headers, difficulty>>
             ELSE /\ headers' = headers \cup {b}
                  /\ difficulty' = Put(difficulty, b, difficulty[Parent(b)] + tree[b].difficulty)
                  /\ IF Heavier(b)
                     THEN /\ canonical' = Canonized(ancestor, chain)
                          /\ SetState(r.s)
                          /\ UNCHANGED panic
                     ELSE Restore(r.s, ancestor, r.n)
                  /\ UNCHANGED bad

\* An error before execution leaves everything alone.
InsertBlock(b, check, now) ==
  /\ panic = None
  /\ ParentKnown(b)
  /\ ValidHeaderBase(tree[b], tree[Parent(b)], now)
  /\ ethash => ValidDifficulty(tree[b], tree[Parent(b)])
  /\ PreValid(b)
  /\ b \notin bad
  /\ IF ~tree[b].signed  \* recover_sender
     THEN Panic("sender") /\ UNCHANGED <<world, changes>>
     ELSE InsertExecuted(b, check)

Init ==
  /\ \E c \in Chains : tree = c.tree /\ ethash = c.ethash
  /\ headers = {Genesis}
  /\ difficulty = [b \in {Genesis} |-> tree[b].difficulty]
  /\ canonical = <<Genesis>>
  /\ world = <<>>
  /\ changes = [n \in {} |-> <<>>]
  /\ bad = {}
  /\ panic = None

Next == \E b \in DOMAIN tree \ {Genesis}, check \in CheckRoots, now \in Clock :
          InsertBlock(b, check, now)

Spec == Init /\ [][Next]_vars

-----------------------------------------------------------------------------
(* Properties *)

\* After insert_block, whatever it returned, accounts and storage are those of
\* the canonical chain, the change sets are those of its blocks, one for each
\* number, and the chain is linked.  Of what it takes for granted only two
\* things can fail: that every sender can be recovered, and that the block is
\* not canonical yet.
StateIsCanonical ==
  \/ panic \in {"sender", "underflow"}
  \/ /\ panic = None
     /\ Path(CanonicalHash(Tip)) = Tail(canonical)
     /\ world = Tail(canonical)
     /\ changes = [n \in 1 .. Tip |-> SubSeq(world, 1, n - 1)]

Choice == INSTANCE ForkChoice WITH known <- headers, best <- CanonicalHash(Tip)

\* The canonical tip is the heaviest of the accepted blocks, and the first one
\* of several, although lighter branches are executed in between.
ChoosesHeaviest == Choice!Spec

\* A block in bad_blocks, which is rejected for ever, is invalid or descends
\* from an invalid one: none is there because it was executed on the state of
\* another branch.
OnlyBadIsBad ==
  \A b \in bad : \E x \in ToSet(Path(b)) : ~tree[x].executes \/ ~tree[x].root

\* On every branch an ommer is included once, it is no ancestor of the block
\* that includes it, and its reward is neither zero nor a whole one.
OmmersOnce ==
  \A b \in headers :
    LET branch == ToSet(Path(b))
    IN /\ \A x, y \in branch : x # y => tree[x].ommers \cap tree[y].ommers = {}
       /\ \A x \in branch : tree[x].ommers \cap branch = {}
       /\ \A x \in branch : \A o \in tree[x].ommers :
            OmmerShare(Number(o), Number(x)) \in 8 - Generations .. 7

\* After the fork the base fee is never zero, it rises whenever the parent is
\* above its gas target, even from the lowest fee, and it moves by no more
\* than an eighth, or by one.  (A full block with an odd gas limit has used one
\* more than twice the target; the fee then rises by a little more.)
BaseFeeMoves ==
  \A b \in headers \ {Genesis} :
    LET fee == tree[b].baseFee
        parent == tree[Parent(b)]
        excess == IF parent.gasLimit % 2 = 0 THEN 0 ELSE parent.baseFee \div GasTarget(parent)
    IN Number(b) > Eip1559Block =>
         /\ fee > 0
         /\ parent.gasUsed > GasTarget(parent) => fee > parent.baseFee
         /\ fee <= parent.baseFee + Max({1, (parent.baseFee + excess) \div 8})
         /\ fee >= parent.baseFee - parent.baseFee \div 8

\* What the header and ommer rules are there for holds of every accepted
\* block.
RulesKept == OmmersOnce /\ BaseFeeMoves
=============================================================================
