----------------------------- MODULE ChainProofs -----------------------------
(***************************************************************************)
(* Proofs about Chain: after insert_block, whatever it returned, the state *)
(* is that of the canonical chain, only what is invalid is marked as bad,  *)
(* the canonical chain is the heaviest one, and accepted blocks keep the   *)
(* rules for ommers and the base fee, for every tree of blocks.            *)
(*                                                                         *)
(* The argument: the state that belongs to the first k blocks of a branch  *)
(* is a function of the branch (StateOf), unwinding leads from one such    *)
(* state to a lower one, executing a chain to a higher one or to the one   *)
(* below the first block that fails, and a branch and the canonical chain  *)
(* are the same up to the canonical ancestor.                              *)
(***************************************************************************)
EXTENDS Chain, NatLemmas

\* What ChainAssumption says of the tree.
TreeOk ==
  /\ Genesis \in DOMAIN tree /\ DOMAIN tree \subseteq Nat /\ Number(Genesis) = 0
  /\ \A b \in DOMAIN tree :
       /\ Number(b) \in Nat /\ tree[b].difficulty \in Nat
       /\ b # Genesis => Parent(b) \in DOMAIN tree /\ Parent(b) < b

\* Blocks whose parents are among them and have the number before.
Closed(H) ==
  /\ H \subseteq DOMAIN tree /\ Genesis \in H
  /\ \A b \in H \ {Genesis} : Parent(b) \in H /\ Number(b) = Number(Parent(b)) + 1

-----------------------------------------------------------------------------
(* Sequences *)

\* The first k elements of a sequence.
LEMMA Prefix ==
  ASSUME NEW S, NEW p \in Seq(S), NEW k \in 0 .. Len(p)
  PROVE  /\ SubSeq(p, 1, k) \in Seq(S) /\ Len(SubSeq(p, 1, k)) = k
         /\ \A i \in 1 .. k : SubSeq(p, 1, k)[i] = p[i]
OBVIOUS

\* Sequences are the same if they agree everywhere.
LEMMA SameSeq ==
  ASSUME NEW S, NEW p \in Seq(S), NEW q \in Seq(S), Len(p) = Len(q),
         \A i \in 1 .. Len(p) : p[i] = q[i]
  PROVE  p = q
OBVIOUS

\* All of a sequence.
LEMMA WholeSeq ==
  ASSUME NEW S, NEW p \in Seq(S)
  PROVE  SubSeq(p, 1, Len(p)) = p
<1>1. Len(p) \in 0 .. Len(p)
  OBVIOUS
<1> QED BY <1>1, Prefix, SameSeq

\* A part of a part.
LEMMA PrefixOfPrefix ==
  ASSUME NEW S, NEW p \in Seq(S), NEW k \in 0 .. Len(p), NEW j \in 0 .. k
  PROVE  SubSeq(SubSeq(p, 1, k), 1, j) = SubSeq(p, 1, j)
<1> DEFINE q == SubSeq(p, 1, k)
<1>1. q \in Seq(S) /\ Len(q) = k /\ \A i \in 1 .. k : q[i] = p[i]
  BY Prefix
<1> HIDE DEF q
<1>2. j \in 0 .. Len(q) /\ j \in 0 .. Len(p)
  BY <1>1
<1>3. /\ SubSeq(q, 1, j) \in Seq(S) /\ Len(SubSeq(q, 1, j)) = j
      /\ \A i \in 1 .. j : SubSeq(q, 1, j)[i] = q[i]
  BY <1>1, <1>2, Prefix
<1>4. /\ SubSeq(p, 1, j) \in Seq(S) /\ Len(SubSeq(p, 1, j)) = j
      /\ \A i \in 1 .. j : SubSeq(p, 1, j)[i] = p[i]
  BY <1>2, Prefix
<1>5. \A i \in 1 .. j : i \in 1 .. k
  OBVIOUS
<1>6. SubSeq(q, 1, j) = SubSeq(p, 1, j)
  BY <1>1, <1>3, <1>4, <1>5, SameSeq
<1> QED BY <1>6 DEF q

\* One element more.
LEMMA NextPrefix ==
  ASSUME NEW S, NEW p \in Seq(S), NEW k \in 1 .. Len(p)
  PROVE  Append(SubSeq(p, 1, k - 1), p[k]) = SubSeq(p, 1, k)
<1>0. k - 1 \in 0 .. Len(p) /\ k \in 0 .. Len(p) /\ p[k] \in S
  OBVIOUS
<1> DEFINE q == SubSeq(p, 1, k - 1)
           r == SubSeq(p, 1, k)
<1>1. q \in Seq(S) /\ Len(q) = k - 1 /\ \A i \in 1 .. k - 1 : q[i] = p[i]
  BY <1>0, Prefix
<1>2. r \in Seq(S) /\ Len(r) = k /\ \A i \in 1 .. k : r[i] = p[i]
  BY <1>0, Prefix
<1> HIDE DEF q, r
<1>3. /\ Append(q, p[k]) \in Seq(S) /\ Len(Append(q, p[k])) = k
      /\ \A i \in 1 .. k : Append(q, p[k])[i] = p[i]
  BY <1>0, <1>1
<1>4. Append(q, p[k]) = r
  BY <1>2, <1>3, SameSeq
<1> QED BY <1>4 DEF q, r

\* Two sequences one after the other.
LEMMA Concat ==
  ASSUME NEW S, NEW u \in Seq(S), NEW v \in Seq(S)
  PROVE  /\ u \o v \in Seq(S) /\ Len(u \o v) = Len(u) + Len(v)
         /\ \A i \in 1 .. Len(u) : (u \o v)[i] = u[i]
         /\ \A i \in Len(u) + 1 .. Len(u) + Len(v) : (u \o v)[i] = v[i - Len(u)]
OBVIOUS

\* The elements before an appended one.
LEMMA PrefixOfAppend ==
  ASSUME NEW S, NEW p \in Seq(S), NEW e \in S, NEW k \in 0 .. Len(p)
  PROVE  SubSeq(Append(p, e), 1, k) = SubSeq(p, 1, k)
<1> DEFINE q == Append(p, e)
<1>1. q \in Seq(S) /\ Len(q) = Len(p) + 1 /\ \A i \in 1 .. Len(p) : q[i] = p[i]
  OBVIOUS
<1> HIDE DEF q
<1>2. k \in 0 .. Len(q)
  BY <1>1
<1>3. /\ SubSeq(q, 1, k) \in Seq(S) /\ Len(SubSeq(q, 1, k)) = k
      /\ \A i \in 1 .. k : SubSeq(q, 1, k)[i] = q[i]
  BY <1>1, <1>2, Prefix
<1>4. /\ SubSeq(p, 1, k) \in Seq(S) /\ Len(SubSeq(p, 1, k)) = k
      /\ \A i \in 1 .. k : SubSeq(p, 1, k)[i] = p[i]
  BY Prefix
<1>5. \A i \in 1 .. k : i \in 1 .. Len(p)
  OBVIOUS
<1>6. SubSeq(q, 1, k) = SubSeq(p, 1, k)
  BY <1>1, <1>3, <1>4, <1>5, SameSeq
<1> QED BY <1>6 DEF q

-----------------------------------------------------------------------------
(* Branches *)

\* Path satisfies the equation that defines it.
LEMMA PathDef ==
  ASSUME TreeOk
  PROVE  \A b \in DOMAIN tree : /\ Path(b) \in Seq(Nat)
                                /\ Path(b) = IF b = Genesis THEN <<>> ELSE Append(Path(Parent(b)), b)
<1> DEFINE step == [p \in (DOMAIN tree) \X Seq(Nat) |-> Append(p[2], p[1])]
           par == [b \in DOMAIN tree |-> Parent(b)]
<1>1. PICK f \in [DOMAIN tree -> Seq(Nat)] : Computes(f, DOMAIN tree, Genesis, par, <<>>, step)
  <2>1. \A c \in DOMAIN tree, v \in Seq(Nat) : step[<<c, v>>] \in Seq(Nat)
    BY DEF TreeOk
  <2>2. IsTree(DOMAIN tree, Genesis, par)
    BY DEF TreeOk, IsTree
  <2>3. <<>> \in Seq(Nat)
    OBVIOUS
  <2> HIDE DEF step, par
  <2> QED BY TreeRecursion, <2>1, <2>2, <2>3
<1>2. f = [c \in DOMAIN tree |-> IF c = Genesis THEN <<>> ELSE Append(f[Parent(c)], c)]
  BY <1>1 DEF TreeOk, Computes
<1> DEFINE up == CHOOSE g : g = [c \in DOMAIN tree |-> IF c = Genesis THEN <<>> ELSE Append(g[Parent(c)], c)]
<1>3. up = [c \in DOMAIN tree |-> IF c = Genesis THEN <<>> ELSE Append(up[Parent(c)], c)]
  BY <1>2
<1>4. \A b \in DOMAIN tree : Path(b) = up[b]
  BY DEF Path
<1> HIDE DEF up
<1>5. \A b \in DOMAIN tree : Path(b) = IF b = Genesis THEN <<>> ELSE Append(Path(Parent(b)), b)
  BY <1>3, <1>4 DEF TreeOk
<1>6. \A b \in DOMAIN tree : Path(b) \in Seq(Nat)
  <2> DEFINE T == {b \in DOMAIN tree : Path(b) \notin Seq(Nat)}
  <2> SUFFICES ASSUME T # {} PROVE FALSE
    OBVIOUS
  <2>1. PICK m \in T : \A k \in T : m <= k
    BY LeastNat, T \subseteq Nat DEF TreeOk
  <2>2. m # Genesis
    <3>1. Path(Genesis) = <<>> /\ <<>> \in Seq(Nat)
      BY <1>5 DEF TreeOk
    <3> QED BY <2>1, <3>1
  <2>3. Parent(m) \in DOMAIN tree /\ Parent(m) \notin T /\ m \in Nat
    BY <2>1, <2>2 DEF TreeOk
  <2>4. Path(Parent(m)) \in Seq(Nat) /\ Path(m) = Append(Path(Parent(m)), m)
    BY <1>5, <2>1, <2>2, <2>3
  <2>5. \A q \in Seq(Nat), e \in Nat : Append(q, e) \in Seq(Nat)
    OBVIOUS
  <2>6. Path(m) \in Seq(Nat)
    BY <2>3, <2>4, <2>5, Zenon
  <2> QED BY <2>1, <2>6
<1> QED BY <1>5, <1>6

\* A branch has one block for each number, and the branch of such a block is
\* the part of it up to the block.
OnBranch(b, H) ==
  /\ Path(b) \in Seq(H \ {Genesis}) /\ Len(Path(b)) = Number(b)
  /\ b # Genesis => Number(b) > 0 /\ Path(b)[Number(b)] = b
  /\ \A i \in 1 .. Number(b) :
       /\ Number(Path(b)[i]) = i
       /\ Path(Path(b)[i]) = SubSeq(Path(b), 1, i)
       /\ Path(Parent(Path(b)[i])) = SubSeq(Path(b), 1, i - 1)

\* Every branch of known blocks is like that.
LEMMA PathFacts ==
  ASSUME TreeOk, NEW H, Closed(H)
  PROVE  \A b \in H : OnBranch(b, H)
<1> DEFINE T == {b \in H : ~OnBranch(b, H)}
<1> SUFFICES ASSUME T # {} PROVE FALSE
  OBVIOUS
<1>1. PICK b \in T : \A k \in T : b <= k
  <2>1. T \subseteq Nat
    BY DEF Closed, TreeOk
  <2> HIDE DEF T
  <2> QED BY <2>1, LeastNat
<1>2. b # Genesis
  <2> SUFFICES ASSUME b = Genesis PROVE FALSE
    OBVIOUS
  <2>1. Path(b) = <<>> /\ Number(b) = 0
    BY PathDef DEF TreeOk
  <2>2. OnBranch(b, H)
    BY <2>1 DEF OnBranch
  <2> QED BY <1>1, <2>2
<1>3. /\ b \in H \ {Genesis} /\ b \in DOMAIN tree /\ b \in Nat
      /\ Parent(b) \in H /\ Parent(b) < b /\ Parent(b) \in Nat
      /\ Number(b) = Number(Parent(b)) + 1 /\ Number(Parent(b)) \in Nat
  BY <1>1, <1>2 DEF Closed, TreeOk
<1>4. OnBranch(Parent(b), H)
  BY <1>1, <1>3
<1> DEFINE p == Path(b)
           q == Path(Parent(b))
           n == Number(Parent(b))
<1>5. p = Append(q, b) /\ q \in Seq(H \ {Genesis}) /\ Len(q) = n /\ n \in Nat /\ Number(b) = n + 1
  BY <1>2, <1>3, <1>4, PathDef DEF OnBranch
<1> HIDE DEF p, q, n
<1>6. /\ p \in Seq(H \ {Genesis}) /\ Len(p) = n + 1 /\ p[n + 1] = b
      /\ \A i \in 1 .. n : p[i] = q[i]
  BY <1>3, <1>5
<1>7. ASSUME NEW i \in 1 .. n + 1
      PROVE  /\ Number(p[i]) = i
             /\ Path(p[i]) = SubSeq(p, 1, i)
             /\ Path(Parent(p[i])) = SubSeq(p, 1, i - 1)
  <2>1. CASE i = n + 1
    <3>1. SubSeq(p, 1, n + 1) = p
      BY <1>6, WholeSeq
    <3>2. SubSeq(p, 1, n) = SubSeq(q, 1, n)
      BY <1>3, <1>5, PrefixOfAppend
    <3>3. SubSeq(q, 1, n) = q
      BY <1>5, WholeSeq
    <3>4. i - 1 = n /\ p[i] = b
      BY <1>5, <1>6, <2>1
    <3> QED BY <1>5, <2>1, <3>1, <3>2, <3>3, <3>4 DEF p, q
  <2>2. CASE i \in 1 .. n
    <3>1. /\ Number(q[i]) = i /\ Path(q[i]) = SubSeq(q, 1, i)
          /\ Path(Parent(q[i])) = SubSeq(q, 1, i - 1)
      BY <1>4, <2>2 DEF OnBranch, q, n
    <3>2. i \in 0 .. n /\ i - 1 \in 0 .. n /\ p[i] = q[i]
      BY <1>5, <1>6, <2>2
    <3>3. SubSeq(p, 1, i) = SubSeq(q, 1, i) /\ SubSeq(p, 1, i - 1) = SubSeq(q, 1, i - 1)
      BY <1>3, <1>5, <3>2, PrefixOfAppend
    <3> QED BY <3>1, <3>2, <3>3
  <2> QED BY <1>5, <2>1, <2>2
<1>8. OnBranch(b, H)
  <2>1. Number(b) > 0 /\ p[Number(b)] = b /\ Len(p) = Number(b)
    BY <1>5, <1>6
  <2> QED BY <1>5, <1>6, <1>7, <2>1 DEF OnBranch, p
<1> QED BY <1>1, <1>8

-----------------------------------------------------------------------------
(* The state of a branch *)

\* Accounts and storage with the first k blocks of a branch, and their change
\* sets.
StateOf(p, k) ==
  [world |-> SubSeq(p, 1, k), changes |-> [n \in 1 .. k |-> SubSeq(p, 1, n - 1)]]

\* Unwinding the last block leads to the state before it.
LEMMA UnwindsOne ==
  ASSUME NEW p, NEW k \in Nat \ {0}
  PROVE  UnwindStateChanges(StateOf(p, k), k) = StateOf(p, k - 1)
<1> DEFINE before == [n \in 1 .. k |-> SubSeq(p, 1, n - 1)]
<1>1. /\ StateOf(p, k).changes = before /\ DOMAIN before = 1 .. k
      /\ k \in DOMAIN before /\ before[k] = SubSeq(p, 1, k - 1)
  BY DEF StateOf
<1>2. (1 .. k) \ {k} = 1 .. k - 1
  OBVIOUS
<1>3. [j \in DOMAIN before \ {k} |-> before[j]] = [n \in 1 .. k - 1 |-> SubSeq(p, 1, n - 1)]
  BY <1>2
<1> HIDE DEF before
<1> QED BY <1>1, <1>3 DEF UnwindStateChanges, StateOf

\* unwind_last_changes leads to the state of the ancestor.
LEMMA Unwinds ==
  ASSUME NEW p, NEW k \in Nat, NEW a \in 0 .. k
  PROVE  UnwindLastChanges(StateOf(p, k), a, k) = StateOf(p, a)
<1> DEFINE s == StateOf(p, k)
           Eq(f) == f = [i \in 0 .. k - a |->
                           IF i = 0 THEN s ELSE UnwindStateChanges(f[i - 1], k + 1 - i)]
           g == [i \in 0 .. k - a |-> StateOf(p, k - i)]
           down == CHOOSE f : Eq(f)
<1>1. ASSUME NEW i \in 1 .. k - a
      PROVE  UnwindStateChanges(StateOf(p, k - (i - 1)), k + 1 - i) = StateOf(p, k - i)
  <2>1. k - (i - 1) = k + 1 - i /\ k + 1 - i \in Nat \ {0} /\ (k + 1 - i) - 1 = k - i
    OBVIOUS
  <2> QED BY <2>1, UnwindsOne
<1>2. Eq(g)
  <2>1. ASSUME NEW i \in 0 .. k - a
        PROVE  StateOf(p, k - i) = IF i = 0 THEN s ELSE UnwindStateChanges(g[i - 1], k + 1 - i)
    <3>1. CASE i = 0
      BY <3>1
    <3>2. CASE i # 0
      <4>1. i \in 1 .. k - a /\ g[i - 1] = StateOf(p, k - (i - 1))
        BY <3>2
      <4> HIDE DEF g
      <4> QED BY <1>1, <3>2, <4>1
    <3> QED BY <3>1, <3>2
  <2>2. g = [i \in 0 .. k - a |-> StateOf(p, k - i)]
    OBVIOUS
  <2> HIDE DEF g
  <2> QED BY <2>1, <2>2
<1>3. Eq(down)
  <2> HIDE DEF Eq
  <2> QED BY <1>2
<1>4. UnwindLastChanges(s, a, k) = down[k - a]
  BY DEF UnwindLastChanges
<1> HIDE DEF down, g, s
<1>5. \A i \in 0 .. k - a : down[i] = StateOf(p, k - i)
  <2> DEFINE T == {i \in 0 .. k - a : down[i] # StateOf(p, k - i)}
  <2> SUFFICES ASSUME T # {} PROVE FALSE
    OBVIOUS
  <2>1. PICK i \in T : \A j \in T : i <= j
    BY LeastNat, T \subseteq Nat
  <2>2. i # 0
    <3>1. down[0] = s /\ s = StateOf(p, k - 0)
      BY <1>3 DEF s
    <3> QED BY <2>1, <3>1
  <2>3. i \in 1 .. k - a /\ i - 1 \in 0 .. k - a /\ i - 1 \notin T
    BY <2>1, <2>2
  <2>4. down[i - 1] = StateOf(p, k - (i - 1))
    BY <2>3
  <2>5. down[i] = UnwindStateChanges(down[i - 1], k + 1 - i)
    BY <1>3, <2>2, <2>3
  <2>6. down[i] = StateOf(p, k - i)
    BY <1>1, <2>3, <2>4, <2>5
  <2> QED BY <2>1, <2>6
<1>6. k - a \in 0 .. k - a /\ k - (k - a) = a
  OBVIOUS
<1>7. down[k - a] = StateOf(p, a)
  BY <1>5, <1>6
<1> QED BY <1>4, <1>7 DEF s

\* What keeps a block from being executed.
Fails(x, check) == ~tree[x].executes \/ (check /\ ~tree[x].root)

\* execute_block on the state of its parent: the state of the block or, if it
\* fails, the one there was.
LEMMA ExecutesOne ==
  ASSUME TreeOk, NEW H, Closed(H), NEW b \in H, NEW k \in 1 .. Number(b), NEW check
  PROVE  ExecuteBlock(StateOf(Path(b), k - 1), Path(b)[k], check) =
           IF Fails(Path(b)[k], check) THEN [ok |-> FALSE, s |-> StateOf(Path(b), k - 1)]
           ELSE [ok |-> TRUE, s |-> StateOf(Path(b), k)]
<1> DEFINE p == Path(b)
           x == p[k]
           s == StateOf(p, k - 1)
<1>1. /\ p \in Seq(H \ {Genesis}) /\ Len(p) = Number(b) /\ Number(x) = k
      /\ Path(Parent(x)) = SubSeq(p, 1, k - 1)
  BY PathFacts DEF OnBranch
<1>2. Number(b) \in Nat /\ k \in Nat \ {0}
  BY DEF Closed, TreeOk
<1>3. s.world = Path(Parent(x))
  BY <1>1 DEF StateOf
<1>4. Written(s, x) = StateOf(p, k)
  <2>1. Append(SubSeq(p, 1, k - 1), x) = SubSeq(p, 1, k)
    BY <1>1, NextPrefix
  <2> HIDE DEF p, x
  <2>2. Put([n \in 1 .. k - 1 |-> SubSeq(p, 1, n - 1)], k, SubSeq(p, 1, k - 1)) =
          [n \in 1 .. k |-> SubSeq(p, 1, n - 1)]
    <3> DEFINE r == [n \in 1 .. k - 1 |-> SubSeq(p, 1, n - 1)]
    <3>1. (1 .. k - 1) \cup {k} = 1 .. k
      BY <1>2
    <3>2. DOMAIN r = 1 .. k - 1 /\ \A n \in 1 .. k - 1 : r[n] = SubSeq(p, 1, n - 1) /\ n # k
      BY <1>2
    <3> HIDE DEF r
    <3>3. Put(r, k, SubSeq(p, 1, k - 1)) = [n \in 1 .. k |-> SubSeq(p, 1, n - 1)]
      BY <3>1, <3>2 DEF Put
    <3> QED BY <3>3 DEF r
  <2>3. s.world = SubSeq(p, 1, k - 1) /\ s.changes = [n \in 1 .. k - 1 |-> SubSeq(p, 1, n - 1)]
    BY DEF StateOf
  <2> QED BY <1>1, <2>1, <2>2, <2>3 DEF Written, StateOf
<1>5. UnwindStateChanges(StateOf(p, k), k) = s
  BY <1>2, UnwindsOne
<1> HIDE DEF p, x, s
<1>6. Executes(s, x) <=> tree[x].executes
  BY <1>3 DEF Executes
<1>7. ExecuteBlock(s, x, check) =
        IF Fails(x, check) THEN [ok |-> FALSE, s |-> s] ELSE [ok |-> TRUE, s |-> StateOf(p, k)]
  BY <1>1, <1>4, <1>5, <1>6 DEF ExecuteBlock, Fails
<1> QED BY <1>7 DEF p, x, s

\* The part of a branch above its first a blocks.
LEMMA Rest ==
  ASSUME NEW S, NEW p \in Seq(S), NEW a \in 0 .. Len(p)
  PROVE  /\ Len(SubSeq(p, a + 1, Len(p))) = Len(p) - a
         /\ \A i \in 1 .. Len(p) - a : SubSeq(p, a + 1, Len(p))[i] = p[a + i]
OBVIOUS

\* The loop over the rest of a branch, on the state of its first a blocks: it
\* ends with the state of the branch, or of what is below the first block that
\* fails.
Executed(r, b, a, check) ==
  /\ r.n \in 0 .. Number(b) - a /\ r.s = StateOf(Path(b), a + r.n)
  /\ r.ok => /\ r.n = Number(b) - a
             /\ \A i \in a + 1 .. Number(b) : ~Fails(Path(b)[i], check)
  /\ ~r.ok => a + r.n + 1 \in a + 1 .. Number(b) /\ Fails(Path(b)[a + r.n + 1], check)

\* That is what ExecuteChain does, whatever the branch.
LEMMA ExecutesChain ==
  ASSUME TreeOk, NEW H, Closed(H), NEW b \in H, NEW a \in 0 .. Number(b), NEW check,
         NEW r, r = ExecuteChain(StateOf(Path(b), a), SubSeq(Path(b), a + 1, Number(b)), check)
  PROVE  Executed(r, b, a, check)
<1> SUFFICES /\ r.n \in 0 .. Number(b) - a /\ r.s = StateOf(Path(b), a + r.n)
             /\ r.ok => /\ r.n = Number(b) - a
                        /\ \A i \in a + 1 .. Number(b) : ~Fails(Path(b)[i], check)
             /\ ~r.ok => a + r.n + 1 \in a + 1 .. Number(b) /\ Fails(Path(b)[a + r.n + 1], check)
  BY DEF Executed
<1> DEFINE p == Path(b)
           L == Number(b) - a
           chain == SubSeq(p, a + 1, Number(b))
           s == StateOf(p, a)
           Step(q, i) == LET e == ExecuteBlock(q.s, chain[i], check)
                         IN IF ~q.ok THEN q ELSE [n |-> q.n + (IF e.ok THEN 1 ELSE 0),
                                                  ok |-> e.ok, s |-> e.s]
           Eq(f) == f = [i \in 0 .. L |-> IF i = 0 THEN [n |-> 0, ok |-> TRUE, s |-> s]
                                          ELSE Step(f[i - 1], i)]
           after == CHOOSE f : Eq(f)
           Good(m) == [n |-> m, ok |-> TRUE, s |-> StateOf(p, a + m)]
           Bad(m) == [n |-> m, ok |-> FALSE, s |-> StateOf(p, a + m)]
           bads == {i \in 1 .. L : Fails(p[a + i], check)}
<1>1. Number(b) \in Nat /\ a \in Nat /\ L \in Nat
  BY DEF Closed, TreeOk
<1>2. p \in Seq(H \ {Genesis}) /\ Len(p) = Number(b)
  BY PathFacts DEF OnBranch
<1>3. Len(chain) = L /\ \A i \in 1 .. L : chain[i] = p[a + i]
  BY <1>2, Rest
<1>4. ASSUME NEW i \in 1 .. L
      PROVE  Step(Good(i - 1), i) = IF i \in bads THEN Bad(i - 1) ELSE Good(i)
  <2>1. a + i \in 1 .. Number(b) /\ (a + i) - 1 = a + (i - 1) /\ chain[i] = p[a + i] /\ (i - 1) + 1 = i
        /\ (i - 1) + 0 = i - 1
    BY <1>1, <1>3
  <2>2. ExecuteBlock(StateOf(p, a + (i - 1)), chain[i], check) =
          IF Fails(p[a + i], check) THEN [ok |-> FALSE, s |-> StateOf(p, a + (i - 1))]
          ELSE [ok |-> TRUE, s |-> StateOf(p, a + i)]
    BY <2>1, ExecutesOne
  <2>3. CASE i \in bads
    <3> DEFINE e == ExecuteBlock(StateOf(p, a + (i - 1)), chain[i], check)
    <3>1. e = [ok |-> FALSE, s |-> StateOf(p, a + (i - 1))]
      BY <2>2, <2>3
    <3>2. Good(i - 1).ok /\ Good(i - 1).s = StateOf(p, a + (i - 1)) /\ Good(i - 1).n = i - 1
      OBVIOUS
    <3>3. Step(Good(i - 1), i) = [n |-> (i - 1) + (IF e.ok THEN 1 ELSE 0), ok |-> e.ok, s |-> e.s]
      BY Zenon, <3>2
    <3> HIDE DEF Step, e, p, chain
    <3>4. ~e.ok /\ e.s = StateOf(p, a + (i - 1)) /\ e.ok = FALSE
      BY <3>1
    <3> QED BY <2>1, <2>3, <3>3, <3>4
  <2>4. CASE i \notin bads
    <3> DEFINE e == ExecuteBlock(StateOf(p, a + (i - 1)), chain[i], check)
    <3>1. e = [ok |-> TRUE, s |-> StateOf(p, a + i)]
      BY <2>2, <2>4
    <3>2. Good(i - 1).ok /\ Good(i - 1).s = StateOf(p, a + (i - 1)) /\ Good(i - 1).n = i - 1
      OBVIOUS
    <3>3. Step(Good(i - 1), i) = [n |-> (i - 1) + (IF e.ok THEN 1 ELSE 0), ok |-> e.ok, s |-> e.s]
      BY Zenon, <3>2
    <3> HIDE DEF Step, e, p, chain
    <3>4. e.ok /\ e.s = StateOf(p, a + i) /\ e.ok = TRUE
      BY <3>1
    <3> QED BY <2>1, <2>4, <3>3, <3>4
  <2> QED BY <2>3, <2>4
<1>5. \A m, i : Step(Bad(m), i) = Bad(m)
  OBVIOUS
<1> HIDE DEF p, L, chain, s, Step, Good, Bad
<1>6. PICK j \in 1 .. L + 1 : /\ \A i \in 1 .. L : i < j => i \notin bads
                              /\ j \in 1 .. L => j \in bads
  <2>1. CASE bads = {}
    <3>1. L + 1 \in 1 .. L + 1 /\ L + 1 \notin 1 .. L
      BY <1>1
    <3> QED BY <2>1, <3>1
  <2>2. CASE bads # {}
    <3>1. PICK j \in bads : \A k \in bads : j <= k
      BY <2>2, LeastNat, bads \subseteq Nat
    <3>2. j \in 1 .. L + 1 /\ \A i \in 1 .. L : i < j => ~(j <= i)
      BY <1>1, <3>1
    <3> QED BY <3>1, <3>2
  <2> QED BY <2>1, <2>2
<1> DEFINE g == [i \in 0 .. L |-> IF i < j THEN Good(i) ELSE Bad(j - 1)]
<1>7. ASSUME NEW i \in 1 .. L
      PROVE  Step(IF i - 1 < j THEN Good(i - 1) ELSE Bad(j - 1), i) = IF i < j THEN Good(i) ELSE Bad(j - 1)
  <2> HIDE DEF bads
  <2>0. i \in Nat /\ j \in Nat
    BY <1>1
  <2>1. CASE i < j
    <3>1. i - 1 < j /\ i \notin bads
      BY <1>6, <2>0, <2>1
    <3> QED BY <1>4, <2>1, <3>1
  <2>2. CASE i = j
    <3>1. i - 1 < j /\ ~(i < j) /\ i \in bads /\ i - 1 = j - 1
      BY <1>6, <2>0, <2>2
    <3> QED BY <1>4, <3>1
  <2>3. CASE i > j
    <3>1. ~(i - 1 < j) /\ ~(i < j)
      BY <2>0, <2>3
    <3> QED BY <1>5, <3>1
  <2> QED BY <2>0, <2>1, <2>2, <2>3
<1>8. 0 < j /\ Good(0) = [n |-> 0, ok |-> TRUE, s |-> s]
  BY <1>1 DEF Good, s
<1>9. Eq(g)
  <2>1. ASSUME NEW i \in 0 .. L
        PROVE  g[i] = IF i = 0 THEN [n |-> 0, ok |-> TRUE, s |-> s] ELSE Step(g[i - 1], i)
    <3>1. CASE i = 0
      BY <1>8, <3>1
    <3>2. CASE i # 0
      <4>1. /\ i \in 1 .. L /\ g[i - 1] = (IF i - 1 < j THEN Good(i - 1) ELSE Bad(j - 1))
            /\ g[i] = IF i < j THEN Good(i) ELSE Bad(j - 1)
        BY <1>1, <3>2
      <4> HIDE DEF g
      <4> QED BY <1>7, <3>2, <4>1
    <3> QED BY <3>1, <3>2
  <2>2. g = [i \in 0 .. L |-> g[i]]
    OBVIOUS
  <2> HIDE DEF g
  <2> QED BY <2>1, <2>2
<1>10. Eq(after)
  <2> HIDE DEF Eq, g
  <2> QED BY Zenon, <1>9
<1>11. r = after[L]
  BY <1>3 DEF ExecuteChain, p, L, chain, s, Step
<1> HIDE DEF after, g
<1>12. \A i \in 0 .. L : after[i] = IF i < j THEN Good(i) ELSE Bad(j - 1)
  <2> DEFINE T == {i \in 0 .. L : after[i] # IF i < j THEN Good(i) ELSE Bad(j - 1)}
  <2> SUFFICES ASSUME T # {} PROVE FALSE
    OBVIOUS
  <2>1. PICK i \in T : \A k \in T : i <= k
    BY LeastNat, T \subseteq Nat
  <2>2. i # 0
    <3>1. after[0] = Good(0)
      BY <1>1, <1>8, <1>10
    <3> QED BY <1>8, <2>1, <3>1
  <2>3. i \in 1 .. L /\ i - 1 \in 0 .. L /\ i - 1 \notin T
    BY <1>1, <2>1, <2>2
  <2>4. after[i - 1] = IF i - 1 < j THEN Good(i - 1) ELSE Bad(j - 1)
    BY <2>3
  <2>5. after[i] = Step(after[i - 1], i)
    BY <1>10, <2>2, <2>3
  <2>6. after[i] = IF i < j THEN Good(i) ELSE Bad(j - 1)
    BY <1>7, <2>3, <2>4, <2>5
  <2> QED BY <2>1, <2>6
<1>13. CASE j = L + 1
  <2>1. r = Good(L)
    BY <1>1, <1>11, <1>12, <1>13
  <2>2. r.n = L /\ r.ok /\ r.s = StateOf(p, a + L) /\ L \in 0 .. L
    BY <1>1, <2>1 DEF Good
  <2>3. ASSUME NEW i \in a + 1 .. Number(b) PROVE ~Fails(p[i], check)
    <3>1. i - a \in 1 .. L /\ i - a < j /\ a + (i - a) = i
      BY <1>1, <1>13 DEF L
    <3>2. i - a \notin bads
      BY <1>6, <3>1
    <3> QED BY <3>1, <3>2
  <2> QED BY <2>2, <2>3 DEF p, L
<1>14. CASE j \in 1 .. L
  <2>1. r = Bad(j - 1)
    BY <1>1, <1>11, <1>12, <1>14
  <2>2. r.n = j - 1 /\ ~r.ok /\ r.s = StateOf(p, a + (j - 1)) /\ j - 1 \in 0 .. L
    BY <1>1, <1>14, <2>1 DEF Bad
  <2>3. a + (j - 1) + 1 = a + j /\ a + j \in a + 1 .. Number(b)
    BY <1>1, <1>14 DEF L
  <2>4. Fails(p[a + j], check)
    BY <1>6, <1>14
  <2> QED BY <2>2, <2>3, <2>4 DEF p, L
<1> QED BY <1>1, <1>13, <1>14

-----------------------------------------------------------------------------
(* The canonical chain *)

\* t is the tip of the canonical chain.
CanonicalUpTo(t) == canonical = <<Genesis>> \o Path(t)

\* What canonical_hashes holds.
LEMMA CanonicalFacts ==
  ASSUME TreeOk, NEW H, Closed(H), NEW t \in H, CanonicalUpTo(t)
  PROVE  /\ Tip = Number(t) /\ Number(t) \in Nat /\ CanonicalHash(Tip) = t
         /\ Len(canonical) = Number(t) + 1 /\ Tail(canonical) = Path(t)
         /\ CanonicalHash(0) = Genesis
         /\ \A n \in 1 .. Number(t) : CanonicalHash(n) = Path(t)[n]
         /\ \A n \in Nat : n > Number(t) => CanonicalHash(n) = None
<1> DEFINE p == Path(t)
<1>1. /\ p \in Seq(H \ {Genesis}) /\ Len(p) = Number(t) /\ Number(t) \in Nat
      /\ t # Genesis => Number(t) > 0 /\ p[Number(t)] = t
      /\ Number(Genesis) = 0 /\ H \subseteq Nat
  BY PathFacts DEF OnBranch, Closed, TreeOk
<1>2. canonical = <<Genesis>> \o p
  BY DEF CanonicalUpTo
<1> HIDE DEF p
<1>3. p \in Seq(Nat) /\ Genesis \in Nat
  BY PathDef DEF Genesis, Closed, p
<1>4. /\ canonical \in Seq(Nat) /\ Len(canonical) = Number(t) + 1 /\ canonical[1] = Genesis
      /\ \A n \in 1 .. Number(t) : canonical[n + 1] = p[n]
  BY <1>1, <1>2, <1>3
<1>5. Tip = Number(t)
  BY <1>1, <1>4 DEF Tip
<1>6. CanonicalHash(0) = Genesis
  BY <1>1, <1>4 DEF CanonicalHash
<1>7. \A n \in 1 .. Number(t) : CanonicalHash(n) = p[n]
  BY <1>1, <1>4 DEF CanonicalHash
<1>8. \A n \in Nat : n > Number(t) => CanonicalHash(n) = None
  BY <1>1, <1>4 DEF CanonicalHash
<1>9. CanonicalHash(Number(t)) = t
  <2>1. CASE t = Genesis
    BY <1>1, <1>6, <2>1
  <2>2. CASE t # Genesis
    BY <1>1, <1>7, <2>2
  <2> QED BY <2>1, <2>2
<1>10. Tail(canonical) = p
  <2>1. /\ Tail(canonical) \in Seq(Nat) /\ Len(Tail(canonical)) = Len(p)
        /\ \A i \in 1 .. Len(Tail(canonical)) : Tail(canonical)[i] = p[i]
    BY <1>1, <1>4
  <2> QED BY <1>3, <2>1, SameSeq
<1> QED BY <1>1, <1>4, <1>5, <1>6, <1>7, <1>8, <1>9, <1>10 DEF p

\* canonical_ancestor satisfies the equation that defines it.
LEMMA AncestorDef ==
  ASSUME TreeOk, CanonicalHash(0) = Genesis
  PROVE  \A b \in DOMAIN tree :
           CanonicalAncestor(b) = IF CanonicalHash(Number(b)) = b THEN Number(b)
                                  ELSE CanonicalAncestor(Parent(b))
<1> DEFINE step == [q \in (DOMAIN tree) \X Nat |->
                      IF CanonicalHash(Number(q[1])) = q[1] THEN Number(q[1]) ELSE q[2]]
           par == [b \in DOMAIN tree |-> Parent(b)]
<1>1. PICK f \in [DOMAIN tree -> Nat] : Computes(f, DOMAIN tree, Genesis, par, 0, step)
  <2>1. \A c \in DOMAIN tree, v \in Nat : step[<<c, v>>] \in Nat
    BY DEF TreeOk
  <2>2. IsTree(DOMAIN tree, Genesis, par)
    BY DEF TreeOk, IsTree
  <2> HIDE DEF step, par
  <2> QED BY TreeRecursion, <2>1, <2>2
<1>2. f = [c \in DOMAIN tree |-> IF CanonicalHash(Number(c)) = c THEN Number(c) ELSE f[Parent(c)]]
  <2>1. ASSUME NEW c \in DOMAIN tree
        PROVE  f[c] = IF CanonicalHash(Number(c)) = c THEN Number(c) ELSE f[Parent(c)]
    <3>1. f[c] = IF c = Genesis THEN 0 ELSE step[<<c, f[par[c]]>>]
      BY <1>1 DEF Computes
    <3>2. CASE c = Genesis
      BY <3>1, <3>2 DEF TreeOk
    <3>3. CASE c # Genesis
      <4>1. par[c] = Parent(c) /\ f[Parent(c)] \in Nat
        BY <1>1, <3>3 DEF TreeOk
      <4>2. step[<<c, f[Parent(c)]>>] =
              IF CanonicalHash(Number(c)) = c THEN Number(c) ELSE f[Parent(c)]
        BY <4>1
      <4> QED BY <3>1, <3>3, <4>1, <4>2
    <3> QED BY <3>2, <3>3
  <2>2. f = [c \in DOMAIN tree |-> f[c]]
    BY <1>1
  <2> HIDE DEF step, par
  <2> QED BY <2>1, <2>2
<1> DEFINE up == CHOOSE g : g = [c \in DOMAIN tree |->
                                  IF CanonicalHash(Number(c)) = c THEN Number(c) ELSE g[Parent(c)]]
<1>3. up = [c \in DOMAIN tree |-> IF CanonicalHash(Number(c)) = c THEN Number(c) ELSE up[Parent(c)]]
  BY <1>2
<1>4. \A b : CanonicalAncestor(b) = up[b]
  BY DEF CanonicalAncestor
<1> HIDE DEF up
<1> QED BY <1>3, <1>4

\* A branch is the canonical chain up to a.
Shared(b, t, a) ==
  /\ a \in 0 .. Number(b) /\ a <= Number(t)
  /\ SubSeq(Path(b), 1, a) = SubSeq(Path(t), 1, a)

\* canonical_ancestor finds a block up to which the branch is canonical.
LEMMA Ancestor ==
  ASSUME TreeOk, NEW H, Closed(H), NEW t \in H, CanonicalUpTo(t)
  PROVE  \A b \in H : Shared(b, t, CanonicalAncestor(b))
<1> DEFINE T == {b \in H : ~Shared(b, t, CanonicalAncestor(b))}
<1> SUFFICES ASSUME T # {} PROVE FALSE
  OBVIOUS
<1>1. PICK b \in T : \A k \in T : b <= k
  <2>1. T \subseteq Nat
    BY DEF Closed, TreeOk
  <2> HIDE DEF T
  <2> QED BY <2>1, LeastNat
<1>2. b \in H /\ b \in DOMAIN tree /\ b \in Nat /\ Number(b) \in Nat
  BY <1>1 DEF Closed, TreeOk
<1>3. CanonicalAncestor(b) = IF CanonicalHash(Number(b)) = b THEN Number(b)
                             ELSE CanonicalAncestor(Parent(b))
  BY <1>2, AncestorDef, CanonicalFacts
<1>4. CASE CanonicalHash(Number(b)) = b
  <2>1. CanonicalAncestor(b) = Number(b)
    BY <1>3, <1>4
  <2>2. OnBranch(b, H) /\ OnBranch(t, H)
    BY <1>2, PathFacts
  <2>3. SubSeq(Path(b), 1, Number(b)) = Path(b)
    BY <2>2, WholeSeq DEF OnBranch
  <2>4. CASE b = Genesis
    <3>1. Number(b) = 0 /\ Number(t) \in Nat
      BY <2>4, CanonicalFacts DEF TreeOk
    <3>2. SubSeq(Path(b), 1, 0) = SubSeq(Path(t), 1, 0)
      <4> DEFINE p == Path(b)
                 q == Path(t)
      <4>1. p \in Seq(H \ {Genesis}) /\ q \in Seq(H \ {Genesis}) /\ 0 \in 0 .. Len(p) /\ 0 \in 0 .. Len(q)
        BY <2>2 DEF OnBranch
      <4> HIDE DEF p, q
      <4>2. SubSeq(p, 1, 0) = SubSeq(q, 1, 0)
        BY <4>1
      <4> QED BY <4>2 DEF p, q
    <3> QED BY <1>1, <2>1, <3>1, <3>2 DEF Shared
  <2>5. CASE b # Genesis
    <3>1. Number(b) > 0 /\ Number(t) \in Nat
      BY <2>2, <2>5, CanonicalFacts DEF OnBranch
    <3>2. Number(b) <= Number(t)
      <4> SUFFICES ASSUME Number(b) > Number(t) PROVE FALSE
        BY <1>2, <3>1
      <4> QED BY <1>2, <1>4, CanonicalFacts, ChainAssumption
    <3>3. Number(b) \in 1 .. Number(t)
      BY <1>2, <3>1, <3>2
    <3>4. Path(t)[Number(b)] = b
      BY <1>4, <3>3, CanonicalFacts
    <3>5. Path(b) = SubSeq(Path(t), 1, Number(b))
      BY <2>2, <3>3, <3>4 DEF OnBranch
    <3> QED BY <1>1, <1>2, <2>1, <2>3, <3>2, <3>5 DEF Shared
  <2> QED BY <2>4, <2>5
<1>5. CASE CanonicalHash(Number(b)) # b
  <2>1. b # Genesis
    BY <1>5, CanonicalFacts DEF TreeOk
  <2> DEFINE c == Parent(b)
             a == CanonicalAncestor(c)
  <2>2. c \in H /\ c \notin T /\ Number(b) = Number(c) + 1 /\ Number(c) \in Nat
    BY <1>1, <1>2, <2>1 DEF Closed, TreeOk
  <2>3. Shared(c, t, a)
    BY <2>2
  <2>4. Path(b) = Append(Path(c), b) /\ OnBranch(c, H)
    BY <1>2, <2>1, <2>2, PathDef, PathFacts
  <2>5. Path(c) \in Seq(Nat) /\ Len(Path(c)) = Number(c)
    BY <1>2, <2>2, <2>4, PathDef DEF OnBranch, Closed
  <2>6. CanonicalAncestor(b) = a
    BY <1>3, <1>5
  <2> HIDE DEF c, a
  <2>7. SubSeq(Append(Path(c), b), 1, a) = SubSeq(Path(c), 1, a)
    BY <1>2, <2>3, <2>5, PrefixOfAppend DEF Shared
  <2>8. a \in 0 .. Number(b) /\ a <= Number(t) /\ SubSeq(Path(c), 1, a) = SubSeq(Path(t), 1, a)
    BY <2>2, <2>3 DEF Shared
  <2>9. Shared(b, t, a)
    BY <2>4, <2>7, <2>8 DEF Shared
  <2> QED BY <1>1, <2>6, <2>9
<1> QED BY <1>4, <1>5

\* What two branches share, their states share.
LEMMA SharedState ==
  ASSUME TreeOk, NEW H, Closed(H), NEW t \in H, NEW b \in H, NEW a, Shared(b, t, a)
  PROVE  StateOf(Path(b), a) = StateOf(Path(t), a)
<1>1. OnBranch(b, H) /\ OnBranch(t, H) /\ Number(b) \in Nat /\ Number(t) \in Nat
  BY PathFacts DEF Closed, TreeOk
<1> DEFINE p == Path(b)
           q == Path(t)
<1>2. /\ p \in Seq(H \ {Genesis}) /\ q \in Seq(H \ {Genesis}) /\ a \in Nat
      /\ a \in 0 .. Len(p) /\ a \in 0 .. Len(q) /\ SubSeq(p, 1, a) = SubSeq(q, 1, a)
  BY <1>1 DEF OnBranch, Shared
<1> HIDE DEF p, q
<1>3. ASSUME NEW n \in 1 .. a PROVE SubSeq(p, 1, n - 1) = SubSeq(q, 1, n - 1)
  <2>1. n - 1 \in 0 .. a
    BY <1>2
  <2>2. SubSeq(SubSeq(p, 1, a), 1, n - 1) = SubSeq(p, 1, n - 1)
    BY <1>2, <2>1, PrefixOfPrefix
  <2>3. SubSeq(SubSeq(q, 1, a), 1, n - 1) = SubSeq(q, 1, n - 1)
    BY <1>2, <2>1, PrefixOfPrefix
  <2> QED BY <1>2, <2>2, <2>3
<1>4. StateOf(p, a) = StateOf(q, a)
  BY <1>2, <1>3 DEF StateOf
<1> QED BY <1>4 DEF p, q

\* The canonical chain above the ancestor.
LEMMA CanonicalRest ==
  ASSUME TreeOk, NEW H, Closed(H), NEW t \in H, CanonicalUpTo(t), NEW a \in 0 .. Number(t)
  PROVE  SubSeq(canonical, a + 2, Len(canonical)) = SubSeq(Path(t), a + 1, Number(t))
<1> DEFINE p == Path(t)
           n == Number(t)
<1>1. p \in Seq(Nat) /\ Len(p) = n /\ n \in Nat /\ a \in 0 .. n
  BY PathDef, PathFacts, CanonicalFacts DEF OnBranch, Closed
<1>2. canonical = <<Genesis>> \o p /\ Len(canonical) = n + 1
  BY CanonicalFacts DEF CanonicalUpTo
<1> HIDE DEF p, n
<1>3. canonical \in Seq(Nat) /\ \A i \in 1 .. n : canonical[i + 1] = p[i]
  BY <1>1, <1>2 DEF Genesis
<1>4. /\ SubSeq(p, a + 1, n) \in Seq(Nat) /\ Len(SubSeq(p, a + 1, n)) = n - a
      /\ \A i \in 1 .. n - a : SubSeq(p, a + 1, n)[i] = p[a + i]
  BY <1>1
<1>5. /\ SubSeq(canonical, a + 2, n + 1) \in Seq(Nat) /\ Len(SubSeq(canonical, a + 2, n + 1)) = n - a
      /\ \A i \in 1 .. n - a : SubSeq(canonical, a + 2, n + 1)[i] = canonical[a + 1 + i]
  BY <1>1, <1>2, <1>3
<1>6. \A i \in 1 .. n - a : canonical[a + 1 + i] = p[a + i]
  <2> TAKE i \in 1 .. n - a
  <2>1. a + i \in 1 .. n /\ (a + i) + 1 = a + 1 + i
    BY <1>1
  <2> QED BY <1>3, <2>1
<1>7. SubSeq(canonical, a + 2, n + 1) = SubSeq(p, a + 1, n)
  BY <1>4, <1>5, <1>6, SameSeq
<1> QED BY <1>2, <1>7 DEF p, n

\* Decanonizing above the ancestor and canonizing the branch leaves the branch.
LEMMA Reorganizes ==
  ASSUME TreeOk, NEW H, Closed(H), NEW t \in H, CanonicalUpTo(t),
         NEW b \in H, NEW a, Shared(b, t, a)
  PROVE  Canonized(a, IntermediateChain(b, a)) = <<Genesis>> \o Path(b)
<1> DEFINE p == Path(t)
           q == Path(b)
           n == Number(t)
           m == Number(b)
<1>1. /\ p \in Seq(Nat) /\ Len(p) = n /\ n \in Nat /\ a \in 0 .. n
      /\ q \in Seq(Nat) /\ Len(q) = m /\ m \in Nat /\ a \in 0 .. m /\ a \in Nat
      /\ SubSeq(p, 1, a) = SubSeq(q, 1, a)
  <2>1. OnBranch(b, H) /\ OnBranch(t, H)
    BY PathFacts
  <2> QED BY <2>1, PathDef DEF OnBranch, Closed, TreeOk, Shared
<1>2. canonical = <<Genesis>> \o p /\ Len(canonical) = n + 1
  BY CanonicalFacts DEF CanonicalUpTo
<1> HIDE DEF p, q, n, m
<1>3. /\ canonical \in Seq(Nat) /\ canonical[1] = Genesis
      /\ \A i \in 1 .. n : canonical[i + 1] = p[i]
  BY <1>1, <1>2 DEF Genesis
<1>4. \A i \in 1 .. a : p[i] = q[i]
  <2> TAKE i \in 1 .. a
  <2>1. SubSeq(p, 1, a)[i] = p[i] /\ SubSeq(q, 1, a)[i] = q[i]
    BY <1>1, Prefix
  <2> QED BY <1>1, <2>1
<1> DEFINE u == SubSeq(canonical, 1, a + 1)
           v == SubSeq(q, a + 1, m)
           w == <<Genesis>> \o q
<1>5. u \in Seq(Nat) /\ Len(u) = a + 1 /\ \A i \in 1 .. a + 1 : u[i] = canonical[i]
  BY <1>1, <1>2, <1>3
<1>6. v \in Seq(Nat) /\ Len(v) = m - a /\ \A i \in 1 .. m - a : v[i] = q[a + i]
  BY <1>1
<1>7. /\ w \in Seq(Nat) /\ Len(w) = m + 1 /\ w[1] = Genesis
      /\ \A i \in 2 .. m + 1 : w[i] = q[i - 1]
  BY <1>1 DEF Genesis
<1> HIDE DEF u, v, w
<1>8. /\ u \o v \in Seq(Nat) /\ Len(u \o v) = m + 1
      /\ \A i \in 1 .. a + 1 : (u \o v)[i] = u[i]
      /\ \A i \in a + 2 .. m + 1 : (u \o v)[i] = v[i - (a + 1)]
  <2>1. (a + 1) + (m - a) = m + 1 /\ a + 1 \in Nat
    BY <1>1
  <2>2. /\ u \o v \in Seq(Nat) /\ Len(u \o v) = Len(u) + Len(v)
        /\ \A i \in 1 .. Len(u) : (u \o v)[i] = u[i]
        /\ \A i \in Len(u) + 1 .. Len(u) + Len(v) : (u \o v)[i] = v[i - Len(u)]
    BY <1>5, <1>6, Concat
  <2>3. (a + 1) + 1 = a + 2
    BY <1>1
  <2> QED BY <1>5, <1>6, <2>1, <2>2, <2>3
<1>9. ASSUME NEW i \in 1 .. m + 1 PROVE (u \o v)[i] = w[i]
  <2>1. CASE i = 1
    <3>1. 1 \in 1 .. a + 1
      BY <1>1
    <3> QED BY <1>3, <1>5, <1>7, <1>8, <2>1, <3>1
  <2>2. CASE i \in 2 .. a + 1
    <3>1. /\ i \in 1 .. a + 1 /\ i - 1 \in 1 .. a /\ i - 1 \in 1 .. n
          /\ i \in 2 .. m + 1 /\ (i - 1) + 1 = i
      BY <1>1, <2>2
    <3>2. (u \o v)[i] = canonical[i] /\ canonical[i] = p[i - 1] /\ p[i - 1] = q[i - 1]
      BY <1>3, <1>4, <1>5, <1>8, <3>1
    <3> QED BY <1>7, <3>1, <3>2
  <2>3. CASE i \in a + 2 .. m + 1
    <3>1. /\ i - (a + 1) \in 1 .. m - a /\ a + (i - (a + 1)) = i - 1 /\ i \in 2 .. m + 1
      BY <1>1, <2>3
    <3> QED BY <1>6, <1>7, <1>8, <2>3, <3>1
  <2>4. i = 1 \/ i \in 2 .. a + 1 \/ i \in a + 2 .. m + 1
    <3> HIDE DEF Genesis
    <3>1. a \in Nat /\ m \in Nat
      BY <1>1
    <3> QED BY <3>1
  <2> QED BY <2>1, <2>2, <2>3, <2>4
<1>10. u \o v = w
  BY <1>7, <1>8, <1>9, SameSeq
<1> QED BY <1>10 DEF Canonized, IntermediateChain, u, v, w, q, m

\* re_execute_canonical_chain succeeds and leads back to the canonical state,
\* however far the branch has been executed.
LEMMA Restores ==
  ASSUME TreeOk, NEW H, Closed(H), NEW t \in H, CanonicalUpTo(t),
         NEW b \in H, NEW a, Shared(b, t, a), NEW m \in 0 .. Number(b) - a,
         \A i \in 1 .. Number(t) : tree[Path(t)[i]].executes,
         NEW r, r = ReExecute(UnwindLastChanges(StateOf(Path(b), a + m), a, a + m), a)
  PROVE  r.ok /\ r.s = StateOf(Path(t), Number(t))
<1>1. Number(t) \in Nat /\ Number(b) \in Nat /\ a \in 0 .. Number(t) /\ a \in Nat
  BY DEF Closed, TreeOk, Shared
<1>2. UnwindLastChanges(StateOf(Path(b), a + m), a, a + m) = StateOf(Path(t), a)
  <2>1. a + m \in Nat /\ a \in 0 .. a + m
    BY <1>1
  <2>2. UnwindLastChanges(StateOf(Path(b), a + m), a, a + m) = StateOf(Path(b), a)
    BY <2>1, Unwinds
  <2> QED BY <2>2, SharedState
<1>3. r = ExecuteChain(StateOf(Path(t), a), SubSeq(Path(t), a + 1, Number(t)), FALSE)
  BY <1>1, <1>2, CanonicalRest DEF ReExecute
<1>4. Executed(r, t, a, FALSE)
  BY <1>1, <1>3, ExecutesChain
<1>5. r.ok
  <2> SUFFICES ASSUME ~r.ok PROVE FALSE
    OBVIOUS
  <2> DEFINE i == a + r.n + 1
  <2>1. i \in a + 1 .. Number(t) /\ Fails(Path(t)[i], FALSE)
    BY <1>4 DEF Executed
  <2> HIDE DEF i
  <2>2. i \in 1 .. Number(t)
    BY <1>1, <2>1
  <2> QED BY <2>1, <2>2 DEF Fails
<1>6. r.n = Number(t) - a /\ r.s = StateOf(Path(t), a + r.n)
  BY <1>4, <1>5 DEF Executed
<1>7. a + (Number(t) - a) = Number(t)
  BY <1>1
<1> QED BY <1>5, <1>6, <1>7

-----------------------------------------------------------------------------
(* The invariant *)

\* Weight satisfies the equation that defines it.
LEMMA WeightDef ==
  ASSUME TreeOk
  PROVE  \A b \in DOMAIN tree :
           /\ Choice!Weight[b] \in Nat
           /\ Choice!Weight[b] = tree[b].difficulty + IF b = Genesis THEN 0 ELSE Choice!Weight[Parent(b)]
<1> DEFINE step == [q \in (DOMAIN tree) \X Nat |-> tree[q[1]].difficulty + q[2]]
           par == [b \in DOMAIN tree |-> Parent(b)]
           v0 == tree[Genesis].difficulty
<1>1. PICK f \in [DOMAIN tree -> Nat] : Computes(f, DOMAIN tree, Genesis, par, v0, step)
  <2>1. \A c \in DOMAIN tree, v \in Nat : step[<<c, v>>] \in Nat
    BY DEF TreeOk
  <2>2. IsTree(DOMAIN tree, Genesis, par) /\ v0 \in Nat
    BY DEF TreeOk, IsTree
  <2> HIDE DEF step, par, v0
  <2> QED BY TreeRecursion, <2>1, <2>2
<1> DEFINE Sum(f_, c) == tree[c].difficulty + IF c = Genesis THEN 0 ELSE f_[tree[c].parent]
<1>2. f = [c \in DOMAIN tree |-> Sum(f, c)]
  <2>1. ASSUME NEW c \in DOMAIN tree PROVE f[c] = Sum(f, c)
    <3>1. f[c] = IF c = Genesis THEN v0 ELSE step[<<c, f[par[c]]>>]
      BY <1>1 DEF Computes
    <3>2. CASE c = Genesis
      BY <3>1, <3>2 DEF TreeOk
    <3>3. CASE c # Genesis
      <4>1. par[c] = tree[c].parent /\ f[tree[c].parent] \in Nat
        BY <1>1, <3>3 DEF TreeOk, Parent
      <4>2. step[<<c, f[tree[c].parent]>>] = tree[c].difficulty + f[tree[c].parent]
        BY <4>1
      <4> QED BY <3>1, <3>3, <4>1, <4>2
    <3> QED BY <3>2, <3>3
  <2>2. f = [c \in DOMAIN tree |-> f[c]]
    BY <1>1
  <2> HIDE DEF Sum, step, par
  <2> QED BY <2>1, <2>2
<1> DEFINE up == CHOOSE g : g = [c \in DOMAIN tree |-> Sum(g, c)]
<1>3. up = [c \in DOMAIN tree |-> Sum(up, c)]
  BY <1>2
<1>4. Choice!Weight = up
  BY DEF Choice!Weight
<1> HIDE DEF up
<1>5. \A c \in DOMAIN tree : up[c] = Sum(up, c)
  <2> HIDE DEF Sum
  <2> QED BY <1>3
<1>6. \A c \in DOMAIN tree : up[c] \in Nat
  <2> DEFINE T == {c \in DOMAIN tree : up[c] \notin Nat}
  <2> SUFFICES ASSUME T # {} PROVE FALSE
    OBVIOUS
  <2>1. PICK c \in T : \A k \in T : c <= k
    BY LeastNat, T \subseteq Nat DEF TreeOk
  <2>2. CASE c = Genesis
    BY <1>5, <2>1, <2>2 DEF TreeOk
  <2>3. CASE c # Genesis
    <3>1. Parent(c) \in DOMAIN tree /\ Parent(c) \notin T
      BY <2>1, <2>3 DEF TreeOk
    <3>2. up[tree[c].parent] \in Nat /\ tree[c].difficulty \in Nat
      BY <2>1, <3>1 DEF TreeOk, Parent
    <3> QED BY <1>5, <2>1, <2>3, <3>2
  <2> QED BY <2>2, <2>3
<1> QED BY <1>4, <1>5, <1>6 DEF Parent

\* The state belongs to a chain of blocks that execute, the total difficulties
\* are those of the branches, and only what is invalid is marked.
ChainInv ==
  /\ TreeOk /\ Closed(headers)
  /\ \A b \in headers \ {Genesis} : tree[b].executes
  /\ DOMAIN difficulty = headers /\ \A b \in headers : difficulty[b] = Choice!Weight[b]
  /\ \E t \in headers : /\ CanonicalUpTo(t)
                        /\ panic = None => State = StateOf(Path(t), Number(t))
  /\ panic \in {None, "sender", "underflow"}
  /\ OnlyBadIsBad

-----------------------------------------------------------------------------
(* What insert_block may do *)

\* It stops, and the state may be that of an ancestor.
Stopped ==
  /\ panic' \in {"sender", "underflow"}
  /\ UNCHANGED <<tree, headers, difficulty, canonical, bad>>

\* The branch of b is invalid: nothing changes but that b is marked.
Rejected(b) ==
  /\ \E x \in ToSet(Path(b)) : ~tree[x].executes \/ ~tree[x].root
  /\ bad' = bad \cup {b}
  /\ State' = State
  /\ UNCHANGED <<tree, headers, difficulty, canonical, panic>>

\* b becomes known, and canonical if it is heavier than the tip.
Accepted(b) ==
  /\ tree[b].executes
  /\ headers' = headers \cup {b}
  /\ difficulty' = Put(difficulty, b, Choice!Weight[b])
  /\ IF Choice!Weight[b] > Choice!Weight[CanonicalHash(Tip)]
     THEN canonical' = <<Genesis>> \o Path(b) /\ State' = StateOf(Path(b), Number(b))
     ELSE canonical' = canonical /\ State' = State
  /\ UNCHANGED <<tree, bad, panic>>

\* A block whose parent is known may be added.
LEMMA ClosedWith ==
  ASSUME TreeOk, Closed(headers), NEW b \in DOMAIN tree, b # Genesis, ParentKnown(b)
  PROVE  Closed(headers \cup {b})
<1>1. Number(b) = Number(Parent(b)) + 1 /\ Parent(b) \in headers
  <2>1. Number(b) \in Nat /\ Number(Parent(b)) \in Nat
    BY DEF TreeOk
  <2>2. Number(Parent(b)) = Number(b) - 1 /\ Parent(b) \in headers
    BY DEF ParentKnown
  <2> QED BY <2>1, <2>2
<1> QED BY <1>1 DEF Closed

\* Execution of a branch has one of these outcomes.
LEMMA InsertOutcome ==
  ASSUME ChainInv, panic = None, NEW b \in DOMAIN tree, b # Genesis, ParentKnown(b),
         NEW check, InsertExecuted(b, check)
  PROVE  Stopped \/ Rejected(b) \/ Accepted(b)
<1> DEFINE H == headers \cup {b}
           a == CanonicalAncestor(b)
           chain == IntermediateChain(b, a)
           s0 == UnwindLastChanges(State, a, Tip)
           r == ExecuteChain(s0, chain, check)
<1>1. TreeOk /\ Closed(H) /\ b \in H
  BY ClosedWith DEF ChainInv
<1>2. PICK t \in headers : CanonicalUpTo(t) /\ State = StateOf(Path(t), Number(t))
  BY DEF ChainInv
<1>3. t \in H
  OBVIOUS
<1> HIDE DEF H
<1>4. Shared(b, t, a)
  BY <1>1, <1>2, <1>3, Ancestor
<1>5. Tip = Number(t) /\ Number(t) \in Nat /\ CanonicalHash(Tip) = t
  BY <1>1, <1>2, <1>3, CanonicalFacts
<1>6. a \in 0 .. Number(b) /\ a \in 0 .. Number(t)
  BY <1>4, <1>5 DEF Shared
<1>7. s0 = StateOf(Path(b), a)
  BY <1>1, <1>2, <1>3, <1>4, <1>5, <1>6, Unwinds, SharedState
<1>8. Executed(r, b, a, check)
  BY <1>1, <1>6, <1>7, ExecutesChain DEF IntermediateChain
<1>9. \A i \in 1 .. Number(t) : tree[Path(t)[i]].executes
  <2>1. Path(t) \in Seq(headers \ {Genesis}) /\ Len(Path(t)) = Number(t)
    BY PathFacts DEF ChainInv, OnBranch
  <2>2. \A i \in 1 .. Number(t) : Path(t)[i] \in headers \ {Genesis}
    BY <2>1
  <2> QED BY <2>2 DEF ChainInv
<1>10. ASSUME Restore(r.s, a, r.n) PROVE State' = State /\ panic' = None /\ UNCHANGED canonical
  <2> DEFINE q == ReExecute(UnwindLastChanges(r.s, a, a + r.n), a)
  <2>1. r.n \in 0 .. Number(b) - a /\ r.s = StateOf(Path(b), a + r.n)
    BY <1>8 DEF Executed
  <2>2. q.ok /\ q.s = StateOf(Path(t), Number(t))
    <3> HIDE DEF a, r
    <3> QED BY <1>1, <1>2, <1>3, <1>4, <1>9, <2>1, Restores
  <2>3. SetState(q.s) /\ panic' = (IF q.ok THEN None ELSE "re_execute") /\ UNCHANGED canonical
    BY <1>10 DEF Restore
  <2> HIDE DEF q
  <2>4. world' = StateOf(Path(t), Number(t)).world /\ changes' = StateOf(Path(t), Number(t)).changes
    BY <2>2, <2>3 DEF SetState
  <2>5. State' = StateOf(Path(t), Number(t))
    BY <2>4 DEF State, StateOf
  <2> QED BY <1>2, <2>2, <2>3, <2>5
<1>11. CASE a = Number(b)
  BY <1>11 DEF InsertExecuted, Panic, Stopped
<1>12. CASE a # Number(b) /\ ~r.ok
  <2>1. /\ UNCHANGED <<tree, headers, difficulty>> /\ bad' = bad \cup {b}
        /\ Restore(r.s, a, r.n)
    BY <1>12 DEF InsertExecuted, Marked
  <2>2. PICK i \in a + 1 .. Number(b) : Fails(Path(b)[i], check)
    BY <1>8, <1>12 DEF Executed
  <2>3. Path(b) \in Seq(H \ {Genesis}) /\ Len(Path(b)) = Number(b) /\ Number(b) \in Nat
    BY <1>1, PathFacts DEF OnBranch, TreeOk
  <2>4. Path(b)[i] \in ToSet(Path(b))
    BY <1>6, <2>2, <2>3 DEF ToSet
  <2>5. \E x \in ToSet(Path(b)) : ~tree[x].executes \/ ~tree[x].root
    BY <2>2, <2>4 DEF Fails
  <2> QED BY <1>10, <2>1, <2>5 DEF Rejected
<1>13. CASE a # Number(b) /\ r.ok
  <2>1. /\ UNCHANGED <<tree, bad>> /\ headers' = headers \cup {b}
        /\ difficulty' = Put(difficulty, b, difficulty[Parent(b)] + tree[b].difficulty)
        /\ IF Heavier(b)
           THEN canonical' = Canonized(a, chain) /\ SetState(r.s) /\ UNCHANGED panic
           ELSE Restore(r.s, a, r.n)
    BY <1>13 DEF InsertExecuted
  <2>2. a < Number(b) /\ Number(b) \in Nat /\ Number(b) \in a + 1 .. Number(b) /\ Number(b) \in 1 .. Number(b)
    BY <1>1, <1>6, <1>13 DEF TreeOk
  <2>3. r.n = Number(b) - a /\ r.s = StateOf(Path(b), a + r.n) /\ ~Fails(Path(b)[Number(b)], check)
    BY <1>8, <1>13, <2>2 DEF Executed
  <2>4. r.s = StateOf(Path(b), Number(b))
    <3>1. a + (Number(b) - a) = Number(b)
      BY <1>6, <2>2
    <3> QED BY <2>3, <3>1
  <2>5. tree[b].executes
    <3>1. Path(b)[Number(b)] = b
      BY <1>1, PathFacts DEF OnBranch
    <3> QED BY <2>3, <3>1 DEF Fails
  <2>6. difficulty[Parent(b)] + tree[b].difficulty = Choice!Weight[b]
    <3>1. Parent(b) \in headers /\ difficulty[Parent(b)] = Choice!Weight[Parent(b)]
      BY DEF ChainInv, ParentKnown
    <3>2. /\ Choice!Weight[b] = tree[b].difficulty + Choice!Weight[Parent(b)]
          /\ Choice!Weight[Parent(b)] \in Nat /\ tree[b].difficulty \in Nat
      BY <1>1, WeightDef DEF TreeOk
    <3> QED BY <3>1, <3>2
  <2>7. Heavier(b) <=> Choice!Weight[b] > Choice!Weight[CanonicalHash(Tip)]
    <3>1. difficulty'[b] = Choice!Weight[b]
      BY <2>1, <2>6 DEF Put
    <3>2. difficulty[CanonicalHash(Tip)] = Choice!Weight[CanonicalHash(Tip)]
      BY <1>5 DEF ChainInv
    <3> QED BY <3>1, <3>2 DEF Heavier
  <2>8. CASE Heavier(b)
    <3>1. canonical' = <<Genesis>> \o Path(b)
      BY <1>1, <1>2, <1>3, <1>4, <2>1, <2>8, Reorganizes
    <3>2. world' = StateOf(Path(b), Number(b)).world /\ changes' = StateOf(Path(b), Number(b)).changes
      BY <2>1, <2>4, <2>8 DEF SetState
    <3>3. State' = StateOf(Path(b), Number(b))
      BY <3>2 DEF State, StateOf
    <3> QED BY <2>1, <2>5, <2>6, <2>7, <2>8, <3>1, <3>3 DEF Accepted
  <2>9. CASE ~Heavier(b)
    <3>1. State' = State /\ panic' = None /\ canonical' = canonical
      BY <1>10, <2>1, <2>9
    <3> QED BY <2>1, <2>5, <2>6, <2>7, <2>9, <3>1 DEF Accepted
  <2> QED BY <2>8, <2>9
<1> QED BY <1>11, <1>12, <1>13

\* What the header and its ommers have been checked for.
Lawful(b) ==
  /\ \E now \in Clock : ValidHeaderBase(tree[b], tree[Parent(b)], now)
  /\ \A ommer \in tree[b].ommers : ValidOmmer(b, ommer)

\* Every insertion has one of these outcomes.
LEMMA NextOutcome ==
  ASSUME ChainInv, Next
  PROVE  Stopped \/ \E b \in DOMAIN tree \ {Genesis} :
                      ParentKnown(b) /\ Lawful(b) /\ (Rejected(b) \/ Accepted(b))
<1>1. PICK b \in DOMAIN tree \ {Genesis}, check \in CheckRoots, now \in Clock : InsertBlock(b, check, now)
  BY DEF Next
<1>2. panic = None /\ ParentKnown(b) /\ Lawful(b)
  BY <1>1 DEF InsertBlock, PreValid, Lawful
<1>3. CASE ~tree[b].signed
  BY <1>1, <1>3 DEF InsertBlock, Panic, Stopped
<1>4. CASE tree[b].signed
  <2>1. InsertExecuted(b, check)
    BY <1>1, <1>4 DEF InsertBlock
  <2>2. Stopped \/ Rejected(b) \/ Accepted(b)
    BY <1>2, <2>1, InsertOutcome
  <2> QED BY <1>2, <2>2
<1> QED BY <1>3, <1>4

\* What depends on the blocks alone does not change.
LEMMA SameTree ==
  ASSUME tree' = tree
  PROVE  /\ TreeOk' <=> TreeOk
         /\ \A H : Closed(H)' <=> Closed(H)
         /\ \A b : Number(b)' = Number(b) /\ Path(b)' = Path(b)
         /\ \A b : Choice!Weight[b]' = Choice!Weight[b]
<1>1. \A b : Number(b)' = Number(b) /\ Parent(b)' = Parent(b)
  BY DEF Number, Parent
<1>2. \A b : Path(b)' = Path(b)
  BY DEF Path, Parent
<1>3. \A b : Choice!Weight[b]' = Choice!Weight[b]
  BY DEF Choice!Weight
<1>4. TreeOk' <=> TreeOk
  BY <1>1 DEF TreeOk
<1>5. \A H : Closed(H)' <=> Closed(H)
  BY <1>1 DEF Closed
<1> QED BY <1>1, <1>2, <1>3, <1>4, <1>5

\* The invariant holds at first.
LEMMA ChainInit ==
  Init => ChainInv
<1> SUFFICES ASSUME Init PROVE ChainInv
  OBVIOUS
<1>1. TreeOk
  <2>1. PICK c \in Chains : tree = c.tree
    BY DEF Init
  <2> QED BY <2>1, ChainAssumption DEF TreeOk, Number, Parent
<1>2. headers = {Genesis} /\ Closed(headers)
  BY <1>1 DEF Init, Closed, TreeOk
<1>3. DOMAIN difficulty = headers /\ \A b \in headers : difficulty[b] = Choice!Weight[b]
  <2>1. Choice!Weight[Genesis] = tree[Genesis].difficulty + 0 /\ tree[Genesis].difficulty \in Nat
    BY <1>1, WeightDef DEF TreeOk
  <2> QED BY <2>1 DEF Init
<1>4. Path(Genesis) = <<>> /\ Number(Genesis) = 0
  BY <1>1, PathDef DEF TreeOk
<1>5. CanonicalUpTo(Genesis)
  <2>1. <<Genesis>> \o <<>> = <<Genesis>>
    BY DEF Genesis
  <2> QED BY <1>4, <2>1 DEF CanonicalUpTo, Init
<1>6. State = StateOf(Path(Genesis), Number(Genesis))
  <2>1. SubSeq(<<>>, 1, 0) = <<>> /\ 1 .. 0 = {}
    OBVIOUS
  <2>2. [n \in {} |-> <<>>] = [n \in {} |-> SubSeq(<<>>, 1, n - 1)]
    OBVIOUS
  <2>3. StateOf(<<>>, 0) = [world |-> <<>>, changes |-> [n \in {} |-> <<>>]]
    BY <2>1, <2>2 DEF StateOf
  <2> QED BY <1>4, <2>3 DEF State, Init
<1> QED BY <1>1, <1>2, <1>3, <1>5, <1>6 DEF ChainInv, Init, OnlyBadIsBad

\* Every step keeps it.
LEMMA ChainStep ==
  ChainInv /\ [Next]_vars => ChainInv'
<1> SUFFICES ASSUME ChainInv, [Next]_vars PROVE ChainInv'
  OBVIOUS
<1>0. PICK t \in headers : CanonicalUpTo(t) /\ (panic = None => State = StateOf(Path(t), Number(t)))
  BY DEF ChainInv
<1>1. CASE UNCHANGED vars
  <2>1. tree' = tree
    BY <1>1 DEF vars
  <2>2. OnlyBadIsBad'
    BY <1>1, SameTree DEF vars, ChainInv, OnlyBadIsBad
  <2>3. CanonicalUpTo(t)'
    BY <1>0, <1>1, SameTree DEF vars, CanonicalUpTo
  <2>4. State' = State
    BY <1>1 DEF vars, State
  <2>5. StateOf(Path(t), Number(t))' = StateOf(Path(t), Number(t))
    BY <2>1, SameTree DEF StateOf
  <2> QED BY <1>0, <1>1, <2>1, <2>2, <2>3, <2>4, <2>5, SameTree DEF vars, ChainInv
<1>2. CASE Next
  <2>1. CASE Stopped
    <3>1. tree' = tree /\ headers' = headers /\ difficulty' = difficulty /\ canonical' = canonical
          /\ bad' = bad /\ panic' \in {"sender", "underflow"}
      BY <2>1 DEF Stopped
    <3>2. OnlyBadIsBad'
      BY <3>1, SameTree DEF ChainInv, OnlyBadIsBad
    <3>3. CanonicalUpTo(t)'
      BY <1>0, <3>1, SameTree DEF CanonicalUpTo
    <3>4. panic' # None
      BY <3>1, ChainAssumption
    <3> QED BY <1>0, <3>1, <3>2, <3>3, <3>4, SameTree DEF ChainInv
  <2>2. ASSUME NEW b \in DOMAIN tree \ {Genesis}, Rejected(b) PROVE ChainInv'
    <3>1. /\ tree' = tree /\ headers' = headers /\ difficulty' = difficulty /\ canonical' = canonical
          /\ bad' = bad \cup {b} /\ panic' = panic /\ State' = State
          /\ \E x \in ToSet(Path(b)) : ~tree[x].executes \/ ~tree[x].root
      BY <2>2 DEF Rejected
    <3>2. OnlyBadIsBad'
      BY <3>1, SameTree DEF ChainInv, OnlyBadIsBad
    <3>3. CanonicalUpTo(t)'
      BY <1>0, <3>1, SameTree DEF CanonicalUpTo
    <3>4. StateOf(Path(t), Number(t))' = StateOf(Path(t), Number(t))
      BY <3>1, SameTree DEF StateOf
    <3> QED BY <1>0, <3>1, <3>2, <3>3, <3>4, SameTree DEF ChainInv
  <2>3. ASSUME NEW b \in DOMAIN tree \ {Genesis}, ParentKnown(b), Accepted(b) PROVE ChainInv'
    <3>1. /\ tree' = tree /\ headers' = headers \cup {b} /\ tree[b].executes
          /\ difficulty' = Put(difficulty, b, Choice!Weight[b])
          /\ bad' = bad /\ panic' = panic
      BY <2>3 DEF Accepted
    <3>2. OnlyBadIsBad'
      BY <3>1, SameTree DEF ChainInv, OnlyBadIsBad
    <3>3. TreeOk' /\ Closed(headers)'
      <4>1. TreeOk /\ Closed(headers \cup {b})
        BY <2>3, ClosedWith DEF ChainInv
      <4> QED BY <3>1, <4>1, SameTree DEF Closed, Number, Parent
    <3>4. DOMAIN difficulty' = headers' /\ \A c \in headers' : difficulty'[c] = Choice!Weight[c]'
      BY <3>1, SameTree DEF ChainInv, Put
    <3>5. \A c \in headers' \ {Genesis} : tree'[c].executes
      BY <3>1 DEF ChainInv
    <3>6. \E u \in headers' : /\ CanonicalUpTo(u)'
                              /\ panic' = None => State' = StateOf(Path(u), Number(u))'
      <4>1. \A u : StateOf(Path(u), Number(u))' = StateOf(Path(u), Number(u))
        BY <3>1, SameTree DEF StateOf
      <4>2. CASE Choice!Weight[b] > Choice!Weight[CanonicalHash(Tip)]
        <5>1. canonical' = <<Genesis>> \o Path(b) /\ State' = StateOf(Path(b), Number(b))
          BY <2>3, <4>2 DEF Accepted
        <5>2. CanonicalUpTo(b)'
          BY <3>1, <5>1, SameTree DEF CanonicalUpTo
        <5> QED BY <3>1, <4>1, <5>1, <5>2
      <4>3. CASE ~(Choice!Weight[b] > Choice!Weight[CanonicalHash(Tip)])
        <5>1. canonical' = canonical /\ State' = State
          BY <2>3, <4>3 DEF Accepted
        <5>2. CanonicalUpTo(t)'
          BY <1>0, <3>1, <5>1, SameTree DEF CanonicalUpTo
        <5> QED BY <1>0, <3>1, <4>1, <5>1, <5>2
      <4> QED BY <4>2, <4>3
    <3> QED BY <3>1, <3>2, <3>3, <3>4, <3>5, <3>6 DEF ChainInv
  <2> QED BY <1>2, <2>1, <2>2, <2>3, NextOutcome
<1> QED BY <1>1, <1>2

\* The invariant holds in every state: accounts, storage and change sets follow
\* from the canonical chain, and total difficulties from the branches.
THEOREM ChainInvariant ==
  Spec => []ChainInv
<1> QED BY ChainInit, ChainStep, PTL DEF Spec

-----------------------------------------------------------------------------
(* What follows from it *)

\* The tip of a chain.
LEMMA LastOf ==
  ASSUME TreeOk, NEW H, Closed(H), NEW b \in H, NEW c, c = <<Genesis>> \o Path(b)
  PROVE  Len(c) - 1 < Len(c) /\ c[(Len(c) - 1) + 1] = b
<1> DEFINE p == Path(b)
           n == Number(b)
<1>1. /\ p \in Seq(Nat) /\ Len(p) = n /\ n \in Nat
      /\ b # Genesis => n > 0 /\ p[n] = b
      /\ Number(Genesis) = 0
  BY PathDef, PathFacts DEF OnBranch, Closed, TreeOk
<1>2. c = <<Genesis>> \o p
  OBVIOUS
<1> HIDE DEF p
<1>3. Len(c) = n + 1 /\ c[1] = Genesis /\ \A i \in 1 .. n : c[i + 1] = p[i]
  BY <1>1, <1>2 DEF Genesis
<1>4. CASE b = Genesis
  BY <1>1, <1>3, <1>4
<1>5. CASE b # Genesis
  <2> HIDE DEF n
  <2>1. n \in 1 .. n /\ (n + 1) - 1 = n /\ (n + 1) - 1 < n + 1
    BY <1>1, <1>5
  <2> QED BY <1>1, <1>3, <1>5, <2>1
<1> QED BY <1>4, <1>5

\* Whatever insert_block returned, the state is that of the canonical chain,
\* unless it stopped at a sender or at a block that is canonical already; the
\* canonical chain can always be executed again.
THEOREM StateFollowsChain ==
  Spec => []StateIsCanonical
<1>1. ChainInv => StateIsCanonical
  <2> SUFFICES ASSUME ChainInv, panic = None PROVE StateIsCanonical
    BY DEF ChainInv, StateIsCanonical
  <2>1. PICK t \in headers : CanonicalUpTo(t) /\ State = StateOf(Path(t), Number(t))
    BY DEF ChainInv
  <2>2. TreeOk /\ Closed(headers)
    BY DEF ChainInv
  <2>3. Tip = Number(t) /\ CanonicalHash(Tip) = t /\ Tail(canonical) = Path(t)
    BY <2>1, <2>2, CanonicalFacts
  <2>4. SubSeq(Path(t), 1, Number(t)) = Path(t)
    BY <2>2, PathFacts, WholeSeq DEF OnBranch
  <2>5. /\ world = SubSeq(Path(t), 1, Number(t))
        /\ changes = [n \in 1 .. Number(t) |-> SubSeq(Path(t), 1, n - 1)]
    BY <2>1 DEF State, StateOf
  <2> QED BY <2>3, <2>4, <2>5 DEF StateIsCanonical
<1> QED BY <1>1, ChainInvariant, PTL

\* No block is in bad_blocks because of the branch that was executed before it.
THEOREM BadAreInvalid ==
  Spec => []OnlyBadIsBad
<1>1. ChainInv => OnlyBadIsBad
  BY DEF ChainInv
<1> QED BY <1>1, ChainInvariant, PTL

\* insert_block implements the choice of the heaviest branch: a block becomes
\* the tip exactly if its branch has more total difficulty than the tip has.
THEOREM RefinesForkChoice ==
  Spec => ChoosesHeaviest
<1>1. Init => Choice!Init
  BY DEF Init, Choice!Init, CanonicalHash, Tip, Genesis
<1>2. ChainInv /\ [Next]_vars => [Choice!Next]_(Choice!vars)
  <2> SUFFICES ASSUME ChainInv, [Next]_vars PROVE [Choice!Next]_(Choice!vars)
    OBVIOUS
  <2>1. CASE UNCHANGED <<tree, headers, canonical>>
    BY <2>1 DEF Choice!vars, CanonicalHash, Tip
  <2>2. ASSUME NEW b \in DOMAIN tree \ {Genesis}, ParentKnown(b), Accepted(b) PROVE Choice!Next
    <3>1. TreeOk /\ Closed(headers \cup {b})
      BY <2>2, ClosedWith DEF ChainInv
    <3>2. CanonicalHash(Tip)' = IF Choice!Weight[b] > Choice!Weight[CanonicalHash(Tip)]
                                THEN b ELSE CanonicalHash(Tip)
      <4>1. CASE Choice!Weight[b] > Choice!Weight[CanonicalHash(Tip)]
        <5>1. canonical' = <<Genesis>> \o Path(b)
          BY <2>2, <4>1 DEF Accepted
        <5>2. Len(canonical') - 1 < Len(canonical') /\ canonical'[(Len(canonical') - 1) + 1] = b
          BY <3>1, <5>1, LastOf
        <5> QED BY <4>1, <5>2 DEF CanonicalHash, Tip
      <4>2. CASE ~(Choice!Weight[b] > Choice!Weight[CanonicalHash(Tip)])
        <5>1. canonical' = canonical
          BY <2>2, <4>2 DEF Accepted
        <5> QED BY <4>2, <5>1 DEF CanonicalHash, Tip
      <4> QED BY <4>1, <4>2
    <3>3. tree[b].parent \in headers /\ headers' = headers \cup {b} /\ tree' = tree
      BY <2>2 DEF ParentKnown, Parent, Accepted
    <3> QED BY <3>2, <3>3 DEF Choice!Next, Choice!Accept
  <2>3. CASE Next
    <3>1. CASE Stopped
      BY <2>1, <3>1 DEF Stopped
    <3>2. ASSUME NEW b \in DOMAIN tree, Rejected(b) PROVE UNCHANGED <<tree, headers, canonical>>
      BY <3>2 DEF Rejected
    <3> QED BY <2>1, <2>2, <2>3, <3>1, <3>2, NextOutcome
  <2>4. CASE UNCHANGED vars
    BY <2>1, <2>4 DEF vars
  <2> QED BY <2>3, <2>4
<1> QED BY <1>1, <1>2, ChainInvariant, PTL DEF Spec, ChoosesHeaviest, Choice!Spec

-----------------------------------------------------------------------------
(* What the rules for ommers are there for *)

\* The parent of a block on a branch is the one before.
LEMMA ParentOnBranch ==
  ASSUME TreeOk, NEW H, Closed(H), NEW b \in H, NEW k \in 1 .. Number(b)
  PROVE  /\ Path(b)[k] \in H \ {Genesis} /\ Number(Path(b)[k]) = k
         /\ Parent(Path(b)[k]) = IF k = 1 THEN Genesis ELSE Path(b)[k - 1]
<1> DEFINE x == Path(b)[k]
           y == Parent(x)
<1>1. OnBranch(b, H) /\ Number(b) \in Nat
  BY PathFacts DEF Closed, TreeOk
<1>2. x \in H \ {Genesis} /\ Number(x) = k /\ Path(y) = SubSeq(Path(b), 1, k - 1)
  BY <1>1 DEF OnBranch
<1>3. y \in H /\ Number(y) = k - 1
  <2>1. y \in H /\ Number(x) = Number(y) + 1 /\ Number(y) \in Nat
    BY <1>2 DEF Closed, TreeOk
  <2> QED BY <1>2, <2>1
<1>4. y # Genesis => Number(y) > 0 /\ Path(y)[Number(y)] = y
  BY <1>3, PathFacts DEF OnBranch
<1>5. CASE k = 1
  BY <1>2, <1>3, <1>4, <1>5
<1>6. CASE k # 1
  <2>1. y # Genesis /\ k - 1 \in 1 .. k - 1 /\ k - 1 \in 0 .. Number(b)
    BY <1>1, <1>3, <1>6 DEF TreeOk
  <2>2. SubSeq(Path(b), 1, k - 1)[k - 1] = Path(b)[k - 1]
    BY <1>1, <2>1, Prefix DEF OnBranch
  <2> QED BY <1>2, <1>3, <1>4, <1>6, <2>1, <2>2
<1> QED BY <1>5, <1>6

\* Above is the block so many numbers below.
LEMMA AboveFacts ==
  ASSUME TreeOk, NEW H, Closed(H), NEW b \in H, b # Genesis, NEW i \in Nat
  PROVE  Above(b, i) = IF i < Number(b) THEN Path(b)[Number(b) - i]
                       ELSE IF i = Number(b) THEN Genesis ELSE None
<1> DEFINE n == Number(b)
           At(j) == IF j < n THEN Path(b)[n - j] ELSE IF j = n THEN Genesis ELSE None
           Up(f, j) == IF j = 0 THEN b ELSE IF f[j - 1] \in {None, Genesis} THEN None
                       ELSE Parent(f[j - 1])
           g == [j \in 0 .. i |-> At(j)]
           up == CHOOSE f : f = [j \in 0 .. i |-> Up(f, j)]
<1>1. n \in Nat /\ n > 0 /\ Path(b)[n] = b
  BY PathFacts DEF OnBranch, Closed, TreeOk
<1>2. At(0) = b
  BY <1>1
<1>3. ASSUME NEW j \in Nat \ {0}
      PROVE  At(j) = IF At(j - 1) \in {None, Genesis} THEN None ELSE Parent(At(j - 1))
  <2>1. CASE j > n
    <3>1. j - 1 >= n /\ ~(j < n) /\ j # n /\ ~(j - 1 < n)
      BY <1>1, <2>1
    <3> QED BY <3>1
  <2>2. CASE j <= n
    <3> DEFINE k == n - (j - 1)
    <3>1. k \in 1 .. n /\ j - 1 < n /\ (k = 1 <=> j = n) /\ k - 1 = n - j /\ (j # n => j < n)
      BY <1>1, <2>2
    <3>2. At(j - 1) = Path(b)[k]
      BY <3>1
    <3> HIDE DEF k
    <3>3. /\ Path(b)[k] \in H \ {Genesis}
          /\ Parent(Path(b)[k]) = IF k = 1 THEN Genesis ELSE Path(b)[k - 1]
      BY <3>1, ParentOnBranch
    <3>4. Path(b)[k] \notin {None, Genesis}
      BY <3>3, ChainAssumption DEF Closed, TreeOk
    <3>5. At(j) = IF k = 1 THEN Genesis ELSE Path(b)[k - 1]
      BY <1>1, <3>1
    <3> HIDE DEF At
    <3> QED BY <3>2, <3>3, <3>4, <3>5
  <2> QED BY <1>1, <2>1, <2>2
<1> HIDE DEF At
<1>4. g = [j \in 0 .. i |-> Up(g, j)]
  <2>1. ASSUME NEW j \in 0 .. i PROVE At(j) = Up(g, j)
    <3>1. CASE j = 0
      BY <1>2, <3>1
    <3>2. CASE j # 0
      <4>1. j \in Nat \ {0} /\ g[j - 1] = At(j - 1)
        BY <3>2
      <4> HIDE DEF g
      <4> QED BY <1>3, <3>2, <4>1
    <3> QED BY <3>1, <3>2
  <2>2. g = [j \in 0 .. i |-> At(j)]
    OBVIOUS
  <2> HIDE DEF g, Up
  <2> QED BY <2>1, <2>2
<1>5. up = [j \in 0 .. i |-> Up(up, j)]
  <2> HIDE DEF g, Up
  <2> QED BY <1>4
<1>6. Above(b, i) = up[i]
  BY DEF Above
<1> HIDE DEF up, g, n
<1>7. \A j \in 0 .. i : up[j] = At(j)
  <2> DEFINE T == {j \in 0 .. i : up[j] # At(j)}
  <2> SUFFICES ASSUME T # {} PROVE FALSE
    OBVIOUS
  <2>1. PICK j \in T : \A k \in T : j <= k
    BY LeastNat, T \subseteq Nat
  <2>2. j # 0
    <3>1. up[0] = b
      BY <1>5
    <3> QED BY <1>2, <2>1, <3>1
  <2>3. j \in Nat \ {0} /\ j - 1 \in 0 .. i /\ j - 1 \notin T
    BY <2>1, <2>2
  <2>4. up[j - 1] = At(j - 1)
    BY <2>3
  <2>5. up[j] = Up(up, j)
    BY <1>5, <2>1
  <2>6. up[j] = At(j)
    BY <1>3, <2>3, <2>4, <2>5
  <2> QED BY <2>1, <2>6
<1>8. up[i] = At(i)
  BY <1>7
<1> QED BY <1>6, <1>8 DEF At, n

\* A valid ommer stands beside the i-th block above, which is another one, and
\* the blocks up to there have not included it.
Beside(o, x, i) ==
  /\ i \in 1 .. Generations /\ i < Number(x) /\ Number(o) = Number(x) - i
  /\ o # Path(x)[Number(x) - i]
  /\ \A j \in 1 .. i : o \notin tree[Path(x)[Number(x) - j]].ommers

\* is_kin and old_ommers establish it.
LEMMA OmmerBeside ==
  ASSUME TreeOk, Closed(headers), NEW x \in headers \ {Genesis}, NEW o \in DOMAIN tree,
         ValidOmmer(x, o)
  PROVE  \E i \in 1 .. Generations : Beside(o, x, i)
<1>1. PICK i \in 1 .. Generations : Sibling(o, x, i) /\ o \notin OldOmmers(x, i)
  BY DEF ValidOmmer
<1> DEFINE n == Number(x)
<1>2. n \in Nat /\ n > 0 /\ i \in Nat \ {0}
  BY PathFacts, ChainAssumption DEF OnBranch, Closed, TreeOk
<1>3. \A j \in 1 .. i : /\ Above(x, j) = IF j < n THEN Path(x)[n - j]
                                         ELSE IF j = n THEN Genesis ELSE None
                        /\ Above(x, j) \notin {None, Genesis, o}
  BY <1>1, <1>2, AboveFacts DEF Sibling
<1> HIDE DEF n
<1>4. i < n
  <2> SUFFICES ASSUME n <= i PROVE FALSE
    BY <1>2
  <2>1. n \in 1 .. i /\ ~(n < n)
    BY <1>2
  <2> QED BY <1>3, <2>1
<1>5. \A j \in 1 .. i : j < n /\ Above(x, j) = Path(x)[n - j]
  <2> TAKE j \in 1 .. i
  <2>1. j < n
    BY <1>2, <1>4
  <2> QED BY <1>3, <2>1
<1>6. i \in 1 .. i /\ n - i \in 1 .. n
  BY <1>2, <1>4
<1>7. Path(x)[n - i] # o
  BY <1>3, <1>5, <1>6
<1>8. Number(o) = n - i
  <2> DEFINE y == Path(x)[n - i]
  <2>1. y \in headers \ {Genesis} /\ Number(y) = n - i
    BY <1>6, ParentOnBranch DEF n
  <2>2. Parent(y) = Parent(o)
    BY <1>1, <1>5, <1>6 DEF Sibling
  <2>3. Number(y) = Number(Parent(y)) + 1
    BY <2>1 DEF Closed
  <2>4. Number(Parent(o)) = Number(o) - 1 /\ Number(o) \in Nat
    BY DEF ValidOmmer, ParentKnown, TreeOk
  <2> HIDE DEF y
  <2> QED BY <1>2, <2>1, <2>2, <2>3, <2>4
<1>9. \A j \in 1 .. i : o \notin tree[Path(x)[n - j]].ommers
  BY <1>1, <1>5 DEF OldOmmers
<1> QED BY <1>1, <1>4, <1>7, <1>8, <1>9 DEF Beside, n

\* What ChainAssumption says of headers.
HeadersOk ==
  /\ \A b \in DOMAIN tree : /\ {tree[b].gasUsed, tree[b].gasLimit, tree[b].baseFee} \subseteq Nat
                            /\ tree[b].ommers \subseteq DOMAIN tree
  /\ tree[Genesis].gasUsed <= tree[Genesis].gasLimit /\ tree[Genesis].gasLimit >= 5000
  /\ Eip1559Block = 0 => tree[Genesis].baseFee > 0

\* Every accepted block has been checked, and nothing that it has been checked
\* for has ceased to hold.
RulesInv ==
  HeadersOk /\ \A b \in headers \ {Genesis} : Lawful(b)

\* On every branch an ommer is included once and beside the branch.
LEMMA OmmersKept ==
  ASSUME ChainInv, RulesInv
  PROVE  OmmersOnce
<1>1. TreeOk /\ Closed(headers)
  BY DEF ChainInv
<1> SUFFICES ASSUME NEW b \in headers
             PROVE  /\ \A x, y \in ToSet(Path(b)) : x # y => tree[x].ommers \cap tree[y].ommers = {}
                    /\ \A x \in ToSet(Path(b)) : tree[x].ommers \cap ToSet(Path(b)) = {}
                    /\ \A x \in ToSet(Path(b)) : \A o \in tree[x].ommers :
                         OmmerShare(Number(o), Number(x)) \in 8 - Generations .. 7
  BY DEF OmmersOnce
<1> DEFINE P == Path(b)
           n == Number(b)
<1>2. P \in Seq(headers \ {Genesis}) /\ Len(P) = n /\ n \in Nat
  BY <1>1, PathFacts DEF OnBranch, Closed, TreeOk
<1>3. ToSet(P) = {P[k] : k \in 1 .. n}
  <2>1. DOMAIN P = 1 .. n
    BY <1>2
  <2> HIDE DEF P, n
  <2> QED BY <2>1 DEF ToSet
<1>4. ASSUME NEW k \in 1 .. n
      PROVE  /\ Number(P[k]) = k /\ P[k] \in headers \ {Genesis}
             /\ \A m \in 1 .. k : Path(P[k])[m] = P[m]
  <2>1. Number(P[k]) = k /\ P[k] \in headers \ {Genesis}
    BY <1>1, ParentOnBranch
  <2>2. Path(P[k]) = SubSeq(P, 1, k)
    BY <1>1, PathFacts DEF OnBranch
  <2> HIDE DEF P, n
  <2>3. k \in 0 .. Len(P)
    BY <1>2
  <2>4. \A m \in 1 .. k : SubSeq(P, 1, k)[m] = P[m]
    BY <1>2, <2>3, Prefix
  <2> QED BY <2>1, <2>2, <2>4
<1> HIDE DEF P, n
<1>5. ASSUME NEW k \in 1 .. n, NEW o \in tree[P[k]].ommers
      PROVE  \E i \in 1 .. Generations :
               /\ i < k /\ Number(o) = k - i /\ o # P[k - i]
               /\ \A j \in 1 .. i : o \notin tree[P[k - j]].ommers
  <2> DEFINE x == P[k]
  <2>1. x \in headers \ {Genesis} /\ Number(x) = k /\ \A m \in 1 .. k : Path(x)[m] = P[m]
    BY <1>4
  <2>2. o \in DOMAIN tree /\ ValidOmmer(x, o)
    <3>1. x \in DOMAIN tree
      BY <1>1, <2>1 DEF Closed
    <3> QED BY <2>1, <3>1 DEF RulesInv, HeadersOk, Lawful
  <2> HIDE DEF x
  <2>3. PICK i \in 1 .. Generations : Beside(o, x, i)
    BY <1>1, <2>1, <2>2, OmmerBeside
  <2>4. /\ i < k /\ Number(o) = k - i /\ o # Path(x)[k - i]
        /\ \A j \in 1 .. i : o \notin tree[Path(x)[k - j]].ommers
    BY <2>1, <2>3 DEF Beside
  <2>5. i \in Nat \ {0} /\ k \in Nat
    BY <1>2, ChainAssumption
  <2>6. k - i \in 1 .. k /\ \A j \in 1 .. i : k - j \in 1 .. k
    BY <2>4, <2>5
  <2> QED BY <2>1, <2>4, <2>6
<1>6. ASSUME NEW k \in 1 .. n, NEW l \in 1 .. n, k < l,
             NEW o \in tree[P[k]].ommers, o \in tree[P[l]].ommers
      PROVE  FALSE
  <2>1. PICK i \in 1 .. Generations : i < k /\ Number(o) = k - i
    BY <1>5
  <2>2. PICK j \in 1 .. Generations :
          /\ j < l /\ Number(o) = l - j /\ \A h \in 1 .. j : o \notin tree[P[l - h]].ommers
    BY <1>5, <1>6
  <2>3. i \in Nat \ {0} /\ j \in Nat \ {0} /\ k \in Nat /\ l \in Nat
    BY <1>2, <2>1, <2>2, ChainAssumption
  <2>4. l - k \in 1 .. j /\ l - (l - k) = k
    BY <1>6, <2>1, <2>2, <2>3
  <2> QED BY <1>6, <2>2, <2>4
<1>7. \A x, y \in ToSet(P) : x # y => tree[x].ommers \cap tree[y].ommers = {}
  <2> SUFFICES ASSUME NEW x \in ToSet(P), NEW y \in ToSet(P), x # y,
                      NEW o \in tree[x].ommers \cap tree[y].ommers
               PROVE  FALSE
    OBVIOUS
  <2>1. PICK k \in 1 .. n, l \in 1 .. n : x = P[k] /\ y = P[l]
    BY <1>3
  <2>2. k # l /\ k \in Nat /\ l \in Nat
    BY <1>2, <2>1
  <2>3. CASE k < l
    BY <1>6, <2>1, <2>3
  <2>4. CASE l < k
    BY <1>6, <2>1, <2>4
  <2> QED BY <2>2, <2>3, <2>4
<1>8. \A x \in ToSet(P) : tree[x].ommers \cap ToSet(P) = {}
  <2> SUFFICES ASSUME NEW x \in ToSet(P), NEW o \in tree[x].ommers, o \in ToSet(P) PROVE FALSE
    OBVIOUS
  <2>1. PICK k \in 1 .. n, m \in 1 .. n : x = P[k] /\ o = P[m]
    BY <1>3
  <2>2. Number(o) = m
    BY <1>4, <2>1
  <2>3. PICK i \in 1 .. Generations : Number(o) = k - i /\ o # P[k - i]
    BY <1>5, <2>1
  <2> QED BY <2>1, <2>2, <2>3
<1>9. \A x \in ToSet(P) : \A o \in tree[x].ommers :
        OmmerShare(Number(o), Number(x)) \in 8 - Generations .. 7
  <2> SUFFICES ASSUME NEW x \in ToSet(P), NEW o \in tree[x].ommers
               PROVE  OmmerShare(Number(o), Number(x)) \in 8 - Generations .. 7
    OBVIOUS
  <2>1. PICK k \in 1 .. n : x = P[k]
    BY <1>3
  <2>2. Number(x) = k /\ k \in Nat
    BY <1>2, <1>4, <2>1
  <2>3. PICK i \in 1 .. Generations : Number(o) = k - i
    BY <1>5, <2>1
  <2>4. 8 + (k - i) - k \in 8 - Generations .. 7
    BY <2>2, ChainAssumption
  <2> QED BY <2>2, <2>3, <2>4 DEF OmmerShare
<1> QED BY <1>7, <1>8, <1>9 DEF P

-----------------------------------------------------------------------------
(* The base fee *)

\* The larger of two numbers.
LEMMA MaxOfTwo ==
  ASSUME NEW x \in Int, NEW y \in Int
  PROVE  Max({x, y}) = IF x >= y THEN x ELSE y
<1> DEFINE m == IF x >= y THEN x ELSE y
<1>1. m \in {x, y} /\ \A z \in {x, y} : m >= z
  OBVIOUS
<1>2. \A u \in {x, y} : (\A z \in {x, y} : u >= z) => u = m
  OBVIOUS
<1> HIDE DEF m
<1>3. Max({x, y}) = m
  BY <1>1, <1>2 DEF Max
<1> QED BY <1>3 DEF m

\* The fee after a block that has a fee and keeps to its gas limit.
FeeMoves(fee, parent) ==
  LET excess == IF parent.gasLimit % 2 = 0 THEN 0 ELSE parent.baseFee \div GasTarget(parent)
  IN /\ fee > 0
     /\ parent.gasUsed > GasTarget(parent) => fee > parent.baseFee
     /\ fee <= parent.baseFee + Max({1, (parent.baseFee + excess) \div 8})
     /\ fee >= parent.baseFee - parent.baseFee \div 8

\* expected_base_fee_per_gas: the fee of the parent and an eighth of its share.
LEMMA ExpectedFeeMoves ==
  ASSUME NEW h, NEW p, h.number \in Nat, h.number > Eip1559Block,
         p.gasUsed \in Nat, p.gasLimit \in Nat, p.gasUsed <= p.gasLimit, p.gasLimit >= 5000,
         p.baseFee \in Nat, p.baseFee > 0
  PROVE  FeeMoves(ExpectedBaseFee(h, p), p)
<1> DEFINE t == GasTarget(p)
           f == p.baseFee
           u == p.gasUsed
           l == p.gasLimit
           e == IF l % 2 = 0 THEN 0 ELSE f \div t
           Delta(d) == ((f * d) \div t) \div 8
           fee == ExpectedBaseFee(h, p)
<1>1. t = l \div 2 /\ l \in Nat /\ u \in Nat /\ u <= l /\ l >= 5000 /\ f \in Nat /\ f > 0
  BY DEF GasTarget, ELASTICITY_MULTIPLIER
<1>2. t \in Nat \ {0} /\ l <= 2 * t + 1 /\ (l % 2 = 0 => l = 2 * t)
  <2> HIDE DEF t, l
  <2> QED BY <1>1
<1>3. h.number > Eip1559Block => ~(h.number < Eip1559Block) /\ h.number # Eip1559Block
  BY RuleAssumption
<1>4. fee = IF u = t THEN f ELSE IF u > t THEN f + Max({1, Delta(u - t)})
            ELSE Max({0, f - Delta(t - u)})
  BY <1>3 DEF ExpectedBaseFee, BASE_FEE_MAX_CHANGE_DENOMINATOR
<1>5. f \div t \in Nat /\ e \in Nat
  BY <1>1, <1>2, Quotient
<1>6. f \div 8 \in Nat /\ f \div 8 < f /\ f \div 8 <= (f + e) \div 8 /\ (f + e) \div 8 \in Nat
  <2> HIDE DEF e, f
  <2> QED BY <1>1, <1>5, Eighth
<1>7. Max({1, (f + e) \div 8}) = IF 1 >= (f + e) \div 8 THEN 1 ELSE (f + e) \div 8
  BY <1>6, MaxOfTwo
<1> DEFINE M == Max({1, (f + e) \div 8})
<1>8. M \in Nat /\ M >= 1 /\ M >= (f + e) \div 8
  <2> HIDE DEF e, f
  <2> QED BY <1>6, <1>7
<1>9. fee > 0 /\ (u > t => fee > f) /\ fee <= f + M /\ fee >= f - f \div 8
  <2>1. CASE u = t
    <3>1. fee = f
      BY <1>4, <2>1
    <3> HIDE DEF fee, f, t, u, M, e
    <3> QED BY <1>1, <1>2, <1>6, <1>8, <2>1, <3>1
  <2>2. CASE u > t
    <3> DEFINE d == u - t
               q == (f * d) \div t
    <3>1. d \in Nat /\ d <= t + 1 /\ (l % 2 = 0 => d <= t)
      <4> HIDE DEF t, u, l
      <4> QED BY <1>1, <1>2, <2>2
    <3> HIDE DEF d
    <3>2. q \in Nat /\ q <= f + e
      <4>1. CASE l % 2 = 0
        <5>1. q \in Nat /\ q <= f
          <6> HIDE DEF t, f, l
          <6> QED BY <1>1, <1>2, <3>1, <4>1, Share
        <5> QED BY <1>1, <4>1, <5>1
      <4>2. CASE l % 2 # 0
        <5>1. q \in Nat /\ q <= f + f \div t
          <6> HIDE DEF t, f, l
          <6> QED BY <1>1, <1>2, <3>1, ShareOver
        <5> QED BY <4>2, <5>1
      <4> QED BY <4>1, <4>2
    <3> HIDE DEF q, e
    <3>3. q \div 8 \in Nat /\ q \div 8 <= (f + e) \div 8
      <4> HIDE DEF f
      <4> QED BY <1>1, <1>5, <3>2, Eighth
    <3>4. fee = f + Max({1, q \div 8})
      <4>1. u # t
        <5> HIDE DEF u, t
        <5> QED BY <1>1, <1>2, <2>2
      <4> QED BY <1>4, <2>2, <4>1 DEF q, d
    <3>5. Max({1, q \div 8}) = IF 1 >= q \div 8 THEN 1 ELSE q \div 8
      BY <3>3, MaxOfTwo
    <3> HIDE DEF fee, f, t, u, M
    <3> QED BY <1>1, <1>6, <1>8, <3>3, <3>4, <3>5
  <2>3. CASE u < t
    <3> DEFINE d == t - u
               q == (f * d) \div t
    <3>1. d \in Nat /\ d <= t
      <4> HIDE DEF t, u, l
      <4> QED BY <1>1, <1>2, <2>3
    <3> HIDE DEF d
    <3>2. q \in Nat /\ q <= f
      <4> HIDE DEF t, f
      <4>1. f \in Nat /\ t \in Nat \ {0}
        BY <1>1, <1>2
      <4> QED BY <3>1, <4>1, Share
    <3> HIDE DEF q, e
    <3>3. q \div 8 \in Nat /\ q \div 8 <= f \div 8
      <4> HIDE DEF f
      <4> QED BY <1>1, <3>2, Eighth
    <3>4. ~(u > t) /\ u # t
      <4> HIDE DEF u, t
      <4> QED BY <1>1, <1>2, <2>3
    <3>5. fee = Max({0, f - q \div 8})
      BY <1>4, <3>4 DEF q, d
    <3>6. Max({0, f - q \div 8}) = IF 0 >= f - q \div 8 THEN 0 ELSE f - q \div 8
      <4> HIDE DEF f
      <4>1. f - q \div 8 \in Int
        BY <1>1, <3>3
      <4> QED BY <4>1, MaxOfTwo
    <3> HIDE DEF fee, f, t, u, M
    <3> QED BY <1>1, <1>6, <1>8, <3>3, <3>4, <3>5, <3>6
  <2>4. u = t \/ u > t \/ u < t
    <3> HIDE DEF u, t
    <3> QED BY <1>1, <1>2
  <2> QED BY <2>1, <2>2, <2>3, <2>4
<1> QED BY <1>9 DEF FeeMoves

\* The fee of every block after the fork follows from that of its parent.
LEMMA FeesKept ==
  ASSUME ChainInv, RulesInv
  PROVE  BaseFeeMoves
<1>1. TreeOk /\ Closed(headers) /\ HeadersOk
  BY DEF ChainInv, RulesInv
<1>2. ASSUME NEW b \in headers \ {Genesis}
      PROVE  /\ b \in DOMAIN tree /\ b \in Nat /\ Parent(b) \in headers /\ Parent(b) < b /\ Parent(b) \in Nat
             /\ Number(b) \in Nat /\ Number(Parent(b)) \in Nat /\ Number(b) = Number(Parent(b)) + 1
             /\ tree[b].baseFee = ExpectedBaseFee(tree[b], tree[Parent(b)])
  <2>1. b \in DOMAIN tree /\ Parent(b) \in headers /\ Number(b) = Number(Parent(b)) + 1
    BY <1>1 DEF Closed
  <2>2. b \in Nat /\ Parent(b) < b /\ Parent(b) \in Nat /\ Number(b) \in Nat /\ Number(Parent(b)) \in Nat
    BY <1>1, <2>1 DEF TreeOk
  <2>3. tree[b].baseFee = ExpectedBaseFee(tree[b], tree[Parent(b)])
    BY DEF RulesInv, Lawful, ValidHeaderBase
  <2> QED BY <2>1, <2>2, <2>3
<1>3. ASSUME NEW b \in headers
      PROVE  /\ tree[b].gasUsed \in Nat /\ tree[b].gasLimit \in Nat /\ tree[b].baseFee \in Nat
             /\ tree[b].gasUsed <= tree[b].gasLimit /\ tree[b].gasLimit >= 5000
  <2>1. b \in DOMAIN tree
    BY <1>1 DEF Closed
  <2>2. CASE b = Genesis
    BY <1>1, <2>1, <2>2 DEF HeadersOk
  <2>3. CASE b # Genesis
    BY <1>1, <2>1, <2>3 DEF HeadersOk, RulesInv, Lawful, ValidHeaderBase
  <2> QED BY <2>2, <2>3
<1>4. ASSUME NEW b \in headers \ {Genesis}, tree[Parent(b)].baseFee > 0, Number(b) > Eip1559Block
      PROVE  FeeMoves(tree[b].baseFee, tree[Parent(b)])
  <2>1. tree[b].number \in Nat /\ tree[b].number > Eip1559Block
    BY <1>2, <1>4 DEF Number
  <2> QED BY <1>2, <1>3, <1>4, <2>1, ExpectedFeeMoves
<1>5. \A b \in headers : Number(b) >= Eip1559Block => tree[b].baseFee > 0
  <2> DEFINE T == {b \in headers : Number(b) >= Eip1559Block /\ ~(tree[b].baseFee > 0)}
  <2> SUFFICES ASSUME T # {} PROVE FALSE
    OBVIOUS
  <2>1. PICK b \in T : \A k \in T : b <= k
    <3>1. T \subseteq Nat
      BY <1>1 DEF Closed, TreeOk
    <3> HIDE DEF T
    <3> QED BY <3>1, LeastNat
  <2>2. CASE b = Genesis
    BY <1>1, <2>1, <2>2, RuleAssumption DEF HeadersOk, TreeOk
  <2>3. CASE b # Genesis /\ Number(b) = Eip1559Block
    <3>1. tree[b].number = Eip1559Block /\ ~(Eip1559Block < Eip1559Block)
      BY <2>3, RuleAssumption DEF Number
    <3>2. tree[b].baseFee = ExpectedBaseFee(tree[b], tree[Parent(b)])
      BY <1>2, <2>1, <2>3
    <3>3. tree[b].baseFee = InitialBaseFee
      BY <3>1, <3>2, Zenon DEF ExpectedBaseFee
    <3> QED BY <2>1, <3>3, RuleAssumption
  <2>4. CASE b # Genesis /\ Number(b) > Eip1559Block
    <3>1. Parent(b) \in headers /\ Number(Parent(b)) >= Eip1559Block /\ ~(b <= Parent(b))
      BY <1>2, <2>1, <2>4, RuleAssumption
    <3>2. tree[Parent(b)].baseFee > 0
      BY <2>1, <3>1
    <3>3. tree[b].baseFee > 0
      BY <1>4, <2>1, <2>4, <3>2 DEF FeeMoves
    <3> QED BY <2>1, <3>3
  <2>5. Number(b) \in Nat
    BY <1>1, <2>1 DEF Closed, TreeOk
  <2> QED BY <2>1, <2>2, <2>3, <2>4, <2>5, RuleAssumption
<1>6. ASSUME NEW b \in headers \ {Genesis}, Number(b) > Eip1559Block
      PROVE  FeeMoves(tree[b].baseFee, tree[Parent(b)])
  <2>1. Parent(b) \in headers /\ Number(Parent(b)) >= Eip1559Block
    BY <1>2, <1>6, RuleAssumption
  <2> QED BY <1>4, <1>5, <1>6, <2>1
<1> QED BY <1>6 DEF BaseFeeMoves, FeeMoves

\* What an accepted block has been checked for holds as more become known.
LEMMA StaysLawful ==
  ASSUME tree' = tree, headers \subseteq headers', NEW b, Lawful(b)
  PROVE  Lawful(b)'
<1>1. \A x, i : Above(x, i)' = Above(x, i)
  BY DEF Above, Parent
<1>2. \A x, i : OldOmmers(x, i)' = OldOmmers(x, i)
  BY <1>1 DEF OldOmmers
<1>3. ASSUME NEW o, NEW i, Sibling(o, b, i) PROVE Sibling(o, b, i)'
  BY <1>1, <1>3 DEF Sibling, Parent
<1>4. ASSUME NEW o, ValidOmmer(b, o) PROVE ValidOmmer(b, o)'
  <2>1. ParentKnown(o)'
    BY <1>4 DEF ValidOmmer, ParentKnown, Number, Parent
  <2>2. \E i \in 1 .. Generations : (Sibling(o, b, i) /\ o \notin OldOmmers(b, i))'
    BY <1>2, <1>3, <1>4 DEF ValidOmmer
  <2>3. ValidHeaderBase(tree[o], tree[Parent(o)], tree[o].timestamp)'
    <3>1. tree'[o] = tree[o] /\ tree'[Parent(o)'] = tree[Parent(o)]
      BY DEF Parent
    <3>2. ValidHeaderBase(tree[o], tree[Parent(o)], tree[o].timestamp)
      BY <1>4 DEF ValidOmmer
    <3> QED BY <3>1, <3>2 DEF ValidHeaderBase, ExpectedBaseFee, GasTarget
  <2> QED BY <2>1, <2>2, <2>3 DEF ValidOmmer
<1>5. (\E now \in Clock : ValidHeaderBase(tree[b], tree[Parent(b)], now))'
  <2>1. PICK now \in Clock : ValidHeaderBase(tree[b], tree[Parent(b)], now)
    BY DEF Lawful
  <2>2. ValidHeaderBase(tree[b], tree[Parent(b)], now)'
    <3>1. tree'[b] = tree[b] /\ tree'[Parent(b)'] = tree[Parent(b)]
      BY DEF Parent
    <3> QED BY <2>1, <3>1 DEF ValidHeaderBase, ExpectedBaseFee, GasTarget
  <2> QED BY <2>2
<1> QED BY <1>4, <1>5 DEF Lawful

\* Every accepted block keeps the rules, for as long as the chain grows.
THEOREM RulesInvariant ==
  Spec => []RulesInv
<1>1. Init => RulesInv
  <2> SUFFICES ASSUME Init PROVE RulesInv
    OBVIOUS
  <2>1. PICK c \in Chains : tree = c.tree
    BY DEF Init
  <2>2. HeadersOk
    BY <2>1, ChainAssumption DEF HeadersOk
  <2> QED BY <2>2 DEF RulesInv, Init
<1>2. ChainInv /\ RulesInv /\ [Next]_vars => RulesInv'
  <2> SUFFICES ASSUME ChainInv, RulesInv, [Next]_vars PROVE RulesInv'
    OBVIOUS
  <2>1. ASSUME tree' = tree, headers' = headers PROVE RulesInv'
    BY <2>1, StaysLawful DEF RulesInv, HeadersOk
  <2>2. ASSUME NEW b, Lawful(b), tree' = tree, headers' = headers \cup {b} PROVE RulesInv'
    <3>1. \A c \in headers' \ {Genesis} : Lawful(c)
      BY <2>2 DEF RulesInv
    <3>2. \A c \in headers' \ {Genesis} : Lawful(c)'
      BY <2>2, <3>1, StaysLawful
    <3>3. HeadersOk'
      BY <2>2 DEF RulesInv, HeadersOk
    <3> QED BY <3>2, <3>3 DEF RulesInv
  <2>3. CASE Next
    <3>1. CASE Stopped
      BY <2>1, <3>1 DEF Stopped
    <3>2. ASSUME NEW b \in DOMAIN tree, Rejected(b) PROVE RulesInv'
      BY <2>1, <3>2 DEF Rejected
    <3>3. ASSUME NEW b \in DOMAIN tree, Lawful(b), Accepted(b) PROVE RulesInv'
      BY <2>2, <3>3 DEF Accepted
    <3> QED BY <2>3, <3>1, <3>2, <3>3, NextOutcome
  <2>4. CASE UNCHANGED vars
    BY <2>1, <2>4 DEF vars
  <2> QED BY <2>3, <2>4
<1> QED BY <1>1, <1>2, ChainInvariant, PTL DEF Spec

\* On every branch of accepted blocks an ommer is rewarded once, is no ancestor
\* and has a reward between nothing and all, and after the fork the base fee
\* follows the gas target.
THEOREM RulesAreKept ==
  Spec => []RulesKept
<1>1. ChainInv /\ RulesInv => RulesKept
  BY OmmersKept, FeesKept DEF RulesKept
<1> QED BY <1>1, ChainInvariant, RulesInvariant, PTL
==============================================================================
