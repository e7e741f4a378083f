------------------------------ MODULE MCChain ------------------------------
(* An instance of Chain.                                                    *)
EXTENDS Chain

\* A block by what is free in it; the header's other fields follow from the
\* parent, the difficulty too if it is 0 here.
Block(p, parent, plan) ==
  LET h == [number |-> p.number + (IF plan.flaw = "number" THEN 2 ELSE 1), parent |-> parent,
            timestamp |-> p.timestamp + plan.dt,
            gasLimit |-> IF p.number + 1 = Eip1559Block
                         THEN 2 * p.gasLimit ELSE p.gasLimit,
            gasUsed |-> plan.gasUsed, baseFee |-> 0, difficulty |-> plan.difficulty,
            ommers |-> plan.ommers, bodyOk |-> plan.flaw # "body",
            executes |-> plan.flaw # "executes", root |-> plan.flaw # "root",
            signed |-> plan.flaw # "signed"]
  IN [h EXCEPT !.baseFee = ExpectedBaseFee(h, p),
               !.difficulty = IF @ = 0 THEN CanonicalDifficulty(h, p) ELSE @]

GenesisBlock == [number |-> 0, parent |-> None, timestamp |-> 0, gasLimit |-> 8192,
                 gasUsed |-> 0, baseFee |-> 0, difficulty |-> 1048576, ommers |-> {},
                 bodyOk |-> TRUE, executes |-> TRUE, root |-> TRUE, signed |-> TRUE]

Tree(parents, plans) ==
  LET t[b \in 0 .. Len(parents)] ==
        IF b = 0 THEN GenesisBlock ELSE Block(t[parents[b]], parents[b], plans[b])
  IN t

Plan(dt, gasUsed, diff, ommers, flaw) ==
  [dt |-> dt, gasUsed |-> gasUsed, difficulty |-> diff,
   ommers |-> ommers, flaw |-> flaw]

\* Every tree of four blocks, some three times as heavy as the others,
\* of which one may be invalid.
Forks ==
  {[ethash |-> FALSE,
    tree |-> Tree(parents, [b \in 1 .. 4 |->
               Plan(1, 0, diff[b], {}, IF b = flaw[1] THEN flaw[2] ELSE "none")])] :
     parents \in {p \in [1 .. 4 -> 0 .. 3] : \A b \in 1 .. 4 : p[b] < b},
     diff \in [1 .. 4 -> {1, 3}],
     flaw \in {<<0, "none">>} \cup ((1 .. 3) \X {"executes", "root"})}

\* Blocks 1 and 2 on genesis and the others on 1, with ommers, gas and times.
Rules ==
  {[ethash |-> TRUE,
    tree |-> Tree(<<0, 0, 1, 3>>,
                  <<Plan(dt[1], gas, 0, {}, "none"), Plan(dt[2], 0, 0, {}, flaw),
                    Plan(5, gas, 0, o3, "none"), Plan(5, 0, d, o4, flaw)>>)] :
     dt \in {5, 20} \X {5, 20}, gas \in {0, 8192, 16384}, d \in {0, 7},
     o3 \in SUBSET {1, 2}, o4 \in SUBSET {2, 3}, flaw \in {"none", "body", "signed", "number"}}

MCChains == Forks \cup Rules
=============================================================================
