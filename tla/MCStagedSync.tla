---------------------------- MODULE MCStagedSync ----------------------------
(* A small instance of StagedSync. *)
EXTENDS StagedSync

\* Three blocks; one chain forks after block 0 and one after block 1.
MCTree == [A |-> [n \in 0 .. 3 |-> <<40, 10, 60, 20>>[n + 1]],
           B |-> [n \in 0 .. 3 |-> <<40, 10, 30, 50>>[n + 1]],
           C |-> [n \in 0 .. 3 |-> <<40, 15, 35, 55>>[n + 1]]]
MCBranches == {"A", "B", "C"}
MCTxAmount == [h \in {10, 15, 20, 30, 35, 40, 50, 55, 60} |->
                 IF h = 40 \/ h = 30 THEN 0 ELSE IF h = 60 THEN 2 ELSE 1]

\* With and without --max-block.
MCToBlocks == {None, 2}
=============================================================================
