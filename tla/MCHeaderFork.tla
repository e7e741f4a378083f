---------------------------- MODULE MCHeaderFork ----------------------------
(* An instance of HeaderFork.                                               *)
EXTENDS HeaderFork

\* Branch a is the first one, c leaves it after a4, in the middle of the
\* slice at 2, e does not meet it in the window.
Line(letter, from, to) == {<<letter, n>> : n \in from .. to}
MCBlocks == Line("a", 1, 9) \cup Line("c", 5, 9) \cup Line("e", 2, 7)
MCNumber == [b \in MCBlocks |-> b[2]]
MCParent == [b \in MCBlocks |->
               IF b = <<"c", 5>> THEN <<"a", 4>>
               ELSE IF <<b[1], b[2] - 1>> \in MCBlocks THEN <<b[1], b[2] - 1>>
               ELSE <<"none">>]
MCDifficulty == [b \in MCBlocks |-> 1]
MCNone == <<"none">>

Two(x, y, p) == << <<x, 2 * p>>, <<y, 2 * p + 1>> >>
A(p) == Two("a", "a", p)
C(p) == IF p = 2 THEN Two("a", "c", p) ELSE Two("c", "c", p)
E(p) == Two("e", "e", p)
Net(s1, s2, s3, s4) == <<s1, s2, s3, s4>>

\* Of the deepest network all interleavings without a restart are checked, of
\* its parts those with one.
MCDeep == Net({A(1)}, {A(2), C(2)}, {A(3), C(3)}, {C(4)})
MCNetworks ==
  {MCDeep,
   Net({A(1)}, {A(2), C(2)}, {A(3), C(3)}, {}),
   Net({A(1)}, {A(2), C(2)}, {C(3)}, {C(4)}),
   Net({A(1)}, {A(2), C(2)}, {A(3)}, {C(4)}),
   Net({A(1)}, {A(2)}, {A(3), << <<"a", 6>> >>}, {A(4)}),
   Net({A(1), E(1), Two("e", "a", 1)}, {A(2), E(2)}, {A(3), Two("a", "c", 3)}, {})}
MCMaxCrashes == [n \in MCNetworks |-> IF n = MCDeep THEN 0 ELSE 1]
MCSaved == {<<"a", 1>>}
=============================================================================
