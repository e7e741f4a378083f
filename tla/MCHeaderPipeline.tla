-------------------------- MODULE MCHeaderPipeline --------------------------
(* Instances of HeaderPipeline for TLC. *)
EXTENDS HeaderPipeline, TLC

H(up, tip, ok, len) == [up |-> up, tip |-> tip, ok |-> ok, len |-> len]

GoodHeaders  == H("A", "A", TRUE, "full")   \* the canonical slice
BadHeaders   == H("A", "A", FALSE, "full")  \* inconsistent headers
AlienHeaders == H("B", "B", TRUE, "full")   \* a slice of another branch
ForkHeaders  == H("A", "B", TRUE, "full")   \* leaves the trusted branch
FirstHeader  == H("A", "A", TRUE, "first")  \* an answer of one header
LongHeaders  == H("A", "A", TRUE, "long")   \* the next slice comes with it
PartHeaders  == H("A", "A", TRUE, "part")   \* an answer cut short

MCBranches == {"A", "B"}
LinearContents == {GoodHeaders, BadHeaders, AlienHeaders, ForkHeaders}
PreverifiedContents ==
  {GoodHeaders, BadHeaders, LongHeaders, FirstHeader, PartHeaders}

\* Peers are interchangeable (the run without liveness).
Symmetry == Permutations(Peers)
=============================================================================
