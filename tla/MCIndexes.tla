----------------------------- MODULE MCIndexes -----------------------------
(* A small instance of Indexes. *)
EXTENDS Indexes

MCAddr == {1, 2}
Kind(one, two, hashes) == [traces |-> <<one, two>>, hashes |-> hashes]

\* Address 1 is traced nearly everywhere, so its chunks fill up; hashes come
\* in an order that is not the one of the blocks.
MCKinds == {Kind({"from"}, {}, <<5, 2>>), Kind({"from", "to"}, {"to"}, <<4>>),
            Kind({"from"}, {"from"}, <<1>>), Kind({}, {"to"}, <<>>),
            Kind({"from"}, {}, <<>>)}
=============================================================================
