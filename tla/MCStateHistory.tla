--------------------------- MODULE MCStateHistory ---------------------------
(* Instances of StateHistory.                                                *)
EXTENDS StateHistory

\* The order of the hashed addresses is not the order of the addresses.
MCHashRank == [a \in 1..NAddr |-> NAddr + 1 - a]

\* Nothing is created in a later block where a contract was destructed.
Once == {"update", "pay", "create", "destroy", "revive"}

\* Accounts and contracts come again, but contracts not in the block that
\* destructs them.
LaterBlocks == Once \cup {"payAgain", "again", "dead"}

\* Empty accounts are touched.
TouchedDead == {"update", "create", "dead"}

=============================================================================
