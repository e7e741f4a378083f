-------------------------- MODULE MCBlockExecution --------------------------
(* An instance of BlockExecution.                                           *)
EXTENDS BlockExecution

\* The precompiled contract with the exceptional touch, a sender, a contract
\* with one slot, and an address without an account.
MCAddr == {3, 20, 21, 22}
MCGenesis == (20 :> [nonce |-> 0, balance |-> 310000, code |-> "none"])
             @@ (21 :> [nonce |-> 1, balance |-> 1, code |-> "code"])
MCSlots == (<<21, 0>> :> 1)
MCBalanceChanges == (21 :> 2)

Tx(action, to, value, nonce, access, gasLimit) ==
  [action |-> action, to |-> to, value |-> value, nonce |-> nonce,
   sender |-> 20, access |-> access, gasLimit |-> gasLimit,
   maxFee |-> 3, maxPriorityFee |-> 1]

\* After the first transaction gas or funds may not be enough for the second.
MCTxs == {Tx("Call", 21, 0, 0, <<0>>, 100000), Tx("Call", 21, 1, 1, <<>>, 60000),
          [Tx("Create", 22, 1, 1, <<>>, 100000) EXCEPT !.maxFee = 1]}

MCCalls == {[kind |-> "Call", target |-> 21, value |-> 1],
            [kind |-> "Call", target |-> 3, value |-> 0],
            [kind |-> "StaticCall", target |-> 21, value |-> 0],
            [kind |-> "CallCode", target |-> 21, value |-> 1],
            [kind |-> "DelegateCall", target |-> 21, value |-> 0],
            [kind |-> "Create", target |-> 22, value |-> 0]}
=============================================================================
