----------------------------- MODULE HeaderChain -----------------------------
(***************************************************************************)
(* What a phase of the header downloader promises to the stage that runs   *)
(* it: the canonical header chain of the database only grows at its end,   *)
(* every addition hangs from what is there, and the block number that the  *)
(* phase would report as its progress only moves forward, over headers     *)
(* that have been saved.                                                   *)
(***************************************************************************)
EXTENDS Naturals, Sequences

CONSTANTS
  Headers,    \* slices of headers; see HeaderPipeline
  Trusted     \* the branch the chain starts from

VARIABLES
  chain,      \* the saved slices, a sequence
  progress    \* number of slices the phase reports as loaded

vars == <<chain, progress>>

Linked(c) ==
  \A k \in 1 .. Len(c) :
    c[k].ok /\ c[k].up = IF k = 1 THEN Trusted ELSE c[k - 1].tip

Init == chain = <<>> /\ progress = 0

Extend ==
  /\ chain' \in Seq(Headers)
  /\ Len(chain') > Len(chain)
  /\ \A k \in 1 .. Len(chain) : chain'[k] = chain[k]
  /\ Linked(chain')
  /\ UNCHANGED progress

Report ==
  /\ progress' \in progress + 1 .. Len(chain)
  /\ UNCHANGED chain

Next == Extend \/ Report

Spec == Init /\ [][Next]_vars
=============================================================================
