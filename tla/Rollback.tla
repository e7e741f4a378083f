------------------------------ MODULE Rollback ------------------------------
(***************************************************************************)
(* What nested execution promises: every message that is being executed    *)
(* has a copy of the world it started from, and a message that does not    *)
(* succeed leaves exactly that copy behind.                                *)
(***************************************************************************)
EXTENDS Integers, Sequences, SequencesExt

VARIABLES
  world,   \* accounts, storage and the transaction's substate
  saved,   \* the worlds the messages in execution started from
  status   \* how the message that ended last has ended

vars == <<world, saved, status>>

Init == saved = <<>>

\* The message in execution changes the world, or is done with at once.
Step == saved' = saved

\* A message starts; what the others started from stays as it was.
Start == /\ Len(saved') = Len(saved) + 1
         /\ IsPrefix(saved, saved')

\* The message in execution ends.
End == /\ saved # <<>>
       /\ saved' = Front(saved)
       /\ status' # "Success" => world' = Last(saved)

Next == Step \/ Start \/ End

Spec == Init /\ [][Next]_vars
=============================================================================
