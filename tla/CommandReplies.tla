--------------------------- MODULE CommandReplies ---------------------------
(***************************************************************************)
(* What a device owes its gateway, stated without tasks and channels: the  *)
(* answers to its commands leave in the order in which the commands were   *)
(* carried out, none is skipped, repeated or invented, and what has not    *)
(* left when the connection ends never leaves.                             *)
(***************************************************************************)
EXTENDS Naturals, Sequences

VARIABLES
  due,    \* answers owed since the connection was made
  sent,   \* answers that have left
  open    \* the connection can carry answers

vars == <<due, sent, open>>

Init == due = <<>> /\ sent = <<>> /\ open = TRUE

(* A command is carried out: its answers are owed after all the others.    *)
CarryOut ==
  /\ open
  /\ Len(due') > Len(due)
  /\ SubSeq(due', 1, Len(due)) = due
  /\ UNCHANGED <<sent, open>>

Emit ==
  /\ open
  /\ Len(sent) < Len(due)
  /\ sent' = Append(sent, due[Len(sent) + 1])
  /\ UNCHANGED <<due, open>>

Close ==
  /\ open
  /\ open' = FALSE
  /\ due' = sent
  /\ sent' = sent

Next == CarryOut \/ Emit \/ Close

Spec == Init /\ [][Next]_vars

FairSpec == Spec /\ WF_vars(Emit)
=============================================================================
