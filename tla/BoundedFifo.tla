---------------------------- MODULE BoundedFifo ----------------------------
(***************************************************************************)
(* What a bounded single-producer single-consumer queue promises: what is  *)
(* received is what was sent, in the order it was sent, each element once, *)
(* and never more than Cap elements are in transit.  An operation that     *)
(* finds the queue full or empty is a stuttering step.                     *)
(***************************************************************************)
EXTENDS Integers, Sequences

CONSTANTS Elem,  \* what the queue carries
          Cap    \* how many elements it holds

VARIABLES sent,  \* the elements accepted so far, oldest first
          rcvd   \* the elements handed out so far, oldest first

vars == <<sent, rcvd>>

Init == sent = <<>> /\ rcvd = <<>>

Send(e) == /\ Len(sent) - Len(rcvd) < Cap
           /\ sent' = Append(sent, e)
           /\ UNCHANGED rcvd

Receive == /\ Len(rcvd) < Len(sent)
           /\ rcvd' = Append(rcvd, sent[Len(rcvd) + 1])
           /\ UNCHANGED sent

Next == Receive \/ \E e \in Elem : Send(e)

Spec == Init /\ [][Next]_vars
=============================================================================
