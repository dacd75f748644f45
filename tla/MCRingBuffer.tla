---------------------------- MODULE MCRingBuffer ----------------------------
(***************************************************************************)
(* PorthRingBuffer for TLC.                                                *)
(***************************************************************************)
EXTENDS PorthRingBuffer, Bitwise

(* The mask of the code is the modulo of the model on every index push()   *)
(* and pop() can compute.                                                  *)
ASSUME MaskIsModulo == \A i \in Slot : ((i + 1) & (SIZE - 1)) = Wrap(i + 1)
=============================================================================
