------------------------------ MODULE MCThermal -----------------------------
(* The Newport profile in the code's proportions, where the base delay     *)
(* covers the jitter, and a chip launched with a delay so small that the   *)
(* launcher's fixed jitter exceeds it, and a PHY without jitter.           *)
EXTENDS PorthThermal

Newport == [base |-> 2, jitter |-> 2]
Launched == [base |-> 0, jitter |-> 2]
Still == [base |-> 0, jitter |-> 0]
Configs == {Launched, Still}
=============================================================================
