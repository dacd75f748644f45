---------------------------- MODULE PorthSimPHY -----------------------------
(***************************************************************************)
(* The latency the PHY adds to one register access: apply_protocol_delay() *)
(* of PorthSimPHY.hpp.  The sum is unsigned, so it is taken modulo WORD,   *)
(* which is 2^64 in the code; the random draws are the bound variables     *)
(* drift (in -jitter..jitter) and spike.                                   *)
(***************************************************************************)
EXTENDS PorthPhysics

CONSTANTS WORD, MC_TO_C_DIVISOR, DEFAULT_FEC_PENALTY_NS, FEC_RETRY_SPIKE_NS

ASSUME PHYAssumption ==
  /\ WORD \in Nat \ {0} /\ MC_TO_C_DIVISOR \in Nat \ {0}
  /\ DEFAULT_FEC_PENALTY_NS \in Nat /\ FEC_RETRY_SPIKE_NS \in Nat

(* Faulty variant of ThermalJitter: below the threshold the unsigned       *)
(* difference wraps.                                                       *)
ThermalJitterUnguarded(temp) ==
  ((temp - THERMAL_THRESHOLD_MC) % WORD) \div MC_TO_C_DIVISOR

(* calculate_thermal_jitter()                                              *)
ThermalJitter(temp) ==
  IF temp > THERMAL_THRESHOLD_MC
  THEN (temp - THERMAL_THRESHOLD_MC) \div MC_TO_C_DIVISOR
  ELSE 0

(* get_fec_penalty(): a retry is drawn at every SNR, more often at a low   *)
(* one.                                                                    *)
FecPenalty == {0, FEC_RETRY_SPIKE_NS}

(* What m_jitter_dist can return under a configuration, set_config().      *)
Drift(jitter) == (-jitter)..jitter

(* total_delay_ns                                                          *)
ProtocolDelay(base, drift, temp, spike) ==
  (base + DEFAULT_FEC_PENALTY_NS + drift + ThermalJitter(temp) + spike) % WORD
=============================================================================
