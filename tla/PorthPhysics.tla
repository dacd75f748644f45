---------------------------- MODULE PorthPhysics ----------------------------
(***************************************************************************)
(* The thermal model of the digital twin as functions of its state:        *)
(* update_thermal_model() of PorthSimDevice.hpp and update_thermal_load()  *)
(* of PorthSimPHY.hpp.  The code computes in uint32_t; the bounds of       *)
(* PorthThermal show that no intermediate value leaves that range, so the  *)
(* integers here need no wrap-around.                                      *)
(***************************************************************************)
EXTENDS Integers

CONSTANTS
  SIM_BASE_TEMP_MC,   \* temperature at rest, also DEFAULT_BASE_TEMP_MC
  HEATING_STEP_MC, COOLING_STEP_MC,      \* thermal inertia per physics step
  GAN_VOLT_LIMIT_UV, GAN_VOLT_STEP_UV, GAN_VOLT_COOL_UV,   \* power rail
  VOLT_TEMP_DIV, VOLT_TEMP_MULT,         \* voltage to target temperature
  THERMAL_THRESHOLD_MC,                  \* above it the SNR degrades
  SNR_BASELINE_MC, SNR_TEMP_DIV

ASSUME PhysicsAssumption ==
  /\ SIM_BASE_TEMP_MC \in Nat /\ THERMAL_THRESHOLD_MC \in Nat
  /\ HEATING_STEP_MC \in Nat \ {0} /\ COOLING_STEP_MC \in Nat \ {0}
  /\ GAN_VOLT_LIMIT_UV \in Nat
  /\ GAN_VOLT_STEP_UV \in Nat \ {0} /\ GAN_VOLT_COOL_UV \in Nat \ {0}
  /\ VOLT_TEMP_DIV \in Nat \ {0} /\ VOLT_TEMP_MULT \in Nat
  /\ SNR_BASELINE_MC \in Int /\ SNR_TEMP_DIV \in Nat \ {0}

(* One cooling step below the base temperature is still not negative.      *)
ASSUME ColdAssumption == COOLING_STEP_MC <= SIM_BASE_TEMP_MC

(* Faulty variant of NextVolt: the limit is never compared with.           *)
NextVoltUnlimited(volt, powered) ==
  IF powered THEN volt + GAN_VOLT_STEP_UV
  ELSE IF volt > GAN_VOLT_COOL_UV THEN volt - GAN_VOLT_COOL_UV ELSE 0

(* Faulty variant of NextVolt: the comparison with the limit is reversed.  *)
NextVoltReversed(volt, powered) ==
  IF powered
  THEN IF volt > GAN_VOLT_LIMIT_UV THEN volt + GAN_VOLT_STEP_UV ELSE volt
  ELSE IF volt > GAN_VOLT_COOL_UV THEN volt - GAN_VOLT_COOL_UV ELSE 0

(* gan_voltage after one step.                                             *)
NextVolt(volt, powered) ==
  IF powered
  THEN IF volt < GAN_VOLT_LIMIT_UV THEN volt + GAN_VOLT_STEP_UV ELSE volt
  ELSE IF volt > GAN_VOLT_COOL_UV THEN volt - GAN_VOLT_COOL_UV ELSE 0

(* target_temp for a rail voltage.                                         *)
TargetTemp(volt) == SIM_BASE_TEMP_MC + (volt \div VOLT_TEMP_DIV) * VOLT_TEMP_MULT

(* Faulty variants of Inertia: cools when it has arrived; never cools.     *)
InertiaAtTarget(current, target) ==
  IF target > current THEN current + HEATING_STEP_MC
  ELSE current - COOLING_STEP_MC
InertiaHeatOnly(current, target) ==
  IF target > current THEN current + HEATING_STEP_MC ELSE current

(* update_thermal_load(): a fixed step towards the target, which may       *)
(* overshoot it, and no step at the target.                                *)
Inertia(current, target) ==
  CASE target > current -> current + HEATING_STEP_MC
    [] target < current -> current - COOLING_STEP_MC
    [] OTHER -> current

(* rf_snr for a temperature.                                               *)
Snr(temp) ==
  IF temp > THERMAL_THRESHOLD_MC
  THEN SNR_BASELINE_MC - ((temp - THERMAL_THRESHOLD_MC) \div SNR_TEMP_DIV)
  ELSE SNR_BASELINE_MC
=============================================================================
