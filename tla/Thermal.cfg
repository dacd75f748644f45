CONSTANTS
  SIM_BASE_TEMP_MC = 10
  HEATING_STEP_MC = 5
  COOLING_STEP_MC = 3
  GAN_VOLT_LIMIT_UV = 4
  GAN_VOLT_STEP_UV = 1
  GAN_VOLT_COOL_UV = 2
  VOLT_TEMP_DIV = 2
  VOLT_TEMP_MULT = 12
  THERMAL_THRESHOLD_MC = 22
  SNR_BASELINE_MC = 30
  SNR_TEMP_DIV = 4
  LIMIT_MC = 26
  PROFILE <- Newport
  CONFIGS <- Configs
  WORD = 4096
  MC_TO_C_DIVISOR = 4
  DEFAULT_FEC_PENALTY_NS = 1
  FEC_RETRY_SPIKE_NS = 20
SPECIFICATION FairSpec
INVARIANTS ThermalBounds DelayBounded
PROPERTIES NoRunaway Overheats CoolsDown
CHECK_DEADLOCK TRUE
