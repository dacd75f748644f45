CONSTANTS
  SIM_BASE_TEMP_MC = 10
  HEATING_STEP_MC = 5
  COOLING_STEP_MC = 3
  GAN_VOLT_LIMIT_UV = 2
  GAN_VOLT_STEP_UV = 1
  GAN_VOLT_COOL_UV = 2
  VOLT_TEMP_DIV = 1
  VOLT_TEMP_MULT = 5
  THERMAL_THRESHOLD_MC = 12
  SNR_BASELINE_MC = 30
  SNR_TEMP_DIV = 4
  LIMIT_MC = 14
  MAX_TEMP_MC = 14
  None = None
  Shuttle = {s1}
  CAPACITY = 1
  WRAP = 8
  Programs = {{"transmit", "receive"}}
SPECIFICATION Spec
INVARIANTS ReceivesProcessed
CHECK_DEADLOCK FALSE
