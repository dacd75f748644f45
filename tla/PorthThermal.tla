---------------------------- MODULE PorthThermal ----------------------------
(***************************************************************************)
(* The thermal loop of the digital twin on its own.  The physics thread    *)
(* drains the ring, each descriptor slowed down by a delay, and then steps *)
(* the thermal model; anybody who maps the registers writes control when   *)
(* he likes; and the thread that owns the twin accesses registers through  *)
(* read_reg() and its kin, each access slowed down likewise, and between   *)
(* two accesses gives the PHY a new configuration under the physics        *)
(* thread's hands: set_config() stores its fields without synchronisation. *)
(***************************************************************************)
EXTENDS PorthSimPHY

CONSTANTS
  LIMIT_MC,   \* what the guards trip at, 45 degrees
  PROFILE,    \* the base delay and jitter the constructor leaves
  CONFIGS     \* the base delays and jitters that set_config() is given

ASSUME LimitAssumption == LIMIT_MC \in Nat
ASSUME ConfigAssumption ==
  CONFIGS \cup {PROFILE} \subseteq [base : Nat, jitter : Nat]

VARIABLES control,            \* 1 powers the rail, every other value is off
          gan_voltage,
          m_current_temp_mc,  \* the inertial temperature inside the PHY
          laser_temp,         \* the register the guards poll
          rf_snr,
          phy,      \* m_base_delay_ns and m_jitter_ns, with m_jitter_dist
          setting,  \* the configuration being stored, phy when there is none
          given,    \* history: the configurations given so far
          pending,  \* the access that spins: none, a read, a value to write
          delay,    \* total_delay_ns of the access in progress, else 0
          dma       \* the physics thread's step, and the value it works on

physics == <<control, gan_voltage, m_current_temp_mc, laser_temp, rf_snr>>
config == <<phy, setting, given>>
access == <<pending, delay>>
vars == <<physics, config, access, dma>>

NoAccess == [op |-> "none", val |-> 0]
Accesses == {[op |-> "read", val |-> 0]} \cup [op : {"write"}, val : {0, 1}]
At(pc) == [pc |-> pc, val |-> 0]

(* What the PorthSimDevice constructor leaves in zeroed shared memory, and *)
(* the configuration it gave the PHY before it started the physics thread. *)
Init ==
  /\ control = 0
  /\ gan_voltage = 0
  /\ m_current_temp_mc = SIM_BASE_TEMP_MC
  /\ laser_temp = SIM_BASE_TEMP_MC
  /\ rf_snr = 0
  /\ phy = PROFILE /\ setting = PROFILE /\ given = {PROFILE}
  /\ pending = NoAccess /\ delay = 0
  /\ dma = At("pop")

(* A driver or a tool that maps the registers writes one of them.          *)
WriteControl(c) ==
  /\ control' = c
  /\ UNCHANGED <<gan_voltage, m_current_temp_mc, laser_temp, rf_snr, config, access, dma>>

(* The values a concurrent reader may find in a field: the stores of       *)
(* set_config() are neither atomic nor ordered.                            *)
Seen(field) == {phy[field], setting[field]}

(* process_dma() of a ring with a descriptor: m_jitter_ns is tested and,   *)
(* unless it is zero, the width of the distribution read ...               *)
DmaPop ==
  /\ dma.pc = "pop"
  /\ \/ 0 \in Seen("jitter") /\ dma' = At("sum")
     \/ /\ \E j \in Seen("jitter") : j > 0
        /\ \E a, b \in Seen("jitter") : dma' = [pc |-> "low", val |-> a + b]
  /\ UNCHANGED <<physics, config, access>>

(* ... then its lower end, to which the draw is added ...                  *)
DmaDraw ==
  /\ dma.pc = "low"
  /\ \E r \in 0..dma.val, a \in Seen("jitter") : dma' = [pc |-> "sum", val |-> r - a]
  /\ UNCHANGED <<physics, config, access>>

(* ... and the base delay, the temperature and a retry are added up.       *)
DmaSum ==
  /\ dma.pc = "sum"
  /\ \E base \in Seen("base"), spike \in FecPenalty :
       dma' = [pc |-> "spin", val |-> ProtocolDelay(base, dma.val, m_current_temp_mc, spike)]
  /\ UNCHANGED <<physics, config, access>>

(* The spin ends and the loop tries the next descriptor.                   *)
DmaSpun ==
  /\ dma.pc = "spin"
  /\ dma' = At("pop")
  /\ UNCHANGED <<physics, config, access>>

(* The ring is empty, or there is none.                                    *)
DmaDrained ==
  /\ dma.pc = "pop"
  /\ dma' = At("thermal")
  /\ UNCHANGED <<physics, config, access>>

(* One call of update_thermal_model().                                     *)
Update ==
  /\ dma.pc = "thermal" /\ dma' = At("pop")
  /\ gan_voltage' = NextVolt(gan_voltage, control = 1)
  /\ m_current_temp_mc' = Inertia(m_current_temp_mc, TargetTemp(gan_voltage'))
  /\ rf_snr' = Snr(m_current_temp_mc')
  /\ laser_temp' = m_current_temp_mc'
  /\ UNCHANGED <<control, config, access>>

(* set_config(), called directly or by apply_scenario() and                *)
(* load_newport_profile() on the thread that owns the twin and therefore   *)
(* between two of its accesses, begins to store ...                        *)
SetConfig(c) ==
  /\ pending = NoAccess /\ setting = phy
  /\ setting' = c
  /\ given' = given \cup {c}
  /\ UNCHANGED <<physics, phy, access, dma>>

(* ... and has stored everything.                                          *)
ConfigSet ==
  /\ setting # phy
  /\ phy' = setting
  /\ UNCHANGED <<physics, setting, given, access, dma>>

(* read_reg(), read_flit(), write_reg() and write_flit() first spin; the   *)
(* thread has returned from set_config() by then.                          *)
BeginAccess(a) ==
  /\ pending = NoAccess /\ setting = phy
  /\ pending' = a
  /\ \E drift \in Drift(phy.jitter), spike \in FecPenalty :
        delay' = ProtocolDelay(phy.base, drift, m_current_temp_mc, spike)
  /\ UNCHANGED <<physics, config, dma>>

(* ... and load or store the register when the spin is over.               *)
EndAccess ==
  /\ pending # NoAccess
  /\ control' = IF pending.op = "write" THEN pending.val ELSE control
  /\ pending' = NoAccess /\ delay' = 0
  /\ UNCHANGED <<gan_voltage, m_current_temp_mc, laser_temp, rf_snr, config, dma>>

PhysicsThread == DmaPop \/ DmaDraw \/ DmaSum \/ DmaSpun \/ DmaDrained \/ Update

Next ==
  \/ PhysicsThread
  \/ \E c \in {0, 1} : WriteControl(c)
  \/ \E c \in CONFIGS : SetConfig(c)
  \/ ConfigSet
  \/ \E a \in Accesses : BeginAccess(a)
  \/ EndAccess

Spec == Init /\ [][Next]_vars

(* run_physics_loop() goes on for as long as the device lives.             *)
FairSpec == Spec /\ WF_vars(PhysicsThread)

-----------------------------------------------------------------------------
(* Properties                                                              *)

MaxVolt == GAN_VOLT_LIMIT_UV + GAN_VOLT_STEP_UV - 1
MinTemp == SIM_BASE_TEMP_MC - COOLING_STEP_MC + 1
MaxTemp == TargetTemp(MaxVolt) + HEATING_STEP_MC - 1

(* The rail and the temperature stay within one step of their physical     *)
(* range whatever is written to control; so none of the unsigned           *)
(* subtractions of update_thermal_model() and update_thermal_load() wraps. *)
ThermalBounds ==
  /\ control \in {0, 1}
  /\ gan_voltage \in 0..MaxVolt
  /\ m_current_temp_mc \in MinTemp..MaxTemp
  /\ laser_temp = m_current_temp_mc
  /\ rf_snr \in Int
  /\ pending \in Accesses \cup {NoAccess}
  /\ dma.pc \in {"pop", "low", "sum", "spin", "thermal"} /\ dma.val \in Int
  /\ phy \in given /\ setting \in given /\ given \subseteq CONFIGS \cup {PROFILE}

(* The delays between which a base delay and a jitter leave a choice: from *)
(* full negative jitter to full positive jitter, the hottest chip and an   *)
(* FEC retry.                                                              *)
LeastDelay(base, jitter) == base + DEFAULT_FEC_PENALTY_NS - jitter
MostDelay(base, jitter) ==
  base + DEFAULT_FEC_PENALTY_NS + jitter + ThermalJitter(MaxTemp) + FEC_RETRY_SPIKE_NS

(* A delay between lo and hi; or one that wrapped at zero, and lo allows   *)
(* it; or one that wrapped at the top, and hi allows it.                   *)
Explained(d, lo, hi) ==
  \/ lo <= d /\ d <= hi
  \/ lo < 0 /\ d >= WORD + lo
  \/ hi >= WORD /\ d <= hi - WORD

(* Every spin of apply_protocol_delay() is explained by what set_config()  *)
(* was given.  The owner's spins lie in the window of the configuration in *)
(* force.  The physics thread's, which may read a configuration half       *)
(* stored, lie in the window of a base delay and a jitter that were both   *)
(* given, if not together, and reach up to twice the jitter.  And the      *)
(* unsigned sum wraps, to a spin of centuries, only when such a jitter     *)
(* exceeds such a base delay plus the FEC penalty: a torn read, a hot chip *)
(* or a retry alone never makes it wrap.                                   *)
DelayBounded ==
  /\ pending # NoAccess =>
       Explained(delay, LeastDelay(phy.base, phy.jitter), MostDelay(phy.base, phy.jitter))
  /\ dma.pc = "spin" =>
       \E b, c \in given :
          Explained(dma.val, LeastDelay(b.base, c.jitter), MostDelay(b.base, 2 * c.jitter))

(* No step runs away from the target of the rail voltage: above it the     *)
(* temperature does not rise, and a step that crosses it overshoots by     *)
(* less than itself.                                                       *)
NoRunaway ==
  [][LET target == TargetTemp(gan_voltage')
     IN  /\ m_current_temp_mc > target => m_current_temp_mc' <= m_current_temp_mc
         /\ m_current_temp_mc <= target => m_current_temp_mc' < target + HEATING_STEP_MC
         /\ m_current_temp_mc >= target => m_current_temp_mc' > target - COOLING_STEP_MC]_vars

(* A chip left powered on overheats past the guards' limit, unless a fed   *)
(* ring keeps the physics thread from the thermal model for ever: the      *)
(* guards are needed, and one that only watches laser_temp does get its    *)
(* signal.                                                                 *)
Overheats ==
  <>[](control = 1) => <>(laser_temp > LIMIT_MC) \/ <>[](dma.pc # "thermal")

(* A chip left powered off, its thermal model still being stepped, comes   *)
(* to rest at exactly the base temperature: the overshooting steps of      *)
(* update_thermal_load() do not oscillate about the target for ever.       *)
CoolsDown ==
  <>[](control # 1) => <>[](laser_temp = SIM_BASE_TEMP_MC) \/ <>[](dma.pc # "thermal")
=============================================================================
