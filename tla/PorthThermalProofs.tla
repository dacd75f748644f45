------------------------- MODULE PorthThermalProofs -------------------------
(***************************************************************************)
(* The rail and the temperature of the digital twin stay in range for      *)
(* every choice of the physical constants, the code's own among them.      *)
(***************************************************************************)
EXTENDS PorthThermal, TLAPS

(* Multiplication by a natural number preserves order.                     *)
LEMMA TimesMonotone ==
  ASSUME NEW a \in Int, NEW b \in Int, NEW m \in Nat, a <= b
  PROVE  a * m <= b * m
<1> DEFINE k == b - a
<1>1. k \in Nat
  OBVIOUS
<1>2. k * m \in Nat
  BY <1>1
<1>3. b * m = a * m + k * m
  OBVIOUS
<1> QED
  BY <1>2, <1>3

(* Integer division by a positive number preserves order.                  *)
LEMMA DivMonotone ==
  ASSUME NEW a \in Nat, NEW b \in Nat, NEW d \in Nat \ {0}, a <= b
  PROVE  /\ a \div d \in Nat /\ b \div d \in Nat
         /\ a \div d <= b \div d
<1> DEFINE p == a \div d
           q == b \div d
<1>1. p \in Nat /\ q \in Nat
  BY SMT
<1>2. p * d <= a /\ b < q * d + d
  BY SMT
<1>3. ASSUME q + 1 <= p PROVE FALSE
  <2>1. (q + 1) * d <= p * d
    BY <1>1, <1>3, TimesMonotone
  <2>2. (q + 1) * d = q * d + d
    BY <1>1
  <2>3. q * d \in Int /\ p * d \in Int
    BY <1>1
  <2> HIDE DEF p, q
  <2> QED
    BY <1>2, <2>1, <2>2, <2>3
<1> HIDE DEF p, q
<1>4. p <= q
  BY <1>1, <1>3
<1> QED
  BY <1>1, <1>4 DEF p, q

(* A higher rail voltage never has a lower target temperature.             *)
LEMMA TargetMonotone ==
  ASSUME NEW v \in Nat, NEW w \in Nat, v <= w
  PROVE  /\ TargetTemp(v) \in Nat /\ TargetTemp(w) \in Nat
         /\ SIM_BASE_TEMP_MC <= TargetTemp(v)
         /\ TargetTemp(v) <= TargetTemp(w)
<1> DEFINE p == v \div VOLT_TEMP_DIV
           q == w \div VOLT_TEMP_DIV
<1>1. p \in Nat /\ q \in Nat /\ p <= q
  BY DivMonotone, PhysicsAssumption
<1>2. TargetTemp(v) = SIM_BASE_TEMP_MC + p * VOLT_TEMP_MULT
      /\ TargetTemp(w) = SIM_BASE_TEMP_MC + q * VOLT_TEMP_MULT
  BY DEF TargetTemp
<1> HIDE DEF p, q
<1>3. p * VOLT_TEMP_MULT \in Nat /\ q * VOLT_TEMP_MULT \in Nat
  BY <1>1, PhysicsAssumption
<1>4. p * VOLT_TEMP_MULT <= q * VOLT_TEMP_MULT
  BY <1>1, PhysicsAssumption, TimesMonotone
<1> QED
  BY <1>2, <1>3, <1>4, PhysicsAssumption

(* The rail moves by one step and stays within its limits.                 *)
LEMMA VoltBounds ==
  ASSUME NEW v \in 0..MaxVolt, NEW powered \in BOOLEAN
  PROVE  NextVolt(v, powered) \in 0..MaxVolt
<1>1. CASE powered
  BY <1>1, PhysicsAssumption DEF NextVolt, MaxVolt
<1>2. CASE ~powered
  BY <1>2, PhysicsAssumption DEF NextVolt, MaxVolt
<1> QED
  BY <1>1, <1>2

(* One thermal step: towards the target, past it by less than a step.      *)
LEMMA InertiaFacts ==
  ASSUME NEW current \in Nat, NEW target \in Nat
  PROVE  LET next == Inertia(current, target)
         IN  /\ next \in Int
             /\ current < target => next = current + HEATING_STEP_MC
             /\ current > target => next = current - COOLING_STEP_MC
             /\ current = target => next = current
  BY PhysicsAssumption DEF Inertia

(* What one Update does to the rail and the temperature.                   *)
LEMMA UpdateFacts ==
  ASSUME ThermalBounds, Update
  PROVE  /\ gan_voltage' \in 0..MaxVolt
         /\ m_current_temp_mc \in Nat
         /\ TargetTemp(gan_voltage') \in Nat /\ TargetTemp(MaxVolt) \in Nat
         /\ SIM_BASE_TEMP_MC <= TargetTemp(gan_voltage')
         /\ TargetTemp(gan_voltage') <= TargetTemp(MaxVolt)
         /\ m_current_temp_mc' = Inertia(m_current_temp_mc, TargetTemp(gan_voltage'))
<1>1. gan_voltage' \in 0..MaxVolt
  <2>1. gan_voltage' = NextVolt(gan_voltage, control = 1)
    BY DEF Update
  <2>2. gan_voltage \in 0..MaxVolt /\ (control = 1) \in BOOLEAN
    BY DEF ThermalBounds
  <2> QED
    BY <2>1, <2>2, VoltBounds
<1>2. MaxVolt \in Nat
  BY PhysicsAssumption DEF MaxVolt
<1>3. gan_voltage' \in Nat /\ gan_voltage' <= MaxVolt
  BY <1>1, <1>2
<1>4. m_current_temp_mc \in Nat
  <2>1. TargetTemp(MaxVolt) \in Nat
    BY <1>2, TargetMonotone
  <2>2. MinTemp \in Nat /\ MaxTemp \in Int
    BY <2>1, PhysicsAssumption, ColdAssumption DEF MinTemp, MaxTemp
  <2> QED
    BY <2>2 DEF ThermalBounds
<1> QED
  BY <1>1, <1>2, <1>3, <1>4, TargetMonotone DEF Update

(* The thermal part of the delay grows with the temperature.               *)
LEMMA JitterMonotone ==
  ASSUME NEW s \in Nat, NEW t \in Nat, s <= t
  PROVE  /\ ThermalJitter(s) \in Nat /\ ThermalJitter(t) \in Nat
         /\ ThermalJitter(s) <= ThermalJitter(t)
<1> DEFINE Over(x) == IF x > THERMAL_THRESHOLD_MC THEN x - THERMAL_THRESHOLD_MC ELSE 0
<1>1. ThermalJitter(s) = Over(s) \div MC_TO_C_DIVISOR
      /\ ThermalJitter(t) = Over(t) \div MC_TO_C_DIVISOR
  BY PHYAssumption DEF ThermalJitter
<1>2. Over(s) \in Nat /\ Over(t) \in Nat /\ Over(s) <= Over(t)
  BY PhysicsAssumption
<1> HIDE DEF Over
<1> QED
  BY <1>1, <1>2, PHYAssumption, DivMonotone

(* The steps of the physics thread between two updates.                    *)
DmaStep == DmaPop \/ DmaDraw \/ DmaSum \/ DmaSpun \/ DmaDrained

(* Two parts of the type invariant.                                        *)
DmaTyped == dma.pc \in {"pop", "low", "sum", "spin", "thermal"} /\ dma.val \in Int
ConfigsKnown == phy \in given /\ setting \in given /\ given \subseteq CONFIGS \cup {PROFILE}

(* What the type invariant says of temperatures, configurations and steps. *)
LEMMA BoundsParts ==
  ASSUME ThermalBounds
  PROVE  /\ ConfigsKnown /\ DmaTyped
         /\ MaxTemp \in Nat /\ m_current_temp_mc \in Nat /\ m_current_temp_mc <= MaxTemp
<1>1. MaxVolt \in Nat
  BY PhysicsAssumption DEF MaxVolt
<1>2. TargetTemp(MaxVolt) \in Nat /\ SIM_BASE_TEMP_MC <= TargetTemp(MaxVolt)
  BY <1>1, TargetMonotone
<1>3. MinTemp \in Nat /\ MaxTemp \in Nat
  BY <1>2, PhysicsAssumption, ColdAssumption DEF MinTemp, MaxTemp
<1>4. m_current_temp_mc \in Nat /\ m_current_temp_mc <= MaxTemp
  BY <1>3 DEF ThermalBounds
<1> QED
  BY <1>3, <1>4 DEF ThermalBounds, ConfigsKnown, DmaTyped

(* What a concurrent reader may find was given to set_config().            *)
LEMMA SeenGiven ==
  ASSUME ConfigsKnown
  PROVE  /\ \A j \in Seen("jitter") : j \in Nat /\ \E c \in given : j = c.jitter
         /\ \A b \in Seen("base") : b \in Nat /\ \E c \in given : b = c.base
<1>1. \A c \in given : c.base \in Nat /\ c.jitter \in Nat
  BY ConfigAssumption DEF ConfigsKnown
<1> QED
  BY <1>1 DEF ConfigsKnown, Seen

(* The steps of the physics thread keep its own value an integer.          *)
LEMMA DmaTypes ==
  ASSUME ThermalBounds, DmaStep
  PROVE  DmaTyped'
<1>1. ConfigsKnown /\ DmaTyped /\ m_current_temp_mc \in Nat
  BY BoundsParts
<1>2. ASSUME NEW c \in {"pop", "low", "sum", "spin", "thermal"}, NEW v \in Int,
             dma' = [pc |-> c, val |-> v]
      PROVE  DmaTyped'
  BY <1>2 DEF DmaTyped
<1>3. CASE DmaPop
  <2>1. CASE dma' = At("sum")
    BY <1>2, <2>1 DEF At
  <2>2. CASE \E a, b \in Seen("jitter") : dma' = [pc |-> "low", val |-> a + b]
    <3>1. PICK a \in Seen("jitter"), b \in Seen("jitter") : dma' = [pc |-> "low", val |-> a + b]
      BY <2>2
    <3>2. a + b \in Int
      BY <1>1, SeenGiven
    <3> QED
      BY <1>2, <3>1, <3>2
  <2> QED
    BY <1>3, <2>1, <2>2 DEF DmaPop
<1>4. CASE DmaDraw
  <2>1. PICK r \in 0..dma.val, a \in Seen("jitter") : dma' = [pc |-> "sum", val |-> r - a]
    BY <1>4 DEF DmaDraw
  <2>2. r \in Int /\ a \in Int
    BY <1>1, SeenGiven DEF DmaTyped
  <2>3. r - a \in Int
    BY <2>2
  <2> QED
    BY <1>2, <2>1, <2>3
<1>5. CASE DmaSum
  <2>1. PICK b \in Seen("base"), spike \in FecPenalty :
          dma' = [pc |-> "spin", val |-> ProtocolDelay(b, dma.val, m_current_temp_mc, spike)]
    BY <1>5 DEF DmaSum
  <2>2. b \in Int /\ spike \in Int /\ ThermalJitter(m_current_temp_mc) \in Int
    BY <1>1, SeenGiven, JitterMonotone, PHYAssumption DEF FecPenalty
  <2> DEFINE sum == b + DEFAULT_FEC_PENALTY_NS + dma.val + ThermalJitter(m_current_temp_mc) + spike
  <2>3. sum \in Int
    BY <1>1, <2>2, PHYAssumption DEF DmaTyped
  <2>4. ProtocolDelay(b, dma.val, m_current_temp_mc, spike) = sum % WORD
    BY DEF ProtocolDelay
  <2> HIDE DEF sum
  <2>5. sum % WORD \in Int
    BY <2>3, PHYAssumption
  <2> QED
    BY <1>2, <2>1, <2>4, <2>5
<1>6. CASE DmaSpun \/ DmaDrained
  BY <1>2, <1>6 DEF DmaSpun, DmaDrained, At
<1> QED
  BY <1>3, <1>4, <1>5, <1>6 DEF DmaStep

(* The bounds are inductive.                                               *)
LEMMA BoundsStep == ThermalBounds /\ [Next]_vars => ThermalBounds'
<1> SUFFICES ASSUME ThermalBounds, [Next]_vars PROVE ThermalBounds'
  OBVIOUS
<1>1. CASE Update
  <2> DEFINE target == TargetTemp(gan_voltage')
             old == m_current_temp_mc
             new == m_current_temp_mc'
  <2>1. /\ gan_voltage' \in 0..MaxVolt
        /\ target \in Nat /\ TargetTemp(MaxVolt) \in Nat
        /\ SIM_BASE_TEMP_MC <= target /\ target <= TargetTemp(MaxVolt)
        /\ old \in Nat
        /\ new = Inertia(old, target)
    BY <1>1, UpdateFacts
  <2>2. /\ new \in Int
        /\ old < target => new = old + HEATING_STEP_MC
        /\ old > target => new = old - COOLING_STEP_MC
        /\ old = target => new = old
    BY <2>1, InertiaFacts
  <2>3. old >= MinTemp /\ old <= MaxTemp /\ MinTemp \in Int /\ MaxTemp \in Int
    BY <2>1, PhysicsAssumption DEF ThermalBounds, MinTemp, MaxTemp
  <2> HIDE DEF target, old, new
  <2>4. new >= MinTemp /\ new <= MaxTemp
    BY <2>1, <2>2, <2>3, PhysicsAssumption DEF MinTemp, MaxTemp
  <2>5. new \in MinTemp..MaxTemp
    BY <2>2, <2>3, <2>4
  <2>6. new \in Nat
    BY <2>2, <2>4, PhysicsAssumption, ColdAssumption DEF MinTemp
  <2>7. rf_snr' \in Int
    <3>1. rf_snr' = Snr(new)
      BY <1>1 DEF Update, new
    <3>2. (new - THERMAL_THRESHOLD_MC) \div SNR_TEMP_DIV \in Int
      BY <2>6, PhysicsAssumption, SMT
    <3> QED
      BY <3>1, <3>2, PhysicsAssumption DEF Snr
  <2>8. /\ control' \in {0, 1} /\ laser_temp' = new
        /\ pending' \in Accesses \cup {NoAccess}
    BY <1>1 DEF Update, access, ThermalBounds, new
  <2>9. ConfigsKnown' /\ DmaTyped'
    <3>1. dma' = [pc |-> "thermal", val |-> 0] \/ dma' = [pc |-> "pop", val |-> 0]
      BY <1>1 DEF Update, At
    <3>2. DmaTyped'
      BY <3>1 DEF DmaTyped
    <3> QED
      BY <1>1, <3>2, BoundsParts DEF Update, config, ConfigsKnown
  <2> QED
    BY <2>1, <2>5, <2>7, <2>8, <2>9 DEF ThermalBounds, new, ConfigsKnown, DmaTyped
<1>2. CASE \E c \in {0, 1} : WriteControl(c)
  BY <1>2 DEF WriteControl, config, access, ThermalBounds
<1>3. CASE \E c \in CONFIGS : SetConfig(c)
  BY <1>3 DEF SetConfig, physics, access, ThermalBounds
<1>4. CASE ConfigSet
  BY <1>4 DEF ConfigSet, physics, access, ThermalBounds
<1>5. CASE \E a \in Accesses : BeginAccess(a)
  BY <1>5 DEF BeginAccess, physics, config, ThermalBounds
<1>6. CASE EndAccess
  <2>1. pending \in Accesses
    BY <1>6 DEF EndAccess, ThermalBounds
  <2>2. control' \in {0, 1}
    BY <1>6, <2>1 DEF EndAccess, ThermalBounds, Accesses
  <2> QED
    BY <1>6, <2>2 DEF EndAccess, config, ThermalBounds
<1>7. CASE DmaStep
  <2>1. DmaTyped'
    BY <1>7, DmaTypes
  <2>2. UNCHANGED <<physics, config, access>>
    BY <1>7 DEF DmaStep, DmaPop, DmaDraw, DmaSum, DmaSpun, DmaDrained
  <2> QED
    BY <2>1, <2>2 DEF physics, config, access, ThermalBounds, DmaTyped
<1>8. CASE UNCHANGED vars
  BY <1>8 DEF vars, physics, config, access, ThermalBounds
<1> QED
  BY <1>1, <1>2, <1>3, <1>4, <1>5, <1>6, <1>7, <1>8 DEF Next, PhysicsThread, DmaStep

(* Whatever is written to control, the rail and the temperature stay in    *)
(* range: the uint32_t arithmetic of update_thermal_model() and            *)
(* update_thermal_load() never goes below zero, for every choice of the    *)
(* constants.                                                              *)
THEOREM Bounded == Spec => []ThermalBounds
<1>1. Init => ThermalBounds
  <2> SUFFICES ASSUME Init PROVE ThermalBounds
    OBVIOUS
  <2>1. MaxVolt \in Nat
    BY PhysicsAssumption DEF MaxVolt
  <2>2. TargetTemp(MaxVolt) \in Nat /\ SIM_BASE_TEMP_MC <= TargetTemp(MaxVolt)
    BY <2>1, TargetMonotone
  <2>3. SIM_BASE_TEMP_MC \in MinTemp..MaxTemp
    BY <2>2, PhysicsAssumption DEF MinTemp, MaxTemp
  <2> QED
    BY <2>1, <2>3 DEF Init, ThermalBounds, At
<1> QED
  BY <1>1, BoundsStep, PTL DEF Spec

(* No step of the thermal model runs away from its target: it moves        *)
(* towards it and overshoots by less than one step.                        *)
THEOREM Settling == Spec => NoRunaway
<1> DEFINE target == TargetTemp(gan_voltage')
           old == m_current_temp_mc
           new == m_current_temp_mc'
           Good == /\ old > target => new <= old
                   /\ old <= target => new < target + HEATING_STEP_MC
                   /\ old >= target => new > target - COOLING_STEP_MC
<1>1. ASSUME ThermalBounds, Next PROVE Good
  <2>1. CASE Update
    <3>1. old \in Nat /\ target \in Nat /\ new = Inertia(old, target)
      BY <1>1, <2>1, UpdateFacts
    <3>2. /\ new \in Int
          /\ old < target => new = old + HEATING_STEP_MC
          /\ old > target => new = old - COOLING_STEP_MC
          /\ old = target => new = old
      BY <3>1, InertiaFacts
    <3> HIDE DEF target, old, new
    <3> QED
      BY <3>1, <3>2, PhysicsAssumption
  <2>2. CASE ~Update
    <3>1. new = old /\ gan_voltage' = gan_voltage
      BY <1>1, <2>2 DEF Next, PhysicsThread, DmaPop, DmaDraw, DmaSum, DmaSpun,
        DmaDrained, WriteControl, SetConfig, ConfigSet, BeginAccess, EndAccess, physics
    <3>2. gan_voltage' \in 0..MaxVolt /\ MaxVolt \in Nat
      BY <1>1, <3>1, PhysicsAssumption DEF ThermalBounds, MaxVolt
    <3>3. target \in Nat /\ TargetTemp(MaxVolt) \in Nat
      BY <3>2, TargetMonotone
    <3>4. old \in Int
      BY <1>1, <3>3, PhysicsAssumption DEF ThermalBounds, MinTemp, MaxTemp
    <3> HIDE DEF target, old, new
    <3> QED
      BY <3>1, <3>3, <3>4, PhysicsAssumption
  <2> QED
    BY <1>1, <2>1, <2>2
<1> QED
  BY <1>1, Bounded, PTL DEF Spec, NoRunaway

(* An unsigned number below zero wraps to one that is larger by at least   *)
(* the word ...                                                            *)
LEMMA WrapUp ==
  ASSUME NEW n \in Int, NEW w \in Nat \ {0}, n < 0
  PROVE  n % w >= n + w
<1> DEFINE q == n \div w
           r == n % w
<1>1. q \in Int /\ r \in Int /\ n = q * w + r /\ 0 <= r /\ r < w
  BY SMT
<1> HIDE DEF q, r
<1>2. ASSUME q >= 0 PROVE FALSE
  <2>1. q * w >= 0
    BY <1>1, <1>2, TimesMonotone
  <2>2. q * w \in Int
    BY <1>1
  <2> QED
    BY <1>1, <2>1, <2>2
<1>3. q <= -1
  BY <1>1, <1>2
<1>4. q * w <= (-1) * w
  BY <1>1, <1>3, TimesMonotone
<1>5. q * w \in Int /\ (-1) * w = -w
  BY <1>1
<1> QED
  BY <1>1, <1>4, <1>5 DEF r

(* ... and one that does not fit the word to one that is smaller by it.    *)
LEMMA WrapDown ==
  ASSUME NEW n \in Int, NEW w \in Nat \ {0}, n >= w
  PROVE  n % w <= n - w
<1> DEFINE q == n \div w
           r == n % w
<1>1. q \in Int /\ r \in Int /\ n = q * w + r /\ 0 <= r /\ r < w
  BY SMT
<1> HIDE DEF q, r
<1>2. ASSUME q <= 0 PROVE FALSE
  <2>1. q * w <= 0 * w
    BY <1>1, <1>2, TimesMonotone
  <2>2. q * w \in Int /\ 0 * w = 0
    BY <1>1
  <2> QED
    BY <1>1, <2>1, <2>2
<1>3. 1 <= q
  BY <1>1, <1>2
<1>4. 1 * w <= q * w
  BY <1>1, <1>3, TimesMonotone
<1>5. q * w \in Int /\ 1 * w = w
  BY <1>1
<1> QED
  BY <1>1, <1>4, <1>5 DEF r

(* One sum of apply_protocol_delay(), whatever it was put together from:   *)
(* reduced to the word it is explained by its window.                      *)
LEMMA DelayWindow ==
  ASSUME NEW base \in Nat, NEW low \in Nat, NEW high \in Nat, NEW temp \in Nat, MaxTemp \in Nat,
         temp <= MaxTemp, NEW drift \in Int, -low <= drift, drift <= high, NEW spike \in FecPenalty
  PROVE  Explained(ProtocolDelay(base, drift, temp, spike), LeastDelay(base, low), MostDelay(base, high))
<1> DEFINE sum == base + DEFAULT_FEC_PENALTY_NS + drift + ThermalJitter(temp) + spike
           lo == LeastDelay(base, low)
           hi == MostDelay(base, high)
<1>1. /\ ThermalJitter(temp) \in Nat /\ ThermalJitter(MaxTemp) \in Nat
      /\ ThermalJitter(temp) <= ThermalJitter(MaxTemp)
  BY JitterMonotone
<1>2. spike \in Nat /\ spike <= FEC_RETRY_SPIKE_NS
  BY PHYAssumption DEF FecPenalty
<1>3. sum \in Int /\ lo \in Int /\ hi \in Int /\ lo <= sum /\ sum <= hi
  BY <1>1, <1>2, PHYAssumption DEF LeastDelay, MostDelay
<1>4. ProtocolDelay(base, drift, temp, spike) = sum % WORD
  BY DEF ProtocolDelay
<1> HIDE DEF sum, lo, hi
<1> DEFINE d == sum % WORD
<1>5. d \in Int /\ 0 <= d /\ d < WORD
  BY <1>3, PHYAssumption
<1>6. CASE 0 <= sum /\ sum < WORD
  <2>1. d = sum
    BY <1>3, <1>6, PHYAssumption, SMT
  <2> QED
    BY <1>3, <1>4, <2>1 DEF Explained, lo, hi
<1>7. CASE sum < 0
  <2>1. d >= sum + WORD
    BY <1>3, <1>7, WrapUp, PHYAssumption
  <2> HIDE DEF d
  <2>2. lo < 0 /\ d >= WORD + lo
    BY <1>3, <1>5, <1>7, <2>1, PHYAssumption
  <2> QED
    BY <1>4, <2>2 DEF Explained, lo, hi, d
<1>8. CASE sum >= WORD
  <2>1. d <= sum - WORD
    BY <1>3, <1>8, WrapDown, PHYAssumption
  <2> HIDE DEF d
  <2>2. hi >= WORD /\ d <= hi - WORD
    BY <1>3, <1>5, <1>8, <2>1, PHYAssumption
  <2> QED
    BY <1>4, <2>2 DEF Explained, lo, hi, d
<1> QED
  BY <1>3, <1>6, <1>7, <1>8, PHYAssumption

(* The largest of three jitters that were given was given.                 *)
LEMMA LargestGiven ==
  ASSUME NEW a \in given, NEW b \in given, NEW c \in given,
         a.jitter \in Nat, b.jitter \in Nat, c.jitter \in Nat
  PROVE  \E m \in given : /\ m.jitter \in Nat
                         /\ a.jitter <= m.jitter /\ b.jitter <= m.jitter /\ c.jitter <= m.jitter
<1>1. CASE a.jitter >= b.jitter /\ a.jitter >= c.jitter
  BY <1>1
<1>2. CASE b.jitter >= a.jitter /\ b.jitter >= c.jitter
  BY <1>2
<1>3. CASE c.jitter >= a.jitter /\ c.jitter >= b.jitter
  BY <1>3
<1> QED
  BY <1>1, <1>2, <1>3

(* What the physics thread works on between its reads of the PHY: a width  *)
(* of at most twice a given jitter, then a draw that lies above its        *)
(* negative and below its double.                                          *)
DrawKnown ==
  /\ dma.pc = "low" => \E c \in given : dma.val <= 2 * c.jitter
  /\ dma.pc = "sum" => \E c \in given : -c.jitter <= dma.val /\ dma.val <= 2 * c.jitter

(* The owner of the twin is in an access or in set_config(), not in both.  *)
OneThread == pending # NoAccess => setting = phy

DelayInv == DrawKnown /\ OneThread /\ DelayBounded

(* The owner's access spins inside the window of the configuration.        *)
LEMMA AccessExplained ==
  ASSUME ThermalBounds, NEW a \in Accesses, BeginAccess(a)
  PROVE  Explained(delay', LeastDelay(phy.base, phy.jitter), MostDelay(phy.base, phy.jitter))
<1>1. /\ ConfigsKnown
      /\ MaxTemp \in Nat /\ m_current_temp_mc \in Nat /\ m_current_temp_mc <= MaxTemp
  BY BoundsParts
<1>2. phy.base \in Nat /\ phy.jitter \in Nat
  BY <1>1, ConfigAssumption DEF ConfigsKnown
<1>3. PICK drift \in Drift(phy.jitter), spike \in FecPenalty :
        delay' = ProtocolDelay(phy.base, drift, m_current_temp_mc, spike)
  BY DEF BeginAccess
<1>4. drift \in Int /\ -phy.jitter <= drift /\ drift <= phy.jitter
  BY <1>2 DEF Drift
<1> QED
  BY <1>1, <1>2, <1>3, <1>4, DelayWindow

(* The physics thread's reads, each of a field that may be half stored.    *)
LEMMA DmaExplained ==
  ASSUME ThermalBounds, DrawKnown, DmaStep, given' = given
  PROVE  /\ DrawKnown'
         /\ dma'.pc = "spin" =>
              \E b, c \in given :
                 Explained(dma'.val, LeastDelay(b.base, c.jitter), MostDelay(b.base, 2 * c.jitter))
<1>1. /\ ConfigsKnown /\ DmaTyped
      /\ MaxTemp \in Nat /\ m_current_temp_mc \in Nat /\ m_current_temp_mc <= MaxTemp
  BY BoundsParts
<1>2. \A c \in given : c.base \in Nat /\ c.jitter \in Nat
  BY <1>1, ConfigAssumption DEF ConfigsKnown
<1>3. ASSUME NEW c \in {"pop", "thermal"}, dma' = At(c)
      PROVE  DrawKnown' /\ dma'.pc # "spin"
  BY <1>3 DEF DrawKnown, At
<1>4. ASSUME NEW v \in Int, dma' = [pc |-> "sum", val |-> v],
             \E c \in given : -c.jitter <= v /\ v <= 2 * c.jitter
      PROVE  DrawKnown' /\ dma'.pc # "spin"
  <2>1. dma'.pc = "sum" /\ dma'.val = v
    BY <1>4
  <2> QED
    BY <1>4, <2>1 DEF DrawKnown
<1>5. CASE DmaPop
  <2>1. CASE dma' = At("sum")
    <3>1. PICK c \in given : TRUE
      BY <1>1 DEF ConfigsKnown
    <3>2. -c.jitter <= 0 /\ 0 <= 2 * c.jitter
      BY <1>2
    <3>3. \E m \in given : -m.jitter <= 0 /\ 0 <= 2 * m.jitter
      BY <3>2
    <3> QED
      BY <1>4, <2>1, <3>3 DEF At
  <2>2. CASE \E a, b \in Seen("jitter") : dma' = [pc |-> "low", val |-> a + b]
    <3>1. PICK a \in Seen("jitter"), b \in Seen("jitter") : dma' = [pc |-> "low", val |-> a + b]
      BY <2>2
    <3>2. PICK c \in given, d \in given : a = c.jitter /\ b = d.jitter
      BY <1>1, SeenGiven
    <3>3. PICK m \in given : m.jitter \in Nat /\ c.jitter <= m.jitter /\ d.jitter <= m.jitter
      BY <1>2, LargestGiven
    <3>4. a + b <= 2 * m.jitter
      BY <1>2, <3>2, <3>3
    <3>5. dma'.pc = "low" /\ dma'.val = a + b
      BY <3>1
    <3> QED
      BY <3>4, <3>5 DEF DrawKnown
  <2> QED
    BY <1>5, <2>1, <2>2 DEF DmaPop
<1>6. CASE DmaDraw
  <2>1. PICK r \in 0..dma.val, a \in Seen("jitter") : dma' = [pc |-> "sum", val |-> r - a]
    BY <1>6 DEF DmaDraw
  <2>2. PICK c \in given : dma.val <= 2 * c.jitter
    BY <1>6 DEF DmaDraw, DrawKnown
  <2>3. PICK d \in given : a = d.jitter
    BY <1>1, SeenGiven
  <2>4. PICK m \in given : m.jitter \in Nat /\ c.jitter <= m.jitter /\ d.jitter <= m.jitter
    BY <1>2, LargestGiven
  <2>5. r \in Int /\ 0 <= r /\ r <= dma.val /\ dma.val \in Int /\ a \in Nat /\ c.jitter \in Nat
    BY <1>1, <1>2, <2>3 DEF DmaTyped
  <2>6. r - a \in Int /\ -m.jitter <= r - a /\ r - a <= 2 * m.jitter
    BY <2>2, <2>3, <2>4, <2>5
  <2> QED
    BY <1>4, <2>1, <2>6
<1>7. CASE DmaSum
  <2>1. PICK base \in Seen("base"), spike \in FecPenalty :
          dma' = [pc |-> "spin", val |-> ProtocolDelay(base, dma.val, m_current_temp_mc, spike)]
    BY <1>7 DEF DmaSum
  <2>2. PICK b \in given : base = b.base
    BY <1>1, SeenGiven
  <2>3. PICK c \in given : -c.jitter <= dma.val /\ dma.val <= 2 * c.jitter
    BY <1>7 DEF DmaSum, DrawKnown
  <2>4. base \in Nat /\ c.jitter \in Nat /\ 2 * c.jitter \in Nat /\ dma.val \in Int
    BY <1>1, <1>2, <2>2 DEF DmaTyped
  <2>5. Explained(ProtocolDelay(base, dma.val, m_current_temp_mc, spike),
                  LeastDelay(base, c.jitter), MostDelay(base, 2 * c.jitter))
    BY <1>1, <2>3, <2>4, DelayWindow
  <2>6. dma'.pc = "spin" /\ dma'.val = ProtocolDelay(base, dma.val, m_current_temp_mc, spike)
    BY <2>1
  <2> QED
    BY <2>2, <2>5, <2>6 DEF DrawKnown
<1>8. CASE DmaSpun \/ DmaDrained
  BY <1>3, <1>8 DEF DmaSpun, DmaDrained
<1> QED
  BY <1>5, <1>6, <1>7, <1>8 DEF DmaStep

(* The physics thread between two of its steps, and what it keeps when     *)
(* more configurations are given.                                          *)
LEMMA DmaKept ==
  ASSUME DelayInv, dma' = dma, given \subseteq given'
  PROVE  /\ DrawKnown'
         /\ dma'.pc = "spin" =>
              \E b, c \in given' :
                 Explained(dma'.val, LeastDelay(b.base, c.jitter), MostDelay(b.base, 2 * c.jitter))
  BY DEF DelayInv, DrawKnown, DelayBounded

(* Every spin of the owner and of the physics thread is explained by the   *)
(* configurations given so far, whatever they are and however the stores   *)
(* of set_config() and the reads of apply_protocol_delay() interleave: the *)
(* unsigned sum wraps only under a jitter larger than a base delay plus    *)
(* the FEC penalty.                                                        *)
THEOREM DelaysBounded == Spec => []DelayBounded
<1> DEFINE HostSpin == pending # NoAccess =>
             Explained(delay, LeastDelay(phy.base, phy.jitter), MostDelay(phy.base, phy.jitter))
           DmaSpin == dma.pc = "spin" =>
             \E b, c \in given :
                Explained(dma.val, LeastDelay(b.base, c.jitter), MostDelay(b.base, 2 * c.jitter))
<1>1. Init => DelayInv
  <2> SUFFICES ASSUME Init PROVE DelayInv
    OBVIOUS
  <2>1. pending = NoAccess /\ dma.pc = "pop"
    BY DEF Init, At
  <2> QED
    BY <2>1 DEF DelayInv, OneThread, DrawKnown, DelayBounded
<1>2. ThermalBounds /\ DelayInv /\ [Next]_vars => DelayInv'
  <2> SUFFICES ASSUME ThermalBounds, DelayInv, [Next]_vars PROVE DelayInv'
    OBVIOUS
  <2>0. HostSpin /\ DmaSpin /\ DrawKnown
    BY DEF DelayInv, DelayBounded
  <2>a. OneThread'
    BY DEF DelayInv, OneThread, Next, PhysicsThread, DmaPop, DmaDraw, DmaSum, DmaSpun, DmaDrained,
           Update, WriteControl, SetConfig, ConfigSet, BeginAccess, EndAccess, vars, config, access
  <2>1. ASSUME HostSpin', DmaSpin', DrawKnown' PROVE DelayInv'
    BY <2>1, <2>a DEF DelayInv, DelayBounded
  <2>2. CASE DmaStep
    <3>1. UNCHANGED <<physics, config, access>>
      BY <2>2 DEF DmaStep, DmaPop, DmaDraw, DmaSum, DmaSpun, DmaDrained
    <3>2. given' = given /\ phy' = phy /\ pending' = pending /\ delay' = delay
      BY <3>1 DEF config, access
    <3>3. DrawKnown' /\ DmaSpin'
      BY <2>0, <2>2, <3>2, DmaExplained
    <3>4. HostSpin'
      BY <2>0, <3>2 DEF LeastDelay, MostDelay, Explained
    <3> QED
      BY <2>1, <3>3, <3>4
  <2>3. CASE Update
    <3>1. phy' = phy /\ pending' = pending /\ delay' = delay
      BY <2>3 DEF Update, config, access
    <3>2. dma'.pc = "pop"
      BY <2>3 DEF Update, At
    <3>3. DrawKnown' /\ DmaSpin'
      BY <3>2 DEF DrawKnown
    <3>4. HostSpin'
      BY <2>0, <3>1 DEF LeastDelay, MostDelay, Explained
    <3> QED
      BY <2>1, <3>3, <3>4
  <2>4. ASSUME NEW a \in Accesses, BeginAccess(a) PROVE DelayInv'
    <3>1. given' = given /\ phy' = phy /\ dma' = dma
      BY <2>4 DEF BeginAccess, config
    <3>2. DrawKnown' /\ DmaSpin'
      BY <3>1, DmaKept
    <3>3. HostSpin'
      BY <2>4, <3>1, AccessExplained DEF LeastDelay, MostDelay, Explained
    <3> QED
      BY <2>1, <3>2, <3>3
  <2>5. CASE \/ \E c \in {0, 1} : WriteControl(c)
             \/ \E c \in CONFIGS : SetConfig(c)
             \/ ConfigSet \/ EndAccess \/ UNCHANGED vars
    <3>1. dma' = dma /\ given \subseteq given'
      BY <2>5 DEF WriteControl, SetConfig, ConfigSet, EndAccess, vars, config
    <3>2. DrawKnown' /\ DmaSpin'
      BY <3>1, DmaKept
    <3>3. CASE pending' = NoAccess
      BY <2>1, <3>2, <3>3
    <3>4. CASE pending' # NoAccess
      <4>1. pending' = pending /\ delay' = delay /\ phy' = phy
        BY <2>5, <3>4 DEF DelayInv, OneThread, WriteControl, SetConfig, ConfigSet, EndAccess,
             vars, config, access
      <4>2. HostSpin'
        BY <2>0, <4>1 DEF LeastDelay, MostDelay, Explained
      <4> QED
        BY <2>1, <3>2, <4>2
    <3> QED
      BY <3>3, <3>4
  <2> QED
    BY <2>2, <2>3, <2>4, <2>5 DEF Next, PhysicsThread, DmaStep
<1>3. DelayInv => DelayBounded
  BY DEF DelayInv
<1> QED
  BY <1>1, <1>2, <1>3, Bounded, PTL DEF Spec

-----------------------------------------------------------------------------
(* The way to the limit and back                                           *)

(* With the power on the rail rises to its limit and stays, and from there *)
(* every update that finds the temperature below the target of the limit   *)
(* heats; with the power off the rail falls to zero and stays, and from    *)
(* there every update that finds the chip warm cools it.  The guards see   *)
(* each temperature, and nothing but an update changes one.                *)
Driven ==
  /\ ~Update => UNCHANGED <<gan_voltage, m_current_temp_mc, laser_temp>>
  /\ Update => laser_temp' = m_current_temp_mc'
  /\ Update /\ control = 1 =>
       /\ gan_voltage < GAN_VOLT_LIMIT_UV => gan_voltage' > gan_voltage
       /\ gan_voltage >= GAN_VOLT_LIMIT_UV => gan_voltage' = gan_voltage
       /\ gan_voltage' >= GAN_VOLT_LIMIT_UV /\ m_current_temp_mc < TargetTemp(GAN_VOLT_LIMIT_UV)
            => m_current_temp_mc' = m_current_temp_mc + HEATING_STEP_MC
  /\ Update /\ control # 1 =>
       /\ gan_voltage > 0 => gan_voltage' < gan_voltage
       /\ gan_voltage = 0 => gan_voltage' = 0
       /\ gan_voltage' = 0 /\ m_current_temp_mc > SIM_BASE_TEMP_MC
            => m_current_temp_mc' = m_current_temp_mc - COOLING_STEP_MC

(* The target of an empty rail is the base temperature.                    *)
LEMMA RestTarget == TargetTemp(0) = SIM_BASE_TEMP_MC
<1>1. 0 \div VOLT_TEMP_DIV = 0
  BY PhysicsAssumption
<1>2. 0 * VOLT_TEMP_MULT = 0
  BY PhysicsAssumption
<1> QED
  BY <1>1, <1>2, PhysicsAssumption DEF TargetTemp

(* One update of a powered and one of an unpowered chip.                   *)
LEMMA RailDriven ==
  ASSUME ThermalBounds, Update
  PROVE  /\ control = 1 =>
              /\ gan_voltage < GAN_VOLT_LIMIT_UV => gan_voltage' > gan_voltage
              /\ gan_voltage >= GAN_VOLT_LIMIT_UV => gan_voltage' = gan_voltage
         /\ control # 1 =>
              /\ gan_voltage > 0 => gan_voltage' < gan_voltage
              /\ gan_voltage = 0 => gan_voltage' = 0
<1>1. gan_voltage \in Nat
  BY PhysicsAssumption DEF ThermalBounds, MaxVolt
<1>2. ASSUME control = 1
      PROVE  gan_voltage' = IF gan_voltage < GAN_VOLT_LIMIT_UV
                            THEN gan_voltage + GAN_VOLT_STEP_UV ELSE gan_voltage
  BY <1>2 DEF Update, NextVolt
<1>3. ASSUME control # 1
      PROVE  gan_voltage' = IF gan_voltage > GAN_VOLT_COOL_UV
                            THEN gan_voltage - GAN_VOLT_COOL_UV ELSE 0
  BY <1>3 DEF Update, NextVolt
<1> QED
  BY <1>1, <1>2, <1>3, PhysicsAssumption

(* What overheating and cooling down rest on: until the rail is at its end *)
(* each update moves it there, and then each moves the temperature.        *)
THEOREM DrivenToTarget == Spec => [][Driven]_vars
<1>1. ASSUME ThermalBounds, Next PROVE Driven
  <2>1. CASE Update
    <3> DEFINE target == TargetTemp(gan_voltage')
    <3>1. /\ m_current_temp_mc \in Nat /\ target \in Nat /\ gan_voltage' \in 0..MaxVolt
          /\ m_current_temp_mc' = Inertia(m_current_temp_mc, target)
      BY <1>1, <2>1, UpdateFacts
    <3>2. /\ m_current_temp_mc < target => m_current_temp_mc' = m_current_temp_mc + HEATING_STEP_MC
          /\ m_current_temp_mc > target => m_current_temp_mc' = m_current_temp_mc - COOLING_STEP_MC
      BY <3>1, InertiaFacts
    <3>3. gan_voltage' \in Nat /\ GAN_VOLT_LIMIT_UV \in Nat
      BY <3>1, PhysicsAssumption DEF MaxVolt
    <3>4. gan_voltage' >= GAN_VOLT_LIMIT_UV
            => /\ TargetTemp(GAN_VOLT_LIMIT_UV) \in Nat
               /\ TargetTemp(GAN_VOLT_LIMIT_UV) <= target
      BY <3>3, TargetMonotone
    <3>5. gan_voltage' = 0 => target = SIM_BASE_TEMP_MC
      BY RestTarget
    <3> HIDE DEF target
    <3>6. gan_voltage' >= GAN_VOLT_LIMIT_UV /\ m_current_temp_mc < TargetTemp(GAN_VOLT_LIMIT_UV)
            => m_current_temp_mc' = m_current_temp_mc + HEATING_STEP_MC
      BY <3>1, <3>2, <3>4
    <3>7. gan_voltage' = 0 /\ m_current_temp_mc > SIM_BASE_TEMP_MC
            => m_current_temp_mc' = m_current_temp_mc - COOLING_STEP_MC
      BY <3>1, <3>2, <3>5
    <3>8. laser_temp' = m_current_temp_mc'
      BY <2>1 DEF Update
    <3> QED
      BY <1>1, <2>1, <3>6, <3>7, <3>8, RailDriven DEF Driven
  <2>2. CASE ~Update
    BY <1>1, <2>2 DEF Driven, Next, PhysicsThread, DmaPop, DmaDraw, DmaSum, DmaSpun,
      DmaDrained, WriteControl, SetConfig, ConfigSet, BeginAccess, EndAccess, physics
  <2> QED
    BY <2>1, <2>2
<1> QED
  BY <1>1, Bounded, PTL DEF Spec
=============================================================================
