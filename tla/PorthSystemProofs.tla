------------------------- MODULE PorthSystemProofs --------------------------
(***************************************************************************)
(* Proofs about PorthSystem: for every set of host programs, every set of  *)
(* shuttle addresses, every ring capacity, counter range and choice of the *)
(* physical constants.                                                     *)
(*                                                                         *)
(* The invariant is split by subject.  Types is inductive by itself; the   *)
(* others follow one after the other, each using the ones before it.       *)
(***************************************************************************)
EXTENDS PorthSystem, TLAPS

(* TypeOK in two parts, the flags of the threads ...                       *)
Flags ==
  /\ m_run_sim \in BOOLEAN /\ m_inject_deadlock \in BOOLEAN /\ m_corrupt_status \in BOOLEAN
  /\ m_run_watchdog \in BOOLEAN /\ m_watchdog_ready \in BOOLEAN
  /\ m_running \in BOOLEAN /\ stopping \in BOOLEAN /\ terminated \in BOOLEAN

(* The physics thread: the temperature falls at most one cooling step      *)
(* below the base, so the unsigned subtraction does not wrap.              *)
PhysicsLocals ==
  [pc : {"off", "check", "gate", "dma", "pop", "count", "thermal",
         "publish", "chaos", "flip", "exited"},
   addr : Addr, m_last_valid_shuttle : Addr, corrupted : Addr,
   m_current_temp_mc : {t \in Nat : t >= SIM_BASE_TEMP_MC - COOLING_STEP_MC}]

(* ... and everything else.                                                *)
Values ==
  /\ reg \in Registers
  /\ shuttle \in Shuttle \union {None} /\ ring \in 0..CAPACITY
  /\ program \in Programs
  /\ sim \in {"boot", "await", "live", "joining", "gone"}
  /\ phys \in PhysicsLocals
  /\ fault \in {"none", "unmapped", "wild"}
  /\ drv \in {"none", "commit", "spawn", "handshake", "up", "stats",
              "stop", "join", "unmap"}
  /\ wd \in {"none", "start", "loop", "poll", "trip", "halt", "exited"}
  /\ stats \in [total_packets : 0..(WRAP - 1), dropped_packets : 0..(WRAP - 1)]
  /\ received \in 0..(WRAP - 1) /\ discarded \in 0..(WRAP - 1)
  /\ guard \in {"none", "loop", "poll", "trip", "exited"}

(* The device pops only through the address it has latched.                *)
Latched == phys.pc \in {"pop", "count"} => phys.addr = phys.m_last_valid_shuttle

(* The shuttle is mapped exactly while a driver exists, and the ring is    *)
(* empty until the constructor has returned.                               *)
Lifetime ==
  /\ shuttle = None <=> drv = "none"
  /\ drv \in {"none", "commit", "spawn", "handshake"} => ring = 0

(* The physics thread starts with the device.                              *)
Unborn == sim = "boot" => phys.pc = "off"

(* Without corruption and failing thread starts data_ptr is Null or the    *)
(* address of the live shuttle, and it is Null outside the window between  *)
(* the commit of the constructor and the destructor's write.               *)
PointerLive ==
  program \intersect {"corrupt", "spawnFails"} = {} =>
    /\ ~m_corrupt_status /\ phys.pc # "flip"
    /\ reg.data_ptr # Null =>
         /\ Live(reg.data_ptr)
         /\ drv \in {"spawn", "handshake", "up", "stats"}

-----------------------------------------------------------------------------
(* The steps                                                               *)

(* The host's calls into the device, the driver and the fault switches,    *)
(* the plain register writes, and the sentinel with its thread.            *)
SimAction == drv = "none" /\ (SimConstruct \/ SimReady \/ SimStop \/ SimJoin)

DriverAction ==
  \/ sim = "live" /\ \E s \in Shuttle : CtorMap(s)
  \/ CtorCommit \/ CtorSpawn \/ CtorHandshake
  \/ "spawnFails" \in program /\ CtorSpawnFails
  \/ transmit \/ TransmitStats \/ receive
  \/ DtorClear \/ DtorStop \/ DtorJoin \/ DtorUnmap

SwitchAction == \E active \in BOOLEAN : trigger_deadlock(active) \/ HostCorrupt(active)

RegisterAction ==
  /\ (\E c \in {0, 1} : Write("control", c)) \/ Write("laser_temp", LIMIT_MC + 1)
  /\ UNCHANGED <<shuttleVars, simVars, driverVars, sentinelVars>>

SentinelAction == StopJoin \/ start \/ stop \/ Guard

(* Every step is one of these, or of the watchdog or the physics thread.   *)
LEMMA Steps ==
  ASSUME Next
  PROVE  /\ UNCHANGED program
         /\ \/ SimAction /\ UNCHANGED <<driverVars, sentinelVars>>
            \/ DriverAction /\ UNCHANGED <<simVars, sentinelVars>>
            \/ SwitchAction /\ UNCHANGED <<driverVars, sentinelVars>>
            \/ RegisterAction
            \/ Watchdog /\ UNCHANGED <<simVars, sentinelVars>>
            \/ Physics /\ UNCHANGED <<driverVars, sentinelVars>>
            \/ SentinelAction /\ UNCHANGED <<shuttleVars, simVars, driverVars>>
<1> USE DEF Next
<1>1. CASE ~stopping /\ Host /\ UNCHANGED sentinelVars
  BY <1>1 DEF SimAction, DriverAction, SwitchAction, RegisterAction, Host, HostLifecycle, HostTransmit, HostReceive, HostControl,
    HostDeadlock, HostCorrupt, DriverProceeds
<1>2. CASE ChaosTool /\ UNCHANGED sentinelVars
  BY <1>2 DEF RegisterAction, ChaosTool
<1>3. CASE HostSentinel
  BY <1>3 DEF SentinelAction, HostSentinel
<1> QED
  BY <1>1, <1>2, <1>3 DEF SentinelAction

-----------------------------------------------------------------------------
(* Types                                                                   *)

(* A step of the rail is a step between natural numbers.                   *)
LEMMA VoltNat ==
  ASSUME NEW v \in Nat, NEW powered \in BOOLEAN
  PROVE  NextVolt(v, powered) \in Nat
  BY PhysicsAssumption DEF NextVolt

(* No rail voltage has a target below the base temperature.                *)
LEMMA TargetAboveBase ==
  ASSUME NEW v \in Nat
  PROVE  TargetTemp(v) \in Nat /\ TargetTemp(v) >= SIM_BASE_TEMP_MC
<1> DEFINE p == v \div VOLT_TEMP_DIV
<1>1. p \in Nat
  BY PhysicsAssumption
<1>2. TargetTemp(v) = SIM_BASE_TEMP_MC + p * VOLT_TEMP_MULT
  BY DEF TargetTemp
<1> HIDE DEF p
<1>3. p * VOLT_TEMP_MULT \in Nat
  BY <1>1, PhysicsAssumption
<1> QED
  BY <1>2, <1>3, PhysicsAssumption

(* So cooling stops at the latest one step below it.                       *)
LEMMA InertiaFloor ==
  ASSUME NEW t \in Nat, NEW target \in Nat,
         t >= SIM_BASE_TEMP_MC - COOLING_STEP_MC, target >= SIM_BASE_TEMP_MC
  PROVE  /\ Inertia(t, target) \in Nat
         /\ Inertia(t, target) >= SIM_BASE_TEMP_MC - COOLING_STEP_MC
  BY PhysicsAssumption, ColdAssumption DEF Inertia

(* The SNR of a temperature is an integer.                                 *)
LEMMA SnrInt == ASSUME NEW t \in Nat PROVE Snr(t) \in Int
  BY PhysicsAssumption DEF Snr

(* Counters wrap within their range.                                       *)
LEMMA WrapRange == ASSUME NEW n \in Nat PROVE n % WRAP \in 0..(WRAP - 1)
  BY LayoutAssumption

(* The flags only ever get a truth value.                                  *)
LEMMA FlagsInvariant == Spec => []Flags
<1>1. Init => Flags
  BY DEF Init, SimInit, DriverInit, SentinelInit, Flags
<1>2. ASSUME Flags, [Next]_vars PROVE Flags'
  <2>1. CASE UNCHANGED vars
    BY <1>2, <2>1 DEF vars, simVars, driverVars, sentinelVars, Flags
  <2>2. CASE SimAction /\ UNCHANGED <<driverVars, sentinelVars>>
    BY <1>2, <2>2
    DEF Flags, driverVars, sentinelVars, SimAction,
      SimConstruct, SimReady, SimStop, SimJoin
  <2>3. CASE DriverAction /\ UNCHANGED <<simVars, sentinelVars>>
    BY <1>2, <2>3
    DEF Flags, simVars, sentinelVars, flags, DriverAction, CtorMap, CtorCommit,
      CtorSpawn, CtorHandshake, CtorSpawnFails, transmit, TransmitStats, receive,
      DtorClear, DtorStop, DtorJoin, DtorUnmap
  <2>4. CASE SwitchAction /\ UNCHANGED <<driverVars, sentinelVars>>
    BY <1>2, <2>4
    DEF Flags, driverVars, sentinelVars, SwitchAction, HostCorrupt, trigger_deadlock,
      trigger_corruption
  <2>5. CASE RegisterAction
    BY <1>2, <2>5
    DEF Flags, RegisterAction, simVars, driverVars, sentinelVars
  <2>6. CASE Watchdog /\ UNCHANGED <<simVars, sentinelVars>>
    BY <1>2, <2>6
    DEF Flags, simVars, sentinelVars, flags, Watchdog, WatchdogStart, WatchdogLoop,
      WatchdogPoll, WatchdogTrip, WatchdogHalt
  <2>7. CASE Physics /\ UNCHANGED <<driverVars, sentinelVars>>
    BY <1>2, <2>7
    DEF Flags, driverVars, sentinelVars, hostFlags, Physics, PhysCheck, PhysGate,
      PhysLoadPtr, PhysPop, PhysCount, PhysThermal, PhysPublish, PhysChaos, PhysFlip
  <2>8. CASE SentinelAction /\ UNCHANGED <<shuttleVars, simVars, driverVars>>
    BY <1>2, <2>8
    DEF Flags, simVars, driverVars, SentinelAction, StopJoin, start, stop,
      Guard, GuardLoop, GuardPoll, GuardTrip
  <2> QED
    BY <1>2, <2>1, <2>2, <2>3, <2>4, <2>5, <2>6, <2>7, <2>8, Steps
<1> QED
  BY <1>1, <1>2, PTL DEF Spec

(* The registers, the shuttle and the places of the threads to begin with. *)
LEMMA InitValues == Init => Values
<1> SUFFICES ASSUME Init PROVE Values
  OBVIOUS
<1>1. Null \in Addr
  BY DEF Null, Addr
<1>2. reg \in Registers
  BY <1>1, LayoutAssumption DEF Init, Registers, ZeroedRegisters
<1>3. phys \in PhysicsLocals
  BY <1>1, PhysicsAssumption DEF Init, SimInit, PhysicsLocals
<1> QED
  BY <1>1, <1>2, <1>3, LayoutAssumption, CapacityAssumption, PhysicsAssumption
  DEF Init, Values, NoShuttle, SimInit, DriverInit, SentinelInit

(* Corruption yields addresses.                                            *)
LEMMA FlipsAreAddresses ==
  ASSUME NEW a \in Addr, NEW b \in Bit
  PROVE  FlipBit(a, b) \subseteq Addr
  BY DEF FlipBit, Addr, AddrOf

(* Every step keeps the values in range.                                   *)
LEMMA NextValues == ASSUME Values, [Next]_vars PROVE Values'
<1> USE DEF Values
<1>1. CASE UNCHANGED vars
  BY <1>1 DEF vars, shuttleVars, simVars, driverVars, sentinelVars
<1>2. CASE SimAction /\ UNCHANGED <<program, driverVars, sentinelVars>>
  <2> USE <1>2 DEF driverVars, sentinelVars, shuttleVars
  <2>1. CASE SimConstruct
    <3>1. reg' \in Registers
      BY <2>1, PhysicsAssumption DEF SimConstruct, Registers
    <3>2. phys' \in PhysicsLocals
      BY <2>1 DEF SimConstruct, PhysicsLocals
    <3> QED
      BY <2>1, <3>1, <3>2 DEF SimConstruct
  <2>2. CASE SimReady \/ SimStop \/ SimJoin
    BY <2>2 DEF SimReady, SimStop, SimJoin
  <2> QED
    BY <2>1, <2>2 DEF SimAction
<1>3. CASE DriverAction /\ UNCHANGED <<program, simVars, sentinelVars>>
  <2> USE <1>3 DEF simVars, sentinelVars
  <2>1. CASE \E s \in Shuttle : CtorMap(s)
    BY <2>1, CapacityAssumption DEF CtorMap, MapShuttle, counts
  <2>2. CASE CtorCommit
    <3>1. AddrOf(shuttle) \in Addr
      BY DEF AddrOf, Addr
    <3>2. reg' \in Registers
      BY <2>2, <3>1 DEF CtorCommit, Write, Registers
    <3> QED
      BY <2>2, <3>2 DEF CtorCommit, shuttleVars, counts
  <2>3. CASE CtorSpawn \/ CtorHandshake \/ DtorStop \/ DtorJoin
    BY <2>3 DEF CtorSpawn, CtorHandshake, DtorStop, DtorJoin, shuttleVars, counts
  <2>4. CASE CtorSpawnFails
    BY <2>4, CapacityAssumption DEF CtorSpawnFails, UnmapShuttle, counts
  <2>5. CASE transmit
    <3>1. Increment(stats.dropped_packets) \in 0..(WRAP - 1)
      BY WrapRange, LayoutAssumption DEF Increment
    <3> QED
      BY <2>5, <3>1, CapacityAssumption DEF transmit, Push, PushFull, shuttleVars
  <2>6. CASE TransmitStats
    <3>1. Increment(stats.total_packets) \in 0..(WRAP - 1)
      BY WrapRange, LayoutAssumption DEF Increment
    <3> QED
      BY <2>6, <3>1 DEF TransmitStats, shuttleVars
  <2>7. CASE receive
    <3>1. Increment(received) \in 0..(WRAP - 1)
      BY WrapRange, LayoutAssumption DEF Increment
    <3> QED
      BY <2>7, <3>1, CapacityAssumption DEF receive, Pop, PopEmpty, shuttleVars
  <2>8. CASE DtorClear
    <3>1. Null \in Addr
      BY DEF Null, Addr
    <3>2. reg' \in Registers
      BY <2>8, <3>1 DEF DtorClear, Write, Registers
    <3> QED
      BY <2>8, <3>2 DEF DtorClear, shuttleVars, counts
  <2>9. CASE DtorUnmap
    <3>1. (discarded + ring) % WRAP \in 0..(WRAP - 1)
      BY WrapRange, LayoutAssumption, CapacityAssumption
    <3> QED
      BY <2>9, <3>1, CapacityAssumption DEF DtorUnmap, UnmapShuttle
  <2> QED
    BY <2>1, <2>2, <2>3, <2>4, <2>5, <2>6, <2>7, <2>8, <2>9 DEF DriverAction
<1>4. CASE SwitchAction /\ UNCHANGED <<program, driverVars, sentinelVars>>
  BY <1>4 DEF SwitchAction, HostCorrupt, trigger_deadlock, trigger_corruption,
    driverVars, sentinelVars, shuttleVars
<1>5. CASE RegisterAction /\ UNCHANGED program
  <2>1. reg' \in Registers
    BY <1>5, DriverAssumption DEF RegisterAction, Write, Registers
  <2> QED
    BY <1>5, <2>1 DEF RegisterAction, shuttleVars, simVars, driverVars, sentinelVars
<1>6. CASE Watchdog /\ UNCHANGED <<program, simVars, sentinelVars>>
  <2>1. reg' \in Registers
    BY <1>6
    DEF Registers, Watchdog, WatchdogStart, WatchdogLoop, WatchdogPoll, WatchdogTrip,
      WatchdogHalt, Write
  <2> QED
    BY <1>6, <2>1
    DEF Watchdog, WatchdogStart, WatchdogLoop, WatchdogPoll, WatchdogTrip,
      WatchdogHalt, simVars, sentinelVars, shuttleVars, counts
<1>7. CASE Physics /\ UNCHANGED <<program, driverVars, sentinelVars>>
  <2> USE <1>7 DEF driverVars, sentinelVars, hostFlags
  <2>0. /\ reg.data_ptr \in Addr /\ reg.counter \in 0..(WRAP - 1)
        /\ reg.gan_voltage \in Nat /\ Null \in Addr
    BY DEF Registers, Null, Addr
  <2>1. CASE PhysCheck
    <3>1. reg' \in Registers /\ phys' \in PhysicsLocals
      BY <2>1 DEF PhysCheck, Write, Goto, Registers, PhysicsLocals
    <3> QED
      BY <2>1, <3>1 DEF PhysCheck, shuttleVars
  <2>2. CASE PhysGate
    <3>1. phys' \in PhysicsLocals
      BY <2>2 DEF PhysGate, Goto, PhysicsLocals
    <3> QED
      BY <2>2, <3>1 DEF PhysGate, shuttleVars
  <2>3. CASE PhysLoadPtr
    <3>1. phys' \in PhysicsLocals
      BY <2>0, <2>3 DEF PhysLoadPtr, PhysicsLocals
    <3> QED
      BY <2>3, <3>1 DEF PhysLoadPtr, shuttleVars
  <2>4. CASE PhysPop
    <3>1. phys' \in PhysicsLocals
      BY <2>4 DEF PhysPop, Goto, PhysicsLocals
    <3> QED
      BY <2>4, <3>1, CapacityAssumption DEF PhysPop, Pop, PopEmpty, shuttleVars
  <2>5. CASE PhysCount
    <3>1. Increment(reg.counter) \in 0..(WRAP - 1)
      BY <2>0, WrapRange, LayoutAssumption DEF Increment
    <3>2. reg' \in Registers /\ phys' \in PhysicsLocals
      BY <2>5, <3>1 DEF PhysCount, Write, Goto, Registers, PhysicsLocals
    <3> QED
      BY <2>5, <3>2 DEF PhysCount, shuttleVars
  <2>6. CASE PhysThermal
    <3> DEFINE volt == NextVolt(reg.gan_voltage, reg.control = 1)
               temp == Inertia(phys.m_current_temp_mc, TargetTemp(volt))
    <3>1. volt \in Nat
      BY <2>0, VoltNat
    <3>2. /\ phys.m_current_temp_mc \in Nat
          /\ phys.m_current_temp_mc >= SIM_BASE_TEMP_MC - COOLING_STEP_MC
      BY DEF PhysicsLocals
    <3>3. temp \in Nat /\ temp >= SIM_BASE_TEMP_MC - COOLING_STEP_MC
      BY <3>1, <3>2, TargetAboveBase, InertiaFloor
    <3>4. /\ reg' = [reg EXCEPT !["gan_voltage"] = volt]
          /\ phys' = [phys EXCEPT !.pc = "publish", !.m_current_temp_mc = temp]
      BY <2>6 DEF PhysThermal, Write
    <3> HIDE DEF volt, temp
    <3>5. reg' \in Registers /\ phys' \in PhysicsLocals
      BY <3>1, <3>3, <3>4 DEF Registers, PhysicsLocals
    <3> QED
      BY <2>6, <3>5 DEF PhysThermal, shuttleVars
  <2>7. CASE PhysPublish
    <3>1. phys.m_current_temp_mc \in Nat
      BY DEF PhysicsLocals
    <3>2. Snr(phys.m_current_temp_mc) \in Int
      BY <3>1, SnrInt
    <3>3. reg' \in Registers /\ phys' \in PhysicsLocals
      BY <2>7, <3>1, <3>2 DEF PhysPublish, Goto, Registers, PhysicsLocals
    <3> QED
      BY <2>7, <3>3 DEF PhysPublish, shuttleVars
  <2>8. CASE PhysChaos
    <3>1. \A b \in Bit : FlipBit(reg.data_ptr, b) \subseteq Addr
      BY <2>0, FlipsAreAddresses
    <3>2. reg' \in Registers
      BY <2>8 DEF PhysChaos, Write, Registers
    <3>3. phys' \in PhysicsLocals
      <4>1. CASE Goto("check")
        BY <4>1 DEF Goto, PhysicsLocals
      <4>2. CASE \E b \in Bit : \E a \in FlipBit(reg.data_ptr, b) :
                   phys' = [phys EXCEPT !.pc = "flip", !.corrupted = a]
        BY <3>1, <4>2 DEF PhysicsLocals
      <4> QED
        BY <2>8, <4>1, <4>2 DEF PhysChaos
    <3>4. UNCHANGED <<hostFlags, fault, shuttleVars>>
      BY <2>8 DEF PhysChaos
    <3> QED
      BY <3>2, <3>3, <3>4 DEF shuttleVars
  <2>9. CASE PhysFlip
    <3>1. phys.corrupted \in Addr
      BY DEF PhysicsLocals
    <3>2. reg' \in Registers /\ phys' \in PhysicsLocals
      BY <2>0, <2>9, <3>1 DEF PhysFlip, Write, Registers, PhysicsLocals
    <3> QED
      BY <2>9, <3>2 DEF PhysFlip, shuttleVars
  <2> QED
    BY <2>1, <2>2, <2>3, <2>4, <2>5, <2>6, <2>7, <2>8, <2>9 DEF Physics
<1>8. CASE SentinelAction /\ UNCHANGED <<program, shuttleVars, simVars, driverVars>>
  <2>1. reg' \in Registers
    BY <1>8
    DEF Registers, SentinelAction, StopJoin, start, stop, Guard, GuardLoop, GuardPoll, GuardTrip, Write
  <2> QED
    BY <1>8, <2>1
    DEF SentinelAction, StopJoin, start, stop, Guard, GuardLoop, GuardPoll, GuardTrip,
      shuttleVars, simVars, driverVars
<1> QED
  BY <1>1, <1>2, <1>3, <1>4, <1>5, <1>6, <1>7, <1>8, Steps

(* The type invariant: every register and every thread is where the code   *)
(* can be, for all constants.                                              *)
THEOREM SystemTypes == Spec => []TypeOK
<1>1. Values /\ [Next]_vars => Values'
  BY NextValues
<1>2. Flags /\ Values => TypeOK
  BY DEF Flags, Values, PhysicsLocals, TypeOK, SimTypeOK, DriverTypeOK, SentinelTypeOK
<1> QED
  BY <1>1, <1>2, InitValues, FlagsInvariant, PTL DEF Spec

-----------------------------------------------------------------------------
(* Who changes what                                                        *)

(* data_ptr is stored to by constructor, destructor and corruption only.   *)
LEMMA PointerStores ==
  ASSUME Values, [Next]_vars
  PROVE  reg'.data_ptr = reg.data_ptr \/ CtorCommit \/ DtorClear \/ PhysFlip
<1> USE DEF Values, Registers
<1>1. CASE UNCHANGED vars
  BY <1>1 DEF vars
<1>2. CASE SimAction
  BY <1>2 DEF SimAction, SimConstruct, SimReady, SimStop, SimJoin
<1>3. CASE DriverAction
  BY <1>3
  DEF DriverAction, CtorMap, CtorSpawn, CtorHandshake, CtorSpawnFails, transmit,
    TransmitStats, receive, DtorStop, DtorJoin, DtorUnmap
<1>4. CASE SwitchAction
  BY <1>4 DEF SwitchAction, HostCorrupt, trigger_deadlock, trigger_corruption
<1>5. CASE RegisterAction
  BY <1>5 DEF RegisterAction, Write
<1>6. CASE Watchdog
  BY <1>6 DEF Watchdog, WatchdogStart, WatchdogLoop, WatchdogPoll, WatchdogTrip,
    WatchdogHalt, Write
<1>7. CASE Physics
  <2>1. CASE PhysCheck \/ PhysGate \/ PhysLoadPtr \/ PhysPop \/ PhysCount
    BY <2>1 DEF PhysCheck, PhysGate, PhysLoadPtr, PhysPop, PhysCount, Write
  <2>2. CASE PhysThermal \/ PhysPublish
    BY <2>2 DEF PhysThermal, PhysPublish, Write
  <2>3. CASE PhysChaos
    BY <2>3 DEF PhysChaos, Write
  <2> QED
    BY <1>7, <2>1, <2>2, <2>3 DEF Physics
<1>8. CASE SentinelAction
  BY <1>8 DEF SentinelAction, StopJoin, start, stop, Guard, GuardLoop, GuardPoll,
    GuardTrip, Write
<1> QED
  BY <1>1, <1>2, <1>3, <1>4, <1>5, <1>6, <1>7, <1>8, Steps

(* The device's state changes in its constructor, by its switches and in   *)
(* its own thread only.                                                    *)
LEMMA DeviceSteps ==
  ASSUME [Next]_vars
  PROVE  \/ UNCHANGED <<phys, m_corrupt_status, fault>>
         \/ /\ SimConstruct
            /\ UNCHANGED driverVars
         \/ /\ \E active \in BOOLEAN : HostCorrupt(active)
            /\ UNCHANGED <<phys, fault, driverVars>>
         \/ Physics /\ UNCHANGED <<m_corrupt_status, driverVars>>
<1>1. CASE UNCHANGED vars
  BY <1>1 DEF vars, simVars
<1>2. CASE SimAction /\ UNCHANGED <<driverVars, sentinelVars>>
  BY <1>2 DEF SimAction, SimReady, SimStop, SimJoin
<1>4. CASE SwitchAction /\ UNCHANGED <<driverVars, sentinelVars>>
  BY <1>4 DEF SwitchAction, HostCorrupt, trigger_deadlock, trigger_corruption
<1>7. CASE Physics /\ UNCHANGED <<driverVars, sentinelVars>>
  BY <1>7 DEF Physics, PhysCheck, PhysGate, PhysLoadPtr, PhysPop, PhysCount,
    PhysThermal, PhysPublish, PhysChaos, PhysFlip, hostFlags
<1> QED
  BY <1>1, <1>2, <1>4, <1>7, Steps DEF RegisterAction, simVars

-----------------------------------------------------------------------------
(* The latch                                                               *)

(* The first address accepted is latched and every later one equals it.    *)
LEMMA NextLatched ==
  ASSUME Values, Latched, [Next]_vars
  PROVE  Latched'
<1>0. phys \in PhysicsLocals
  BY DEF Values
<1>1. CASE UNCHANGED phys
  BY <1>1 DEF Latched
<1>2. CASE SimConstruct
  BY <1>0, <1>2 DEF SimConstruct, Latched, PhysicsLocals
<1>3. CASE Physics
  <2> USE <1>0 DEF PhysicsLocals
  <2>1. CASE PhysCheck \/ PhysGate \/ PhysCount \/ PhysThermal \/ PhysPublish
    <3>1. /\ phys'.m_last_valid_shuttle = phys.m_last_valid_shuttle
          /\ phys'.addr = phys.addr
          /\ phys'.pc \in {"pop", "count"} => phys.pc \in {"pop", "count"}
      BY <2>1 DEF PhysCheck, PhysGate, PhysCount, PhysThermal, PhysPublish, Goto
    <3> QED
      BY <3>1 DEF Latched
  <2>2. CASE PhysLoadPtr
    <3>1. CASE Accepts(reg.data_ptr)
      <4>1. phys.m_last_valid_shuttle \in {Null, reg.data_ptr}
        BY <3>1 DEF Accepts
      <4>2. phys' = [phys EXCEPT !.pc = "pop", !.addr = reg.data_ptr,
                                 !.m_last_valid_shuttle = IF @ = Null THEN reg.data_ptr ELSE @]
        BY <2>2, <3>1 DEF PhysLoadPtr
      <4>3. phys'.m_last_valid_shuttle = reg.data_ptr /\ phys'.addr = reg.data_ptr
        BY <4>1, <4>2
      <4> QED
        BY <4>3 DEF Latched
    <3>2. CASE ~Accepts(reg.data_ptr)
      <4>1. phys' = [phys EXCEPT !.pc = "thermal"]
        BY <2>2, <3>2 DEF PhysLoadPtr
      <4> QED
        BY <4>1 DEF Latched
    <3> QED
      BY <3>1, <3>2
  <2>3. CASE PhysPop
    BY <2>3 DEF PhysPop, Goto, Latched
  <2>4. CASE PhysChaos \/ PhysFlip
    <3>1. phys'.pc \in {"check", "flip"}
      BY <2>4 DEF PhysChaos, PhysFlip, Goto
    <3> QED
      BY <3>1 DEF Latched
  <2> QED
    BY <1>3, <2>1, <2>2, <2>3, <2>4 DEF Physics
<1> QED
  BY <1>1, <1>2, <1>3, DeviceSteps DEF HostCorrupt

(* A pop that faults does so at the latched address, and nothing moves     *)
(* after it.                                                               *)
LEMMA NextNotWild ==
  ASSUME Values, Latched, NoWildAccess, [Next]_vars
  PROVE  NoWildAccess'
<1>1. CASE UNCHANGED vars
  BY <1>1 DEF vars, simVars, NoWildAccess
<1>2. CASE Next
  <2>1. fault = "none"
    BY <1>2 DEF Next, Running
  <2>2. CASE PhysPop
    <3>1. fault' = "wild" =>
            phys' = phys /\ phys.pc = "pop" /\ phys.addr \notin {AddrOf(s) : s \in Shuttle}
      BY <2>1, <2>2 DEF PhysPop
    <3> QED
      BY <3>1 DEF Latched, NoWildAccess
  <2>3. CASE fault' = fault
    BY <2>1, <2>3 DEF NoWildAccess
  <2>4. ASSUME ~PhysPop PROVE fault' = fault
    BY <2>4, DeviceSteps
    DEF SimConstruct, Physics, PhysCheck, PhysGate, PhysLoadPtr, PhysCount, PhysThermal,
      PhysPublish, PhysChaos, PhysFlip
  <2> QED
    BY <2>2, <2>3, <2>4
<1> QED
  BY <1>1, <1>2

(* However and whenever data_ptr is corrupted, a device that has latched   *)
(* the address of a shuttle never dereferences an address that is none's:  *)
(* the latch alone decides what it dereferences.                           *)
THEOREM NoWild == Spec => []NoWildAccess
<1>1. Init => Latched /\ NoWildAccess
  BY DEF Init, SimInit, Latched, NoWildAccess
<1>2. Values /\ Latched /\ [Next]_vars => Latched'
  BY NextLatched
<1>3. Values /\ Latched /\ NoWildAccess /\ [Next]_vars => NoWildAccess'
  BY NextNotWild
<1>4. Values /\ [Next]_vars => Values'
  BY NextValues
<1> QED
  BY <1>1, <1>2, <1>3, <1>4, InitValues, PTL DEF Spec

-----------------------------------------------------------------------------
(* The driver's life                                                       *)

(* Driver, shuttle and watchdog thread change only by the driver's own     *)
(* steps, the watchdog's and the device's pop.                             *)
LEMMA DriverSteps ==
  ASSUME [Next]_vars
  PROVE  \/ UNCHANGED <<shuttleVars, driverVars>>
         \/ DriverAction
         \/ Watchdog
         \/ PhysPop /\ UNCHANGED driverVars
<1>1. CASE UNCHANGED vars
  BY <1>1 DEF vars
<1>2. CASE SimAction /\ UNCHANGED <<driverVars, sentinelVars>>
  BY <1>2 DEF SimAction, SimConstruct, SimReady, SimStop, SimJoin
<1>3. CASE SwitchAction /\ UNCHANGED <<driverVars, sentinelVars>>
  BY <1>3 DEF SwitchAction, HostCorrupt, trigger_deadlock, trigger_corruption
<1>4. CASE Physics /\ UNCHANGED <<driverVars, sentinelVars>>
  BY <1>4 DEF Physics, PhysCheck, PhysGate, PhysLoadPtr, PhysCount,
    PhysThermal, PhysPublish, PhysChaos, PhysFlip
<1> QED
  BY <1>1, <1>2, <1>3, <1>4, Steps DEF RegisterAction

(* The shuttle is mapped while the driver exists and empty until the       *)
(* constructor has returned; join() keeps the watchdog thread inside.      *)
LEMMA NextLifetime ==
  ASSUME Values, Lifetime, WatchdogWithinDriver, [Next]_vars
  PROVE  Lifetime' /\ WatchdogWithinDriver'
<1> USE DEF Lifetime, WatchdogWithinDriver
<1>1. CASE UNCHANGED <<shuttleVars, driverVars>>
  BY <1>1 DEF shuttleVars, driverVars
<1>2. CASE \E s \in Shuttle : CtorMap(s)
  BY <1>2, LayoutAssumption DEF CtorMap, MapShuttle
<1>3. CASE CtorCommit \/ CtorSpawn \/ CtorHandshake \/ TransmitStats
             \/ DtorClear \/ DtorStop \/ DtorJoin
  BY <1>3 DEF CtorCommit, CtorSpawn, CtorHandshake, TransmitStats, DtorClear, DtorStop,
    DtorJoin, shuttleVars
<1>4. CASE CtorSpawnFails \/ DtorUnmap
  BY <1>4 DEF CtorSpawnFails, DtorUnmap, UnmapShuttle
<1>5. CASE transmit \/ receive
  BY <1>5 DEF transmit, receive, Push, PushFull, Pop, PopEmpty, shuttleVars
<1>6. CASE Watchdog
  BY <1>6 DEF Watchdog, WatchdogStart, WatchdogLoop, WatchdogPoll, WatchdogTrip,
    WatchdogHalt, shuttleVars
<1>7. CASE PhysPop /\ UNCHANGED driverVars
  BY <1>7 DEF Values, PhysPop, Pop, PopEmpty, shuttleVars, driverVars
<1> QED
  BY <1>1, <1>2, <1>3, <1>4, <1>5, <1>6, <1>7, DriverSteps DEF DriverAction

(* The watchdog thread never runs without its driver.                      *)
THEOREM WatchdogContained == Spec => []WatchdogWithinDriver
<1>1. Init => Lifetime /\ WatchdogWithinDriver
  BY DEF Init, NoShuttle, DriverInit, Lifetime, WatchdogWithinDriver
<1>2. /\ Values /\ Lifetime /\ WatchdogWithinDriver /\ [Next]_vars
      => Lifetime' /\ WatchdogWithinDriver'
  BY NextLifetime
<1>3. Values /\ [Next]_vars => Values'
  BY NextValues
<1> QED
  BY <1>1, <1>2, <1>3, InitValues, PTL DEF Spec

(* data_ptr is withdrawn before the shuttle is unmapped.                   *)
LEMMA NextPointerLive ==
  ASSUME Values, Lifetime, PointerLive, [Next]_vars
  PROVE  PointerLive'
<1> SUFFICES ASSUME program' \intersect {"corrupt", "spawnFails"} = {}
             PROVE  /\ ~m_corrupt_status' /\ phys'.pc # "flip"
                    /\ reg'.data_ptr # Null =>
                         /\ Live(reg.data_ptr)'
                         /\ drv' \in {"spawn", "handshake", "up", "stats"}
  BY DEF PointerLive
<1>1. program' = program
  BY Steps DEF vars
<1>2. /\ ~m_corrupt_status /\ phys.pc # "flip"
      /\ reg.data_ptr # Null =>
           Live(reg.data_ptr) /\ drv \in {"spawn", "handshake", "up", "stats"}
  BY <1>1 DEF PointerLive
<1>3. ~m_corrupt_status' /\ phys'.pc # "flip"
  <2>0. phys \in PhysicsLocals
    BY DEF Values
  <2>1. CASE SimConstruct
    BY <1>2, <2>0, <2>1 DEF SimConstruct, PhysicsLocals
  <2>2. CASE \E active \in BOOLEAN : HostCorrupt(active)
    BY <1>1, <2>2 DEF HostCorrupt
  <2>3. CASE Physics /\ UNCHANGED <<m_corrupt_status, driverVars>>
    BY <1>2, <2>0, <2>3
    DEF PhysicsLocals, Physics, PhysCheck, PhysGate, PhysLoadPtr, PhysPop, PhysCount,
      PhysThermal, PhysPublish, PhysChaos, PhysFlip, Goto
  <2> QED
    BY <1>2, <2>1, <2>2, <2>3, DeviceSteps
<1>4. CASE CtorCommit
  <2>1. reg'.data_ptr = AddrOf(shuttle)
    BY <1>4 DEF CtorCommit, Write, Values, Registers
  <2>2. shuttle # None /\ shuttle' = shuttle /\ drv' = "spawn"
    BY <1>4 DEF CtorCommit, Lifetime, shuttleVars
  <2> QED
    BY <1>3, <2>1, <2>2 DEF Live
<1>5. CASE DtorClear
  <2>1. reg'.data_ptr = Null
    BY <1>5 DEF DtorClear, Write, Values, Registers
  <2> QED
    BY <1>3, <2>1
<1>6. CASE reg'.data_ptr = reg.data_ptr /\ ~CtorCommit /\ ~DtorClear
  <2> SUFFICES ASSUME reg.data_ptr # Null
               PROVE  shuttle' = shuttle /\ drv' \in {"spawn", "handshake", "up", "stats"}
    BY <1>2, <1>3, <1>6 DEF Live
  <2>1. drv \in {"spawn", "handshake", "up", "stats"}
    BY <1>2
  <2>2. CASE UNCHANGED <<shuttleVars, driverVars>>
    BY <2>1, <2>2 DEF shuttleVars, driverVars
  <2>3. CASE DriverAction
    BY <1>1, <1>6, <2>1, <2>3
    DEF DriverAction, CtorMap, CtorSpawn, CtorHandshake, transmit, TransmitStats, receive,
      DtorStop, DtorJoin, DtorUnmap, Push, PushFull, Pop, PopEmpty, shuttleVars
  <2>4. CASE Watchdog
    BY <2>1, <2>4 DEF Watchdog, WatchdogStart, WatchdogLoop, WatchdogPoll, WatchdogTrip,
      WatchdogHalt, shuttleVars
  <2>5. CASE PhysPop /\ UNCHANGED driverVars
    BY <2>1, <2>5 DEF PhysPop, Pop, PopEmpty, shuttleVars, driverVars
  <2> QED
    BY <2>2, <2>3, <2>4, <2>5, DriverSteps
<1> QED
  BY <1>2, <1>4, <1>5, <1>6, PointerStores DEF PhysFlip

(* process_dma() starts to drain live rings only, unless data_ptr is       *)
(* corrupted or a constructor failed: the step that enters the pop loop    *)
(* reads an address whose shuttle is mapped at that moment.                *)
THEOREM DrainsLive == Spec => AcceptsOnlyLive
<1> DEFINE Inv == Values /\ Lifetime /\ WatchdogWithinDriver /\ PointerLive
<1>1. Init => Inv
  BY InitValues
  DEF Init, NoShuttle, SimInit, DriverInit, ZeroedRegisters, Lifetime,
    WatchdogWithinDriver, PointerLive
<1>2. Inv /\ [Next]_vars => Inv'
  BY NextValues, NextLifetime, NextPointerLive
<1>3. Inv /\ [Next]_vars =>
        [/\ program \intersect {"corrupt", "spawnFails"} = {}
         /\ phys.pc = "dma" /\ phys'.pc = "pop"
         => Live(phys'.addr)]_vars
  <2> SUFFICES ASSUME Inv, Next, program \intersect {"corrupt", "spawnFails"} = {},
                      phys.pc = "dma", phys'.pc = "pop"
               PROVE  Live(phys'.addr)
    OBVIOUS
  <2>1. PhysLoadPtr
    BY DeviceSteps
    DEF SimConstruct, Physics, PhysCheck, PhysGate, PhysPop, PhysCount, PhysThermal,
      PhysPublish, PhysChaos, PhysFlip, Values, PhysicsLocals
  <2>2. Accepts(reg.data_ptr) /\ phys'.addr = reg.data_ptr
    BY <2>1 DEF PhysLoadPtr, Values, PhysicsLocals
  <2> QED
    BY <2>2 DEF Accepts, PointerLive
<1> QED
  BY <1>1, <1>2, <1>3, PTL DEF Spec, AcceptsOnlyLive

-----------------------------------------------------------------------------
(* Conservation of descriptors                                             *)

(* A remainder below the divisor is unique.                                *)
LEMMA RemainderUnique ==
  ASSUME NEW W \in Nat \ {0}, NEW q \in Int, NEW r \in 0..(W - 1)
  PROVE  (q * W + r) % W = r
  OBVIOUS

(* Whole turns do not change a remainder.                                  *)
LEMMA WholeTurns ==
  ASSUME NEW W \in Nat \ {0}, NEW k \in Int, NEW n \in Nat, k * W + n \in Nat
  PROVE  (k * W + n) % W = n % W
<1> DEFINE q == n \div W
           r == n % W
<1>1. q \in Int /\ r \in 0..(W - 1) /\ n = q * W + r
  OBVIOUS
<1> HIDE DEF q, r
<1>2. k * W + n = (k + q) * W + r
  BY <1>1
<1>3. k + q \in Int
  BY <1>1
<1>4. ((k + q) * W + r) % W = r
  BY <1>1, <1>3, RemainderUnique
<1> QED
  BY <1>2, <1>4 DEF r

(* A counter may wrap before or after something is added to it.            *)
LEMMA WrapThenAdd ==
  ASSUME NEW a \in Nat, NEW b \in Nat
  PROVE  ((a % WRAP) + b) % WRAP = (a + b) % WRAP
<1> DEFINE W == WRAP
           q == a \div W
           r == a % W
<1>0. W \in Nat \ {0}
  BY LayoutAssumption
<1> HIDE DEF W
<1>1. q \in Int /\ r \in Nat /\ a = q * W + r
  BY <1>0
<1> HIDE DEF q, r
<1>2. a + b = q * W + (r + b)
  BY <1>0, <1>1
<1>3. q * W + (r + b) \in Nat
  BY <1>2
<1>4. r + b \in Nat
  BY <1>1
<1>5. (q * W + (r + b)) % W = (r + b) % W
  BY <1>0, <1>1, <1>3, <1>4, WholeTurns
<1> QED
  BY <1>2, <1>5 DEF r, W

(* Congruent sums stay congruent when both grow by one.                    *)
LEMMA BothGrow ==
  ASSUME NEW a \in Nat, NEW b \in Nat, a % WRAP = b % WRAP
  PROVE  (a + 1) % WRAP = (b + 1) % WRAP
  BY WrapThenAdd

(* What transmit() has sent, and where the descriptors are.                *)
Sent == stats.total_packets + One(drv = "stats")
Found == reg.counter + One(phys.pc = "count") + ring + received + discarded

(* Nobody but the physics thread stores to counter.                        *)
LEMMA CounterStores ==
  ASSUME Values, Next
  PROVE  reg'.counter = reg.counter \/ (PhysCount /\ UNCHANGED driverVars)
<1> USE DEF Values, Registers
<1>1. CASE SimAction \/ SwitchAction
  BY <1>1 DEF SimAction, SimConstruct, SimReady, SimStop, SimJoin, SwitchAction,
    HostCorrupt, trigger_deadlock, trigger_corruption
<1>2. CASE DriverAction
  BY <1>2
  DEF DriverAction, CtorMap, CtorCommit, CtorSpawn, CtorHandshake, CtorSpawnFails,
    transmit, TransmitStats, receive, DtorClear, DtorStop, DtorJoin, DtorUnmap, Write
<1>3. CASE RegisterAction
  BY <1>3 DEF RegisterAction, Write
<1>4. CASE Watchdog
  BY <1>4 DEF Watchdog, WatchdogStart, WatchdogLoop, WatchdogPoll, WatchdogTrip,
    WatchdogHalt, Write
<1>5. CASE Physics /\ UNCHANGED driverVars
  <2>1. CASE PhysCheck \/ PhysGate \/ PhysLoadPtr \/ PhysPop \/ PhysFlip
    BY <2>1 DEF PhysCheck, PhysGate, PhysLoadPtr, PhysPop, PhysFlip, Write
  <2>2. CASE PhysThermal \/ PhysPublish
    BY <2>2 DEF PhysThermal, PhysPublish, Write
  <2>3. CASE PhysChaos
    BY <2>3 DEF PhysChaos, Write
  <2> QED
    BY <1>5, <2>1, <2>2, <2>3 DEF Physics
<1>6. CASE SentinelAction
  BY <1>6 DEF SentinelAction, StopJoin, start, stop, Guard, GuardLoop, GuardPoll,
    GuardTrip, Write
<1> QED
  BY <1>1, <1>2, <1>3, <1>4, <1>5, <1>6, Steps

(* The physics thread holds a popped, uncounted descriptor from its pop to *)
(* its count and at no other time.                                         *)
LEMMA HeldByPhysics ==
  ASSUME Values, Unborn, Next
  PROVE  \/ (phys'.pc = "count") <=> (phys.pc = "count")
         \/ PhysPop /\ UNCHANGED driverVars
         \/ PhysCount /\ UNCHANGED driverVars
<1> USE DEF Values, PhysicsLocals
<1>1. CASE SimConstruct
  BY <1>1 DEF SimConstruct, Unborn
<1>2. CASE Physics /\ UNCHANGED driverVars
  BY <1>2 DEF Physics, PhysCheck, PhysGate, PhysLoadPtr, PhysThermal, PhysPublish,
    PhysChaos, PhysFlip, Goto
<1> QED
  BY <1>1, <1>2, DeviceSteps

(* Nothing runs before the constructor.                                    *)
LEMMA NextUnborn ==
  ASSUME Values, Unborn, [Next]_vars
  PROVE  Unborn'
<1>1. CASE UNCHANGED vars
  BY <1>1 DEF vars, simVars, Unborn
<1>2. CASE SimAction
  BY <1>2 DEF SimAction, SimConstruct, SimReady, SimStop, SimJoin, Unborn
<1>3. CASE SwitchAction
  BY <1>3 DEF SwitchAction, HostCorrupt, trigger_deadlock, trigger_corruption, Unborn
<1>4. CASE Physics
  BY <1>4 DEF Physics, PhysCheck, PhysGate, PhysLoadPtr, PhysPop, PhysCount,
    PhysThermal, PhysPublish, PhysChaos, PhysFlip, hostFlags, Unborn
<1> QED
  BY <1>1, <1>2, <1>3, <1>4, Steps DEF RegisterAction, simVars, Unborn

(* How a step moves the seven terms: a descriptor goes from one of them to *)
(* another, where a counter may wrap, or none of them changes.             *)
Unmoved == UNCHANGED <<stats.total_packets, One(drv = "stats"), reg.counter,
                       One(phys.pc = "count"), ring, received, discarded>>
Moves ==
  \/ Unmoved
  \/ /\ ring' = ring + 1 /\ One(drv = "stats") = 0 /\ One(drv = "stats")' = 1
     /\ UNCHANGED <<stats.total_packets, reg.counter, One(phys.pc = "count"),
                    received, discarded>>
  \/ /\ stats'.total_packets = Increment(stats.total_packets)
     /\ One(drv = "stats") = 1 /\ One(drv = "stats")' = 0
     /\ UNCHANGED <<reg.counter, One(phys.pc = "count"), ring, received, discarded>>
  \/ /\ ring > 0 /\ ring' = ring - 1 /\ received' = Increment(received)
     /\ UNCHANGED <<stats.total_packets, One(drv = "stats"), reg.counter,
                    One(phys.pc = "count"), discarded>>
  \/ /\ discarded' = (discarded + ring) % WRAP /\ ring' = 0
     /\ UNCHANGED <<stats.total_packets, One(drv = "stats"), reg.counter,
                    One(phys.pc = "count"), received>>
  \/ /\ ring > 0 /\ ring' = ring - 1
     /\ One(phys.pc = "count") = 0 /\ One(phys.pc = "count")' = 1
     /\ UNCHANGED <<stats.total_packets, One(drv = "stats"), reg.counter, received, discarded>>
  \/ /\ reg'.counter = Increment(reg.counter)
     /\ One(phys.pc = "count") = 1 /\ One(phys.pc = "count")' = 0
     /\ UNCHANGED <<stats.total_packets, One(drv = "stats"), ring, received, discarded>>

(* Every step moves them in one of these ways.                             *)
LEMMA NextMoves ==
  ASSUME Values, Lifetime, Unborn, Next
  PROVE  Moves
<1>1. CASE PhysCount /\ UNCHANGED driverVars
  <2>1. UNCHANGED <<drv, stats, received, discarded, ring>>
    BY <1>1 DEF PhysCount, driverVars, shuttleVars
  <2>2. reg'.counter = Increment(reg.counter)
    BY <1>1 DEF PhysCount, Write, Values, Registers
  <2>3. phys.pc = "count" /\ phys'.pc = "pop"
    BY <1>1 DEF PhysCount, Goto, Values, PhysicsLocals
  <2> QED
    BY <2>1, <2>2, <2>3 DEF Moves, One
<1>2. CASE PhysPop /\ UNCHANGED driverVars
  <2>1. UNCHANGED <<drv, stats, received, discarded, reg>>
    BY <1>2 DEF PhysPop, driverVars
  <2>2. \/ Pop /\ phys'.pc = "count"
        \/ UNCHANGED ring /\ phys'.pc # "count"
    BY <1>2 DEF PhysPop, PopEmpty, Goto, shuttleVars, Values, PhysicsLocals
  <2>3. phys.pc = "pop"
    BY <1>2 DEF PhysPop
  <2> QED
    BY <2>1, <2>2, <2>3 DEF Moves, Unmoved, One, Pop
<1>3. CASE /\ reg'.counter = reg.counter
           /\ (phys'.pc = "count") <=> (phys.pc = "count")
           /\ UNCHANGED <<shuttleVars, driverVars>> \/ Watchdog
  <2>1. UNCHANGED <<drv, stats, received, discarded, ring>>
    BY <1>3 DEF Watchdog, WatchdogStart, WatchdogLoop, WatchdogPoll, WatchdogTrip,
      WatchdogHalt, shuttleVars, driverVars, counts
  <2> QED
    BY <1>3, <2>1 DEF Moves, Unmoved, One
<1>4. CASE /\ reg'.counter = reg.counter
           /\ (phys'.pc = "count") <=> (phys.pc = "count")
           /\ DriverAction
  <2>1. One(phys.pc = "count")' = One(phys.pc = "count")
    BY <1>4 DEF One
  <2>2. CASE transmit /\ Push
    <3>1. /\ drv = "up" /\ drv' = "stats" /\ ring' = ring + 1
          /\ UNCHANGED <<stats, received, discarded>>
      BY <2>2, CapacityAssumption DEF transmit, Push, PushFull, Values
    <3> QED
      BY <1>4, <2>1, <3>1 DEF Moves, One
  <2>3. CASE transmit /\ PushFull
    <3>1. UNCHANGED <<drv, received, discarded, ring>> /\ stats'.total_packets = stats.total_packets
      BY <2>3, CapacityAssumption DEF transmit, Push, PushFull, shuttleVars, Values
    <3> QED
      BY <1>4, <2>1, <3>1 DEF Moves, Unmoved, One
  <2>4. CASE TransmitStats
    <3>1. /\ UNCHANGED <<received, discarded, ring>> /\ drv = "stats" /\ drv' = "up"
          /\ stats'.total_packets = Increment(stats.total_packets)
      BY <2>4 DEF TransmitStats, shuttleVars, Values
    <3> QED
      BY <1>4, <2>1, <3>1 DEF Moves, One
  <2>5. CASE receive
    BY <1>4, <2>1, <2>5 DEF receive, Pop, PopEmpty, shuttleVars, Moves, Unmoved, One
  <2>6. CASE DtorUnmap
    BY <1>4, <2>1, <2>6 DEF DtorUnmap, UnmapShuttle, Moves, One
  <2>7. CASE CtorSpawnFails \/ \E s \in Shuttle : CtorMap(s)
    <3>1. ring = 0
      BY <2>7 DEF Lifetime, CtorSpawnFails, CtorMap
    <3>2. UNCHANGED <<stats, received, discarded, ring>> /\ drv # "stats" /\ drv' # "stats"
      BY <2>7, <3>1 DEF CtorSpawnFails, CtorMap, MapShuttle, UnmapShuttle, counts
    <3> QED
      BY <1>4, <2>1, <3>2 DEF Moves, Unmoved, One
  <2>8. CASE CtorCommit \/ CtorSpawn \/ CtorHandshake \/ DtorClear \/ DtorStop \/ DtorJoin
    <3>1. UNCHANGED <<stats, received, discarded, ring>> /\ drv # "stats" /\ drv' # "stats"
      BY <2>8 DEF CtorCommit, CtorSpawn, CtorHandshake, DtorClear, DtorStop, DtorJoin,
        counts, shuttleVars
    <3> QED
      BY <1>4, <2>1, <3>1 DEF Moves, Unmoved, One
  <2>9. transmit => Push \/ PushFull
    BY DEF transmit
  <2> QED
    BY <1>4, <2>2, <2>3, <2>4, <2>5, <2>6, <2>7, <2>8, <2>9 DEF DriverAction
<1> QED
  BY <1>1, <1>2, <1>3, <1>4, CounterStores, HeldByPhysics, DriverSteps

(* No move changes the congruence.                                         *)
LEMMA MovesConserve ==
  ASSUME Values, Moves, Sent % WRAP = Found % WRAP
  PROVE  Sent' % WRAP = Found' % WRAP
<1> DEFINE t == stats.total_packets
           w == One(drv = "stats")
           c == reg.counter
           y == One(phys.pc = "count")
<1>1. /\ t \in Nat /\ w \in Nat /\ c \in Nat /\ y \in Nat
      /\ ring \in Nat /\ received \in Nat /\ discarded \in Nat
  BY LayoutAssumption, CapacityAssumption DEF Values, Registers, One
<1>2. /\ Sent = t + w /\ Sent' = t' + w'
      /\ Found = c + y + ring + received + discarded
      /\ Found' = c' + y' + ring' + received' + discarded'
  BY DEF Sent, Found
<1>3. Moves = \/ UNCHANGED <<t, w, c, y, ring, received, discarded>>
              \/ /\ ring' = ring + 1 /\ w = 0 /\ w' = 1
                 /\ UNCHANGED <<t, c, y, received, discarded>>
              \/ /\ t' = (t + 1) % WRAP /\ w = 1 /\ w' = 0
                 /\ UNCHANGED <<c, y, ring, received, discarded>>
              \/ /\ ring > 0 /\ ring' = ring - 1 /\ received' = (received + 1) % WRAP
                 /\ UNCHANGED <<t, w, c, y, discarded>>
              \/ /\ discarded' = (discarded + ring) % WRAP /\ ring' = 0
                 /\ UNCHANGED <<t, w, c, y, received>>
              \/ /\ ring > 0 /\ ring' = ring - 1 /\ y = 0 /\ y' = 1
                 /\ UNCHANGED <<t, w, c, received, discarded>>
              \/ /\ c' = (c + 1) % WRAP /\ y = 1 /\ y' = 0
                 /\ UNCHANGED <<t, w, ring, received, discarded>>
  BY DEF Moves, Unmoved, Increment
<1> HIDE DEF t, w, c, y
<1>4. CASE UNCHANGED <<t, w, c, y, ring, received, discarded>>
  BY <1>2, <1>4
<1>5. CASE /\ ring' = ring + 1 /\ w = 0 /\ w' = 1
           /\ UNCHANGED <<t, c, y, received, discarded>>
  <2>1. Sent' = Sent + 1 /\ Found' = Found + 1 /\ Sent \in Nat /\ Found \in Nat
    BY <1>1, <1>2, <1>5
  <2> QED
    BY <2>1, BothGrow
<1>6. CASE /\ t' = (t + 1) % WRAP /\ w = 1 /\ w' = 0
           /\ UNCHANGED <<c, y, ring, received, discarded>>
  <2>1. Sent = (t + 1) + 0 /\ Found' = Found
    BY <1>1, <1>2, <1>6
  <2>2. t + 1 \in Nat
    BY <1>1
  <2>3. (((t + 1) % WRAP) + 0) % WRAP = ((t + 1) + 0) % WRAP
    BY <2>2, WrapThenAdd
  <2>4. Sent' = ((t + 1) % WRAP) + 0
    BY <1>2, <1>6
  <2> QED
    BY <2>1, <2>3, <2>4
<1>7. CASE /\ ring > 0 /\ ring' = ring - 1 /\ received' = (received + 1) % WRAP
           /\ UNCHANGED <<t, w, c, y, discarded>>
  <2> DEFINE b == c + y + (ring - 1) + discarded
  <2>1. b \in Nat /\ received + 1 \in Nat /\ (received + 1) % WRAP \in Nat
    BY <1>1, <1>7, WrapRange, LayoutAssumption
  <2>2. Found = (received + 1) + b /\ Sent' = Sent
    BY <1>1, <1>2, <1>7
  <2>3. Found' = ((received + 1) % WRAP) + b
    BY <1>1, <1>2, <1>7, <2>1
  <2> HIDE DEF b
  <2>4. (((received + 1) % WRAP) + b) % WRAP = ((received + 1) + b) % WRAP
    BY <2>1, WrapThenAdd
  <2> QED
    BY <2>2, <2>3, <2>4
<1>8. CASE /\ discarded' = (discarded + ring) % WRAP /\ ring' = 0
           /\ UNCHANGED <<t, w, c, y, received>>
  <2> DEFINE b == c + y + received
  <2>1. b \in Nat /\ discarded + ring \in Nat /\ (discarded + ring) % WRAP \in Nat
    BY <1>1, WrapRange, LayoutAssumption
  <2>2. Found = (discarded + ring) + b /\ Sent' = Sent
    BY <1>1, <1>2, <1>8
  <2>3. Found' = ((discarded + ring) % WRAP) + b
    BY <1>1, <1>2, <1>8, <2>1
  <2> HIDE DEF b
  <2>4. (((discarded + ring) % WRAP) + b) % WRAP = ((discarded + ring) + b) % WRAP
    BY <2>1, WrapThenAdd
  <2> QED
    BY <2>2, <2>3, <2>4
<1>9. CASE /\ ring > 0 /\ ring' = ring - 1 /\ y = 0 /\ y' = 1
           /\ UNCHANGED <<t, w, c, received, discarded>>
  BY <1>1, <1>2, <1>9
<1>10. CASE /\ c' = (c + 1) % WRAP /\ y = 1 /\ y' = 0
            /\ UNCHANGED <<t, w, ring, received, discarded>>
  <2> DEFINE b == ring + received + discarded
  <2>1. b \in Nat /\ c + 1 \in Nat /\ (c + 1) % WRAP \in Nat
    BY <1>1, WrapRange, LayoutAssumption
  <2>2. Found = (c + 1) + b /\ Sent' = Sent
    BY <1>1, <1>2, <1>10
  <2>3. Found' = ((c + 1) % WRAP) + b
    BY <1>1, <1>2, <1>10, <2>1
  <2> HIDE DEF b
  <2>4. (((c + 1) % WRAP) + b) % WRAP = ((c + 1) + b) % WRAP
    BY <2>1, WrapThenAdd
  <2> QED
    BY <2>2, <2>3, <2>4
<1> QED
  BY <1>3, <1>4, <1>5, <1>6, <1>7, <1>8, <1>9, <1>10

(* No descriptor is lost or counted twice between transmit(), the ring,    *)
(* receive() and the device, whatever the order of the host's and the      *)
(* device's steps and although every counter wraps around.                 *)
THEOREM Conserved == Spec => []Conservation
<1> DEFINE Inv == /\ Values /\ Lifetime /\ WatchdogWithinDriver /\ Unborn
                  /\ Sent % WRAP = Found % WRAP
<1>1. Init => Inv
  <2> SUFFICES ASSUME Init PROVE Inv
    OBVIOUS
  <2>1. Lifetime /\ WatchdogWithinDriver /\ Unborn
    BY DEF Init, NoShuttle, SimInit, DriverInit, Lifetime, WatchdogWithinDriver, Unborn
  <2>2. Sent = 0 /\ Found = 0
    BY DEF Init, NoShuttle, SimInit, DriverInit, ZeroedRegisters, Sent, Found, One
  <2> QED
    BY <2>1, <2>2, InitValues
<1>2. Inv /\ [Next]_vars => Inv'
  <2> SUFFICES ASSUME Inv, [Next]_vars PROVE Inv'
    OBVIOUS
  <2>1. Values' /\ Lifetime' /\ WatchdogWithinDriver' /\ Unborn'
    BY NextValues, NextLifetime, NextUnborn
  <2>2. CASE Next
    BY <2>1, <2>2, NextMoves, MovesConserve
  <2>3. CASE UNCHANGED vars
    <3>1. Sent' = Sent /\ Found' = Found
      BY <2>3 DEF vars, simVars, driverVars, shuttleVars, Sent, Found, One
    <3> QED
      BY <2>1, <3>1
  <2> QED
    BY <2>2, <2>3
<1>3. Inv => Conservation
  BY DEF Conservation, Sent, Found
<1> QED
  BY <1>1, <1>2, <1>3, PTL DEF Spec

-----------------------------------------------------------------------------
(* The waits                                                               *)

(* The host waits in four places; whom it waits for has been started, has  *)
(* been told to stop where it has to, and has not gone already.            *)
DriverWaits ==
  /\ drv \in {"handshake", "up", "stats", "stop", "join"} => wd # "none"
  /\ drv = "handshake" => wd = "start" \/ m_watchdog_ready
  /\ drv = "join" => ~m_run_watchdog

SentinelWaits == stopping => ~m_running /\ guard # "none"

DeviceWaits ==
  /\ sim = "boot" <=> phys.pc = "off"
  /\ sim \in {"boot", "await"} => ~m_corrupt_status /\ m_run_sim
  /\ sim = "await" => phys.pc = "check" \/ reg.status # 0
  /\ sim = "joining" => ~m_run_sim /\ drv = "none"

Waits == DriverWaits /\ SentinelWaits /\ DeviceWaits

(* Bounds on the steps of the three threads once they are told to stop.    *)
WatchdogLeft ==
  IF wd = "poll" THEN 3 ELSE IF wd \in {"start", "trip"} THEN 2
  ELSE IF wd \in {"loop", "halt"} THEN 1 ELSE 0

GuardLeft ==
  IF guard = "poll" THEN 2 ELSE IF guard \in {"loop", "trip"} THEN 1 ELSE 0

PhysicsLeft ==
  IF phys.pc = "gate" THEN 8 ELSE IF phys.pc \in {"dma", "count"} THEN 7
  ELSE IF phys.pc = "pop" THEN 6 ELSE IF phys.pc = "thermal" THEN 5
  ELSE IF phys.pc = "publish" THEN 4 ELSE IF phys.pc = "chaos" THEN 3
  ELSE IF phys.pc = "flip" THEN 2 ELSE IF phys.pc = "check" THEN 1 ELSE 0

(* While the host waits for a thread each step of that thread brings the   *)
(* end of the wait nearer and no other step puts it off.  The device may   *)
(* instead end everything: it may still be popping a ring that is gone.    *)
Nearer ==
  /\ drv = "join" =>
       /\ Watchdog => WatchdogLeft' < WatchdogLeft
       /\ WatchdogLeft' <= WatchdogLeft
  /\ stopping =>
       /\ Guard => GuardLeft' < GuardLeft
       /\ GuardLeft' <= GuardLeft
  /\ sim = "joining" =>
       /\ Physics => PhysicsLeft' < PhysicsLeft \/ fault' # "none"
       /\ PhysicsLeft' <= PhysicsLeft

(* The watchdog is started by the constructor and told to stop by the      *)
(* destructor, whether or not it has tripped.                              *)
LEMMA NextDriverWaits ==
  ASSUME Values, DriverWaits, [Next]_vars
  PROVE  DriverWaits'
<1> USE DEF DriverWaits
<1>1. CASE UNCHANGED <<shuttleVars, driverVars>>
  BY <1>1 DEF driverVars, flags
<1>2. CASE DriverAction
  BY <1>2 DEF DriverAction, CtorMap, CtorCommit, CtorSpawn, CtorHandshake, CtorSpawnFails, transmit,
    TransmitStats, receive, DtorClear, DtorStop, DtorJoin, DtorUnmap, flags
<1>3. CASE Watchdog
  BY <1>3 DEF Watchdog, WatchdogStart, WatchdogLoop, WatchdogPoll, WatchdogTrip, WatchdogHalt,
    flags
<1>4. CASE UNCHANGED driverVars
  BY <1>4 DEF driverVars, flags
<1> QED
  BY <1>1, <1>2, <1>3, <1>4, DriverSteps

(* stop() finds a thread to join or returns at once.                       *)
LEMMA NextSentinelWaits ==
  ASSUME Values, SentinelWaits, [Next]_vars
  PROVE  SentinelWaits'
<1> USE DEF SentinelWaits
<1>1. CASE UNCHANGED sentinelVars
  BY <1>1 DEF sentinelVars
<1>2. CASE SentinelAction
  BY <1>2 DEF SentinelAction, StopJoin, start, stop, Guard, GuardLoop, GuardPoll, GuardTrip
<1> QED
  BY <1>1, <1>2, Steps DEF RegisterAction, vars

(* How the physics thread moves on.                                        *)
PhysicsMove ==
  \/ phys.pc = "check" /\ phys'.pc = "gate" /\ m_run_sim
  \/ phys.pc = "check" /\ phys'.pc = "exited" /\ ~m_run_sim
  \/ phys.pc = "gate" /\ phys'.pc \in {"check", "dma"}
  \/ phys.pc = "dma" /\ phys'.pc \in {"pop", "thermal"}
  \/ phys.pc = "pop" /\ phys'.pc = "count" /\ Live(phys.addr)
  \/ phys.pc = "pop" /\ phys'.pc = "thermal"
  \/ phys.pc = "pop" /\ phys'.pc = "pop" /\ fault' # "none"
  \/ phys.pc = "count" /\ phys'.pc = "pop"
  \/ phys.pc = "thermal" /\ phys'.pc = "publish"
  \/ phys.pc = "publish" /\ phys'.pc = "chaos"
  \/ phys.pc = "chaos" /\ phys'.pc = "check"
  \/ phys.pc = "chaos" /\ phys'.pc = "flip" /\ m_corrupt_status
  \/ phys.pc = "flip" /\ phys'.pc = "check"

(* It owns none of the host's flags.                                       *)
LEMMA PhysicsMoves ==
  ASSUME Values, Physics
  PROVE  PhysicsMove /\ UNCHANGED hostFlags
<1>0. DOMAIN phys = {"pc", "addr", "m_last_valid_shuttle", "corrupted", "m_current_temp_mc"}
  BY DEF Values, PhysicsLocals
<1>a. ASSUME NEW c, phys' = [phys EXCEPT !.pc = c] PROVE phys'.pc = c
  BY <1>0, <1>a
<1>b. ASSUME NEW c, NEW a, phys' = [phys EXCEPT !.pc = c, !.corrupted = a] PROVE phys'.pc = c
  BY <1>0, <1>b
<1>c. ASSUME NEW c, NEW a, phys' = [phys EXCEPT !.pc = c, !.m_current_temp_mc = a]
      PROVE  phys'.pc = c
  BY <1>0, <1>c
<1>d. ASSUME NEW c, NEW a, NEW l,
             phys' = [phys EXCEPT !.pc = c, !.addr = a, !.m_last_valid_shuttle = l]
      PROVE  phys'.pc = c
  BY <1>0, <1>d
<1>1. CASE PhysCheck
  BY <1>a, <1>1, Zenon DEF PhysCheck, Goto, PhysicsMove
<1>2. CASE PhysGate
  <2>1. phys.pc = "gate" /\ UNCHANGED hostFlags
    BY <1>2 DEF PhysGate
  <2>2. Goto("check") \/ Goto("dma")
    BY <1>2, Zenon DEF PhysGate
  <2> QED
    BY <1>a, <2>1, <2>2, Zenon DEF Goto, PhysicsMove
<1>3. CASE PhysLoadPtr
  <2>1. phys.pc = "dma" /\ UNCHANGED hostFlags
    BY <1>3 DEF PhysLoadPtr
  <2>2. \/ \E a, l : phys' = [phys EXCEPT !.pc = "pop", !.addr = a, !.m_last_valid_shuttle = l]
        \/ phys' = [phys EXCEPT !.pc = "thermal"]
    BY <1>3, Zenon DEF PhysLoadPtr
  <2> QED
    BY <1>a, <1>d, <2>1, <2>2, Zenon DEF PhysicsMove
<1>4. CASE PhysPop
  <2>1. phys.pc = "pop" /\ UNCHANGED hostFlags
    BY <1>4 DEF PhysPop
  <2>2. \/ Live(phys.addr) /\ Goto("count")
        \/ Goto("thermal")
        \/ fault' # "none" /\ phys' = phys
    BY <1>4 DEF PhysPop
  <2> QED
    BY <1>a, <2>1, <2>2, Zenon DEF Goto, PhysicsMove
<1>5. CASE PhysCount \/ PhysPublish
  BY <1>a, <1>5, Zenon DEF PhysCount, PhysPublish, Goto, PhysicsMove
<1>6. CASE PhysThermal
  <2>1. phys.pc = "thermal" /\ UNCHANGED hostFlags
    BY <1>6 DEF PhysThermal
  <2>2. \E a : phys' = [phys EXCEPT !.pc = "publish", !.m_current_temp_mc = a]
    BY <1>6, Zenon DEF PhysThermal
  <2> QED
    BY <1>c, <2>1, <2>2, Zenon DEF PhysicsMove
<1>7. CASE PhysChaos
  <2>1. phys.pc = "chaos" /\ UNCHANGED hostFlags
    BY <1>7, Zenon DEF PhysChaos
  <2>2. \/ Goto("check")
        \/ m_corrupt_status /\ \E a : phys' = [phys EXCEPT !.pc = "flip", !.corrupted = a]
    BY <1>7, Zenon DEF PhysChaos
  <2> QED
    BY <1>a, <1>b, <2>1, <2>2, Zenon DEF Goto, PhysicsMove
<1>8. CASE PhysFlip
  <2>1. phys.pc = "flip" /\ UNCHANGED hostFlags
    BY <1>8 DEF PhysFlip
  <2>2. \E a : phys' = [phys EXCEPT !.pc = "check", !.corrupted = a]
    BY <1>8, Zenon DEF PhysFlip
  <2> QED
    BY <1>b, <2>1, <2>2, Zenon DEF PhysicsMove
<1> QED
  BY <1>1, <1>2, <1>3, <1>4, <1>5, <1>6, <1>7, <1>8 DEF Physics

(* The device's constructor waits for a first status that nothing clears,  *)
(* its destructor for a thread whose ring is gone.                         *)
LEMMA NextDeviceWaits ==
  ASSUME Values, DeviceWaits, [Next]_vars
  PROVE  DeviceWaits'
<1>0. reg \in Registers /\ phys \in PhysicsLocals
  BY DEF Values
<1> USE DEF DeviceWaits
<1>1. CASE UNCHANGED vars
  BY <1>1 DEF vars, simVars, driverVars
<1>2. CASE SimAction /\ UNCHANGED driverVars
  BY <1>0, <1>2 DEF SimAction, SimConstruct, SimReady, SimStop, SimJoin, PhysicsLocals,
    driverVars
<1>3. CASE DriverAction /\ UNCHANGED simVars
  <2>1. /\ UNCHANGED <<sim, m_run_sim, m_corrupt_status, phys>>
    BY <1>3 DEF simVars
  <2>2. sim = "joining" => drv' = "none"
    BY <1>3 DEF DriverAction, CtorMap, CtorCommit, CtorSpawn, CtorHandshake, CtorSpawnFails,
      transmit, TransmitStats, receive, DtorClear, DtorStop, DtorJoin, DtorUnmap
  <2>3. reg'.status = reg.status
    BY <1>0, <1>3 DEF DriverAction, CtorMap, CtorCommit, CtorSpawn, CtorHandshake, CtorSpawnFails,
      transmit, TransmitStats, receive, DtorClear, DtorStop, DtorJoin, DtorUnmap, Write, Registers
  <2> QED
    BY <2>1, <2>2, <2>3
<1>4. CASE SwitchAction /\ UNCHANGED driverVars
  BY <1>4 DEF SwitchAction, HostCorrupt, HostFree, trigger_deadlock, trigger_corruption, driverVars
<1>5. CASE RegisterAction \/ (Watchdog /\ UNCHANGED simVars)
           \/ (SentinelAction /\ UNCHANGED <<shuttleVars, simVars, driverVars>>)
  <2>1. UNCHANGED <<sim, m_run_sim, m_corrupt_status, phys, drv>>
    BY <1>5 DEF RegisterAction, simVars, driverVars, Watchdog, WatchdogStart, WatchdogLoop,
      WatchdogPoll, WatchdogTrip, WatchdogHalt
  <2>2. reg'.status = reg.status
    BY <1>0, <1>5 DEF RegisterAction, Watchdog, WatchdogStart, WatchdogLoop, WatchdogPoll,
      WatchdogTrip, WatchdogHalt, SentinelAction, StopJoin, start, stop, Guard, GuardLoop,
      GuardPoll, GuardTrip, Write, Registers
  <2> QED
    BY <2>1, <2>2
<1>6. CASE Physics /\ UNCHANGED driverVars
  <2>1. PhysicsMove /\ UNCHANGED hostFlags
    BY <1>6, PhysicsMoves
  <2>2. UNCHANGED <<sim, m_run_sim, m_corrupt_status, drv>>
    BY <1>6, <2>1 DEF hostFlags, driverVars
  <2>3. phys.pc # "off" /\ phys'.pc # "off"
    BY <2>1 DEF PhysicsMove
  <2>4. sim = "await" => phys'.pc = "check" \/ reg'.status # 0
    <3>1. CASE PhysCheck
      <4>1. m_run_sim => reg'.status = 1
        BY <1>0, <3>1 DEF PhysCheck, Write, Registers
      <4> QED
        BY <4>1
    <3>2. CASE ~PhysCheck
      <4>1. CASE PhysChaos
        <5>1. ~m_corrupt_status => Goto("check")
          BY <4>1, Zenon DEF PhysChaos
        <5>2. Goto("check") => phys'.pc = "check"
          BY <1>0 DEF Goto, PhysicsLocals
        <5> QED
          BY <5>1, <5>2
      <4>2. CASE \/ PhysGate \/ PhysLoadPtr \/ PhysPop \/ PhysCount \/ PhysThermal \/ PhysPublish
                 \/ PhysFlip
        <5>1. reg'.status = reg.status /\ phys.pc # "check"
          BY <1>0, <4>2 DEF PhysGate, PhysLoadPtr, PhysPop, PhysCount, PhysThermal, PhysPublish,
            PhysFlip, Write, Registers
        <5> QED
          BY <5>1
      <4> QED
        BY <1>6, <3>2, <4>1, <4>2 DEF Physics
    <3> QED
      BY <3>1, <3>2
  <2> QED
    BY <2>2, <2>3, <2>4
<1> QED
  BY <1>1, <1>2, <1>3, <1>4, <1>5, <1>6, Steps

(* Told to stop, the watchdog comes to its end in at most three steps.     *)
LEMMA WatchdogEnds ==
  ASSUME Values, DriverWaits, [Next]_vars, drv = "join"
  PROVE  /\ Watchdog => WatchdogLeft' < WatchdogLeft
         /\ WatchdogLeft' <= WatchdogLeft
<1>0. ~m_run_watchdog
  BY DEF DriverWaits
<1>1. ASSUME Watchdog PROVE WatchdogLeft' < WatchdogLeft
  BY <1>0, <1>1 DEF Watchdog, WatchdogStart, WatchdogLoop, WatchdogPoll, WatchdogTrip,
    WatchdogHalt, WatchdogLeft
<1>2. WatchdogLeft \in Nat /\ WatchdogLeft' \in Nat
  BY DEF WatchdogLeft
<1>3. ASSUME DriverAction PROVE wd' = "none" \/ wd' = wd
  BY <1>3 DEF DriverAction, CtorMap, CtorCommit, CtorSpawn, CtorHandshake, CtorSpawnFails,
    transmit, TransmitStats, receive, DtorClear, DtorStop, DtorJoin, DtorUnmap
<1>4. ASSUME wd' = "none" \/ wd' = wd PROVE WatchdogLeft' <= WatchdogLeft
  BY <1>4 DEF WatchdogLeft
<1>5. UNCHANGED driverVars => wd' = wd
  BY DEF driverVars
<1> QED
  BY <1>1, <1>2, <1>3, <1>4, <1>5, DriverSteps

(* So does the sentinel's thread, in at most two.                          *)
LEMMA GuardEnds ==
  ASSUME Values, SentinelWaits, [Next]_vars, stopping
  PROVE  /\ Guard => GuardLeft' < GuardLeft
         /\ GuardLeft' <= GuardLeft
<1>0. ~m_running
  BY DEF SentinelWaits
<1>1. ASSUME Guard PROVE GuardLeft' < GuardLeft
  <2>1. \/ guard = "loop" /\ guard' = "exited"
        \/ guard = "poll" /\ guard' = "trip"
        \/ guard = "poll" /\ guard' = "loop"
        \/ guard = "trip" /\ guard' = "exited"
    BY <1>0, <1>1, Zenon DEF Guard, GuardLoop, GuardPoll, GuardTrip
  <2> QED
    BY <2>1 DEF GuardLeft
<1>2. GuardLeft \in Nat /\ GuardLeft' \in Nat
  BY DEF GuardLeft
<1>3. ASSUME SentinelAction PROVE Guard \/ guard' = "none"
  BY <1>3 DEF SentinelAction, StopJoin, start, stop
<1>4. ASSUME guard' = "none" \/ guard' = guard PROVE GuardLeft' <= GuardLeft
  BY <1>4 DEF GuardLeft
<1>5. UNCHANGED sentinelVars => guard' = guard
  BY DEF sentinelVars
<1>6. SentinelAction \/ UNCHANGED sentinelVars
  BY Steps DEF RegisterAction, vars
<1> QED
  BY <1>1, <1>2, <1>3, <1>4, <1>5, <1>6

(* And the physics thread in at most eight: the ring it may still be       *)
(* draining is gone with the driver, so it finds no further descriptor.    *)
LEMMA PhysicsEnds ==
  ASSUME Values, Lifetime, DeviceWaits, [Next]_vars, sim = "joining"
  PROVE  /\ Physics => PhysicsLeft' < PhysicsLeft \/ fault' # "none"
         /\ PhysicsLeft' <= PhysicsLeft
<1>0. ~m_run_sim /\ ~Live(phys.addr)
  BY DEF DeviceWaits, Lifetime, Live
<1>1. ASSUME Physics
      PROVE  \/ PhysicsLeft' < PhysicsLeft
             \/ PhysicsLeft' = PhysicsLeft /\ fault' # "none"
  <2>1. PhysicsMove
    BY <1>1, PhysicsMoves
  <2> QED
    BY <1>0, <2>1 DEF PhysicsMove, PhysicsLeft
<1>2. PhysicsLeft \in Nat /\ PhysicsLeft' \in Nat
  BY DEF PhysicsLeft
<1>3. ~SimConstruct
  BY DEF SimConstruct
<1>4. ASSUME phys' = phys PROVE PhysicsLeft' = PhysicsLeft
  BY <1>4 DEF PhysicsLeft
<1>5. Physics \/ phys' = phys
  BY <1>3, DeviceSteps
<1> QED
  BY <1>1, <1>2, <1>4, <1>5

(* What the absence of deadlock and the return of stop() rest on: whoever  *)
(* the host waits for is there, has been told, and gets nearer to its end  *)
(* with each of its steps.                                                 *)
THEOREM WaitsEnd == Spec => []Waits /\ [][Nearer]_vars
<1>1. Init => Lifetime /\ WatchdogWithinDriver /\ Waits
  BY DEF Init, NoShuttle, DriverInit, SimInit, SentinelInit, Lifetime, WatchdogWithinDriver,
    Waits, DriverWaits, SentinelWaits, DeviceWaits
<1>2. /\ Values /\ Lifetime /\ WatchdogWithinDriver /\ [Next]_vars
      => Lifetime' /\ WatchdogWithinDriver'
  BY NextLifetime
<1>3. Values /\ Waits /\ [Next]_vars => Waits'
  BY NextDriverWaits, NextSentinelWaits, NextDeviceWaits DEF Waits
<1>4. Values /\ Lifetime /\ Waits /\ [Next]_vars => Nearer
  BY WatchdogEnds, GuardEnds, PhysicsEnds, Zenon DEF Waits, Nearer
<1>5. Values /\ [Next]_vars => Values'
  BY NextValues
<1> QED
  BY <1>1, <1>2, <1>3, <1>4, <1>5, InitValues, PTL DEF Spec

=============================================================================
