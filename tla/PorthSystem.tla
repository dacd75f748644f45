---------------------------- MODULE PorthSystem ----------------------------
(***************************************************************************)
(* A host program, a Driver, a PorthSentinel and the digital twin.         *)
(*                                                                         *)
(* Four threads share the registers and the shuttle: the host thread,      *)
(* which constructs the device, then drivers one after the other, calls    *)
(* their methods and starts and stops the sentinel; the watchdog thread of *)
(* the current driver; the sentinel's; and the physics thread of the       *)
(* device.  A dereference of memory that is not the live ring is undefined *)
(* behaviour and ends the behaviour (fault), as std::terminate does.       *)
(***************************************************************************)
EXTENDS PorthSimDevice, PorthDriver, PorthSentinel

CONSTANT Programs   \* the host programs considered, each given by what it does
                    \* besides constructing and destroying device and drivers

ASSUME ProgramsAssumption ==
  Programs \subseteq SUBSET {"transmit", "receive", "receiveAlone", "control",
                             "deadlock", "corrupt", "spawnFails", "chaosTool",
                             "powerOn", "sentinel"}

VARIABLE program   \* the host program that runs; never changes

vars == <<program, reg, shuttleVars, simVars, driverVars, sentinelVars>>

Init ==
  /\ program \in Programs
  /\ reg = ZeroedRegisters
  /\ NoShuttle
  /\ SimInit
  /\ DriverInit
  /\ SentinelInit

(* The host thread is outside the library's code.                          *)
HostFree == sim = "live" /\ drv \in {"none", "up"} /\ ~stopping

(* Device and drivers are constructed and destroyed like nested objects;   *)
(* a sentinel is stopped before the device it watches goes.                *)
HostLifecycle ==
  \/ drv = "none" /\ guard = "none" /\ (SimConstruct \/ SimReady \/ SimStop \/ SimJoin) /\ UNCHANGED driverVars
  \/ sim = "live" /\ (\E s \in Shuttle : CtorMap(s)) /\ UNCHANGED simVars
  \/ (DriverProceeds \/ DtorClear) /\ UNCHANGED simVars
  \/ "spawnFails" \in program /\ CtorSpawnFails /\ UNCHANGED simVars

(* No other consumer is in the ring while the physics thread is held at    *)
(* its deadlock gate.                                                      *)
DeviceHeld == m_inject_deadlock /\ phys.pc \in {"check", "gate"}

HostTransmit == "transmit" \in program /\ transmit /\ UNCHANGED simVars

HostReceive ==
  /\ \/ "receive" \in program
     \/ "receiveAlone" \in program /\ DeviceHeld
  /\ receive
  /\ UNCHANGED simVars

(* PorthRegister::write() or write_reg() on the control register.          *)
HostControl(c) ==
  /\ "control" \in program \/ ("powerOn" \in program /\ c = 1)
  /\ HostFree
  /\ Write("control", c)
  /\ UNCHANGED <<shuttleVars, simVars, driverVars>>

HostDeadlock(active) ==
  /\ "deadlock" \in program
  /\ HostFree
  /\ trigger_deadlock(active)
  /\ UNCHANGED driverVars

HostCorrupt(active) ==
  /\ "corrupt" \in program
  /\ HostFree
  /\ trigger_corruption(active)
  /\ UNCHANGED driverVars

(* tools/porth-chaos.cpp, another process that maps the registers: a       *)
(* thermal spike, or the power rail dropped.                               *)
ChaosTool ==
  /\ "chaosTool" \in program
  /\ sim = "live"
  /\ Write("laser_temp", LIMIT_MC + 1) \/ Write("control", 0)
  /\ UNCHANGED <<shuttleVars, simVars, driverVars>>

(* tests/test_safety_trip.cpp: the host starts and stops a sentinel.       *)
HostSentinel ==
  /\ "sentinel" \in program
  /\ StopJoin \/ (HostFree /\ (start \/ stop))
  /\ UNCHANGED <<shuttleVars, simVars, driverVars>>

Host == \/ HostLifecycle
        \/ HostTransmit
        \/ HostReceive
        \/ \E c \in {0, 1} : HostControl(c)
        \/ \E active \in BOOLEAN : HostDeadlock(active) \/ HostCorrupt(active)

Running == fault = "none" /\ ~terminated

Next == /\ Running
        /\ UNCHANGED program
        /\ \/ ~stopping /\ Host /\ UNCHANGED sentinelVars
           \/ ChaosTool /\ UNCHANGED sentinelVars
           \/ Watchdog /\ UNCHANGED <<simVars, sentinelVars>>
           \/ Physics /\ UNCHANGED <<driverVars, sentinelVars>>
           \/ HostSentinel
           \/ Guard /\ UNCHANGED <<shuttleVars, simVars, driverVars>>

Spec == Init /\ [][Next]_vars

(* The scheduler runs every thread that can run; a host thread inside the  *)
(* library's code leaves it, but what it calls next is up to the program.  *)
Fairness ==
  /\ WF_vars(Running /\ Physics /\ UNCHANGED <<program, driverVars, sentinelVars>>)
  /\ WF_vars(Running /\ Watchdog /\ UNCHANGED <<program, simVars, sentinelVars>>)
  /\ WF_vars(Running /\ DriverProceeds /\ UNCHANGED <<program, simVars, sentinelVars>>)
  /\ WF_vars(Running /\ (SimReady \/ SimJoin) /\ UNCHANGED <<program, driverVars, sentinelVars>>)
  /\ WF_vars(Running /\ (Guard \/ StopJoin) /\ UNCHANGED <<program, shuttleVars, simVars, driverVars>>)

FairSpec == Spec /\ Fairness

-----------------------------------------------------------------------------
(* Safety                                                                  *)

(* Every register and every thread is where the code can be.               *)
TypeOK ==
  /\ reg \in Registers
  /\ shuttle \in Shuttle \union {None} /\ ring \in 0..CAPACITY
  /\ program \in Programs
  /\ SimTypeOK
  /\ DriverTypeOK
  /\ SentinelTypeOK

One(condition) == IF condition THEN 1 ELSE 0

(* No descriptor is lost or counted twice between transmit(), the ring and *)
(* the device: what the statistics say was sent, plus a transmit() that    *)
(* has not counted yet, is what the device counted or is about to, what    *)
(* receive() took, what is queued and what a teardown discarded, although  *)
(* the five are updated by two threads in separate steps and wrap around.  *)
Conservation ==
  Running =>
    (stats.total_packets + One(drv = "stats")) % WRAP
      = (reg.counter + One(phys.pc = "count") + ring + received + discarded) % WRAP

(* However data_ptr is corrupted, a device that has latched the address of *)
(* a shuttle never dereferences an address that is none's.  One that       *)
(* corruption reaches before its first shuttle may: it latches what it     *)
(* then finds.                                                             *)
NoWildAccess ==
  phys.m_last_valid_shuttle \in {AddrOf(s) : s \in Shuttle} => fault # "wild"

(* process_dma() never enters the pop loop of a ring that is already       *)
(* unmapped: the destructor's write of 0 to data_ptr precedes the unmap.   *)
(* Corruption and a failed constructor do leave such an address behind.    *)
AcceptsOnlyLive ==
  [][ /\ program \intersect {"corrupt", "spawnFails"} = {}
      /\ phys.pc = "dma" /\ phys'.pc = "pop"
      => Live(phys'.addr)]_vars

(* The watchdog thread, which uses the Driver through its this pointer,    *)
(* runs only while that object exists.                                     *)
WatchdogWithinDriver ==
  wd \notin {"none", "exited"} => drv \notin {"none", "commit", "spawn", "unmap"}

-----------------------------------------------------------------------------
(* Liveness                                                                *)

(* The constructors return and the destructors join: the host always gets  *)
(* back out of the library.                                                *)
HostNeverStuck ==
  []<>(~Running \/ HostFree \/ sim \in {"boot", "gone"})

(* The physics thread gets out of its pop loop unless the host feeds the   *)
(* ring for ever.                                                          *)
PhysicsUnlessFed ==
  \/ []<>(~Running \/ m_inject_deadlock \/ phys.pc \in {"off", "thermal", "exited"})
  \/ []<>(drv = "stats")

(* A ring with something in it is served unless the deadlock is injected.  *)
Serviced == []<>(~Running \/ m_inject_deadlock \/ ring = 0 \/ phys.pc = "count")

(* A chip that stays powered on under an armed watchdog is tripped, unless *)
(* its physics thread publishes no temperature any more: the watchdog sees *)
(* nothing else, so an injected deadlock or a ring that is fed for ever    *)
(* leaves the chip powered.  A host that keeps the driver busy does not.   *)
Armed == wd \in {"start", "loop", "poll"}
WatchdogTrips ==
  <>[](Running /\ Armed /\ reg.control = 1) => <>[](phys.pc # "publish")

(* Likewise a sentinel does not go on watching a chip that stays powered   *)
(* on and publishes its temperature: it trips, again after every restart.  *)
Watching == m_running /\ guard \in {"loop", "poll"}
SentinelTrips ==
  <>[](Running /\ Watching /\ reg.control = 1) => <>[](phys.pc # "publish")

(* stop() returns, whether the sentinel has tripped or not.                *)
StopReturns == stopping ~> (~Running \/ ~stopping)

-----------------------------------------------------------------------------
(* What the repository says of the program and the program does not do     *)

(* "By writing 0, we force the DMA engine to halt BEFORE the Shuttle (and  *)
(* its underlying pinned memory) is destroyed" (~Driver).                  *)
HaltsBeforeUnmap == fault # "unmapped"

(* "receive: Retrieves a descriptor processed by the hardware."            *)
ReceivesProcessed == received <= reg.counter

(* "Write 0xDEADBEEF to trigger an immediate hardware-level shutdown"      *)
(* (safety_trip in PorthDeviceLayout.hpp): a tripped device powers down.   *)
TripShutsDown ==
  (reg.safety_trip = TRIP_CODE) ~> (~Running \/ sim # "live" \/ reg.gan_voltage = 0)
=============================================================================
