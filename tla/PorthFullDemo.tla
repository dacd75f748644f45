---------------------------- MODULE PorthFullDemo ---------------------------
(***************************************************************************)
(* examples/porth_full_demo.cpp: the whole engine as one program, over the *)
(* digital twin or over VFIO hardware.  Every acquisition may fail; a      *)
(* throw unwinds the objects constructed so far, last one first, and so    *)
(* does the end of main().  The engine may be killed at any step and       *)
(* started again, next to a porth_stat that comes and goes.                *)
(*                                                                         *)
(* live is the stack of constructed objects, thrown the step that threw.   *)
(***************************************************************************)
EXTENDS PorthHugePage, PorthVFIODevice, PorthXDPPortal, PorthMetric, PorthTelemetry

CONSTANTS RING,         \* descriptors that fit in the shuttle's ring
          HANDSHAKE_TIMEOUT, ITERATIONS, Latency,
          MaxRuns       \* bound on the runs of the engine

ASSUME DemoAssumption ==
  /\ {RING, HANDSHAKE_TIMEOUT, ITERATIONS, MaxRuns} \subseteq Nat \ {0}
  /\ Latency \subseteq Nat /\ Latency # {}
  /\ ITERATIONS <= MetricCapacity   \* main() makes room for a sample per round

VARIABLES pc, live, thrown, runs,
          found,       \* history: the object under the telemetry name when the run began
          status,      \* the device's status register
          ring,        \* descriptors queued for the device
          timeout_ms, m_samples

main == <<pc, live, thrown>>
session == <<runs, found>>
work == <<timeout_ms, m_samples>>
device == <<status, ring>>
vars == <<main, session, work, device, page, vfioVars, xdp, telemetry>>

Ended == {"exited", "killed", "crashed"}
One(condition) == IF condition THEN 1 ELSE 0

Init ==
  /\ PageInit /\ VfioInit /\ XdpInit /\ TelemetryInit
  /\ pc = "idle" /\ live = << >> /\ thrown = "none" /\ runs = 0 /\ found = NoObject
  /\ status = 0 /\ ring = 0 /\ timeout_ms = 0 /\ m_samples = << >>

At(step) == pc = step
Goto(step) == pc' = step /\ UNCHANGED <<live, thrown>>

Construct(object, step) == live' = Append(live, object) /\ pc' = step /\ UNCHANGED thrown
Throw == pc' = "unwind" /\ thrown' = pc /\ UNCHANGED live

(* A run begins in a new process; with a PCI address on the command line   *)
(* it drives hardware, without one the twin.                               *)
Start ==
  /\ pc \in Ended \cup {"idle"} /\ runs < MaxRuns
  /\ runs' = runs + 1 /\ found' = link /\ pc' \in {"twin", "vfio"} /\ live' = << >> /\ thrown' = "none"
  /\ m_ptr' = "none" /\ m_is_numa_managed' = FALSE /\ m_is_mmaped' = FALSE
  /\ vfio' = {} /\ call' = 0 /\ m_umem' = FALSE /\ m_xsk' = FALSE
  /\ status' = 0 /\ ring' = 0 /\ timeout_ms' = 0 /\ m_samples' = << >>
  /\ UNCHANGED <<misfreed, telemetry>>

(* PorthSimDevice returns from its constructor once the twin is ready.     *)
TwinUp ==
  /\ At("twin")
  /\ \/ Construct("twin", "alloc") /\ status' = 1
     \/ Throw /\ UNCHANGED status
  /\ UNCHANGED <<session, work, ring, page, vfioVars, xdp, telemetry>>

VfioUp ==
  /\ At("vfio")
  /\ \/ /\ VfioCall
        /\ IF call' = Len(Calls) THEN Construct("vfio", "alloc") ELSE Goto("vfio")
     \/ Throw /\ UNCHANGED vfioVars
  /\ UNCHANGED <<session, work, device, page, xdp, telemetry>>

(* The Driver constructs its shuttle in pinned memory, ...                 *)
Alloc ==
  /\ At("alloc")
  /\ AllocateInitialBuffer
  /\ IF m_ptr' = "none" THEN Throw ELSE Goto("upgrade")
  /\ UNCHANGED <<session, work, device, vfioVars, xdp, telemetry>>

Pin ==
  /\ At("upgrade")
  /\ \/ Upgrade /\ Goto("watchdog")
     \/ NoUpgrade /\ (Goto("watchdog") \/ Throw)
  /\ UNCHANGED <<session, work, device, vfioVars, xdp, telemetry>>

(* ... hands its address to the device and starts the watchdog thread; if  *)
(* that fails the shuttle, a complete member, is destroyed.                *)
DriverUp ==
  /\ At("watchdog")
  /\ \/ Construct("driver", "bind") /\ UNCHANGED page
     \/ Throw /\ FreePage
  /\ UNCHANGED <<session, work, device, vfioVars, xdp, telemetry>>

(* The portal is constructed first, so a throw from here on destroys it.   *)
Bind ==
  /\ At("bind")
  /\ \/ bind_shuttle_memory /\ Construct("portal", "open")
     \/ UNCHANGED xdp /\ live' = Append(live, "portal") /\ pc' = "unwind" /\ thrown' = pc
  /\ UNCHANGED <<session, work, device, page, vfioVars, telemetry>>

OpenPortal ==
  /\ At("open")
  /\ \/ open_portal /\ Goto("handshake")
     \/ UNCHANGED xdp /\ Throw
  /\ UNCHANGED <<session, work, device, page, vfioVars, telemetry>>

(* Faulty variant of Handshake: the polls are not counted.                 *)
HandshakeForever ==
  /\ At("handshake") /\ status # 0 /\ Construct("metric", "hub")
  /\ UNCHANGED <<session, work, device, page, vfioVars, xdp, telemetry>>

(* The power-on command and polls of the status register; the test after   *)
(* the loop reads the register once more.                                  *)
Handshake ==
  /\ At("handshake")
  /\ IF status # 0 THEN Construct("metric", "hub") /\ UNCHANGED timeout_ms
     ELSE IF timeout_ms < HANDSHAKE_TIMEOUT
     THEN Goto("handshake") /\ timeout_ms' = timeout_ms + 1
     ELSE Throw /\ UNCHANGED timeout_ms
  /\ UNCHANGED <<session, m_samples, device, page, vfioVars, xdp, telemetry>>

(* The hub; its mmap() is not checked, so that constructing the counters   *)
(* on a failed mapping crashes.                                            *)
Hub ==
  /\ \/ At("hub") /\ HubOpen /\ Goto("size")
     \/ At("hub") /\ Throw /\ UNCHANGED telemetry
     \/ At("size") /\ HubSize /\ Goto("map")
     \/ At("size") /\ HubSetupFails /\ Throw
     \/ At("map") /\ HubMap /\ Goto("counters")
     \/ At("map") /\ HubSetupFails /\ Goto("crashed")
     \/ At("counters") /\ HubInit /\ Construct("hub", "loop")
  /\ UNCHANGED <<session, work, device, page, vfioVars, xdp>>

(* One round of run_telemetry_stress_test(): bridge, transmit and count,   *)
(* or leave the loop when the ring is full or the rounds are over, ...     *)
Transmit ==
  /\ At("loop") /\ bridge_to_shuttle
  /\ IF Len(m_samples) < ITERATIONS /\ ring < RING
     THEN ring' = ring + 1 /\ CountPacket /\ Goto("record")
     ELSE Goto("park") /\ UNCHANGED <<ring, telemetry>>
  /\ UNCHANGED <<session, work, status, page, vfioVars>>

(* ... and record the latency.                                             *)
RecordLatency ==
  /\ At("record") /\ Goto("loop")
  /\ \E t \in Latency : m_samples' = Record(m_samples, t)
  /\ UNCHANGED <<session, timeout_ms, device, page, vfioVars, xdp, telemetry>>

(* run_telemetry_parking(), print_stats() and the end of the try block.    *)
Park ==
  /\ \/ At("park") /\ Goto("print")
     \/ At("print") /\ Goto("unwind")
  /\ UNCHANGED <<session, work, device, page, vfioVars, xdp, telemetry>>

(* The destructor of the object constructed last.                          *)
Unwind ==
  /\ At("unwind") /\ live # << >>
  /\ LET object == live[Len(live)]
     IN  /\ IF object = "hub" THEN HubClose ELSE UNCHANGED telemetry
         /\ IF object = "portal" THEN ClosePortal ELSE UNCHANGED xdp
         /\ IF object = "driver" THEN FreePage /\ ring' = 0 ELSE UNCHANGED <<page, ring>>
         /\ IF object = "vfio" THEN VfioClose ELSE UNCHANGED vfioVars
  /\ live' = SubSeq(live, 1, Len(live) - 1)
  /\ UNCHANGED <<pc, thrown, session, work, status>>

Exit ==
  /\ At("unwind") /\ live = << >> /\ Goto("exited")
  /\ UNCHANGED <<session, work, device, page, vfioVars, xdp, telemetry>>

(* Hardware answers the power-on command when it likes, or never.          *)
HardwareReady ==
  /\ At("handshake") /\ status = 0 /\ status' = 1
  /\ UNCHANGED <<main, session, work, ring, page, vfioVars, xdp, telemetry>>

(* The device takes a descriptor from the ring.                            *)
Drain ==
  /\ ring > 0 /\ ring' = ring - 1
  /\ UNCHANGED <<main, session, work, status, page, vfioVars, xdp, telemetry>>

(* The engine is killed: the kernel reclaims everything but the name.      *)
Kill ==
  /\ pc \notin Ended \cup {"idle"}
  /\ pc' = "killed" /\ UNCHANGED <<live, thrown>>
  /\ HubVanish
  /\ ring' = 0
  /\ UNCHANGED <<session, work, status, page, vfioVars, xdp>>

Porth_stat ==
  /\ DisplayOpen \/ DisplayMap \/ DisplayStops
  /\ UNCHANGED <<main, session, work, device, page, vfioVars, xdp>>

EngineStep ==
  \/ TwinUp \/ VfioUp \/ Alloc \/ Pin \/ DriverUp \/ Bind \/ OpenPortal
  \/ Handshake \/ Hub \/ Transmit \/ RecordLatency \/ Park \/ Unwind \/ Exit

Next == Start \/ EngineStep \/ HardwareReady \/ Drain \/ Kill \/ Porth_stat

(* Only the engine's own thread has to run.                                *)
Spec == Init /\ [][Next]_vars /\ WF_vars(EngineStep)

-----------------------------------------------------------------------------
(* Properties                                                              *)

(* The kernel may write to registered memory at any time, so wherever the  *)
(* construction fails the pinned page outlives its registration.           *)
UmemWithinMemory == m_umem /\ pc \notin Ended => m_ptr # "none"

(* Whatever mixture of NUMA, heap and huge page the machine grants, memory *)
(* goes back to where it came from.                                        *)
FreedByItsAllocator == ~misfreed

(* A run that ends by itself leaves nothing behind, wherever it threw, but *)
(* for three constructors that throw half way: the VFIO device's keeps     *)
(* descriptors, though never a mapped BAR; the huge page's keeps the       *)
(* buffer it could not lock, though never a huge page; and the telemetry   *)
(* hub's, failing to size the object or to set its permissions, keeps the  *)
(* name.  Every other name still linked is one that the run found and did  *)
(* not get to replace.                                                     *)
CleanExit ==
  pc = "exited" =>
    /\ ~m_umem /\ ~m_xsk
    /\ vfio # {} => thrown = "vfio" /\ "bar" \notin vfio
    /\ m_ptr # "none" => thrown = "upgrade" /\ ~m_is_mmaped
    /\ map[Engine] = NoObject /\ fd[Engine] = NoObject
    /\ link # NoObject => thrown = "size" \/ (thrown # "none" /\ link = found)

(* While an engine runs, the shared counters count the packets of this run *)
(* only, also when the previous engine was killed in the middle of its own *)
(* and a display never let go of its counters.                             *)
CountsThisRun ==
  pc \in {"loop", "record", "park", "print"} =>
    total_packets[map[Engine]] = Len(m_samples) + One(pc = "record")

(* What the engine reports are percentiles of what it recorded.            *)
ReportSound ==
  pc = "print" => LET report == Report(m_samples)
                  IN  \A p \in DOMAIN report : IsPercentile(m_samples, p, report[p])

(* A run that is not killed ends, also with hardware that never answers.   *)
DemoEnds == pc \in {"twin", "vfio"} ~> pc \in Ended
=============================================================================
