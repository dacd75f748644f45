---------------------------- MODULE PorthTelemetry --------------------------
(***************************************************************************)
(* include/porth/PorthTelemetry.hpp: the counters in shared memory that    *)
(* the engine maintains and tools/porth_stat.cpp displays.  Shared memory  *)
(* behaves as in PorthMockDevice, but unlike the register file the         *)
(* counters are not unlinked first: an engine that restarts after a crash  *)
(* finds the old object, with the old counters and perhaps a display on    *)
(* it, and constructs new counters in place.                               *)
(***************************************************************************)
EXTENDS Naturals

CONSTANT MaxObjects   \* bound on the objects ever created under the name

ASSUME TelemetryAssumption == MaxObjects \in Nat \ {0}

VARIABLES link, created, sized, fd, map,   \* the name, see PorthMockDevice
          total_packets,                   \* per object
          display                          \* porth_stat: its next step

Engine == "engine"
Display == "porth_stat"
Shm == INSTANCE PorthMockDevice WITH Process <- {Engine, Display}
NoObject == Shm!NoObject
shm == <<link, created, sized, fd, map>>

telemetry == <<shm, total_packets, display>>

TelemetryInit ==
  /\ Shm!ShmInit
  /\ total_packets = [o \in Shm!Object |-> 0]
  /\ display = "idle"

(* The constructor of the owner's hub.                                     *)
HubOpen == Shm!Open(Engine, TRUE) /\ UNCHANGED <<total_packets, display>>
HubSize == Shm!Truncate(Engine) /\ UNCHANGED <<total_packets, display>>
HubSetupFails == Shm!SetupFails(Engine) /\ UNCHANGED <<total_packets, display>>
HubMap == Shm!Map(Engine) /\ UNCHANGED <<total_packets, display>>

(* Faulty variant of HubInit: the counters are taken as they are found.    *)
HubInitSkipped == UNCHANGED telemetry

(* Placement new of PorthStats.                                            *)
HubInit ==
  /\ total_packets' = [total_packets EXCEPT ![map[Engine]] = 0]
  /\ UNCHANGED <<shm, display>>

(* ~PorthTelemetryHub()                                                    *)
HubClose == Shm!Release(Engine, TRUE) /\ UNCHANGED <<total_packets, display>>

HubVanish == Shm!Vanish(Engine) /\ UNCHANGED <<total_packets, display>>

CountPacket ==
  /\ total_packets' = [total_packets EXCEPT ![map[Engine]] = @ + 1]
  /\ UNCHANGED <<shm, display>>

(* porth_stat attaches, fails if there is no engine yet, and then reads    *)
(* the counters until it is stopped.  Reading an object the engine has not *)
(* sized yet raises SIGBUS.                                                *)
DisplayOpen ==
  /\ display = "idle"
  /\ \/ Shm!Open(Display, FALSE) /\ display' = "map"
     \/ Shm!OpenFails(FALSE) /\ UNCHANGED display
  /\ UNCHANGED total_packets

DisplayMap ==
  /\ display = "map" /\ display' = "read"
  /\ Shm!Map(Display) /\ UNCHANGED total_packets

DisplayStops ==
  /\ display = "read" /\ display' = "idle"   \* Ctrl+C or SIGBUS
  /\ Shm!Vanish(Display) /\ UNCHANGED total_packets
=============================================================================
