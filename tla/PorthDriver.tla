---------------------------- MODULE PorthDriver ----------------------------
(***************************************************************************)
(* include/porth/PorthDriver.hpp: construction, data path and teardown of  *)
(* a Driver on the host thread, and its watchdog thread.                   *)
(*                                                                         *)
(* drv is where the host thread is in the driver's code: "none" before the *)
(* constructor and after the destructor, "up" between calls.  Drivers may  *)
(* be constructed one after the other on the same device.                  *)
(***************************************************************************)
EXTENDS PorthShuttle

CONSTANT LIMIT_MC   \* Driver::THERMAL_THRESHOLD_MC, 45 degrees

ASSUME DriverAssumption == LIMIT_MC \in Nat

VARIABLES
  drv,                              \* the host thread's place in the driver
  wd,                               \* the watchdog thread's place in its loop
  m_run_watchdog, m_watchdog_ready,
  stats,                            \* the linked PorthStats block
  received,                         \* descriptors receive() has returned
  discarded                         \* descriptors still queued at an unmap

driverVars == <<drv, wd, m_run_watchdog, m_watchdog_ready, stats, received, discarded>>
flags == <<m_run_watchdog, m_watchdog_ready>>
counts == <<stats, received, discarded>>

DriverInit ==
  /\ drv = "none"
  /\ wd = "none"
  /\ m_run_watchdog = TRUE
  /\ m_watchdog_ready = FALSE
  /\ stats = [total_packets |-> 0, dropped_packets |-> 0]
  /\ received = 0
  /\ discarded = 0

-----------------------------------------------------------------------------
(* The constructor                                                         *)

CtorMap(s) ==
  /\ drv = "none"
  /\ MapShuttle(s)
  /\ drv' = "commit"
  /\ m_run_watchdog' = TRUE
  /\ m_watchdog_ready' = FALSE
  /\ UNCHANGED <<wd, counts, reg>>

CtorCommit ==
  /\ drv = "commit"
  /\ Write("data_ptr", AddrOf(shuttle))
  /\ drv' = "spawn"
  /\ UNCHANGED <<wd, flags, counts, shuttleVars>>

CtorSpawn ==
  /\ drv = "spawn"
  /\ wd' = "start"
  /\ drv' = "handshake"
  /\ UNCHANGED <<flags, counts, reg, shuttleVars>>

(* std::thread throws: the members are destroyed, ~Driver() does not run,  *)
(* and data_ptr keeps the address of the unmapped shuttle.                 *)
CtorSpawnFails ==
  /\ drv = "spawn"
  /\ UnmapShuttle
  /\ drv' = "none"
  /\ UNCHANGED <<wd, flags, counts, reg>>

CtorHandshake ==
  /\ drv = "handshake"
  /\ m_watchdog_ready
  /\ drv' = "up"
  /\ UNCHANGED <<wd, flags, counts, reg, shuttleVars>>

-----------------------------------------------------------------------------
(* The data path; the statistics block is linked before the first call     *)

transmit ==
  /\ drv = "up"
  /\ \/ Push /\ drv' = "stats" /\ UNCHANGED stats
     \/ /\ PushFull
        /\ stats' = [stats EXCEPT !.dropped_packets = Increment(@)]
        /\ UNCHANGED drv
  /\ UNCHANGED <<wd, flags, received, discarded, reg>>

(* The statistics follow the push, which the device may already have seen. *)
TransmitStats ==
  /\ drv = "stats"
  /\ stats' = [stats EXCEPT !.total_packets = Increment(@)]
  /\ drv' = "up"
  /\ UNCHANGED <<wd, flags, received, discarded, reg, shuttleVars>>

receive ==
  /\ drv = "up"
  /\ \/ Pop /\ received' = Increment(received)
     \/ PopEmpty /\ UNCHANGED received
  /\ UNCHANGED <<drv, wd, flags, stats, discarded, reg>>

-----------------------------------------------------------------------------
(* The destructor                                                          *)

(* Faulty variant of DtorClear: the hardware is not told.                  *)
DtorClearSkipped ==
  /\ drv = "up"
  /\ drv' = "stop"
  /\ UNCHANGED <<wd, flags, counts, reg, shuttleVars>>

DtorClear ==
  /\ drv = "up"
  /\ Write("data_ptr", Null)
  /\ drv' = "stop"
  /\ UNCHANGED <<wd, flags, counts, shuttleVars>>

(* Faulty variant of DtorStop: the watchdog is not asked to stop.          *)
DtorStopSkipped ==
  /\ drv = "stop"
  /\ drv' = "join"
  /\ UNCHANGED <<wd, flags, counts, reg, shuttleVars>>

DtorStop ==
  /\ drv = "stop"
  /\ m_run_watchdog' = FALSE
  /\ drv' = "join"
  /\ UNCHANGED <<wd, m_watchdog_ready, counts, reg, shuttleVars>>

(* Faulty variant of DtorJoin: the thread is not waited for.               *)
DtorJoinSkipped ==
  /\ drv = "join"
  /\ drv' = "unmap"
  /\ UNCHANGED <<wd, flags, counts, reg, shuttleVars>>

DtorJoin ==
  /\ drv = "join"
  /\ wd = "exited"
  /\ drv' = "unmap"
  /\ UNCHANGED <<wd, flags, counts, reg, shuttleVars>>

(* The members go: the shuttle is unmapped.                                *)
DtorUnmap ==
  /\ drv = "unmap"
  /\ discarded' = (discarded + ring) % WRAP
  /\ UnmapShuttle
  /\ drv' = "none"
  /\ UNCHANGED <<wd, flags, stats, received, reg>>

-----------------------------------------------------------------------------
(* The watchdog thread                                                     *)

WatchdogStart ==
  /\ wd = "start"
  /\ m_watchdog_ready' = TRUE
  /\ wd' = "loop"
  /\ UNCHANGED <<drv, m_run_watchdog, counts, reg, shuttleVars>>

WatchdogLoop ==
  /\ wd = "loop"
  /\ wd' = IF m_run_watchdog THEN "poll" ELSE "exited"
  /\ UNCHANGED <<drv, flags, counts, reg, shuttleVars>>

(* Faulty variant of WatchdogPoll: the limit is never found exceeded.      *)
WatchdogPollBlind ==
  /\ wd = "poll"
  /\ wd' = "loop"
  /\ UNCHANGED <<drv, flags, counts, reg, shuttleVars>>

WatchdogPoll ==
  /\ wd = "poll"
  /\ wd' = IF reg.laser_temp > LIMIT_MC THEN "trip" ELSE "loop"
  /\ UNCHANGED <<drv, flags, counts, reg, shuttleVars>>

WatchdogTrip ==
  /\ wd = "trip"
  /\ Write("control", 0)
  /\ wd' = "halt"
  /\ UNCHANGED <<drv, flags, counts, shuttleVars>>

WatchdogHalt ==
  /\ wd = "halt"
  /\ m_run_watchdog' = FALSE
  /\ wd' = "exited"
  /\ UNCHANGED <<drv, m_watchdog_ready, counts, reg, shuttleVars>>

Watchdog == \/ WatchdogStart \/ WatchdogLoop \/ WatchdogPoll
            \/ WatchdogTrip \/ WatchdogHalt

(* The steps the host thread takes by itself once it is inside the         *)
(* constructor, transmit() or the destructor.                              *)
DriverProceeds == \/ CtorCommit \/ CtorSpawn \/ CtorHandshake \/ TransmitStats
                  \/ DtorStop \/ DtorJoin \/ DtorUnmap

DriverTypeOK ==
  /\ drv \in {"none", "commit", "spawn", "handshake", "up", "stats",
              "stop", "join", "unmap"}
  /\ wd \in {"none", "start", "loop", "poll", "trip", "halt", "exited"}
  /\ m_run_watchdog \in BOOLEAN /\ m_watchdog_ready \in BOOLEAN
  /\ stats \in [total_packets : 0..(WRAP - 1), dropped_packets : 0..(WRAP - 1)]
  /\ received \in 0..(WRAP - 1) /\ discarded \in 0..(WRAP - 1)
=============================================================================
