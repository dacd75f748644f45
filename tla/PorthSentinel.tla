--------------------------- MODULE PorthSentinel ---------------------------
(***************************************************************************)
(* include/porth/PorthSentinel.hpp: a second, independent guard that polls *)
(* laser_temp and writes the trip code to safety_trip.  guard is where its *)
(* thread is: "none" (no thread), "loop", "poll", "trip", "exited" (ran to *)
(* its end and not yet joined).                                            *)
(***************************************************************************)
EXTENDS PorthDeviceLayout

CONSTANT MAX_TEMP_MC

ASSUME SentinelAssumption == MAX_TEMP_MC \in Nat

VARIABLES guard, m_running,
          stopping,     \* the host is inside stop(), at the join
          terminated    \* std::terminate has been called

sentinelVars == <<guard, m_running, stopping, terminated>>

SentinelInit ==
  /\ guard = "none"
  /\ m_running = FALSE
  /\ stopping = FALSE
  /\ terminated = FALSE

(* Assigning to m_thread while it is joinable, even if its loop has ended  *)
(* with a trip, calls std::terminate.                                      *)
start ==
  /\ ~stopping
  /\ m_running' = TRUE
  /\ \/ guard = "none" /\ guard' = "loop" /\ UNCHANGED terminated
     \/ guard # "none" /\ terminated' = TRUE /\ UNCHANGED guard
  /\ UNCHANGED <<stopping, reg>>

(* Faulty variant of stop: the flag is not cleared before the join.        *)
stopUnflagged ==
  /\ ~stopping
  /\ stopping' = (guard # "none")
  /\ UNCHANGED <<guard, m_running, terminated, reg>>

stop ==
  /\ ~stopping
  /\ m_running' = FALSE
  /\ stopping' = (guard # "none")
  /\ UNCHANGED <<guard, terminated, reg>>

StopJoin ==
  /\ stopping
  /\ guard = "exited"
  /\ guard' = "none"
  /\ stopping' = FALSE
  /\ UNCHANGED <<m_running, terminated, reg>>

GuardLoop ==
  /\ guard = "loop"
  /\ guard' = IF m_running THEN "poll" ELSE "exited"
  /\ UNCHANGED <<m_running, stopping, terminated, reg>>

(* Faulty variant of GuardPoll: compares the wrong way round.              *)
GuardPollInverted ==
  /\ guard = "poll"
  /\ guard' = IF reg.laser_temp < MAX_TEMP_MC THEN "trip" ELSE "loop"
  /\ UNCHANGED <<m_running, stopping, terminated, reg>>

GuardPoll ==
  /\ guard = "poll"
  /\ guard' = IF reg.laser_temp > MAX_TEMP_MC THEN "trip" ELSE "loop"
  /\ UNCHANGED <<m_running, stopping, terminated, reg>>

GuardTrip ==
  /\ guard = "trip"
  /\ Write("safety_trip", TRIP_CODE)
  /\ guard' = "exited"
  /\ UNCHANGED <<m_running, stopping, terminated>>

Guard == GuardLoop \/ GuardPoll \/ GuardTrip

SentinelTypeOK ==
  /\ guard \in {"none", "loop", "poll", "trip", "exited"}
  /\ m_running \in BOOLEAN /\ stopping \in BOOLEAN /\ terminated \in BOOLEAN
=============================================================================
