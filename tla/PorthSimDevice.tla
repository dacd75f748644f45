--------------------------- MODULE PorthSimDevice ---------------------------
(***************************************************************************)
(* include/porth/PorthSimDevice.hpp: the digital twin.  Its physics thread *)
(* (run_physics_loop) drains the DMA ring the data_ptr register points to, *)
(* updates the thermal model and injects faults; the host constructs and   *)
(* destroys it and switches the faults on and off.                         *)
(*                                                                         *)
(* The control location phys.pc says what the physics thread does next:    *)
(* check the run flag, check the deadlock gate, load data_ptr (dma), pop,  *)
(* count a popped descriptor, compute and then publish the temperature,    *)
(* draw the corruption (chaos) and store it (flip).  The sleep between     *)
(* iterations is the time "check" may take.                                *)
(***************************************************************************)
EXTENDS PorthShuttle, PorthPhysics

VARIABLES
  sim,                   \* the host's progress: boot, await, live, joining, gone
  m_run_sim, m_inject_deadlock, m_corrupt_status,
  phys,                  \* physics thread: pc, locals, m_last_valid_shuttle
                         \* and the PHY's m_current_temp_mc
  fault                  \* undefined behaviour of a dereference, or "none"

simVars == <<sim, m_run_sim, m_inject_deadlock, m_corrupt_status, phys, fault>>

SimInit ==
  /\ sim = "boot"
  /\ m_run_sim = TRUE
  /\ m_inject_deadlock = FALSE
  /\ m_corrupt_status = FALSE
  /\ phys = [pc |-> "off", addr |-> Null, m_last_valid_shuttle |-> Null,
             corrupted |-> Null, m_current_temp_mc |-> SIM_BASE_TEMP_MC]
  /\ fault = "none"

-----------------------------------------------------------------------------
(* The host: constructor, switches and destructor                          *)

SimConstruct ==
  /\ sim = "boot"
  /\ reg' = [reg EXCEPT !.laser_temp = SIM_BASE_TEMP_MC, !.status = 0, !.control = 0]
  /\ sim' = "await"
  /\ phys' = [phys EXCEPT !.pc = "check"]
  /\ UNCHANGED <<m_run_sim, m_inject_deadlock, m_corrupt_status, fault, shuttleVars>>

(* The constructor returns once the physics thread has signalled.          *)
SimReady ==
  /\ sim = "await"
  /\ reg.status # 0
  /\ sim' = "live"
  /\ UNCHANGED <<m_run_sim, m_inject_deadlock, m_corrupt_status, phys, fault, reg, shuttleVars>>

trigger_deadlock(active) ==
  /\ sim = "live"
  /\ m_inject_deadlock' = active
  /\ UNCHANGED <<sim, m_run_sim, m_corrupt_status, phys, fault, reg, shuttleVars>>

trigger_corruption(active) ==
  /\ sim = "live"
  /\ m_corrupt_status' = active
  /\ UNCHANGED <<sim, m_run_sim, m_inject_deadlock, phys, fault, reg, shuttleVars>>

SimStop ==
  /\ sim = "live"
  /\ m_run_sim' = FALSE
  /\ sim' = "joining"
  /\ UNCHANGED <<m_inject_deadlock, m_corrupt_status, phys, fault, reg, shuttleVars>>

SimJoin ==
  /\ sim = "joining"
  /\ phys.pc = "exited"
  /\ sim' = "gone"
  /\ UNCHANGED <<m_run_sim, m_inject_deadlock, m_corrupt_status, phys, fault, reg, shuttleVars>>

-----------------------------------------------------------------------------
(* The physics thread                                                      *)

(* What the host thread owns; the physics thread only reads it.            *)
hostFlags == <<sim, m_run_sim, m_inject_deadlock, m_corrupt_status>>

Goto(pc) == phys' = [phys EXCEPT !.pc = pc]

(* while (m_run_sim): signal READY and start an iteration.                 *)
PhysCheck ==
  /\ phys.pc = "check"
  /\ \/ m_run_sim /\ Write("status", 1) /\ Goto("gate")
     \/ ~m_run_sim /\ Goto("exited") /\ UNCHANGED reg
  /\ UNCHANGED <<hostFlags, fault, shuttleVars>>

PhysGate ==
  /\ phys.pc = "gate"
  /\ Goto(IF m_inject_deadlock THEN "check" ELSE "dma")
  /\ UNCHANGED <<hostFlags, fault, reg, shuttleVars>>

(* Faulty variants of Accepts: the guard on the latched address is         *)
(* missing; only the very first call passes it.                            *)
AcceptsUnlatched(a) == a # Null /\ Aligned(a)
AcceptsOnce(a) == a # Null /\ Aligned(a) /\ phys.m_last_valid_shuttle = Null

(* The early returns of process_dma().                                     *)
Accepts(a) ==
  /\ a # Null
  /\ Aligned(a)
  /\ phys.m_last_valid_shuttle \in {Null, a}

(* process_dma() loads data_ptr once and keeps it for the whole call; the  *)
(* first address it accepts is latched for the life of the device.         *)
PhysLoadPtr ==
  /\ phys.pc = "dma"
  /\ phys' = IF Accepts(reg.data_ptr)
             THEN [phys EXCEPT !.pc = "pop", !.addr = reg.data_ptr,
                               !.m_last_valid_shuttle = IF @ = Null THEN reg.data_ptr ELSE @]
             ELSE [phys EXCEPT !.pc = "thermal"]
  /\ UNCHANGED <<hostFlags, fault, reg, shuttleVars>>

(* Faulty variant of PhysPop: waits on an empty ring instead of leaving.   *)
PhysPopWaits ==
  /\ phys.pc = "pop"
  /\ \/ Live(phys.addr) /\ Pop /\ Goto("count") /\ UNCHANGED fault
     \/ ~Live(phys.addr) /\ fault' = "unmapped" /\ UNCHANGED <<phys, shuttleVars>>
  /\ UNCHANGED <<hostFlags, reg>>

(* while (ring->pop(desc)): the ring is read through the loaded address,   *)
(* whatever has become of the memory there.                                *)
PhysPop ==
  /\ phys.pc = "pop"
  /\ \/ Live(phys.addr) /\ Pop /\ Goto("count") /\ UNCHANGED fault
     \/ Live(phys.addr) /\ PopEmpty /\ Goto("thermal") /\ UNCHANGED fault
     \/ /\ ~Live(phys.addr)
        /\ fault' = IF phys.addr \in {AddrOf(s) : s \in Shuttle} THEN "unmapped" ELSE "wild"
        /\ UNCHANGED <<phys, shuttleVars>>
  /\ UNCHANGED <<hostFlags, reg>>

(* Faulty variant of PhysCount: the popped descriptor is not counted.      *)
PhysCountLost ==
  /\ phys.pc = "count"
  /\ Goto("pop")
  /\ UNCHANGED <<hostFlags, fault, reg, shuttleVars>>

(* Nobody else stores to counter, so its load and store are one step.      *)
PhysCount ==
  /\ phys.pc = "count"
  /\ Write("counter", Increment(reg.counter))
  /\ Goto("pop")
  /\ UNCHANGED <<hostFlags, fault, shuttleVars>>

(* update_thermal_model() up to the PHY's inertial temperature.            *)
PhysThermal ==
  /\ phys.pc = "thermal"
  /\ LET volt == NextVolt(reg.gan_voltage, reg.control = 1)
     IN  /\ Write("gan_voltage", volt)
         /\ phys' = [phys EXCEPT !.pc = "publish",
                                 !.m_current_temp_mc = Inertia(@, TargetTemp(volt))]
  /\ UNCHANGED <<hostFlags, fault, shuttleVars>>

(* ... and its result, stored over whatever the registers hold.            *)
PhysPublish ==
  /\ phys.pc = "publish"
  /\ reg' = [reg EXCEPT !.rf_snr = Snr(phys.m_current_temp_mc),
                        !.laser_temp = phys.m_current_temp_mc]
  /\ Goto("chaos")
  /\ UNCHANGED <<hostFlags, fault, shuttleVars>>

(* apply_chaos_effects(): flips a bit of status, which only this thread    *)
(* stores to, or loads data_ptr to flip one of its bits.                   *)
PhysChaos ==
  /\ phys.pc = "chaos"
  /\ \/ ~m_corrupt_status /\ Goto("check") /\ UNCHANGED reg
     \/ /\ m_corrupt_status
        /\ \E s \in {0, 3} : Write("status", s)
        /\ Goto("check")
     \/ /\ m_corrupt_status
        /\ \E b \in Bit : \E a \in FlipBit(reg.data_ptr, b) :
             phys' = [phys EXCEPT !.pc = "flip", !.corrupted = a]
        /\ UNCHANGED reg
  /\ UNCHANGED <<hostFlags, fault, shuttleVars>>

PhysFlip ==
  /\ phys.pc = "flip"
  /\ Write("data_ptr", phys.corrupted)
  /\ phys' = [phys EXCEPT !.pc = "check", !.corrupted = Null]
  /\ UNCHANGED <<hostFlags, fault, shuttleVars>>

Physics == \/ PhysCheck \/ PhysGate \/ PhysLoadPtr \/ PhysPop \/ PhysCount
           \/ PhysThermal \/ PhysPublish \/ PhysChaos \/ PhysFlip

SimTypeOK ==
  /\ sim \in {"boot", "await", "live", "joining", "gone"}
  /\ m_run_sim \in BOOLEAN /\ m_inject_deadlock \in BOOLEAN /\ m_corrupt_status \in BOOLEAN
  /\ phys \in [pc : {"off", "check", "gate", "dma", "pop", "count", "thermal",
                     "publish", "chaos", "flip", "exited"},
               addr : Addr, m_last_valid_shuttle : Addr, corrupted : Addr,
               m_current_temp_mc : Nat]
  /\ fault \in {"none", "unmapped", "wild"}
=============================================================================
