----------------------------- MODULE PorthSimCtl ----------------------------
(***************************************************************************)
(* tools/porth-sim-ctl.cpp: the processes launch, stress and monitor, each *)
(* with a PorthSimDevice over the same shared-memory name.  Every one of   *)
(* them, the clients too, resets the registers when it attaches and runs a *)
(* physics loop of its own.  Any process may be killed at any step, and a  *)
(* killed chip may be launched again.                                      *)
(***************************************************************************)
EXTENDS PorthMockDevice

CONSTANTS Launcher,            \* the process that owns the chip
          Stress, Monitor,     \* sets of client processes
          MaxLaunches, Iterations   \* bounds: launches, rounds of a monitor

ASSUME ToolsAssumption ==
  /\ Process = {Launcher} \cup Stress \cup Monitor
  /\ Launcher \notin Stress \cup Monitor /\ Stress \cap Monitor = {}
  /\ MaxLaunches \in Nat \ {0} /\ Iterations \in Nat \ {0}

VARIABLES pc,        \* per process, the next step of its main thread
          thread,    \* per process, its physics thread
          chaos,     \* per process, m_corrupt_status
          round,     \* per process, rounds of handle_monitor() done
          status,    \* per object, the status register: zero or not
          zeroed,    \* per object, who wrote the zero that status holds
          data_ptr,  \* per object, the register: zero or misaligned, or not
          launches

calm == <<thread, chaos, round, status, zeroed, data_ptr, launches>>
vars == <<pc, calm, shm>>

Ended == {"done", "failed", "killed", "sigbus", "sigsegv"}
Steps == {"unlink", "open", "truncate", "map", "reset", "physics", "await",
          "config", "online", "scenario", "check", "read", "offline", "join", "release"}
Nobody == "nobody"
Pointer == {"unusable", "wild"}
PhysicsSteps == {"status", "dma", "chaos", "clear", "set"} \cup Pointer

TypeOK ==
  /\ ShmTypeOK
  /\ pc \in [Process -> Steps \cup Ended \cup {"idle"}]
  /\ thread \in [Process -> PhysicsSteps \cup {"off"}]
  /\ chaos \in [Process -> BOOLEAN] /\ round \in [Process -> 0..Iterations]
  /\ status \in [Object -> {0, 1}] /\ zeroed \in [Object -> Process \cup {Nobody}]
  /\ data_ptr \in [Object -> Pointer] /\ launches \in 0..MaxLaunches

Init ==
  /\ ShmInit
  /\ pc = [p \in Process |-> "idle"] /\ thread = [p \in Process |-> "off"]
  /\ chaos = [p \in Process |-> FALSE] /\ round = [p \in Process |-> 0]
  /\ status = [o \in Object |-> 0] /\ zeroed = [o \in Object |-> Nobody]
  /\ data_ptr = [o \in Object |-> "unusable"] /\ launches = 0

Create(p) == p = Launcher
Goto(p, from, to) == pc[p] = from /\ pc' = [pc EXCEPT ![p] = to]
SetStatus(p, s) ==
  /\ status' = [status EXCEPT ![map[p]] = s]
  /\ zeroed' = [zeroed EXCEPT ![map[p]] = IF s = 0 THEN p ELSE Nobody]

(* main(): the tool is started; the chip may be launched again once the    *)
(* process that owned it is gone.                                          *)
Start(p) ==
  /\ IF Create(p)
     THEN /\ pc[p] \in Ended \cup {"idle"} /\ launches < MaxLaunches
          /\ launches' = launches + 1 /\ pc' = [pc EXCEPT ![p] = "unlink"]
     ELSE Goto(p, "idle", "open") /\ UNCHANGED launches
  /\ UNCHANGED <<thread, chaos, round, status, zeroed, data_ptr, shm>>

(* The constructor of PorthMockDevice, call by call.                       *)
UnlinkFirst(p) ==
  /\ Goto(p, "unlink", "open") /\ Unlink
  /\ UNCHANGED calm

OpenName(p) ==
  /\ \/ /\ Open(p, Create(p))
        /\ Goto(p, "open", IF Create(p) THEN "truncate" ELSE "map")
     \/ OpenFails(Create(p)) /\ Goto(p, "open", "failed")
  /\ UNCHANGED calm

SizeObject(p) ==
  /\ \/ Truncate(p) /\ Goto(p, "truncate", "map")
     \/ SetupFails(p) /\ Goto(p, "truncate", "failed")
  /\ UNCHANGED calm

MapObject(p) ==
  /\ \/ Map(p) /\ Goto(p, "map", "reset")
     \/ SetupFails(p) /\ Goto(p, "map", "failed")
  /\ UNCHANGED calm

(* PorthSimDevice resets the registers; an object without a size raises    *)
(* SIGBUS at the first of the three writes.                                *)
Reset(p) ==
  /\ \/ /\ map[p] \in sized /\ Goto(p, "reset", "physics")
        /\ SetStatus(p, 0) /\ UNCHANGED shm
     \/ /\ map[p] \notin sized /\ Goto(p, "reset", "sigbus")
        /\ Vanish(p) /\ UNCHANGED <<status, zeroed>>
  /\ UNCHANGED <<thread, chaos, round, data_ptr, launches>>

(* It starts its physics thread ...                                        *)
StartPhysics(p) ==
  /\ Goto(p, "physics", "await")
  /\ thread' = [thread EXCEPT ![p] = "status"]
  /\ UNCHANGED <<chaos, round, status, zeroed, data_ptr, launches, shm>>

AfterAttach(p) ==
  CASE p = Launcher -> "config" [] p \in Stress -> "scenario" [] OTHER -> "check"

(* Faulty variant of Await: the constructor returns without waiting.       *)
AwaitNothing(p) ==
  /\ Goto(p, "await", AfterAttach(p))
  /\ UNCHANGED <<calm, shm>>

(* ... and waits until somebody's physics thread has set the status.       *)
Await(p) ==
  /\ Goto(p, "await", AfterAttach(p)) /\ status[map[p]] # 0
  /\ UNCHANGED <<calm, shm>>

(* handle_launch(): the PHY of the owner is configured and the process     *)
(* sleeps until it is killed.                                              *)
Configure ==
  /\ Goto(Launcher, "config", "online")
  /\ UNCHANGED <<calm, shm>>

(* handle_stress(): apply_scenario() reconfigures the PHY and switches on  *)
(* the corruption of this process alone, and the function returns.         *)
Scenario(p) ==
  /\ Goto(p, "scenario", "join")
  /\ chaos' = [chaos EXCEPT ![p] = TRUE]
  /\ UNCHANGED <<thread, round, status, zeroed, data_ptr, launches, shm>>

(* Faulty variant of Check: the rounds are not counted.                    *)
CheckForever(p) ==
  /\ pc[p] = "check"
  /\ pc' = [pc EXCEPT ![p] = IF status[map[p]] = 0 THEN "offline" ELSE "read"]
  /\ UNCHANGED <<calm, shm>>

(* handle_monitor(): one round checks the status, reads four registers     *)
(* and sleeps.                                                             *)
Check(p) ==
  /\ pc[p] = "check"
  /\ pc' = [pc EXCEPT ![p] = IF round[p] = Iterations THEN "join"
                               ELSE IF status[map[p]] = 0 THEN "offline" ELSE "read"]
  /\ UNCHANGED <<calm, shm>>

Read(p) ==
  /\ Goto(p, "read", "check")
  /\ round' = [round EXCEPT ![p] = @ + 1]
  /\ UNCHANGED <<thread, chaos, status, zeroed, data_ptr, launches, shm>>

(* It prints that the chip is offline and returns.                         *)
Offline(p) ==
  /\ Goto(p, "offline", "join")
  /\ UNCHANGED <<calm, shm>>

(* ~PorthSimDevice(): join the physics thread, then ~PorthMockDevice().    *)
Join(p) ==
  /\ thread[p] = "off" /\ Goto(p, "join", "release")
  /\ UNCHANGED <<calm, shm>>

Destroy(p) ==
  /\ Goto(p, "release", "done") /\ Release(p, Create(p))
  /\ UNCHANGED calm

(* Faulty variant of Tick: the loop does not write the status.             *)
TickSilently(p) ==
  /\ thread[p] = "status"
  /\ thread' = [thread EXCEPT ![p] = IF pc[p] = "join" THEN "off" ELSE "dma"]
  /\ UNCHANGED <<pc, chaos, round, status, zeroed, data_ptr, launches, shm>>

(* run_physics_loop(): a round first tests m_run_sim, then writes status.  *)
Tick(p) ==
  /\ thread[p] = "status"
  /\ IF pc[p] = "join"
     THEN thread' = [thread EXCEPT ![p] = "off"] /\ UNCHANGED <<status, zeroed>>
     ELSE SetStatus(p, 1) /\ thread' = [thread EXCEPT ![p] = "dma"]
  /\ UNCHANGED <<pc, chaos, round, data_ptr, launches, shm>>

(* Only a stress process ever sets its m_corrupt_status: in the others     *)
(* apply_chaos_effects() does nothing.                                     *)
AfterDma(p) == IF p \in Stress THEN "chaos" ELSE "status"

(* process_dma(): no tool has a driver, so that data_ptr is zero until a   *)
(* stress process flips one of its low 32 bits.  Zero and a misaligned     *)
(* address are refused; any other is latched and dereferenced, in          *)
(* whichever process loads it, and nothing is mapped there.                *)
ProcessDma(p) ==
  /\ thread[p] = "dma"
  /\ \/ /\ data_ptr[map[p]] = "unusable" /\ thread' = [thread EXCEPT ![p] = AfterDma(p)]
        /\ UNCHANGED <<pc, shm>>
     \/ /\ data_ptr[map[p]] = "wild" /\ thread' = [thread EXCEPT ![p] = "off"]
        /\ pc' = [pc EXCEPT ![p] = "sigsegv"] /\ Vanish(p)
  /\ UNCHANGED <<chaos, round, status, zeroed, data_ptr, launches>>

(* apply_chaos_effects(): loads the register it will flip a bit of.  A bit *)
(* of status is cleared to zero if it was the only one set; data_ptr may   *)
(* turn into an aligned address or cease to be one.                        *)
Corrupt(p) ==
  /\ thread[p] = "chaos"
  /\ \/ ~chaos[p] /\ thread' = [thread EXCEPT ![p] = "status"]
     \/ chaos[p] /\ thread' = [thread EXCEPT ![p] = "set"]
     \/ chaos[p] /\ status[map[p]] # 0 /\ thread' = [thread EXCEPT ![p] = "clear"]
     \/ chaos[p] /\ \E v \in Pointer : thread' = [thread EXCEPT ![p] = v]
  /\ UNCHANGED <<pc, chaos, round, status, zeroed, data_ptr, launches, shm>>

(* It stores the flipped value over whatever the register holds by then.   *)
Flip(p) ==
  /\ \/ thread[p] = "clear" /\ SetStatus(p, 0) /\ UNCHANGED data_ptr
     \/ thread[p] = "set" /\ SetStatus(p, 1) /\ UNCHANGED data_ptr
     \/ /\ thread[p] \in Pointer /\ data_ptr' = [data_ptr EXCEPT ![map[p]] = thread[p]]
        /\ UNCHANGED <<status, zeroed>>
  /\ thread' = [thread EXCEPT ![p] = "status"]
  /\ UNCHANGED <<pc, chaos, round, launches, shm>>

(* Ctrl+C, the only way a launched chip ends.                              *)
Kill(p) ==
  /\ pc[p] \in Steps
  /\ pc' = [pc EXCEPT ![p] = "killed"] /\ thread' = [thread EXCEPT ![p] = "off"]
  /\ Vanish(p)
  /\ UNCHANGED <<chaos, round, status, zeroed, data_ptr, launches>>

MainStep(p) ==
  \/ UnlinkFirst(p) \/ OpenName(p) \/ SizeObject(p) \/ MapObject(p)
  \/ Reset(p) \/ StartPhysics(p) \/ Await(p)
  \/ p = Launcher /\ Configure
  \/ p \in Stress /\ Scenario(p)
  \/ p \in Monitor /\ (Check(p) \/ Read(p) \/ Offline(p))
  \/ Join(p) \/ Destroy(p)

PhysicsStep(p) == Tick(p) \/ ProcessDma(p) \/ Corrupt(p) \/ Flip(p)

Next == \E p \in Process : Start(p) \/ MainStep(p) \/ PhysicsStep(p) \/ Kill(p)

(* Both threads of a running process are scheduled; nobody has to start or *)
(* kill a process.                                                         *)
Spec ==
  /\ Init /\ [][Next]_vars
  /\ \A p \in Process : WF_vars(MainStep(p)) /\ WF_vars(PhysicsStep(p))

-----------------------------------------------------------------------------
(* Properties                                                              *)

(* A launch gets registers made for it: zeroed, and mapped by nobody.  So  *)
(* what a killed chip left under the name is gone, and no client of that   *)
(* chip, whose physics loop still runs, can write to the new registers.    *)
FreshChip ==
  [][LET o == fd'[Launcher]
     IN  fd[Launcher] = NoObject /\ o # NoObject
           => o \notin sized /\ \A p \in Process : fd[p] # o /\ map[p] # o]_vars

(* While the chip is online its name leads to its own registers, whatever  *)
(* clients come, fail, finish or are killed.                               *)
NameWhileOnline == pc[Launcher] = "online" => link = map[Launcher]

(* A monitor never takes its own attachment for a shutdown of the chip.    *)
OfflineByOthers ==
  [][\A p \in Monitor : pc[p] = "check" /\ pc'[p] = "offline" => zeroed[map[p]] # p]_vars

(* A client that is not killed ends: the constructor's wait for the status *)
(* returns, even if the chip is killed or another client resets it, and    *)
(* the destructor's join too.                                              *)
ToolsEnd == \A p \in Stress \cup Monitor : pc[p] = "open" ~> pc[p] \in Ended

-----------------------------------------------------------------------------
(* What the tool says and the program does not do                          *)

(* "Chip Offline (Safety Trip/Shutdown)": when a monitor says so, the chip *)
(* it watches is not online.                                               *)
OfflineMeansDown ==
  [][\A p \in Monitor :
       pc[p] = "check" /\ pc'[p] = "offline"
         => ~(pc[Launcher] = "online" /\ map[p] = map[Launcher])]_vars
=============================================================================
