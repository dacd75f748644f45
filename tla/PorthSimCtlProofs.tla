------------------------- MODULE PorthSimCtlProofs --------------------------
(***************************************************************************)
(* Proofs about PorthSimCtl: for any number of stress and monitor clients, *)
(* of launches, of objects created under the name and of monitor rounds.   *)
(***************************************************************************)
EXTENDS PorthSimCtl, TLAPS

(* Between mmap() and munmap().                                            *)
Attached == {"reset", "physics", "await", "config", "online", "scenario",
             "check", "read", "offline", "join", "release"}

(* TypeOK without the flags of the clients, which nothing else depends on. *)
Values ==
  /\ ShmTypeOK
  /\ pc \in [Process -> Steps \cup Ended \cup {"idle"}]
  /\ thread \in [Process -> PhysicsSteps \cup {"off"}]
  /\ round \in [Process -> 0..Iterations]
  /\ status \in [Object -> {0, 1}] /\ zeroed \in [Object -> Process \cup {Nobody}]
  /\ data_ptr \in [Object -> Pointer] /\ launches \in 0..MaxLaunches

(* A process has the object open between shm_open() and close(), and       *)
(* mapped while it is attached.                                            *)
Handles ==
  \A p \in Process :
    /\ pc[p] \in {"truncate", "map"} <=> fd[p] # NoObject
    /\ pc[p] \in Attached <=> map[p] # NoObject

(* Each kind of process goes its own way.                                  *)
Roles ==
  \A p \in Process :
    /\ pc[p] \in {"unlink", "truncate", "config", "online"} => p = Launcher
    /\ pc[p] = "read" => round[p] < Iterations
    /\ thread[p] \in {"chaos", "clear", "set"} \cup Pointer => p \in Stress

(* From the unlink of its constructor on the name belongs to the chip.     *)
NameOwned ==
  /\ pc[Launcher] = "open" => link = NoObject
  /\ pc[Launcher] \in {"truncate", "map"} => link = fd[Launcher]
  /\ pc[Launcher] \in Attached => link = map[Launcher]

(* Once a monitor has seen its chip ready, a zero it wrote itself has been *)
(* overwritten.                                                            *)
Overwritten ==
  \A p \in Monitor :
    pc[p] \in {"check", "read"} /\ zeroed[map[p]] = p => status[map[p]] # 0

Inv == Values /\ Handles /\ Roles /\ NameOwned /\ Overwritten

Flags == chaos \in [Process -> BOOLEAN]

(* A chaos flag is switched on and never off.                              *)
LEMMA NextFlags ==
  ASSUME Flags, [Next]_vars
  PROVE  Flags'
<1> USE DEF Flags
<1>1. UNCHANGED chaos \/ \E p \in Process : Scenario(p)
  BY DEF vars, calm, Next, Start, MainStep, PhysicsStep, Kill, UnlinkFirst, OpenName,
    SizeObject, MapObject, Reset, StartPhysics, Await, Configure, Check, Read,
    Offline, Join, Destroy, Tick, ProcessDma, Corrupt, Flip
<1>2. CASE UNCHANGED chaos
  BY <1>2
<1>3. CASE \E p \in Process : Scenario(p)
  BY <1>3, Zenon DEF Scenario
<1> QED
  BY <1>1, <1>2, <1>3

(* Initially nothing is started and the name leads nowhere.                *)
LEMMA InitInv == Init => Inv
<1> SUFFICES ASSUME Init PROVE Inv
  OBVIOUS
<1> USE ToolsAssumption, ObjectsAssumption DEF Init, ShmInit
<1>1. Values
  BY DEF Values, ShmTypeOK, NoObject, Object, Ended, Steps, Nobody, Pointer
<1>2. Handles /\ Roles /\ NameOwned
  BY DEF Handles, Roles, NameOwned, Attached, Pointer
<1>3. Overwritten
  BY DEF Overwritten
<1> QED
  BY <1>1, <1>2, <1>3 DEF Inv

(* The name and the objects under it stay well formed.                     *)
LEMMA NextShm ==
  ASSUME Values, Handles, NEW p \in Process,
         Start(p) \/ MainStep(p) \/ PhysicsStep(p) \/ Kill(p)
  PROVE  ShmTypeOK'
<1>0. /\ created \in 0..MaxObjects /\ link \in 0..created /\ sized \subseteq 1..created
      /\ fd \in [Process -> 0..created] /\ map \in [Process -> 0..created]
  BY DEF Values, ShmTypeOK
<1> USE DEF NoObject
<1>1. CASE UNCHANGED shm
  BY <1>0, <1>1 DEF shm, ShmTypeOK
<1>2. CASE UnlinkFirst(p)
  BY <1>0, <1>2 DEF UnlinkFirst, Unlink, ShmTypeOK
<1>3. CASE OpenName(p)
  <2>1. CASE UNCHANGED <<link, created, sized, fd, map>>
    BY <1>0, <2>1 DEF ShmTypeOK
  <2>2. CASE Open(p, Create(p))
    <3>1. /\ created' \in 0..MaxObjects /\ created' >= created /\ created' \in Nat
          /\ link' \in 0..created'
      BY <1>0, <2>2, ObjectsAssumption DEF Open
    <3>2. 0..created \subseteq 0..created' /\ 1..created \subseteq 1..created'
      BY <1>0, <3>1, ObjectsAssumption
    <3>3. fd' = [fd EXCEPT ![p] = link'] /\ UNCHANGED <<sized, map>>
      BY <2>2 DEF Open
    <3> QED
      BY <1>0, <3>1, <3>2, <3>3 DEF ShmTypeOK
  <2> QED
    BY <1>3, <2>1, <2>2 DEF OpenName, OpenFails
<1>4. CASE SizeObject(p)
  <2>1. fd[p] \in 1..created
    BY <1>0, <1>4, ObjectsAssumption DEF SizeObject, Goto, Handles
  <2>2. /\ UNCHANGED <<created, link, map>> /\ sized' \in {sized, sized \cup {fd[p]}}
        /\ fd' \in {fd, [fd EXCEPT ![p] = 0]}
    BY <1>4 DEF SizeObject, Truncate, SetupFails
  <2> QED
    BY <1>0, <2>1, <2>2, ObjectsAssumption DEF ShmTypeOK
<1>5. CASE MapObject(p) \/ Destroy(p)
  <2>1. /\ UNCHANGED <<created, sized>> /\ link' \in {link, 0}
        /\ fd' \in {fd, [fd EXCEPT ![p] = 0]}
        /\ map' \in {map, [map EXCEPT ![p] = fd[p]], [map EXCEPT ![p] = 0]}
    BY <1>5 DEF MapObject, Map, SetupFails, Destroy, Release
  <2> QED
    BY <1>0, <2>1, ObjectsAssumption DEF ShmTypeOK
<1>6. CASE Reset(p) \/ Kill(p) \/ ProcessDma(p)
  <2>1. /\ UNCHANGED <<created, sized, link>>
        /\ fd' \in {fd, [fd EXCEPT ![p] = 0]} /\ map' \in {map, [map EXCEPT ![p] = 0]}
    BY <1>6 DEF Reset, Kill, ProcessDma, Vanish, shm
  <2> QED
    BY <1>0, <2>1, ObjectsAssumption DEF ShmTypeOK
<1> QED
  BY <1>1, <1>2, <1>3, <1>4, <1>5, <1>6 DEF Start, MainStep, PhysicsStep, StartPhysics, Await,
    Configure, Scenario, Check, Read, Offline, Join, Tick, Corrupt, Flip

(* Every process stays somewhere in its program.                           *)
LEMMA NextValues ==
  ASSUME Values, Handles, Roles, [Next]_vars
  PROVE  Values'
<1>1. CASE UNCHANGED vars
  BY <1>1 DEF vars, calm, shm, Values, ShmTypeOK
<1>2. CASE Next
  <2>1. PICK p \in Process : Start(p) \/ MainStep(p) \/ PhysicsStep(p) \/ Kill(p)
    BY <1>2 DEF Next
  <2> USE DEF Values
  <2>2. pc' \in [Process -> Steps \cup Ended \cup {"idle"}]
    BY <2>1 DEF Start, MainStep, PhysicsStep, Kill, UnlinkFirst, OpenName,
      SizeObject, MapObject, Reset, StartPhysics, Await, Configure, Scenario, Check, Read,
      Offline, Join, Destroy, Tick, ProcessDma, Corrupt, Flip, Goto, AfterAttach, Steps, Ended, calm
  <2>3. thread' \in [Process -> PhysicsSteps \cup {"off"}]
    BY <2>1 DEF Start, MainStep, PhysicsStep, Kill, UnlinkFirst, OpenName,
      SizeObject, MapObject, Reset, StartPhysics, Await, Configure, Scenario, Check, Read,
      Offline, Join, Destroy, Tick, ProcessDma, Corrupt, Flip, AfterDma, PhysicsSteps, Pointer, calm
  <2>4. round' \in [Process -> 0..Iterations]
    <3>1. CASE Read(p)
      BY <3>1, ToolsAssumption DEF Read, Goto, Roles
    <3>2. CASE UNCHANGED round
      BY <3>2
    <3> QED
      BY <2>1, <3>1, <3>2 DEF Start, MainStep, PhysicsStep, Kill, UnlinkFirst, OpenName,
      SizeObject, MapObject, Reset, StartPhysics, Await, Configure, Scenario, Check,
      Offline, Join, Destroy, Tick, ProcessDma, Corrupt, Flip, calm
  <2>5. data_ptr' \in [Object -> Pointer]
    <3>1. CASE Flip(p)
      BY <3>1, Zenon DEF Flip
    <3>2. CASE UNCHANGED data_ptr
      BY <3>2
    <3> QED
      BY <2>1, <3>1, <3>2 DEF Start, MainStep, PhysicsStep, Kill, UnlinkFirst, OpenName,
      SizeObject, MapObject, Reset, StartPhysics, Await, Configure, Scenario, Check, Read,
      Offline, Join, Destroy, Tick, ProcessDma, Corrupt, calm
  <2>6. status' \in [Object -> {0, 1}] /\ zeroed' \in [Object -> Process \cup {Nobody}]
    <3>1. CASE Reset(p) \/ Tick(p) \/ Flip(p)
      BY <3>1 DEF Reset, Tick, Flip, SetStatus
    <3>2. CASE UNCHANGED <<status, zeroed>>
      BY <3>2
    <3> QED
      BY <2>1, <3>1, <3>2 DEF Start, MainStep, PhysicsStep, Kill, UnlinkFirst, OpenName,
      SizeObject, MapObject, StartPhysics, Await, Configure, Scenario, Check, Read,
      Offline, Join, Destroy, ProcessDma, Corrupt, calm
  <2>7. launches' \in 0..MaxLaunches
    <3>1. CASE Start(p)
      BY <3>1, ToolsAssumption DEF Start
    <3>2. CASE UNCHANGED launches
      BY <3>2
    <3> QED
      BY <2>1, <3>1, <3>2 DEF MainStep, PhysicsStep, Kill, UnlinkFirst, OpenName,
      SizeObject, MapObject, Reset, StartPhysics, Await, Configure, Scenario, Check, Read,
      Offline, Join, Destroy, Tick, ProcessDma, Corrupt, Flip, calm
  <2> QED
    BY <2>1, <2>2, <2>3, <2>4, <2>5, <2>6, <2>7, NextShm
<1> QED
  BY <1>1, <1>2

(* What a process has open and mapped follows its program counter.         *)
LEMMA NextHandles ==
  ASSUME Values, Handles, Roles, NameOwned, NEW p \in Process,
         Start(p) \/ MainStep(p) \/ PhysicsStep(p) \/ Kill(p)
  PROVE  Handles'
<1>0. /\ pc \in [Process -> Steps \cup Ended \cup {"idle"}] /\ Launcher \in Process
      /\ created \in Nat /\ fd \in [Process -> 0..created] /\ map \in [Process -> 0..created]
  BY ObjectsAssumption, ToolsAssumption DEF Values, ShmTypeOK
<1> USE DEF Handles, Attached, NoObject
<1>1. CASE UNCHANGED <<pc, fd, map>>
  BY <1>1
<1>2. CASE Start(p)
  BY <1>0, <1>2 DEF Start, Create, Goto, Ended, shm
<1>3. CASE UnlinkFirst(p)
  BY <1>0, <1>3 DEF UnlinkFirst, Unlink, Goto
<1>4. CASE OpenName(p)
  <2>1. CASE OpenFails(Create(p)) /\ Goto(p, "open", "failed")
    BY <1>0, <2>1 DEF OpenFails, Goto
  <2>2. CASE Open(p, Create(p)) /\ Goto(p, "open", IF Create(p) THEN "truncate" ELSE "map")
    <3>1. link' # 0
      BY <1>0, <2>2 DEF Open
    <3> QED
      BY <1>0, <2>2, <3>1 DEF Open, Goto
  <2> QED
    BY <1>4, <2>1, <2>2 DEF OpenName
<1>5. CASE SizeObject(p)
  BY <1>0, <1>5 DEF SizeObject, Truncate, SetupFails, Goto
<1>6. CASE MapObject(p)
  BY <1>0, <1>6 DEF MapObject, Map, SetupFails, Goto
<1>7. CASE Reset(p)
  BY <1>0, <1>7 DEF Reset, Vanish, Goto, shm
<1>8. CASE Kill(p) \/ ProcessDma(p)
  BY <1>0, <1>8 DEF Kill, ProcessDma, Vanish, shm
<1>9. CASE Destroy(p)
  BY <1>0, <1>9 DEF Destroy, Release, Goto
<1>10. CASE \/ StartPhysics(p) \/ Await(p) \/ Configure \/ Scenario(p) \/ Check(p)
            \/ Read(p) \/ Offline(p) \/ Join(p)
  BY <1>0, <1>10 DEF StartPhysics, Await, Configure, Scenario, Check, Read, Offline, Join,
    Goto, AfterAttach, shm
<1> QED
  BY <1>1, <1>2, <1>3, <1>4, <1>5, <1>6, <1>7, <1>8, <1>9, <1>10
  DEF MainStep, PhysicsStep, Tick, Corrupt, Flip, shm

(* Nobody takes a step of another kind of process.                         *)
LEMMA NextRoles ==
  ASSUME Values, Roles, NEW p \in Process,
         Start(p) \/ MainStep(p) \/ PhysicsStep(p) \/ Kill(p)
  PROVE  Roles'
<1>0. /\ pc \in [Process -> Steps \cup Ended \cup {"idle"}]
      /\ thread \in [Process -> PhysicsSteps \cup {"off"}]
      /\ round \in [Process -> 0..Iterations] /\ Iterations \in Nat
  BY ToolsAssumption DEF Values
<1> USE DEF Roles, PhysicsSteps, Pointer
<1>1. CASE Start(p) \/ Kill(p)
  BY <1>0, <1>1 DEF Start, Kill, Create, Goto
<1>2. CASE UnlinkFirst(p) \/ OpenName(p) \/ SizeObject(p) \/ MapObject(p)
  BY <1>0, <1>2 DEF UnlinkFirst, OpenName, SizeObject, MapObject, Create, Goto, calm
<1>3. CASE Reset(p) \/ StartPhysics(p) \/ Await(p) \/ (p = Launcher /\ Configure)
  BY <1>0, <1>3 DEF Reset, StartPhysics, Await, AfterAttach, Configure, Goto, calm
<1>4. CASE Check(p)
  BY <1>0, <1>4 DEF Check, calm
<1>5. CASE Scenario(p) \/ Read(p) \/ Offline(p) \/ Join(p) \/ Destroy(p)
  BY <1>0, <1>5 DEF Scenario, Read, Offline, Join, Destroy, Goto, calm
<1>6. CASE PhysicsStep(p)
  BY <1>0, <1>6 DEF PhysicsStep, Tick, ProcessDma, Corrupt, Flip, AfterDma
<1> QED
  BY <1>1, <1>2, <1>3, <1>4, <1>5, <1>6 DEF MainStep

(* No client moves the name of a running chip.                             *)
LEMMA NextNameOwned ==
  ASSUME Values, Handles, Roles, NameOwned, NEW p \in Process,
         Start(p) \/ MainStep(p) \/ PhysicsStep(p) \/ Kill(p)
  PROVE  NameOwned'
<1>0. /\ pc \in [Process -> Steps \cup Ended \cup {"idle"}] /\ Launcher \in Process
      /\ fd \in [Process -> 0..created] /\ map \in [Process -> 0..created]
  BY ToolsAssumption DEF Values, ShmTypeOK
<1> USE DEF NameOwned, Attached
<1>1. CASE UNCHANGED <<pc, link, fd, map>>
  BY <1>1
<1>2. CASE Start(p) \/ UnlinkFirst(p)
  BY <1>0, <1>2 DEF Start, UnlinkFirst, Unlink, Create, Goto, Roles, shm
<1>3. CASE OpenName(p)
  BY <1>0, <1>3 DEF OpenName, Open, OpenFails, Create, Goto
<1>4. CASE SizeObject(p) \/ MapObject(p)
  BY <1>0, <1>4 DEF SizeObject, MapObject, Truncate, Map, SetupFails, Goto
<1>5. CASE Reset(p) \/ Kill(p) \/ ProcessDma(p) \/ Destroy(p)
  BY <1>0, <1>5 DEF Reset, Kill, ProcessDma, Destroy, Release, Create, Vanish, Goto, shm
<1>6. CASE \/ StartPhysics(p) \/ Await(p) \/ Configure \/ Scenario(p) \/ Check(p)
           \/ Read(p) \/ Offline(p) \/ Join(p)
  BY <1>0, <1>6 DEF StartPhysics, Await, Configure, Scenario, Check, Read, Offline, Join,
    Goto, AfterAttach, shm
<1> QED
  BY <1>1, <1>2, <1>3, <1>4, <1>5, <1>6 DEF MainStep, PhysicsStep, Tick, Corrupt, Flip, shm

(* An attached process has mapped an object.                               *)
LEMMA Mapped ==
  ASSUME Values, Handles, NEW p \in Process, pc[p] \in Attached
  PROVE  map[p] \in Object
<1>1. created \in 0..MaxObjects /\ map[p] \in 0..created
  BY DEF Values, ShmTypeOK
<1>2. map[p] # 0
  BY DEF Handles, NoObject
<1> QED
  BY <1>1, <1>2, ObjectsAssumption DEF Object

(* Whoever zeroes the registers of an attached monitor signs for it.       *)
LEMMA NextOverwritten ==
  ASSUME Values, Handles, Roles, Overwritten, NEW p \in Process,
         Start(p) \/ MainStep(p) \/ PhysicsStep(p) \/ Kill(p)
  PROVE  Overwritten'
<1>0. /\ pc \in [Process -> Steps \cup Ended \cup {"idle"}] /\ Monitor \subseteq Process
      /\ Launcher \notin Monitor /\ Stress \cap Monitor = {}
      /\ status \in [Object -> {0, 1}] /\ zeroed \in [Object -> Process \cup {Nobody}]
      /\ fd \in [Process -> 0..created] /\ map \in [Process -> 0..created]
  BY ToolsAssumption DEF Values, ShmTypeOK
<1> USE DEF Overwritten, Attached
<1>1. CASE UNCHANGED <<pc, map, status, zeroed>>
  BY <1>1
<1>2. CASE Start(p) \/ UnlinkFirst(p) \/ OpenName(p) \/ SizeObject(p) \/ MapObject(p)
  BY <1>0, <1>2 DEF Start, UnlinkFirst, OpenName, SizeObject, MapObject, Unlink, Open,
    OpenFails, Truncate, Map, SetupFails, Create, Goto, shm, calm
<1>3. CASE Reset(p)
  <2>1. CASE UNCHANGED <<status, zeroed>>
    BY <1>0, <1>3, <2>1 DEF Reset, Vanish, Goto, shm
  <2>2. CASE /\ Goto(p, "reset", "physics") /\ SetStatus(p, 0)
             /\ UNCHANGED map
    <3> SUFFICES ASSUME NEW m \in Monitor, pc'[m] \in {"check", "read"}, zeroed'[map[m]] = m
                 PROVE  status'[map[m]] # 0
      BY <2>2
    <3>1. m # p /\ pc[m] \in {"check", "read"} /\ map[m] \in Object
      BY <1>0, <2>2, Mapped DEF Goto
    <3>2. map[m] # map[p]
      BY <1>0, <2>2, <3>1 DEF SetStatus
    <3> QED
      BY <1>0, <2>2, <3>1, <3>2 DEF SetStatus
  <2> QED
    BY <1>3, <2>1, <2>2 DEF Reset, shm
<1>4. CASE Kill(p) \/ ProcessDma(p) \/ Destroy(p)
  BY <1>0, <1>4 DEF Kill, ProcessDma, Destroy, Release, Vanish, Goto, shm, calm
<1>5. CASE StartPhysics(p) \/ Configure \/ Scenario(p) \/ Offline(p) \/ Join(p)
  BY <1>0, <1>5 DEF StartPhysics, Configure, Scenario, Offline, Join, Goto, shm, calm
<1>6. CASE Await(p) \/ Check(p) \/ Read(p)
  BY <1>0, <1>6 DEF Await, Check, Read, Goto, AfterAttach, shm, calm
<1>7. CASE Tick(p)
  <2>1. UNCHANGED <<pc, map>> /\ (UNCHANGED <<status, zeroed>> \/ SetStatus(p, 1))
    BY <1>7 DEF Tick, shm
  <2> QED
    BY <1>0, <2>1, Mapped DEF SetStatus
<1>8. CASE Flip(p)
  <2>1. CASE thread[p] = "set"
    <3>1. UNCHANGED <<pc, map>> /\ SetStatus(p, 1)
      BY <1>8, <2>1 DEF Flip, Pointer, shm
    <3> QED
      BY <1>0, <3>1, Mapped DEF SetStatus
  <2>2. CASE thread[p] = "clear"
    <3>1. UNCHANGED <<pc, map>> /\ SetStatus(p, 0)
      BY <1>8, <2>2 DEF Flip, Pointer, shm
    <3> SUFFICES ASSUME NEW m \in Monitor, pc[m] \in {"check", "read"}, zeroed'[map[m]] = m
                 PROVE  status'[map[m]] # 0
      BY <3>1
    <3>2. m # p /\ map[m] \in Object
      BY <1>0, <2>2, Mapped DEF Roles
    <3>3. map[m] # map[p]
      BY <1>0, <3>1, <3>2 DEF SetStatus
    <3> QED
      BY <1>0, <3>1, <3>2, <3>3 DEF SetStatus
  <2>3. CASE thread[p] \in Pointer
    BY <1>8, <2>3 DEF Flip, Pointer, shm
  <2> QED
    BY <1>8, <2>1, <2>2, <2>3 DEF Flip
<1> QED
  BY <1>1, <1>2, <1>3, <1>4, <1>5, <1>6, <1>7, <1>8 DEF MainStep, PhysicsStep, Corrupt, shm

(* The invariant is inductive.                                             *)
LEMMA NextInv == ASSUME Inv, [Next]_vars PROVE Inv'
<1> USE DEF Inv
<1>1. Values'
  BY NextValues
<1>2. CASE UNCHANGED vars
  BY <1>1, <1>2 DEF vars, calm, shm, Handles, Roles, NameOwned, Overwritten
<1>3. CASE Next
  BY <1>1, <1>3, NextHandles, NextRoles, NextNameOwned, NextOverwritten DEF Next
<1> QED
  BY <1>2, <1>3

(* Every behaviour satisfies it.                                           *)
LEMMA Invariance == Spec => []Inv
  BY InitInv, NextInv, PTL DEF Spec

-----------------------------------------------------------------------------

(* Every process, its threads and the objects under the name are where the *)
(* code can be: no step of porth-sim-ctl leaves its program.               *)
THEOREM ToolTypes == Spec => []TypeOK
<1>1. Init => Flags
  BY Zenon DEF Init, Flags
<1>2. Flags /\ [Next]_vars => Flags'
  BY NextFlags
<1>3. Inv /\ Flags => TypeOK
  BY Zenon DEF Inv, Values, Flags, TypeOK
<1> QED
  BY <1>1, <1>2, <1>3, Invariance, PTL DEF Spec

(* While the chip is online its name leads to its own registers, however   *)
(* many clients attach, fail, finish or are killed.                        *)
THEOREM NameKept == Spec => []NameWhileOnline
<1>1. Inv => NameWhileOnline
  BY DEF Inv, NameOwned, NameWhileOnline, Attached
<1> QED
  BY <1>1, Invariance, PTL

(* A launch opens an object nobody has open or mapped, and that has no     *)
(* size yet, whatever an earlier, killed chip left under the name.         *)
THEOREM FreshRegisters == Spec => FreshChip
<1> DEFINE Fresh == LET o == fd'[Launcher]
                    IN  fd[Launcher] = NoObject /\ o # NoObject
                          => o \notin sized /\ \A p \in Process : fd[p] # o /\ map[p] # o
<1>1. Inv /\ [Next]_vars => [Fresh]_vars
  <2> SUFFICES ASSUME Inv, Next, fd[Launcher] = NoObject, fd'[Launcher] # NoObject
               PROVE  fd'[Launcher] \notin sized
                        /\ \A p \in Process : fd[p] # fd'[Launcher] /\ map[p] # fd'[Launcher]
    OBVIOUS
  <2>1. /\ created \in Nat /\ sized \subseteq 1..created /\ Launcher \in Process
        /\ fd \in [Process -> 0..created] /\ map \in [Process -> 0..created]
    BY ObjectsAssumption, ToolsAssumption DEF Inv, Values, ShmTypeOK
  <2>2. PICK p \in Process : Start(p) \/ MainStep(p) \/ PhysicsStep(p) \/ Kill(p)
    BY DEF Next
  <2>3. OpenName(p) /\ p = Launcher
    BY <2>1, <2>2 DEF NoObject, Start, MainStep, PhysicsStep, Kill, UnlinkFirst, OpenName,
      SizeObject, MapObject, Reset, StartPhysics, Await, Configure, Scenario, Check, Read,
      Offline, Join, Destroy, Tick, ProcessDma, Corrupt, Flip, Unlink, Open, OpenFails, Truncate, Map,
      SetupFails, Release, Vanish, shm
  <2>4. link = NoObject
    BY <2>3 DEF OpenName, Goto, Inv, NameOwned
  <2>5. fd'[Launcher] = created + 1
    BY <2>1, <2>3, <2>4 DEF OpenName, Open, OpenFails, Create, NoObject
  <2>6. created + 1 \notin 0..created /\ created + 1 \notin 1..created
    BY <2>1
  <2> QED
    BY <2>1, <2>5, <2>6
<1> QED
  BY <1>1, Invariance, PTL DEF Spec, FreshChip

(* The zero a monitor takes for a shutdown was written by somebody else,   *)
(* never by its own constructor.                                           *)
THEOREM ZeroedByAnother == Spec => OfflineByOthers
<1> DEFINE Others == \A p \in Monitor :
             pc[p] = "check" /\ pc'[p] = "offline" => zeroed[map[p]] # p
<1>1. Inv /\ [Next]_vars => [Others]_vars
  <2> SUFFICES ASSUME Inv, Next, NEW m \in Monitor, pc[m] = "check", pc'[m] = "offline"
               PROVE  zeroed[map[m]] # m
    OBVIOUS
  <2>1. Monitor \subseteq Process /\ pc \in [Process -> Steps \cup Ended \cup {"idle"}]
    BY ToolsAssumption DEF Inv, Values
  <2>2. PICK p \in Process : Start(p) \/ MainStep(p) \/ PhysicsStep(p) \/ Kill(p)
    BY DEF Next
  <2>3. Check(p) /\ p = m
    BY <2>1, <2>2 DEF Start, MainStep, PhysicsStep, Kill, UnlinkFirst, OpenName,
      SizeObject, MapObject, Reset, StartPhysics, Await, Configure, Scenario, Check, Read,
      Offline, Join, Destroy, Tick, ProcessDma, Corrupt, Flip, Goto, AfterAttach
  <2>4. status[map[m]] = 0
    BY <2>1, <2>3 DEF Check
  <2> QED
    BY <2>4 DEF Inv, Overwritten
<1> QED
  BY <1>1, Invariance, PTL DEF Spec, OfflineByOthers

-----------------------------------------------------------------------------
(* The end of a client                                                     *)

Clients == Stress \cup Monitor
RoundsLeft(p) == Iterations - round[p]

(* A bound on the steps the main thread of a client still takes, ...       *)
StepsLeft(p) ==
  CASE pc[p] = "idle" -> 10 + 2 * RoundsLeft(p)
    [] pc[p] = "open" -> 9 + 2 * RoundsLeft(p)
    [] pc[p] = "map" -> 8 + 2 * RoundsLeft(p)
    [] pc[p] = "reset" -> 7 + 2 * RoundsLeft(p)
    [] pc[p] = "physics" -> 6 + 2 * RoundsLeft(p)
    [] pc[p] = "await" -> 5 + 2 * RoundsLeft(p)
    [] pc[p] = "check" -> 4 + 2 * RoundsLeft(p)
    [] pc[p] = "read" -> 3 + 2 * RoundsLeft(p)
    [] pc[p] = "offline" -> 3
    [] pc[p] = "scenario" -> 3
    [] pc[p] = "join" -> 2
    [] pc[p] = "release" -> 1
    [] OTHER -> 0

(* ... and on those its physics thread takes before join() returns.        *)
TicksLeft(p) ==
  IF thread[p] = "off" THEN 0 ELSE IF thread[p] = "status" THEN 1
  ELSE IF thread[p] = "dma" THEN 4 ELSE IF thread[p] = "chaos" THEN 3 ELSE 2

(* Each step of a client brings its end nearer, no other process puts it   *)
(* off, and once the destructor waits each step of the physics thread      *)
(* shortens the wait.                                                      *)
Nearer ==
  \A p \in Clients :
    /\ MainStep(p) => StepsLeft(p)' < StepsLeft(p)
    /\ StepsLeft(p)' <= StepsLeft(p)
    /\ pc[p] = "join" =>
         /\ PhysicsStep(p) => TicksLeft(p)' < TicksLeft(p)
         /\ TicksLeft(p)' <= TicksLeft(p)

(* It never passes ten steps and two for every round of a monitor, and     *)
(* runs out only before a start and after the end.                         *)
Bounded ==
  \A p \in Clients :
    /\ StepsLeft(p) \in Nat /\ StepsLeft(p) <= 10 + 2 * Iterations
    /\ StepsLeft(p) = 0 => pc[p] \in Ended

(* StepsLeft, place by place.                                              *)
Places ==
  \A p \in Clients :
    /\ pc[p] = "idle" => StepsLeft(p) = 10 + 2 * RoundsLeft(p)
    /\ pc[p] = "open" => StepsLeft(p) = 9 + 2 * RoundsLeft(p)
    /\ pc[p] = "map" => StepsLeft(p) = 8 + 2 * RoundsLeft(p)
    /\ pc[p] = "reset" => StepsLeft(p) = 7 + 2 * RoundsLeft(p)
    /\ pc[p] = "physics" => StepsLeft(p) = 6 + 2 * RoundsLeft(p)
    /\ pc[p] = "await" => StepsLeft(p) = 5 + 2 * RoundsLeft(p)
    /\ pc[p] = "check" => StepsLeft(p) = 4 + 2 * RoundsLeft(p)
    /\ pc[p] = "read" => StepsLeft(p) = 3 + 2 * RoundsLeft(p)
    /\ pc[p] = "offline" => StepsLeft(p) = 3
    /\ pc[p] = "scenario" => StepsLeft(p) = 3
    /\ pc[p] = "join" => StepsLeft(p) = 2
    /\ pc[p] = "release" => StepsLeft(p) = 1
    /\ pc[p] \in Ended => StepsLeft(p) = 0

(* They are the branches of its definition.                                *)
LEMMA Placed == Places
<1> SUFFICES ASSUME NEW p \in Clients
             PROVE  /\ pc[p] = "idle" => StepsLeft(p) = 10 + 2 * RoundsLeft(p)
                    /\ pc[p] = "open" => StepsLeft(p) = 9 + 2 * RoundsLeft(p)
                    /\ pc[p] = "map" => StepsLeft(p) = 8 + 2 * RoundsLeft(p)
                    /\ pc[p] = "reset" => StepsLeft(p) = 7 + 2 * RoundsLeft(p)
                    /\ pc[p] = "physics" => StepsLeft(p) = 6 + 2 * RoundsLeft(p)
                    /\ pc[p] = "await" => StepsLeft(p) = 5 + 2 * RoundsLeft(p)
                    /\ pc[p] = "check" => StepsLeft(p) = 4 + 2 * RoundsLeft(p)
                    /\ pc[p] = "read" => StepsLeft(p) = 3 + 2 * RoundsLeft(p)
                    /\ pc[p] = "offline" => StepsLeft(p) = 3
                    /\ pc[p] = "scenario" => StepsLeft(p) = 3
                    /\ pc[p] = "join" => StepsLeft(p) = 2
                    /\ pc[p] = "release" => StepsLeft(p) = 1
                    /\ pc[p] \in Ended => StepsLeft(p) = 0
  BY DEF Places
<1> QED
  BY ZenonT(60) DEF StepsLeft, Ended

(* What they are counted with are numbers.                                 *)
Ranges == \A p \in Clients : RoundsLeft(p) \in Nat /\ RoundsLeft(p) <= Iterations

(* The types say so.                                                       *)
LEMMA Ranged == ASSUME Values PROVE Ranges
<1> SUFFICES ASSUME NEW p \in Clients
             PROVE  RoundsLeft(p) \in Nat /\ RoundsLeft(p) <= Iterations
  BY DEF Ranges
<1>1. round[p] \in 0..Iterations /\ Iterations \in Nat
  BY ToolsAssumption DEF Values, Clients
<1> QED
  BY <1>1 DEF RoundsLeft

(* A step of the client's main thread leaves fewer to come.                *)
LEMMA Advances ==
  ASSUME Values, Roles, Places, Places', Ranges, Ranges', NEW p \in Clients, MainStep(p)
  PROVE  StepsLeft(p)' < StepsLeft(p)
<1>0. /\ p \in Process /\ p # Launcher
      /\ pc \in [Process -> Steps \cup Ended \cup {"idle"}]
      /\ round \in [Process -> 0..Iterations]
  BY ToolsAssumption DEF Values, Clients
<1>1. RoundsLeft(p) \in Nat /\ RoundsLeft(p)' \in Nat
  BY DEF Ranges
<1>2. /\ pc[p] = "check" => StepsLeft(p) = 4 + 2 * RoundsLeft(p)
      /\ pc[p] = "read" => StepsLeft(p) = 3 + 2 * RoundsLeft(p)
  BY DEF Places
<1> USE DEF Goto, Create
<1>3. CASE Read(p)
  <2>1. pc[p] = "read" /\ pc'[p] = "check" /\ round'[p] = round[p] + 1
    BY <1>0, <1>3 DEF Read
  <2>2. RoundsLeft(p)' = RoundsLeft(p) - 1
    <3>1. round[p] \in Nat /\ Iterations \in Nat
      BY <1>0, ToolsAssumption
    <3> QED
      BY <2>1, <3>1 DEF RoundsLeft
  <2>3. StepsLeft(p)' = 4 + 2 * RoundsLeft(p)'
    BY <2>1 DEF Places
  <2> QED
    BY <1>1, <1>2, <2>1, <2>2, <2>3
<1>4. CASE ~Read(p)
  <2>1. UNCHANGED round
    BY <1>0, <1>4 DEF MainStep, UnlinkFirst, OpenName, SizeObject, MapObject, Reset,
      StartPhysics, Await, Configure, Scenario, Check, Offline, Join, Destroy, calm
  <2>2. RoundsLeft(p)' = RoundsLeft(p)
    BY <2>1 DEF RoundsLeft
  <2>3. pc[p] \notin {"unlink", "truncate"}
    BY <1>0 DEF Roles
  <2>4. \/ pc[p] = "open" /\ pc'[p] \in {"map", "failed"}
        \/ pc[p] = "map" /\ pc'[p] \in {"reset", "failed"}
        \/ pc[p] = "reset" /\ pc'[p] \in {"physics", "sigbus"}
        \/ pc[p] = "physics" /\ pc'[p] = "await"
        \/ pc[p] = "await" /\ pc'[p] \in {"scenario", "check"}
        \/ pc[p] = "scenario" /\ pc'[p] = "join"
        \/ pc[p] = "check" /\ pc'[p] \in {"read", "offline", "join"}
        \/ pc[p] = "offline" /\ pc'[p] = "join"
        \/ pc[p] = "join" /\ pc'[p] = "release"
        \/ pc[p] = "release" /\ pc'[p] = "done"
    BY <1>0, <1>4, <2>3 DEF MainStep, UnlinkFirst, OpenName, SizeObject, MapObject, Reset,
      StartPhysics, Await, Configure, Scenario, Check, Offline, Join, Destroy, AfterAttach
  <2>5. \/ StepsLeft(p) = 9 + 2 * RoundsLeft(p)
             /\ StepsLeft(p)' \in {8 + 2 * RoundsLeft(p)', 0}
        \/ StepsLeft(p) = 8 + 2 * RoundsLeft(p)
             /\ StepsLeft(p)' \in {7 + 2 * RoundsLeft(p)', 0}
        \/ StepsLeft(p) = 7 + 2 * RoundsLeft(p)
             /\ StepsLeft(p)' \in {6 + 2 * RoundsLeft(p)', 0}
        \/ StepsLeft(p) = 6 + 2 * RoundsLeft(p)
             /\ StepsLeft(p)' = 5 + 2 * RoundsLeft(p)'
        \/ StepsLeft(p) = 5 + 2 * RoundsLeft(p)
             /\ StepsLeft(p)' \in {4 + 2 * RoundsLeft(p)', 3}
        \/ StepsLeft(p) = 4 + 2 * RoundsLeft(p)
             /\ StepsLeft(p)' \in {3 + 2 * RoundsLeft(p)', 3, 2}
        \/ StepsLeft(p) = 3 /\ StepsLeft(p)' = 2
        \/ StepsLeft(p) = 2 /\ StepsLeft(p)' = 1
        \/ StepsLeft(p) = 1 /\ StepsLeft(p)' = 0
    BY <2>4 DEF Places, Ended
  <2> QED
    BY <1>1, <2>2, <2>5
<1> QED
  BY <1>3, <1>4

(* What a process does not do itself leaves its place, its rounds and its  *)
(* physics thread alone.                                                   *)
LEMMA OfOthers ==
  ASSUME Values, NEW p \in Process, NEW q \in Process, q # p,
         Start(q) \/ MainStep(q) \/ PhysicsStep(q) \/ Kill(q)
  PROVE  pc'[p] = pc[p] /\ round'[p] = round[p] /\ thread'[p] = thread[p]
<1>1. pc'[p] = pc[p]
  <2>1. pc \in [Process -> Steps \cup Ended \cup {"idle"}]
    BY DEF Values
  <2> QED
    BY <2>1 DEF Start, MainStep, PhysicsStep, Kill, UnlinkFirst, OpenName, SizeObject, MapObject,
      Reset, StartPhysics, Await, Configure, Scenario, Check, Read, Offline, Join, Destroy,
      Tick, ProcessDma, Corrupt, Flip, Goto, calm
<1>2. round'[p] = round[p]
  <2>1. round \in [Process -> 0..Iterations]
    BY DEF Values
  <2> QED
    BY <2>1 DEF Start, MainStep, PhysicsStep, Kill, UnlinkFirst, OpenName, SizeObject, MapObject,
      Reset, StartPhysics, Await, Configure, Scenario, Check, Read, Offline, Join, Destroy,
      Tick, ProcessDma, Corrupt, Flip, calm
<1>3. thread'[p] = thread[p]
  <2>1. thread \in [Process -> PhysicsSteps \cup {"off"}]
    BY DEF Values
  <2> QED
    BY <2>1 DEF Start, MainStep, PhysicsStep, Kill, UnlinkFirst, OpenName, SizeObject, MapObject,
      Reset, StartPhysics, Await, Configure, Scenario, Check, Read, Offline, Join, Destroy,
      Tick, ProcessDma, Corrupt, Flip, calm
<1> QED
  BY <1>1, <1>2, <1>3

(* A thread that is told to stop writes at most what it was about to.      *)
LEMMA Stops ==
  ASSUME Values, NEW p \in Process, pc[p] = "join", PhysicsStep(p)
  PROVE  TicksLeft(p)' < TicksLeft(p)
<1>1. thread \in [Process -> PhysicsSteps \cup {"off"}]
  BY DEF Values
<1>2. \/ thread[p] = "status" /\ thread'[p] = "off"
      \/ thread[p] = "dma" /\ thread'[p] \in {"status", "chaos", "off"}
      \/ thread[p] = "chaos" /\ thread'[p] \in {"status", "set", "clear"} \cup Pointer
      \/ thread[p] \in {"set", "clear"} \cup Pointer /\ thread'[p] = "status"
  BY <1>1 DEF PhysicsStep, Tick, ProcessDma, Corrupt, Flip, AfterDma
<1> QED
  BY <1>2 DEF TicksLeft, Pointer

(* Every client is done after a bounded number of its own steps, however   *)
(* the chip, the other clients and their physics loops behave, and the     *)
(* join in its destructor returns after at most four of its other thread.  *)
THEOREM ClientsRunOut == Spec => []Bounded /\ [][Nearer]_vars
<1>1. ASSUME Inv PROVE Bounded
  <2> SUFFICES ASSUME NEW p \in Clients
               PROVE  /\ StepsLeft(p) \in Nat /\ StepsLeft(p) <= 10 + 2 * Iterations
                      /\ StepsLeft(p) = 0 => pc[p] \in Ended
    BY DEF Bounded
  <2>1. Places /\ Ranges
    BY <1>1, Placed, Ranged DEF Inv
  <2>2. RoundsLeft(p) \in Nat /\ RoundsLeft(p) <= Iterations /\ Iterations \in Nat
    BY <2>1, ToolsAssumption DEF Ranges
  <2>3. \/ pc[p] \in {"idle", "open", "map", "reset", "physics", "await", "check", "read"}
        \/ pc[p] \in {"offline", "scenario", "join", "release"}
        \/ pc[p] \in Ended
    <3>1. /\ p \in Process /\ p # Launcher
          /\ pc \in [Process -> Steps \cup Ended \cup {"idle"}]
      BY <1>1, ToolsAssumption DEF Inv, Values, Clients
    <3>2. pc[p] \notin {"unlink", "truncate", "config", "online"}
      BY <1>1, <3>1 DEF Inv, Roles
    <3> QED
      BY <3>1, <3>2 DEF Steps
  <2>4. CASE pc[p] \in {"idle", "open", "map", "reset", "physics", "await", "check", "read"}
    <3>1. \E k \in 3..10 : StepsLeft(p) = k + 2 * RoundsLeft(p)
      BY <2>1, <2>4 DEF Places
    <3> QED
      BY <2>2, <3>1
  <2>5. CASE pc[p] \in {"offline", "scenario", "join", "release"}
    <3>1. StepsLeft(p) \in 1..3
      BY <2>1, <2>5 DEF Places
    <3> QED
      BY <2>2, <3>1
  <2>6. CASE pc[p] \in Ended
    <3>1. StepsLeft(p) = 0
      BY <2>1, <2>6 DEF Places
    <3> QED
      BY <2>2, <2>6, <3>1
  <2> QED
    BY <2>3, <2>4, <2>5, <2>6
<1>2. ASSUME Inv, Places, Places', Ranges, Ranges', Bounded, Bounded', [Next]_vars
      PROVE  [Nearer]_vars
  <2> SUFFICES ASSUME Next, NEW p \in Clients
               PROVE  /\ MainStep(p) => StepsLeft(p)' < StepsLeft(p)
                      /\ StepsLeft(p)' <= StepsLeft(p)
                      /\ pc[p] = "join" =>
                           /\ PhysicsStep(p) => TicksLeft(p)' < TicksLeft(p)
                           /\ TicksLeft(p)' <= TicksLeft(p)
    BY <1>2 DEF Nearer
  <2>1. MainStep(p) => StepsLeft(p)' < StepsLeft(p)
    BY <1>2, Advances DEF Inv
  <2>2. p \in Process /\ p # Launcher
    BY ToolsAssumption DEF Clients
  <2>3. pc[p] = "join" /\ PhysicsStep(p) => TicksLeft(p)' < TicksLeft(p)
    BY <1>2, <2>2, Stops DEF Inv
  <2>4. /\ StepsLeft(p) \in Nat /\ StepsLeft(p)' \in Nat
        /\ TicksLeft(p) \in Nat /\ TicksLeft(p)' \in Nat
    BY <1>2 DEF Bounded, TicksLeft
  <2>5. StepsLeft(p)' <= StepsLeft(p) /\ (pc[p] = "join" => TicksLeft(p)' <= TicksLeft(p))
    <3>1. PICK q \in Process : Start(q) \/ MainStep(q) \/ PhysicsStep(q) \/ Kill(q)
      BY DEF Next
    <3>2. CASE q # p
      <4>1. pc'[p] = pc[p] /\ round'[p] = round[p] /\ thread'[p] = thread[p]
        BY <1>2, <2>2, <3>1, <3>2, OfOthers DEF Inv
      <4>2. StepsLeft(p)' = StepsLeft(p) /\ TicksLeft(p)' = TicksLeft(p)
        BY <4>1 DEF StepsLeft, TicksLeft, RoundsLeft
      <4> QED
        BY <2>4, <4>2
    <3>3. CASE Start(p)
      <4>1. pc[p] = "idle" /\ pc'[p] = "open" /\ round' = round
        BY <1>2, <2>2, <3>3 DEF Start, Create, Goto, Inv, Values
      <4>2. /\ StepsLeft(p) = 10 + 2 * RoundsLeft(p)
            /\ StepsLeft(p)' = 9 + 2 * RoundsLeft(p)'
        BY <1>2, <4>1 DEF Places
      <4>3. RoundsLeft(p)' = RoundsLeft(p) /\ RoundsLeft(p) \in Nat
        BY <1>2, <4>1 DEF Ranges, RoundsLeft
      <4>4. pc[p] # "join"
        BY <4>1
      <4>5. StepsLeft(p)' <= StepsLeft(p)
        BY <4>2, <4>3
      <4> QED
        BY <4>4, <4>5
    <3>4. CASE MainStep(p)
      <4>1. pc[p] = "join" => thread' = thread
        BY <3>4 DEF MainStep, UnlinkFirst, OpenName, SizeObject, MapObject, Reset, StartPhysics,
          Await, Configure, Scenario, Check, Read, Offline, Join, Destroy, calm, Goto
      <4>2. pc[p] = "join" => TicksLeft(p)' = TicksLeft(p)
        BY <4>1 DEF TicksLeft
      <4>3. StepsLeft(p)' <= StepsLeft(p)
        BY <2>1, <2>4, <3>4
      <4> QED
        BY <2>4, <4>2, <4>3
    <3>5. CASE PhysicsStep(p)
      <4>1. UNCHANGED <<pc, round>> \/ pc'[p] \in Ended
        BY <1>2, <2>2, <3>5 DEF PhysicsStep, Tick, ProcessDma, Corrupt, Flip, Ended, Inv, Values
      <4>2. StepsLeft(p)' = StepsLeft(p) \/ StepsLeft(p)' = 0
        <5>1. CASE UNCHANGED <<pc, round>>
          BY <5>1 DEF StepsLeft, RoundsLeft
        <5>2. CASE pc'[p] \in Ended
          BY <1>2, <5>2 DEF Places
        <5> QED
          BY <4>1, <5>1, <5>2
      <4>3. pc[p] = "join" => TicksLeft(p)' <= TicksLeft(p)
        BY <2>3, <2>4, <3>5
      <4> QED
        BY <2>4, <4>2, <4>3
    <3>6. CASE Kill(p)
      <4>1. pc'[p] \in Ended /\ thread'[p] = "off"
        BY <1>2, <2>2, <3>6 DEF Kill, Ended, Inv, Values
      <4>2. StepsLeft(p)' = 0 /\ TicksLeft(p)' = 0
        BY <1>2, <4>1 DEF Places, TicksLeft
      <4> QED
        BY <2>4, <4>2
    <3> QED
      BY <3>1, <3>2, <3>3, <3>4, <3>5, <3>6
  <2> QED
    BY <2>1, <2>3, <2>5
<1>3. Inv => Ranges
  BY Ranged DEF Inv
<1> QED
  BY <1>1, <1>2, <1>3, Placed, Invariance, PTL DEF Spec

=============================================================================
