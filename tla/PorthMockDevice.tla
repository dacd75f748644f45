--------------------------- MODULE PorthMockDevice --------------------------
(***************************************************************************)
(* The register file in POSIX shared memory, PorthMockDevice.hpp: one name *)
(* under /dev/shm, the objects created under it, and what each process has *)
(* open and mapped.  An unlinked object lives on while it is mapped.       *)
(***************************************************************************)
EXTENDS Naturals

CONSTANTS Process,
          MaxObjects   \* bound on the objects ever created under the name

ASSUME ObjectsAssumption == MaxObjects \in Nat \ {0}

VARIABLES link,     \* the object the name refers to
          created,  \* how many objects there have been
          sized,    \* the objects ftruncate() has given their size
          fd, map   \* per process, the object it has open and mapped

shm == <<link, created, sized, fd, map>>

NoObject == 0
Object == 1..MaxObjects

ShmTypeOK ==
  /\ created \in 0..MaxObjects
  /\ link \in 0..created
  /\ sized \subseteq 1..created
  /\ fd \in [Process -> 0..created] /\ map \in [Process -> 0..created]

ShmInit ==
  /\ link = NoObject /\ created = 0 /\ sized = {}
  /\ fd = [p \in Process |-> NoObject] /\ map = fd

(* Faulty variant of Unlink: the constructor reuses what the name holds.   *)
UnlinkSkipped == UNCHANGED shm

(* shm_unlink() at the start of an owner's constructor.                    *)
Unlink == link' = NoObject /\ UNCHANGED <<created, sized, fd, map>>

(* shm_open(): with O_CREAT a missing object is made, an existing one is   *)
(* opened, since O_EXCL is not given.                                      *)
Open(p, create) ==
  /\ IF link = NoObject
     THEN /\ create /\ created < MaxObjects
          /\ created' = created + 1 /\ link' = created'
     ELSE UNCHANGED <<link, created>>
  /\ fd' = [fd EXCEPT ![p] = link']
  /\ UNCHANGED <<sized, map>>

(* shm_open() fails: there is nothing to open and the client may not       *)
(* create it.  The constructor throws.                                     *)
OpenFails(create) ==
  link = NoObject /\ ~create /\ UNCHANGED <<link, created, sized, fd, map>>

(* ftruncate(), the owner only.                                            *)
Truncate(p) ==
  /\ sized' = sized \cup {fd[p]}
  /\ UNCHANGED <<link, created, fd, map>>

(* mmap() and close().                                                     *)
Map(p) ==
  /\ map' = [map EXCEPT ![p] = fd[p]]
  /\ fd' = [fd EXCEPT ![p] = NoObject]
  /\ UNCHANGED <<link, created, sized>>

(* ftruncate() or mmap() fails: the descriptor is closed, the constructor  *)
(* throws, the name stays.                                                 *)
SetupFails(p) ==
  /\ fd' = [fd EXCEPT ![p] = NoObject]
  /\ UNCHANGED <<link, created, sized, map>>

(* Faulty variant of Release: every process unlinks the name.              *)
ReleaseByAll(p, owner) ==
  /\ map' = [map EXCEPT ![p] = NoObject] /\ link' = NoObject
  /\ UNCHANGED <<created, sized, fd>>

(* ~PorthMockDevice()                                                      *)
Release(p, owner) ==
  /\ map' = [map EXCEPT ![p] = NoObject]
  /\ link' = IF owner THEN NoObject ELSE link
  /\ UNCHANGED <<created, sized, fd>>

(* The process is killed: the kernel drops its descriptors and mappings,   *)
(* no destructor runs, the name stays.                                     *)
Vanish(p) ==
  /\ fd' = [fd EXCEPT ![p] = NoObject] /\ map' = [map EXCEPT ![p] = NoObject]
  /\ UNCHANGED <<link, created, sized>>
=============================================================================
