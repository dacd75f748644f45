---------------------------- MODULE PorthShuttle ----------------------------
(***************************************************************************)
(* include/porth/PorthShuttle.hpp over PorthHugePage.hpp: the pinned       *)
(* memory a driver and the device share, holding the ring.                 *)
(*                                                                         *)
(* The ring is the bounded FIFO that PorthRingBuffer implements (theorem   *)
(* Refinement), with push() and pop() as single steps; descriptors are not *)
(* inspected, so their number stands for the queue.                        *)
(***************************************************************************)
EXTENDS PorthDeviceLayout

CONSTANT CAPACITY   \* SIZE - 1 descriptors fit in the ring

ASSUME CapacityAssumption == CAPACITY \in Nat \ {0}

VARIABLES shuttle,   \* where the live shuttle is mapped, or None
          ring       \* descriptors in its ring

shuttleVars == <<shuttle, ring>>

NoShuttle == shuttle = None /\ ring = 0

(* PorthShuttle(): maps the page and constructs the empty ring on it.      *)
MapShuttle(s) == shuttle = None /\ shuttle' = s /\ ring' = 0

(* ~PorthShuttle(): the ring is destroyed, then the page unmapped; what is *)
(* still queued is gone.                                                   *)
UnmapShuttle == shuttle' = None /\ ring' = 0

(* Dereferencing address a reaches the live ring.                          *)
Live(a) == shuttle # None /\ a = AddrOf(shuttle)

Push == ring < CAPACITY /\ ring' = ring + 1 /\ UNCHANGED shuttle
PushFull == ring = CAPACITY /\ UNCHANGED shuttleVars
Pop == ring > 0 /\ ring' = ring - 1 /\ UNCHANGED shuttle
PopEmpty == ring = 0 /\ UNCHANGED shuttleVars
=============================================================================
