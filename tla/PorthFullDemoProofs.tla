------------------------ MODULE PorthFullDemoProofs -------------------------
(***************************************************************************)
(* Proofs about PorthFullDemo: for any ring, timeout, number of rounds and *)
(* of runs, and any number of objects created under the telemetry name.    *)
(***************************************************************************)
EXTENDS PorthFullDemo, PorthMetricProofs, SequenceTheorems, TLAPS

Objects == {"twin", "vfio", "driver", "portal", "metric", "hub"}
Device == {"twin", "vfio"}
Reporting == {"loop", "record", "park", "print"}

(* The run has not been cut short: its destructors are still to come, or   *)
(* have all been called.                                                   *)
Orderly == pc \notin {"killed", "crashed"}

(* The objects are constructed in one order, whatever the device.          *)
Stacked ==
  /\ live \in Seq(Objects) /\ Len(live) <= 5
  /\ Len(live) >= 1 => live[1] \in Device
  /\ Len(live) >= 2 => live[2] = "driver"
  /\ Len(live) >= 3 => live[3] = "portal"
  /\ Len(live) >= 4 => live[4] = "metric"
  /\ Len(live) >= 5 => live[5] = "hub"

(* How many of them there are at each step.                                *)
Height ==
  /\ pc \in {"idle", "twin", "vfio", "exited"} => Len(live) = 0
  /\ pc \in {"alloc", "upgrade", "watchdog"} => Len(live) = 1
  /\ pc = "bind" => Len(live) = 2
  /\ pc \in {"open", "handshake"} => Len(live) = 3
  /\ pc \in {"hub", "size", "map", "counters"} => Len(live) = 4
  /\ pc \in Reporting => Len(live) = 5
  /\ pc \in Device \cup {"idle", "alloc", "upgrade", "watchdog", "bind", "open", "handshake",
                         "hub", "size", "map", "counters", "unwind"} \cup Reporting \cup Ended

(* The pinned page belongs to the driver, and the flags name its           *)
(* allocator.                                                              *)
Allocator == IF m_is_mmaped THEN "huge" ELSE Deallocator
Paged ==
  Orderly =>
    /\ pc = "upgrade" => m_ptr = Deallocator
    /\ pc = "watchdog" \/ Len(live) >= 2 => m_ptr = Allocator
    /\ m_ptr # "none" =>
         \/ pc \in {"upgrade", "watchdog"} \/ Len(live) >= 2
         \/ pc \in {"unwind", "exited"} /\ thrown = "upgrade" /\ ~m_is_mmaped

(* The kernel holds memory and socket only while there is a portal.        *)
Registered == Orderly /\ (m_umem \/ m_xsk) => Len(live) >= 3

(* Descriptors are held by the device, by its constructor or by a          *)
(* constructor that threw.                                                 *)
Acquired ==
  Orderly /\ vfio # {} =>
    \/ pc = "vfio" \/ (Len(live) >= 1 /\ live[1] = "vfio")
    \/ pc \in {"unwind", "exited"} /\ thrown = "vfio"

(* The name, its objects and the engine's hold on them.                    *)
Attached ==
  /\ Shm!ShmTypeOK
  /\ total_packets \in [Shm!Object -> Nat]
  /\ fd[Engine] # NoObject <=> pc \in {"size", "map"}
  /\ map[Engine] # NoObject <=> pc = "counters" \/ (Orderly /\ Len(live) = 5)
  /\ pc \in {"unwind", "exited"} /\ thrown = "none" /\ Len(live) < 5 => link = NoObject

(* Until the hub is opened, and for good in a run that never got there,    *)
(* the name is as the run found it.                                        *)
BeforeHub == {"twin", "vfio", "alloc", "upgrade", "watchdog", "bind", "open", "handshake", "hub"}
NameFound ==
  /\ pc \in BeforeHub => link = found
  /\ pc \in {"unwind", "exited"} /\ thrown \notin {"none", "size"}
       => link = found /\ map[Engine] = NoObject

(* A run that has not begun to unwind has not thrown.                      *)
NotThrown == pc \notin Ended \cup {"unwind"} => thrown = "none"

(* The BAR is mapped by the last call of the VFIO constructor.             *)
BarLast ==
  /\ pc = "vfio" => call \in 0..8 /\ "bar" \notin vfio
  /\ pc \in {"unwind", "exited"} /\ thrown = "vfio" => "bar" \notin vfio

(* The samples are those of this run.                                      *)
Sampled ==
  /\ m_samples \in Seq(Latency)
  /\ Orderly /\ Len(live) # 5 /\ pc \notin {"unwind", "exited"} => m_samples = << >>
  /\ pc = "record" => Len(m_samples) < ITERATIONS

Inv == /\ Stacked /\ Height /\ Paged /\ Registered /\ Acquired /\ Attached /\ Sampled
       /\ NotThrown /\ NameFound /\ BarLast
       /\ FreedByItsAllocator /\ CountsThisRun

-----------------------------------------------------------------------------
(* The stack of objects                                                    *)

(* The object main() constructs when n objects exist.                      *)
Fits(x, n) ==
  \/ n = 0 /\ x \in Device
  \/ n = 1 /\ x = "driver"
  \/ n = 2 /\ x = "portal"
  \/ n = 3 /\ x = "metric"
  \/ n = 4 /\ x = "hub"

(* A construction puts the object on top; the order is right if it is the  *)
(* object for that height.                                                 *)
LEMMA Pushed ==
  ASSUME Stacked, NEW x, live' = Append(live, x), Fits(x, Len(live))
  PROVE  /\ Stacked' /\ Len(live') = Len(live) + 1
         /\ Len(live) >= 1 => live'[1] = live[1]
         /\ Len(live) = 0 => live'[1] = x
<1>1. live \in Seq(Objects) /\ Len(live) \in Nat /\ x \in Objects
  BY DEF Stacked, Fits, Objects, Device
<1>2. /\ live' \in Seq(Objects) /\ Len(live') = Len(live) + 1
      /\ \A i \in 1..Len(live) : live'[i] = live[i]
      /\ live'[Len(live) + 1] = x
  BY <1>1, AppendProperties
<1>3. /\ Len(live) = 0 => live'[1] = x
      /\ \A i \in 1..5 : Len(live) >= i => live'[i] = live[i]
  BY <1>1, <1>2
<1>4. /\ Len(live) = 0 \/ Len(live) = 1 \/ Len(live) = 2 \/ Len(live) = 3 \/ Len(live) = 4
      /\ Len(live) = 0 => x \in Device
      /\ Len(live) = 1 => x = "driver"
      /\ Len(live) = 2 => x = "portal"
      /\ Len(live) = 3 => x = "metric"
      /\ Len(live) = 4 => x = "hub"
  BY <1>1 DEF Fits
<1>5. /\ Len(live) >= 1 => live[1] \in Device
      /\ Len(live) >= 2 => live[2] = "driver"
      /\ Len(live) >= 3 => live[3] = "portal"
      /\ Len(live) >= 4 => live[4] = "metric"
  BY DEF Stacked
<1>6. Stacked'
  <2> SUFFICES /\ live' \in Seq(Objects) /\ Len(live') <= 5
               /\ Len(live') >= 1 => live'[1] \in Device
               /\ Len(live') >= 2 => live'[2] = "driver"
               /\ Len(live') >= 3 => live'[3] = "portal"
               /\ Len(live') >= 4 => live'[4] = "metric"
               /\ Len(live') >= 5 => live'[5] = "hub"
    BY DEF Stacked
  <2>1. CASE Len(live) = 0
    BY <1>2, <1>3, <1>4, <2>1
  <2>2. CASE Len(live) = 1
    BY <1>2, <1>3, <1>4, <1>5, <2>2
  <2>3. CASE Len(live) = 2
    BY <1>2, <1>3, <1>4, <1>5, <2>3
  <2>4. CASE Len(live) = 3
    BY <1>2, <1>3, <1>4, <1>5, <2>4
  <2>5. CASE Len(live) = 4
    BY <1>2, <1>3, <1>4, <1>5, <2>5
  <2> QED
    BY <1>4, <2>1, <2>2, <2>3, <2>4, <2>5
<1> QED
  BY <1>2, <1>3, <1>6

(* A destruction takes off the object on top.                              *)
LEMMA Popped ==
  ASSUME Stacked, live # << >>, live' = SubSeq(live, 1, Len(live) - 1)
  PROVE  /\ Stacked' /\ Len(live') = Len(live) - 1
         /\ Len(live) \in 1..5 /\ Fits(live[Len(live)], Len(live) - 1)
         /\ Len(live) >= 2 => live'[1] = live[1]
<1>1. live \in Seq(Objects) /\ Len(live) \in Nat /\ Len(live) <= 5
  BY DEF Stacked
<1>2. Len(live) # 0
  BY <1>1, EmptySeq
<1> DEFINE n == Len(live) - 1
<1>3. n \in Nat /\ n \in Int /\ 1 \in Int /\ \A i \in 1..n : live[i] \in Objects
  BY <1>1, <1>2
<1>4. /\ SubSeq(live, 1, n) \in Seq(Objects)
      /\ Len(SubSeq(live, 1, n)) = IF 1 <= n THEN n - 1 + 1 ELSE 0
      /\ \A i \in 1..(n - 1 + 1) : SubSeq(live, 1, n)[i] = live[1 + i - 1]
  BY <1>3, SubSeqProperties
<1>5. /\ live' \in Seq(Objects) /\ Len(live') = n
      /\ \A i \in 1..n : live'[i] = live[i]
  <2>1. live' = SubSeq(live, 1, n)
    OBVIOUS
  <2> HIDE DEF n
  <2>2. Len(live') = n
    BY <1>3, <1>4, <2>1
  <2>3. ASSUME NEW i \in 1..n PROVE live'[i] = live[i]
    <3>1. i \in 1..(n - 1 + 1) /\ 1 + i - 1 = i
      BY <1>3
    <3> QED
      BY <1>4, <2>1, <3>1
  <2> QED
    BY <1>4, <2>1, <2>2, <2>3
<1>6. Stacked'
  BY <1>1, <1>2, <1>5 DEF Stacked
<1>7. Len(live) \in 1..5 /\ Fits(live[Len(live)], n)
  <2> DEFINE k == Len(live)
  <2>0. k \in Nat /\ k # 0 /\ k <= 5 /\ n = k - 1
    BY <1>1, <1>2
  <2>1. CASE k = 1
    BY <2>1 DEF Stacked, Fits
  <2>2. CASE k = 2
    BY <2>2 DEF Stacked, Fits
  <2>3. CASE k = 3
    BY <2>3 DEF Stacked, Fits
  <2>4. CASE k = 4
    BY <2>4 DEF Stacked, Fits
  <2>5. CASE k = 5
    BY <2>5 DEF Stacked, Fits
  <2> HIDE DEF k
  <2>6. k = 1 \/ k = 2 \/ k = 3 \/ k = 4 \/ k = 5
    <3>1. \A m \in Nat : m # 0 /\ m <= 5 => m = 1 \/ m = 2 \/ m = 3 \/ m = 4 \/ m = 5
      OBVIOUS
    <3> QED
      BY <2>0, <3>1, Zenon
  <2> QED
    BY <2>1, <2>2, <2>3, <2>4, <2>5, <2>6, Zenon
<1> QED
  BY <1>1, <1>2, <1>5, <1>6, <1>7

(* Program counter and stack change by the engine's own steps only.        *)
LEMMA MainSteps ==
  ASSUME [Next]_vars
  PROVE  UNCHANGED main \/ Start \/ EngineStep \/ Kill
  BY DEF Next, HardwareReady, Drain, Porth_stat, vars

(* Construction in order, destruction in reverse.                          *)
LEMMA NextStack ==
  ASSUME Stacked, Height, [Next]_vars
  PROVE  Stacked' /\ Height'
<1>0. live \in Seq(Objects) /\ Len(live) \in Nat
  BY DEF Stacked
<1> USE DEF At, Goto, Throw, Construct, Device, Reporting, Ended
<1>1. CASE UNCHANGED main
  BY <1>1 DEF main, Stacked, Height
<1>2. CASE Start
  <2>1. live' = << >> /\ pc' \in Device
    BY <1>2 DEF Start
  <2> QED
    BY <2>1 DEF Stacked, Height
<1>3. CASE TwinUp \/ VfioUp
  <2>1. CASE \E x \in Device : /\ pc \in Device /\ pc' = "alloc" /\ live' = Append(live, x)
    <3>1. PICK x \in Device : live' = Append(live, x)
      BY <2>1
    <3>2. Len(live) = 0 /\ Fits(x, Len(live))
      BY <2>1 DEF Height, Fits
    <3> QED
      BY <2>1, <3>1, <3>2, Pushed DEF Height
  <2>2. CASE /\ UNCHANGED live /\ pc \in Device
             /\ pc' \in {"vfio", "unwind"}
    BY <2>2 DEF Stacked, Height
  <2> QED
    BY <1>3, <2>1, <2>2 DEF TwinUp, VfioUp
<1>4. CASE Alloc \/ Pin
  BY <1>4 DEF Alloc, Pin, Stacked, Height
<1>5. CASE DriverUp
  <2>1. CASE Construct("driver", "bind")
    <3>1. Len(live) = 1 /\ Fits("driver", Len(live))
      BY <1>5 DEF DriverUp, Height, Fits
    <3> QED
      BY <2>1, <3>1, Pushed DEF Height
  <2>2. CASE Throw
    BY <1>5, <2>2 DEF DriverUp, Stacked, Height
  <2> QED
    BY <1>5, <2>1, <2>2 DEF DriverUp
<1>6. CASE Bind
  <2>1. live' = Append(live, "portal") /\ pc = "bind" /\ pc' \in {"open", "unwind"}
    BY <1>6 DEF Bind
  <2> QED
    <3>1. Len(live) = 2 /\ Fits("portal", Len(live))
      BY <2>1 DEF Height, Fits
    <3> QED
      BY <2>1, <3>1, Pushed DEF Height
<1>7. CASE OpenPortal
  BY <1>7 DEF OpenPortal, Stacked, Height
<1>8. CASE Handshake
  <2>1. CASE Construct("metric", "hub")
    <3>1. Len(live) = 3 /\ Fits("metric", Len(live))
      BY <1>8 DEF Handshake, Height, Fits
    <3> QED
      BY <2>1, <3>1, Pushed DEF Height
  <2>2. CASE Throw \/ Goto("handshake")
    BY <1>8, <2>2 DEF Handshake, Stacked, Height
  <2> QED
    BY <1>8, <2>1, <2>2 DEF Handshake
<1>9. CASE Hub
  <2>1. CASE At("counters") /\ Construct("hub", "loop")
    <3>1. Len(live) = 4 /\ Fits("hub", Len(live))
      BY <2>1 DEF Height, Fits
    <3> QED
      BY <2>1, <3>1, Pushed DEF Height
  <2>2. CASE UNCHANGED live
    BY <1>9, <2>2 DEF Hub, Stacked, Height
  <2> QED
    BY <1>9, <2>1, <2>2 DEF Hub
<1>10. CASE Transmit \/ RecordLatency \/ Park
  BY <1>10 DEF Transmit, RecordLatency, Park, Stacked, Height
<1>11. CASE Unwind
  <2>1. live # << >> /\ live' = SubSeq(live, 1, Len(live) - 1) /\ pc = "unwind" /\ UNCHANGED pc
    BY <1>11 DEF Unwind
  <2> QED
    BY <2>1, Popped DEF Height
<1>12. CASE Exit \/ Kill
  BY <1>12 DEF Exit, Kill, Stacked, Height
<1> QED
  BY <1>1, <1>2, <1>3, <1>4, <1>5, <1>6, <1>7, <1>8, <1>9, <1>10, <1>11, <1>12, MainSteps
  DEF EngineStep

(* The stack shrinks by its top in an unwinding step.                      *)
LEMMA Unwinds ==
  ASSUME Stacked, Unwind
  PROVE  /\ pc = "unwind" /\ UNCHANGED <<pc, thrown>>
         /\ Len(live) \in 1..5 /\ Len(live') = Len(live) - 1
         /\ Fits(live[Len(live)], Len(live) - 1)
         /\ Len(live) >= 2 => live'[1] = live[1]
<1>1. pc = "unwind" /\ UNCHANGED <<pc, thrown>> /\ live # << >>
      /\ live' = SubSeq(live, 1, Len(live) - 1)
  BY DEF Unwind, At
<1> QED
  BY <1>1, Popped

-----------------------------------------------------------------------------
(* The pinned page                                                         *)

(* A page given back to the allocator the flags name is not misfreed.      *)
LEMMA Freed ==
  ASSUME FreedByItsAllocator, m_ptr = Allocator, FreePage
  PROVE  FreedByItsAllocator' /\ m_ptr' = "none"
  BY Zenon DEF FreedByItsAllocator, Allocator, FreePage

(* The flags always name the allocator that is asked to take it back.      *)
LEMMA NextPaged ==
  ASSUME Stacked, Height, Paged, FreedByItsAllocator, [Next]_vars
  PROVE  Paged' /\ FreedByItsAllocator'
<1>0. Height' /\ Len(live) \in Nat /\ Len(live') \in Nat
  BY NextStack DEF Stacked
<1> USE DEF At, Goto, Throw, Construct, Orderly
<1>1. CASE UNCHANGED <<main, page>>
  BY <1>1 DEF main, page, Paged, Allocator, Deallocator, FreedByItsAllocator
<1>2. CASE Start
  <2>1. /\ m_ptr' = "none" /\ misfreed' = misfreed /\ pc' \in Device /\ Len(live') = 0
    BY <1>2, <1>0 DEF Start, Height, Device
  <2> QED
    BY <2>1 DEF Paged, FreedByItsAllocator, Device
<1>3. CASE TwinUp \/ VfioUp
  <2>1. /\ UNCHANGED page /\ pc \in Device /\ Len(live) = 0
        /\ pc' \in {"alloc", "vfio", "unwind"} /\ Len(live') <= 1
    BY <1>3, <1>0 DEF TwinUp, VfioUp, Height, Device
  <2>2. m_ptr = "none"
    BY <2>1 DEF Paged, Device
  <2> QED
    BY <2>1, <2>2 DEF page, Paged, FreedByItsAllocator
<1>4. CASE Alloc
  <2>1. /\ Len(live') = 1 /\ UNCHANGED misfreed
        /\ \/ m_ptr' = "none" /\ pc' = "unwind"
           \/ m_ptr' = Deallocator' /\ pc' = "upgrade"
    BY <1>4, <1>0 DEF Alloc, AllocateInitialBuffer, Deallocator, Height
  <2> QED
    BY <2>1 DEF Paged, FreedByItsAllocator
<1>5. CASE Pin
  <2>1. Len(live') = 1 /\ m_ptr = Deallocator
    BY <1>5, <1>0 DEF Pin, Height, Paged
  <2>2. CASE Upgrade /\ pc' = "watchdog"
    BY <2>1, <2>2 DEF Upgrade, Paged, Allocator, FreedByItsAllocator
  <2>3. CASE NoUpgrade /\ (pc' = "watchdog" \/ (pc' = "unwind" /\ thrown' = "upgrade"))
    BY <2>1, <2>3 DEF NoUpgrade, Paged, Allocator, Deallocator, FreedByItsAllocator
  <2> QED
    BY <1>5, <2>2, <2>3 DEF Pin
<1>6. CASE DriverUp
  <2>1. m_ptr = Allocator
    BY <1>6 DEF DriverUp, Paged
  <2>2. CASE pc' = "bind" /\ UNCHANGED page
    <3>1. Allocator' = Allocator /\ m_ptr' = m_ptr /\ misfreed' = misfreed
      BY <2>2 DEF page, Allocator, Deallocator
    <3>2. Len(live') = 2
      BY <1>0, <2>2 DEF Height
    <3>3. Paged'
      BY <2>1, <2>2, <3>1, <3>2 DEF Paged
    <3>4. FreedByItsAllocator'
      BY <3>1 DEF FreedByItsAllocator
    <3> QED
      BY <3>3, <3>4
  <2>3. CASE pc' = "unwind" /\ UNCHANGED live /\ FreePage
    <3>1. Len(live') = 1 /\ m_ptr' = "none" /\ FreedByItsAllocator'
      BY <1>6, <2>1, <2>3, Freed DEF DriverUp, Height
    <3> QED
      BY <2>3, <3>1 DEF Paged
  <2> QED
    BY <1>6, <2>2, <2>3 DEF DriverUp
<1>7. CASE Bind \/ OpenPortal \/ Handshake \/ Hub \/ Transmit \/ RecordLatency \/ Park
  <2>1. UNCHANGED page
    BY <1>7 DEF Bind, OpenPortal, Handshake, Hub, Transmit, RecordLatency, Park
  <2>2. /\ pc \in {"bind", "open", "handshake", "hub", "size", "map", "counters"} \cup Reporting
        /\ pc' \in {"open", "handshake", "hub", "size", "map", "counters", "unwind", "crashed"}
                     \cup Reporting
    BY <1>7 DEF Bind, OpenPortal, Handshake, Hub, Transmit, RecordLatency, Park, Reporting
  <2>3. Len(live) >= 2
    BY <2>2 DEF Height, Reporting
  <2>4. m_ptr = Allocator
    BY <2>2, <2>3 DEF Paged, Reporting
  <2>5. Len(live') >= 2
    <3>1. CASE UNCHANGED live
      BY <2>3, <3>1
    <3>2. CASE pc' \notin {"unwind", "crashed"}
      BY <1>0, <2>2, <3>2 DEF Height, Reporting
    <3>3. CASE Bind
      BY <3>3, <2>3, <1>0, Pushed DEF Bind, Height, Fits
    <3> QED
      BY <1>7, <2>2, <3>1, <3>2, <3>3 DEF OpenPortal, Handshake, Hub, Transmit,
        RecordLatency, Park
  <2> QED
    BY <2>1, <2>2, <2>4, <2>5
    DEF page, Paged, Allocator, Deallocator, FreedByItsAllocator, Reporting
<1>8. CASE Unwind
  <2>1. CASE Len(live) = 2
    <3>1. FreePage /\ Len(live') = 1 /\ m_ptr = Allocator /\ pc' = "unwind"
      BY <1>8, <2>1, Unwinds DEF Unwind, Fits, Paged
    <3> QED
      BY <3>1, Freed DEF Paged
  <2>2. CASE Len(live) # 2
    <3>1. UNCHANGED <<pc, thrown>> /\ pc = "unwind" /\ Len(live) \in 1..5
          /\ Len(live') = Len(live) - 1 /\ live[Len(live)] # "driver"
      BY <1>8, <2>2, Unwinds DEF Fits, Device
    <3>2. UNCHANGED page
      BY <1>8, <3>1 DEF Unwind
    <3> QED
      BY <2>2, <3>1, <3>2 DEF page, Paged, Allocator, Deallocator, FreedByItsAllocator
  <2> QED
    BY <2>1, <2>2
<1>9. CASE Exit
  BY <1>0, <1>9 DEF Exit, page, Paged, Allocator, Deallocator, FreedByItsAllocator
<1>10. CASE Kill
  BY <1>10 DEF Kill, page, Paged, FreedByItsAllocator
<1> QED
  BY <1>1, <1>2, <1>3, <1>4, <1>5, <1>6, <1>7, <1>8, <1>9, <1>10
  DEF Next, EngineStep, HardwareReady, Drain, Porth_stat, vars

-----------------------------------------------------------------------------
(* The kernel's hold on memory and descriptors                             *)

(* A portal that is there, however it ends, unregisters first.             *)
LEMMA NextRegistered ==
  ASSUME Stacked, Height, Registered, [Next]_vars
  PROVE  Registered'
<1>0. Stacked' /\ Height' /\ Len(live) \in Nat /\ Len(live') \in Nat
  BY NextStack DEF Stacked
<1> USE DEF At, Goto, Throw, Construct, Orderly
<1>1. CASE UNCHANGED <<main, xdp>>
  BY <1>1 DEF main, xdp, Registered
<1>2. CASE Start
  BY <1>2 DEF Start, Registered
<1>3. CASE TwinUp \/ VfioUp \/ Alloc \/ Pin \/ DriverUp
  <2>1. UNCHANGED xdp /\ pc \in {"twin", "vfio", "alloc", "upgrade", "watchdog"}
    BY <1>3 DEF TwinUp, VfioUp, Alloc, Pin, DriverUp
  <2>2. Len(live) = 0 \/ Len(live) = 1
    BY <2>1 DEF Height
  <2>3. ~m_umem /\ ~m_xsk
    BY <1>0, <2>1, <2>2 DEF Registered
  <2> QED
    BY <2>1, <2>3 DEF xdp, Registered
<1>4. CASE Bind
  <2>1. Len(live) = 2 /\ live' = Append(live, "portal")
    BY <1>4 DEF Bind, Height
  <2>2. Len(live') = 3
    BY <2>1, Pushed DEF Fits
  <2> QED
    BY <2>2 DEF Registered
<1>5. CASE OpenPortal \/ Handshake \/ Hub \/ Transmit \/ RecordLatency \/ Park
  <2>1. pc \in {"open", "handshake", "hub", "size", "map", "counters"} \cup Reporting
    BY <1>5 DEF OpenPortal, Handshake, Hub, Transmit, RecordLatency, Park, Reporting
  <2>2. Len(live) >= 3
    BY <2>1 DEF Height, Reporting
  <2>3. CASE UNCHANGED live
    BY <2>2, <2>3 DEF Registered
  <2>4. CASE pc' = "hub" \/ pc' = "loop"
    <3>1. Len(live') = 4 \/ Len(live') = 5
      BY <1>0, <2>4 DEF Height, Reporting
    <3>2. Len(live') >= 3
      BY <3>1
    <3> QED
      BY <3>2 DEF Registered
  <2> QED
    BY <1>5, <2>3, <2>4 DEF OpenPortal, Handshake, Hub, Transmit, RecordLatency, Park
<1>6. CASE Unwind
  <2>1. CASE Len(live) = 3
    <3>1. ClosePortal
      BY <1>6, <2>1, Unwinds DEF Unwind, Fits
    <3> QED
      BY <3>1 DEF ClosePortal, Registered
  <2>2. CASE Len(live) # 3
    <3>1. UNCHANGED pc /\ pc = "unwind" /\ Len(live) \in 1..5
          /\ Len(live') = Len(live) - 1 /\ live[Len(live)] # "portal"
      BY <1>6, <2>2, Unwinds DEF Fits, Device
    <3>2. UNCHANGED xdp
      BY <1>6, <3>1 DEF Unwind
    <3> QED
      BY <2>2, <3>1, <3>2 DEF xdp, Registered
  <2> QED
    BY <2>1, <2>2
<1>7. CASE Exit
  BY <1>7 DEF Exit, xdp, Registered
<1>8. CASE Kill
  BY <1>8 DEF Kill, Registered
<1> QED
  BY <1>1, <1>2, <1>3, <1>4, <1>5, <1>6, <1>7, <1>8
  DEF Next, EngineStep, HardwareReady, Drain, Porth_stat, vars

(* Whoever constructs the device knows which one to destroy.               *)
LEMMA NextAcquired ==
  ASSUME Stacked, Height, Acquired, [Next]_vars
  PROVE  Acquired'
<1>0. Stacked' /\ Height' /\ Len(live) \in Nat /\ Len(live') \in Nat
  BY NextStack DEF Stacked
<1> USE DEF At, Goto, Throw, Construct, Orderly
<1>1. CASE UNCHANGED <<main, vfioVars>>
  BY <1>1 DEF main, vfioVars, Acquired
<1>2. CASE Start
  BY <1>2 DEF Start, Acquired
<1>3. CASE TwinUp
  <2>1. UNCHANGED vfioVars /\ pc = "twin" /\ Len(live) = 0
    BY <1>3 DEF TwinUp, Height, Device
  <2>2. vfio = {}
    BY <2>1 DEF Acquired
  <2> QED
    BY <2>1, <2>2 DEF vfioVars, Acquired
<1>4. CASE VfioUp
  <2>1. pc = "vfio" /\ Len(live) = 0
    BY <1>4 DEF VfioUp, Height
  <2>2. CASE live' = Append(live, "vfio")
    <3>1. Len(live') = 1 /\ live'[1] = "vfio"
      BY <2>1, <2>2, Pushed DEF Fits, Device
    <3> QED
      BY <3>1 DEF Acquired
  <2>3. CASE pc' = "vfio" \/ (pc' = "unwind" /\ thrown' = "vfio")
    BY <2>3 DEF Acquired
  <2> QED
    BY <1>4, <2>1, <2>2, <2>3 DEF VfioUp
<1>5. CASE \/ Alloc \/ Pin \/ DriverUp \/ Bind \/ OpenPortal \/ Handshake \/ Hub
           \/ Transmit \/ RecordLatency \/ Park
  <2>1. UNCHANGED vfioVars
    BY <1>5 DEF Alloc, Pin, DriverUp, Bind, OpenPortal, Handshake, Hub, Transmit,
      RecordLatency, Park
  <2>2. pc \in {"alloc", "upgrade", "watchdog", "bind", "open", "handshake",
                "hub", "size", "map", "counters"} \cup Reporting
    BY <1>5 DEF Alloc, Pin, DriverUp, Bind, OpenPortal, Handshake, Hub, Transmit,
      RecordLatency, Park, Reporting
  <2>3. Len(live) >= 1
    BY <2>2 DEF Height, Reporting
  <2>4. Len(live') >= 1 /\ live'[1] = live[1]
    <3>1. CASE UNCHANGED live
      BY <2>3, <3>1
    <3>2. CASE DriverUp /\ live' = Append(live, "driver")
      BY <1>0, <3>2, <2>3, Pushed DEF DriverUp, Height, Fits
    <3>3. CASE Bind
      BY <1>0, <3>3, <2>3, Pushed DEF Bind, Height, Fits
    <3>4. CASE Handshake /\ live' = Append(live, "metric")
      BY <1>0, <3>4, <2>3, Pushed DEF Handshake, Height, Fits
    <3>5. CASE At("counters") /\ live' = Append(live, "hub")
      BY <1>0, <3>5, <2>3, Pushed DEF Height, Fits
    <3> QED
      BY <1>5, <3>1, <3>2, <3>3, <3>4, <3>5 DEF Alloc, Pin, DriverUp, OpenPortal, Handshake,
        Hub, Transmit, RecordLatency, Park
  <2>5. vfio # {} => live[1] = "vfio"
    BY <2>2, <2>3 DEF Acquired, Reporting
  <2> QED
    BY <2>1, <2>4, <2>5 DEF vfioVars, Acquired
<1>6. CASE Unwind
  <2>0. /\ UNCHANGED <<pc, thrown>> /\ pc = "unwind" /\ Len(live) \in 1..5
        /\ Len(live') = Len(live) - 1 /\ (Len(live) >= 2 => live'[1] = live[1])
        /\ Fits(live[Len(live)], Len(live) - 1)
    BY <1>6, Unwinds
  <2>1. CASE Len(live) = 1 /\ live[1] = "vfio"
    <3>1. VfioClose
      BY <1>6, <2>1 DEF Unwind
    <3> QED
      BY <3>1 DEF VfioClose, Acquired
  <2>2. CASE ~(Len(live) = 1 /\ live[1] = "vfio")
    <3>1. live[Len(live)] # "vfio"
      BY <2>0, <2>2 DEF Fits
    <3>2. UNCHANGED vfioVars
      BY <1>6, <3>1 DEF Unwind
    <3>3. Len(live) = 1 \/ (Len(live) >= 2 /\ Len(live') >= 1)
      BY <2>0
    <3> QED
      BY <2>0, <2>2, <3>2, <3>3 DEF vfioVars, Acquired
  <2> QED
    BY <2>1, <2>2
<1>7. CASE Exit
  BY <1>0, <1>7 DEF Exit, vfioVars, Acquired
<1>8. CASE Kill
  BY <1>8 DEF Kill, Acquired
<1> QED
  BY <1>1, <1>2, <1>3, <1>4, <1>5, <1>6, <1>7, <1>8
  DEF Next, EngineStep, HardwareReady, Drain, Porth_stat, vars

-----------------------------------------------------------------------------
(* The telemetry name                                                      *)

(* The parts of the shared memory's type.                                  *)
LEMMA ShmTypes ==
  Shm!ShmTypeOK <=>
    /\ created \in 0..MaxObjects /\ link \in 0..created /\ sized \subseteq 1..created
    /\ fd \in [{Engine, Display} -> 0..created] /\ map \in [{Engine, Display} -> 0..created]
  BY DEF Shm!ShmTypeOK

(* porth_stat cannot move the name, nor what the engine has open.          *)
LEMMA DisplaySteps ==
  ASSUME Shm!ShmTypeOK, DisplayOpen \/ DisplayMap \/ DisplayStops
  PROVE  /\ Shm!ShmTypeOK' /\ UNCHANGED <<link, total_packets>>
         /\ fd'[Engine] = fd[Engine] /\ map'[Engine] = map[Engine]
<1>1. /\ created \in 0..MaxObjects /\ link \in 0..created /\ sized \subseteq 1..created
      /\ fd \in [{Engine, Display} -> 0..created] /\ map \in [{Engine, Display} -> 0..created]
  BY ShmTypes
<1>2. /\ UNCHANGED <<link, created, sized, total_packets>>
      /\ fd' \in {fd, [fd EXCEPT ![Display] = link], [fd EXCEPT ![Display] = 0]}
      /\ map' \in {map, [map EXCEPT ![Display] = fd[Display]], [map EXCEPT ![Display] = 0]}
  BY DEF DisplayOpen, DisplayMap, DisplayStops, Shm!Open, Shm!OpenFails, Shm!Map, Shm!Vanish,
    Shm!NoObject
<1>3. fd'[Engine] = fd[Engine] /\ map'[Engine] = map[Engine]
  BY <1>1, <1>2 DEF Engine, Display
<1>4. /\ fd' \in [{Engine, Display} -> 0..created] /\ map' \in [{Engine, Display} -> 0..created]
  BY <1>1, <1>2, TelemetryAssumption
<1> QED
  BY <1>1, <1>2, <1>3, <1>4 DEF Shm!ShmTypeOK

(* What the hub's calls do to the name and to the engine's handles.        *)
LEMMA HubOpens ==
  ASSUME Shm!ShmTypeOK, HubOpen
  PROVE  /\ Shm!ShmTypeOK' /\ UNCHANGED total_packets
         /\ fd'[Engine] # NoObject /\ map'[Engine] = map[Engine]
<1>1. /\ created \in 0..MaxObjects /\ link \in 0..created /\ sized \subseteq 1..created
      /\ fd \in [{Engine, Display} -> 0..created] /\ map \in [{Engine, Display} -> 0..created]
  BY ShmTypes
<1>2. /\ fd' = [fd EXCEPT ![Engine] = link'] /\ UNCHANGED <<sized, map, total_packets>>
      /\ IF link = 0 THEN created < MaxObjects /\ created' = created + 1 /\ link' = created'
                     ELSE UNCHANGED <<link, created>>
  BY DEF HubOpen, Shm!Open, Shm!NoObject
<1>3. /\ created' \in 0..MaxObjects /\ link' \in 0..created' /\ link' # 0
      /\ 0..created \subseteq 0..created' /\ 1..created \subseteq 1..created'
  BY <1>1, <1>2, TelemetryAssumption
<1>4. /\ fd' \in [{Engine, Display} -> 0..created'] /\ map' \in [{Engine, Display} -> 0..created']
      /\ sized' \subseteq 1..created'
  BY <1>1, <1>2, <1>3
<1> QED
  BY <1>1, <1>2, <1>3, <1>4 DEF Shm!ShmTypeOK, NoObject, Shm!NoObject

(* The other calls of constructor, destructor and kernel.                  *)
LEMMA HubCalls ==
  ASSUME Shm!ShmTypeOK
  PROVE  /\ HubSize /\ fd[Engine] # NoObject =>
              Shm!ShmTypeOK' /\ UNCHANGED <<link, fd, map, total_packets>>
         /\ HubMap => /\ Shm!ShmTypeOK' /\ UNCHANGED <<link, total_packets>>
                      /\ fd'[Engine] = NoObject /\ map'[Engine] = fd[Engine]
         /\ HubSetupFails => /\ Shm!ShmTypeOK' /\ UNCHANGED <<link, map, total_packets>>
                             /\ fd'[Engine] = NoObject
         /\ HubClose => /\ Shm!ShmTypeOK' /\ UNCHANGED <<fd, total_packets>>
                        /\ link' = NoObject /\ map'[Engine] = NoObject
         /\ HubVanish => /\ Shm!ShmTypeOK' /\ UNCHANGED <<link, total_packets>>
                         /\ fd'[Engine] = NoObject /\ map'[Engine] = NoObject
<1>1. /\ created \in 0..MaxObjects /\ link \in 0..created /\ sized \subseteq 1..created
      /\ fd \in [{Engine, Display} -> 0..created] /\ map \in [{Engine, Display} -> 0..created]
      /\ 0 \in 0..created
  BY ShmTypes, TelemetryAssumption
<1>2. /\ [fd EXCEPT ![Engine] = 0] \in [{Engine, Display} -> 0..created]
      /\ [map EXCEPT ![Engine] = 0] \in [{Engine, Display} -> 0..created]
      /\ [map EXCEPT ![Engine] = fd[Engine]] \in [{Engine, Display} -> 0..created]
  BY <1>1
<1> USE DEF Shm!ShmTypeOK, NoObject, Shm!NoObject
<1>3. HubSize /\ fd[Engine] # NoObject =>
        Shm!ShmTypeOK' /\ UNCHANGED <<link, fd, map, total_packets>>
  <2>1. fd[Engine] # 0 => fd[Engine] \in 1..created
    BY <1>1, TelemetryAssumption
  <2> QED
    BY <1>1, <2>1 DEF HubSize, Shm!Truncate
<1>4. HubMap => /\ Shm!ShmTypeOK' /\ UNCHANGED <<link, total_packets>>
                /\ fd'[Engine] = NoObject /\ map'[Engine] = fd[Engine]
  BY <1>1, <1>2 DEF HubMap, Shm!Map
<1>5. HubSetupFails => /\ Shm!ShmTypeOK' /\ UNCHANGED <<link, map, total_packets>>
                       /\ fd'[Engine] = NoObject
  BY <1>1, <1>2 DEF HubSetupFails, Shm!SetupFails
<1>6. HubClose => /\ Shm!ShmTypeOK' /\ UNCHANGED <<fd, total_packets>>
                  /\ link' = NoObject /\ map'[Engine] = NoObject
  BY <1>1, <1>2 DEF HubClose, Shm!Release
<1>7. HubVanish => /\ Shm!ShmTypeOK' /\ UNCHANGED <<link, total_packets>>
                   /\ fd'[Engine] = NoObject /\ map'[Engine] = NoObject
  BY <1>1, <1>2 DEF HubVanish, Shm!Vanish
<1> QED
  BY <1>3, <1>4, <1>5, <1>6, <1>7

(* An engine that has the counters mapped writes its own ones.             *)
LEMMA Counters ==
  ASSUME Shm!ShmTypeOK, total_packets \in [Shm!Object -> Nat], map[Engine] # NoObject
  PROVE  /\ HubInit => /\ total_packets' \in [Shm!Object -> Nat] /\ UNCHANGED shm
                       /\ total_packets'[map[Engine]] = 0
         /\ CountPacket => /\ total_packets' \in [Shm!Object -> Nat] /\ UNCHANGED shm
                           /\ total_packets'[map[Engine]] = total_packets[map[Engine]] + 1
<1>1. created \in 0..MaxObjects /\ map[Engine] \in 0..created
  BY ShmTypes
<1>2. map[Engine] \in Shm!Object
  BY <1>1, TelemetryAssumption DEF Shm!Object, NoObject, Shm!NoObject
<1> QED
  BY <1>2 DEF HubInit, CountPacket

(* The engine has counters mapped exactly while it has a hub, and the name *)
(* of a run that ended by itself is gone.                                  *)
LEMMA NextAttached ==
  ASSUME Stacked, Height, Attached, [Next]_vars
  PROVE  Attached'
<1>0. Stacked' /\ Height' /\ Len(live) \in Nat /\ Len(live') \in Nat
  BY NextStack DEF Stacked
<1>a. Shm!ShmTypeOK /\ total_packets \in [Shm!Object -> Nat]
  BY DEF Attached
<1> USE DEF At, Goto, Throw, Construct, Orderly
<1>1. CASE UNCHANGED <<main, telemetry>>
  BY <1>1 DEF main, telemetry, shm, Attached, Shm!ShmTypeOK
<1>2. CASE Start
  <2>1. pc \in Ended \cup {"idle"} /\ pc' \in Device /\ Len(live') = 0 /\ UNCHANGED telemetry
    BY <1>0, <1>2 DEF Start, Height, Device
  <2>2. fd[Engine] = NoObject /\ map[Engine] = NoObject
    BY <2>1 DEF Attached, Ended, Height
  <2> QED
    BY <1>a, <2>1, <2>2 DEF Attached, telemetry, shm, Device, Shm!ShmTypeOK
<1>3. CASE TwinUp \/ VfioUp \/ Alloc \/ Pin \/ DriverUp \/ Bind \/ OpenPortal \/ Handshake
  <2>1. /\ UNCHANGED telemetry
        /\ pc \in {"twin", "vfio", "alloc", "upgrade", "watchdog", "bind", "open", "handshake"}
        /\ \/ pc' = "unwind" /\ thrown' = pc
           \/ pc' \in {"vfio", "alloc", "upgrade", "watchdog", "bind", "open", "handshake", "hub"}
    BY <1>3 DEF TwinUp, VfioUp, Alloc, Pin, DriverUp, Bind, OpenPortal, Handshake
  <2>2. Len(live) # 5 /\ Len(live') # 5
    <3>1. Len(live) = 0 \/ Len(live) = 1 \/ Len(live) = 2 \/ Len(live) = 3
      BY <2>1 DEF Height
    <3>2. CASE UNCHANGED live
      BY <3>1, <3>2
    <3>3. CASE pc' # "unwind"
      <4>1. pc' \in {"vfio", "alloc", "upgrade", "watchdog", "bind", "open", "handshake", "hub"}
        BY <2>1, <3>3
      <4>2. \/ Len(live') = 0 \/ Len(live') = 1 \/ Len(live') = 2
            \/ Len(live') = 3 \/ Len(live') = 4
        BY <1>0, <4>1 DEF Height
      <4> QED
        BY <3>1, <4>2
    <3>4. CASE Bind
      <4>1. Len(live) = 2 /\ live' = Append(live, "portal")
        BY <3>4 DEF Bind, Height
      <4> QED
        BY <4>1, Pushed DEF Fits
    <3> QED
      BY <1>3, <2>1, <3>1, <3>2, <3>3, <3>4
      DEF TwinUp, VfioUp, Alloc, Pin, DriverUp, OpenPortal, Handshake
  <2>3. fd[Engine] = NoObject /\ map[Engine] = NoObject
    BY <2>1, <2>2 DEF Attached
  <2> QED
    BY <1>a, <2>1, <2>2, <2>3 DEF Attached, telemetry, shm, Shm!ShmTypeOK
<1>4. CASE Hub
  <2>0. Len(live) = 4
    BY <1>4 DEF Hub, Height
  <2>1. CASE At("hub") /\ HubOpen /\ Goto("size")
    BY <1>a, <2>0, <2>1, HubOpens DEF Attached
  <2>2. CASE At("hub") /\ Throw /\ UNCHANGED telemetry
    BY <1>a, <2>0, <2>2 DEF Attached, telemetry, shm, Shm!ShmTypeOK
  <2>3. CASE At("size") /\ HubSize /\ Goto("map")
    BY <1>a, <2>0, <2>3, HubCalls DEF Attached
  <2>4. CASE At("size") /\ HubSetupFails /\ Throw
    BY <1>a, <2>0, <2>4, HubCalls DEF Attached
  <2>5. CASE At("map") /\ HubMap /\ Goto("counters")
    BY <1>a, <2>0, <2>5, HubCalls DEF Attached
  <2>6. CASE At("map") /\ HubSetupFails /\ Goto("crashed")
    BY <1>a, <2>0, <2>6, HubCalls DEF Attached
  <2>7. CASE At("counters") /\ HubInit /\ Construct("hub", "loop")
    <3>1. Len(live') = 5
      BY <1>0, <2>7 DEF Height, Reporting
    <3>2. map[Engine] # NoObject /\ fd[Engine] = NoObject
      BY <2>0, <2>7 DEF Attached
    <3>3. total_packets' \in [Shm!Object -> Nat] /\ UNCHANGED shm
      BY <1>a, <2>7, <3>2, Counters
    <3> QED
      BY <1>a, <2>7, <3>1, <3>2, <3>3 DEF Attached, shm, Shm!ShmTypeOK
  <2> QED
    BY <1>4, <2>1, <2>2, <2>3, <2>4, <2>5, <2>6, <2>7 DEF Hub
<1>5. CASE Transmit \/ RecordLatency \/ Park
  <2>1. pc \in Reporting /\ pc' \in Reporting \cup {"unwind"} /\ UNCHANGED <<live, thrown>>
    BY <1>5 DEF Transmit, RecordLatency, Park, Reporting
  <2>2. Len(live) = 5
    BY <2>1 DEF Height, Reporting
  <2>3. map[Engine] # NoObject /\ fd[Engine] = NoObject
    BY <2>1, <2>2 DEF Attached, Reporting
  <2>4. UNCHANGED telemetry \/ CountPacket
    BY <1>5 DEF Transmit, RecordLatency, Park
  <2>5. total_packets' \in [Shm!Object -> Nat] /\ UNCHANGED shm
    BY <1>a, <2>3, <2>4, Counters DEF telemetry
  <2> QED
    BY <1>a, <2>1, <2>2, <2>3, <2>5 DEF Attached, shm, Reporting, Shm!ShmTypeOK
<1>6. CASE Unwind
  <2>0. /\ UNCHANGED <<pc, thrown>> /\ pc = "unwind" /\ Len(live) \in 1..5
        /\ Len(live') = Len(live) - 1 /\ Fits(live[Len(live)], Len(live) - 1)
    BY <1>6, Unwinds
  <2>1. CASE Len(live) = 5
    <3>1. HubClose
      BY <1>6, <2>0, <2>1 DEF Unwind, Fits
    <3>2. fd[Engine] = NoObject
      BY <2>0 DEF Attached
    <3> QED
      BY <1>a, <2>0, <2>1, <3>1, <3>2, HubCalls DEF Attached
  <2>2. CASE Len(live) # 5
    <3>1. live[Len(live)] # "hub"
      BY <2>0, <2>2 DEF Fits, Device
    <3>2. UNCHANGED telemetry
      BY <1>6, <3>1 DEF Unwind
    <3> QED
      <4>1. Len(live) < 5 /\ Len(live') < 5 /\ Len(live') # 5
        BY <2>0, <2>2
      <4>2. UNCHANGED <<link, created, sized, fd, map, total_packets>>
        BY <3>2 DEF telemetry, shm
      <4>3. Shm!ShmTypeOK' /\ (total_packets \in [Shm!Object -> Nat])'
        BY <1>a, <4>2 DEF Shm!ShmTypeOK
      <4>4. /\ fd[Engine] = NoObject /\ map[Engine] = NoObject
            /\ thrown = "none" => link = NoObject
        BY <2>0, <2>2, <4>1 DEF Attached
      <4> QED
        BY <2>0, <4>1, <4>2, <4>3, <4>4 DEF Attached
  <2> QED
    BY <2>1, <2>2
<1>7. CASE Exit
  BY <1>a, <1>7 DEF Exit, Attached, telemetry, shm, Shm!ShmTypeOK
<1>8. CASE Kill
  <2>1. HubVanish /\ pc' = "killed"
    BY <1>8 DEF Kill
  <2> QED
    BY <1>a, <2>1, HubCalls DEF Attached
<1>9. CASE Porth_stat
  <2>1. UNCHANGED main /\ (DisplayOpen \/ DisplayMap \/ DisplayStops)
    BY <1>9 DEF Porth_stat
  <2>2. /\ Shm!ShmTypeOK' /\ UNCHANGED <<link, total_packets>>
        /\ fd'[Engine] = fd[Engine] /\ map'[Engine] = map[Engine]
    BY <1>a, <2>1, DisplaySteps
  <2> QED
    BY <1>a, <2>1, <2>2 DEF Attached, main
<1> QED
  BY <1>1, <1>2, <1>3, <1>4, <1>5, <1>6, <1>7, <1>8, <1>9
  DEF Next, EngineStep, HardwareReady, Drain, vars

(* A throw unwinds at once.                                                *)
LEMMA NextNotThrown ==
  ASSUME NotThrown, [Next]_vars
  PROVE  NotThrown'
<1> USE DEF At, Goto, Throw, Construct, NotThrown, Ended
<1>1. CASE UNCHANGED main \/ Start
  BY <1>1 DEF main, Start
<1>2. CASE TwinUp \/ VfioUp \/ Alloc \/ Pin \/ DriverUp \/ Bind \/ OpenPortal \/ Handshake
  BY <1>2 DEF TwinUp, VfioUp, Alloc, Pin, DriverUp, Bind, OpenPortal, Handshake
<1>3. CASE Hub \/ Transmit \/ RecordLatency \/ Park \/ Unwind \/ Exit \/ Kill
  BY <1>3 DEF Hub, Transmit, RecordLatency, Park, Unwind, Exit, Kill
<1> QED
  BY <1>1, <1>2, <1>3 DEF Next, EngineStep, HardwareReady, Drain, Porth_stat, vars

(* Only the hub moves the name, and only its destructor removes it.        *)
LEMMA NextNameFound ==
  ASSUME Stacked, Height, Attached, NotThrown, NameFound, [Next]_vars
  PROVE  NameFound'
<1>a. Shm!ShmTypeOK
  BY DEF Attached
<1> USE DEF At, Goto, Throw, Construct
<1>1. CASE UNCHANGED <<main, link, map, found>>
  BY <1>1 DEF main, NameFound
<1>2. CASE Start
  BY <1>2 DEF Start, NameFound, telemetry, shm
<1>3. CASE TwinUp \/ VfioUp \/ Alloc \/ Pin \/ DriverUp \/ Bind \/ OpenPortal \/ Handshake
  <2>1. /\ UNCHANGED <<telemetry, session>>
        /\ pc \in BeforeHub \ {"hub"}
        /\ \/ pc' = "unwind" /\ thrown' = pc
           \/ pc' \in BeforeHub
    BY <1>3 DEF TwinUp, VfioUp, Alloc, Pin, DriverUp, Bind, OpenPortal, Handshake, BeforeHub
  <2>2. UNCHANGED <<link, map, found>> /\ pc' # "exited"
    BY <2>1 DEF telemetry, shm, session, BeforeHub
  <2>3. Len(live) # 5
    BY <2>1 DEF Height, BeforeHub
  <2>4. map[Engine] = NoObject
    BY <2>1, <2>3 DEF Attached, BeforeHub
  <2>5. link = found
    BY <2>1 DEF NameFound
  <2> QED
    BY <2>1, <2>2, <2>4, <2>5 DEF NameFound, BeforeHub
<1>4. CASE Hub
  <2>0. Len(live) = 4 /\ UNCHANGED found
    BY <1>4 DEF Hub, Height, session
  <2>1. CASE At("hub") /\ Throw /\ UNCHANGED telemetry
    <3>1. map[Engine] = NoObject /\ link = found
      BY <2>0, <2>1 DEF Attached, NameFound, BeforeHub
    <3> QED
      BY <2>0, <2>1, <3>1 DEF NameFound, BeforeHub, telemetry, shm
  <2>2. CASE pc' \in {"size", "map", "crashed", "counters", "loop"}
    BY <2>2 DEF NameFound, BeforeHub
  <2>3. CASE At("size") /\ HubSetupFails /\ Throw
    BY <2>3 DEF NameFound, BeforeHub
  <2> QED
    BY <1>4, <2>1, <2>2, <2>3 DEF Hub
<1>5. CASE Transmit \/ RecordLatency \/ Park
  <2>1. pc \in Reporting /\ pc' \in Reporting \cup {"unwind"} /\ UNCHANGED <<live, thrown>>
    BY <1>5 DEF Transmit, RecordLatency, Park, Reporting
  <2>2. thrown = "none"
    BY <2>1 DEF NotThrown, Reporting, Ended
  <2> QED
    BY <2>1, <2>2 DEF NameFound, BeforeHub, Reporting
<1>6. CASE Unwind
  <2>0. /\ UNCHANGED <<pc, thrown, found>> /\ pc = "unwind" /\ Len(live) \in 1..5
        /\ Fits(live[Len(live)], Len(live) - 1)
    BY <1>6, Unwinds DEF Unwind, session
  <2>1. CASE thrown \in {"none", "size"}
    BY <2>0, <2>1 DEF NameFound, BeforeHub
  <2>2. CASE thrown \notin {"none", "size"}
    <3>1. link = found /\ map[Engine] = NoObject
      BY <2>0, <2>2 DEF NameFound
    <3>2. Len(live) # 5
      BY <2>0, <3>1 DEF Attached, Orderly
    <3>3. live[Len(live)] # "hub"
      BY <2>0, <3>2 DEF Fits, Device
    <3>4. UNCHANGED <<link, map>>
      BY <1>6, <3>3 DEF Unwind, telemetry, shm
    <3> QED
      BY <2>0, <3>1, <3>4 DEF NameFound, BeforeHub
  <2> QED
    BY <2>1, <2>2
<1>7. CASE Exit
  BY <1>7 DEF Exit, NameFound, BeforeHub, telemetry, shm, session
<1>8. CASE Kill
  BY <1>8 DEF Kill, NameFound, BeforeHub
<1>9. CASE Porth_stat
  <2>1. UNCHANGED <<main, found>> /\ (DisplayOpen \/ DisplayMap \/ DisplayStops)
    BY <1>9 DEF Porth_stat, session
  <2>2. UNCHANGED link /\ map'[Engine] = map[Engine]
    BY <1>a, <2>1, DisplaySteps
  <2> QED
    BY <2>1, <2>2 DEF NameFound, main
<1> QED
  BY <1>1, <1>2, <1>3, <1>4, <1>5, <1>6, <1>7, <1>8, <1>9
  DEF Next, EngineStep, HardwareReady, Drain, vars, session, telemetry, shm

(* A VFIO constructor that throws has not mapped the BAR.                  *)
LEMMA NextBarLast ==
  ASSUME NotThrown, BarLast, [Next]_vars
  PROVE  BarLast'
<1> USE DEF At, Goto, Throw, Construct
<1>1. CASE UNCHANGED <<main, vfioVars>>
  BY <1>1 DEF main, vfioVars, BarLast
<1>2. CASE Start
  BY <1>2 DEF Start, BarLast
<1>3. CASE VfioUp
  <2>1. CASE Throw /\ UNCHANGED vfioVars
    BY <1>3, <2>1 DEF VfioUp, vfioVars, BarLast
  <2>2. CASE VfioCall /\ IF call' = Len(Calls) THEN Construct("vfio", "alloc") ELSE Goto("vfio")
    <3>1. Len(Calls) = 9
      BY DEF Calls
    <3>2. pc = "vfio" /\ call \in 0..8 /\ "bar" \notin vfio
      BY <1>3 DEF VfioUp, BarLast
    <3>3. call' = call + 1 /\ vfio' = vfio \cup Calls[call']
      BY <2>2 DEF VfioCall
    <3>4. CASE call' = 9
      BY <2>2, <3>1, <3>4 DEF BarLast
    <3>5. CASE call' # 9
      <4>1. call' \in 1..8
        BY <3>2, <3>3, <3>5
      <4>2. pc' = "vfio"
        BY <2>2, <3>1, <3>5
      <4>3. "bar" \notin Calls[call']
        BY <4>1 DEF Calls
      <4> QED
        BY <3>2, <3>3, <4>1, <4>2, <4>3 DEF BarLast
    <3> QED
      BY <3>4, <3>5
  <2> QED
    BY <1>3, <2>1, <2>2 DEF VfioUp
<1>4. CASE TwinUp \/ Alloc \/ Pin \/ DriverUp \/ Bind \/ OpenPortal \/ Handshake \/ Hub
  <2>1. pc' \notin {"vfio", "exited"} /\ (pc' = "unwind" => thrown' # "vfio")
    BY <1>4 DEF TwinUp, Alloc, Pin, DriverUp, Bind, OpenPortal, Handshake, Hub
  <2> QED
    BY <2>1 DEF BarLast
<1>5. CASE Transmit \/ RecordLatency \/ Park
  <2>1. pc \in Reporting /\ pc' \in Reporting \cup {"unwind"} /\ UNCHANGED thrown
    BY <1>5 DEF Transmit, RecordLatency, Park, Reporting
  <2>2. thrown = "none"
    BY <2>1 DEF NotThrown, Reporting, Ended
  <2> QED
    BY <2>1, <2>2 DEF BarLast, Reporting
<1>6. CASE Unwind
  <2>1. UNCHANGED <<pc, thrown>> /\ pc = "unwind" /\ vfio' \in {vfio, {}}
    BY <1>6 DEF Unwind, VfioClose, vfioVars
  <2> QED
    BY <2>1 DEF BarLast
<1>7. CASE Exit \/ Kill
  BY <1>7 DEF Exit, Kill, vfioVars, BarLast
<1> QED
  BY <1>1, <1>2, <1>3, <1>4, <1>5, <1>6, <1>7
  DEF Next, EngineStep, HardwareReady, Drain, Porth_stat, vars

(* The steps before the loop leave the samples alone.                      *)
LEMMA NextSampled ==
  ASSUME Stacked, Height, Sampled, [Next]_vars
  PROVE  Sampled'
<1>0. Stacked' /\ Height' /\ Len(live) \in Nat /\ Len(live') \in Nat
  BY NextStack DEF Stacked
<1> USE DEF At, Goto, Throw, Construct, Orderly
<1>1. CASE UNCHANGED <<main, m_samples>>
  BY <1>1 DEF main, Sampled
<1>2. CASE Start
  <2>1. m_samples' = << >> /\ pc' \in Device
    BY <1>2 DEF Start, Device
  <2> QED
    BY <2>1 DEF Sampled, Device
<1>3. CASE \/ TwinUp \/ VfioUp \/ Alloc \/ Pin \/ DriverUp \/ Bind \/ OpenPortal
           \/ Handshake \/ Hub
  <2>1. /\ UNCHANGED m_samples
        /\ pc \in Device \cup {"alloc", "upgrade", "watchdog", "bind", "open", "handshake", "hub",
                  "size", "map", "counters"}
        /\ pc' # "record"
    BY <1>3 DEF TwinUp, VfioUp, Alloc, Pin, DriverUp, Bind, OpenPortal, Handshake, Hub, work,
      Device
  <2>2. Len(live) # 5
    <3>1. CASE pc \in {"alloc", "upgrade", "watchdog", "bind", "open", "handshake"}
      BY <3>1 DEF Height
    <3>2. CASE pc \in {"hub", "size", "map", "counters"}
      <4>1. Len(live) = 4
        BY <3>2 DEF Height
      <4> QED
        BY <4>1
    <3>3. CASE pc \in Device
      <4>1. Len(live) = 0
        BY <3>3 DEF Height, Device
      <4> QED
        BY <4>1
    <3> QED
      BY <2>1, <3>1, <3>2, <3>3
  <2>3. m_samples = << >>
    BY <2>1, <2>2 DEF Sampled, Device
  <2> QED
    BY <2>1, <2>3 DEF Sampled
<1>4. CASE Transmit \/ Park
  <2>1. /\ UNCHANGED <<m_samples, live>> /\ pc \in Reporting
        /\ pc' = "record" => Len(m_samples) < ITERATIONS
    BY <1>4 DEF Transmit, Park, Reporting, work
  <2>2. Len(live) = 5
    BY <2>1 DEF Height, Reporting
  <2> QED
    BY <2>1, <2>2 DEF Sampled
<1>5. CASE RecordLatency
  <2>1. pc = "record" /\ pc' = "loop" /\ UNCHANGED live
    BY <1>5 DEF RecordLatency
  <2>2. Len(live) = 5
    BY <2>1 DEF Height, Reporting
  <2>3. PICK t \in Latency : m_samples' = Record(m_samples, t)
    BY <1>5 DEF RecordLatency
  <2>4. m_samples' \in Seq(Latency)
    BY <2>3 DEF Record, Sampled
  <2> QED
    BY <2>1, <2>2, <2>4 DEF Sampled
<1>6. CASE Unwind
  <2>1. UNCHANGED <<pc, m_samples>> /\ pc = "unwind"
    BY <1>6 DEF Unwind, work
  <2> QED
    BY <2>1 DEF Sampled
<1>7. CASE Exit \/ Kill
  BY <1>7 DEF Exit, Kill, Sampled, work
<1> QED
  BY <1>1, <1>2, <1>3, <1>4, <1>5, <1>6, <1>7
  DEF Next, EngineStep, HardwareReady, Drain, Porth_stat, vars, work

(* One packet is counted per round, on the counters of this run.           *)
LEMMA NextCounts ==
  ASSUME Stacked, Height, Attached, Sampled, CountsThisRun, [Next]_vars
  PROVE  CountsThisRun'
<1> USE DEF At, Goto, Throw, Construct, One
<1>0. Shm!ShmTypeOK /\ total_packets \in [Shm!Object -> Nat] /\ Len(m_samples) \in Nat
  BY DEF Attached, Sampled
<1>1. CASE UNCHANGED <<pc, m_samples>> /\ UNCHANGED telemetry
  BY <1>1 DEF telemetry, shm, CountsThisRun
<1>2. CASE pc' \notin Reporting
  BY <1>2 DEF Reporting, CountsThisRun
<1>3. CASE At("counters") /\ HubInit /\ Construct("hub", "loop") /\ UNCHANGED m_samples
  <2>1. Len(live) = 4
    BY <1>3 DEF Height
  <2>2. m_samples = << >> /\ map[Engine] # NoObject
    BY <1>3, <2>1 DEF Sampled, Attached, Orderly
  <2>3. total_packets'[map[Engine]] = 0 /\ UNCHANGED map
    BY <1>0, <1>3, <2>2, Counters DEF shm
  <2> QED
    BY <1>3, <2>2, <2>3 DEF CountsThisRun
<1>4. ASSUME pc \in Reporting PROVE map[Engine] # NoObject
  <2>1. Len(live) = 5
    BY <1>4 DEF Height
  <2> QED
    BY <1>4, <2>1 DEF Attached, Orderly, Reporting
<1>5. CASE Transmit
  <2>1. CASE CountPacket /\ pc' = "record"
    <3>1. /\ total_packets'[map[Engine]] = total_packets[map[Engine]] + 1
          /\ UNCHANGED map /\ UNCHANGED m_samples /\ pc = "loop"
      BY <1>0, <1>4, <1>5, <2>1, Counters DEF Transmit, shm, work, Reporting
    <3> QED
      BY <1>0, <2>1, <3>1 DEF CountsThisRun
  <2>2. CASE UNCHANGED telemetry /\ pc' = "park"
    BY <1>5, <2>2 DEF Transmit, telemetry, shm, work, CountsThisRun
  <2> QED
    BY <1>5, <2>1, <2>2 DEF Transmit
<1>6. CASE RecordLatency
  <2>1. pc = "record" /\ pc' = "loop" /\ UNCHANGED telemetry
    BY <1>6 DEF RecordLatency
  <2>2. PICK t \in Latency : m_samples' = Record(m_samples, t)
    BY <1>6 DEF RecordLatency
  <2>3. Len(m_samples) < MetricCapacity
    BY <1>0, <2>1, DemoAssumption, MetricAssumption DEF Sampled
  <2>4. Len(m_samples') = Len(m_samples) + 1
    BY <2>2, <2>3 DEF Record, Sampled
  <2> QED
    BY <1>0, <2>1, <2>4 DEF CountsThisRun, telemetry, shm
<1>7. CASE Park
  BY <1>7 DEF Park, CountsThisRun, work, telemetry, shm
<1>8. CASE Porth_stat
  <2>1. UNCHANGED <<pc, m_samples>> /\ (DisplayOpen \/ DisplayMap \/ DisplayStops)
    BY <1>8 DEF Porth_stat, main, work
  <2>2. UNCHANGED total_packets /\ map'[Engine] = map[Engine]
    BY <1>0, <2>1, DisplaySteps
  <2> QED
    BY <2>1, <2>2 DEF CountsThisRun
<1>9. CASE Unwind
  BY <1>2, <1>9 DEF Unwind, Reporting
<1>10. CASE \/ Start \/ TwinUp \/ VfioUp \/ Alloc \/ Pin \/ DriverUp \/ Bind \/ OpenPortal
            \/ Handshake \/ Exit \/ Kill
  BY <1>2, <1>10 DEF Start, TwinUp, VfioUp, Alloc, Pin, DriverUp, Bind, OpenPortal, Handshake,
    Exit, Kill, Reporting
<1>11. CASE Hub
  BY <1>2, <1>3, <1>11 DEF Hub, Reporting, work
<1>12. CASE HardwareReady \/ Drain \/ UNCHANGED vars
  BY <1>1, <1>12 DEF HardwareReady, Drain, vars, main, work
<1> QED
  BY <1>5, <1>6, <1>7, <1>8, <1>9, <1>10, <1>11, <1>12 DEF Next, EngineStep

-----------------------------------------------------------------------------
(* The results                                                             *)

(* Initially there is nothing.                                             *)
LEMMA InitInv == Init => Inv
<1> SUFFICES ASSUME Init PROVE Inv
  OBVIOUS
<1> USE DEF Init, PageInit, VfioInit, XdpInit, TelemetryInit
<1>1. Stacked /\ Height
  <2>1. live \in Seq(Objects) /\ Len(live) = 0 /\ pc = "idle"
    OBVIOUS
  <2>2. Stacked
    BY <2>1 DEF Stacked
  <2>3. Height
    BY <2>1 DEF Height, Device, Reporting, Ended
  <2> QED
    BY <2>2, <2>3
<1>2. Paged /\ Acquired
  BY DEF Paged, Acquired
<1>3. Registered
  BY DEF Registered
<1>4. FreedByItsAllocator
  BY DEF FreedByItsAllocator
<1>5. Attached
  BY TelemetryAssumption DEF Attached, Shm!ShmInit, Shm!ShmTypeOK, NoObject, Shm!NoObject,
    Shm!Object, Orderly
<1>6. Sampled /\ CountsThisRun
  BY DEF Sampled, CountsThisRun
<1>7. NotThrown /\ NameFound /\ BarLast
  BY DEF NotThrown, NameFound, BeforeHub, BarLast
<1> QED
  BY <1>1, <1>2, <1>3, <1>4, <1>5, <1>6, <1>7 DEF Inv

(* The invariant is inductive.                                             *)
LEMMA Invariance == Spec => []Inv
<1>1. Inv /\ [Next]_vars => Inv'
  BY NextStack, NextPaged, NextRegistered, NextAcquired, NextAttached, NextSampled, NextCounts,
    NextNotThrown, NextNameFound, NextBarLast
  DEF Inv
<1> QED
  BY <1>1, InitInv, PTL DEF Spec

(* Wherever the construction of the engine fails, the pinned page outlives *)
(* its registration with the kernel.                                       *)
THEOREM UmemContained == Spec => []UmemWithinMemory
<1>1. Inv => UmemWithinMemory
  <2> SUFFICES ASSUME Inv, m_umem, pc \notin Ended PROVE m_ptr # "none"
    BY DEF UmemWithinMemory
  <2>1. Orderly
    BY DEF Orderly, Ended
  <2>2. Len(live) >= 3 /\ Len(live) \in Nat
    BY <2>1 DEF Inv, Registered, Stacked
  <2>3. m_ptr = Allocator
    BY <2>1, <2>2 DEF Inv, Paged
  <2> QED
    BY <2>3 DEF Allocator, Deallocator
<1> QED
  BY <1>1, Invariance, PTL

(* Whatever mixture of NUMA memory, heap and huge page the machine grants, *)
(* memory goes back to the allocator it came from.                         *)
THEOREM NeverMisfreed == Spec => []FreedByItsAllocator
<1>1. Inv => FreedByItsAllocator
  BY DEF Inv
<1> QED
  BY <1>1, Invariance, PTL

(* A run that ends by itself, wherever it threw, has released socket,      *)
(* memory, descriptors, counters and name, but for the descriptors of a    *)
(* VFIO constructor that threw, the buffer of a page that could not be     *)
(* locked, and the name of a hub that could not be sized; a name that the  *)
(* run only found stays as well.                                           *)
THEOREM LeavesClean == Spec => []CleanExit
<1>1. Inv => CleanExit
  <2> SUFFICES ASSUME Inv, pc = "exited"
               PROVE  /\ ~m_umem /\ ~m_xsk
                      /\ vfio # {} => thrown = "vfio" /\ "bar" \notin vfio
                      /\ m_ptr # "none" => thrown = "upgrade" /\ ~m_is_mmaped
                      /\ map[Engine] = NoObject /\ fd[Engine] = NoObject
                      /\ link # NoObject => thrown = "size" \/ (thrown # "none" /\ link = found)
    BY DEF CleanExit
  <2>1. Orderly /\ Len(live) = 0
    BY DEF Inv, Orderly, Height
  <2>2. ~m_umem /\ ~m_xsk
    BY <2>1 DEF Inv, Registered
  <2>3. vfio # {} => thrown = "vfio" /\ "bar" \notin vfio
    BY <2>1 DEF Inv, Acquired, BarLast
  <2>4. m_ptr # "none" => thrown = "upgrade" /\ ~m_is_mmaped
    BY <2>1 DEF Inv, Paged
  <2>5. /\ map[Engine] = NoObject /\ fd[Engine] = NoObject
        /\ thrown = "none" => link = NoObject
    BY <2>1 DEF Inv, Attached
  <2>6. thrown \notin {"none", "size"} => link = found
    BY DEF Inv, NameFound
  <2> QED
    BY <2>2, <2>3, <2>4, <2>5, <2>6
<1> QED
  BY <1>1, Invariance, PTL

(* The shared counters count the packets of the running engine only, even  *)
(* when the engine before it was killed and its object is still in use.    *)
THEOREM CountsOwn == Spec => []CountsThisRun
<1>1. Inv => CountsThisRun
  BY DEF Inv
<1> QED
  BY <1>1, Invariance, PTL

(* Every figure print_stats() and save_markdown_report() give is the       *)
(* percentile it is called, whatever the engine recorded.                  *)
THEOREM ReportsPercentiles == Spec => []ReportSound
<1>1. ASSUME Inv PROVE ReportSound
  <2> SUFFICES ASSUME NEW p \in DOMAIN Report(m_samples)
               PROVE  IsPercentile(m_samples, p, Report(m_samples)[p])
    BY DEF ReportSound
  <2>1. m_samples \in Seq(Latency) /\ Latency \subseteq Nat
    BY <1>1, DemoAssumption DEF Inv, Sampled
  <2>2. m_samples \in Seq(Nat)
    BY <2>1, SeqMonotonic
  <2>3. m_samples # << >>
    <3>1. DOMAIN << >> = {}
      OBVIOUS
    <3> QED
      BY <3>1 DEF Report
  <2>4. p \in Reported /\ Report(m_samples)[p] = Percentile(m_samples, p)
    BY <2>3 DEF Report
  <2>5. p \in Nat
    BY <2>4 DEF Reported, PERCENTILE_Q1, PERCENTILE_P50, PERCENTILE_Q3, PERCENTILE_P99_9,
      PERCENTILE_P99_99
  <2> QED
    BY <2>2, <2>3, <2>4, <2>5, PercentileSound
<1> QED
  BY <1>1, Invariance, PTL

-----------------------------------------------------------------------------
(* The end of a run                                                        *)

(* The loops of main() keep to their bounds.                               *)
Within ==
  /\ call \in 0..Len(Calls) /\ (pc = "vfio" => call < Len(Calls))
  /\ timeout_ms \in 0..HANDSHAKE_TIMEOUT
  /\ Len(m_samples) <= ITERATIONS

(* A bound on the steps of the engine's thread that are left of the run,   *)
(* from the calls, polls, rounds and destructors that are left.            *)
CallsLeft == Len(Calls) - call
PollsLeft == HANDSHAKE_TIMEOUT - timeout_ms
RoundsLeft == ITERATIONS - Len(m_samples)
ObjectsLeft == Len(live)
AtLoop == 9 + 2 * RoundsLeft
AtHub == 13 + 2 * ITERATIONS
AtHandshake == AtHub + 1 + PollsLeft
AtAlloc == AtHub + HANDSHAKE_TIMEOUT + 6
StepsLeft ==
  CASE pc = "vfio" -> AtAlloc + CallsLeft
    [] pc = "twin" -> AtAlloc + 1
    [] pc = "alloc" -> AtAlloc
    [] pc = "upgrade" -> AtAlloc - 1
    [] pc = "watchdog" -> AtAlloc - 2
    [] pc = "bind" -> AtAlloc - 3
    [] pc = "open" -> AtAlloc - 4
    [] pc = "handshake" -> AtHandshake
    [] pc = "hub" -> AtHub
    [] pc = "size" -> AtHub - 1
    [] pc = "map" -> AtHub - 2
    [] pc = "counters" -> AtHub - 3
    [] pc = "loop" -> AtLoop
    [] pc = "record" -> AtLoop - 1
    [] pc = "park" -> 8
    [] pc = "print" -> 7
    [] pc = "unwind" -> 1 + ObjectsLeft
    [] OTHER -> 0

Nearer ==
  /\ EngineStep => StepsLeft' < StepsLeft
  /\ Next /\ ~Start => StepsLeft' <= StepsLeft

(* How many calls the constructor of the VFIO device makes.                *)
LEMMA CallCount == Len(Calls) = 9
  BY DEF Calls

(* Room is made for the sample of every round.                             *)
LEMMA Recorded ==
  ASSUME Sampled, RecordLatency
  PROVE  /\ Len(m_samples) \in Nat /\ Len(m_samples') = Len(m_samples) + 1
         /\ Len(m_samples) < ITERATIONS
<1>1. /\ m_samples \in Seq(Latency) /\ Len(m_samples) \in Nat
      /\ Len(m_samples) < ITERATIONS
  BY DEF Sampled, RecordLatency, At
<1>2. PICK t \in Latency : m_samples' = Record(m_samples, t)
  BY DEF RecordLatency
<1>3. Len(m_samples) < MetricCapacity
  BY <1>1, DemoAssumption, MetricAssumption
<1> QED
  BY <1>1, <1>2, <1>3, AppendProperties DEF Record

(* No step takes a counter past its bound.                                 *)
LEMMA NextWithin ==
  ASSUME Sampled, Within, [Next]_vars
  PROVE  Within'
<1>0. Len(Calls) \in Nat /\ ITERATIONS \in Nat /\ HANDSHAKE_TIMEOUT \in Nat
  BY CallCount, DemoAssumption
<1> USE DEF At, Goto, Throw, Construct
<1>1. CASE UNCHANGED <<call, pc, timeout_ms, m_samples>>
  BY <1>1 DEF Within
<1>2. CASE Start
  <2>1. call' = 0 /\ timeout_ms' = 0 /\ m_samples' = << >>
    BY <1>2 DEF Start
  <2>2. Len(Calls) = 9
    BY DEF Calls
  <2> QED
    BY <1>0, <2>1, <2>2 DEF Within
<1>3. CASE VfioUp
  <2>1. UNCHANGED <<timeout_ms, m_samples>>
    BY <1>3 DEF VfioUp, work
  <2>2. CASE Throw /\ UNCHANGED call
    BY <2>1, <2>2 DEF Within
  <2>3. CASE VfioCall /\ IF call' = Len(Calls) THEN pc' = "alloc" ELSE pc' = "vfio"
    <3>1. call < Len(Calls) /\ call' = call + 1
      BY <2>3 DEF VfioCall
    <3> QED
      BY <1>0, <2>1, <2>3, <3>1 DEF Within
  <2> QED
    BY <1>3, <2>2, <2>3 DEF VfioUp, vfioVars
<1>4. CASE \/ TwinUp \/ Alloc \/ Pin \/ DriverUp \/ Bind \/ OpenPortal \/ Hub \/ Transmit
           \/ Park \/ Exit \/ Kill
  <2>1. UNCHANGED <<call, timeout_ms, m_samples>> /\ pc' # "vfio"
    BY <1>4 DEF TwinUp, Alloc, Pin, DriverUp, Bind, OpenPortal, Hub, Transmit, Park, Exit, Kill,
      work, vfioVars
  <2> QED
    BY <2>1 DEF Within
<1>5. CASE Handshake
  <2>1. UNCHANGED <<call, m_samples>> /\ pc' # "vfio"
    BY <1>5 DEF Handshake, vfioVars
  <2>2. \/ UNCHANGED timeout_ms
        \/ timeout_ms < HANDSHAKE_TIMEOUT /\ timeout_ms' = timeout_ms + 1
    BY <1>5 DEF Handshake
  <2> QED
    BY <1>0, <2>1, <2>2 DEF Within
<1>6. CASE RecordLatency
  <2>1. UNCHANGED <<call, timeout_ms>> /\ pc' # "vfio"
    BY <1>6 DEF RecordLatency, vfioVars
  <2> QED
    BY <1>0, <1>6, <2>1, Recorded DEF Within
<1>7. CASE Unwind
  <2>1. UNCHANGED <<pc, timeout_ms, m_samples>> /\ pc = "unwind"
    BY <1>7 DEF Unwind, work
  <2>2. call' = call \/ call' = 0
    BY <1>7 DEF Unwind, VfioClose, vfioVars
  <2> QED
    BY <1>0, <2>1, <2>2 DEF Within
<1> QED
  BY <1>1, <1>2, <1>3, <1>4, <1>5, <1>6, <1>7
  DEF Next, EngineStep, HardwareReady, Drain, Porth_stat, vars, main, work, vfioVars

(* StepsLeft, place by place.                                              *)
Places ==
  /\ pc = "vfio" => StepsLeft = AtAlloc + CallsLeft
  /\ pc = "twin" => StepsLeft = AtAlloc + 1
  /\ pc = "alloc" => StepsLeft = AtAlloc
  /\ pc = "upgrade" => StepsLeft = AtAlloc - 1
  /\ pc = "watchdog" => StepsLeft = AtAlloc - 2
  /\ pc = "bind" => StepsLeft = AtAlloc - 3
  /\ pc = "open" => StepsLeft = AtAlloc - 4
  /\ pc = "handshake" => StepsLeft = AtHandshake
  /\ pc = "hub" => StepsLeft = AtHub
  /\ pc = "size" => StepsLeft = AtHub - 1
  /\ pc = "map" => StepsLeft = AtHub - 2
  /\ pc = "counters" => StepsLeft = AtHub - 3
  /\ pc = "loop" => StepsLeft = AtLoop
  /\ pc = "record" => StepsLeft = AtLoop - 1
  /\ pc = "park" => StepsLeft = 8
  /\ pc = "print" => StepsLeft = 7
  /\ pc = "unwind" => StepsLeft = 1 + ObjectsLeft
  /\ pc \in Ended \cup {"idle"} => StepsLeft = 0

(* They are the branches of its definition.                                *)
LEMMA Placed == Places
  BY DEF Places, StepsLeft, Ended

(* What the places are counted with are numbers.                           *)
Ranges ==
  /\ ITERATIONS \in Nat /\ HANDSHAKE_TIMEOUT \in Nat
  /\ CallsLeft \in Nat /\ CallsLeft <= 9
  /\ PollsLeft \in Nat /\ PollsLeft <= HANDSHAKE_TIMEOUT
  /\ RoundsLeft \in Nat /\ RoundsLeft <= ITERATIONS
  /\ ObjectsLeft \in Nat /\ ObjectsLeft <= 5

(* The invariants say so.                                                  *)
LEMMA Ranged ==
  ASSUME Stacked, Sampled, Within
  PROVE  Ranges
<1>1. Len(Calls) = 9 /\ ITERATIONS \in Nat /\ HANDSHAKE_TIMEOUT \in Nat
  BY CallCount, DemoAssumption
<1>2. ObjectsLeft \in Nat /\ ObjectsLeft <= 5
  BY DEF Stacked, ObjectsLeft
<1>3. Len(m_samples) \in Nat
  BY DEF Sampled
<1>4. RoundsLeft \in Nat /\ RoundsLeft <= ITERATIONS
  BY <1>1, <1>3 DEF Within, RoundsLeft
<1>5. /\ CallsLeft \in Nat /\ CallsLeft <= 9
      /\ PollsLeft \in Nat /\ PollsLeft <= HANDSHAKE_TIMEOUT
  BY <1>1 DEF Within, CallsLeft, PollsLeft
<1> QED
  BY <1>1, <1>2, <1>4, <1>5 DEF Ranges

(* Every step of the engine's thread leaves fewer to come.                 *)
LEMMA Advances ==
  ASSUME Stacked, Sampled, Within, Places, Places', Ranges, Ranges', EngineStep
  PROVE  StepsLeft' < StepsLeft
<1> USE DEF At, Goto, Throw, Construct
<1>1. CASE TwinUp
  <2>1. pc = "twin" /\ pc' \in {"alloc", "unwind"}
    BY <1>1 DEF TwinUp
  <2>2. /\ StepsLeft = AtAlloc + 1
        /\ StepsLeft' = AtAlloc' \/ StepsLeft' = 1 + ObjectsLeft'
    BY <2>1 DEF Places
  <2> QED
    BY <2>2 DEF Ranges, AtAlloc, AtHub
<1>2. CASE VfioUp
  <2>1. pc = "vfio" /\ pc' \in {"vfio", "alloc", "unwind"}
    BY <1>2 DEF VfioUp
  <2>2. pc' \in {"vfio", "alloc"} => CallsLeft' = CallsLeft - 1
    <3>1. pc' \in {"vfio", "alloc"} => call' = call + 1
      BY <1>2 DEF VfioUp, VfioCall
    <3>2. call \in Nat /\ Len(Calls) \in Nat
      BY CallCount DEF Within
    <3> QED
      BY <3>1, <3>2 DEF CallsLeft
  <2>3. /\ StepsLeft = AtAlloc + CallsLeft
        /\ \/ StepsLeft' = 1 + ObjectsLeft'
           \/ /\ CallsLeft' = CallsLeft - 1
              /\ StepsLeft' \in {AtAlloc', AtAlloc' + CallsLeft'}
    BY <2>1, <2>2 DEF Places
  <2> QED
    BY <2>3 DEF Ranges, AtAlloc, AtHub
<1>3. CASE Alloc \/ Pin \/ DriverUp \/ Bind
  <2>1. \/ pc = "alloc" /\ pc' \in {"upgrade", "unwind"}
        \/ pc = "upgrade" /\ pc' \in {"watchdog", "unwind"}
        \/ pc = "watchdog" /\ pc' \in {"bind", "unwind"}
        \/ pc = "bind" /\ pc' \in {"open", "unwind"}
    BY <1>3 DEF Alloc, Pin, DriverUp, Bind
  <2>2. \/ StepsLeft = AtAlloc /\ StepsLeft' \in {AtAlloc' - 1, 1 + ObjectsLeft'}
        \/ StepsLeft = AtAlloc - 1 /\ StepsLeft' \in {AtAlloc' - 2, 1 + ObjectsLeft'}
        \/ StepsLeft = AtAlloc - 2 /\ StepsLeft' \in {AtAlloc' - 3, 1 + ObjectsLeft'}
        \/ StepsLeft = AtAlloc - 3 /\ StepsLeft' \in {AtAlloc' - 4, 1 + ObjectsLeft'}
    BY <2>1 DEF Places
  <2> QED
    BY <2>2 DEF Ranges, AtAlloc, AtHub
<1>4. CASE OpenPortal
  <2>1. pc = "open" /\ pc' \in {"handshake", "unwind"}
    BY <1>4 DEF OpenPortal
  <2>2. /\ StepsLeft = AtAlloc - 4
        /\ StepsLeft' = AtHandshake' \/ StepsLeft' = 1 + ObjectsLeft'
    BY <2>1 DEF Places
  <2> QED
    BY <2>2 DEF Ranges, AtAlloc, AtHub, AtHandshake
<1>5. CASE Handshake
  <2>1. /\ pc = "handshake" /\ pc' \in {"handshake", "hub", "unwind"}
        /\ pc' = "handshake" => PollsLeft' = PollsLeft - 1
    <3>1. /\ pc = "handshake" /\ pc' \in {"handshake", "hub", "unwind"}
          /\ pc' = "handshake" => timeout_ms' = timeout_ms + 1
      BY <1>5 DEF Handshake
    <3>2. timeout_ms \in Nat /\ HANDSHAKE_TIMEOUT \in Nat
      BY DemoAssumption DEF Within
    <3> QED
      BY <3>1, <3>2 DEF PollsLeft
  <2>2. /\ StepsLeft = AtHandshake
        /\ \/ StepsLeft' \in {AtHub', 1 + ObjectsLeft'}
           \/ StepsLeft' = AtHandshake' /\ PollsLeft' = PollsLeft - 1
    BY <2>1 DEF Places
  <2> QED
    BY <2>2 DEF Ranges, AtHub, AtHandshake
<1>6. CASE Hub
  <2>1. \/ pc = "hub" /\ pc' \in {"size", "unwind"}
        \/ pc = "size" /\ pc' \in {"map", "unwind"}
        \/ pc = "map" /\ pc' \in {"counters", "crashed"}
        \/ pc = "counters" /\ pc' = "loop"
    BY <1>6 DEF Hub
  <2>2. \/ StepsLeft = AtHub /\ StepsLeft' \in {AtHub' - 1, 1 + ObjectsLeft'}
        \/ StepsLeft = AtHub - 1 /\ StepsLeft' \in {AtHub' - 2, 1 + ObjectsLeft'}
        \/ StepsLeft = AtHub - 2 /\ StepsLeft' \in {AtHub' - 3, 0}
        \/ StepsLeft = AtHub - 3 /\ StepsLeft' = AtLoop'
    BY <2>1 DEF Places, Ended
  <2> QED
    BY <2>2 DEF Ranges, AtHub, AtLoop
<1>7. CASE Transmit
  <2>1. pc = "loop" /\ pc' \in {"record", "park"} /\ RoundsLeft' = RoundsLeft
    BY <1>7 DEF Transmit, work, RoundsLeft
  <2>2. StepsLeft = AtLoop /\ StepsLeft' \in {AtLoop' - 1, 8}
    BY <2>1 DEF Places
  <2> QED
    BY <2>1, <2>2 DEF Ranges, AtLoop
<1>8. CASE RecordLatency
  <2>1. pc = "record" /\ pc' = "loop"
    BY <1>8 DEF RecordLatency
  <2>2. StepsLeft = AtLoop - 1 /\ StepsLeft' = AtLoop'
    BY <2>1 DEF Places
  <2>3. RoundsLeft' = RoundsLeft - 1
    <3>1. ITERATIONS \in Nat
      BY DemoAssumption
    <3> QED
      BY <1>8, <3>1, Recorded DEF RoundsLeft
  <2> QED
    BY <2>2, <2>3 DEF Ranges, AtLoop
<1>9. CASE Park
  <2>1. \/ pc = "park" /\ pc' = "print"
        \/ pc = "print" /\ pc' = "unwind"
    BY <1>9 DEF Park
  <2>2. \/ StepsLeft = 8 /\ StepsLeft' = 7
        \/ StepsLeft = 7 /\ StepsLeft' = 1 + ObjectsLeft'
    BY <2>1 DEF Places
  <2> QED
    BY <2>2 DEF Ranges
<1>10. CASE Unwind
  <2>1. pc = "unwind" /\ pc' = "unwind" /\ ObjectsLeft' = ObjectsLeft - 1
    BY <1>10, Unwinds DEF ObjectsLeft
  <2>2. StepsLeft = 1 + ObjectsLeft /\ StepsLeft' = 1 + ObjectsLeft'
    BY <2>1 DEF Places
  <2> QED
    BY <2>1, <2>2 DEF Ranges
<1>11. CASE Exit
  <2>1. pc = "unwind" /\ pc' = "exited"
    BY <1>11 DEF Exit
  <2>2. StepsLeft = 1 + ObjectsLeft /\ StepsLeft' = 0
    BY <2>1 DEF Places, Ended
  <2> QED
    BY <2>2 DEF Ranges
<1> QED
  BY <1>1, <1>2, <1>3, <1>4, <1>5, <1>6, <1>7, <1>8, <1>9, <1>10, <1>11 DEF EngineStep

(* A whole run: nine calls of the VFIO constructor, every poll and two     *)
(* steps for every round.                                                  *)
RunLength == 9 + AtAlloc
Counted == StepsLeft \in Nat /\ StepsLeft <= RunLength

(* The number of steps left is one, and bounded by the constants.          *)
LEMMA Countable ==
  ASSUME Stacked, Height, Sampled, Within
  PROVE  Counted
<1>1. Places /\ Ranges
  BY Placed, Ranged
<1>2. pc = "record" => RoundsLeft > 0
  <2>1. pc = "record" => Len(m_samples) \in Nat /\ Len(m_samples) < ITERATIONS
    BY DEF Sampled
  <2>2. ITERATIONS \in Nat
    BY DemoAssumption
  <2> QED
    BY <2>1, <2>2 DEF RoundsLeft
<1>3. CASE pc \in {"vfio", "twin", "alloc", "upgrade", "watchdog", "bind", "open", "handshake"}
  BY <1>1, <1>3 DEF Places, Ranges, Counted, RunLength, AtAlloc, AtHub, AtHandshake
<1>4. CASE pc \in {"hub", "size", "map", "counters", "park", "print", "unwind"}
  BY <1>1, <1>4 DEF Places, Ranges, Counted, RunLength, AtAlloc, AtHub
<1>5. CASE pc \in {"loop", "record"}
  BY <1>1, <1>2, <1>5 DEF Places, Ranges, Counted, RunLength, AtAlloc, AtHub, AtLoop
<1>6. CASE pc \in Ended \cup {"idle"}
  BY <1>1, <1>6 DEF Places, Ranges, Counted, RunLength, AtAlloc, AtHub
<1>7. pc \in Device \cup {"idle", "alloc", "upgrade", "watchdog", "bind", "open", "handshake",
                          "hub", "size", "map", "counters", "unwind"} \cup Reporting \cup Ended
  BY DEF Height
<1> QED
  BY <1>3, <1>4, <1>5, <1>6, <1>7 DEF Device, Reporting

(* A run is over after a bounded number of the engine's own steps, whatever *)
(* fails in it and whatever the device and the display do meanwhile: each   *)
(* of them brings the end nearer and nothing but a new run puts it off.     *)
THEOREM RunsOut == Spec => []Counted /\ [][Nearer]_vars
<1>1. Init => Within
  <2>1. Len(Calls) = 9
    BY DEF Calls
  <2> QED
    BY <2>1, DemoAssumption DEF Init, VfioInit, Within
<1>2. Inv /\ Within /\ [Next]_vars => Within'
  BY NextWithin DEF Inv
<1>3. Inv /\ Within => Counted /\ Ranges
  BY Countable, Ranged DEF Inv
<1>4. ASSUME Inv, Within, Places, Places', Ranges, Ranges', Counted, Counted', [Next]_vars
      PROVE  [Nearer]_vars
  <2>1. EngineStep => StepsLeft' < StepsLeft
    BY <1>4, Advances DEF Inv
  <2>2. StepsLeft \in Nat /\ StepsLeft' \in Nat
    BY <1>4 DEF Counted
  <2>3. HardwareReady \/ Drain \/ Porth_stat => StepsLeft' = StepsLeft
    BY DEF HardwareReady, Drain, Porth_stat, main, work, vfioVars, StepsLeft, AtAlloc, AtHub,
      AtHandshake, AtLoop, CallsLeft, PollsLeft, RoundsLeft, ObjectsLeft
  <2>4. Kill => StepsLeft' = 0
    BY <1>4 DEF Kill, Places, Ended
  <2>5. Next /\ ~Start => StepsLeft' <= StepsLeft
    BY <2>1, <2>2, <2>3, <2>4 DEF Next
  <2> QED
    BY <2>1, <2>5 DEF Nearer
<1> QED
  BY <1>1, <1>2, <1>3, <1>4, Placed, Invariance, PTL DEF Spec

=============================================================================
