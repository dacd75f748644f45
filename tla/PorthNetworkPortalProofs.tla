---------------------- MODULE PorthNetworkPortalProofs ----------------------
(***************************************************************************)
(* Proofs about PorthNetworkPortal: for any number and size of frames and  *)
(* rings, any packets and any number of them.                              *)
(***************************************************************************)
EXTENDS PorthNetworkPortal, SequenceTheorems, TLAPS

Descriptor == [addr : Addresses, len : 0 .. FRAME_SIZE]

(* The head of the receive ring has been handed back; it has been read.    *)
Recycled == IF pc = "release" THEN 1 ELSE 0
Seen == IF pc \in {"recycle", "release"} THEN 1 ELSE 0

(* TypeOK in two parts, the flags ...                                      *)
Flags == keep \in BOOLEAN /\ loaded \in BOOLEAN /\ bound \in BOOLEAN

(* ... and everything else but the bounds of the rings.                    *)
Values ==
  /\ pc \in Setup \cup Polling \cup Teardown
  /\ res \subseteq {"area", "umem", "xsk", "bpf"}
  /\ attached \in {"porth_xdp_prog", "default"}
  /\ fill \in Seq(Addresses) /\ rx \in Seq(Descriptor)
  /\ umem \in [Addresses -> 0 .. MaxPackets]
  /\ kern \in Addresses \cup {NoFrame}
  /\ accepted \in Seq(Packets) /\ Len(accepted) <= MaxPackets
  /\ \A n \in 1 .. Len(accepted) : accepted[n].len <= FRAME_SIZE

(* What the portal holds at each step of its life.                         *)
Holds ==
  /\ pc = "construct" => res = {}
  /\ pc \in {"object", "umem"} => res = {"area"}
  /\ pc = "socket" => res = {"area", "umem"}
  /\ pc \in {"load", "bind", "prime"} \cup Polling => {"area", "umem", "xsk"} \subseteq res
  /\ pc = "delete_xsk" => "area" \in res /\ ("xsk" \in res => "umem" \in res)
  /\ pc = "delete_umem" => "area" \in res /\ "xsk" \notin res
  /\ pc = "close_bpf" => "area" \in res /\ {"umem", "xsk"} \cap res = {}
  /\ pc = "free_area" => res = {"area"}
  /\ pc = "done" => res = {}
  /\ kern # NoFrame => "xsk" \in res

(* Where poll_rx() may look at a descriptor there is one, and none of the  *)
(* rings holds more than was lent.                                         *)
Rings ==
  /\ pc \in {"read", "recycle", "release"} => Len(rx) >= 1
  /\ Len(rx) + Copying <= RxSize
  /\ pc \in Setup => Len(fill) = 0 /\ Len(rx) = 0 /\ kern = NoFrame /\ Len(accepted) = 0
  /\ pc \in Polling => Len(fill) + Len(rx) + Copying - Recycled = FILL_RING_RESERVE_SIZE
  /\ Len(fill) + Len(rx) + Copying - Recycled <= FILL_RING_RESERVE_SIZE
  /\ Gone >= 0

(* A frame is in one place at a time.                                      *)
Owned ==
  /\ \A i, j \in 1 .. Len(fill) : fill[i] = fill[j] => i = j
  /\ \A i, j \in (Recycled + 1) .. Len(rx) : rx[i].addr = rx[j].addr => i = j
  /\ \A i \in 1 .. Len(fill), j \in (Recycled + 1) .. Len(rx) : fill[i] # rx[j].addr
  /\ kern # NoFrame =>
       /\ \A i \in 1 .. Len(fill) : fill[i] # kern
       /\ \A j \in (Recycled + 1) .. Len(rx) : rx[j].addr # kern

(* A descriptor describes its packet, which stays in its frame until the   *)
(* frame is handed back.                                                   *)
Contents ==
  /\ \A i \in 1 .. Len(rx) : rx[i].len = accepted[Gone + i].len
  /\ \A i \in (Recycled + 1) .. Len(rx) : umem[rx[i].addr] = Gone + i

(* The filter has let every packet through.                                *)
Filtered ==
  attached = "porth_xdp_prog" => \A n \in 1 .. Len(accepted) : Filter(accepted[n])

(* What has been printed: the IPv4 packets seen so far, in order.          *)
Printed ==
  /\ printed \in Seq(Nat)
  /\ {printed[i] : i \in 1 .. Len(printed)} = {n \in 1 .. Gone + Seen : accepted[n].ip}
  /\ \A i, j \in 1 .. Len(printed) : i < j => printed[i] < printed[j]

-----------------------------------------------------------------------------
(* Addresses                                                               *)

(* The product of natural numbers is one.                                  *)
LEMMA TimesNat == ASSUME NEW m \in Nat, NEW n \in Nat PROVE m * n \in Nat
  OBVIOUS

(* No frame has the address that stands for no frame.                      *)
LEMMA NoFrameElsewhere == NoFrame \notin Addresses
<1>1. ASSUME NEW i \in 0 .. NUM_FRAMES - 1 PROVE i * FRAME_SIZE \in Nat
  BY PortalAssumption, TimesNat
<1> QED
  BY <1>1 DEF Addresses, NoFrame

(* Multiplication by a positive number is strictly monotonic, so ...       *)
LEMMA TimesGrows ==
  ASSUME NEW m \in Nat, NEW n \in Nat, m < n, NEW F \in Nat \ {0}
  PROVE  m * F < n * F
<1> DEFINE d == n - m
<1>1. d \in Nat /\ d >= 1 /\ n = m + d
  OBVIOUS
<1> HIDE DEF d
<1>2. n * F = m * F + d * F
  BY <1>1
<1>3. d * F >= 1 /\ d * F \in Nat
  <2>1. (d - 1) * F \in Nat
    BY <1>1, TimesNat
  <2>2. d * F = (d - 1) * F + F
    BY <1>1
  <2> QED
    BY <2>1, <2>2
<1>4. m * F \in Nat
  BY TimesNat
<1> QED
  BY <1>2, <1>3, <1>4

(* ... different frames have different addresses.                          *)
LEMMA AddressesDiffer ==
  ASSUME NEW m \in Nat, NEW n \in Nat, FrameAddr(m) = FrameAddr(n)
  PROVE  m = n
<1>1. m * FRAME_SIZE \in Nat /\ n * FRAME_SIZE \in Nat
  BY PortalAssumption, TimesNat
<1>2. m < n => m * FRAME_SIZE < n * FRAME_SIZE
  BY PortalAssumption, TimesGrows
<1>3. n < m => n * FRAME_SIZE < m * FRAME_SIZE
  BY PortalAssumption, TimesGrows
<1> QED
  BY <1>1, <1>2, <1>3 DEF FrameAddr

-----------------------------------------------------------------------------
(* Sequences                                                               *)

(* The elements of a sequence that grows at the end.                       *)
LEMMA Grown ==
  ASSUME NEW S, NEW s \in Seq(S), NEW e \in S
  PROVE  /\ Append(s, e) \in Seq(S) /\ Len(Append(s, e)) = Len(s) + 1 /\ Len(s) \in Nat
         /\ \A i \in 1 .. Len(s) : Append(s, e)[i] = s[i]
         /\ Append(s, e)[Len(s) + 1] = e
  BY AppendProperties

(* The elements of a sequence that shrinks at the front.                   *)
LEMMA Shrunk ==
  ASSUME NEW S, NEW s \in Seq(S), s # << >>
  PROVE  /\ Tail(s) \in Seq(S) /\ Len(s) \in Nat /\ Len(s) >= 1 /\ Len(Tail(s)) = Len(s) - 1
         /\ \A i \in 1 .. Len(s) - 1 : Tail(s)[i] = s[i + 1]
         /\ Head(s) = s[1] /\ s[1] \in S
<1>1. Len(s) \in Nat /\ Len(s) # 0
  BY EmptySeq
<1> QED
  BY <1>1, HeadTailProperties

-----------------------------------------------------------------------------
(* The steps                                                               *)

(* Most steps leave the rings, the packets and what was printed alone.     *)
Quiet ==
  /\ UNCHANGED <<fill, rx, umem, kern, accepted, printed, attached, Recycled, Seen>>
  /\ pc' \in Setup => pc \in Setup
  /\ pc' \in Polling => pc \in Polling
  /\ pc' \in {"read", "recycle", "release"} => pc' = pc \/ rx # << >>

(* The other steps are those of the kernel and of the frames: priming,     *)
(* reading, recycling and releasing.                                       *)
LEMMA Steps ==
  ASSUME [Next]_vars
  PROVE  \/ Quiet
         \/ \E p \in Packets : KernelReceive(p)
         \/ KernelPublish \/ PrimeFillRing \/ PollRead \/ PollRecycle \/ PollRelease
<1> USE DEF Quiet, Recycled, Seen, Setup, Polling
<1>1. CASE UNCHANGED vars
  BY <1>1 DEF vars
<1>2. CASE Sigint
  BY <1>2 DEF Sigint, portal, kernel
<1>3. CASE SetupStep
  BY <1>3 DEF SetupStep, Construct, FindObject, InitializeUmem, CreateSocket,
    LoadKernelProgram, BindXskMap, kernel
<1>4. CASE PollStep
  BY <1>4 DEF PollStep, LoopTest, PollPeek, kernel
<1>5. CASE TeardownStep
  BY <1>5 DEF TeardownStep, DeleteSocket, DeleteUmem, CloseBpf, FreeArea, kernel
<1> QED
  BY <1>1, <1>2, <1>3, <1>4, <1>5 DEF Next, PortalStep

(* The kernel takes the first free frame for a new packet.                 *)
LEMMA Receives ==
  ASSUME Values, NEW p \in Packets, KernelReceive(p)
  PROVE  /\ Len(fill) \in Nat /\ Len(fill) >= 1
         /\ fill' \in Seq(Addresses) /\ Len(fill') = Len(fill) - 1
         /\ \A i \in 1 .. Len(fill) - 1 : fill'[i] = fill[i + 1]
         /\ kern = NoFrame /\ kern' = fill[1] /\ kern' \in Addresses /\ kern' # NoFrame
         /\ accepted' \in Seq(Packets) /\ Len(accepted) \in Nat
         /\ Len(accepted') = Len(accepted) + 1 /\ Len(accepted') <= MaxPackets
         /\ \A n \in 1 .. Len(accepted) : accepted'[n] = accepted[n]
         /\ accepted'[Len(accepted) + 1] = p
         /\ umem' = [umem EXCEPT ![fill[1]] = 0]
         /\ Len(rx) < RxSize /\ p.len <= FRAME_SIZE
         /\ UNCHANGED <<portal, keep, attached, rx>>
<1>1. fill \in Seq(Addresses) /\ fill # << >> /\ accepted \in Seq(Packets)
  BY DEF Values, KernelReceive
<1>2. fill' = Tail(fill) /\ kern' = Head(fill) /\ accepted' = Append(accepted, p)
  BY DEF KernelReceive
<1>3. /\ Tail(fill) \in Seq(Addresses) /\ Len(fill) \in Nat /\ Len(fill) >= 1
      /\ Len(Tail(fill)) = Len(fill) - 1
      /\ \A i \in 1 .. Len(fill) - 1 : Tail(fill)[i] = fill[i + 1]
      /\ Head(fill) = fill[1] /\ fill[1] \in Addresses
  BY <1>1, Shrunk
<1>4. /\ accepted' \in Seq(Packets) /\ Len(accepted) \in Nat
      /\ Len(accepted') = Len(accepted) + 1
      /\ \A n \in 1 .. Len(accepted) : accepted'[n] = accepted[n]
      /\ accepted'[Len(accepted) + 1] = p
  BY <1>1, <1>2, Grown
<1>5. Len(accepted') <= MaxPackets
  BY <1>4, PortalAssumption DEF KernelReceive
<1>6. /\ kern = NoFrame /\ umem' = [umem EXCEPT ![fill[1]] = 0]
      /\ Len(rx) < RxSize /\ p.len <= FRAME_SIZE
      /\ UNCHANGED <<portal, keep, attached, rx>>
  BY <1>3 DEF KernelReceive
<1> QED
  BY <1>2, <1>3, <1>4, <1>5, <1>6, NoFrameElsewhere

(* It publishes the frame with the length of the packet.                   *)
LEMMA Publishes ==
  ASSUME Values, Rings, KernelPublish
  PROVE  /\ kern \in Addresses /\ kern # NoFrame /\ kern' = NoFrame
         /\ rx' \in Seq(Descriptor) /\ Len(rx) \in Nat /\ Len(rx') = Len(rx) + 1
         /\ \A i \in 1 .. Len(rx) : rx'[i] = rx[i]
         /\ rx'[Len(rx) + 1].addr = kern
         /\ rx'[Len(rx) + 1].len = accepted[Len(accepted)].len
         /\ umem' = [umem EXCEPT ![kern] = Len(accepted)]
         /\ Len(accepted) \in 1 .. MaxPackets
         /\ UNCHANGED <<portal, keep, attached, fill, accepted>>
<1>1. /\ kern # NoFrame /\ kern' = NoFrame /\ umem' = [umem EXCEPT ![kern] = Len(accepted)]
      /\ rx' = Append(rx, [addr |-> kern, len |-> accepted[Len(accepted)].len])
      /\ UNCHANGED <<portal, keep, attached, fill, accepted>>
  BY DEF KernelPublish
<1>2. /\ kern \in Addresses /\ rx \in Seq(Descriptor) /\ accepted \in Seq(Packets)
      /\ Len(rx) \in Nat /\ Len(accepted) \in Nat /\ Len(accepted) <= MaxPackets
  BY <1>1 DEF Values
<1>3. Len(accepted) \in 1 .. MaxPackets
  BY <1>1, <1>2, PortalAssumption DEF Rings, Gone, Copying
<1>4. accepted[Len(accepted)].len \in 0 .. FRAME_SIZE
  <2>1. accepted[Len(accepted)] \in Packet /\ accepted[Len(accepted)].len <= FRAME_SIZE
    BY <1>2, <1>3, PortalAssumption DEF Values
  <2>2. accepted[Len(accepted)].len \in Nat
    BY <2>1 DEF Packet
  <2> QED
    BY <2>1, <2>2, PortalAssumption
<1> DEFINE d == [addr |-> kern, len |-> accepted[Len(accepted)].len]
<1>5. d \in Descriptor /\ d.addr = kern /\ d.len = accepted[Len(accepted)].len
  BY <1>2, <1>4 DEF Descriptor
<1> HIDE DEF d
<1>6. rx' = Append(rx, d)
  BY <1>1 DEF d
<1>7. /\ rx' \in Seq(Descriptor) /\ Len(rx') = Len(rx) + 1
      /\ \A i \in 1 .. Len(rx) : rx'[i] = rx[i]
      /\ rx'[Len(rx) + 1] = d
  BY <1>2, <1>5, <1>6, Grown
<1> QED
  BY <1>1, <1>2, <1>3, <1>5, <1>7

(* The first frames of the packet memory are lent.                         *)
LEMMA Primes ==
  ASSUME Values, Rings, PrimeFillRing
  PROVE  /\ pc = "prime" /\ pc' = "loop"
         /\ fill' \in Seq(Addresses) /\ Len(fill') = FILL_RING_RESERVE_SIZE
         /\ \A i \in 1 .. FILL_RING_RESERVE_SIZE : fill'[i] = FrameAddr(i - 1)
         /\ UNCHANGED <<keep, res, loaded, bound, attached, rx, kernel, printed>>
<1>1. /\ pc = "prime" /\ pc' = "loop"
      /\ UNCHANGED <<keep, res, loaded, bound, attached, rx, kernel, printed>>
  BY DEF PrimeFillRing
<1>2. fill = << >>
  <2>1. fill \in Seq(Addresses) /\ Len(fill) = 0
    BY <1>1 DEF Values, Rings, Setup
  <2> QED
    BY <2>1, EmptySeq
<1> DEFINE N == FILL_RING_RESERVE_SIZE
           f == [i \in 1 .. N |-> FrameAddr(i - 1)]
<1>3. Reserved(N) = N /\ N \in Nat
  BY <1>2, PortalAssumption DEF Reserved
<1>4. f \in Seq(Addresses) /\ Len(f) = N
  <2>1. ASSUME NEW i \in 1 .. N PROVE FrameAddr(i - 1) \in Addresses
    <3>1. i - 1 \in 0 .. NUM_FRAMES - 1
      BY PortalAssumption
    <3> QED
      BY <3>1 DEF FrameAddr, Addresses
  <2> QED
    BY <1>3, <2>1
<1>5. fill' = << >> \o f
  BY <1>2, <1>3 DEF PrimeFillRing
<1>6. fill' = f
  BY <1>4, <1>5, ConcatEmptySeq
<1> QED
  BY <1>1, <1>3, <1>4, <1>6

(* The portal hands back the frame of the first descriptor.                *)
LEMMA Recycles ==
  ASSUME Values, Rings, PollRecycle
  PROVE  /\ pc = "recycle" /\ pc' = "release" /\ Len(rx) >= 1
         /\ rx[1] \in Descriptor /\ Len(fill) \in Nat /\ Len(rx) \in Nat
         /\ fill' \in Seq(Addresses) /\ Len(fill') = Len(fill) + 1
         /\ \A i \in 1 .. Len(fill) : fill'[i] = fill[i]
         /\ fill'[Len(fill) + 1] = rx[1].addr
         /\ UNCHANGED <<keep, res, loaded, bound, attached, rx, kernel, printed>>
<1>1. /\ pc = "recycle" /\ pc' = "release"
      /\ fill' = fill \o [i \in 1 .. Reserved(1) |-> Head(rx).addr]
      /\ UNCHANGED <<keep, res, loaded, bound, attached, rx, kernel, printed>>
  BY DEF PollRecycle
<1>2. fill \in Seq(Addresses) /\ rx \in Seq(Descriptor) /\ Len(fill) \in Nat /\ Len(rx) \in Nat
  BY DEF Values
<1>3. Len(rx) >= 1 /\ Len(fill) + 1 <= FillSize
  <2>1. Len(rx) >= 1
    BY <1>1 DEF Rings
  <2>2. Recycled = 0 /\ Copying \in {0, 1}
    BY <1>1 DEF Recycled, Copying
  <2>3. Len(fill) + Len(rx) + Copying - Recycled <= FILL_RING_RESERVE_SIZE
    BY DEF Rings
  <2> QED
    BY <1>2, <2>1, <2>2, <2>3, PortalAssumption
<1>4. rx # << >> /\ rx[1] \in Descriptor /\ Head(rx) = rx[1]
  <2>1. rx # << >>
    BY <1>3, EmptySeq
  <2> QED
    BY <1>2, <2>1, Shrunk
<1>5. Reserved(1) = 1 /\ rx[1].addr \in Addresses
  BY <1>3, <1>4 DEF Reserved, Descriptor
<1> DEFINE a == rx[1].addr
           f == [i \in 1 .. 1 |-> a]
<1>6. f \in Seq(Addresses) /\ Len(f) = 1 /\ f[1] = a
  BY <1>5
<1>7. fill' = fill \o f
  BY <1>1, <1>4, <1>5
<1> HIDE DEF f
<1>8. /\ fill' \in Seq(Addresses) /\ Len(fill') = Len(fill) + 1
      /\ \A i \in 1 .. Len(fill) + 1 :
           fill'[i] = IF i <= Len(fill) THEN fill[i] ELSE f[i - Len(fill)]
  <2>1. /\ fill \o f \in Seq(Addresses) /\ Len(fill \o f) = Len(fill) + Len(f)
        /\ \A i \in 1 .. Len(fill) + Len(f) :
             (fill \o f)[i] = IF i <= Len(fill) THEN fill[i] ELSE f[i - Len(fill)]
    BY <1>2, <1>6, ConcatProperties
  <2>2. Len(f) = 1
    BY <1>6
  <2> QED
    BY <1>7, <2>1, <2>2, Zenon
<1>9. fill'[Len(fill) + 1] = a
  <2>1. Len(fill) + 1 \in 1 .. Len(fill) + 1 /\ ~(Len(fill) + 1 <= Len(fill))
        /\ (Len(fill) + 1) - Len(fill) = 1
    BY <1>2
  <2> QED
    BY <1>6, <1>8, <2>1
<1>10. \A i \in 1 .. Len(fill) : fill'[i] = fill[i]
  BY <1>2, <1>8
<1> QED
  BY <1>1, <1>2, <1>3, <1>4, <1>8, <1>9, <1>10

(* It releases the first descriptor.                                       *)
LEMMA Releases ==
  ASSUME Values, Rings, PollRelease
  PROVE  /\ pc = "release" /\ pc' = "loop" /\ Len(rx) \in Nat /\ Len(rx) >= 1
         /\ rx' \in Seq(Descriptor) /\ Len(rx') = Len(rx) - 1
         /\ \A i \in 1 .. Len(rx) - 1 : rx'[i] = rx[i + 1]
         /\ UNCHANGED <<keep, res, loaded, bound, attached, fill, kernel, printed>>
<1>1. /\ pc = "release" /\ pc' = "loop" /\ rx' = Tail(rx)
      /\ UNCHANGED <<keep, res, loaded, bound, attached, fill, kernel, printed>>
  BY DEF PollRelease
<1>2. rx \in Seq(Descriptor) /\ Len(rx) >= 1
  BY <1>1 DEF Values, Rings
<1>3. rx # << >>
  BY <1>2, EmptySeq
<1> QED
  BY <1>1, <1>2, <1>3, Shrunk

-----------------------------------------------------------------------------
(* Types, resources and rings                                              *)

(* The flags stay Boolean.                                                 *)
LEMMA NextFlags == ASSUME Flags, [Next]_vars PROVE Flags'
<1>1. \/ UNCHANGED <<keep, loaded, bound>>
      \/ Sigint \/ LoadKernelProgram \/ BindXskMap
  BY DEF Next, PortalStep, SetupStep, PollStep, TeardownStep, Construct, FindObject,
    InitializeUmem, CreateSocket, PrimeFillRing, LoopTest, PollPeek, PollRead, PollRecycle,
    PollRelease, DeleteSocket, DeleteUmem, CloseBpf, FreeArea, KernelPublish, KernelReceive,
    portal, vars
<1>2. CASE UNCHANGED <<keep, loaded, bound>>
  BY <1>2 DEF Flags
<1>3. CASE Sigint
  BY <1>3, Zenon DEF Sigint, Flags, portal
<1>4. CASE LoadKernelProgram
  BY <1>4, Zenon DEF LoadKernelProgram, Flags
<1>5. CASE BindXskMap
  BY <1>5, Zenon DEF BindXskMap, Flags
<1> QED
  BY <1>1, <1>2, <1>3, <1>4, <1>5

(* Where the program is and what it holds.                                 *)
LEMMA NextPlace ==
  ASSUME Values, [Next]_vars
  PROVE  /\ pc' \in Setup \cup Polling \cup Teardown
         /\ res' \subseteq {"area", "umem", "xsk", "bpf"}
         /\ UNCHANGED attached
<1> USE DEF Values, Setup, Polling, Teardown
<1>1. CASE UNCHANGED <<pc, res, attached>>
  BY <1>1
<1>2. CASE SetupStep
  BY <1>2 DEF SetupStep, Construct, FindObject, InitializeUmem, CreateSocket,
    LoadKernelProgram, BindXskMap, PrimeFillRing
<1>3. CASE PollStep
  BY <1>3 DEF PollStep, LoopTest, PollPeek, PollRead, PollRecycle, PollRelease
<1>4. CASE TeardownStep
  BY <1>4 DEF TeardownStep, DeleteSocket, DeleteUmem, CloseBpf, FreeArea
<1> QED
  BY <1>1, <1>2, <1>3, <1>4 DEF Next, PortalStep, Sigint, KernelPublish, KernelReceive, portal,
    vars

(* Addresses in the rings and numbers in the frames.                       *)
LEMMA NextValues == ASSUME Values, Rings, [Next]_vars PROVE Values'
<1>0. /\ pc' \in Setup \cup Polling \cup Teardown
      /\ res' \subseteq {"area", "umem", "xsk", "bpf"}
      /\ attached' \in {"porth_xdp_prog", "default"}
  BY NextPlace DEF Values
<1>a. /\ fill \in Seq(Addresses) /\ rx \in Seq(Descriptor)
      /\ umem \in [Addresses -> 0 .. MaxPackets] /\ kern \in Addresses \cup {NoFrame}
      /\ accepted \in Seq(Packets) /\ Len(accepted) <= MaxPackets
      /\ \A n \in 1 .. Len(accepted) : accepted[n].len <= FRAME_SIZE
  BY DEF Values
<1> SUFFICES /\ fill' \in Seq(Addresses) /\ rx' \in Seq(Descriptor)
             /\ umem' \in [Addresses -> 0 .. MaxPackets] /\ kern' \in Addresses \cup {NoFrame}
             /\ accepted' \in Seq(Packets) /\ Len(accepted') <= MaxPackets
             /\ \A n \in 1 .. Len(accepted') : accepted'[n].len <= FRAME_SIZE
  BY <1>0 DEF Values
<1>1. CASE UNCHANGED <<fill, rx, umem, kern, accepted>>
  BY <1>a, <1>1
<1>2. ASSUME NEW p \in Packets, KernelReceive(p)
      PROVE  /\ fill' \in Seq(Addresses) /\ rx' \in Seq(Descriptor)
             /\ umem' \in [Addresses -> 0 .. MaxPackets] /\ kern' \in Addresses \cup {NoFrame}
             /\ accepted' \in Seq(Packets) /\ Len(accepted') <= MaxPackets
             /\ \A n \in 1 .. Len(accepted') : accepted'[n].len <= FRAME_SIZE
  <2>1. /\ fill' \in Seq(Addresses) /\ kern' \in Addresses /\ accepted' \in Seq(Packets)
        /\ Len(accepted') <= MaxPackets /\ UNCHANGED rx
        /\ umem' = [umem EXCEPT ![fill[1]] = 0]
    BY <1>2, Receives
  <2>2. umem' \in [Addresses -> 0 .. MaxPackets]
    <3>1. 0 \in 0 .. MaxPackets
      BY PortalAssumption
    <3> QED
      BY <1>a, <2>1, <3>1, Zenon
  <2>3. /\ Len(accepted) \in Nat /\ Len(accepted') = Len(accepted) + 1
        /\ \A n \in 1 .. Len(accepted) : accepted'[n] = accepted[n]
        /\ accepted'[Len(accepted) + 1] = p /\ p.len <= FRAME_SIZE
    BY <1>2, Receives
  <2>4. ASSUME NEW n \in 1 .. Len(accepted') PROVE accepted'[n].len <= FRAME_SIZE
    <3>1. n \in 1 .. Len(accepted) \/ n = Len(accepted) + 1
      BY <2>3
    <3> QED
      BY <1>a, <2>3, <3>1
  <2> QED
    BY <1>a, <2>1, <2>2, <2>4
<1>3. CASE KernelPublish
  <2>1. /\ rx' \in Seq(Descriptor) /\ kern' = NoFrame /\ UNCHANGED <<fill, accepted>>
        /\ umem' = [umem EXCEPT ![kern] = Len(accepted)]
        /\ Len(accepted) \in 1 .. MaxPackets
    BY <1>3, Publishes
  <2>2. umem' \in [Addresses -> 0 .. MaxPackets]
    <3>1. Len(accepted) \in 0 .. MaxPackets
      BY <2>1, PortalAssumption
    <3> QED
      BY <1>a, <2>1, <3>1, Zenon
  <2>3. /\ accepted' \in Seq(Packets) /\ Len(accepted') <= MaxPackets
        /\ \A n \in 1 .. Len(accepted') : accepted'[n].len <= FRAME_SIZE
    BY <1>a, <2>1
  <2> QED
    BY <1>a, <2>1, <2>2, <2>3
<1>4. CASE PrimeFillRing
  BY <1>a, <1>4, Primes DEF kernel
<1>5. CASE PollRead
  BY <1>1, <1>5 DEF PollRead, kernel
<1>6. CASE PollRecycle
  BY <1>a, <1>6, Recycles DEF kernel
<1>7. CASE PollRelease
  BY <1>a, <1>7, Releases DEF kernel
<1> QED
  BY <1>1, <1>2, <1>3, <1>4, <1>5, <1>6, <1>7, Steps DEF Quiet

(* Resources are acquired and released in a fixed order.                   *)
LEMMA NextHolds ==
  ASSUME Values, Rings, Holds, [Next]_vars
  PROVE  Holds'
<1>1. CASE UNCHANGED <<pc, res, kern>>
  BY <1>1 DEF Holds
<1>2. CASE SetupStep
  <2>1. UNCHANGED kern
    BY <1>2 DEF SetupStep, Construct, FindObject, InitializeUmem, CreateSocket,
      LoadKernelProgram, BindXskMap, PrimeFillRing, kernel
  <2>2. kern = NoFrame
    BY <1>2 DEF SetupStep, Construct, FindObject, InitializeUmem, CreateSocket,
      LoadKernelProgram, BindXskMap, PrimeFillRing, Rings, Setup
  <2> QED
    BY <1>2, <2>1, <2>2 DEF Holds, Polling, SetupStep, Construct, FindObject, InitializeUmem, CreateSocket,
      LoadKernelProgram, BindXskMap, PrimeFillRing
<1>3. CASE PollStep
  BY <1>3 DEF Holds, Polling, PollStep, LoopTest, PollPeek, PollRead, PollRecycle, PollRelease,
    kernel
<1>4. CASE DeleteSocket
  BY <1>4 DEF DeleteSocket, Holds, Polling, kernel
<1>5. CASE DeleteUmem
  BY <1>5 DEF DeleteUmem, Holds, Polling, kernel
<1>6. CASE CloseBpf
  BY <1>6 DEF CloseBpf, Holds, Polling, Values, kernel
<1>7. CASE FreeArea
  BY <1>7 DEF FreeArea, Holds, Polling, kernel
<1>8. CASE KernelPublish
  BY <1>8 DEF KernelPublish, Holds, portal
<1>9. CASE \E p \in Packets : KernelReceive(p)
  BY <1>9 DEF KernelReceive, Redirects, Holds, portal
<1> QED
  BY <1>1, <1>2, <1>3, <1>4, <1>5, <1>6, <1>7, <1>8, <1>9
  DEF Next, PortalStep, TeardownStep, Sigint, portal, kernel, vars


(* The counts are numbers.                                                 *)
LEMMA Counts ==
  ASSUME Values
  PROVE  /\ Len(fill) \in Nat /\ Len(rx) \in Nat /\ Len(accepted) \in Nat
         /\ Copying \in {0, 1} /\ Recycled \in {0, 1} /\ Seen \in {0, 1} /\ Recycled <= Seen
         /\ Gone \in Int
<1>1. Len(fill) \in Nat /\ Len(rx) \in Nat /\ Len(accepted) \in Nat
  BY DEF Values
<1>2. Copying \in {0, 1} /\ Recycled \in {0, 1} /\ Seen \in {0, 1} /\ Recycled <= Seen
  BY DEF Copying, Recycled, Seen
<1>3. Gone \in Int
  BY <1>1, <1>2 DEF Gone
<1> QED
  BY <1>1, <1>2, <1>3

(* How each step changes the counts: a packet leaves the receive ring only *)
(* when it is released.                                                    *)
LEMMA ReceiveCounts ==
  ASSUME Values, NEW p \in Packets, KernelReceive(p)
  PROVE  /\ Copying = 0 /\ Copying' = 1 /\ Recycled' = Recycled /\ Seen' = Seen /\ Gone' = Gone
         /\ pc' = pc /\ rx' = rx /\ printed' = printed
<1>1. pc' = pc /\ rx' = rx /\ printed' = printed
  BY DEF KernelReceive, portal
<1>2. Copying = 0 /\ Copying' = 1
  BY Receives DEF Copying
<1>3. Recycled' = Recycled /\ Seen' = Seen
  BY <1>1 DEF Recycled, Seen
<1>4. Gone' = Gone
  BY <1>1, <1>2, Receives, Counts DEF Gone
<1> QED
  BY <1>1, <1>2, <1>3, <1>4

(* The packet the kernel was copying joins the receive ring.               *)
LEMMA PublishCounts ==
  ASSUME Values, Rings, KernelPublish
  PROVE  /\ Copying = 1 /\ Copying' = 0 /\ Recycled' = Recycled /\ Seen' = Seen /\ Gone' = Gone
         /\ pc' = pc /\ printed' = printed /\ Len(accepted) = Gone + Len(rx) + 1
<1>1. pc' = pc /\ printed' = printed
  BY DEF KernelPublish, portal
<1>2. Copying = 1 /\ Copying' = 0
  BY Publishes DEF Copying
<1>3. Recycled' = Recycled /\ Seen' = Seen
  BY <1>1 DEF Recycled, Seen
<1>4. Gone' = Gone /\ Len(accepted) = Gone + Len(rx) + 1
  BY <1>2, Publishes, Counts DEF Gone
<1> QED
  BY <1>1, <1>2, <1>3, <1>4

(* The packet released is one more that is gone, and was seen before.      *)
LEMMA ReleaseCounts ==
  ASSUME Values, Rings, PollRelease
  PROVE  /\ Copying' = Copying /\ Recycled = 1 /\ Recycled' = 0 /\ Seen = 1 /\ Seen' = 0
         /\ Gone' = Gone + 1
<1>1. Recycled = 1 /\ Recycled' = 0 /\ Seen = 1 /\ Seen' = 0
  BY Releases DEF Recycled, Seen
<1>2. Copying' = Copying /\ accepted' = accepted
  BY Releases DEF Copying, kernel
<1>3. Gone' = Gone + 1
  <2>1. Len(rx) \in Nat /\ Len(rx') = Len(rx) - 1
    BY Releases
  <2>2. Len(accepted) \in Nat /\ Copying \in {0, 1}
    BY Counts
  <2>3. /\ Gone = Len(accepted) - Copying - Len(rx)
        /\ Gone' = Len(accepted') - Copying' - Len(rx')
    BY DEF Gone
  <2> QED
    BY <1>2, <2>1, <2>2, <2>3
<1> QED
  BY <1>1, <1>2, <1>3

(* The other steps of the portal change none of them but Seen, on reading, *)
(* and Recycled, on handing the frame back.                                *)
LEMMA PortalCounts ==
  ASSUME Values, Rings
  PROVE  /\ Quiet => Copying' = Copying /\ Gone' = Gone
         /\ PrimeFillRing => /\ Copying' = Copying /\ Gone' = Gone
                             /\ UNCHANGED <<Recycled, Seen>> /\ Recycled = 0
         /\ PollRead => /\ Copying' = Copying /\ Gone' = Gone
                        /\ Recycled = 0 /\ Recycled' = 0 /\ Seen = 0
         /\ PollRecycle => /\ Copying' = Copying /\ Gone' = Gone
                           /\ Recycled = 0 /\ Recycled' = 1 /\ UNCHANGED Seen
<1>1. Quiet => Copying' = Copying /\ Gone' = Gone
  BY DEF Quiet, Copying, Gone
<1>2. PrimeFillRing => /\ Copying' = Copying /\ Gone' = Gone
                       /\ UNCHANGED <<Recycled, Seen>> /\ Recycled = 0
  BY DEF PrimeFillRing, kernel, Copying, Gone, Recycled, Seen
<1>3. PollRead => /\ Copying' = Copying /\ Gone' = Gone
                  /\ Recycled = 0 /\ Recycled' = 0 /\ Seen = 0
  BY DEF PollRead, kernel, Copying, Gone, Recycled, Seen
<1>4. PollRecycle => /\ Copying' = Copying /\ Gone' = Gone
                     /\ Recycled = 0 /\ Recycled' = 1 /\ UNCHANGED Seen
  BY DEF PollRecycle, kernel, Copying, Gone, Recycled, Seen
<1> QED
  BY <1>1, <1>2, <1>3, <1>4

(* No ring overflows and no frame is lost.                                 *)
LEMMA NextRings == ASSUME Values, Rings, [Next]_vars PROVE Rings'
<1>0. /\ Len(fill) \in Nat /\ Len(rx) \in Nat /\ Len(accepted) \in Nat
      /\ Copying \in {0, 1} /\ Recycled \in {0, 1} /\ Gone \in Int
  BY Counts
<1>1. CASE Quiet
  <2>1. Copying' = Copying /\ Gone' = Gone /\ Recycled' = Recycled
        /\ UNCHANGED <<fill, rx, kern, accepted>>
    BY <1>1, PortalCounts DEF Quiet
  <2>2. pc' \in {"read", "recycle", "release"} => Len(rx) >= 1
    <3>1. rx # << >> => Len(rx) >= 1
      BY <1>0, EmptySeq DEF Values
    <3> QED
      BY <1>1, <3>1 DEF Quiet, Rings
  <2> QED
    BY <1>1, <2>1, <2>2 DEF Quiet, Rings
<1>2. ASSUME NEW p \in Packets, KernelReceive(p) PROVE Rings'
  <2>1. /\ Len(fill') = Len(fill) - 1 /\ Len(fill) >= 1 /\ Len(rx) < RxSize
    BY <1>2, Receives
  <2>2. /\ Copying = 0 /\ Copying' = 1 /\ Recycled' = Recycled /\ Gone' = Gone
        /\ pc' = pc /\ rx' = rx
    BY <1>2, ReceiveCounts
  <2>3. pc \notin Setup
    BY <1>0, <2>1 DEF Rings
  <2> QED
    BY <1>0, <2>1, <2>2, <2>3, PortalAssumption DEF Rings
<1>3. CASE KernelPublish
  <2>1. Len(rx') = Len(rx) + 1 /\ fill' = fill /\ kern # NoFrame
    BY <1>3, Publishes
  <2>2. /\ Copying = 1 /\ Copying' = 0 /\ Recycled' = Recycled /\ Gone' = Gone /\ pc' = pc
    BY <1>3, PublishCounts
  <2>3. pc \notin Setup
    BY <2>1 DEF Rings
  <2> QED
    BY <1>0, <2>1, <2>2, <2>3, PortalAssumption DEF Rings
<1>4. CASE PrimeFillRing
  <2>1. /\ pc = "prime" /\ pc' = "loop" /\ Len(fill') = FILL_RING_RESERVE_SIZE
        /\ rx' = rx /\ accepted' = accepted /\ kern' = kern
    BY <1>4, Primes DEF kernel
  <2>2. Copying' = Copying /\ Gone' = Gone /\ Recycled' = 0
    BY <1>4, PortalCounts
  <2>3. Len(rx) = 0 /\ kern = NoFrame /\ Copying = 0
    BY <2>1 DEF Rings, Setup, Copying
  <2>4. Gone >= 0 /\ RxSize >= 0
    BY PortalAssumption DEF Rings
  <2>5. pc' \notin Setup /\ pc' \notin {"read", "recycle", "release"}
    BY <2>1 DEF Setup
  <2> QED
    BY <1>0, <2>1, <2>2, <2>3, <2>4, <2>5, PortalAssumption DEF Rings
<1>5. CASE PollRead
  <2>1. /\ pc = "read" /\ pc' \in {"recycle", "delete_xsk"}
        /\ UNCHANGED <<fill, rx, kern, accepted>>
    BY <1>5 DEF PollRead, kernel
  <2>2. Copying' = Copying /\ Gone' = Gone /\ Recycled' = Recycled
    BY <1>5, PortalCounts
  <2>3. pc' \notin Setup /\ pc \in Polling /\ Len(rx) >= 1
    BY <2>1 DEF Setup, Polling, Rings
  <2> QED
    BY <2>1, <2>2, <2>3 DEF Rings
<1>6. CASE PollRecycle
  <2>1. /\ pc = "recycle" /\ pc' = "release" /\ Len(fill') = Len(fill) + 1 /\ Len(rx) >= 1
        /\ UNCHANGED <<rx, kern, accepted>>
    BY <1>6, Recycles DEF kernel
  <2>2. Copying' = Copying /\ Gone' = Gone /\ Recycled = 0 /\ Recycled' = 1
    BY <1>6, PortalCounts
  <2>3. pc' \notin Setup /\ pc \in Polling
    BY <2>1 DEF Setup, Polling
  <2> QED
    BY <1>0, <2>1, <2>2, <2>3, PortalAssumption DEF Rings
<1>7. CASE PollRelease
  <2>1. /\ pc = "release" /\ pc' = "loop" /\ Len(rx') = Len(rx) - 1 /\ Len(rx) >= 1
        /\ UNCHANGED <<fill, kern, accepted>>
    BY <1>7, Releases DEF kernel
  <2>2. Copying' = Copying /\ Gone' = Gone + 1 /\ Recycled = 1 /\ Recycled' = 0
    BY <1>7, ReleaseCounts
  <2>3. pc' \notin Setup /\ pc \in Polling /\ pc' \notin {"read", "recycle", "release"}
    BY <2>1 DEF Setup, Polling
  <2> QED
    BY <1>0, <2>1, <2>2, <2>3, PortalAssumption DEF Rings
<1> QED
  BY <1>1, <1>2, <1>3, <1>4, <1>5, <1>6, <1>7, Steps

-----------------------------------------------------------------------------
(* Frames and packets                                                      *)

(* A frame stays in one place.                                             *)
LEMMA NextOwned == ASSUME Values, Rings, Owned, [Next]_vars PROVE Owned'
<1>0. Len(fill) \in Nat /\ Len(rx) \in Nat /\ Recycled \in {0, 1}
  BY Counts
<1>a. /\ \A i, j \in 1 .. Len(fill) : fill[i] = fill[j] => i = j
      /\ \A i, j \in (Recycled + 1) .. Len(rx) : rx[i].addr = rx[j].addr => i = j
      /\ \A i \in 1 .. Len(fill), j \in (Recycled + 1) .. Len(rx) : fill[i] # rx[j].addr
      /\ kern # NoFrame =>
           /\ \A i \in 1 .. Len(fill) : fill[i] # kern
           /\ \A j \in (Recycled + 1) .. Len(rx) : rx[j].addr # kern
  BY DEF Owned
<1>1. CASE UNCHANGED <<fill, rx, kern, Recycled>>
  BY <1>1 DEF Owned
<1>2. ASSUME NEW p \in Packets, KernelReceive(p) PROVE Owned'
  <2>1. /\ Len(fill') = Len(fill) - 1 /\ Len(fill) >= 1
        /\ \A i \in 1 .. Len(fill) - 1 : fill'[i] = fill[i + 1]
        /\ kern' = fill[1]
    BY <1>2, Receives
  <2>2. Recycled' = Recycled /\ rx' = rx
    BY <1>2, ReceiveCounts
  <2>3. \A i \in 1 .. Len(fill') : i + 1 \in 1 .. Len(fill) /\ fill'[i] = fill[i + 1] /\ i + 1 # 1
    BY <1>0, <2>1
  <2>4. ASSUME NEW i \in 1 .. Len(fill'), NEW j \in 1 .. Len(fill'), fill'[i] = fill'[j]
        PROVE  i = j
    <3>1. i + 1 = j + 1
      BY <1>a, <2>3, <2>4
    <3> QED
      BY <3>1
  <2>5. \A i \in 1 .. Len(fill'), j \in (Recycled' + 1) .. Len(rx') : fill'[i] # rx'[j].addr
    BY <1>a, <2>2, <2>3
  <2>6. 1 \in 1 .. Len(fill)
    BY <1>0, <2>1
  <2>7. \A i \in 1 .. Len(fill') : fill'[i] # kern'
    BY <1>a, <2>1, <2>3, <2>6
  <2>8. \A j \in (Recycled' + 1) .. Len(rx') : rx'[j].addr # kern'
    BY <1>a, <2>1, <2>2, <2>6
  <2>9. \A i, j \in (Recycled' + 1) .. Len(rx') : rx'[i].addr = rx'[j].addr => i = j
    BY <1>a, <2>2
  <2> QED
    BY <2>4, <2>5, <2>7, <2>8, <2>9 DEF Owned
<1>3. CASE KernelPublish
  <2>1. /\ kern # NoFrame /\ kern' = NoFrame /\ fill' = fill
        /\ Len(rx') = Len(rx) + 1
        /\ \A i \in 1 .. Len(rx) : rx'[i] = rx[i]
        /\ rx'[Len(rx) + 1].addr = kern
    BY <1>3, Publishes
  <2>2. Recycled' = Recycled
    BY <1>3, PublishCounts
  <2>3. ASSUME NEW j \in (Recycled' + 1) .. Len(rx')
        PROVE  \/ j \in (Recycled + 1) .. Len(rx) /\ rx'[j].addr = rx[j].addr
               \/ j = Len(rx) + 1 /\ rx'[j].addr = kern
    <3>1. \/ j \in (Recycled + 1) .. Len(rx) /\ j \in 1 .. Len(rx)
          \/ j = Len(rx) + 1
      BY <1>0, <2>1, <2>2
    <3> QED
      BY <2>1, <3>1
  <2>4. \A i, j \in (Recycled' + 1) .. Len(rx') : rx'[i].addr = rx'[j].addr => i = j
    BY <1>a, <2>1, <2>3
  <2>5. \A i \in 1 .. Len(fill'), j \in (Recycled' + 1) .. Len(rx') : fill'[i] # rx'[j].addr
    BY <1>a, <2>1, <2>3
  <2> QED
    BY <1>a, <2>1, <2>4, <2>5 DEF Owned
<1>4. CASE PrimeFillRing
  <2>1. /\ Len(fill') = FILL_RING_RESERVE_SIZE /\ pc = "prime"
        /\ \A i \in 1 .. FILL_RING_RESERVE_SIZE : fill'[i] = FrameAddr(i - 1)
        /\ rx' = rx /\ kern' = kern
    BY <1>4, Primes DEF kernel
  <2>2. Len(rx) = 0 /\ kern = NoFrame /\ Recycled' = 0
    BY <1>4, <2>1, PortalCounts DEF Rings, Setup
  <2>3. ASSUME NEW i \in 1 .. Len(fill'), NEW j \in 1 .. Len(fill'), fill'[i] = fill'[j]
        PROVE  i = j
    <3>1. /\ i \in 1 .. FILL_RING_RESERVE_SIZE /\ j \in 1 .. FILL_RING_RESERVE_SIZE
      BY <2>1
    <3>2. i - 1 \in Nat /\ j - 1 \in Nat
      BY <3>1, PortalAssumption
    <3>3. FrameAddr(i - 1) = FrameAddr(j - 1)
      BY <2>1, <2>3, <3>1
    <3>4. i - 1 = j - 1
      BY <3>2, <3>3, AddressesDiffer
    <3> QED
      BY <3>1, <3>4, PortalAssumption
  <2>4. \A j \in (Recycled' + 1) .. Len(rx') : FALSE
    BY <2>1, <2>2
  <2> QED
    BY <2>1, <2>2, <2>3, <2>4 DEF Owned
<1>5. CASE PollRead
  BY <1>1, <1>5, PortalCounts DEF PollRead, kernel
<1>6. CASE PollRecycle
  <2>1. /\ Len(rx) >= 1 /\ Len(fill') = Len(fill) + 1
        /\ \A i \in 1 .. Len(fill) : fill'[i] = fill[i]
        /\ fill'[Len(fill) + 1] = rx[1].addr
        /\ rx' = rx /\ kern' = kern
    BY <1>6, Recycles DEF kernel
  <2>2. Recycled = 0 /\ Recycled' = 1
    BY <1>6, PortalCounts
  <2>3. 1 \in (Recycled + 1) .. Len(rx)
    BY <1>0, <2>1, <2>2
  <2>4. \A j \in (Recycled' + 1) .. Len(rx') : j \in (Recycled + 1) .. Len(rx) /\ j # 1
    BY <1>0, <2>1, <2>2
  <2>5. ASSUME NEW i \in 1 .. Len(fill')
        PROVE  \/ i \in 1 .. Len(fill) /\ fill'[i] = fill[i]
               \/ i = Len(fill) + 1 /\ fill'[i] = rx[1].addr
    <3>1. i \in 1 .. Len(fill) \/ i = Len(fill) + 1
      BY <1>0, <2>1
    <3> QED
      BY <2>1, <3>1
  <2>6. \A i, j \in 1 .. Len(fill') : fill'[i] = fill'[j] => i = j
    BY <1>a, <2>3, <2>5
  <2>7. \A i \in 1 .. Len(fill'), j \in (Recycled' + 1) .. Len(rx') : fill'[i] # rx'[j].addr
    BY <1>a, <2>1, <2>3, <2>4, <2>5
  <2>8. \A i, j \in (Recycled' + 1) .. Len(rx') : rx'[i].addr = rx'[j].addr => i = j
    BY <1>a, <2>1, <2>4
  <2>9. kern' # NoFrame =>
           /\ \A i \in 1 .. Len(fill') : fill'[i] # kern'
           /\ \A j \in (Recycled' + 1) .. Len(rx') : rx'[j].addr # kern'
    BY <1>a, <2>1, <2>3, <2>4, <2>5
  <2> QED
    BY <2>6, <2>7, <2>8, <2>9 DEF Owned
<1>7. CASE PollRelease
  <2>1. /\ Len(rx') = Len(rx) - 1
        /\ \A i \in 1 .. Len(rx) - 1 : rx'[i] = rx[i + 1]
        /\ fill' = fill /\ kern' = kern
    BY <1>7, Releases DEF kernel
  <2>2. Recycled = 1 /\ Recycled' = 0
    BY <1>7, ReleaseCounts
  <2>3. \A j \in (Recycled' + 1) .. Len(rx') :
          j + 1 \in (Recycled + 1) .. Len(rx) /\ rx'[j] = rx[j + 1]
    BY <1>0, <2>1, <2>2
  <2>4. ASSUME NEW i \in (Recycled' + 1) .. Len(rx'), NEW j \in (Recycled' + 1) .. Len(rx'),
               rx'[i].addr = rx'[j].addr
        PROVE  i = j
    <3>1. i + 1 = j + 1
      BY <1>a, <2>3, <2>4
    <3>2. i \in Int /\ j \in Int
      BY <1>0, <2>1, <2>2
    <3> QED
      BY <3>1, <3>2
  <2>5. \A i \in 1 .. Len(fill'), j \in (Recycled' + 1) .. Len(rx') : fill'[i] # rx'[j].addr
    BY <1>a, <2>1, <2>3
  <2>6. kern' # NoFrame =>
           /\ \A i \in 1 .. Len(fill') : fill'[i] # kern'
           /\ \A j \in (Recycled' + 1) .. Len(rx') : rx'[j].addr # kern'
    BY <1>a, <2>1, <2>3
  <2>7. \A i, j \in 1 .. Len(fill') : fill'[i] = fill'[j] => i = j
    BY <1>a, <2>1
  <2> QED
    BY <2>4, <2>5, <2>6, <2>7 DEF Owned
<1> QED
  BY <1>1, <1>2, <1>3, <1>4, <1>5, <1>6, <1>7, Steps DEF Quiet

(* A packet stays in its frame until the frame is handed back: the frames  *)
(* the kernel writes to are owned by nobody else.                          *)
LEMMA NextContents ==
  ASSUME Values, Rings, Owned, Contents, [Next]_vars
  PROVE  Contents'
<1>0. /\ Len(fill) \in Nat /\ Len(rx) \in Nat /\ Len(accepted) \in Nat
      /\ Recycled \in {0, 1} /\ Copying \in {0, 1} /\ Gone \in Nat
      /\ Len(accepted) = Gone + Copying + Len(rx)
  <2>1. Gone >= 0
    BY DEF Rings
  <2>2. Len(accepted) = Gone + Copying + Len(rx)
    BY Counts DEF Gone
  <2> QED
    BY <2>1, <2>2, Counts
<1>a. /\ \A i \in 1 .. Len(rx) : rx[i].len = accepted[Gone + i].len
      /\ \A i \in (Recycled + 1) .. Len(rx) : umem[rx[i].addr] = Gone + i
  BY DEF Contents
<1>b. /\ umem \in [Addresses -> 0 .. MaxPackets]
      /\ \A i \in 1 .. Len(rx) : rx[i].addr \in Addresses
  <2>1. umem \in [Addresses -> 0 .. MaxPackets] /\ rx \in Seq(Descriptor)
    BY DEF Values
  <2>2. ASSUME NEW i \in 1 .. Len(rx) PROVE rx[i].addr \in Addresses
    <3>1. rx[i] \in Descriptor
      BY <2>1
    <3> QED
      BY <3>1 DEF Descriptor
  <2> QED
    BY <2>1, <2>2
<1>1. CASE UNCHANGED <<rx, umem, accepted, Gone, Recycled>>
  BY <1>1 DEF Contents
<1>2. ASSUME NEW p \in Packets, KernelReceive(p) PROVE Contents'
  <2>1. /\ \A n \in 1 .. Len(accepted) : accepted'[n] = accepted[n]
        /\ umem' = [umem EXCEPT ![fill[1]] = 0] /\ Len(fill) >= 1
    BY <1>2, Receives
  <2>2. Copying = 0 /\ Recycled' = Recycled /\ Gone' = Gone /\ rx' = rx
    BY <1>2, ReceiveCounts
  <2>3. ASSUME NEW i \in 1 .. Len(rx') PROVE rx'[i].len = accepted'[Gone' + i].len
    <3>1. Gone + i \in 1 .. Len(accepted) /\ i \in 1 .. Len(rx)
      BY <1>0, <2>2
    <3> QED
      BY <1>a, <2>1, <2>2, <3>1
  <2>4. ASSUME NEW i \in (Recycled' + 1) .. Len(rx') PROVE umem'[rx'[i].addr] = Gone' + i
    <3>1. i \in (Recycled + 1) .. Len(rx) /\ i \in 1 .. Len(rx) /\ 1 \in 1 .. Len(fill)
      BY <1>0, <2>1, <2>2
    <3>2. rx[i].addr # fill[1] /\ rx[i].addr \in Addresses
      BY <1>b, <3>1 DEF Owned
    <3>3. umem'[rx[i].addr] = umem[rx[i].addr]
      BY <1>b, <2>1, <3>2
    <3> QED
      BY <1>a, <2>2, <3>1, <3>3
  <2> QED
    BY <2>3, <2>4 DEF Contents
<1>3. CASE KernelPublish
  <2>1. /\ kern \in Addresses /\ kern # NoFrame /\ accepted' = accepted
        /\ Len(rx') = Len(rx) + 1
        /\ \A i \in 1 .. Len(rx) : rx'[i] = rx[i]
        /\ rx'[Len(rx) + 1].addr = kern
        /\ rx'[Len(rx) + 1].len = accepted[Len(accepted)].len
        /\ umem' = [umem EXCEPT ![kern] = Len(accepted)]
    BY <1>3, Publishes
  <2>2. Recycled' = Recycled /\ Gone' = Gone /\ Len(accepted) = Gone + Len(rx) + 1
    BY <1>3, PublishCounts
  <2>3. Len(accepted) = Gone + (Len(rx) + 1)
    BY <1>0, <2>2
  <2>4. ASSUME NEW i \in 1 .. Len(rx') PROVE rx'[i].len = accepted'[Gone' + i].len
    <3>1. i \in 1 .. Len(rx) \/ i = Len(rx) + 1
      BY <1>0, <2>1
    <3> QED
      BY <1>a, <2>1, <2>2, <2>3, <3>1
  <2>5. ASSUME NEW i \in (Recycled' + 1) .. Len(rx') PROVE umem'[rx'[i].addr] = Gone' + i
    <3>1. CASE i = Len(rx) + 1
      <4>1. umem'[kern] = Len(accepted)
        BY <1>b, <2>1
      <4> QED
        BY <2>1, <2>2, <2>3, <3>1, <4>1
    <3>2. CASE i # Len(rx) + 1
      <4>1. i \in (Recycled + 1) .. Len(rx) /\ i \in 1 .. Len(rx)
        BY <1>0, <2>1, <2>2, <3>2
      <4>2. rx[i].addr # kern /\ rx[i].addr \in Addresses
        BY <1>b, <2>1, <4>1 DEF Owned
      <4>3. umem'[rx[i].addr] = umem[rx[i].addr]
        BY <1>b, <2>1, <4>2
      <4> QED
        BY <1>a, <2>1, <2>2, <4>1, <4>3
    <3> QED
      BY <3>1, <3>2
  <2> QED
    BY <2>4, <2>5 DEF Contents
<1>4. CASE PrimeFillRing
  BY <1>1, <1>4, Primes, PortalCounts DEF kernel
<1>5. CASE PollRead
  BY <1>1, <1>5, PortalCounts DEF PollRead, kernel
<1>6. CASE PollRecycle
  <2>1. UNCHANGED <<rx, umem, accepted>>
    BY <1>6, Recycles DEF kernel
  <2>2. Gone' = Gone /\ Recycled = 0 /\ Recycled' = 1
    BY <1>6, PortalCounts
  <2>3. \A i \in (Recycled' + 1) .. Len(rx') : i \in (Recycled + 1) .. Len(rx)
    BY <1>0, <2>1, <2>2
  <2> QED
    BY <1>a, <2>1, <2>2, <2>3 DEF Contents
<1>7. CASE PollRelease
  <2>1. /\ Len(rx') = Len(rx) - 1
        /\ \A i \in 1 .. Len(rx) - 1 : rx'[i] = rx[i + 1]
        /\ umem' = umem /\ accepted' = accepted
    BY <1>7, Releases DEF kernel
  <2>2. Recycled = 1 /\ Recycled' = 0 /\ Gone' = Gone + 1
    BY <1>7, ReleaseCounts
  <2>3. ASSUME NEW i \in 1 .. Len(rx')
        PROVE  /\ i + 1 \in 1 .. Len(rx) /\ i + 1 \in (Recycled + 1) .. Len(rx)
               /\ rx'[i] = rx[i + 1] /\ Gone' + i = Gone + (i + 1)
    BY <1>0, <2>1, <2>2
  <2>4. \A i \in 1 .. Len(rx') : rx'[i].len = accepted'[Gone' + i].len
    BY <1>a, <2>1, <2>3
  <2>5. \A i \in 1 .. Len(rx') : umem'[rx'[i].addr] = Gone' + i
    BY <1>a, <2>1, <2>3
  <2>6. Recycled' + 1 = 1
    BY <2>2
  <2> QED
    BY <2>4, <2>5, <2>6 DEF Contents
<1>8. CASE Quiet
  BY <1>1, <1>8, PortalCounts DEF Quiet
<1> QED
  BY <1>2, <1>3, <1>4, <1>5, <1>6, <1>7, <1>8, Steps

(* With porth_xdp_prog attached only what it lets through is accepted.     *)
LEMMA NextFiltered ==
  ASSUME Values, Rings, Filtered, [Next]_vars
  PROVE  Filtered'
<1>1. CASE UNCHANGED <<attached, accepted>>
  BY <1>1 DEF Filtered
<1>2. ASSUME NEW p \in Packets, KernelReceive(p) PROVE Filtered'
  <2>1. /\ Len(accepted) \in Nat /\ Len(accepted') = Len(accepted) + 1
        /\ \A n \in 1 .. Len(accepted) : accepted'[n] = accepted[n]
        /\ accepted'[Len(accepted) + 1] = p /\ attached' = attached
    BY <1>2, Receives
  <2>2. attached = "porth_xdp_prog" => Filter(p)
    BY <1>2 DEF KernelReceive, Redirects
  <2>3. ASSUME attached = "porth_xdp_prog", NEW n \in 1 .. Len(accepted')
        PROVE  Filter(accepted'[n])
    <3>1. n \in 1 .. Len(accepted) \/ n = Len(accepted) + 1
      BY <2>1
    <3>2. CASE n \in 1 .. Len(accepted)
      BY <2>1, <2>3, <3>2 DEF Filtered
    <3>3. CASE n = Len(accepted) + 1
      BY <2>1, <2>2, <2>3, <3>3
    <3> QED
      BY <3>1, <3>2, <3>3
  <2> QED
    BY <2>1, <2>3 DEF Filtered
<1>3. UNCHANGED <<attached, accepted>> \/ \E p \in Packets : KernelReceive(p)
  BY Steps DEF Quiet, KernelPublish, PrimeFillRing, PollRead, PollRecycle, PollRelease, kernel
<1> QED
  BY <1>1, <1>2, <1>3

(* The packet read is the oldest one in the receive ring, and it is intact.*)
LEMMA Reads ==
  ASSUME Values, Rings, Contents, PollRead
  PROVE  /\ UNCHANGED accepted /\ Gone' = Gone /\ Seen = 0 /\ Gone \in Nat
         /\ \/ Seen' = 1 /\ accepted[Gone + 1].ip /\ printed' = Append(printed, Gone + 1)
            \/ Seen' = 1 /\ ~accepted[Gone + 1].ip /\ printed' = printed
            \/ Seen' = 0 /\ printed' = printed
<1>1. UNCHANGED accepted /\ Gone' = Gone /\ Seen = 0 /\ Recycled = 0
  BY PortalCounts DEF PollRead, kernel
<1>2. Gone \in Nat
  BY Counts DEF Rings
<1>3. umem[Head(rx).addr] = Gone + 1
  <2>1. rx \in Seq(Descriptor) /\ Len(rx) \in Nat /\ Len(rx) >= 1
    BY Counts DEF PollRead, Values, Rings
  <2>2. rx # << >>
    BY <2>1, EmptySeq
  <2>3. Head(rx) = rx[1]
    BY <2>1, <2>2, Shrunk
  <2>4. 1 \in (Recycled + 1) .. Len(rx)
    BY <1>1, <2>1
  <2> QED
    BY <2>3, <2>4 DEF Contents
<1>4. IsIp(Gone + 1) <=> accepted[Gone + 1].ip
  <2>1. Gone + 1 # 0
    BY <1>2
  <2> QED
    BY <2>1 DEF IsIp
<1>5. \/ ~IsIp(Gone + 1) /\ pc' = "recycle" /\ printed' = printed
      \/ IsIp(Gone + 1) /\ pc' = "recycle" /\ printed' = Append(printed, Gone + 1)
      \/ pc' = "delete_xsk" /\ printed' = printed
  <2>1. LET n == umem[Head(rx).addr] IN
          \/ ~IsIp(n) /\ pc' = "recycle" /\ printed' = printed
          \/ IsIp(n) /\ pc' = "recycle" /\ printed' = Append(printed, n)
          \/ pc' = "delete_xsk" /\ printed' = printed
    BY DEF PollRead
  <2> QED
    BY <1>3, <2>1
<1>6. /\ pc' = "recycle" => Seen' = 1
      /\ pc' = "delete_xsk" => Seen' = 0
  BY DEF Seen
<1> QED
  BY <1>1, <1>2, <1>4, <1>5, <1>6

(* Every IPv4 packet is printed when it is read, and no other.             *)
LEMMA NextPrinted ==
  ASSUME Values, Rings, Contents, Printed, [Next]_vars
  PROVE  Printed'
<1>0. /\ Len(rx) \in Nat /\ Len(accepted) \in Nat /\ Seen \in {0, 1} /\ Copying \in {0, 1}
      /\ Gone \in Nat
      /\ Len(accepted) = Gone + Copying + Len(rx)
  <2>1. Gone >= 0
    BY DEF Rings
  <2>2. Len(accepted) = Gone + Copying + Len(rx)
    BY Counts DEF Gone
  <2> QED
    BY <2>1, <2>2, Counts
<1>a. /\ printed \in Seq(Nat) /\ Len(printed) \in Nat
      /\ {printed[i] : i \in 1 .. Len(printed)} = {n \in 1 .. Gone + Seen : accepted[n].ip}
      /\ \A i, j \in 1 .. Len(printed) : i < j => printed[i] < printed[j]
  BY DEF Printed
<1>1. CASE UNCHANGED <<printed, accepted>> /\ Gone' + Seen' = Gone + Seen
  BY <1>1 DEF Printed
<1>2. ASSUME NEW p \in Packets, KernelReceive(p) PROVE Printed'
  <2>1. \A n \in 1 .. Len(accepted) : accepted'[n] = accepted[n]
    BY <1>2, Receives
  <2>2. Gone' = Gone /\ Seen' = Seen /\ printed' = printed
    BY <1>2, ReceiveCounts
  <2>3. Seen = 1 => Len(rx) >= 1
    BY DEF Seen, Rings
  <2>4. \A n \in 1 .. Gone + Seen : n \in 1 .. Len(accepted)
    BY <1>0, <2>3
  <2>5. {n \in 1 .. Gone + Seen : accepted'[n].ip} = {n \in 1 .. Gone + Seen : accepted[n].ip}
    BY <2>1, <2>4
  <2> QED
    BY <1>a, <2>2, <2>5 DEF Printed
<1>3. CASE PollRead
  <2> DEFINE m == Gone + 1
  <2>1. /\ accepted' = accepted /\ Gone' = Gone /\ Seen = 0 /\ Gone + Seen = Gone
        /\ \/ Seen' = 1 /\ accepted[m].ip /\ printed' = Append(printed, m)
           \/ Seen' = 1 /\ ~accepted[m].ip /\ printed' = printed
           \/ Seen' = 0 /\ printed' = printed
    BY <1>0, <1>3, Reads
  <2>2. CASE Seen' = 0 /\ printed' = printed
    BY <1>1, <2>1, <2>2
  <2>3. m \in Nat /\ \A n : n \in 1 .. m <=> (n \in 1 .. Gone \/ n = m)
    BY <1>0
  <2> HIDE DEF m
  <2>4. CASE Seen' = 1 /\ ~accepted[m].ip /\ printed' = printed
    <3>1. Gone' + Seen' = m
      BY <2>1, <2>4 DEF m
    <3>2. {n \in 1 .. m : accepted[n].ip} = {n \in 1 .. Gone : accepted[n].ip}
      BY <2>3, <2>4
    <3> QED
      BY <1>a, <2>1, <2>4, <3>1, <3>2 DEF Printed
  <2>5. CASE Seen' = 1 /\ accepted[m].ip /\ printed' = Append(printed, m)
    <3>1. Gone' + Seen' = m
      BY <2>1, <2>5 DEF m
    <3>2. {n \in 1 .. m : accepted[n].ip} = {n \in 1 .. Gone : accepted[n].ip} \cup {m}
      BY <2>3, <2>5
    <3>3. /\ printed' \in Seq(Nat) /\ Len(printed') = Len(printed) + 1
          /\ \A i \in 1 .. Len(printed) : printed'[i] = printed[i]
          /\ printed'[Len(printed) + 1] = m
      BY <1>a, <2>3, <2>5, Grown
    <3>4. \A i : i \in 1 .. Len(printed') <=> (i \in 1 .. Len(printed) \/ i = Len(printed) + 1)
      BY <1>a, <3>3
    <3>5. {printed'[i] : i \in 1 .. Len(printed')}
            = {printed[i] : i \in 1 .. Len(printed)} \cup {m}
      BY <3>3, <3>4
    <3>6. \A i \in 1 .. Len(printed) : printed[i] \in 1 .. Gone
      BY <1>a, <2>1
    <3>7. ASSUME NEW i \in 1 .. Len(printed'), NEW j \in 1 .. Len(printed'), i < j
          PROVE  printed'[i] < printed'[j]
      <4>1. i \in 1 .. Len(printed)
        BY <1>a, <3>3, <3>7
      <4>2. CASE j \in 1 .. Len(printed)
        BY <1>a, <3>3, <3>7, <4>1, <4>2
      <4>3. CASE j = Len(printed) + 1
        <5>1. printed'[i] \in 1 .. Gone /\ printed'[j] = m
          BY <3>3, <3>6, <4>1, <4>3
        <5> QED
          BY <1>0, <5>1 DEF m
      <4> QED
        BY <3>4, <4>2, <4>3
    <3> QED
      BY <1>a, <2>1, <3>1, <3>2, <3>3, <3>5, <3>7 DEF Printed
  <2> QED
    BY <2>1, <2>2, <2>4, <2>5
<1>4. CASE KernelPublish
  BY <1>1, <1>4, Publishes, PublishCounts
<1>5. CASE PrimeFillRing
  BY <1>1, <1>5, Primes, PortalCounts DEF kernel
<1>6. CASE PollRecycle
  BY <1>1, <1>6, Recycles, PortalCounts DEF kernel
<1>7. CASE PollRelease
  <2>1. UNCHANGED <<printed, accepted>>
    BY <1>7, Releases DEF kernel
  <2>2. Gone' = Gone + 1 /\ Seen = 1 /\ Seen' = 0
    BY <1>7, ReleaseCounts
  <2>3. Gone' + Seen' = Gone + Seen
    BY <1>0, <2>2
  <2> QED
    BY <1>1, <2>1, <2>3
<1>8. CASE Quiet
  BY <1>1, <1>8, PortalCounts DEF Quiet
<1> QED
  BY <1>2, <1>3, <1>4, <1>5, <1>6, <1>7, <1>8, Steps

-----------------------------------------------------------------------------
(* The theorems                                                            *)

Inv ==
  /\ Flags /\ Values /\ Holds /\ Rings /\ Owned
  /\ Contents /\ Filtered /\ Printed

(* It holds before anything is set up ...                                  *)
LEMMA InitInv == ASSUME Init PROVE Inv
<1>1. /\ pc = "construct" /\ res = {} /\ attached \in {"porth_xdp_prog", "default"}
      /\ fill = << >> /\ rx = << >> /\ accepted = << >> /\ printed = << >>
      /\ kern = NoFrame /\ umem = [a \in Addresses |-> 0]
  BY DEF Init
<1>2. Flags
  BY Zenon DEF Init, Flags
<1>3. Len(fill) = 0 /\ Len(rx) = 0 /\ Len(accepted) = 0 /\ Len(printed) = 0
  BY <1>1
<1>4. Copying = 0 /\ Recycled = 0 /\ Seen = 0 /\ Gone = 0
  BY <1>1, <1>3 DEF Copying, Recycled, Seen, Gone
<1>5. Values
  <2>1. /\ fill \in Seq(Addresses) /\ rx \in Seq(Descriptor) /\ accepted \in Seq(Packets)
    BY <1>1
  <2>2. umem \in [Addresses -> 0 .. MaxPackets]
    BY <1>1, PortalAssumption
  <2> QED
    BY <1>1, <1>3, <2>1, <2>2, PortalAssumption DEF Values, Setup
<1>6. Holds
  BY <1>1 DEF Holds, Polling
<1>7. Rings
  BY <1>1, <1>3, <1>4, PortalAssumption DEF Rings, Polling
<1>8. Owned /\ Contents
  BY <1>1, <1>3, <1>4 DEF Owned, Contents
<1>9. Filtered
  BY <1>3 DEF Filtered
<1>10. Printed
  BY <1>1, <1>3, <1>4 DEF Printed
<1> QED
  BY <1>2, <1>5, <1>6, <1>7, <1>8, <1>9, <1>10 DEF Inv

(* ... and every step of the portal and of the kernel keeps it.            *)
LEMMA NextInv == ASSUME Inv, [Next]_vars PROVE Inv'
  BY NextFlags, NextValues, NextHolds, NextRings, NextOwned, NextContents, NextFiltered,
    NextPrinted DEF Inv

(* So it holds throughout.                                                 *)
LEMMA Invariance == Spec => []Inv
<1>1. Init => Inv
  BY InitInv
<1>2. Inv /\ [Next]_vars => Inv'
  BY NextInv
<1> QED
  BY <1>1, <1>2, PTL DEF Spec

(* What poll_rx() has seen was accepted.                                   *)
LEMMA SeenWasAccepted ==
  ASSUME Values, Rings
  PROVE  /\ Gone \in Nat /\ Gone + Seen <= Len(accepted)
         /\ \A i \in 1 .. Len(rx) : Gone + i \in 1 .. Len(accepted)
         /\ Gone + Seen = Len(accepted) - Pending
<1>1. /\ Len(rx) \in Nat /\ Len(accepted) \in Nat /\ Seen \in {0, 1} /\ Copying \in {0, 1}
      /\ Gone \in Int /\ Gone = Len(accepted) - Copying - Len(rx)
  BY Counts DEF Gone
<1>2. Gone >= 0
  BY DEF Rings
<1>3. Seen = 1 => Len(rx) >= 1
  BY DEF Seen, Rings
<1>4. Pending = Len(rx) + Copying - Seen
  BY DEF Pending, Copying, Seen
<1> QED
  BY <1>1, <1>2, <1>3, <1>4

(* The variables keep their types: no ring overflows, and every address in *)
(* a ring is that of a frame.                                              *)
THEOREM PortalTypes == Spec => []TypeOK
<1>1. ASSUME Inv PROVE TypeOK
  <2>1. Flags /\ Values /\ Rings /\ Printed
    BY <1>1 DEF Inv
  <2>2. keep \in BOOLEAN /\ loaded \in BOOLEAN /\ bound \in BOOLEAN
    BY <2>1 DEF Flags
  <2>3. Len(fill) <= FillSize /\ Len(rx) <= RxSize
    <3>1. /\ Len(fill) \in Nat /\ Len(rx) \in Nat
          /\ Copying \in {0, 1} /\ Recycled \in {0, 1}
      BY <2>1, Counts
    <3>2. Recycled = 1 => Len(rx) >= 1
      BY <2>1 DEF Recycled, Rings
    <3>3. /\ Len(rx) + Copying <= RxSize
          /\ Len(fill) + Len(rx) + Copying - Recycled <= FILL_RING_RESERVE_SIZE
      BY <2>1 DEF Rings
    <3> QED
      BY <3>1, <3>2, <3>3, PortalAssumption
  <2>4. printed \in Seq(0 .. Len(accepted))
    <3>1. /\ printed \in Seq(Nat)
          /\ {printed[i] : i \in 1 .. Len(printed)} = {n \in 1 .. Gone + Seen : accepted[n].ip}
      BY <2>1 DEF Printed
    <3>2. ASSUME NEW i \in 1 .. Len(printed) PROVE printed[i] \in 0 .. Len(accepted)
      <4>1. printed[i] \in 1 .. Gone + Seen
        BY <3>1
      <4>2. Gone + Seen <= Len(accepted) /\ Len(accepted) \in Nat /\ Gone \in Nat /\ Seen \in {0, 1}
        BY <2>1, Counts, SeenWasAccepted
      <4> QED
        BY <4>1, <4>2
    <3> QED
      BY <3>1, <3>2
  <2> QED
    BY <2>1, <2>2, <2>3, <2>4 DEF TypeOK, Values, Descriptor
<1> QED
  BY <1>1, Invariance, PTL

(* poll_rx() prints exactly the IPv4 packets the kernel accepted, once     *)
(* each and in order, although it hands a frame back before it releases    *)
(* the descriptor.                                                         *)
THEOREM PrintsWhatArrived == Spec => []SignalsFaithful
<1>1. ASSUME Inv PROVE SignalsFaithful
  <2>1. Values /\ Rings /\ Printed
    BY <1>1 DEF Inv
  <2>2. Gone + Seen = Len(accepted) - Pending
    BY <2>1, SeenWasAccepted
  <2>3. DOMAIN printed = 1 .. Len(printed)
    BY <2>1 DEF Printed
  <2> QED
    BY <2>1, <2>2, <2>3 DEF Printed, SignalsFaithful
<1> QED
  BY <1>1, Invariance, PTL

(* With porth_xdp_prog attached poll_rx() reads the EtherType of the       *)
(* packet, what it prints was sent to its port, and a descriptor too short *)
(* for the length it subtracts belongs to a packet whose header length     *)
(* is below that of every IPv4 header.                                     *)
THEOREM FilterSuffices == Spec => []FilteredSignals
<1>1. ASSUME Inv PROVE FilteredSignals
  <2>1. Values /\ Rings /\ Printed /\ Contents /\ Filtered
    BY <1>1 DEF Inv
  <2> SUFFICES ASSUME attached = "porth_xdp_prog"
               PROVE  /\ \A i \in DOMAIN rx :
                           /\ rx[i].len >= ETH_HLEN + IP_HLEN
                           /\ rx[i].len < TOTAL_HDR_LEN => Malformed(accepted[Gone + i])
                      /\ \A i \in DOMAIN printed : accepted[printed[i]].sovereign
    BY DEF FilteredSignals
  <2>2. \A n \in 1 .. Len(accepted) : Filter(accepted[n]) /\ accepted[n] \in Packet
    BY <2>1, PortalAssumption DEF Filtered, Values
  <2>3. ASSUME NEW n \in 1 .. Len(accepted)
        PROVE  /\ accepted[n].len >= ETH_HLEN + IP_HLEN
               /\ accepted[n].len < TOTAL_HDR_LEN => Malformed(accepted[n])
    <3>1. /\ ETH_HLEN + IP_HLEN <= accepted[n].len
          /\ ETH_HLEN + 4 * accepted[n].ihl + UDP_HLEN <= accepted[n].len
      BY <2>2 DEF Filter
    <3>2. accepted[n].ihl \in 0 .. 15 /\ accepted[n].len \in Nat
      BY <2>2 DEF Packet
    <3>3. \A h \in 0 .. 15, l \in Nat :
            ETH_HLEN + 4 * h + UDP_HLEN <= l /\ l < TOTAL_HDR_LEN => h < 5
      BY DEF TOTAL_HDR_LEN, ETH_HLEN, IP_HLEN, UDP_HLEN
    <3>4. accepted[n].len >= ETH_HLEN + IP_HLEN
      BY <3>1, <3>2 DEF ETH_HLEN, IP_HLEN
    <3> QED
      BY <3>1, <3>2, <3>3, <3>4 DEF Malformed
  <2>4. ASSUME NEW i \in DOMAIN rx
        PROVE  /\ rx[i].len >= ETH_HLEN + IP_HLEN
               /\ rx[i].len < TOTAL_HDR_LEN => Malformed(accepted[Gone + i])
    <3>1. i \in 1 .. Len(rx)
      BY <2>1 DEF Values
    <3>2. rx[i].len = accepted[Gone + i].len
      BY <2>1, <3>1 DEF Contents
    <3>3. Gone + i \in 1 .. Len(accepted)
      BY <2>1, <3>1, SeenWasAccepted
    <3> QED
      BY <2>3, <3>2, <3>3
  <2>5. ASSUME NEW i \in DOMAIN printed PROVE accepted[printed[i]].sovereign
    <3>1. printed[i] \in 1 .. Gone + Seen
      <4>1. i \in 1 .. Len(printed)
        BY <2>1 DEF Printed
      <4>2. {printed[j] : j \in 1 .. Len(printed)} = {n \in 1 .. Gone + Seen : accepted[n].ip}
        BY <2>1 DEF Printed
      <4> QED
        BY <4>1, <4>2
    <3>2. Gone + Seen <= Len(accepted) /\ Len(accepted) \in Nat /\ Gone \in Nat /\ Seen \in {0, 1}
      BY <2>1, Counts, SeenWasAccepted
    <3>3. printed[i] \in 1 .. Len(accepted)
      BY <3>1, <3>2
    <3> QED
      BY <2>2, <3>3 DEF Filter
  <2> QED
    BY <2>4, <2>5
<1> QED
  BY <1>1, Invariance, PTL

(* Whichever step failed, the packet memory is there as long as the kernel *)
(* may write to it, and nothing is left behind at exit.                    *)
THEOREM AreaKept == Spec => []AreaOutlivesKernel
<1>1. ASSUME Inv PROVE AreaOutlivesKernel
  <2>1. Values /\ Holds
    BY <1>1 DEF Inv
  <2>2. {"umem", "xsk"} \cap res # {} => "area" \in res
    BY <2>1 DEF Values, Holds, Setup, Polling, Teardown
  <2>3. "xsk" \in res => {"area", "umem", "xsk"} \subseteq res
    BY <2>1 DEF Values, Holds, Setup, Polling, Teardown
  <2> QED
    BY <2>1, <2>2, <2>3 DEF AreaOutlivesKernel, Holds
<1> QED
  BY <1>1, Invariance, PTL

(* A sequence has no repetitions, two share no element, one has only       *)
(* elements of two others.                                                 *)
Distinct(s) == \A i, j \in 1 .. Len(s) : s[i] = s[j] => i = j
Apart(s, t) == \A i \in 1 .. Len(s), j \in 1 .. Len(t) : s[i] # t[j]
MadeOf(u, s, t) ==
  \A i \in 1 .. Len(u) : \/ \E j \in 1 .. Len(s) : u[i] = s[j]
                         \/ \E j \in 1 .. Len(t) : u[i] = t[j]

(* Two sequences without repetitions that share no element are one without *)
(* repetitions.                                                            *)
LEMMA Joined ==
  ASSUME NEW S, NEW s \in Seq(S), NEW t \in Seq(S), Distinct(s), Distinct(t), Apart(s, t)
  PROVE  /\ s \o t \in Seq(S) /\ Len(s \o t) = Len(s) + Len(t)
         /\ Distinct(s \o t) /\ MadeOf(s \o t, s, t)
<1>0. /\ \A i, j \in 1 .. Len(s) : s[i] = s[j] => i = j
      /\ \A i, j \in 1 .. Len(t) : t[i] = t[j] => i = j
      /\ \A i \in 1 .. Len(s), j \in 1 .. Len(t) : s[i] # t[j]
  BY DEF Distinct, Apart
<1> DEFINE u == s \o t
<1>1. Len(s) \in Nat /\ Len(t) \in Nat
  OBVIOUS
<1>2. /\ u \in Seq(S) /\ Len(u) = Len(s) + Len(t)
      /\ \A i \in 1 .. Len(s) + Len(t) : u[i] = IF i <= Len(s) THEN s[i] ELSE t[i - Len(s)]
  BY ConcatProperties
<1> HIDE DEF u
<1>3. ASSUME NEW i \in 1 .. Len(u)
      PROVE  \/ i \in 1 .. Len(s) /\ u[i] = s[i]
             \/ i \notin 1 .. Len(s) /\ i - Len(s) \in 1 .. Len(t) /\ u[i] = t[i - Len(s)]
  <2>1. CASE i <= Len(s)
    BY <1>1, <1>2, <2>1
  <2>2. CASE ~(i <= Len(s))
    <3>1. i - Len(s) \in 1 .. Len(t) /\ i \notin 1 .. Len(s)
      BY <1>1, <1>2, <2>2
    <3> QED
      BY <1>2, <2>2, <3>1
  <2> QED
    BY <2>1, <2>2
<1>4. ASSUME NEW i \in 1 .. Len(u), NEW j \in 1 .. Len(u), u[i] = u[j] PROVE i = j
  <2>1. CASE i \in 1 .. Len(s)
    BY <1>0, <1>3, <1>4, <2>1
  <2>2. CASE i \notin 1 .. Len(s)
    <3>0. /\ i - Len(s) \in 1 .. Len(t) /\ u[i] = t[i - Len(s)]
      BY <1>3, <2>2
    <3>a. ~(j \in 1 .. Len(s) /\ u[j] = s[j])
      BY <1>0, <1>4, <3>0
    <3>b. j - Len(s) \in 1 .. Len(t) /\ u[j] = t[j - Len(s)]
      BY <1>3, <3>a
    <3>1. i - Len(s) = j - Len(s)
      BY <1>0, <1>4, <3>0, <3>b
    <3> QED
      BY <1>1, <1>2, <3>1
  <2> QED
    BY <2>1, <2>2
<1>5. ASSUME NEW i \in 1 .. Len(u)
      PROVE  \/ \E j \in 1 .. Len(s) : u[i] = s[j]
             \/ \E j \in 1 .. Len(t) : u[i] = t[j]
  BY <1>3
<1> QED
  BY <1>2, <1>4, <1>5 DEF u, Distinct, MadeOf

(* The frames of the descriptors that were not handed back.                *)
LEMMA Lent ==
  ASSUME Values, Rings, Owned
  PROVE  LET A == [i \in DOMAIN Unrecycled |-> Unrecycled[i].addr] IN
         /\ A \in Seq(Addresses) /\ Len(A) = Len(rx) - Recycled
         /\ \A i \in 1 .. Len(A) : /\ i + Recycled \in (Recycled + 1) .. Len(rx)
                                   /\ A[i] = rx[i + Recycled].addr
<1>0. /\ rx \in Seq(Descriptor) /\ Len(rx) \in Nat /\ Recycled \in {0, 1}
  BY Counts DEF Values
<1>1. /\ Unrecycled \in Seq(Descriptor) /\ Len(Unrecycled) = Len(rx) - Recycled
      /\ \A i \in 1 .. Len(Unrecycled) : Unrecycled[i] = rx[i + Recycled]
  <2>1. CASE pc = "release"
    <3>1. Recycled = 1 /\ Unrecycled = Tail(rx) /\ Len(rx) >= 1
      BY <2>1 DEF Recycled, Unrecycled, Rings
    <3>2. rx # << >>
      BY <1>0, <3>1, EmptySeq
    <3>3. /\ Tail(rx) \in Seq(Descriptor) /\ Len(Tail(rx)) = Len(rx) - 1
          /\ \A i \in 1 .. Len(rx) - 1 : Tail(rx)[i] = rx[i + 1]
      BY <1>0, <3>2, Shrunk
    <3> QED
      BY <3>1, <3>3
  <2>2. CASE pc # "release"
    <3>1. Recycled = 0 /\ Unrecycled = rx
      BY <2>2 DEF Recycled, Unrecycled
    <3>2. \A i \in 1 .. Len(rx) : i + 0 = i
      BY <1>0
    <3> QED
      BY <1>0, <3>1, <3>2
  <2> QED
    BY <2>1, <2>2
<1> DEFINE A == [i \in DOMAIN Unrecycled |-> Unrecycled[i].addr]
<1>2. DOMAIN Unrecycled = 1 .. Len(Unrecycled) /\ Len(Unrecycled) \in Nat
  BY <1>1
<1>3. ASSUME NEW i \in 1 .. Len(Unrecycled) PROVE Unrecycled[i].addr \in Addresses
  <2>1. Unrecycled[i] \in Descriptor
    BY <1>1
  <2> QED
    BY <2>1 DEF Descriptor
<1>4. A \in Seq(Addresses) /\ Len(A) = Len(Unrecycled)
  BY <1>2, <1>3
<1>5. ASSUME NEW i \in 1 .. Len(A)
      PROVE  /\ i + Recycled \in (Recycled + 1) .. Len(rx)
             /\ A[i] = rx[i + Recycled].addr
  <2>1. i \in 1 .. Len(Unrecycled)
    BY <1>4
  <2>2. i + Recycled \in (Recycled + 1) .. Len(rx)
    BY <1>0, <1>1, <2>1
  <2>3. A[i] = rx[i + Recycled].addr
    BY <1>1, <1>2, <2>1
  <2> QED
    BY <2>2, <2>3
<1> HIDE DEF A
<1>6. /\ A \in Seq(Addresses) /\ Len(A) = Len(rx) - Recycled
      /\ \A i \in 1 .. Len(A) : /\ i + Recycled \in (Recycled + 1) .. Len(rx)
                                /\ A[i] = rx[i + Recycled].addr
  BY <1>1, <1>4, <1>5
<1> QED
  BY <1>6 DEF A

(* A frame is in one place at a time, and while the portal polls none of   *)
(* the frames that prime_fill_ring() lent is lost.                         *)
THEOREM FramesOwned == Spec => []FrameOwnership
<1>1. ASSUME Inv PROVE FrameOwnership
  <2>1. Values /\ Rings /\ Owned
    BY <1>1 DEF Inv
  <2> DEFINE A == [i \in DOMAIN Unrecycled |-> Unrecycled[i].addr]
             K == IF kern = NoFrame THEN << >> ELSE <<kern>>
             C == fill \o A \o K
  <2>2. /\ A \in Seq(Addresses) /\ Len(A) = Len(rx) - Recycled
        /\ \A i \in 1 .. Len(A) : /\ i + Recycled \in (Recycled + 1) .. Len(rx)
                                  /\ A[i] = rx[i + Recycled].addr
    BY <2>1, Lent
  <2>3. /\ K \in Seq(Addresses) /\ Len(K) = Copying
        /\ \A i \in 1 .. Len(K) : i = 1 /\ kern # NoFrame /\ K[i] = kern
    <3>1. CASE kern = NoFrame
      BY <3>1 DEF Copying
    <3>2. CASE kern # NoFrame
      <4>1. kern \in Addresses
        BY <2>1, <3>2 DEF Values
      <4> QED
        BY <3>2, <4>1 DEF Copying
    <3> QED
      BY <3>1, <3>2
  <2>4. Circulating = C
    BY DEF Circulating
  <2> HIDE DEF A, K
  <2>5. /\ fill \in Seq(Addresses) /\ Len(fill) \in Nat /\ Len(rx) \in Nat
        /\ Copying \in {0, 1} /\ Recycled \in {0, 1}
    BY <2>1, Counts DEF Values
  <2>6. /\ \A i, j \in 1 .. Len(fill) : fill[i] = fill[j] => i = j
        /\ \A i, j \in (Recycled + 1) .. Len(rx) : rx[i].addr = rx[j].addr => i = j
        /\ \A i \in 1 .. Len(fill), j \in (Recycled + 1) .. Len(rx) : fill[i] # rx[j].addr
        /\ kern # NoFrame =>
             /\ \A i \in 1 .. Len(fill) : fill[i] # kern
             /\ \A j \in (Recycled + 1) .. Len(rx) : rx[j].addr # kern
    BY <2>1 DEF Owned
  <2>7. Distinct(A)
    <3> SUFFICES ASSUME NEW i \in 1 .. Len(A), NEW j \in 1 .. Len(A), A[i] = A[j] PROVE i = j
      BY DEF Distinct
    <3>1. i + Recycled = j + Recycled
      BY <2>2, <2>6
    <3>2. i \in Int /\ j \in Int
      BY <2>2, <2>5
    <3> QED
      BY <2>5, <3>1, <3>2
  <2>8. Distinct(fill) /\ Apart(fill, A)
    BY <2>2, <2>6 DEF Distinct, Apart
  <2> DEFINE B == fill \o A
  <2>9. /\ B \in Seq(Addresses) /\ Len(B) = Len(fill) + Len(A)
        /\ Distinct(B) /\ MadeOf(B, fill, A)
    BY <2>2, <2>5, <2>7, <2>8, Joined
  <2> HIDE DEF B
  <2>10. Apart(B, K)
    <3> SUFFICES ASSUME NEW i \in 1 .. Len(B), kern # NoFrame PROVE B[i] # kern
      BY <2>3 DEF Apart
    <3>1. \A j \in 1 .. Len(fill) : fill[j] # kern
      BY <2>6
    <3>2. \A j \in 1 .. Len(A) : A[j] # kern
      BY <2>2, <2>6
    <3> QED
      BY <2>9, <3>1, <3>2 DEF MadeOf
  <2>11. Distinct(K)
    BY <2>3 DEF Distinct
  <2>12. /\ B \o K \in Seq(Addresses) /\ Len(B \o K) = Len(B) + Len(K)
         /\ Distinct(B \o K)
    BY <2>3, <2>9, <2>10, <2>11, Joined
  <2>13. C = B \o K
    BY DEF B
  <2>14. /\ DOMAIN C = 1 .. Len(C) /\ Len(C) = Len(fill) + (Len(rx) - Recycled) + Copying
         /\ Distinct(C)
    <3>1. Len(B \o K) = Len(fill) + (Len(rx) - Recycled) + Copying
      BY <2>2, <2>3, <2>5, <2>9, <2>12
    <3>2. DOMAIN (B \o K) = 1 .. Len(B \o K)
      BY <2>12
    <3> HIDE DEF C
    <3> QED
      BY <2>12, <2>13, <3>1, <3>2
  <2> HIDE DEF C
  <2>15. pc \in Polling => Len(C) = FILL_RING_RESERVE_SIZE
    <3>1. pc \in Polling => Len(fill) + Len(rx) + Copying - Recycled = FILL_RING_RESERVE_SIZE
      BY <2>1 DEF Rings
    <3> QED
      BY <2>5, <2>14, <3>1
  <2> QED
    BY <2>4, <2>14, <2>15 DEF FrameOwnership, Distinct
<1> QED
  BY <1>1, Invariance, PTL

-----------------------------------------------------------------------------
(* The end of the program                                                  *)

(* A bound on the steps the program still takes once it is interrupted.    *)
StepsLeft ==
  CASE pc = "construct" -> 12
    [] pc = "object" -> 11
    [] pc = "umem" -> 10
    [] pc = "socket" -> 9
    [] pc = "load" -> 8
    [] pc = "bind" -> 7
    [] pc = "prime" -> 6
    [] pc = "peek" -> 9
    [] pc = "read" -> 8
    [] pc = "recycle" -> 7
    [] pc = "release" -> 6
    [] pc = "loop" -> 5
    [] pc = "delete_xsk" -> 4
    [] pc = "delete_umem" -> 3
    [] pc = "close_bpf" -> 2
    [] pc = "free_area" -> 1
    [] OTHER -> 0

(* After the signal every step of the program brings its end nearer, and   *)
(* neither the kernel nor a packet puts it off or takes the signal back.   *)
Ending ==
  ~keep => /\ ~keep'
           /\ PortalStep => StepsLeft' < StepsLeft
           /\ ~PortalStep => StepsLeft' = StepsLeft

(* It runs out at the end only.                                            *)
Bounded == StepsLeft \in 0..12 /\ (StepsLeft = 0 => pc = "done")

(* StepsLeft, place by place.                                              *)
Places ==
  /\ pc = "construct" => StepsLeft = 12
  /\ pc = "object" => StepsLeft = 11
  /\ pc = "umem" => StepsLeft = 10
  /\ pc = "socket" => StepsLeft = 9
  /\ pc = "load" => StepsLeft = 8
  /\ pc = "bind" => StepsLeft = 7
  /\ pc = "prime" => StepsLeft = 6
  /\ pc = "peek" => StepsLeft = 9
  /\ pc = "read" => StepsLeft = 8
  /\ pc = "recycle" => StepsLeft = 7
  /\ pc = "release" => StepsLeft = 6
  /\ pc = "loop" => StepsLeft = 5
  /\ pc = "delete_xsk" => StepsLeft = 4
  /\ pc = "delete_umem" => StepsLeft = 3
  /\ pc = "close_bpf" => StepsLeft = 2
  /\ pc = "free_area" => StepsLeft = 1
  /\ pc = "done" => StepsLeft = 0

(* They are the branches of its definition.                                *)
LEMMA Placed == Places
  BY ZenonT(60) DEF Places, StepsLeft

(* A step of the program leaves fewer to come; only the loop goes round,   *)
(* and it tests the flag.                                                  *)
LEMMA Advances ==
  ASSUME Places, Places', ~keep, PortalStep
  PROVE  StepsLeft' < StepsLeft /\ ~keep'
<1>1. UNCHANGED keep
  <2>1. SetupStep => UNCHANGED keep
    BY DEF SetupStep, Construct, FindObject, InitializeUmem, CreateSocket, LoadKernelProgram,
      BindXskMap, PrimeFillRing
  <2>2. PollStep => UNCHANGED keep
    BY DEF PollStep, LoopTest, PollPeek, PollRead, PollRecycle, PollRelease
  <2>3. TeardownStep => UNCHANGED keep
    BY DEF TeardownStep, DeleteSocket, DeleteUmem, CloseBpf, FreeArea
  <2> QED
    BY <2>1, <2>2, <2>3 DEF PortalStep
<1>2. CASE SetupStep
  <2>1. \/ pc = "construct" /\ pc' \in {"object", "done"}
        \/ pc = "object" /\ pc' \in {"umem", "delete_xsk"}
        \/ pc = "umem" /\ pc' \in {"socket", "delete_xsk"}
        \/ pc = "socket" /\ pc' \in {"load", "delete_xsk"}
        \/ pc = "load" /\ pc' = "bind"
        \/ pc = "bind" /\ pc' = "prime"
        \/ pc = "prime" /\ pc' = "loop"
    BY <1>2 DEF SetupStep, Construct, FindObject, InitializeUmem, CreateSocket,
      LoadKernelProgram, BindXskMap, PrimeFillRing
  <2> QED
    BY <1>1, <2>1 DEF Places
<1>3. CASE PollStep
  <2>1. \/ pc = "loop" /\ pc' = "delete_xsk"
        \/ pc = "peek" /\ pc' \in {"loop", "read"}
        \/ pc = "read" /\ pc' \in {"recycle", "delete_xsk"}
        \/ pc = "recycle" /\ pc' = "release"
        \/ pc = "release" /\ pc' = "loop"
    BY <1>3 DEF PollStep, LoopTest, PollPeek, PollRead, PollRecycle, PollRelease
  <2> QED
    BY <1>1, <2>1 DEF Places
<1>4. CASE TeardownStep
  <2>1. \/ pc = "delete_xsk" /\ pc' = "delete_umem"
        \/ pc = "delete_umem" /\ pc' = "close_bpf"
        \/ pc = "close_bpf" /\ pc' = "free_area"
        \/ pc = "free_area" /\ pc' = "done"
    BY <1>4 DEF TeardownStep, DeleteSocket, DeleteUmem, CloseBpf, FreeArea
  <2> QED
    BY <1>1, <2>1 DEF Places
<1> QED
  BY <1>2, <1>3, <1>4 DEF PortalStep

(* A program that is interrupted is done within twelve of its own steps,   *)
(* whatever it was doing and however many packets are waiting.             *)
THEOREM ClosesWithin == Spec => []Bounded /\ [][Ending]_vars
<1>1. TypeOK => Bounded
  BY Placed DEF TypeOK, Setup, Polling, Teardown, Places, Bounded
<1>2. ASSUME Places, Places', [Next]_vars PROVE [Ending]_vars
  <2>1. CASE PortalStep
    BY <1>2, <2>1, Advances DEF Ending
  <2>2. CASE ~PortalStep
    <3>1. UNCHANGED <<pc, keep>> \/ (keep /\ ~keep' /\ UNCHANGED pc)
      BY <1>2, <2>2 DEF Next, Sigint, KernelPublish, KernelReceive, portal, vars
    <3>2. ~keep => ~keep' /\ StepsLeft' = StepsLeft
      BY <3>1 DEF StepsLeft
    <3> QED
      BY <2>2, <3>2 DEF Ending
  <2> QED
    BY <2>1, <2>2
<1> QED
  BY <1>1, <1>2, Placed, PortalTypes, PTL DEF Spec

=============================================================================
