------------------------- MODULE PorthNetworkPortal -------------------------
(***************************************************************************)
(* The AF_XDP network portal (PorthNetworkPortal.hpp), the kernel filter   *)
(* meant to feed it (porth_xdp_kern.c) and the program that runs it        *)
(* (examples/network_portal_demo.cpp).                                     *)
(*                                                                         *)
(* Packet memory ("UMEM") is shared with the kernel.  A frame travels from *)
(* the fill ring to the kernel, which copies a packet into it, through the *)
(* receive ring to the portal, and back to the fill ring.  poll_rx() puts  *)
(* a frame back BEFORE it releases the descriptor, so the kernel may       *)
(* already overwrite the frame while its descriptor is still in the ring.  *)
(*                                                                         *)
(* The kernel's side of the rings is external: a packet is dropped when    *)
(* there is no free frame or no room in the receive ring, and deleting the *)
(* socket waits for a receive that is under way.                           *)
(***************************************************************************)
EXTENDS Integers, Sequences

CONSTANTS
  FRAME_SIZE,              \* bytes of one frame
  NUM_FRAMES,              \* frames of the packet memory
  FILL_RING_RESERVE_SIZE,  \* frames lent to the kernel by prime_fill_ring
  FillSize,                \* capacity of the fill ring
  RxSize,                  \* capacity of the receive ring
  Packets,                 \* packets that may arrive
  MaxPackets               \* bound on the number of packets accepted

ETH_HLEN == 14
IP_HLEN == 20
UDP_HLEN == 8
TOTAL_HDR_LEN == ETH_HLEN + IP_HLEN + UDP_HLEN

(***************************************************************************)
(* What the code reads of a packet.  The bytes it tests are abstracted to  *)
(* the outcome of the test: ip (EtherType 0x0800), udp (protocol 17) and   *)
(* sovereign (destination port 12345, where ihl says the port is).  The    *)
(* program runs before the IP stack does, so ihl is whatever was sent.     *)
(***************************************************************************)
Packet == [len : Nat, ip : BOOLEAN, udp : BOOLEAN, ihl : 0 .. 15,
           sovereign : BOOLEAN, queue : Nat]

ASSUME PortalAssumption ==
  /\ FRAME_SIZE \in Nat \ {0}
  /\ NUM_FRAMES \in Nat \ {0}
  /\ FILL_RING_RESERVE_SIZE \in 1 .. NUM_FRAMES
  /\ FillSize \in Nat /\ FILL_RING_RESERVE_SIZE <= FillSize
  /\ RxSize \in Nat \ {0}
  /\ Packets \subseteq Packet
  /\ MaxPackets \in Nat

VARIABLES
  pc,        \* the step the program takes next
  keep,      \* SignalContext::keep_running
  res,       \* what the portal holds: "area", "umem", "xsk", "bpf"
  loaded,    \* the BPF object was loaded, so that its map exists
  bound,     \* porth_xsk_map holds the socket for queue 0
  attached,  \* the XDP program the interface runs
  fill, rx,  \* published entries of the fill and receive rings
  umem,      \* number of the packet in each frame; 0: none, or half copied
  kern,      \* frame the kernel is copying into, NoFrame when idle
  accepted,  \* the packets the kernel put into frames (history)
  printed    \* the numbers of the packets printed as signals (history)

portal == <<pc, res, loaded, bound, printed>>
kernel == <<kern, umem, accepted>>
vars == <<pc, keep, res, loaded, bound, attached, fill, rx, umem, kern,
          accepted, printed>>

NoFrame == -1
\* Mutant: a frame number is used as an address.
FrameAddrUnscaled(i) == i

FrameAddr(i) == i * FRAME_SIZE
Addresses == {i * FRAME_SIZE : i \in 0 .. NUM_FRAMES - 1}

Setup == {"construct", "object", "umem", "socket", "load", "bind", "prime"}
Polling == {"loop", "peek", "read", "recycle", "release"}
Teardown == {"delete_xsk", "delete_umem", "close_bpf", "free_area", "done"}

(***************************************************************************)
(* bpf_object__load() loads porth_xdp_prog and attaches it to nothing, so  *)
(* the interface runs it only when somebody attached it; otherwise it runs *)
(* the default program that socket creation installs.                      *)
(***************************************************************************)
Init ==
  /\ pc = "construct" /\ keep = TRUE
  /\ res = {} /\ loaded = FALSE /\ bound = FALSE
  /\ attached \in {"porth_xdp_prog", "default"}
  /\ fill = <<>> /\ rx = <<>>
  /\ umem = [a \in Addresses |-> 0] /\ kern = NoFrame
  /\ accepted = <<>> /\ printed = <<>>

-----------------------------------------------------------------------------
(* The kernel's side. *)

\* Mutant: the lengths are not tested.
FilterUnchecked(p) == p.ip /\ p.udp /\ p.sovereign

\* porth_xdp_prog: every header is tested to lie within the packet before it
\* is read.  XDP_PASS, the other outcome, leaves the packet to the stack.
Filter(p) ==
  /\ ETH_HLEN <= p.len
  /\ p.ip
  /\ ETH_HLEN + IP_HLEN <= p.len
  /\ p.udp
  /\ ETH_HLEN + 4 * p.ihl + UDP_HLEN <= p.len
  /\ p.sovereign

\* Whether the attached program hands p to the portal's socket.  The map has
\* an entry for queue 0 only; a missing entry means XDP_PASS.  The program
\* attached is taken to use the map that bind_xsk_map() fills.
Redirects(p) ==
  /\ "xsk" \in res /\ p.queue = 0
  /\ attached = "porth_xdp_prog" => bound /\ Filter(p)

\* A packet arrives and the kernel starts to copy it into a free frame.  One
\* that is passed to the stack or dropped changes nothing here.
KernelReceive(p) ==
  /\ Len(accepted) < MaxPackets /\ kern = NoFrame
  /\ Redirects(p) /\ fill # <<>> /\ Len(rx) < RxSize /\ p.len <= FRAME_SIZE
  /\ accepted' = Append(accepted, p)
  /\ kern' = Head(fill)
  /\ fill' = Tail(fill)
  /\ umem' = [umem EXCEPT ![Head(fill)] = 0]
  /\ UNCHANGED <<portal, keep, attached, rx>>

\* The copy is complete and the descriptor published.
KernelPublish ==
  /\ kern # NoFrame
  /\ umem' = [umem EXCEPT ![kern] = Len(accepted)]
  /\ rx' = Append(rx, [addr |-> kern, len |-> accepted[Len(accepted)].len])
  /\ kern' = NoFrame
  /\ UNCHANGED <<portal, keep, attached, fill, accepted>>

-----------------------------------------------------------------------------
(* Setting up.  After the constructor every exception runs the destructor.  *)

\* PorthNetworkPortal(): an exception here leaves nothing to destroy.
Construct ==
  /\ pc = "construct"
  /\ \/ pc' = "object" /\ res' = {"area"}
     \/ pc' = "done" /\ res' = res
  /\ UNCHANGED <<keep, loaded, bound, attached, fill, rx, kernel, printed>>

\* The file of the BPF object is looked for in two places.
FindObject ==
  /\ pc = "object"
  /\ pc' \in {"umem", "delete_xsk"}
  /\ UNCHANGED <<keep, res, loaded, bound, attached, fill, rx, kernel, printed>>

InitializeUmem ==
  /\ pc = "umem"
  /\ \/ pc' = "socket" /\ res' = res \cup {"umem"}
     \/ pc' = "delete_xsk" /\ res' = res
  /\ UNCHANGED <<keep, loaded, bound, attached, fill, rx, kernel, printed>>

CreateSocket ==
  /\ pc = "socket"
  /\ \/ pc' = "load" /\ res' = res \cup {"xsk"}
     \/ pc' = "delete_xsk" /\ res' = res
  /\ UNCHANGED <<keep, loaded, bound, attached, fill, rx, kernel, printed>>

\* load_kernel_program(): a failure to open or to load is not reported.
LoadKernelProgram ==
  /\ pc = "load" /\ pc' = "bind"
  /\ \/ res' = res \cup {"bpf"} /\ loaded' \in BOOLEAN
     \/ res' = res /\ loaded' = FALSE
  /\ UNCHANGED <<keep, bound, attached, fill, rx, kernel, printed>>

\* bind_xsk_map(): returns silently without object, socket or map; the result
\* of the map update is ignored.
BindXskMap ==
  /\ pc = "bind" /\ pc' = "prime"
  /\ \/ {"bpf", "xsk"} \subseteq res /\ loaded /\ bound' \in BOOLEAN
     \/ ~({"bpf", "xsk"} \subseteq res /\ loaded) /\ bound' = bound
  /\ UNCHANGED <<keep, res, loaded, attached, fill, rx, kernel, printed>>

\* xsk_ring_prod__reserve() gives all it is asked for, or nothing.
Reserved(n) == IF Len(fill) + n <= FillSize THEN n ELSE 0

PrimeFillRing ==
  /\ pc = "prime" /\ pc' = "loop"
  /\ LET n == Reserved(FILL_RING_RESERVE_SIZE) IN
       fill' = fill \o [i \in 1 .. n |-> FrameAddr(i - 1)]
  /\ UNCHANGED <<keep, res, loaded, bound, attached, rx, kernel, printed>>

-----------------------------------------------------------------------------
(* Polling. *)

\* Mutant: the flag is not tested.
LoopTestForever ==
  /\ pc = "loop" /\ pc' = "peek"
  /\ UNCHANGED <<keep, res, loaded, bound, attached, fill, rx, kernel, printed>>

\* The loop of main() tests the flag before every poll_rx().
LoopTest ==
  /\ pc = "loop"
  /\ pc' = IF keep THEN "peek" ELSE "delete_xsk"
  /\ UNCHANGED <<keep, res, loaded, bound, attached, fill, rx, kernel, printed>>

\* Mutant: the frame is handed back before it is read.
PollPeekRecycles ==
  /\ pc = "peek"
  /\ pc' = IF rx = <<>> THEN "loop" ELSE "read"
  /\ fill' = IF rx = <<>> THEN fill ELSE Append(fill, Head(rx).addr)
  /\ UNCHANGED <<keep, res, loaded, bound, attached, rx, kernel, printed>>

PollPeek ==
  /\ pc = "peek"
  /\ pc' = IF rx = <<>> THEN "loop" ELSE "read"
  /\ UNCHANGED <<keep, res, loaded, bound, attached, fill, rx, kernel, printed>>

IsIp(n) == n # 0 => accepted[n].ip

\* An IPv4 packet is printed from byte 42 on.  A length below 42 wraps around,
\* std::string refuses it and the exception ends main().
PollRead ==
  /\ pc = "read"
  /\ LET desc == Head(rx)
         n == umem[desc.addr] IN
       \/ ~IsIp(n) /\ pc' = "recycle" /\ printed' = printed
       \/ IsIp(n) /\ desc.len >= TOTAL_HDR_LEN /\ pc' = "recycle"
            /\ printed' = Append(printed, n)
       \/ IsIp(n) /\ desc.len < TOTAL_HDR_LEN /\ pc' = "delete_xsk"
            /\ printed' = printed
  /\ UNCHANGED <<keep, res, loaded, bound, attached, fill, rx, kernel>>

\* Mutant: only the frame of an IPv4 packet is handed back.
PollRecycleIpOnly ==
  /\ pc = "recycle" /\ pc' = "release"
  /\ fill' = IF IsIp(umem[Head(rx).addr]) THEN Append(fill, Head(rx).addr) ELSE fill
  /\ UNCHANGED <<keep, res, loaded, bound, attached, rx, kernel, printed>>

PollRecycle ==
  /\ pc = "recycle" /\ pc' = "release"
  /\ fill' = fill \o [i \in 1 .. Reserved(1) |-> Head(rx).addr]
  /\ UNCHANGED <<keep, res, loaded, bound, attached, rx, kernel, printed>>

\* Mutant: more is released than was peeked.
PollReleaseAll ==
  /\ pc = "release" /\ pc' = "loop"
  /\ rx' = <<>>
  /\ UNCHANGED <<keep, res, loaded, bound, attached, fill, kernel, printed>>

PollRelease ==
  /\ pc = "release" /\ pc' = "loop"
  /\ rx' = Tail(rx)
  /\ UNCHANGED <<keep, res, loaded, bound, attached, fill, kernel, printed>>

-----------------------------------------------------------------------------
(* Shutting down. *)

\* SIGINT may come at any time, also while the portal is being set up.
Sigint ==
  /\ pc # "done" /\ keep
  /\ keep' = FALSE
  /\ UNCHANGED <<portal, attached, fill, rx, kernel>>

\* Mutant: the socket is left for last, after the memory it receives into.
DeleteSocketLate ==
  /\ pc = "delete_xsk" /\ pc' = "delete_umem"
  /\ res' = res \ {"umem", "area"}
  /\ UNCHANGED <<keep, loaded, bound, attached, fill, rx, kernel, printed>>

\* ~PorthNetworkPortal(), one step per release; what was never acquired is
\* skipped.  The rings go with the socket and the UMEM.
DeleteSocket ==
  /\ pc = "delete_xsk" /\ pc' = "delete_umem"
  /\ "xsk" \in res => kern = NoFrame
  /\ res' = res \ {"xsk"}
  /\ UNCHANGED <<keep, loaded, bound, attached, fill, rx, kernel, printed>>

DeleteUmem ==
  /\ pc = "delete_umem" /\ pc' = "close_bpf"
  /\ res' = res \ {"umem"}
  /\ UNCHANGED <<keep, loaded, bound, attached, fill, rx, kernel, printed>>

CloseBpf ==
  /\ pc = "close_bpf" /\ pc' = "free_area"
  /\ res' = res \ {"bpf"}
  /\ UNCHANGED <<keep, loaded, bound, attached, fill, rx, kernel, printed>>

FreeArea ==
  /\ pc = "free_area" /\ pc' = "done"
  /\ res' = res \ {"area"}
  /\ UNCHANGED <<keep, loaded, bound, attached, fill, rx, kernel, printed>>

SetupStep ==
  \/ Construct \/ FindObject \/ InitializeUmem \/ CreateSocket
  \/ LoadKernelProgram \/ BindXskMap \/ PrimeFillRing

PollStep == LoopTest \/ PollPeek \/ PollRead \/ PollRecycle \/ PollRelease

TeardownStep == DeleteSocket \/ DeleteUmem \/ CloseBpf \/ FreeArea

PortalStep == SetupStep \/ PollStep \/ TeardownStep

Next ==
  \/ PortalStep \/ Sigint
  \/ KernelPublish \/ \E p \in Packets : KernelReceive(p)

\* The process runs and the kernel completes a copy it has begun; nothing
\* makes a packet arrive or an operator interrupt the program.
Spec ==
  /\ Init /\ [][Next]_vars
  /\ WF_vars(PortalStep) /\ WF_vars(KernelPublish)

-----------------------------------------------------------------------------
(* Properties. *)

\* The variables keep their types; in particular every address in a ring is the
\* first byte of a frame of the packet memory.
TypeOK ==
  /\ pc \in Setup \cup Polling \cup Teardown
  /\ keep \in BOOLEAN /\ loaded \in BOOLEAN /\ bound \in BOOLEAN
  /\ res \subseteq {"area", "umem", "xsk", "bpf"}
  /\ attached \in {"porth_xdp_prog", "default"}
  /\ fill \in Seq(Addresses) /\ Len(fill) <= FillSize
  /\ rx \in Seq([addr : Addresses, len : 0 .. FRAME_SIZE]) /\ Len(rx) <= RxSize
  /\ umem \in [Addresses -> 0 .. MaxPackets]
  /\ kern \in Addresses \cup {NoFrame}
  /\ accepted \in Seq(Packets) /\ Len(accepted) <= MaxPackets
  /\ printed \in Seq(0 .. Len(accepted))

\* The descriptors whose frame the portal has not handed back yet.
Unrecycled == IF pc = "release" THEN Tail(rx) ELSE rx

\* The frames in circulation, in no particular order.
Circulating ==
  fill \o [i \in DOMAIN Unrecycled |-> Unrecycled[i].addr]
       \o (IF kern = NoFrame THEN <<>> ELSE <<kern>>)

\* A frame is in one place at a time (the fill ring, the kernel, a descriptor
\* not yet recycled), and while the portal polls none of the frames that
\* prime_fill_ring() lent is lost, whatever poll_rx() makes of the packets.
FrameOwnership ==
  /\ \A i, j \in DOMAIN Circulating : Circulating[i] = Circulating[j] => i = j
  /\ pc \in Polling => Len(Circulating) = FILL_RING_RESERVE_SIZE

\* Packets the kernel is copying, and packets that have left the receive ring.
Copying == IF kern = NoFrame THEN 0 ELSE 1
Gone == Len(accepted) - Copying - Len(rx)

\* Accepted packets that poll_rx() has not dealt with.
Pending == Len(rx) + Copying - (IF pc \in {"recycle", "release"} THEN 1 ELSE 0)

\* poll_rx() prints exactly the IPv4 packets the kernel accepted, once each and
\* in order, although frames are reused: no frame is overwritten before its
\* packet is printed, and none is printed half copied.
SignalsFaithful ==
  /\ {printed[i] : i \in DOMAIN printed}
       = {n \in 1 .. Len(accepted) - Pending : accepted[n].ip}
  /\ \A i, j \in DOMAIN printed : i < j => printed[i] < printed[j]

\* A header shorter than any IPv4 header, in a packet shorter than the headers
\* poll_rx() skips.
Malformed(p) == p.ihl < 5 /\ p.len < TOTAL_HDR_LEN

\* With porth_xdp_prog attached the EtherType that poll_rx() tests lies within the
\* packet; the fixed header length it subtracts exceeds a descriptor's length only
\* for a packet whose header length no IPv4 header has, which the program does not
\* test; and it prints only what was sent to its port.
FilteredSignals ==
  attached = "porth_xdp_prog" =>
    /\ \A i \in DOMAIN rx :
         /\ rx[i].len >= ETH_HLEN + IP_HLEN
         /\ rx[i].len < TOTAL_HDR_LEN => Malformed(accepted[Gone + i])
    /\ \A i \in DOMAIN printed : accepted[printed[i]].sovereign

\* Whichever step failed, the packet memory is there as long as the kernel may
\* write to it, and nothing is left behind at exit.
AreaOutlivesKernel ==
  /\ {"umem", "xsk"} \cap res # {} => "area" \in res
  /\ kern # NoFrame => {"area", "umem", "xsk"} \subseteq res
  /\ pc = "done" => res = {}

\* With porth_xdp_prog attached a packet that the kernel accepted is printed, unless
\* the program is interrupted, or a malformed packet before it, or itself, made
\* poll_rx() throw.
SignalDelivered ==
  \A n \in 1 .. MaxPackets :
    (attached = "porth_xdp_prog" /\ n <= Len(accepted))
      ~> \/ ~keep
         \/ \E i \in DOMAIN printed : printed[i] = n
         \/ \E m \in 1 .. n : m <= Len(accepted) /\ Malformed(accepted[m])

\* An interrupt at any time, also during setup, ends in a clean exit.
ClosesOnSignal == ~keep ~> (pc = "done" /\ res = {})

=============================================================================
