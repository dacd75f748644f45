--------------------------- MODULE MCNetworkPortal ---------------------------
(* The packets of a small instance of the network portal. *)
EXTENDS PorthNetworkPortal

(***************************************************************************)
(* Packets on both sides of every test the code makes: ARP, IPv4 without   *)
(* a transport header, UDP of the shortest length, UDP with IP options     *)
(* that leave no room for its header, UDP under a header length too small  *)
(* for IPv4, another port, another queue.                                  *)
(***************************************************************************)
Pkt(len, ip, udp, ihl, sovereign, queue) ==
  [len |-> len, ip |-> ip, udp |-> udp, ihl |-> ihl,
   sovereign |-> sovereign, queue |-> queue]

MCPackets == {
  Pkt(42, FALSE, FALSE, 5, FALSE, 0),
  Pkt(34, TRUE, FALSE, 5, FALSE, 0),
  Pkt(41, TRUE, TRUE, 5, TRUE, 0),
  Pkt(41, TRUE, TRUE, 3, TRUE, 0),
  Pkt(42, TRUE, TRUE, 5, TRUE, 0),
  Pkt(46, TRUE, TRUE, 6, FALSE, 0),
  Pkt(43, TRUE, TRUE, 5, TRUE, 1) }
=============================================================================
