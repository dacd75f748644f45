--------------------------- MODULE PorthXDPPortal ---------------------------
(***************************************************************************)
(* include/porth/PorthXDPPortal.hpp: the AF_XDP memory and socket over the *)
(* shuttle's page.  The portal never offers a frame to the kernel before   *)
(* it has received one, so its receive ring stays empty and                *)
(* bridge_to_shuttle() always returns from its first test; what lies       *)
(* behind that test cannot be reached and is not modelled.                 *)
(***************************************************************************)
VARIABLES m_umem, m_xsk   \* whether the kernel holds the memory, the socket

xdp == <<m_umem, m_xsk>>

XdpInit == m_umem = FALSE /\ m_xsk = FALSE

bind_shuttle_memory == m_umem' = TRUE /\ UNCHANGED m_xsk

open_portal == m_umem /\ m_xsk' = TRUE /\ UNCHANGED m_umem

bridge_to_shuttle == UNCHANGED xdp

(* Faulty variant of ClosePortal: the memory is deleted first, which the   *)
(* kernel refuses while a socket uses it.                                  *)
ClosePortalMemoryFirst == m_umem' = (m_umem /\ m_xsk) /\ m_xsk' = FALSE

(* ~PorthXDPPortal(): the socket, then the memory it no longer uses.       *)
ClosePortal == m_xsk' = FALSE /\ m_umem' = FALSE
=============================================================================
