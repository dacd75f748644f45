---------------------------- MODULE PorthHugePage ---------------------------
(***************************************************************************)
(* include/porth/PorthHugePage.hpp: the fallback chain behind the pinned   *)
(* memory.  m_ptr is "none" or names the allocator its memory came from.   *)
(***************************************************************************)
EXTENDS Naturals

VARIABLES m_ptr, m_is_numa_managed, m_is_mmaped,
          misfreed   \* memory was given back to another allocator

page == <<m_ptr, m_is_numa_managed, m_is_mmaped, misfreed>>

PageInit ==
  m_ptr = "none" /\ m_is_numa_managed = FALSE /\ m_is_mmaped = FALSE /\ misfreed = FALSE

(* allocate_initial_buffer(): on the NUMA node, or failing that or without *)
(* NUMA from the heap, which may be exhausted.                             *)
AllocateInitialBuffer ==
  /\ \/ m_ptr' = "numa" /\ m_is_numa_managed' = TRUE
     \/ m_ptr' \in {"heap", "none"} /\ m_is_numa_managed' = FALSE
  /\ UNCHANGED <<m_is_mmaped, misfreed>>

Deallocator == IF m_is_numa_managed THEN "numa" ELSE "heap"

(* attempt_hugepage_upgrade(): the huge page replaces the buffer, ...      *)
Upgrade ==
  /\ misfreed' = (misfreed \/ m_ptr # Deallocator)
  /\ m_ptr' = "huge" /\ m_is_mmaped' = TRUE
  /\ UNCHANGED m_is_numa_managed

(* ... or is refused: the buffer is locked instead.  When that fails too   *)
(* the constructor throws and nobody frees m_ptr, since the destructor of  *)
(* an object that was never constructed does not run.                      *)
NoUpgrade == m_is_mmaped' = FALSE /\ UNCHANGED <<m_ptr, m_is_numa_managed, misfreed>>

(* Faulty variant of FreePage: m_is_numa_managed, still set after an       *)
(* upgrade, is asked first.                                                *)
FreePageNumaFirst ==
  /\ misfreed' = (misfreed \/ m_ptr # (CASE m_is_numa_managed -> "numa"
                                         [] m_is_mmaped -> "huge" [] OTHER -> "heap"))
  /\ m_ptr' = "none"
  /\ UNCHANGED <<m_is_numa_managed, m_is_mmaped>>

(* ~PorthHugePage()                                                        *)
FreePage ==
  /\ misfreed' = (misfreed \/ m_ptr # IF m_is_mmaped THEN "huge" ELSE Deallocator)
  /\ m_ptr' = "none"
  /\ UNCHANGED <<m_is_numa_managed, m_is_mmaped>>
=============================================================================
