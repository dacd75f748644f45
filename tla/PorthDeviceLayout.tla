------------------------- MODULE PorthDeviceLayout -------------------------
(***************************************************************************)
(* include/porth/PorthDeviceLayout.hpp and PorthRegister.hpp: the register *)
(* file every thread and every process that maps the device shares.  Each  *)
(* register is an atomic on a cache line of its own, so a load and a store *)
(* of one register are single steps and stores of different registers do   *)
(* not disturb each other.                                                 *)
(*                                                                         *)
(* Addresses in data_ptr are abstracted to what process_dma() tells apart: *)
(* where a shuttle may be mapped, and which bits corruption has flipped    *)
(* since: one of the alignment bits 0..5 or one of the bits 6..31.         *)
(***************************************************************************)
EXTENDS Integers, FiniteSets

CONSTANTS Shuttle,   \* addresses at which the allocator maps shuttles
          None,      \* no shuttle
          WRAP       \* the 64-bit counters wrap at WRAP, which is 2^64

ASSUME LayoutAssumption == None \notin Shuttle /\ WRAP \in Nat \ {0}

VARIABLE reg

TRIP_CODE == 1   \* 0xDEADBEEF; all that matters is that it is not 0

Bit == {"alignment", "upper"}
Addr == [base : Shuttle \union {None}, flipped : SUBSET Bit]

Null == [base |-> None, flipped |-> {}]
AddrOf(s) == [base |-> s, flipped |-> {}]

(* shuttle_addr & SHUTTLE_ALIGN_MASK is 0: shuttles are page-aligned.      *)
Aligned(a) == "alignment" \notin a.flipped

(* What a ^ (1ULL << k) may be for a bit k of class b: a second flip in a  *)
(* class undoes the first or hits another bit, and the page-aligned        *)
(* addresses of two shuttles may differ in just one upper bit.             *)
FlipBit(a, b) ==
  {[a EXCEPT !.flipped = @ \union {b}]}
    \union {c \in {[a EXCEPT !.flipped = @ \ {b}]} : b \in a.flipped}
    \union {c \in {AddrOf(s) : s \in Shuttle} :
               b = "upper" /\ a.flipped = {} /\ a.base \notin {None, c.base}}

(* PorthRegister::write(): a release store.                                *)
Write(r, v) == reg' = [reg EXCEPT ![r] = v]

(* Faulty variant of Increment: the counter does not wrap.                 *)
IncrementUnwrapped(n) == n + 1

(* An increment of a 64-bit counter.                                       *)
Increment(n) == (n + 1) % WRAP

(* What the registers may hold.                                            *)
Registers ==
  [control : {0, 1}, status : {0, 1, 3}, data_ptr : Addr, counter : 0..(WRAP - 1),
   laser_temp : Nat, gan_voltage : Nat, rf_snr : Int, safety_trip : {0, TRIP_CODE}]

(* shm_open with create: ftruncate leaves every register 0.                *)
ZeroedRegisters ==
  [control |-> 0, status |-> 0, data_ptr |-> Null, counter |-> 0,
   laser_temp |-> 0, gan_voltage |-> 0, rf_snr |-> 0, safety_trip |-> 0]
=============================================================================
