-------------------------- MODULE PorthRingBuffer --------------------------
(***************************************************************************)
(* include/porth/PorthRingBuffer.hpp: the lock-free single-producer        *)
(* single-consumer ring, one action per access of push() and pop() to      *)
(* shared memory.                                                          *)
(*                                                                         *)
(* The two indices are C++ atomics, so the model keeps, for each of them,  *)
(* every value ever stored (its modification order).  A load by the other  *)
(* thread returns any value not older than the last one that thread saw:   *)
(* an acquire load may be stale but never goes back.  A release store      *)
(* carries the number of slot accesses its thread has done; the acquire    *)
(* load that reads it learns that those accesses happen before.  Slots are *)
(* plain memory: accesses of the two threads to one slot, at least one a   *)
(* write, that are not so ordered are a data race, after which a read may  *)
(* return anything.                                                        *)
(***************************************************************************)
EXTENDS Integers, Sequences

CONSTANTS SIZE,     \* template parameter SIZE: slots in the ring
          Desc,     \* the descriptors a producer may push
          Junk,     \* the value of memory nobody has written
          MaxPush   \* bound: successful pushes in a behaviour

ASSUME SizeAssumption == SIZE \in Nat \ {0}
ASSUME BoundAssumption == MaxPush \in Nat
ASSUME JunkAssumption == Junk \notin Desc

(* static_assert((SIZE & (SIZE - 1)) == 0), needed by the mask in Wrap.    *)
ASSUME PowerOfTwo == \E k \in 0..20 : SIZE = 2^k

VARIABLES
  m_buffer,   \* [slot -> descriptor], plain memory
  m_head,     \* stores to m_head in modification order, <<value, view>>
  m_tail,     \* stores to m_tail in modification order, <<value, view>>
  prod,       \* locals of push() and what the producer has observed
  cons,       \* locals of pop() and what the consumer has observed
  lastWrite,  \* [slot -> number of the producer's last write to it, or 0]
  lastRead,   \* [slot -> number of the consumer's last read of it, or 0]
  ub,         \* a data race has happened
  pushed,     \* descriptors whose push() returned true, in order
  popped      \* descriptors whose pop() returned true, in order

vars == <<m_buffer, m_head, m_tail, prod, cons, lastWrite, lastRead, ub,
          pushed, popped>>

Slot == 0..(SIZE - 1)

(* (i) & (SIZE - 1); SIZE is a power of two.                               *)
Wrap(i) == i % SIZE

Newest(m) == m[Len(m)]

(* Faulty variant of Release: memory_order_relaxed on the store.           *)
ReleaseRelaxed(val, done) == [val |-> val, view |-> 0]

(* A release store: the value, and how many slot accesses happen before it *)
Release(val, done) == [val |-> val, view |-> done]

(* Faulty variant of Acquire: memory_order_relaxed on the load.            *)
AcquireRelaxed(view, msg) == view

(* What an acquire load of message msg adds to a thread's view.            *)
Acquire(view, msg) == IF msg.view > view THEN msg.view ELSE view

Init ==
  /\ m_buffer = [s \in Slot |-> Junk]
  /\ m_head = <<Release(0, 0)>>
  /\ m_tail = <<Release(0, 0)>>
  /\ prod = [pc |-> "idle", h |-> 0, t |-> 0, desc |-> Junk,
             seen |-> 1, view |-> 0, writes |-> 0]
  /\ cons = [pc |-> "idle", h |-> 0, t |-> 0, out |-> Junk,
             seen |-> 1, view |-> 0, reads |-> 0]
  /\ lastWrite = [s \in Slot |-> 0]
  /\ lastRead = [s \in Slot |-> 0]
  /\ ub = FALSE
  /\ pushed = <<>>
  /\ popped = <<>>

-----------------------------------------------------------------------------
(* push(), by the producer thread                                          *)

(* The head is stored by this thread only, so the relaxed load returns its *)
(* own last store.                                                         *)
PushLoadHead(d) ==
  /\ prod.pc = "idle"
  /\ Len(pushed) < MaxPush
  /\ prod' = [prod EXCEPT !.pc = "loadTail", !.h = Newest(m_head).val, !.desc = d]
  /\ UNCHANGED <<m_buffer, m_head, m_tail, cons, lastWrite, lastRead, ub,
                 pushed, popped>>

(* Faulty variants of IsFull: no wrap-around; one slot too early.          *)
IsFullNoWrap(h, t) == h + 1 = t
IsFullEarly(h, t) == Wrap(h + 2) = t

IsFull(h, t) == Wrap(h + 1) = t

(* The acquire load of the tail reads its i-th store; push() returns false *)
(* when the next head would hit it.                                        *)
PushLoadTail(i) ==
  /\ prod.pc = "loadTail"
  /\ i \in prod.seen..Len(m_tail)
  /\ prod' = [prod EXCEPT !.pc = IF IsFull(prod.h, m_tail[i].val) THEN "idle" ELSE "write",
                          !.t = m_tail[i].val,
                          !.seen = i,
                          !.view = Acquire(@, m_tail[i])]
  /\ UNCHANGED <<m_buffer, m_head, m_tail, cons, lastWrite, lastRead, ub,
                 pushed, popped>>

PushWrite ==
  /\ prod.pc = "write"
  /\ m_buffer' = [m_buffer EXCEPT ![prod.h] = prod.desc]
  /\ lastWrite' = [lastWrite EXCEPT ![prod.h] = prod.writes + 1]
  /\ ub' = (ub \/ lastRead[prod.h] > prod.view)
  /\ prod' = [prod EXCEPT !.pc = "store", !.writes = @ + 1]
  /\ UNCHANGED <<m_head, m_tail, cons, lastRead, pushed, popped>>

(* Faulty variant of PushStoreHead: the new head is not masked.            *)
PushStoreHeadUnmasked ==
  /\ prod.pc = "store"
  /\ m_head' = Append(m_head, Release(prod.h + 1, prod.writes))
  /\ pushed' = Append(pushed, prod.desc)
  /\ prod' = [prod EXCEPT !.pc = "idle"]
  /\ UNCHANGED <<m_buffer, m_tail, cons, lastWrite, lastRead, ub, popped>>

PushStoreHead ==
  /\ prod.pc = "store"
  /\ m_head' = Append(m_head, Release(Wrap(prod.h + 1), prod.writes))
  /\ pushed' = Append(pushed, prod.desc)
  /\ prod' = [prod EXCEPT !.pc = "idle"]
  /\ UNCHANGED <<m_buffer, m_tail, cons, lastWrite, lastRead, ub, popped>>

-----------------------------------------------------------------------------
(* pop(), by the consumer thread                                           *)

PopLoadTail ==
  /\ cons.pc = "idle"
  /\ cons' = [cons EXCEPT !.pc = "loadHead", !.t = Newest(m_tail).val]
  /\ UNCHANGED <<m_buffer, m_head, m_tail, prod, lastWrite, lastRead, ub,
                 pushed, popped>>

(* Faulty variant of IsEmpty: the last descriptor is never taken.          *)
IsEmptyEarly(h, t) == h = t \/ h = Wrap(t + 1)

IsEmpty(h, t) == h = t

PopLoadHead(i) ==
  /\ cons.pc = "loadHead"
  /\ i \in cons.seen..Len(m_head)
  /\ cons' = [cons EXCEPT !.pc = IF IsEmpty(m_head[i].val, cons.t) THEN "idle" ELSE "read",
                          !.h = m_head[i].val,
                          !.seen = i,
                          !.view = Acquire(@, m_head[i])]
  /\ UNCHANGED <<m_buffer, m_head, m_tail, prod, lastWrite, lastRead, ub,
                 pushed, popped>>

PopRead(v) ==
  /\ cons.pc = "read"
  /\ ub' = (ub \/ lastWrite[cons.t] > cons.view)
  /\ v \in IF ub' THEN Desc \union {Junk} ELSE {m_buffer[cons.t]}
  /\ lastRead' = [lastRead EXCEPT ![cons.t] = cons.reads + 1]
  /\ cons' = [cons EXCEPT !.pc = "store", !.out = v, !.reads = @ + 1]
  /\ UNCHANGED <<m_buffer, m_head, m_tail, prod, lastWrite, pushed, popped>>

PopStoreTail ==
  /\ cons.pc = "store"
  /\ m_tail' = Append(m_tail, Release(Wrap(cons.t + 1), cons.reads))
  /\ popped' = Append(popped, cons.out)
  /\ cons' = [cons EXCEPT !.pc = "idle"]
  /\ UNCHANGED <<m_buffer, m_head, prod, lastWrite, lastRead, ub, pushed>>

-----------------------------------------------------------------------------
Push == \/ \E d \in Desc : PushLoadHead(d)
        \/ \E i \in 1..Len(m_tail) : PushLoadTail(i)
        \/ PushWrite
        \/ PushStoreHead

Pop == \/ PopLoadTail
       \/ \E i \in 1..Len(m_head) : PopLoadHead(i)
       \/ \E v \in Desc \union {Junk} : PopRead(v)
       \/ PopStoreTail

Next == Push \/ Pop

Spec == Init /\ [][Next]_vars

(* A producer that retries and a consumer that polls (producer_task and    *)
(* consumer_task of tests/fuzz_ring_buffer.cpp), on a machine that makes   *)
(* every store visible to the other thread's loads after finite time.      *)
Fairness == /\ WF_vars(Push)
            /\ WF_vars(Pop)
            /\ SF_vars(PushLoadTail(Len(m_tail)))
            /\ SF_vars(PopLoadHead(Len(m_head)))

FairSpec == Spec /\ Fairness

-----------------------------------------------------------------------------
(* Properties                                                              *)

Message == [val : Slot, view : Nat]

(* Every variable has its type; in particular both indices stay below SIZE *)
(* although push() and pop() index m_buffer with them unchecked.           *)
TypeOK ==
  /\ m_buffer \in [Slot -> Desc \union {Junk}]
  /\ m_head \in Seq(Message)
  /\ m_tail \in Seq(Message)
  /\ prod \in [pc : {"idle", "loadTail", "write", "store"}, h : Slot, t : Slot,
               desc : Desc \union {Junk}, seen : Nat, view : Nat, writes : Nat]
  /\ cons \in [pc : {"idle", "loadHead", "read", "store"}, h : Slot, t : Slot,
               out : Desc \union {Junk}, seen : Nat, view : Nat, reads : Nat]
  /\ lastWrite \in [Slot -> Nat]
  /\ lastRead \in [Slot -> Nat]
  /\ ub \in BOOLEAN
  /\ pushed \in Seq(Desc)
  /\ popped \in Seq(Desc \union {Junk})

(* However stale the loads of the other index are, no slot is written and  *)
(* read by the two threads without a happens-before edge: the release      *)
(* store in push() covers the descriptor, the one in pop() the slot reuse. *)
NoDataRace == ~ub

(* The ring implements a FIFO of SIZE - 1 descriptors: push() returning    *)
(* true is a Send, pop() returning true a Receive, nothing else matters.   *)
Fifo == INSTANCE BoundedFifo
          WITH Elem <- Desc, Cap <- SIZE - 1, sent <- pushed, rcvd <- popped
ImplementsFifo == Fifo!Spec

(* push() returns false only if every slot but one is taken as far as the  *)
(* producer has seen the tail move, and pop() returns false only if the    *)
(* consumer has taken everything it has seen published.                    *)
RefusalsJustified ==
  [][/\ prod.pc = "loadTail" /\ prod'.pc = "idle"
           => Len(pushed) - (prod'.seen - 1) = SIZE - 1
     /\ cons.pc = "loadHead" /\ cons'.pc = "idle"
           => Len(popped) = cons'.seen - 1]_vars

(* A retrying producer and a polling consumer get every descriptor across: *)
(* neither side waits for the other for ever at full or at empty.          *)
AllTransferred == <>(Len(popped) = MaxPush)

-----------------------------------------------------------------------------
(* The inductive invariant                                                 *)

(* How often the head and the tail have been stored.                       *)
Heads == Len(m_head) - 1
Tails == Len(m_tail) - 1

Counts ==
  /\ Len(m_head) >= 1 /\ Len(m_tail) >= 1
  /\ Len(pushed) = Heads
  /\ Len(popped) = Tails
  /\ prod.writes = IF prod.pc = "store" THEN Heads + 1 ELSE Heads
  /\ cons.reads = IF cons.pc = "store" THEN Tails + 1 ELSE Tails

(* The k-th store of an index holds k modulo SIZE and publishes k accesses *)
IndexHistory ==
  /\ \A i \in 1..Len(m_head) : m_head[i].val = Wrap(i - 1) /\ m_head[i].view = i - 1
  /\ \A i \in 1..Len(m_tail) : m_tail[i].val = Wrap(i - 1) /\ m_tail[i].view = i - 1

Views ==
  /\ prod.seen \in 1..Len(m_tail) /\ prod.view = prod.seen - 1
  /\ cons.seen \in 1..Len(m_head) /\ cons.view = cons.seen - 1

(* The consumer never passes what it has seen published, the producer      *)
(* never laps what it has seen released.                                   *)
Occupancy ==
  /\ Tails <= cons.seen - 1
  /\ cons.pc \in {"read", "store"} => Tails < cons.seen - 1
  /\ Heads - (prod.seen - 1) <= SIZE - 1
  /\ prod.pc \in {"write", "store"} => Heads - (prod.seen - 1) < SIZE - 1

Locals ==
  /\ prod.pc # "idle" => prod.h = Wrap(Heads) /\ prod.desc \in Desc
  /\ cons.pc # "idle" => cons.t = Wrap(Tails)
  /\ cons.pc = "store" => cons.out = pushed[Tails + 1]

(* What has been written and not yet released is still in its slot.        *)
Contents ==
  \A n \in (Tails + 1)..prod.writes :
    /\ lastWrite[Wrap(n - 1)] = n
    /\ m_buffer[Wrap(n - 1)] = IF n <= Heads THEN pushed[n] ELSE prod.desc

Reads ==
  \A s \in Slot :
    lastRead[s] # 0 => lastRead[s] <= cons.reads /\ Wrap(lastRead[s] - 1) = s

InOrder == \A n \in 1..Len(popped) : popped[n] = pushed[n]

(* The invariant that carries the proofs, checked here on the instance.    *)
(* It says where push() and pop() are relative to each other at every      *)
(* access, which neither of them knows.                                    *)
IndInv ==
  /\ TypeOK
  /\ Counts
  /\ IndexHistory
  /\ Views
  /\ Occupancy
  /\ Locals
  /\ Contents
  /\ Reads
  /\ InOrder
  /\ ub = FALSE
=============================================================================
