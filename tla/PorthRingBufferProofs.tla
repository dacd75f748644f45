----------------------- MODULE PorthRingBufferProofs -----------------------
(***************************************************************************)
(* Proofs about PorthRingBuffer for every ring size, every descriptor set  *)
(* and every number of pushes.  The facts about the wrap-around are proved *)
(* first; then IndInv is shown inductive, one step per access of push()    *)
(* and pop(); the theorems follow from it.                                 *)
(***************************************************************************)
EXTENDS PorthRingBuffer, TLAPS

-----------------------------------------------------------------------------
(* Division facts                                                          *)

(* A remainder below the divisor is unique.                                *)
LEMMA ModUnique ==
  ASSUME NEW S \in Nat \ {0}, NEW q \in Int, NEW r \in 0..(S - 1)
  PROVE  (q * S + r) % S = r
  OBVIOUS

(* Every natural number is quotient times divisor plus remainder.          *)
LEMMA DivMod ==
  ASSUME NEW S \in Nat \ {0}, NEW a \in Nat
  PROVE  /\ a \div S \in Int
         /\ a % S \in 0..(S - 1)
         /\ a = (a \div S) * S + (a % S)
  OBVIOUS

(* Wrap returns a slot.                                                    *)
LEMMA WrapInSlot == ASSUME NEW a \in Nat PROVE Wrap(a) \in Slot
  BY SizeAssumption, DivMod DEF Wrap, Slot

(* One lap further is the same slot.                                       *)
LEMMA WrapShift == ASSUME NEW a \in Nat PROVE Wrap(a + SIZE) = Wrap(a)
  <1> DEFINE q == a \div SIZE
             r == a % SIZE
  <1>1. q \in Int /\ r \in 0..(SIZE - 1) /\ a = q * SIZE + r
    BY SizeAssumption, DivMod
  <1> HIDE DEF q, r
  <1>2. a + SIZE = (q + 1) * SIZE + r
    BY <1>1, SizeAssumption
  <1>3. ((q + 1) * SIZE + r) % SIZE = r
    BY <1>1, SizeAssumption, ModUnique
  <1> QED BY <1>2, <1>3 DEF r, Wrap

(* Wrapping the index before or after the increment makes no difference:   *)
(* push() and pop() increment an index that is already wrapped.            *)
LEMMA WrapSucc == ASSUME NEW a \in Nat PROVE Wrap(Wrap(a) + 1) = Wrap(a + 1)
  <1> DEFINE S == SIZE
             q == a \div S
             r == a % S
  <1>0. S \in Nat \ {0}
    BY SizeAssumption
  <1> HIDE DEF S
  <1>1. q \in Int /\ r \in 0..(S - 1) /\ a = q * S + r
    BY <1>0, DivMod
  <1> HIDE DEF q, r
  <1>2. CASE r + 1 < S
    <2>1. (q * S + (r + 1)) % S = r + 1
      BY <1>0, <1>1, <1>2, ModUnique
    <2>2. (0 * S + (r + 1)) % S = r + 1
      BY <1>0, <1>1, <1>2, ModUnique
    <2>3. a + 1 = q * S + (r + 1)
      BY <1>0, <1>1
    <2>4. (r + 1) % S = r + 1
      BY <1>0, <1>1, <2>2
    <2> QED BY <2>1, <2>3, <2>4 DEF r, S, Wrap
  <1>3. CASE r + 1 = S
    <2>1. ((q + 1) * S + 0) % S = 0
      BY <1>0, <1>1, ModUnique
    <2>2. (1 * S + 0) % S = 0
      BY <1>0, ModUnique
    <2>3. a + 1 = (q + 1) * S + 0
      BY <1>0, <1>1, <1>3
    <2>4. (r + 1) % S = 0
      BY <1>0, <1>1, <1>3, <2>2
    <2>5. (a + 1) % S = 0
      BY <2>1, <2>3
    <2> QED BY <2>4, <2>5 DEF r, S, Wrap
  <1> QED BY <1>0, <1>1, <1>2, <1>3

(* Two different counts that share a slot are at least one lap apart.      *)
LEMMA WrapLap ==
  ASSUME NEW a \in Nat, NEW b \in Nat, a < b, Wrap(a) = Wrap(b)
  PROVE  a + SIZE <= b
  <1> DEFINE S == SIZE
             q == a \div S
             p == b \div S
             r == a % S
  <1>0. S \in Nat \ {0}
    BY SizeAssumption
  <1>a. a % S = b % S
    BY DEF Wrap
  <1> HIDE DEF S
  <1>1. /\ q \in Int /\ p \in Int /\ r \in 0..(S - 1)
        /\ a = q * S + r /\ b = p * S + r
    BY <1>0, <1>a, DivMod
  <1> HIDE DEF q, p, r
  <1>2. p >= q + 1
    <2> SUFFICES ASSUME p <= q PROVE FALSE
      BY <1>1
    <2>1. (q - p) * S >= 0
      BY <1>0, <1>1
    <2> QED BY <1>0, <1>1, <2>1
  <1>3. (p - (q + 1)) * S >= 0
    BY <1>0, <1>1, <1>2
  <1>4. p * S = (p - (q + 1)) * S + q * S + S
    BY <1>0, <1>1
  <1> QED BY <1>0, <1>1, <1>3, <1>4 DEF S

(* The test of push() on wrapped indices means: all but one slot taken.    *)
LEMMA FullMeansFull ==
  ASSUME NEW h \in Nat, NEW t \in Nat, t <= h, h - t <= SIZE - 1
  PROVE  IsFull(Wrap(h), Wrap(t)) <=> h - t = SIZE - 1
  <1>1. IsFull(Wrap(h), Wrap(t)) <=> Wrap(h + 1) = Wrap(t)
    BY WrapSucc DEF IsFull
  <1>2. ASSUME h - t = SIZE - 1 PROVE Wrap(h + 1) = Wrap(t)
    <2>1. h + 1 = t + SIZE
      BY <1>2, SizeAssumption
    <2> QED BY <2>1, WrapShift
  <1>3. ASSUME Wrap(h + 1) = Wrap(t) PROVE h - t = SIZE - 1
    <2>1. t + SIZE <= h + 1
      BY <1>3, WrapLap
    <2> QED BY <2>1, SizeAssumption
  <1> QED BY <1>1, <1>2, <1>3

(* The test of pop() on wrapped indices means: nothing published is left.  *)
LEMMA EmptyMeansEmpty ==
  ASSUME NEW h \in Nat, NEW t \in Nat, t <= h, h - t <= SIZE - 1
  PROVE  IsEmpty(Wrap(h), Wrap(t)) <=> h = t
  <1>1. ASSUME Wrap(h) = Wrap(t), h # t PROVE FALSE
    <2>1. t + SIZE <= h
      BY <1>1, WrapLap
    <2> QED BY <2>1, SizeAssumption
  <1> QED BY <1>1 DEF IsEmpty

-----------------------------------------------------------------------------
(* IndInv is inductive                                                     *)

(* The constructor leaves both indices at 0 and all slots unwritten.       *)
LEMMA InitInv == Init => IndInv
  <1> SUFFICES ASSUME Init PROVE IndInv
    OBVIOUS
  <1> USE DEF Init, Release
  <1>0. 0 \in Slot /\ Wrap(0) = 0
    <2>1. (0 * SIZE + 0) % SIZE = 0
      BY SizeAssumption, ModUnique
    <2> QED BY <2>1, SizeAssumption DEF Slot, Wrap
  <1>1. TypeOK
    BY <1>0 DEF TypeOK, Message
  <1>2. Counts
    BY DEF Counts, Heads, Tails
  <1>3. IndexHistory
    BY <1>0 DEF IndexHistory
  <1>4. Views /\ Occupancy
    BY SizeAssumption DEF Views, Occupancy, Heads, Tails
  <1>5. Locals
    BY DEF Locals
  <1>6. Contents
    BY DEF Contents, Tails
  <1>7. Reads /\ InOrder
    BY DEF Reads, InOrder
  <1> QED BY <1>1, <1>2, <1>3, <1>4, <1>5, <1>6, <1>7 DEF IndInv

(* What appending to a sequence gives.                                     *)
LEMMA AppendFacts ==
  ASSUME NEW T, NEW s \in Seq(T), NEW e \in T
  PROVE  /\ Append(s, e) \in Seq(T)
         /\ Len(Append(s, e)) = Len(s) + 1
         /\ \A i \in 1..Len(s) : Append(s, e)[i] = s[i]
         /\ Append(s, e)[Len(s) + 1] = e
  OBVIOUS

(* The types of the counters, field by field.                              *)
LEMMA Fields ==
  ASSUME TypeOK
  PROVE  /\ Len(m_head) \in Nat /\ Len(m_tail) \in Nat
         /\ Len(pushed) \in Nat /\ Len(popped) \in Nat
         /\ prod.seen \in Nat /\ prod.view \in Nat /\ prod.writes \in Nat
         /\ cons.seen \in Nat /\ cons.view \in Nat /\ cons.reads \in Nat
         /\ prod.h \in Slot /\ cons.t \in Slot
         /\ \A s \in Slot : lastRead[s] \in Nat /\ lastWrite[s] \in Nat
  BY SMTT(30) DEF TypeOK

(* The counters of the two threads are naturals in this order: what the    *)
(* producer has seen released, what is released, what the consumer has     *)
(* seen published, what is published; they span less than the ring.        *)
LEMMA Order ==
  ASSUME IndInv
  PROVE  /\ Heads \in Nat /\ Tails \in Nat
         /\ prod.seen - 1 \in Nat /\ prod.seen - 1 <= Tails
         /\ cons.seen - 1 \in Nat /\ cons.seen - 1 <= Heads
         /\ Tails <= cons.seen - 1 /\ Tails <= Heads
         /\ Heads - (prod.seen - 1) <= SIZE - 1
         /\ Heads - Tails <= SIZE - 1
         /\ SIZE \in Nat /\ SIZE >= 1
         /\ cons.reads <= Heads
  <1>0. TypeOK /\ Counts /\ Views /\ Occupancy
    BY DEF IndInv
  <1>1. SIZE \in Nat /\ SIZE >= 1
    BY SizeAssumption
  <1>2. Heads \in Nat /\ Tails \in Nat
    BY <1>0, Fields DEF Counts, Heads, Tails
  <1>3. prod.seen - 1 \in Nat /\ prod.seen - 1 <= Tails
    BY <1>0, Fields DEF Views, Tails
  <1>4. cons.seen - 1 \in Nat /\ cons.seen - 1 <= Heads
    BY <1>0, Fields DEF Views, Heads
  <1>5. Tails <= cons.seen - 1 /\ Tails <= Heads
    BY <1>0, <1>2, <1>4 DEF Occupancy
  <1>6. Heads - (prod.seen - 1) <= SIZE - 1 /\ Heads - Tails <= SIZE - 1
    BY <1>0, <1>1, <1>2, <1>3 DEF Occupancy
  <1>7. cons.reads <= Heads
    <2>1. cons.pc = "store" => Tails < cons.seen - 1 /\ cons.reads = Tails + 1
      BY <1>0 DEF Occupancy, Counts
    <2>2. cons.pc # "store" => cons.reads = Tails
      BY <1>0 DEF Counts
    <2> QED BY <2>1, <2>2, <1>2, <1>4, <1>5
  <1> QED BY <1>1, <1>2, <1>3, <1>4, <1>5, <1>6, <1>7

(* Loading its own index changes nothing the other thread can see.         *)
LEMMA PushLoadHeadInv ==
  ASSUME IndInv, NEW d \in Desc, PushLoadHead(d) PROVE IndInv'
  <1>t. /\ TypeOK /\ Counts /\ IndexHistory /\ Views /\ Occupancy /\ Locals
        /\ Contents /\ Reads /\ InOrder /\ ub = FALSE
    BY DEF IndInv
  <1>0. Newest(m_head).val = Wrap(Heads)
    <2>1. Len(m_head) \in 1..Len(m_head)
      BY <1>t, Fields DEF Counts
    <2> QED BY <1>t, <2>1 DEF IndexHistory, Newest, Heads
  <1>u. UNCHANGED <<m_buffer, m_head, m_tail, cons, lastWrite, lastRead, ub,
                    pushed, popped>>
    BY DEF PushLoadHead
  <1>p. /\ prod.pc = "idle" /\ prod'.pc = "loadTail"
        /\ prod'.h = Wrap(Heads) /\ prod'.desc = d
        /\ prod'.seen = prod.seen /\ prod'.view = prod.view
        /\ prod'.writes = prod.writes
    BY <1>0, <1>t DEF PushLoadHead, TypeOK
  <1>e. Heads' = Heads /\ Tails' = Tails
    BY <1>u DEF Heads, Tails
  <1>1. TypeOK'
    <2>1. Wrap(Heads) \in Slot
      BY Order, WrapInSlot
    <2>2. prod' = [prod EXCEPT !.pc = "loadTail", !.h = Wrap(Heads), !.desc = d]
      BY <1>0 DEF PushLoadHead
    <2> QED BY <1>t, <1>u, <2>1, <2>2 DEF TypeOK
  <1>2. Counts'
    BY <1>t, <1>u, <1>p, <1>e DEF Counts
  <1>3. IndexHistory'
    BY <1>t, <1>u DEF IndexHistory
  <1>4. Views'
    BY <1>t, <1>u, <1>p DEF Views
  <1>5. Occupancy'
    BY <1>t, <1>u, <1>p, <1>e DEF Occupancy
  <1>6. Locals'
    BY <1>t, <1>u, <1>p, <1>e DEF Locals
  <1>7. Contents'
    BY <1>t, <1>u, <1>p, <1>e, Order, SMTT(30) DEF Contents, Counts
  <1>8. Reads' /\ InOrder' /\ ub' = FALSE
    BY <1>t, <1>u DEF Reads, InOrder
  <1> QED BY <1>1, <1>2, <1>3, <1>4, <1>5, <1>6, <1>7, <1>8 DEF IndInv

(* What a load of the tail tells push(): how many slots are released, and  *)
(* the test on wrapped indices decides as the one on counts would.         *)
LEMMA PushLoadTailFacts ==
  ASSUME IndInv, NEW i \in 1..Len(m_tail), PushLoadTail(i)
  PROVE  /\ i \in Nat /\ i - 1 \in Nat
         /\ m_tail[i].val = Wrap(i - 1)
         /\ Acquire(prod.view, m_tail[i]) = i - 1
         /\ prod.pc = "loadTail"
         /\ prod'.pc = IF IsFull(prod.h, m_tail[i].val) THEN "idle" ELSE "write"
         /\ prod'.h = prod.h /\ prod'.desc = prod.desc
         /\ prod'.seen = i /\ prod'.view = i - 1
         /\ prod'.writes = prod.writes
         /\ i - 1 <= Heads /\ Heads - (i - 1) <= SIZE - 1
         /\ IsFull(prod.h, m_tail[i].val) <=> Heads - (i - 1) = SIZE - 1
  <1>t. /\ TypeOK /\ Counts /\ IndexHistory /\ Views /\ Occupancy /\ Locals
        /\ Contents /\ Reads /\ InOrder /\ ub = FALSE
    BY DEF IndInv
  <1>i. i \in Nat /\ i - 1 \in Nat /\ i >= prod.seen /\ i - 1 <= Tails
    <2>1. prod.seen \in Nat /\ Len(m_tail) \in Nat /\ i \in prod.seen..Len(m_tail)
      BY <1>t, Fields DEF PushLoadTail
    <2> QED BY <2>1 DEF Tails
  <1>m. m_tail[i].val = Wrap(i - 1) /\ m_tail[i].view = i - 1
    BY <1>t DEF IndexHistory
  <1>a. Acquire(prod.view, m_tail[i]) = i - 1
    <2>1. prod.view = prod.seen - 1
      BY <1>t DEF Views
    <2>2. prod.seen \in Nat
      BY <1>t, Fields
    <2> QED BY <2>1, <2>2, <1>i, <1>m DEF Acquire
  <1>p. /\ prod.pc = "loadTail"
        /\ prod'.pc = IF IsFull(prod.h, m_tail[i].val) THEN "idle" ELSE "write"
        /\ prod'.h = prod.h /\ prod'.desc = prod.desc
        /\ prod'.seen = i /\ prod'.view = i - 1
        /\ prod'.writes = prod.writes
    BY <1>a, <1>t DEF PushLoadTail, TypeOK
  <1>o. i - 1 <= Heads /\ Heads - (i - 1) <= SIZE - 1
    <2>1. prod.seen \in Nat
      BY <1>t, Fields
    <2> QED BY <2>1, <1>i, Order, SMTT(30)
  <1>b. IsFull(prod.h, m_tail[i].val) <=> Heads - (i - 1) = SIZE - 1
    <2>1. prod.h = Wrap(Heads)
      BY <1>t, <1>p DEF Locals
    <2> QED BY <1>i, <1>m, <1>o, <2>1, Order, FullMeansFull
  <1> QED BY <1>i, <1>m, <1>a, <1>p, <1>o, <1>b

(* A tail load that lets push() continue has seen enough slots released.   *)
LEMMA PushLoadTailInv ==
  ASSUME IndInv, NEW i \in 1..Len(m_tail), PushLoadTail(i) PROVE IndInv'
  <1>t. /\ TypeOK /\ Counts /\ IndexHistory /\ Views /\ Occupancy /\ Locals
        /\ Contents /\ Reads /\ InOrder /\ ub = FALSE
    BY DEF IndInv
  <1>u. UNCHANGED <<m_buffer, m_head, m_tail, cons, lastWrite, lastRead, ub,
                    pushed, popped>>
    BY DEF PushLoadTail
  <1>e. Heads' = Heads /\ Tails' = Tails
    BY <1>u DEF Heads, Tails
  <1>1. TypeOK'
    <2>1. m_tail[i].val \in Slot
      BY PushLoadTailFacts, WrapInSlot
    <2> QED BY PushLoadTailFacts, <1>t, <2>1 DEF TypeOK, PushLoadTail
  <1>2. Counts'
    BY <1>t, <1>u, PushLoadTailFacts, <1>e DEF Counts
  <1>3. IndexHistory'
    BY <1>t, <1>u DEF IndexHistory
  <1>4. Views'
    BY <1>t, <1>u, PushLoadTailFacts DEF Views
  <1>5. Occupancy'
    <2>1. ASSUME prod'.pc = "write" PROVE Heads - (i - 1) < SIZE - 1
      <3>1. Heads - (i - 1) # SIZE - 1
        BY <2>1, PushLoadTailFacts
      <3>2. i - 1 \in Nat /\ Heads - (i - 1) <= SIZE - 1
        BY PushLoadTailFacts
      <3> QED BY <3>1, <3>2, Order
    <2>2. prod'.pc # "store"
      BY PushLoadTailFacts
    <2> QED BY <2>1, <2>2, <1>t, <1>u, PushLoadTailFacts, <1>e DEF Occupancy
  <1>6. Locals'
    BY <1>t, <1>u, PushLoadTailFacts, <1>e DEF Locals
  <1>7. Contents'
    BY <1>t, <1>u, PushLoadTailFacts, <1>e DEF Contents
  <1>8. Reads' /\ InOrder' /\ ub' = FALSE
    BY <1>t, <1>u DEF Reads, InOrder
  <1> QED BY <1>1, <1>2, <1>3, <1>4, <1>5, <1>6, <1>7, <1>8 DEF IndInv

(* The slot push() writes was last read a full lap ago, and the producer   *)
(* has seen that read released; it holds nothing that is still wanted.     *)
LEMMA PushWriteInv == ASSUME IndInv, PushWrite PROVE IndInv'
  <1>t. /\ TypeOK /\ Counts /\ IndexHistory /\ Views /\ Occupancy /\ Locals
        /\ Contents /\ Reads /\ InOrder /\ ub = FALSE
    BY DEF IndInv
  <1>u. UNCHANGED <<m_head, m_tail, cons, lastRead, pushed, popped>>
    BY DEF PushWrite
  <1>p. /\ prod.pc = "write" /\ prod'.pc = "store"
        /\ prod'.h = prod.h /\ prod'.desc = prod.desc
        /\ prod'.seen = prod.seen /\ prod'.view = prod.view
        /\ prod'.writes = prod.writes + 1
    BY <1>t DEF PushWrite, TypeOK
  <1>e. Heads' = Heads /\ Tails' = Tails
    BY <1>u DEF Heads, Tails
  <1>0. /\ prod.h = Wrap(Heads) /\ prod.h \in Slot /\ prod.desc \in Desc
        /\ prod.writes = Heads
        /\ Heads - (prod.seen - 1) < SIZE - 1
        /\ prod.view = prod.seen - 1
    BY <1>t, <1>p, Fields DEF Locals, Counts, Occupancy, Views
  <1>b. lastRead[prod.h] <= prod.view
    <2> DEFINE r == lastRead[prod.h]
    <2>1. r \in Nat /\ prod.view \in Nat
      BY <1>0, <1>t, Fields
    <2>2. r # 0 => r <= cons.reads /\ Wrap(r - 1) = Wrap(Heads)
      BY <1>0, <1>t DEF Reads
    <2> HIDE DEF r
    <2>3. CASE r = 0
      BY <2>1, <2>3 DEF r
    <2>4. CASE r # 0
      <3>1. r - 1 \in Nat /\ r - 1 < Heads
        BY <2>1, <2>2, <2>4, <1>t, Order, Fields
      <3>2. (r - 1) + SIZE <= Heads
        BY <2>2, <2>4, <3>1, Order, WrapLap
      <3> QED BY <3>2, <1>0, <2>1, Order DEF r
    <2> QED BY <2>3, <2>4
  <1>c. ub' = FALSE
    <2>1. ~(lastRead[prod.h] > prod.view)
      BY <1>b, <1>0, <1>t, Fields
    <2>2. ub' = (ub \/ lastRead[prod.h] > prod.view)
      BY DEF PushWrite
    <2> QED BY <2>1, <2>2, <1>t, Zenon
  <1>1. TypeOK'
    <2>1. m_buffer' \in [Slot -> Desc \union {Junk}]
      BY <1>0, <1>t DEF TypeOK, PushWrite
    <2> DEFINE w == prod.writes + 1
    <2>2. w \in Nat
      BY <1>t, Fields
    <2>3. /\ lastWrite' = [lastWrite EXCEPT ![prod.h] = w]
          /\ prod' = [prod EXCEPT !.pc = "store", !.writes = w]
      BY DEF PushWrite
    <2> HIDE DEF w
    <2> QED BY <2>1, <2>2, <2>3, <1>0, <1>c, <1>t, <1>u DEF TypeOK
  <1>2. Counts'
    BY <1>t, <1>u, <1>p, <1>e, <1>0, Order DEF Counts
  <1>3. IndexHistory'
    BY <1>t, <1>u DEF IndexHistory
  <1>4. Views'
    BY <1>t, <1>u, <1>p DEF Views
  <1>5. Occupancy'
    BY <1>t, <1>u, <1>p, <1>e, <1>0 DEF Occupancy
  <1>6. Locals'
    BY <1>t, <1>u, <1>p, <1>e DEF Locals
  <1>7. Contents'
    <2> SUFFICES ASSUME NEW n \in (Tails + 1)..(Heads + 1)
                 PROVE  /\ lastWrite'[Wrap(n - 1)] = n
                        /\ m_buffer'[Wrap(n - 1)]
                             = IF n <= Heads THEN pushed[n] ELSE prod.desc
      BY <1>e, <1>p, <1>u, <1>0 DEF Contents
    <2>1. n - 1 \in Nat /\ n \in Nat /\ Wrap(n - 1) \in Slot
      BY Order, WrapInSlot
    <2>2. /\ m_buffer' = [m_buffer EXCEPT ![prod.h] = prod.desc]
          /\ lastWrite' = [lastWrite EXCEPT ![prod.h] = Heads + 1]
          /\ m_buffer \in [Slot -> Desc \union {Junk}]
          /\ lastWrite \in [Slot -> Nat]
      BY <1>t, <1>0 DEF PushWrite, TypeOK
    <2>3. CASE n = Heads + 1
      BY <2>1, <2>2, <2>3, <1>0, Order
    <2>4. CASE n <= Heads
      <3>1. Wrap(n - 1) # prod.h
        <4> SUFFICES ASSUME Wrap(n - 1) = Wrap(Heads) PROVE FALSE
          BY <1>0
        <4>1. (n - 1) + SIZE <= Heads
          BY <2>1, <2>4, Order, WrapLap
        <4> QED BY <4>1, <2>1, Order
      <3>2. /\ lastWrite[Wrap(n - 1)] = n
            /\ m_buffer[Wrap(n - 1)] = pushed[n]
        BY <2>1, <2>4, <1>0, <1>t, Order DEF Contents
      <3> QED BY <2>1, <2>2, <2>4, <3>1, <3>2
    <2> QED BY <2>1, <2>3, <2>4, Order
  <1>8. Reads' /\ InOrder'
    BY <1>t, <1>u DEF Reads, InOrder
  <1> QED BY <1>1, <1>2, <1>3, <1>4, <1>5, <1>6, <1>7, <1>8, <1>c DEF IndInv

(* The release store publishes exactly the write that precedes it.         *)
LEMMA PushStoreHeadInv == ASSUME IndInv, PushStoreHead PROVE IndInv'
  <1>t. /\ TypeOK /\ Counts /\ IndexHistory /\ Views /\ Occupancy /\ Locals
        /\ Contents /\ Reads /\ InOrder /\ ub = FALSE
    BY DEF IndInv
  <1>u. UNCHANGED <<m_buffer, m_tail, cons, lastWrite, lastRead, ub, popped>>
    BY DEF PushStoreHead
  <1>p. /\ prod.pc = "store" /\ prod'.pc = "idle"
        /\ prod'.h = prod.h /\ prod'.desc = prod.desc
        /\ prod'.seen = prod.seen /\ prod'.view = prod.view
        /\ prod'.writes = prod.writes
    BY <1>t DEF PushStoreHead, TypeOK
  <1>0. /\ prod.h = Wrap(Heads) /\ prod.desc \in Desc
        /\ prod.writes = Heads + 1
        /\ Len(pushed) = Heads /\ Len(m_head) = Heads + 1
        /\ Heads - (prod.seen - 1) < SIZE - 1
    BY <1>t, <1>p, Fields DEF Locals, Counts, Occupancy, Heads
  <1> DEFINE msg == [val |-> Wrap(Heads + 1), view |-> Heads + 1]
  <1>a. m_head' = Append(m_head, msg)
    <2>1. Wrap(prod.h + 1) = Wrap(Heads + 1)
      BY <1>0, Order, WrapSucc
    <2>2. m_head' = Append(m_head, Release(Wrap(prod.h + 1), prod.writes))
      BY DEF PushStoreHead
    <2> QED BY <2>1, <2>2, <1>0 DEF Release
  <1>b. msg \in Message
    <2>1. Wrap(Heads + 1) \in Slot
      BY Order, WrapInSlot
    <2> QED BY <2>1, Order DEF Message
  <1> HIDE DEF msg
  <1>c. /\ Len(m_head') = Heads + 2
        /\ \A i \in 1..(Heads + 1) : m_head'[i] = m_head[i]
        /\ m_head'[Heads + 2] = msg
        /\ m_head' \in Seq(Message)
    <2>1. m_head \in Seq(Message)
      BY <1>t DEF TypeOK
    <2>2. (Heads + 1) + 1 = Heads + 2
      BY Order
    <2> QED BY <1>a, <1>b, <1>0, <2>1, <2>2, AppendFacts
  <1>d. /\ pushed' \in Seq(Desc) /\ Len(pushed') = Heads + 1
        /\ \A i \in 1..Heads : pushed'[i] = pushed[i]
        /\ pushed'[Heads + 1] = prod.desc
    <2>1. pushed \in Seq(Desc) /\ pushed' = Append(pushed, prod.desc)
      BY <1>t DEF TypeOK, PushStoreHead
    <2> QED BY <1>0, <2>1, AppendFacts
  <1>e. Heads' = Heads + 1 /\ Tails' = Tails
    BY <1>c, <1>u, Order DEF Heads, Tails
  <1>1. TypeOK'
    BY <1>c, <1>d, <1>t DEF TypeOK, PushStoreHead
  <1>2. Counts'
    BY <1>c, <1>d, <1>e, <1>u, <1>p, <1>0, <1>t, Order DEF Counts
  <1>3. IndexHistory'
    <2>1. ASSUME NEW i \in 1..Len(m_head')
          PROVE  m_head'[i].val = Wrap(i - 1) /\ m_head'[i].view = i - 1
      <3>1. CASE i = Heads + 2
        <4>1. i - 1 = Heads + 1
          BY <3>1, Order
        <4> QED BY <3>1, <4>1, <1>c DEF msg
      <3>2. CASE i \in 1..(Heads + 1)
        BY <3>2, <1>c, <1>0, <1>t DEF IndexHistory
      <3> QED BY <3>1, <3>2, <1>c, Order
    <2> QED BY <2>1, <1>u, <1>t DEF IndexHistory
  <1>4. Views'
    <2>1. Len(m_head') = Len(m_head) + 1
      BY <1>c, <1>0, Order
    <2> QED BY <2>1, <1>t, <1>u, <1>p, Fields DEF Views
  <1>5. Occupancy'
    <2>1. (Heads + 1) - (prod.seen - 1) <= SIZE - 1
      BY <1>0, Order
    <2> QED BY <2>1, <1>t, <1>u, <1>p, <1>e DEF Occupancy
  <1>6. Locals'
    <2>1. ASSUME cons.pc = "store" PROVE Tails + 1 \in 1..Heads
      <3>1. Tails < cons.seen - 1
        BY <2>1, <1>t DEF Occupancy
      <3> QED BY <3>1, Order
    <2> QED BY <2>1, <1>t, <1>u, <1>p, <1>d, <1>e DEF Locals
  <1>7. Contents'
    <2>1. ASSUME NEW n \in (Tails + 1)..(Heads + 1)
          PROVE  /\ lastWrite[Wrap(n - 1)] = n
                 /\ m_buffer[Wrap(n - 1)] = pushed'[n]
      <3>1. /\ lastWrite[Wrap(n - 1)] = n
            /\ m_buffer[Wrap(n - 1)] = IF n <= Heads THEN pushed[n] ELSE prod.desc
        BY <1>0, <1>t DEF Contents
      <3>2. CASE n = Heads + 1
        BY <3>1, <3>2, <1>d, Order
      <3>3. CASE n \in 1..Heads
        BY <3>1, <3>3, <1>d, Order, SMTT(30)
      <3> QED BY <3>2, <3>3, Order
    <2> QED BY <2>1, <1>u, <1>p, <1>0, <1>e, Order DEF Contents
  <1>8. Reads' /\ ub' = FALSE
    BY <1>t, <1>u DEF Reads
  <1>9. InOrder'
    <2>1. Len(popped) \in Nat /\ Len(popped) <= Heads
      BY <1>t, Order DEF Counts
    <2> QED BY <2>1, <1>d, <1>u, <1>t, Order DEF InOrder
  <1> QED BY <1>1, <1>2, <1>3, <1>4, <1>5, <1>6, <1>7, <1>8, <1>9 DEF IndInv

(* Loading its own index changes nothing the other thread can see.         *)
LEMMA PopLoadTailInv == ASSUME IndInv, PopLoadTail PROVE IndInv'
  <1>t. /\ TypeOK /\ Counts /\ IndexHistory /\ Views /\ Occupancy /\ Locals
        /\ Contents /\ Reads /\ InOrder /\ ub = FALSE
    BY DEF IndInv
  <1>0. Newest(m_tail).val = Wrap(Tails)
    <2>1. Len(m_tail) \in 1..Len(m_tail)
      BY <1>t, Fields DEF Counts
    <2> QED BY <1>t, <2>1 DEF IndexHistory, Newest, Tails
  <1>u. UNCHANGED <<m_buffer, m_head, m_tail, prod, lastWrite, lastRead, ub,
                    pushed, popped>>
    BY DEF PopLoadTail
  <1>p. /\ cons.pc = "idle" /\ cons'.pc = "loadHead"
        /\ cons'.t = Wrap(Tails) /\ cons'.out = cons.out
        /\ cons'.seen = cons.seen /\ cons'.view = cons.view
        /\ cons'.reads = cons.reads
    BY <1>0, <1>t DEF PopLoadTail, TypeOK
  <1>e. Heads' = Heads /\ Tails' = Tails
    BY <1>u DEF Heads, Tails
  <1>1. TypeOK'
    <2>1. Wrap(Tails) \in Slot
      BY Order, WrapInSlot
    <2>2. cons' = [cons EXCEPT !.pc = "loadHead", !.t = Wrap(Tails)]
      BY <1>0 DEF PopLoadTail
    <2> QED BY <1>t, <1>u, <2>1, <2>2 DEF TypeOK
  <1>2. Counts'
    BY <1>t, <1>u, <1>p, <1>e DEF Counts
  <1>3. IndexHistory'
    BY <1>t, <1>u DEF IndexHistory
  <1>4. Views'
    BY <1>t, <1>u, <1>p DEF Views
  <1>5. Occupancy'
    BY <1>t, <1>u, <1>p, <1>e DEF Occupancy
  <1>6. Locals'
    BY <1>t, <1>u, <1>p, <1>e DEF Locals
  <1>7. Contents'
    BY <1>t, <1>u, <1>e DEF Contents
  <1>8. Reads' /\ InOrder' /\ ub' = FALSE
    BY <1>t, <1>u, <1>p DEF Reads, InOrder
  <1> QED BY <1>1, <1>2, <1>3, <1>4, <1>5, <1>6, <1>7, <1>8 DEF IndInv

(* What a load of the head tells pop(): how many descriptors are published *)
(* and the test on wrapped indices decides as the one on counts would.     *)
LEMMA PopLoadHeadFacts ==
  ASSUME IndInv, NEW i \in 1..Len(m_head), PopLoadHead(i)
  PROVE  /\ i \in Nat /\ i - 1 \in Nat
         /\ m_head[i].val = Wrap(i - 1)
         /\ Acquire(cons.view, m_head[i]) = i - 1
         /\ cons.pc = "loadHead"
         /\ cons'.pc = IF IsEmpty(m_head[i].val, cons.t) THEN "idle" ELSE "read"
         /\ cons'.t = cons.t /\ cons'.out = cons.out
         /\ cons'.seen = i /\ cons'.view = i - 1
         /\ cons'.reads = cons.reads
         /\ Tails <= i - 1 /\ (i - 1) - Tails <= SIZE - 1
         /\ IsEmpty(m_head[i].val, cons.t) <=> i - 1 = Tails
  <1>t. /\ TypeOK /\ Counts /\ IndexHistory /\ Views /\ Occupancy /\ Locals
        /\ Contents /\ Reads /\ InOrder /\ ub = FALSE
    BY DEF IndInv
  <1>i. i \in Nat /\ i - 1 \in Nat /\ i >= cons.seen /\ i - 1 <= Heads
    <2>1. cons.seen \in Nat /\ Len(m_head) \in Nat /\ i \in cons.seen..Len(m_head)
      BY <1>t, Fields DEF PopLoadHead
    <2> QED BY <2>1 DEF Heads
  <1>m. m_head[i].val = Wrap(i - 1) /\ m_head[i].view = i - 1
    BY <1>t DEF IndexHistory
  <1>a. Acquire(cons.view, m_head[i]) = i - 1
    <2>1. cons.view = cons.seen - 1
      BY <1>t DEF Views
    <2>2. cons.seen \in Nat
      BY <1>t, Fields
    <2> QED BY <2>1, <2>2, <1>i, <1>m DEF Acquire
  <1>p. /\ cons.pc = "loadHead"
        /\ cons'.pc = IF IsEmpty(m_head[i].val, cons.t) THEN "idle" ELSE "read"
        /\ cons'.t = cons.t /\ cons'.out = cons.out
        /\ cons'.seen = i /\ cons'.view = i - 1
        /\ cons'.reads = cons.reads
    BY <1>a, <1>t DEF PopLoadHead, TypeOK
  <1>o. Tails <= i - 1 /\ (i - 1) - Tails <= SIZE - 1
    <2>1. cons.seen \in Nat
      BY <1>t, Fields
    <2> QED BY <2>1, <1>i, Order, SMTT(30)
  <1>b. IsEmpty(m_head[i].val, cons.t) <=> i - 1 = Tails
    <2>1. cons.t = Wrap(Tails)
      BY <1>t, <1>p DEF Locals
    <2> QED BY <1>i, <1>m, <1>o, <2>1, Order, EmptyMeansEmpty, SMTT(30)
  <1> QED BY <1>i, <1>m, <1>a, <1>p, <1>o, <1>b

(* A head load that lets pop() continue has seen a descriptor published.   *)
LEMMA PopLoadHeadInv ==
  ASSUME IndInv, NEW i \in 1..Len(m_head), PopLoadHead(i) PROVE IndInv'
  <1>t. /\ TypeOK /\ Counts /\ IndexHistory /\ Views /\ Occupancy /\ Locals
        /\ Contents /\ Reads /\ InOrder /\ ub = FALSE
    BY DEF IndInv
  <1>u. UNCHANGED <<m_buffer, m_head, m_tail, prod, lastWrite, lastRead, ub,
                    pushed, popped>>
    BY DEF PopLoadHead
  <1>e. Heads' = Heads /\ Tails' = Tails
    BY <1>u DEF Heads, Tails
  <1>1. TypeOK'
    <2>1. m_head[i].val \in Slot
      BY PopLoadHeadFacts, WrapInSlot
    <2> QED BY PopLoadHeadFacts, <1>t, <2>1 DEF TypeOK, PopLoadHead
  <1>2. Counts'
    BY <1>t, <1>u, PopLoadHeadFacts, <1>e DEF Counts
  <1>3. IndexHistory'
    BY <1>t, <1>u DEF IndexHistory
  <1>4. Views'
    BY <1>t, <1>u, PopLoadHeadFacts DEF Views
  <1>5. Occupancy'
    <2>1. ASSUME cons'.pc = "read" PROVE Tails < i - 1
      <3>1. i - 1 # Tails
        BY <2>1, PopLoadHeadFacts
      <3> QED BY <3>1, PopLoadHeadFacts, Order
    <2>2. cons'.pc # "store"
      BY PopLoadHeadFacts
    <2> QED BY <2>1, <2>2, <1>t, <1>u, PopLoadHeadFacts, <1>e DEF Occupancy
  <1>6. Locals'
    BY <1>t, <1>u, PopLoadHeadFacts, <1>e DEF Locals
  <1>7. Contents'
    BY <1>t, <1>u, <1>e DEF Contents
  <1>8. Reads' /\ InOrder' /\ ub' = FALSE
    BY <1>t, <1>u, PopLoadHeadFacts DEF Reads, InOrder
  <1> QED BY <1>1, <1>2, <1>3, <1>4, <1>5, <1>6, <1>7, <1>8 DEF IndInv

(* The slot pop() reads holds the oldest descriptor that is not released,  *)
(* and the consumer has seen its write published.                          *)
LEMMA PopReadInv ==
  ASSUME IndInv, NEW v \in Desc \union {Junk}, PopRead(v) PROVE IndInv'
  <1>t. /\ TypeOK /\ Counts /\ IndexHistory /\ Views /\ Occupancy /\ Locals
        /\ Contents /\ Reads /\ InOrder /\ ub = FALSE
    BY DEF IndInv
  <1>u. UNCHANGED <<m_buffer, m_head, m_tail, prod, lastWrite, pushed, popped>>
    BY DEF PopRead
  <1>p. /\ cons.pc = "read" /\ cons'.pc = "store"
        /\ cons'.t = cons.t /\ cons'.out = v
        /\ cons'.seen = cons.seen /\ cons'.view = cons.view
        /\ cons'.reads = cons.reads + 1
    BY <1>t DEF PopRead, TypeOK
  <1>e. Heads' = Heads /\ Tails' = Tails
    BY <1>u DEF Heads, Tails
  <1>0. /\ cons.t = Wrap(Tails) /\ cons.t \in Slot
        /\ cons.reads = Tails
        /\ Tails < cons.seen - 1
        /\ cons.view = cons.seen - 1
    BY <1>t, <1>p, Fields DEF Locals, Counts, Occupancy, Views
  <1>s. lastWrite[cons.t] = Tails + 1 /\ m_buffer[cons.t] = pushed[Tails + 1]
    <2>1. prod.writes \in Nat /\ Heads <= prod.writes
      BY <1>t, Order, Fields, SMTT(30) DEF Counts
    <2>2. /\ Tails + 1 \in (Tails + 1)..prod.writes
          /\ (Tails + 1) - 1 = Tails /\ Tails + 1 <= Heads
      BY <2>1, <1>0, Order
    <2> QED BY <2>2, <1>0, <1>t DEF Contents
  <1>c. ub' = FALSE
    <2>1. ~(lastWrite[cons.t] > cons.view)
      BY <1>s, <1>0, Order
    <2>2. ub' = (ub \/ lastWrite[cons.t] > cons.view)
      BY DEF PopRead
    <2> QED BY <2>1, <2>2, <1>t, Zenon
  <1>v. v = pushed[Tails + 1]
    <2>1. v \in IF ub' THEN Desc \union {Junk} ELSE {m_buffer[cons.t]}
      BY DEF PopRead
    <2> QED BY <2>1, <1>c, <1>s
  <1> DEFINE n == cons.reads + 1
  <1>n. n \in Nat /\ n = Tails + 1
    BY <1>0, Order
  <1>w. /\ lastRead' = [lastRead EXCEPT ![cons.t] = n]
        /\ cons' = [cons EXCEPT !.pc = "store", !.out = v, !.reads = n]
    BY DEF PopRead
  <1>x. cons'.reads = n
    BY <1>p
  <1> HIDE DEF n
  <1>1. TypeOK'
    BY <1>w, <1>n, <1>0, <1>c, <1>t, <1>u DEF TypeOK
  <1>2. Counts'
    BY <1>t, <1>u, <1>p, <1>e, <1>x, <1>n DEF Counts
  <1>3. IndexHistory'
    BY <1>t, <1>u DEF IndexHistory
  <1>4. Views'
    BY <1>t, <1>u, <1>p DEF Views
  <1>5. Occupancy'
    BY <1>t, <1>u, <1>p, <1>e, <1>0 DEF Occupancy
  <1>6. Locals'
    BY <1>t, <1>u, <1>p, <1>e, <1>v DEF Locals
  <1>7. Contents'
    BY <1>t, <1>u, <1>e DEF Contents
  <1>8. Reads'
    <2> SUFFICES ASSUME NEW s \in Slot, lastRead'[s] # 0
                 PROVE  lastRead'[s] <= n /\ Wrap(lastRead'[s] - 1) = s
      BY <1>x DEF Reads
    <2>0. lastRead \in [Slot -> Nat]
      BY <1>t DEF TypeOK
    <2>1. CASE s = cons.t
      <3>1. lastRead'[s] = n
        BY <2>0, <2>1, <1>w
      <3>2. n - 1 = Tails
        BY <1>n, Order
      <3> QED BY <3>1, <3>2, <2>1, <1>0, <1>n
    <2>2. CASE s # cons.t
      <3>1. lastRead'[s] = lastRead[s]
        BY <2>0, <2>2, <1>w
      <3>2. lastRead[s] <= cons.reads /\ Wrap(lastRead[s] - 1) = s
        BY <3>1, <1>t DEF Reads
      <3>3. lastRead[s] \in Nat
        BY <2>0
      <3> QED BY <3>1, <3>2, <3>3, <1>0, <1>n, Order
    <2> QED BY <2>1, <2>2
  <1>9. InOrder'
    BY <1>t, <1>u DEF InOrder
  <1> QED BY <1>1, <1>2, <1>3, <1>4, <1>5, <1>6, <1>7, <1>8, <1>9, <1>c DEF IndInv

(* The release store gives back the slot just read and nothing else.       *)
LEMMA PopStoreTailInv == ASSUME IndInv, PopStoreTail PROVE IndInv'
  <1>t. /\ TypeOK /\ Counts /\ IndexHistory /\ Views /\ Occupancy /\ Locals
        /\ Contents /\ Reads /\ InOrder /\ ub = FALSE
    BY DEF IndInv
  <1>u. UNCHANGED <<m_buffer, m_head, prod, lastWrite, lastRead, ub, pushed>>
    BY DEF PopStoreTail
  <1>p. /\ cons.pc = "store" /\ cons'.pc = "idle"
        /\ cons'.seen = cons.seen /\ cons'.view = cons.view
        /\ cons'.reads = cons.reads
    BY <1>t DEF PopStoreTail, TypeOK
  <1>0. /\ cons.t = Wrap(Tails) /\ cons.out = pushed[Tails + 1]
        /\ cons.reads = Tails + 1
        /\ Len(popped) = Tails /\ Len(m_tail) = Tails + 1
        /\ Tails < cons.seen - 1
    BY <1>t, <1>p, Fields DEF Locals, Counts, Occupancy, Tails
  <1> DEFINE msg == [val |-> Wrap(Tails + 1), view |-> Tails + 1]
  <1>a. m_tail' = Append(m_tail, msg)
    <2>1. Wrap(cons.t + 1) = Wrap(Tails + 1)
      BY <1>0, Order, WrapSucc
    <2>2. m_tail' = Append(m_tail, Release(Wrap(cons.t + 1), cons.reads))
      BY DEF PopStoreTail
    <2> QED BY <2>1, <2>2, <1>0 DEF Release
  <1>b. msg \in Message
    <2>1. Wrap(Tails + 1) \in Slot
      BY Order, WrapInSlot
    <2> QED BY <2>1, Order DEF Message
  <1> HIDE DEF msg
  <1>c. /\ Len(m_tail') = Tails + 2
        /\ \A i \in 1..(Tails + 1) : m_tail'[i] = m_tail[i]
        /\ m_tail'[Tails + 2] = msg
        /\ m_tail' \in Seq(Message)
    <2>1. m_tail \in Seq(Message)
      BY <1>t DEF TypeOK
    <2>2. (Tails + 1) + 1 = Tails + 2
      BY Order
    <2> QED BY <1>a, <1>b, <1>0, <2>1, <2>2, AppendFacts
  <1>d. /\ popped' \in Seq(Desc \union {Junk}) /\ Len(popped') = Tails + 1
        /\ \A i \in 1..Tails : popped'[i] = popped[i]
        /\ popped'[Tails + 1] = pushed[Tails + 1]
    <2>1. /\ popped \in Seq(Desc \union {Junk})
          /\ cons.out \in Desc \union {Junk}
          /\ popped' = Append(popped, cons.out)
      BY <1>t DEF TypeOK, PopStoreTail
    <2> QED BY <1>0, <2>1, AppendFacts
  <1>e. Heads' = Heads /\ Tails' = Tails + 1
    BY <1>c, <1>u, Order DEF Heads, Tails
  <1>1. TypeOK'
    BY <1>c, <1>d, <1>t DEF TypeOK, PopStoreTail
  <1>2. Counts'
    BY <1>c, <1>d, <1>e, <1>u, <1>p, <1>0, <1>t, Order DEF Counts
  <1>3. IndexHistory'
    <2>1. ASSUME NEW i \in 1..Len(m_tail')
          PROVE  m_tail'[i].val = Wrap(i - 1) /\ m_tail'[i].view = i - 1
      <3>1. CASE i = Tails + 2
        <4>1. i - 1 = Tails + 1
          BY <3>1, Order
        <4> QED BY <3>1, <4>1, <1>c DEF msg
      <3>2. CASE i \in 1..(Tails + 1)
        BY <3>2, <1>c, <1>0, <1>t DEF IndexHistory
      <3> QED BY <3>1, <3>2, <1>c, Order
    <2> QED BY <2>1, <1>u, <1>t DEF IndexHistory
  <1>4. Views'
    <2>1. Len(m_tail') = Len(m_tail) + 1
      BY <1>c, <1>0, Order
    <2> QED BY <2>1, <1>t, <1>u, <1>p, Fields DEF Views
  <1>5. Occupancy'
    <2>1. Tails + 1 <= cons.seen - 1
      BY <1>0, Order
    <2> QED BY <2>1, <1>t, <1>u, <1>p, <1>e DEF Occupancy
  <1>6. Locals'
    BY <1>t, <1>u, <1>p, <1>e DEF Locals
  <1>7. Contents'
    <2>1. ASSUME NEW n \in ((Tails + 1) + 1)..prod.writes
          PROVE  n \in (Tails + 1)..prod.writes
      BY <1>t, Order, Fields
    <2> QED BY <2>1, <1>t, <1>u, <1>e DEF Contents
  <1>8. Reads' /\ ub' = FALSE
    BY <1>t, <1>u, <1>p DEF Reads
  <1>9. InOrder'
    <2> SUFFICES ASSUME NEW n \in 1..(Tails + 1) PROVE popped'[n] = pushed[n]
      BY <1>d, <1>u DEF InOrder
    <2>1. CASE n = Tails + 1
      BY <2>1, <1>d
    <2>2. CASE n \in 1..Tails
      BY <2>2, <1>d, <1>0, <1>t DEF InOrder
    <2> QED BY <2>1, <2>2, Order
  <1> QED BY <1>1, <1>2, <1>3, <1>4, <1>5, <1>6, <1>7, <1>8, <1>9 DEF IndInv

(* A step that changes nothing preserves IndInv.                           *)
LEMMA StutterInv == ASSUME IndInv, UNCHANGED vars PROVE IndInv'
  BY DEF vars, IndInv, TypeOK, Counts, IndexHistory, Views, Occupancy, Locals,
         Contents, Reads, InOrder, Heads, Tails

(* No access of push() or pop() breaks IndInv.                             *)
LEMMA NextInv == ASSUME IndInv, [Next]_vars PROVE IndInv'
  <1>1. ASSUME NEW d \in Desc, PushLoadHead(d) PROVE IndInv'
    BY <1>1, PushLoadHeadInv
  <1>2. ASSUME NEW i \in 1..Len(m_tail), PushLoadTail(i) PROVE IndInv'
    BY <1>2, PushLoadTailInv
  <1>3. CASE PushWrite
    BY <1>3, PushWriteInv
  <1>4. CASE PushStoreHead
    BY <1>4, PushStoreHeadInv
  <1>5. CASE PopLoadTail
    BY <1>5, PopLoadTailInv
  <1>6. ASSUME NEW i \in 1..Len(m_head), PopLoadHead(i) PROVE IndInv'
    BY <1>6, PopLoadHeadInv
  <1>7. ASSUME NEW v \in Desc \union {Junk}, PopRead(v) PROVE IndInv'
    BY <1>7, PopReadInv
  <1>8. CASE PopStoreTail
    BY <1>8, PopStoreTailInv
  <1>9. CASE UNCHANGED vars
    BY <1>9, StutterInv
  <1> QED BY <1>1, <1>2, <1>3, <1>4, <1>5, <1>6, <1>7, <1>8, <1>9
          DEF Next, Push, Pop

-----------------------------------------------------------------------------
(* The theorems                                                            *)

(* At every access of push() and pop() the two threads stand to each other *)
(* as IndInv says.                                                         *)
THEOREM Invariance == Spec => []IndInv
  <1>1. IndInv /\ [Next]_vars => IndInv'
    BY NextInv
  <1> QED BY InitInv, <1>1, PTL DEF Spec

(* Every index push() and pop() use to address m_buffer is below SIZE.     *)
THEOREM TypeCorrect == Spec => []TypeOK
  <1>1. IndInv => TypeOK
    BY DEF IndInv
  <1> QED BY Invariance, <1>1, PTL

(* The release and acquire orderings of push() and pop() suffice: no slot  *)
(* is accessed by both threads without a happens-before edge.              *)
THEOREM RaceFree == Spec => []NoDataRace
  <1>1. IndInv => NoDataRace
    BY DEF IndInv, NoDataRace
  <1> QED BY Invariance, <1>1, PTL

(* push() and pop() refuse only what they must.                            *)
THEOREM Refusals == Spec => RefusalsJustified
  <1> DEFINE A == /\ prod.pc = "loadTail" /\ prod'.pc = "idle"
                       => Len(pushed) - (prod'.seen - 1) = SIZE - 1
                  /\ cons.pc = "loadHead" /\ cons'.pc = "idle"
                       => Len(popped) = cons'.seen - 1
  <1>1. ASSUME IndInv, [Next]_vars PROVE [A]_vars
    <2>t. TypeOK /\ Len(pushed) = Heads /\ Len(popped) = Tails
      BY <1>1 DEF IndInv, Counts
    <2>1. ASSUME NEW d \in Desc, PushLoadHead(d) PROVE A
      BY <2>1 DEF PushLoadHead
    <2>2. ASSUME NEW i \in 1..Len(m_tail), PushLoadTail(i) PROVE A
      <3>1. cons' = cons
        BY <2>2 DEF PushLoadTail
      <3>2. prod'.pc = "idle" => Heads - (prod'.seen - 1) = SIZE - 1
        BY <1>1, <2>2, PushLoadTailFacts
      <3> QED BY <3>1, <3>2, <2>t
    <2>3. CASE PushWrite \/ PushStoreHead
      BY <2>3 DEF PushWrite, PushStoreHead
    <2>4. CASE PopLoadTail
      BY <2>4 DEF PopLoadTail
    <2>5. ASSUME NEW i \in 1..Len(m_head), PopLoadHead(i) PROVE A
      <3>1. prod' = prod
        BY <2>5 DEF PopLoadHead
      <3>2. cons'.pc = "idle" => cons'.seen - 1 = Tails
        BY <1>1, <2>5, PopLoadHeadFacts
      <3> QED BY <3>1, <3>2, <2>t
    <2>6. ASSUME NEW v \in Desc \union {Junk}, PopRead(v) PROVE A
      BY <2>6 DEF PopRead
    <2>7. CASE PopStoreTail
      BY <2>7 DEF PopStoreTail
    <2> QED BY <1>1, <2>1, <2>2, <2>3, <2>4, <2>5, <2>6, <2>7
            DEF Next, Push, Pop
  <1> QED BY Invariance, <1>1, PTL DEF Spec, RefusalsJustified

(* A successful push() is a Send, a successful pop() a Receive of the      *)
(* oldest element, and every other access a stuttering step.               *)
THEOREM Refinement == Spec => ImplementsFifo
  <1>1. Init => Fifo!Init
    BY DEF Init, Fifo!Init
  <1>2. ASSUME IndInv, [Next]_vars PROVE [Fifo!Next]_(Fifo!vars)
    <2>t. Len(pushed) = Heads /\ Len(popped) = Tails
      BY <1>2 DEF IndInv, Counts
    <2>1. CASE PushStoreHead
      <3>1. /\ prod.desc \in Desc
            /\ Heads - (prod.seen - 1) < SIZE - 1
        BY <1>2, <2>1 DEF IndInv, Locals, Occupancy, PushStoreHead
      <3>2. Heads - Tails < SIZE - 1
        BY <3>1, <1>2, Order
      <3>3. pushed' = Append(pushed, prod.desc) /\ popped' = popped
        BY <2>1 DEF PushStoreHead
      <3> QED BY <3>1, <3>2, <3>3, <2>t DEF Fifo!Next, Fifo!Send
    <2>2. CASE PopStoreTail
      <3>1. /\ cons.out = pushed[Tails + 1]
            /\ Tails < cons.seen - 1
        BY <1>2, <2>2 DEF IndInv, Locals, Occupancy, PopStoreTail
      <3>2. Tails < Heads
        BY <3>1, <1>2, Order
      <3>3. popped' = Append(popped, cons.out) /\ pushed' = pushed
        BY <2>2 DEF PopStoreTail
      <3> QED BY <3>1, <3>2, <3>3, <2>t DEF Fifo!Next, Fifo!Receive
    <2>3. ASSUME UNCHANGED <<pushed, popped>> PROVE [Fifo!Next]_(Fifo!vars)
      BY <2>3 DEF Fifo!vars
    <2>4. ASSUME NEW d \in Desc, PushLoadHead(d) PROVE UNCHANGED <<pushed, popped>>
      BY <2>4 DEF PushLoadHead
    <2>5. ASSUME NEW i \in 1..Len(m_tail), PushLoadTail(i)
          PROVE  UNCHANGED <<pushed, popped>>
      BY <2>5 DEF PushLoadTail
    <2>6. CASE PushWrite \/ PopLoadTail \/ UNCHANGED vars
      BY <2>3, <2>6 DEF PushWrite, PopLoadTail, vars
    <2>7. ASSUME NEW i \in 1..Len(m_head), PopLoadHead(i)
          PROVE  UNCHANGED <<pushed, popped>>
      BY <2>7 DEF PopLoadHead
    <2>8. ASSUME NEW v \in Desc \union {Junk}, PopRead(v)
          PROVE  UNCHANGED <<pushed, popped>>
      BY <2>8 DEF PopRead
    <2> QED BY <1>2, <2>1, <2>2, <2>3, <2>4, <2>5, <2>6, <2>7, <2>8
            DEF Next, Push, Pop
  <1> QED BY Invariance, <1>1, <1>2, PTL DEF Spec, ImplementsFifo, Fifo!Spec
=============================================================================
