----------------------------- MODULE SpscRing -----------------------------
(***************************************************************************)
(* The single-producer single-consumer byte ring of kernel/lib/ipc_shm,    *)
(* run by two cores under x86-64 TSO, the memory model its correctness     *)
(* comment relies on.                                                      *)
(*                                                                         *)
(* Every store goes into its core's FIFO store buffer and reaches memory   *)
(* later; a core sees its own buffered stores, the other core sees memory. *)
(* Only the producer stores data and head, only the consumer stores tail,  *)
(* so both buffers are described by positions.  The byte of position p     *)
(* (the p-th byte ever written) is represented by p itself: the ring never *)
(* looks at a byte.  The producer's buffer holds the bytes dataOut..pHead-1*)
(* and the head values of pending, a head value c standing between byte    *)
(* c - 1 and byte c; the consumer's buffer holds the tail values pendTail. *)
(***************************************************************************)
EXTENDS Integers, Sequences

CONSTANTS
  Cap,          \* the capacity word of the ring header (DATA_CAPACITY)
  Lens,         \* the lengths a caller may ask for in one call
  MaxPos        \* bound: the producer writes at most MaxPos bytes

ASSUME CapAssumption == Cap \in Nat \ {0}
ASSUME LensAssumption == Lens \subseteq Nat
ASSUME MaxPosAssumption == MaxPos \in Nat

VARIABLES
  pHead,        \* head, as the producer reads it
  pending,      \* head values in the producer's store buffer
  dataOut,      \* bytes whose store has reached memory
  head,         \* head, in memory
  data,         \* the data region, in memory
  cTail,        \* tail, as the consumer reads it
  pendTail,     \* tail values in the consumer's store buffer
  tail,         \* tail, in memory
  want,         \* size of the copy the consumer is doing, 0 when it is idle
  buf,          \* bytes copied so far by it
  out           \* the block returned by the last completed call

producer == <<pHead, pending>>
memory == <<dataOut, head, data, tail>>
consumer == <<cTail, pendTail, want, buf, out>>
vars == <<pHead, pending, dataOut, head, data, cTail, pendTail, tail,
          want, buf, out>>

Empty == -1     \* what spsc_init leaves in a data cell

spsc_init ==
  /\ pHead = 0 /\ pending = {} /\ dataOut = 0 /\ head = 0
  /\ data = [i \in 0 .. Cap - 1 |-> Empty]
  /\ cTail = 0 /\ pendTail = {} /\ tail = 0
  /\ want = 0 /\ buf = <<>> /\ out = <<>>

(***************************************************************************)
(* The producer.  A call reads its own head and the tail in memory, and    *)
(* then only stores: n bytes and one head value go into the buffer.  A     *)
(* call that finds no room returns without storing anything.               *)
(***************************************************************************)
Used == pHead - tail

\* Mutant: the bytes are stored, the head update that publishes them is not.
Store_NoPublish(n) ==
  /\ pHead + n <= MaxPos
  /\ pHead' = pHead + n
  /\ UNCHANGED <<pending, memory, consumer>>

Store(n) ==
  /\ pHead + n <= MaxPos
  /\ pHead' = pHead + n
  /\ pending' = pending \cup {pHead + n}
  /\ UNCHANGED <<memory, consumer>>

spsc_push ==
  /\ Used < Cap
  /\ Store(1)

spsc_push_bulk(len) ==
  /\ tail <= pHead /\ Used <= Cap
  /\ LET count == IF len < Cap - Used THEN len ELSE Cap - Used
     IN  count > 0 /\ Store(count)

spsc_push_frame(len) ==
  /\ tail <= pHead /\ Used < Cap
  /\ len + 2 <= Cap - Used
  /\ Store(len + 2)

(***************************************************************************)
(* The producer's store buffer drains, oldest store first.  (rep movsb may *)
(* make the bytes of one block visible in another order; no one can tell,  *)
(* since the head value that covers them comes after all of them.)         *)
(***************************************************************************)
DrainData ==
  /\ dataOut < pHead /\ dataOut \notin pending
  /\ data' = [data EXCEPT ![dataOut % Cap] = dataOut]
  /\ dataOut' = dataOut + 1
  /\ UNCHANGED <<producer, head, tail, consumer>>

\* Mutant: the head store does not wait for the data stores before it.
DrainHead_Early ==
  /\ \E c \in pending :
       /\ head' = c
       /\ pending' = pending \ {c}
  /\ UNCHANGED <<pHead, dataOut, data, tail, consumer>>

DrainHead ==
  /\ dataOut \in pending
  /\ head' = dataOut
  /\ pending' = pending \ {dataOut}
  /\ UNCHANGED <<pHead, dataOut, data, tail, consumer>>

(***************************************************************************)
(* The consumer.  A call reads head from memory, decides how much to take, *)
(* copies the bytes one by one, and only then stores the new tail.         *)
(***************************************************************************)
Avail == head - cTail

Start(n) ==
  /\ want = 0
  /\ want' = n
  /\ buf' = <<>>
  /\ UNCHANGED <<producer, memory, cTail, pendTail, out>>

spsc_pop ==
  /\ head # cTail
  /\ Start(1)

spsc_pop_bulk(len) ==
  /\ cTail <= head /\ Avail <= Cap
  /\ LET count == IF len < Avail THEN len ELSE Avail
     IN  count > 0 /\ Start(count)

spsc_pop_frame_len ==
  /\ cTail <= head /\ Avail <= Cap
  /\ Avail >= 2
  /\ Start(2)

Copy ==
  /\ Len(buf) < want
  /\ buf' = Append(buf, data[(cTail + Len(buf)) % Cap])
  /\ UNCHANGED <<producer, memory, cTail, pendTail, want, out>>

\* Mutant: a bulk read releases one byte more than it copied.
Finish_ExtraByte ==
  /\ want > 0 /\ Len(buf) = want
  /\ cTail' = cTail + want + 1
  /\ pendTail' = pendTail \cup {cTail + want + 1}
  /\ out' = buf
  /\ want' = 0 /\ buf' = <<>>
  /\ UNCHANGED <<producer, memory>>

Finish ==
  /\ want > 0 /\ Len(buf) = want
  /\ cTail' = cTail + want
  /\ pendTail' = pendTail \cup {cTail + want}
  /\ out' = buf
  /\ want' = 0 /\ buf' = <<>>
  /\ UNCHANGED <<producer, memory>>

DrainTail ==
  /\ \E t \in pendTail :
       /\ \A u \in pendTail : t <= u
       /\ tail' = t
       /\ pendTail' = pendTail \ {t}
  /\ UNCHANGED <<producer, dataOut, head, data, cTail, want, buf, out>>

Produce ==
  \/ spsc_push
  \/ \E len \in Lens : spsc_push_bulk(len) \/ spsc_push_frame(len)

Consume ==
  \/ spsc_pop
  \/ \E len \in Lens : spsc_pop_bulk(len)
  \/ spsc_pop_frame_len
  \/ Copy
  \/ Finish

Next == Produce \/ Consume \/ DrainData \/ DrainHead \/ DrainTail

\* Store buffers drain by themselves and the consumer keeps polling; the
\* producer owes nothing.
Fairness == WF_vars(DrainData) /\ WF_vars(DrainHead) /\ WF_vars(DrainTail)
            /\ WF_vars(Consume)

Spec == spsc_init /\ [][Next]_vars
FairSpec == Spec /\ Fairness

---------------------------------------------------------------------------
\* Counters and store buffers hold positions; a data cell of the ring page
\* (ipc_shm.salt) holds a byte or what spsc_init left there.
TypeOK ==
  /\ pHead \in Nat /\ dataOut \in Nat /\ head \in Nat
  /\ cTail \in Nat /\ tail \in Nat /\ want \in Nat
  /\ pending \subseteq Nat /\ pendTail \subseteq Nat
  /\ data \in [0 .. Cap - 1 -> Nat \cup {Empty}]
  /\ buf \in Seq(Nat \cup {Empty}) /\ out \in Seq(Nat \cup {Empty})

\* The invariant the header of ipc_shm.salt states, for both views of the
\* two counters: tail never passes head and the ring never holds more than
\* its capacity, whatever is still in flight in the two store buffers.
Occupancy ==
  /\ tail <= cTail /\ cTail <= head /\ head <= dataOut /\ dataOut <= pHead
  /\ pHead - tail <= Cap

\* Every byte the consumer has copied is the byte the producer wrote at that
\* position: never a stale byte of the previous lap, never one that has not
\* arrived yet, never one overwritten by the next lap.
NoTornCopy == \A i \in 1 .. Len(buf) : buf[i] = cTail + i - 1

\* Why: the last Cap bytes that reached memory are intact, in their cells.
Intact ==
  \A p \in 0 .. dataOut - 1 : dataOut - Cap <= p => data[p % Cap] = p

\* A tail value in flight lies between the tails the two sides see.
InFlight == \A t \in pendTail : tail <= t /\ t <= cTail

\* A copy in progress stays inside what head had published when it began.
CopyInside == Len(buf) <= want /\ cTail + want <= head

\* The inductive invariant behind Occupancy and NoTornCopy: what the two
\* store buffers and a copy in progress may look like in spsc_push and
\* spsc_pop_bulk.
IInv == TypeOK /\ Occupancy /\ Intact /\ InFlight /\ CopyInside /\ NoTornCopy

\* The ring is a bounded FIFO: each call hands over the oldest bytes, in
\* order, exactly once.
Channel == INSTANCE Fifo WITH written <- pHead, taken <- cTail, out <- out
IsFifo == Channel!FifoSpec

\* Nothing is stranded in the ring: a byte whose push returned true is
\* eventually taken by a consumer that keeps polling.
Delivered == \A p \in 0 .. MaxPos - 1 : (pHead > p) ~> (cTail > p)
===========================================================================
