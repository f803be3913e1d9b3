-------------------------- MODULE SpscRingProofs --------------------------
(***************************************************************************)
(* The ring of kernel/lib/ipc_shm is correct for every capacity, every set *)
(* of request lengths and every number of bytes.                           *)
(***************************************************************************)
EXTENDS SpscRing, TLAPS

(***************************************************************************)
(* Two positions less than Cap apart never share a cell of the data region *)
(* (head % cap in spsc_push, tail % cap in spsc_pop).                      *)
(***************************************************************************)
LEMMA CellsDistinct ==
  ASSUME NEW a \in Nat, NEW b \in Nat, a < b, b - a < Cap
  PROVE  a % Cap # b % Cap
<1> USE CapAssumption
<1> DEFINE q == a \div Cap
           r == b \div Cap
<1>1. /\ q \in Nat /\ r \in Nat
      /\ a = Cap * q + (a % Cap) /\ b = Cap * r + (b % Cap)
      /\ (a % Cap) \in Nat /\ (b % Cap) \in Nat
  BY SMT
<1>2. SUFFICES ASSUME a % Cap = b % Cap PROVE FALSE
  OBVIOUS
<1>3. b - a = Cap * r - Cap * q
  BY <1>1, <1>2
<1>4. CASE r <= q
  <2>1. Cap * r <= Cap * q
    BY <1>1, <1>4
  <2> QED BY <2>1, <1>3, <1>1
<1>5. CASE r > q
  <2>1. r >= q + 1
    BY <1>5, <1>1
  <2>2. Cap * r >= Cap * (q + 1)
    BY <2>1, <1>1
  <2>3. Cap * (q + 1) = Cap * q + Cap
    BY <1>1
  <2> QED BY <2>2, <2>3, <1>3, <1>1
<1> QED BY <1>4, <1>5, <1>1

\* An initialised ring (spsc_init) satisfies the invariant.
LEMMA InitIInv == spsc_init => IInv
  BY CapAssumption DEF spsc_init, IInv, TypeOK, Occupancy, Intact, InFlight,
                       CopyInside, NoTornCopy, Empty

\* A producer's call: n more bytes in the store buffer.
LEMMA StoreIInv ==
  ASSUME IInv, NEW n \in Nat, pHead + n - tail <= Cap, Store(n)
  PROVE  IInv'
  BY CapAssumption DEF Store, memory, consumer, IInv, TypeOK, Occupancy,
                       Intact, InFlight, CopyInside, NoTornCopy

\* spsc_push, spsc_push_bulk and spsc_push_frame preserve it.
LEMMA ProduceIInv == IInv /\ Produce => IInv'
<1> SUFFICES ASSUME IInv, Produce PROVE IInv'
  OBVIOUS
<1> USE CapAssumption, LensAssumption
<1>0. TypeOK /\ Occupancy
  BY DEF IInv
<1>1. CASE spsc_push
  BY <1>0, <1>1, StoreIInv DEF spsc_push, Used, TypeOK, Occupancy
<1>2. ASSUME NEW len \in Lens, spsc_push_bulk(len) PROVE IInv'
  <2> DEFINE count == IF len < Cap - Used THEN len ELSE Cap - Used
  <2>1. count \in Nat /\ pHead + count - tail <= Cap
    BY <1>0, <1>2 DEF spsc_push_bulk, Used, TypeOK, Occupancy
  <2>2. Store(count)
    BY <1>2 DEF spsc_push_bulk
  <2> QED BY <2>1, <2>2, StoreIInv
<1>3. ASSUME NEW len \in Lens, spsc_push_frame(len) PROVE IInv'
  BY <1>0, <1>3, StoreIInv DEF spsc_push_frame, Used, TypeOK, Occupancy
<1> QED BY <1>1, <1>2, <1>3 DEF Produce

\* So does every store that reaches memory, in either direction.
LEMMA DrainIInv == IInv /\ (DrainData \/ DrainHead \/ DrainTail) => IInv'
<1> SUFFICES ASSUME IInv, DrainData \/ DrainHead \/ DrainTail PROVE IInv'
  OBVIOUS
<1> USE CapAssumption DEF IInv
<1>1. CASE DrainData
  <2> USE <1>1 DEF DrainData, producer, consumer
  <2>1. dataOut % Cap \in 0 .. Cap - 1
    BY DEF TypeOK
  <2>2. TypeOK' /\ Occupancy' /\ InFlight' /\ CopyInside' /\ NoTornCopy'
    BY <2>1 DEF TypeOK, Occupancy, InFlight, CopyInside, NoTornCopy
  <2>3. Intact'
    <3> SUFFICES ASSUME NEW p \in 0 .. dataOut' - 1, dataOut' - Cap <= p
                 PROVE  data'[p % Cap] = p
      BY DEF Intact
    <3>0. /\ p \in Nat /\ dataOut \in Nat /\ dataOut' = dataOut + 1
          /\ p <= dataOut /\ dataOut - p < Cap
      BY DEF TypeOK
    <3>1. CASE p = dataOut
      BY <3>1, <2>1 DEF TypeOK
    <3>2. CASE p < dataOut
      <4>1. p % Cap # dataOut % Cap
        BY ONLY <3>0, <3>2, CellsDistinct
      <4>2. data[p % Cap] = p
        BY <3>0, <3>2 DEF Intact
      <4> QED BY <4>1, <4>2 DEF TypeOK
    <3> QED BY <3>0, <3>1, <3>2
  <2> QED BY <2>2, <2>3
<1>2. CASE DrainHead
  BY <1>2 DEF DrainHead, consumer, TypeOK, Occupancy, Intact, InFlight,
              CopyInside, NoTornCopy
<1>3. CASE DrainTail
  BY <1>3 DEF DrainTail, producer, TypeOK, Occupancy, Intact, InFlight,
              CopyInside, NoTornCopy
<1> QED BY <1>1, <1>2, <1>3

\* The beginning of a consumer's call, for a request that head covers.
LEMMA StartIInv ==
  ASSUME IInv, NEW n \in Nat, cTail + n <= head, Start(n)
  PROVE  IInv'
  BY DEF Start, producer, memory, IInv, TypeOK, Occupancy, Intact,
         InFlight, CopyInside, NoTornCopy

\* So do spsc_pop, spsc_pop_bulk, spsc_pop_frame_len and their copies.
LEMMA ConsumeIInv == IInv /\ Consume => IInv'
<1> SUFFICES ASSUME IInv, Consume PROVE IInv'
  OBVIOUS
<1> USE CapAssumption, LensAssumption
<1>0. TypeOK /\ Occupancy
  BY DEF IInv
<1>1. CASE spsc_pop
  BY <1>0, <1>1, StartIInv DEF spsc_pop, TypeOK, Occupancy
<1>2. ASSUME NEW len \in Lens, spsc_pop_bulk(len) PROVE IInv'
  <2> DEFINE count == IF len < Avail THEN len ELSE Avail
  <2>1. count \in Nat /\ cTail + count <= head
    BY <1>0, <1>2 DEF spsc_pop_bulk, Avail, TypeOK
  <2>2. Start(count)
    BY <1>2 DEF spsc_pop_bulk
  <2> QED BY <2>1, <2>2, StartIInv
<1>3. CASE spsc_pop_frame_len
  BY <1>0, <1>3, StartIInv DEF spsc_pop_frame_len, Avail, TypeOK
<1>4. CASE Copy
  <2> USE <1>4 DEF Copy, producer, memory
  <2> DEFINE p == cTail + Len(buf)
  <2>1. p \in Nat /\ dataOut - Cap <= p /\ p \in 0 .. dataOut - 1
    <3>1. /\ cTail \in Nat /\ Len(buf) \in Nat /\ dataOut \in Nat
          /\ head \in Nat /\ pHead \in Nat /\ tail \in Nat /\ want \in Nat
      BY DEF IInv, TypeOK
    <3> QED BY <3>1 DEF IInv, Occupancy, CopyInside
  <2>2. data[p % Cap] = p
    BY <2>1 DEF IInv, Intact
  <2>3. /\ buf' = Append(buf, p) /\ buf \in Seq(Nat \cup {Empty})
        /\ cTail' = cTail /\ want' = want /\ head' = head
        /\ NoTornCopy /\ CopyInside /\ cTail \in Nat /\ want \in Nat
    BY <2>2 DEF IInv, TypeOK
  <2>4. NoTornCopy' /\ CopyInside'
    BY ONLY <2>1, <2>3, Len(buf) < want DEF NoTornCopy, CopyInside
  <2>5. TypeOK' /\ Occupancy' /\ Intact' /\ InFlight'
    BY <2>1, <2>2 DEF IInv, TypeOK, Occupancy, Intact, InFlight
  <2> QED BY <2>4, <2>5 DEF IInv
<1>5. CASE Finish
  BY <1>5 DEF Finish, producer, memory, IInv, TypeOK, Occupancy, Intact,
              InFlight, CopyInside, NoTornCopy
<1> QED BY <1>1, <1>2, <1>3, <1>4, <1>5 DEF Consume

\* Every step of the two cores preserves the invariant.
LEMMA Inductive == IInv /\ [Next]_vars => IInv'
<1>1. IInv /\ UNCHANGED vars => IInv'
  BY DEF vars, IInv, TypeOK, Occupancy, Intact, InFlight, CopyInside, NoTornCopy
<1> QED BY <1>1, ProduceIInv, ConsumeIInv, DrainIInv DEF Next

\* The inductive invariant of the ring holds in every reachable state.
THEOREM RingInvariant == Spec => []IInv
  BY InitIInv, Inductive, PTL DEF Spec

\* The ring invariant of the ipc_shm header holds in every reachable state.
THEOREM OccupancyHolds == Spec => []Occupancy
<1>1. IInv => Occupancy
  BY DEF IInv
<1> QED BY <1>1, RingInvariant, PTL

\* No call ever copies a byte other than the one written at that position.
THEOREM NoTornCopyHolds == Spec => []NoTornCopy
<1>1. IInv => NoTornCopy
  BY DEF IInv
<1> QED BY <1>1, RingInvariant, PTL

\* A call that stores n bytes is a Put of the abstract channel.
LEMMA StorePuts ==
  ASSUME IInv, NEW n \in Nat \ {0}, pHead + n - tail <= Cap, Store(n)
  PROVE  Channel!Put
<1>1. /\ pHead \in Nat /\ cTail \in Nat /\ tail \in Nat
      /\ tail <= cTail /\ cTail <= pHead
  BY DEF IInv, TypeOK, Occupancy
<1>2. n \in 1 .. Cap /\ pHead + n - cTail <= Cap
  BY <1>1, CapAssumption
<1> QED BY <1>2 DEF Channel!Put, Store, memory, consumer

\* Every accepted push of the producer is a Put of the abstract channel.
LEMMA ProducePuts == IInv /\ Produce => Channel!Put
<1> SUFFICES ASSUME IInv, Produce PROVE Channel!Put
  OBVIOUS
<1> USE CapAssumption, LensAssumption
<1>0. TypeOK /\ Occupancy
  BY DEF IInv
<1>1. CASE spsc_push
  BY <1>0, <1>1, StorePuts DEF spsc_push, Used, TypeOK, Occupancy
<1>2. ASSUME NEW len \in Lens, spsc_push_bulk(len) PROVE Channel!Put
  <2> DEFINE count == IF len < Cap - Used THEN len ELSE Cap - Used
  <2>1. count \in Nat \ {0} /\ pHead + count - tail <= Cap
    BY <1>0, <1>2 DEF spsc_push_bulk, Used, TypeOK, Occupancy
  <2>2. Store(count)
    BY <1>2 DEF spsc_push_bulk
  <2> QED BY <2>1, <2>2, StorePuts
<1>3. ASSUME NEW len \in Lens, spsc_push_frame(len) PROVE Channel!Put
  BY <1>0, <1>3, StorePuts DEF spsc_push_frame, Used, TypeOK, Occupancy
<1> QED BY <1>1, <1>2, <1>3 DEF Produce

\* The tail store that ends a consumer's call is a Get of the channel.
LEMMA FinishGets == IInv /\ Finish => Channel!Get
<1> SUFFICES ASSUME IInv, Finish PROVE Channel!Get
  OBVIOUS
<1>1. /\ buf \in Seq(Nat \cup {Empty}) /\ Len(buf) = want /\ want \in Nat
      /\ want > 0 /\ pHead \in Nat /\ cTail \in Nat /\ tail \in Nat
      /\ cTail + want <= pHead /\ pHead - tail <= Cap /\ tail <= cTail
      /\ head \in Nat /\ dataOut \in Nat
  BY DEF IInv, TypeOK, Occupancy, CopyInside, Finish
<1>2. want \in 1 .. Cap /\ want <= pHead - cTail
  BY <1>1, CapAssumption
<1>3. buf = [i \in 1 .. want |-> cTail + i - 1]
  <2>1. buf = [i \in 1 .. want |-> buf[i]]
    BY <1>1
  <2>2. \A i \in 1 .. want : buf[i] = cTail + i - 1
    BY <1>1 DEF IInv, NoTornCopy
  <2> QED BY <2>1, <2>2
<1> QED BY <1>2, <1>3 DEF Finish, producer, Channel!Get

\* The ring implements the bounded FIFO channel: a push is a Put, the end of
\* a pop is a Get, and no other step of either core changes the channel.
THEOREM RingIsFifo == Spec => IsFifo
<1>1. spsc_init => Channel!FifoInit
  BY DEF spsc_init, Channel!FifoInit
<1>2. IInv /\ [Next]_vars => [Channel!Put \/ Channel!Get]_(Channel!fifoVars)
  <2> SUFFICES ASSUME IInv, [Next]_vars
               PROVE  Channel!Put \/ Channel!Get \/ UNCHANGED Channel!fifoVars
    OBVIOUS
  <2> USE DEF Channel!fifoVars
  <2>1. CASE Produce
    BY <2>1, ProducePuts
  <2>2. CASE Finish
    BY <2>2, FinishGets
  <2>3. CASE Consume /\ ~Finish
    BY <2>3 DEF Consume, spsc_pop, spsc_pop_bulk, spsc_pop_frame_len, Start,
                Copy, producer, memory
  <2>4. CASE DrainData \/ DrainHead \/ DrainTail
    BY <2>4 DEF DrainData, DrainHead, DrainTail, producer, consumer
  <2>5. CASE UNCHANGED vars
    BY <2>5 DEF vars
  <2> QED BY <2>1, <2>2, <2>3, <2>4, <2>5 DEF Next
<1> QED BY <1>1, <1>2, RingInvariant, PTL
        DEF Spec, IsFifo, Channel!FifoSpec
===========================================================================
