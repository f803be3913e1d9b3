----------------------------- MODULE PmmProofs -----------------------------
(***************************************************************************)
(* The page allocator keeps its invariant, for every number of cores, of   *)
(* pages and of nested handlers.  First what a step that moves no page     *)
(* leaves alone, and the steps that only do that; then the steps that take *)
(* a lock, hand a page out, change the number of its references or change  *)
(* a free list; and the theorems.                                          *)
(***************************************************************************)
EXTENDS Pmm, TLAPS

ContextOK(k) == CpuOK(k) /\ RegsOK(k) /\ SnapOK(k) /\ StoreOK(k)

\* What a step of context k leaves alone.
OthersKept(k) ==
  \A l \in Contexts : l # k =>
    /\ pc'[l] = pc[l] /\ op'[l] = op[l] /\ tgt'[l] = tgt[l]
    /\ page'[l] = page[l] /\ snap'[l] = snap[l] /\ rc'[l] = rc[l]
FlagsKept(k) ==
  /\ depth' = depth
  /\ \A c \in Cores : c # Core(k) => iflag'[c] = iflag[c]
ListsKept(k) ==
  \A s \in Cores : ~ (InCritical(k) /\ s = tgt[k]) => shard'[s] = shard[s]
CountsKept(k) ==
  \A p \in Pages : \/ refcount'[p] = refcount[p] /\ home'[p] = home[p]
                   \/ \A l \in Contexts : l # k => ~ Dropping(l, p)
PagesKept ==
  /\ UNCHANGED <<shard, count>>
  /\ \A p \in Pages : refcount'[p] = refcount[p] \/ (refcount[p] > 0 /\ refcount'[p] > 0)
  /\ \A l \in Contexts : /\ Carries(l)' <=> Carries(l)
                         /\ Carries(l) => page'[l] = page[l]
RefsKept ==
  /\ UNCHANGED <<refcount, refs>>
  /\ \A l \in Contexts, p \in Pages : Dropping(l, p)' <=> Dropping(l, p)

\* A context's core is one of the cores.
LEMMA ContextCore == \A k \in Contexts : Core(k) \in Cores /\ k[2] \in 0 .. MaxNest
  BY Zenon DEF Contexts, Core

\* A core runs one context.
LEMMA SameContext ==
  ASSUME NEW k \in Contexts, NEW l \in Contexts,
         Core(l) = Core(k), Running(k), Running(l)
  PROVE  l = k
  BY DEF Contexts, Core, Running

\* While a core runs one context, no other of its contexts is in the middle of
\* dropping a reference: free does that with interrupts off.
LEMMA NotDropping ==
  ASSUME ContextsOK, NEW k \in Contexts, Running(k), NEW p \in Pages, home[p] = Core(k),
         NEW l \in Contexts, l # k
  PROVE  ~ Dropping(l, p)
<1>1. SUFFICES ASSUME Dropping(l, p) PROVE FALSE
  BY Zenon
<1>2. Core(l) = Core(k) /\ Running(l)
  BY <1>1, Zenon
  DEF ContextsOK, StoreOK, CpuOK, Masked, Dropping
<1> QED BY <1>2, SameContext, Zenon

\* A step of one context keeps the local facts about the others.
LEMMA Others ==
  ASSUME ContextsOK, IsrSafe, NEW k \in Contexts, Running(k),
         OthersKept(k), FlagsKept(k), ListsKept(k), CountsKept(k),
         NEW l \in Contexts, l # k
  PROVE  ContextOK(l)'
<1>1. /\ pc'[l] = pc[l] /\ op'[l] = op[l] /\ tgt'[l] = tgt[l]
      /\ page'[l] = page[l] /\ snap'[l] = snap[l] /\ rc'[l] = rc[l]
  BY Zenon DEF OthersKept
<1>2. CpuOK(l) /\ RegsOK(l) /\ SnapOK(l) /\ StoreOK(l)
  BY Zenon DEF ContextsOK
<1>3. CpuOK(l)'
  <2>1. Masked(l) => Core(l) # Core(k)
    BY <1>2, SameContext, Zenon DEF CpuOK
  <2> QED BY <2>1, <1>1, <1>2, ContextCore, Zenon DEF CpuOK, Masked, Running, FlagsKept
<1>4. RegsOK(l)'
  BY <1>1, <1>2, Zenon DEF RegsOK, Carries
<1>5. SnapOK(l)'
  <2>1. pc[l] = "write" => tgt[l] \in Cores /\ ~ (InCritical(k) /\ tgt[l] = tgt[k])
    BY <1>2, Zenon DEF IsrSafe, InCritical, RegsOK
  <2> QED BY <2>1, <1>1, <1>2, Zenon DEF SnapOK, ListsKept
<1>6. StoreOK(l)'
  <2>1. pc[l] = "store" => page[l] \in Pages /\ Dropping(l, page[l])
    BY <1>2, Zenon DEF RegsOK, Dropping
  <2> QED BY <2>1, <1>1, <1>2, Zenon DEF StoreOK, CountsKept
<1> QED BY <1>3, <1>4, <1>5, <1>6, Zenon DEF ContextOK

\* No critical section is entered or left: the locks stay as they are.
LEMMA LocksFrame ==
  ASSUME LockHeld, IsrSafe, lock' = lock, ContextsOK',
         \A l \in Contexts : /\ InCritical(l)' <=> InCritical(l)
                             /\ InCritical(l) => tgt'[l] = tgt[l]
  PROVE  LockHeld' /\ IsrSafe'
<1>1. ASSUME NEW l \in Contexts, InCritical(l)' PROVE (Running(l) /\ iflag[Core(l)] = 0)'
  BY <1>1, Zenon DEF ContextsOK, CpuOK, Masked, InCritical
<1>2. LockHeld'
  BY Zenon DEF LockHeld
<1> QED BY <1>1, <1>2, Zenon DEF IsrSafe

\* A critical section is left and its lock word cleared.
LEMMA Release ==
  ASSUME LockHeld, IsrSafe, ContextsOK, ContextsOK', TypeOK,
         NEW k \in Contexts, InCritical(k), ~ InCritical(k)',
         lock' = [lock EXCEPT ![tgt[k]] = 0], OthersKept(k)
  PROVE  LockHeld' /\ IsrSafe'
<1>1. tgt[k] \in Cores
  BY Zenon DEF ContextsOK, RegsOK, InCritical
<1>2. \A c \in Cores : lock'[c] = IF c = tgt[k] THEN 0 ELSE lock[c]
  BY <1>1, Zenon DEF TypeOK
<1>3. ASSUME NEW l \in Contexts, l # k
      PROVE  (InCritical(l)' <=> InCritical(l)) /\ tgt'[l] = tgt[l]
  BY <1>3, Zenon DEF OthersKept, InCritical
<1>4. ASSUME NEW l \in Contexts, InCritical(l)'
      PROVE  /\ l # k /\ InCritical(l) /\ tgt'[l] = tgt[l]
             /\ tgt[l] \in Cores /\ tgt[l] # tgt[k]
             /\ (Running(l) /\ iflag[Core(l)] = 0)'
  <2>1. l # k /\ InCritical(l) /\ tgt'[l] = tgt[l]
    BY <1>3, <1>4, Zenon
  <2>2. tgt[l] \in Cores
    BY <2>1, Zenon DEF ContextsOK, RegsOK, InCritical
  <2>3. (Running(l) /\ iflag[Core(l)] = 0)'
    BY <1>4, Zenon DEF ContextsOK, CpuOK, Masked, InCritical
  <2> QED BY <2>1, <2>2, <2>3, Zenon DEF IsrSafe
<1>5. LockHeld'
  BY <1>2, <1>3 DEF LockHeld, IsrSafe
<1>6. IsrSafe'
  BY <1>2, <1>4 DEF IsrSafe
<1> QED BY <1>5, <1>6, Zenon

\* What a context carries is a page.
LEMMA CarriedPages ==
  ASSUME ContextsOK, NEW l \in Contexts, Carries(l)
  PROVE  page[l] \in Pages
  BY Zenon DEF ContextsOK, RegsOK

\* No page moves: the page invariants stay as they are.
LEMMA PagesFrame ==
  ASSUME OnePlace, NoLostPage, CountExact, PagesKept,
         \A l \in Contexts : Carries(l) => page[l] \in Pages
  PROVE  OnePlace' /\ NoLostPage' /\ CountExact'
<1>1. \A p \in Pages : (refcount'[p] = 0 <=> refcount[p] = 0) /\ (refcount[p] > 0 => refcount'[p] > 0)
  BY DEF PagesKept
<1>2. OnePlace'
  BY <1>1, Zenon DEF OnePlace, PagesKept
<1>3. NoLostPage'
  BY <1>1 DEF NoLostPage, PagesKept
<1>4. CountExact'
  BY Zenon DEF CountExact, PagesKept
<1> QED BY <1>2, <1>3, <1>4, Zenon

\* No reference is taken or given up: the counts stay exact.
LEMMA RefsFrame ==
  ASSUME RefsCounted, RefsKept
  PROVE  RefsCounted'
  BY Zenon DEF RefsCounted, RefsKept

\* A step that changes the registers of one context, and perhaps the interrupt
\* flag of its core, keeps the invariant, unless it enters or leaves a critical
\* section or comes by a page.
Quiet(k) ==
  /\ OthersKept(k) /\ FlagsKept(k)
  /\ UNCHANGED <<shard, count, refcount, refs, home>>
  /\ Carries(k)' <=> Carries(k)
  /\ Carries(k) => page'[k] = page[k]
  /\ pc[k] # "store" /\ pc'[k] # "store"

\* A quiet step of an allocation or a free keeps every clause about the other
\* contexts, the lists of pages and the reference counts.
LEMMA QuietFrame ==
  ASSUME IInv, NEW k \in Contexts, Running(k), Quiet(k), ContextOK(k)'
  PROVE  ContextsOK' /\ OnePlace' /\ NoLostPage' /\ CountExact' /\ RefsCounted'
<1>1. ContextsOK /\ IsrSafe /\ OnePlace /\ NoLostPage /\ RefsCounted /\ CountExact
  BY Zenon DEF IInv
<1>2. ContextsOK'
  <2>1. ListsKept(k) /\ CountsKept(k)
    BY Zenon DEF Quiet, ListsKept, CountsKept
  <2> QED BY <1>1, <2>1, Others, Zenon DEF Quiet, ContextsOK, ContextOK
<1>3. OnePlace' /\ NoLostPage' /\ CountExact'
  <2>1. PagesKept
    BY DEF Quiet, OthersKept, PagesKept, Carries
  <2> QED BY <1>1, <2>1, CarriedPages, PagesFrame, Zenon
<1>4. RefsCounted'
  <2>1. RefsKept
    BY Zenon DEF Quiet, OthersKept, RefsKept, Dropping
  <2> QED BY <1>1, <2>1, RefsFrame, Zenon
<1> QED BY <1>2, <1>3, <1>4, Zenon

\* A quiet step that does not touch the locks.
LEMMA QuietStep ==
  ASSUME IInv, NEW k \in Contexts, Running(k), Quiet(k), ContextOK(k)', TypeOK',
         lock' = lock, InCritical(k)' <=> InCritical(k), InCritical(k) => tgt'[k] = tgt[k]
  PROVE  IInv'
<1>1. \A l \in Contexts : /\ InCritical(l)' <=> InCritical(l)
                          /\ InCritical(l) => tgt'[l] = tgt[l]
  BY Zenon DEF Quiet, OthersKept, InCritical
<1>2. ContextsOK' /\ OnePlace' /\ NoLostPage' /\ CountExact' /\ RefsCounted'
  BY QuietFrame, Zenon
<1>3. LockHeld' /\ IsrSafe'
  BY <1>1, <1>2, LocksFrame, Zenon DEF IInv
<1> QED BY <1>2, <1>3, Zenon DEF IInv

\* A quiet step that ends a critical section.
LEMMA UnlockStep ==
  ASSUME IInv, NEW k \in Contexts, Running(k), Quiet(k), ContextOK(k)', TypeOK',
         lock' = [lock EXCEPT ![tgt[k]] = 0], InCritical(k), ~ InCritical(k)'
  PROVE  IInv'
<1>1. ContextsOK' /\ OnePlace' /\ NoLostPage' /\ CountExact' /\ RefsCounted'
  BY QuietFrame, Zenon
<1>2. LockHeld' /\ IsrSafe'
  BY <1>1, Release, Zenon DEF IInv, Quiet
<1> QED BY <1>1, <1>2, Zenon DEF IInv

\* A step that changes only which context a core runs, and its interrupt flag.
LEMMA CpuStep ==
  ASSUME IInv, TypeOK', \A l \in Contexts : CpuOK(l)',
         UNCHANGED <<shard, count, lock, refcount, refs, home, op, pc, tgt, page, snap, rc>>
  PROVE  IInv'
<1>1. ContextsOK'
  <2>1. ASSUME NEW l \in Contexts PROVE (RegsOK(l) /\ SnapOK(l) /\ StoreOK(l))'
    BY Zenon DEF IInv, ContextsOK, RegsOK, Carries, SnapOK, StoreOK
  <2> QED BY <2>1, Zenon DEF ContextsOK
<1>2. \A l \in Contexts : /\ InCritical(l)' <=> InCritical(l)
                          /\ InCritical(l) => tgt'[l] = tgt[l]
  BY Zenon DEF InCritical
<1>3. LockHeld' /\ IsrSafe'
  BY <1>1, <1>2, LocksFrame, Zenon DEF IInv
<1>4. PagesKept /\ RefsKept
  BY Zenon DEF PagesKept, RefsKept, Carries, Dropping
<1> QED BY <1>1, <1>3, <1>4, CarriedPages, PagesFrame, RefsFrame, Zenon DEF IInv

\* The start of alloc, with interrupts off from here on.
LEMMA alloc_Inv ==
  ASSUME IInv, NEW k \in Contexts, alloc(k)
  PROVE  IInv'
<1>1. /\ TypeOK /\ ContextsOK /\ LockHeld /\ IsrSafe
      /\ OnePlace /\ NoLostPage /\ RefsCounted /\ CountExact
  BY Zenon DEF IInv
<1>2. /\ CpuOK(k) /\ RegsOK(k) /\ SnapOK(k) /\ StoreOK(k)
      /\ Core(k) \in Cores /\ k[2] \in 0 .. MaxNest
      /\ Running(k)
      /\ pc[k] = "idle"
      /\ Core(k) \in 0 .. MAX_CPUS
  <2>1. /\ CpuOK(k) /\ RegsOK(k) /\ SnapOK(k) /\ StoreOK(k)
        /\ Core(k) \in Cores /\ k[2] \in 0 .. MaxNest
    BY <1>1, ContextCore, Zenon DEF ContextsOK
  <2>2. /\ Running(k)
        /\ pc[k] = "idle"
    BY Zenon DEF alloc, At
  <2>3. /\ Core(k) \in 0 .. MAX_CPUS
    BY <1>1, <2>1, <2>2, CpusAssumption
    DEF RegsOK, SnapOK, StoreOK, Carries, TypeOK, Cores
  <2> QED BY <2>1, <2>2, <2>3, Zenon
<1>3. /\ \A x \in Cores : iflag'[x] = IF x = Core(k) THEN 0 ELSE iflag[x]
      /\ \A x \in Contexts : op'[x] = IF x = k THEN "alloc" ELSE op[x]
      /\ \A x \in Contexts : tgt'[x] = IF x = k THEN Core(k) ELSE tgt[x]
      /\ \A x \in Contexts : pc'[x] = IF x = k THEN "lock" ELSE pc[x]
      /\ UNCHANGED <<shard, count, lock, refcount, refs, home, depth, page, snap, rc>>
  BY <1>1, <1>2, Zenon DEF alloc, TypeOK, At, Goto, disable_interrupts, lists, counts, cpu, regs
<1>4. TypeOK'
  <2>1. iflag' \in [Cores -> {0, 1}]
    BY <1>1, <1>2, Zenon DEF alloc, TypeOK, At, disable_interrupts
  <2>2. /\ op' \in [Contexts -> {"alloc", "steal", "free", "none"}]
        /\ tgt' \in [Contexts -> 0 .. MAX_CPUS]
        /\ pc' \in [Contexts -> Labels]
    BY <1>1, <1>2, CpusAssumption, Zenon DEF alloc, TypeOK, Labels, At, Goto
  <2> QED BY <2>1, <2>2, <1>1, <1>3, Zenon DEF TypeOK
<1>5. ContextOK(k)'
  <2>1. CpuOK(k)'
    BY <1>2, <1>3 DEF CpuOK, Masked, Running
  <2>3. RegsOK(k)'
    BY <1>1, <1>2, <1>3, CpusAssumption, Zenon DEF RegsOK, Carries
  <2>2. SnapOK(k)' /\ StoreOK(k)'
    BY <1>2, <1>3, Zenon DEF SnapOK, StoreOK
  <2> QED BY <2>1, <2>2, <2>3, Zenon DEF ContextOK
<1>6. Quiet(k)
  BY <1>2, <1>3, Zenon DEF Quiet, OthersKept, FlagsKept, Carries
<1>7. (InCritical(k)' <=> InCritical(k)) /\ (InCritical(k) => tgt'[k] = tgt[k])
  BY <1>2, <1>3, Zenon DEF InCritical
<1> QED BY <1>2, <1>3, <1>4, <1>6, <1>5, <1>7, QuietStep, Zenon

\* Reading the head of the local list.
LEMMA alloc_head_Inv ==
  ASSUME IInv, NEW k \in Contexts, alloc_head(k)
  PROVE  IInv'
<1>1. /\ TypeOK /\ ContextsOK /\ LockHeld /\ IsrSafe
      /\ OnePlace /\ NoLostPage /\ RefsCounted /\ CountExact
  BY Zenon DEF IInv
<1>2. /\ CpuOK(k) /\ RegsOK(k) /\ SnapOK(k) /\ StoreOK(k)
      /\ Core(k) \in Cores /\ k[2] \in 0 .. MaxNest
      /\ Running(k)
      /\ pc[k] = "read"
      /\ op[k] = "alloc"
      /\ page'[k] \in shard[tgt[k]]
      /\ tgt[k] \in Cores
  <2>1. /\ CpuOK(k) /\ RegsOK(k) /\ SnapOK(k) /\ StoreOK(k)
        /\ Core(k) \in Cores /\ k[2] \in 0 .. MaxNest
    BY <1>1, ContextCore, Zenon DEF ContextsOK
  <2>2. /\ Running(k)
        /\ pc[k] = "read"
        /\ op[k] = "alloc"
        /\ page'[k] \in shard[tgt[k]]
    BY <1>1, Zenon DEF alloc_head, At, ReadHead, TypeOK
  <2>3. /\ tgt[k] \in Cores
    BY <1>1, <2>1, <2>2, CpusAssumption, Zenon
    DEF RegsOK, SnapOK, StoreOK, Carries, TypeOK, Cores
  <2> QED BY <2>1, <2>2, <2>3, Zenon
<1>3. /\ \A x \in Contexts : page'[x] = IF x = k THEN page'[k] ELSE page[x]
      /\ \A x \in Contexts : snap'[x] = IF x = k THEN shard[tgt[k]] ELSE snap[x]
      /\ \A x \in Contexts : pc'[x] = IF x = k THEN "write" ELSE pc[x]
      /\ UNCHANGED <<shard, count, lock, refcount, refs, home, iflag, depth, op, tgt, rc>>
  BY <1>1, <1>2, Zenon DEF alloc_head, TypeOK, At, ReadHead, Goto, lists, counts, cpu, regs
<1>4. TypeOK'
  <2>1. /\ page' \in [Contexts -> {0} \cup Pages]
        /\ snap' \in [Contexts -> SUBSET Pages]
        /\ pc' \in [Contexts -> Labels]
    BY <1>1, <1>2, CpusAssumption, Zenon DEF alloc_head, TypeOK, Labels, At, ReadHead, Goto
  <2> QED BY <2>1, <1>1, <1>3, Zenon DEF TypeOK
<1>5. ContextOK(k)'
  <2>1. CpuOK(k)'
    BY <1>2, <1>3, Zenon DEF CpuOK, Masked, Running
  <2>3. RegsOK(k)'
    BY <1>1, <1>2, <1>3, CpusAssumption, Zenon DEF RegsOK, Carries, TypeOK
  <2>2. SnapOK(k)' /\ StoreOK(k)'
    BY <1>2, <1>3, Zenon DEF SnapOK, StoreOK
  <2> QED BY <2>1, <2>2, <2>3, Zenon DEF ContextOK
<1>6. Quiet(k)
  BY <1>2, <1>3, Zenon DEF Quiet, OthersKept, FlagsKept, Carries
<1>7. (InCritical(k)' <=> InCritical(k)) /\ (InCritical(k) => tgt'[k] = tgt[k])
  BY <1>2, <1>3, Zenon DEF InCritical
<1> QED BY <1>2, <1>3, <1>4, <1>6, <1>5, <1>7, QuietStep, Zenon

\* An empty local list: the lock is released before the other lists are visited.
LEMMA alloc_empty_Inv ==
  ASSUME IInv, NEW k \in Contexts, alloc_empty(k)
  PROVE  IInv'
<1>1. /\ TypeOK /\ ContextsOK /\ LockHeld /\ IsrSafe
      /\ OnePlace /\ NoLostPage /\ RefsCounted /\ CountExact
  BY Zenon DEF IInv
<1>2. /\ CpuOK(k) /\ RegsOK(k) /\ SnapOK(k) /\ StoreOK(k)
      /\ Core(k) \in Cores /\ k[2] \in 0 .. MaxNest
      /\ Running(k)
      /\ pc[k] = "read"
      /\ op[k] = "alloc"
      /\ tgt[k] \in Cores
      /\ 0 \in 0 .. NUM_CPUS
      /\ 0 \in 0 .. MAX_CPUS
  <2>1. /\ CpuOK(k) /\ RegsOK(k) /\ SnapOK(k) /\ StoreOK(k)
        /\ Core(k) \in Cores /\ k[2] \in 0 .. MaxNest
    BY <1>1, ContextCore, Zenon DEF ContextsOK
  <2>2. /\ Running(k)
        /\ pc[k] = "read"
        /\ op[k] = "alloc"
    BY Zenon DEF alloc_empty, At
  <2>3. /\ tgt[k] \in Cores
        /\ 0 \in 0 .. NUM_CPUS
        /\ 0 \in 0 .. MAX_CPUS
    BY <1>1, <2>1, <2>2, CpusAssumption
    DEF RegsOK, SnapOK, StoreOK, Carries, TypeOK, Cores
  <2> QED BY <2>1, <2>2, <2>3, Zenon
<1>3. /\ \A x \in Cores : lock'[x] = IF x = tgt[k] THEN 0 ELSE lock[x]
      /\ \A x \in Cores : iflag'[x] = IF x = Core(k) THEN 1 ELSE iflag[x]
      /\ \A x \in Contexts : op'[x] = IF x = k THEN "steal" ELSE op[x]
      /\ \A x \in Contexts : tgt'[x] = IF x = k THEN 0 ELSE tgt[x]
      /\ \A x \in Contexts : pc'[x] = IF x = k THEN "visit" ELSE pc[x]
      /\ UNCHANGED <<shard, count, refcount, refs, home, depth, page, snap, rc>>
  BY <1>1, <1>2, Zenon DEF alloc_empty, TypeOK, At, Goto, enable_interrupts, release_lock, lists,
     counts, cpu, regs
<1>4. TypeOK'
  <2>1. lock' \in [Cores -> {0, 1}]
    BY <1>1, <1>2, Zenon DEF alloc_empty, TypeOK, At, release_lock
  <2>2. iflag' \in [Cores -> {0, 1}]
    BY <1>1, <1>2, Zenon DEF alloc_empty, TypeOK, At, enable_interrupts
  <2>3. /\ op' \in [Contexts -> {"alloc", "steal", "free", "none"}]
        /\ tgt' \in [Contexts -> 0 .. MAX_CPUS]
        /\ pc' \in [Contexts -> Labels]
    BY <1>1, <1>2, CpusAssumption, Zenon DEF alloc_empty, TypeOK, Labels, At, Goto
  <2> QED BY <2>1, <2>2, <2>3, <1>1, <1>3, Zenon DEF TypeOK
<1>5. ContextOK(k)'
  <2>1. CpuOK(k)'
    BY <1>2, <1>3, Zenon DEF CpuOK, Masked, Running
  <2>3. RegsOK(k)'
    BY <1>1, <1>2, <1>3, CpusAssumption, Zenon DEF RegsOK, Carries
  <2>2. SnapOK(k)' /\ StoreOK(k)'
    BY <1>2, <1>3, Zenon DEF SnapOK, StoreOK
  <2> QED BY <2>1, <2>2, <2>3, Zenon DEF ContextOK
<1>6. Quiet(k)
  BY <1>2, <1>3, Zenon DEF Quiet, OthersKept, FlagsKept, Carries
<1>7. InCritical(k) /\ ~ InCritical(k)' /\ lock' = [lock EXCEPT ![tgt[k]] = 0]
  BY <1>2, <1>3, Zenon DEF InCritical, alloc_empty, release_lock
<1> QED BY <1>2, <1>4, <1>6, <1>5, <1>7, UnlockStep, Zenon

\* The loop over victims passes over the core's own list.
LEMMA steal_self_Inv ==
  ASSUME IInv, NEW k \in Contexts, steal_self(k)
  PROVE  IInv'
<1>1. /\ TypeOK /\ ContextsOK /\ LockHeld /\ IsrSafe
      /\ OnePlace /\ NoLostPage /\ RefsCounted /\ CountExact
  BY Zenon DEF IInv
<1>2. /\ CpuOK(k) /\ RegsOK(k) /\ SnapOK(k) /\ StoreOK(k)
      /\ Core(k) \in Cores /\ k[2] \in 0 .. MaxNest
      /\ Running(k)
      /\ pc[k] = "visit"
      /\ tgt[k] < NUM_CPUS
      /\ op[k] = "steal"
      /\ tgt[k] \in 0 .. NUM_CPUS
      /\ tgt[k] + 1 \in 0 .. NUM_CPUS
      /\ tgt[k] + 1 \in 0 .. MAX_CPUS
  <2>1. /\ CpuOK(k) /\ RegsOK(k) /\ SnapOK(k) /\ StoreOK(k)
        /\ Core(k) \in Cores /\ k[2] \in 0 .. MaxNest
    BY <1>1, ContextCore, Zenon DEF ContextsOK
  <2>2. /\ Running(k)
        /\ pc[k] = "visit"
        /\ tgt[k] < NUM_CPUS
    BY Zenon DEF steal_self, At
  <2>3. /\ op[k] = "steal"
        /\ tgt[k] \in 0 .. NUM_CPUS
    BY <1>1, <2>1, <2>2, CpusAssumption, Zenon
    DEF RegsOK, SnapOK, StoreOK, Carries, TypeOK, Cores
  <2>4. /\ tgt[k] + 1 \in 0 .. NUM_CPUS
        /\ tgt[k] + 1 \in 0 .. MAX_CPUS
    BY <2>2, <2>3, CpusAssumption DEF Cores
  <2> QED BY <2>1, <2>2, <2>3, <2>4, Zenon
<1>3. /\ \A x \in Contexts : tgt'[x] = IF x = k THEN tgt[k] + 1 ELSE tgt[x]
      /\ UNCHANGED <<shard, count, lock, refcount, refs, home, iflag, depth, op, pc, page, snap, rc>>
  BY <1>1, <1>2, Zenon DEF steal_self, TypeOK, At, lists, counts, cpu, regs
<1>4. TypeOK'
  <2>1. /\ tgt' \in [Contexts -> 0 .. MAX_CPUS]
    BY <1>1, <1>2, CpusAssumption, Zenon DEF steal_self, TypeOK, Labels, At
  <2> QED BY <2>1, <1>1, <1>3, Zenon DEF TypeOK
<1>5. ContextOK(k)'
  <2>1. CpuOK(k)'
    BY <1>2, <1>3, Zenon DEF CpuOK, Masked, Running
  <2>3. RegsOK(k)'
    BY <1>1, <1>2, <1>3, CpusAssumption, Zenon DEF RegsOK, Carries
  <2>2. SnapOK(k)' /\ StoreOK(k)'
    BY <1>2, <1>3, Zenon DEF SnapOK, StoreOK
  <2> QED BY <2>1, <2>2, <2>3, Zenon DEF ContextOK
<1>6. Quiet(k)
  BY <1>2, <1>3, Zenon DEF Quiet, OthersKept, FlagsKept, Carries
<1>7. (InCritical(k)' <=> InCritical(k)) /\ (InCritical(k) => tgt'[k] = tgt[k])
  BY <1>2, <1>3, Zenon DEF InCritical
<1> QED BY <1>2, <1>3, <1>4, <1>6, <1>5, <1>7, QuietStep, Zenon

\* The loop over victims goes to lock a list.
LEMMA steal_visit_Inv ==
  ASSUME IInv, NEW k \in Contexts, steal_visit(k)
  PROVE  IInv'
<1>1. /\ TypeOK /\ ContextsOK /\ LockHeld /\ IsrSafe
      /\ OnePlace /\ NoLostPage /\ RefsCounted /\ CountExact
  BY Zenon DEF IInv
<1>2. /\ CpuOK(k) /\ RegsOK(k) /\ SnapOK(k) /\ StoreOK(k)
      /\ Core(k) \in Cores /\ k[2] \in 0 .. MaxNest
      /\ Running(k)
      /\ pc[k] = "visit"
      /\ tgt[k] < NUM_CPUS
      /\ op[k] = "steal"
      /\ tgt[k] \in 0 .. NUM_CPUS
      /\ tgt[k] \in Cores
  <2>1. /\ CpuOK(k) /\ RegsOK(k) /\ SnapOK(k) /\ StoreOK(k)
        /\ Core(k) \in Cores /\ k[2] \in 0 .. MaxNest
    BY <1>1, ContextCore, Zenon DEF ContextsOK
  <2>2. /\ Running(k)
        /\ pc[k] = "visit"
        /\ tgt[k] < NUM_CPUS
    BY Zenon DEF steal_visit, At
  <2>3. /\ op[k] = "steal"
        /\ tgt[k] \in 0 .. NUM_CPUS
        /\ tgt[k] \in Cores
    BY <1>1, <2>1, <2>2, CpusAssumption
    DEF RegsOK, SnapOK, StoreOK, Carries, TypeOK, Cores
  <2> QED BY <2>1, <2>2, <2>3, Zenon
<1>3. /\ \A x \in Cores : iflag'[x] = IF x = Core(k) THEN 0 ELSE iflag[x]
      /\ \A x \in Contexts : pc'[x] = IF x = k THEN "lock" ELSE pc[x]
      /\ UNCHANGED <<shard, count, lock, refcount, refs, home, depth, op, tgt, page, snap, rc>>
  BY <1>1, <1>2, Zenon DEF steal_visit, TypeOK, At, Goto, disable_interrupts, lists, counts, cpu, regs
<1>4. TypeOK'
  <2>1. iflag' \in [Cores -> {0, 1}]
    BY <1>1, <1>2, Zenon DEF steal_visit, TypeOK, At, disable_interrupts
  <2>2. /\ pc' \in [Contexts -> Labels]
    BY <1>1, <1>2, CpusAssumption, Zenon DEF steal_visit, TypeOK, Labels, At, Goto
  <2> QED BY <2>1, <2>2, <1>1, <1>3, Zenon DEF TypeOK
<1>5. ContextOK(k)'
  <2>1. CpuOK(k)'
    BY <1>2, <1>3, Zenon DEF CpuOK, Masked, Running
  <2>3. RegsOK(k)'
    BY <1>1, <1>2, <1>3, CpusAssumption, Zenon DEF RegsOK, Carries
  <2>2. SnapOK(k)' /\ StoreOK(k)'
    BY <1>2, <1>3, Zenon DEF SnapOK, StoreOK
  <2> QED BY <2>1, <2>2, <2>3, Zenon DEF ContextOK
<1>6. Quiet(k)
  BY <1>2, <1>3, Zenon DEF Quiet, OthersKept, FlagsKept, Carries
<1>7. (InCritical(k)' <=> InCritical(k)) /\ (InCritical(k) => tgt'[k] = tgt[k])
  BY <1>2, <1>3, Zenon DEF InCritical
<1> QED BY <1>2, <1>3, <1>4, <1>6, <1>5, <1>7, QuietStep, Zenon

\* Reading the head of a victim's list.
LEMMA steal_head_Inv ==
  ASSUME IInv, NEW k \in Contexts, steal_head(k)
  PROVE  IInv'
<1>1. /\ TypeOK /\ ContextsOK /\ LockHeld /\ IsrSafe
      /\ OnePlace /\ NoLostPage /\ RefsCounted /\ CountExact
  BY Zenon DEF IInv
<1>2. /\ CpuOK(k) /\ RegsOK(k) /\ SnapOK(k) /\ StoreOK(k)
      /\ Core(k) \in Cores /\ k[2] \in 0 .. MaxNest
      /\ Running(k)
      /\ pc[k] = "read"
      /\ op[k] = "steal"
      /\ page'[k] \in shard[tgt[k]]
      /\ tgt[k] \in Cores
  <2>1. /\ CpuOK(k) /\ RegsOK(k) /\ SnapOK(k) /\ StoreOK(k)
        /\ Core(k) \in Cores /\ k[2] \in 0 .. MaxNest
    BY <1>1, ContextCore, Zenon DEF ContextsOK
  <2>2. /\ Running(k)
        /\ pc[k] = "read"
        /\ op[k] = "steal"
        /\ page'[k] \in shard[tgt[k]]
    BY <1>1, Zenon DEF steal_head, At, ReadHead, TypeOK
  <2>3. /\ tgt[k] \in Cores
    BY <1>1, <2>1, <2>2, CpusAssumption, Zenon
    DEF RegsOK, SnapOK, StoreOK, Carries, TypeOK, Cores
  <2> QED BY <2>1, <2>2, <2>3, Zenon
<1>3. /\ \A x \in Contexts : page'[x] = IF x = k THEN page'[k] ELSE page[x]
      /\ \A x \in Contexts : snap'[x] = IF x = k THEN shard[tgt[k]] ELSE snap[x]
      /\ \A x \in Contexts : pc'[x] = IF x = k THEN "write" ELSE pc[x]
      /\ UNCHANGED <<shard, count, lock, refcount, refs, home, iflag, depth, op, tgt, rc>>
  BY <1>1, <1>2, Zenon DEF steal_head, TypeOK, At, ReadHead, Goto, lists, counts, cpu, regs
<1>4. TypeOK'
  <2>1. /\ page' \in [Contexts -> {0} \cup Pages]
        /\ snap' \in [Contexts -> SUBSET Pages]
        /\ pc' \in [Contexts -> Labels]
    BY <1>1, <1>2, CpusAssumption, Zenon DEF steal_head, TypeOK, Labels, At, ReadHead, Goto
  <2> QED BY <2>1, <1>1, <1>3, Zenon DEF TypeOK
<1>5. ContextOK(k)'
  <2>1. CpuOK(k)'
    BY <1>2, <1>3, Zenon DEF CpuOK, Masked, Running
  <2>3. RegsOK(k)'
    BY <1>1, <1>2, <1>3, CpusAssumption, Zenon DEF RegsOK, Carries, TypeOK
  <2>2. SnapOK(k)' /\ StoreOK(k)'
    BY <1>2, <1>3, Zenon DEF SnapOK, StoreOK
  <2> QED BY <2>1, <2>2, <2>3, Zenon DEF ContextOK
<1>6. Quiet(k)
  BY <1>2, <1>3, Zenon DEF Quiet, OthersKept, FlagsKept, Carries
<1>7. (InCritical(k)' <=> InCritical(k)) /\ (InCritical(k) => tgt'[k] = tgt[k])
  BY <1>2, <1>3, Zenon DEF InCritical
<1> QED BY <1>2, <1>3, <1>4, <1>6, <1>5, <1>7, QuietStep, Zenon

\* A victim at or below the threshold is left alone.
LEMMA steal_skip_Inv ==
  ASSUME IInv, NEW k \in Contexts, steal_skip(k)
  PROVE  IInv'
<1>1. /\ TypeOK /\ ContextsOK /\ LockHeld /\ IsrSafe
      /\ OnePlace /\ NoLostPage /\ RefsCounted /\ CountExact
  BY Zenon DEF IInv
<1>2. /\ CpuOK(k) /\ RegsOK(k) /\ SnapOK(k) /\ StoreOK(k)
      /\ Core(k) \in Cores /\ k[2] \in 0 .. MaxNest
      /\ Running(k)
      /\ pc[k] = "read"
      /\ op[k] = "steal"
      /\ tgt[k] \in Cores
      /\ tgt[k] < NUM_CPUS
      /\ tgt[k] + 1 \in 0 .. NUM_CPUS
      /\ tgt[k] + 1 \in 0 .. MAX_CPUS
  <2>1. /\ CpuOK(k) /\ RegsOK(k) /\ SnapOK(k) /\ StoreOK(k)
        /\ Core(k) \in Cores /\ k[2] \in 0 .. MaxNest
    BY <1>1, ContextCore, Zenon DEF ContextsOK
  <2>2. /\ Running(k)
        /\ pc[k] = "read"
        /\ op[k] = "steal"
    BY Zenon DEF steal_skip, At
  <2>3. /\ tgt[k] \in Cores
        /\ tgt[k] < NUM_CPUS
    BY <1>1, <2>1, <2>2, CpusAssumption, Zenon
    DEF RegsOK, SnapOK, StoreOK, Carries, TypeOK, Cores
  <2>4. /\ tgt[k] + 1 \in 0 .. NUM_CPUS
        /\ tgt[k] + 1 \in 0 .. MAX_CPUS
    BY <2>2, <2>3, CpusAssumption DEF Cores
  <2> QED BY <2>1, <2>2, <2>3, <2>4, Zenon
<1>3. /\ \A x \in Cores : lock'[x] = IF x = tgt[k] THEN 0 ELSE lock[x]
      /\ \A x \in Cores : iflag'[x] = IF x = Core(k) THEN 1 ELSE iflag[x]
      /\ \A x \in Contexts : tgt'[x] = IF x = k THEN tgt[k] + 1 ELSE tgt[x]
      /\ \A x \in Contexts : pc'[x] = IF x = k THEN "visit" ELSE pc[x]
      /\ UNCHANGED <<shard, count, refcount, refs, home, depth, op, page, snap, rc>>
  BY <1>1, <1>2, Zenon DEF steal_skip, TypeOK, At, Goto, enable_interrupts, release_lock, lists,
     counts, cpu, regs
<1>4. TypeOK'
  <2>1. lock' \in [Cores -> {0, 1}]
    BY <1>1, <1>2, Zenon DEF steal_skip, TypeOK, At, release_lock
  <2>2. iflag' \in [Cores -> {0, 1}]
    BY <1>1, <1>2, Zenon DEF steal_skip, TypeOK, At, enable_interrupts
  <2>3. /\ tgt' \in [Contexts -> 0 .. MAX_CPUS]
        /\ pc' \in [Contexts -> Labels]
    BY <1>1, <1>2, CpusAssumption, Zenon DEF steal_skip, TypeOK, Labels, At, Goto
  <2> QED BY <2>1, <2>2, <2>3, <1>1, <1>3, Zenon DEF TypeOK
<1>5. ContextOK(k)'
  <2>1. CpuOK(k)'
    BY <1>2, <1>3, Zenon DEF CpuOK, Masked, Running
  <2>3. RegsOK(k)'
    BY <1>1, <1>2, <1>3, CpusAssumption, Zenon DEF RegsOK, Carries
  <2>2. SnapOK(k)' /\ StoreOK(k)'
    BY <1>2, <1>3, Zenon DEF SnapOK, StoreOK
  <2> QED BY <2>1, <2>2, <2>3, Zenon DEF ContextOK
<1>6. Quiet(k)
  BY <1>2, <1>3, Zenon DEF Quiet, OthersKept, FlagsKept, Carries
<1>7. InCritical(k) /\ ~ InCritical(k)' /\ lock' = [lock EXCEPT ![tgt[k]] = 0]
  BY <1>2, <1>3, Zenon DEF InCritical, steal_skip, release_lock
<1> QED BY <1>2, <1>4, <1>6, <1>5, <1>7, UnlockStep, Zenon

\* The loop over victims ends and alloc returns 0.
LEMMA steal_fail_Inv ==
  ASSUME IInv, NEW k \in Contexts, steal_fail(k)
  PROVE  IInv'
<1>1. /\ TypeOK /\ ContextsOK /\ LockHeld /\ IsrSafe
      /\ OnePlace /\ NoLostPage /\ RefsCounted /\ CountExact
  BY Zenon DEF IInv
<1>2. /\ CpuOK(k) /\ RegsOK(k) /\ SnapOK(k) /\ StoreOK(k)
      /\ Core(k) \in Cores /\ k[2] \in 0 .. MaxNest
      /\ Running(k)
      /\ pc[k] = "visit"
  <2>1. /\ CpuOK(k) /\ RegsOK(k) /\ SnapOK(k) /\ StoreOK(k)
        /\ Core(k) \in Cores /\ k[2] \in 0 .. MaxNest
    BY <1>1, ContextCore, Zenon DEF ContextsOK
  <2>2. /\ Running(k)
        /\ pc[k] = "visit"
    BY Zenon DEF steal_fail, At
  <2> QED BY <2>1, <2>2, Zenon
<1>3. /\ \A x \in Contexts : pc'[x] = IF x = k THEN "idle" ELSE pc[x]
      /\ \A x \in Contexts : op'[x] = IF x = k THEN "none" ELSE op[x]
      /\ \A x \in Contexts : tgt'[x] = IF x = k THEN 0 ELSE tgt[x]
      /\ \A x \in Contexts : page'[x] = IF x = k THEN 0 ELSE page[x]
      /\ \A x \in Contexts : snap'[x] = IF x = k THEN {} ELSE snap[x]
      /\ \A x \in Contexts : rc'[x] = IF x = k THEN 0 ELSE rc[x]
      /\ UNCHANGED <<shard, count, lock, refcount, refs, home, iflag, depth>>
  BY <1>1, <1>2, Zenon DEF steal_fail, TypeOK, At, Return, lists, counts, cpu, regs
<1>4. TypeOK'
  <2>1. /\ pc' \in [Contexts -> Labels]
        /\ op' \in [Contexts -> {"alloc", "steal", "free", "none"}]
        /\ tgt' \in [Contexts -> 0 .. MAX_CPUS]
        /\ page' \in [Contexts -> {0} \cup Pages]
        /\ snap' \in [Contexts -> SUBSET Pages]
        /\ rc' \in [Contexts -> Nat]
    BY <1>1, <1>2, CpusAssumption DEF steal_fail, TypeOK, Labels, At, Return
  <2> QED BY <2>1, <1>1, <1>3, Zenon DEF TypeOK
<1>5. ContextOK(k)'
  <2>1. CpuOK(k)'
    BY <1>2, <1>3, Zenon DEF CpuOK, Masked, Running
  <2>3. RegsOK(k)'
    BY <1>1, <1>2, <1>3, CpusAssumption, Zenon DEF RegsOK, Carries
  <2>2. SnapOK(k)' /\ StoreOK(k)'
    BY <1>2, <1>3, Zenon DEF SnapOK, StoreOK
  <2> QED BY <2>1, <2>2, <2>3, Zenon DEF ContextOK
<1>6. Quiet(k)
  BY <1>2, <1>3, Zenon DEF Quiet, OthersKept, FlagsKept, Carries
<1>7. (InCritical(k)' <=> InCritical(k)) /\ (InCritical(k) => tgt'[k] = tgt[k])
  BY <1>2, <1>3, Zenon DEF InCritical
<1> QED BY <1>2, <1>3, <1>4, <1>6, <1>5, <1>7, QuietStep, Zenon

\* free goes to lock the list of its core.
LEMMA free_push_Inv ==
  ASSUME IInv, NEW k \in Contexts, free_push(k)
  PROVE  IInv'
<1>1. /\ TypeOK /\ ContextsOK /\ LockHeld /\ IsrSafe
      /\ OnePlace /\ NoLostPage /\ RefsCounted /\ CountExact
  BY Zenon DEF IInv
<1>2. /\ CpuOK(k) /\ RegsOK(k) /\ SnapOK(k) /\ StoreOK(k)
      /\ Core(k) \in Cores /\ k[2] \in 0 .. MaxNest
      /\ Running(k)
      /\ pc[k] = "push"
      /\ op[k] = "free"
      /\ Core(k) \in 0 .. MAX_CPUS
  <2>1. /\ CpuOK(k) /\ RegsOK(k) /\ SnapOK(k) /\ StoreOK(k)
        /\ Core(k) \in Cores /\ k[2] \in 0 .. MaxNest
    BY <1>1, ContextCore, Zenon DEF ContextsOK
  <2>2. /\ Running(k)
        /\ pc[k] = "push"
    BY Zenon DEF free_push, At
  <2>3. /\ op[k] = "free"
        /\ Core(k) \in 0 .. MAX_CPUS
    BY <1>1, <2>1, <2>2, CpusAssumption
    DEF RegsOK, SnapOK, StoreOK, Carries, TypeOK, Cores
  <2> QED BY <2>1, <2>2, <2>3, Zenon
<1>3. /\ \A x \in Cores : iflag'[x] = IF x = Core(k) THEN 0 ELSE iflag[x]
      /\ \A x \in Contexts : tgt'[x] = IF x = k THEN Core(k) ELSE tgt[x]
      /\ \A x \in Contexts : pc'[x] = IF x = k THEN "lock" ELSE pc[x]
      /\ UNCHANGED <<shard, count, lock, refcount, refs, home, depth, op, page, snap, rc>>
  BY <1>1, <1>2, Zenon DEF free_push, TypeOK, At, Goto, disable_interrupts, lists, counts, cpu, regs
<1>4. TypeOK'
  <2>1. iflag' \in [Cores -> {0, 1}]
    BY <1>1, <1>2, Zenon DEF free_push, TypeOK, At, disable_interrupts
  <2>2. /\ tgt' \in [Contexts -> 0 .. MAX_CPUS]
        /\ pc' \in [Contexts -> Labels]
    BY <1>1, <1>2, CpusAssumption, Zenon DEF free_push, TypeOK, Labels, At, Goto
  <2> QED BY <2>1, <2>2, <1>1, <1>3, Zenon DEF TypeOK
<1>5. ContextOK(k)'
  <2>1. CpuOK(k)'
    BY <1>2, <1>3, Zenon DEF CpuOK, Masked, Running
  <2>3. RegsOK(k)'
    BY <1>1, <1>2, <1>3, CpusAssumption, Zenon DEF RegsOK, Carries
  <2>2. SnapOK(k)' /\ StoreOK(k)'
    BY <1>2, <1>3, Zenon DEF SnapOK, StoreOK
  <2> QED BY <2>1, <2>2, <2>3, Zenon DEF ContextOK
<1>6. Quiet(k)
  BY <1>2, <1>3, Zenon DEF Quiet, OthersKept, FlagsKept, Carries
<1>7. (InCritical(k)' <=> InCritical(k)) /\ (InCritical(k) => tgt'[k] = tgt[k])
  BY <1>2, <1>3, Zenon DEF InCritical
<1> QED BY <1>2, <1>3, <1>4, <1>6, <1>5, <1>7, QuietStep, Zenon

\* free reads the head it will link the page to.
LEMMA free_read_Inv ==
  ASSUME IInv, NEW k \in Contexts, free_read(k)
  PROVE  IInv'
<1>1. /\ TypeOK /\ ContextsOK /\ LockHeld /\ IsrSafe
      /\ OnePlace /\ NoLostPage /\ RefsCounted /\ CountExact
  BY Zenon DEF IInv
<1>2. /\ CpuOK(k) /\ RegsOK(k) /\ SnapOK(k) /\ StoreOK(k)
      /\ Core(k) \in Cores /\ k[2] \in 0 .. MaxNest
      /\ Running(k)
      /\ pc[k] = "read"
      /\ op[k] = "free"
      /\ tgt[k] \in Cores
  <2>1. /\ CpuOK(k) /\ RegsOK(k) /\ SnapOK(k) /\ StoreOK(k)
        /\ Core(k) \in Cores /\ k[2] \in 0 .. MaxNest
    BY <1>1, ContextCore, Zenon DEF ContextsOK
  <2>2. /\ Running(k)
        /\ pc[k] = "read"
        /\ op[k] = "free"
    BY Zenon DEF free_read, At
  <2>3. /\ tgt[k] \in Cores
    BY <1>1, <2>1, <2>2, CpusAssumption, Zenon
    DEF RegsOK, SnapOK, StoreOK, Carries, TypeOK, Cores
  <2> QED BY <2>1, <2>2, <2>3, Zenon
<1>3. /\ \A x \in Contexts : snap'[x] = IF x = k THEN shard[tgt[k]] ELSE snap[x]
      /\ \A x \in Contexts : pc'[x] = IF x = k THEN "write" ELSE pc[x]
      /\ UNCHANGED <<shard, count, lock, refcount, refs, home, iflag, depth, op, tgt, page, rc>>
  BY <1>1, <1>2, Zenon DEF free_read, TypeOK, At, Goto, lists, counts, cpu, regs
<1>4. TypeOK'
  <2>1. /\ snap' \in [Contexts -> SUBSET Pages]
        /\ pc' \in [Contexts -> Labels]
    BY <1>1, <1>2, CpusAssumption, Zenon DEF free_read, TypeOK, Labels, At, Goto
  <2> QED BY <2>1, <1>1, <1>3, Zenon DEF TypeOK
<1>5. ContextOK(k)'
  <2>1. CpuOK(k)'
    BY <1>2, <1>3, Zenon DEF CpuOK, Masked, Running
  <2>3. RegsOK(k)'
    BY <1>1, <1>2, <1>3, CpusAssumption, Zenon DEF RegsOK, Carries
  <2>2. SnapOK(k)' /\ StoreOK(k)'
    BY <1>2, <1>3, Zenon DEF SnapOK, StoreOK
  <2> QED BY <2>1, <2>2, <2>3, Zenon DEF ContextOK
<1>6. Quiet(k)
  BY <1>2, <1>3, Zenon DEF Quiet, OthersKept, FlagsKept, Carries
<1>7. (InCritical(k)' <=> InCritical(k)) /\ (InCritical(k) => tgt'[k] = tgt[k])
  BY <1>2, <1>3, Zenon DEF InCritical
<1> QED BY <1>2, <1>3, <1>4, <1>6, <1>5, <1>7, QuietStep, Zenon

\* An interrupt is taken: the interrupted context had interrupts on, so it holds no lock.
LEMMA isr_enter_Inv ==
  ASSUME IInv, NEW c \in Cores, isr_enter(c)
  PROVE  IInv'
<1>1. /\ TypeOK /\ ContextsOK /\ LockHeld /\ IsrSafe
      /\ OnePlace /\ NoLostPage /\ RefsCounted /\ CountExact
  BY Zenon DEF IInv
<1>2. /\ depth[c] < MaxNest
      /\ iflag[c] = 1
      /\ depth[c] + 1 \in 0 .. MaxNest
      /\ depth[c] \in 0 .. MaxNest
  <2>2. /\ depth[c] < MaxNest
        /\ iflag[c] = 1
    BY Zenon DEF isr_enter, At
  <2>3. /\ depth[c] + 1 \in 0 .. MaxNest
        /\ depth[c] \in 0 .. MaxNest
    BY <1>1, <2>2, CpusAssumption
    DEF TypeOK, Cores, Contexts
  <2> QED BY <2>2, <2>3, Zenon
<1>3. /\ \A x \in Cores : depth'[x] = IF x = c THEN depth[c] + 1 ELSE depth[x]
      /\ \A x \in Cores : iflag'[x] = IF x = c THEN 0 ELSE iflag[x]
      /\ UNCHANGED <<shard, count, lock, refcount, refs, home, op, pc, tgt, page, snap, rc>>
  BY <1>1, <1>2, Zenon DEF isr_enter, TypeOK, lists, counts, cpu, regs
<1>4. TypeOK'
  <2>1. depth' \in [Cores -> 0 .. MaxNest]
    BY <1>1, <1>2, Zenon DEF isr_enter, TypeOK
  <2>2. iflag' \in [Cores -> {0, 1}]
    BY <1>1, <1>2, Zenon DEF isr_enter, TypeOK
  <2> QED BY <2>1, <2>2, <1>1, <1>3, Zenon DEF TypeOK
<1>5. ASSUME NEW l \in Contexts PROVE CpuOK(l)'
  <2>1. CpuOK(l) /\ Core(l) \in Cores /\ l[2] \in 0 .. MaxNest
    BY <1>1, ContextCore, Zenon DEF ContextsOK
  <2>2. Core(l) = c /\ Running(l) => l = <<c, depth[c]>>
    BY DEF Contexts, Core, Running
  <2>3. depth[Core(l)] \in 0 .. MaxNest
    BY <2>1, <1>1, Zenon DEF TypeOK
  <2>4. CASE Core(l) = c
    BY <2>1, <2>2, <2>3, <2>4, <1>2, <1>3 DEF CpuOK, Masked, Running
  <2>5. CASE Core(l) # c
    BY <2>1, <2>5, <1>3, Zenon DEF CpuOK, Masked, Running
  <2> QED BY <2>4, <2>5, Zenon
<1> QED BY <1>3, <1>4, <1>5, CpuStep, Zenon

\* A handler returns to what it interrupted.
LEMMA isr_return_Inv ==
  ASSUME IInv, NEW c \in Cores, isr_return(c)
  PROVE  IInv'
<1>1. /\ TypeOK /\ ContextsOK /\ LockHeld /\ IsrSafe
      /\ OnePlace /\ NoLostPage /\ RefsCounted /\ CountExact
  BY Zenon DEF IInv
<1>2. /\ depth[c] > 0
      /\ pc[<<c, depth[c]>>] = "idle"
      /\ depth[c] - 1 \in 0 .. MaxNest
      /\ <<c, depth[c]>> \in Contexts
  <2>2. /\ depth[c] > 0
        /\ pc[<<c, depth[c]>>] = "idle"
    BY Zenon DEF isr_return, At
  <2>3. /\ depth[c] - 1 \in 0 .. MaxNest
        /\ <<c, depth[c]>> \in Contexts
    BY <1>1, <2>2, CpusAssumption
    DEF TypeOK, Cores, Contexts
  <2> QED BY <2>2, <2>3, Zenon
<1>3. /\ \A x \in Cores : depth'[x] = IF x = c THEN depth[c] - 1 ELSE depth[x]
      /\ \A x \in Cores : iflag'[x] = IF x = c THEN 1 ELSE iflag[x]
      /\ UNCHANGED <<shard, count, lock, refcount, refs, home, op, pc, tgt, page, snap, rc>>
  BY <1>1, <1>2, Zenon DEF isr_return, TypeOK, lists, counts, cpu, regs
<1>4. TypeOK'
  <2>1. depth' \in [Cores -> 0 .. MaxNest]
    BY <1>1, <1>2, Zenon DEF isr_return, TypeOK
  <2>2. iflag' \in [Cores -> {0, 1}]
    BY <1>1, <1>2, Zenon DEF isr_return, TypeOK
  <2> QED BY <2>1, <2>2, <1>1, <1>3, Zenon DEF TypeOK
<1>5. ASSUME NEW l \in Contexts PROVE CpuOK(l)'
  <2>1. CpuOK(l) /\ Core(l) \in Cores /\ l[2] \in 0 .. MaxNest
    BY <1>1, ContextCore, Zenon DEF ContextsOK
  <2>2. Core(l) = c /\ Running(l) => l = <<c, depth[c]>>
    BY DEF Contexts, Core, Running
  <2>3. depth[Core(l)] \in 0 .. MaxNest
    BY <2>1, <1>1, Zenon DEF TypeOK
  <2>4. CASE Core(l) = c
    BY <2>1, <2>2, <2>3, <2>4, <1>2, <1>3 DEF CpuOK, Masked, Running
  <2>5. CASE Core(l) # c
    BY <2>1, <2>5, <1>3, Zenon DEF CpuOK, Masked, Running
  <2> QED BY <2>4, <2>5, Zenon
<1> QED BY <1>3, <1>4, <1>5, CpuStep, Zenon

\* A system call is entered or left.
LEMMA syscall_boundary_Inv ==
  ASSUME IInv, NEW c \in Cores, syscall_boundary(c)
  PROVE  IInv'
<1>1. /\ TypeOK /\ ContextsOK /\ LockHeld /\ IsrSafe
      /\ OnePlace /\ NoLostPage /\ RefsCounted /\ CountExact
  BY Zenon DEF IInv
<1>2. /\ depth[c] = 0
      /\ pc[<<c, 0>>] = "idle"
      /\ <<c, 0>> \in Contexts
  <2>2. /\ depth[c] = 0
        /\ pc[<<c, 0>>] = "idle"
    BY Zenon DEF syscall_boundary, At
  <2>3. /\ <<c, 0>> \in Contexts
    BY <1>1, <2>2, CpusAssumption, Zenon
    DEF TypeOK, Cores, Contexts
  <2> QED BY <2>2, <2>3, Zenon
<1>3. /\ \A x \in Cores : iflag'[x] = IF x = c THEN 1 - iflag[c] ELSE iflag[x]
      /\ UNCHANGED <<shard, count, lock, refcount, refs, home, depth, op, pc, tgt, page, snap, rc>>
  BY <1>1, <1>2, Zenon DEF syscall_boundary, TypeOK, lists, counts, cpu, regs
<1>4. TypeOK'
  <2>1. iflag' \in [Cores -> {0, 1}]
    BY <1>1, <1>2 DEF syscall_boundary, TypeOK
  <2> QED BY <2>1, <1>1, <1>3, Zenon DEF TypeOK
<1>5. ASSUME NEW l \in Contexts PROVE CpuOK(l)'
  <2>1. CpuOK(l) /\ Core(l) \in Cores /\ l[2] \in 0 .. MaxNest
    BY <1>1, ContextCore, Zenon DEF ContextsOK
  <2>2. Core(l) = c /\ Running(l) => l = <<c, depth[c]>>
    BY DEF Contexts, Core, Running
  <2>3. depth[Core(l)] \in 0 .. MaxNest
    BY <2>1, <1>1, Zenon DEF TypeOK
  <2>4. CASE Core(l) = c
    BY <2>1, <2>2, <2>3, <2>4, <1>2, <1>3, Zenon DEF CpuOK, Masked, Running
  <2>5. CASE Core(l) # c
    BY <2>1, <2>5, <1>3, Zenon DEF CpuOK, Masked, Running
  <2> QED BY <2>4, <2>5, Zenon
<1> QED BY <1>3, <1>4, <1>5, CpuStep, Zenon

-----------------------------------------------------------------------------
(* The steps that move a page or a reference.                                *)

\* A context comes by a page that was on a list, or had its last reference.
LEMMA GainsPage ==
  ASSUME OnePlace, NoLostPage, NEW k \in Contexts, NEW p \in Pages, page[k] = p, page' = page,
         \A l \in Contexts : Carries(l)' <=> Carries(l) \/ l = k,
         \A l \in Contexts : Carries(l) => page[l] # p,
         \A s \in Cores : shard'[s] = shard[s] \ {p},
         refcount'[p] = 0, \A q \in Pages : q # p => refcount'[q] = refcount[q],
         \A l \in Contexts : Carries(l) => page[l] \in Pages
  PROVE  OnePlace' /\ NoLostPage'
<1>1. OnePlace'
  <2>1. \A q \in Pages, s, t \in Cores : q \in shard'[s] /\ q \in shard'[t] => s = t
    BY DEF OnePlace
  <2>2. \A q \in Pages, s \in Cores : q \in shard'[s] => refcount'[q] = 0
    BY DEF OnePlace
  <2>3. ASSUME NEW l \in Contexts, Carries(l)'
        PROVE  refcount'[page'[l]] = 0 /\ \A s \in Cores : page'[l] \notin shard'[s]
    BY <2>3 DEF OnePlace
  <2>4. ASSUME NEW l \in Contexts, NEW j \in Contexts, Carries(l)', Carries(j)', page'[l] = page'[j]
        PROVE  l = j
    BY <2>4, Zenon DEF OnePlace
  <2> QED BY <2>1, <2>2, <2>3, <2>4, Zenon DEF OnePlace
<1>2. NoLostPage'
  BY DEF NoLostPage
<1> QED BY <1>1, <1>2, Zenon

\* A context hands its page out with a first reference, or links it into a list.
LEMMA GivesPage ==
  ASSUME OnePlace, NoLostPage, NEW k \in Contexts, NEW p \in Pages, Carries(k), page[k] = p,
         \A l \in Contexts : Carries(l)' <=> Carries(l) /\ l # k,
         \A l \in Contexts : l # k => page'[l] = page[l],
         \A q \in Pages : q # p => refcount'[q] = refcount[q],
         \/ refcount'[p] > 0 /\ shard' = shard
         \/ /\ refcount'[p] = refcount[p]
            /\ \E t \in Cores : \A s \in Cores :
                 shard'[s] = IF s = t THEN shard[s] \cup {p} ELSE shard[s],
         \A l \in Contexts : Carries(l) => page[l] \in Pages
  PROVE  OnePlace' /\ NoLostPage'
<1>1. /\ refcount[p] = 0
      /\ \A s \in Cores : p \notin shard[s]
      /\ \A l \in Contexts : Carries(l) /\ l # k => page[l] # p
  BY Zenon DEF OnePlace
<1>2. \A q \in Pages, s \in Cores : q # p => (q \in shard'[s] <=> q \in shard[s])
  BY Zenon
<1>3. \A s, t \in Cores : p \in shard'[s] /\ p \in shard'[t] => s = t /\ refcount'[p] = 0
  BY <1>1, Zenon
<1>4. OnePlace'
  <2>1. \A q \in Pages, s, t \in Cores : q \in shard'[s] /\ q \in shard'[t] => s = t
    BY <1>2, <1>3 DEF OnePlace
  <2>2. \A q \in Pages, s \in Cores : q \in shard'[s] => refcount'[q] = 0
    BY <1>2, <1>3 DEF OnePlace
  <2>3. ASSUME NEW l \in Contexts, Carries(l)'
        PROVE  refcount'[page'[l]] = 0 /\ \A s \in Cores : page'[l] \notin shard'[s]
    BY <2>3, <1>1, <1>2 DEF OnePlace
  <2>4. ASSUME NEW l \in Contexts, NEW j \in Contexts, Carries(l)', Carries(j)', page'[l] = page'[j]
        PROVE  l = j
    BY <2>4 DEF OnePlace
  <2> QED BY <2>1, <2>2, <2>3, <2>4, Zenon DEF OnePlace
<1>5. NoLostPage'
  <2>1. refcount'[p] > 0 \/ \E s \in Cores : p \in shard'[s]
    BY Zenon
  <2>2. ASSUME NEW q \in Pages, q # p
        PROVE  \/ refcount'[q] > 0
               \/ \E s \in Cores : q \in shard'[s]
               \/ \E l \in Contexts : Carries(l)' /\ page'[l] = q
    BY <2>2, <1>2 DEF NoLostPage
  <2> QED BY <2>1, <2>2, Zenon DEF NoLostPage
<1> QED BY <1>4, <1>5, Zenon

\* The references to one page change, and no other context is dropping one.
LEMMA RefsStep ==
  ASSUME TypeOK, TypeOK', RefsCounted, NEW k \in Contexts, NEW p \in Pages, OthersKept(k),
         \A l \in Contexts : l # k => ~ Dropping(l, p),
         pc[k] = "store" => page[k] = p,
         pc'[k] = "store" => page'[k] = p,
         \/ /\ pc[k] # "store" /\ pc'[k] # "store"
            /\ refcount'[p] - refs'[p] = refcount[p] - refs[p]
         \/ /\ pc[k] # "store" /\ pc'[k] = "store"
            /\ refcount'[p] - refs'[p] = refcount[p] - refs[p] + 1
         \/ /\ pc[k] = "store" /\ pc'[k] # "store"
            /\ refcount'[p] - refs'[p] = refcount[p] - refs[p] - 1,
         \A q \in Pages : q # p => refcount'[q] = refcount[q] /\ refs'[q] = refs[q]
  PROVE  RefsCounted'
<1>1. \A l \in Contexts, q \in Pages : l # k => (Dropping(l, q)' <=> Dropping(l, q))
  BY Zenon DEF OthersKept, Dropping
<1>2. \A q \in Pages : /\ Dropping(k, q) <=> q = p /\ pc[k] = "store"
                       /\ Dropping(k, q)' <=> q = p /\ pc'[k] = "store"
  BY Zenon DEF Dropping
<1>3. ASSUME NEW q \in Pages
      PROVE  (IF \E l \in Contexts : Dropping(l, q) THEN refcount[q] = refs[q] + 1
                                                   ELSE refcount[q] = refs[q])'
  <2>1. CASE q # p
    <3>1. (\E l \in Contexts : Dropping(l, q))' <=> (\E l \in Contexts : Dropping(l, q))
      BY <2>1, <1>1, <1>2, Zenon
    <3> QED BY <3>1, <2>1, Zenon DEF RefsCounted
  <2>2. CASE q = p
    <3>1. /\ (\E l \in Contexts : Dropping(l, q))' <=> pc'[k] = "store"
          /\ (\E l \in Contexts : Dropping(l, p)) <=> pc[k] = "store"
      BY <1>1, <1>2, <2>2, Zenon
    <3>2. IF pc[k] = "store" THEN refcount[p] = refs[p] + 1 ELSE refcount[p] = refs[p]
      BY <3>1, Zenon DEF RefsCounted
    <3>3. refcount'[p] \in Nat /\ refs'[p] \in Nat /\ refcount[p] \in Nat /\ refs[p] \in Nat
      BY Zenon DEF TypeOK
    <3>4. IF pc'[k] = "store" THEN refcount'[p] = refs'[p] + 1 ELSE refcount'[p] = refs'[p]
      BY <3>2, <3>3
    <3> QED BY <3>1, <3>4, <2>2, Zenon
  <2> QED BY <2>1, <2>2, Zenon
<1> QED BY <1>3, Zenon DEF RefsCounted

\* Taking a lock: the lock word was 0, so no context was in that critical section.
LEMMA acquire_lock_Inv ==
  ASSUME IInv, NEW k \in Contexts, acquire_lock(k)
  PROVE  IInv'
<1>1. /\ TypeOK /\ ContextsOK /\ LockHeld /\ IsrSafe
      /\ OnePlace /\ NoLostPage /\ RefsCounted /\ CountExact
  BY Zenon DEF IInv
<1>2. /\ CpuOK(k) /\ RegsOK(k) /\ SnapOK(k) /\ StoreOK(k)
      /\ Core(k) \in Cores /\ k[2] \in 0 .. MaxNest
      /\ Running(k)
      /\ pc[k] = "lock"
      /\ lock[tgt[k]] = 0
      /\ tgt[k] \in Cores
  <2>1. /\ CpuOK(k) /\ RegsOK(k) /\ SnapOK(k) /\ StoreOK(k)
        /\ Core(k) \in Cores /\ k[2] \in 0 .. MaxNest
    BY <1>1, ContextCore, Zenon DEF ContextsOK
  <2>2. /\ Running(k)
        /\ pc[k] = "lock"
        /\ lock[tgt[k]] = 0
    BY Zenon DEF acquire_lock, At
  <2>3. /\ tgt[k] \in Cores
    BY <1>1, <2>1, <2>2, CpusAssumption, Zenon
    DEF RegsOK, SnapOK, StoreOK, Carries, TypeOK, Cores
  <2> QED BY <2>1, <2>2, <2>3, Zenon
<1>3. /\ \A x \in Cores : lock'[x] = IF x = tgt[k] THEN 1 ELSE lock[x]
      /\ \A x \in Contexts : pc'[x] = IF x = k THEN "read" ELSE pc[x]
      /\ UNCHANGED <<shard, count, refcount, refs, home, iflag, depth, op, tgt, page, snap, rc>>
  BY <1>1, <1>2, Zenon DEF acquire_lock, TypeOK, At, Goto, lists, counts, cpu, regs
<1>4. TypeOK'
  <2>1. lock' \in [Cores -> {0, 1}]
    BY <1>1, <1>2, Zenon DEF acquire_lock, TypeOK, At
  <2>2. /\ pc' \in [Contexts -> Labels]
    BY <1>1, <1>2, CpusAssumption, Zenon DEF acquire_lock, TypeOK, Labels, At, Goto
  <2> QED BY <2>1, <2>2, <1>1, <1>3, Zenon DEF TypeOK
<1>5. OthersKept(k) /\ FlagsKept(k) /\ ListsKept(k)
  BY <1>2, <1>3, Zenon DEF OthersKept, FlagsKept, ListsKept, InCritical
<1>6. CountsKept(k)
  BY <1>3, Zenon DEF CountsKept
<1>7. ContextOK(k)'
  <2>1. CpuOK(k)'
    BY <1>2, <1>3, Zenon DEF CpuOK, Masked, Running
  <2>3. RegsOK(k)'
    BY <1>1, <1>2, <1>3, CpusAssumption, Zenon DEF RegsOK, Carries
  <2>2. SnapOK(k)' /\ StoreOK(k)'
    BY <1>2, <1>3, Zenon DEF SnapOK, StoreOK
  <2> QED BY <2>1, <2>2, <2>3, Zenon DEF ContextOK
<1>8. ContextsOK'
  BY <1>1, <1>2, <1>5, <1>6, <1>7, Others, Zenon DEF ContextsOK, ContextOK
<1>9. LockHeld' /\ IsrSafe'
  <2>1. ASSUME NEW l \in Contexts, InCritical(l)' PROVE (Running(l) /\ iflag[Core(l)] = 0)'
    BY <1>8, <2>1, Zenon DEF ContextsOK, CpuOK, Masked, InCritical
  <2>2. \A l \in Contexts : InCritical(l) => tgt[l] \in Cores /\ tgt[l] # tgt[k] /\ l # k
    BY <1>1, <1>2 DEF IsrSafe, ContextsOK, RegsOK, InCritical
  <2>3. \A l \in Contexts : (InCritical(l)' <=> InCritical(l) \/ l = k) /\ tgt'[l] = tgt[l]
    BY <1>2, <1>3, Zenon DEF InCritical
  <2>4. LockHeld'
    BY <1>1, <1>3, <2>3, Zenon DEF LockHeld
  <2> QED BY <1>1, <1>2, <1>3, <2>1, <2>2, <2>3, <2>4, Zenon DEF IsrSafe
<1>10. OnePlace' /\ NoLostPage' /\ CountExact'
  <2>1. PagesKept
    BY <1>1, <1>2, <1>3, Zenon DEF PagesKept, Carries
  <2>2. \A l \in Contexts : Carries(l) => page[l] \in Pages
    BY <1>1, CarriedPages, Zenon
  <2> QED BY <1>1, <2>1, <2>2, PagesFrame, Zenon
<1>11. RefsCounted'
  <2>1. RefsKept
    BY <1>2, <1>3, Zenon DEF RefsKept, Dropping
  <2> QED BY <1>1, <2>1, RefsFrame, Zenon
<1> QED BY <1>4, <1>8, <1>9, <1>10, <1>11, Zenon DEF IInv

\* alloc returns: the page gets its first reference.
LEMMA alloc_return_Inv ==
  ASSUME IInv, NEW k \in Contexts, alloc_return(k)
  PROVE  IInv'
<1>1. /\ TypeOK /\ ContextsOK /\ LockHeld /\ IsrSafe
      /\ OnePlace /\ NoLostPage /\ RefsCounted /\ CountExact
  BY Zenon DEF IInv
<1>2. /\ CpuOK(k) /\ RegsOK(k) /\ SnapOK(k) /\ StoreOK(k)
      /\ Core(k) \in Cores /\ k[2] \in 0 .. MaxNest
      /\ Running(k)
      /\ pc[k] = "mark"
      /\ page[k] \in Pages
  <2>1. /\ CpuOK(k) /\ RegsOK(k) /\ SnapOK(k) /\ StoreOK(k)
        /\ Core(k) \in Cores /\ k[2] \in 0 .. MaxNest
    BY <1>1, ContextCore, Zenon DEF ContextsOK
  <2>2. /\ Running(k)
        /\ pc[k] = "mark"
    BY Zenon DEF alloc_return, At
  <2>3. /\ page[k] \in Pages
    BY <1>1, <2>1, <2>2, CpusAssumption, Zenon
    DEF RegsOK, SnapOK, StoreOK, Carries, TypeOK, Cores
  <2> QED BY <2>1, <2>2, <2>3, Zenon
<1>3. /\ \A x \in Pages : refcount'[x] = IF x = page[k] THEN 1 ELSE refcount[x]
      /\ \A x \in Pages : refs'[x] = IF x = page[k] THEN 1 ELSE refs[x]
      /\ \A x \in Pages : home'[x] = IF x = page[k] THEN Core(k) ELSE home[x]
      /\ \A x \in Contexts : pc'[x] = IF x = k THEN "idle" ELSE pc[x]
      /\ \A x \in Contexts : op'[x] = IF x = k THEN "none" ELSE op[x]
      /\ \A x \in Contexts : tgt'[x] = IF x = k THEN 0 ELSE tgt[x]
      /\ \A x \in Contexts : page'[x] = IF x = k THEN 0 ELSE page[x]
      /\ \A x \in Contexts : snap'[x] = IF x = k THEN {} ELSE snap[x]
      /\ \A x \in Contexts : rc'[x] = IF x = k THEN 0 ELSE rc[x]
      /\ UNCHANGED <<shard, count, lock, iflag, depth>>
  BY <1>1, <1>2, Zenon DEF alloc_return, TypeOK, At, Return, lists, counts, cpu, regs
<1>4. TypeOK'
  <2>1. refcount' \in [Pages -> Nat]
    BY <1>1, <1>2, Zenon DEF alloc_return, TypeOK, At
  <2>2. refs' \in [Pages -> Nat]
    BY <1>1, <1>2, Zenon DEF alloc_return, TypeOK, At
  <2>3. home' \in [Pages -> Cores]
    BY <1>1, <1>2, Zenon DEF alloc_return, TypeOK, At
  <2>4. /\ pc' \in [Contexts -> Labels]
        /\ op' \in [Contexts -> {"alloc", "steal", "free", "none"}]
        /\ tgt' \in [Contexts -> 0 .. MAX_CPUS]
        /\ page' \in [Contexts -> {0} \cup Pages]
        /\ snap' \in [Contexts -> SUBSET Pages]
        /\ rc' \in [Contexts -> Nat]
    BY <1>1, <1>2, CpusAssumption DEF alloc_return, TypeOK, Labels, At, Return
  <2> QED BY <2>1, <2>2, <2>3, <2>4, <1>1, <1>3, Zenon DEF TypeOK
<1>5. OthersKept(k) /\ FlagsKept(k) /\ ListsKept(k)
  BY <1>2, <1>3, Zenon DEF OthersKept, FlagsKept, ListsKept, InCritical
<1>6. CountsKept(k)
  <2>1. \A l \in Contexts : ~ Dropping(l, page[k])
    BY <1>1, <1>2 DEF OnePlace, Carries, RefsCounted, TypeOK
  <2> QED BY <2>1, <1>2, <1>3, Zenon DEF CountsKept
<1>7. ContextOK(k)'
  <2>1. CpuOK(k)'
    BY <1>2, <1>3, Zenon DEF CpuOK, Masked, Running
  <2>3. RegsOK(k)'
    BY <1>1, <1>2, <1>3, CpusAssumption, Zenon DEF RegsOK, Carries
  <2>2. SnapOK(k)' /\ StoreOK(k)'
    BY <1>2, <1>3, Zenon DEF SnapOK, StoreOK
  <2> QED BY <2>1, <2>2, <2>3, Zenon DEF ContextOK
<1>8. ContextsOK'
  BY <1>1, <1>2, <1>5, <1>6, <1>7, Others, Zenon DEF ContextsOK, ContextOK
<1>9. LockHeld' /\ IsrSafe'
  <2>1. \A l \in Contexts : /\ InCritical(l)' <=> InCritical(l)
                            /\ InCritical(l) => tgt'[l] = tgt[l]
    BY <1>2, <1>3, Zenon DEF InCritical
  <2> QED BY <1>1, <1>3, <1>8, <2>1, LocksFrame, Zenon
<1>10. OnePlace' /\ NoLostPage'
  <2>1. \A l \in Contexts : (Carries(l)' <=> Carries(l) /\ l # k) /\ (l # k => page'[l] = page[l])
    BY <1>2, <1>3, Zenon DEF Carries
  <2>2. Carries(k) /\ \A q \in Pages : q # page[k] => refcount'[q] = refcount[q]
    BY <1>2, <1>3, Zenon DEF Carries
  <2>3. refcount'[page[k]] > 0 /\ shard' = shard
    BY <1>2, <1>3
  <2>5. \A l \in Contexts : Carries(l) => page[l] \in Pages
    BY <1>1, CarriedPages, Zenon
  <2> QED BY <1>1, <1>2, <2>1, <2>2, <2>3, <2>5, GivesPage, Zenon
<1>11. CountExact'
  BY <1>1, <1>3, Zenon DEF CountExact
<1>12. RefsCounted'
  <2>1. \A l \in Contexts : l # k => ~ Dropping(l, page[k])
    BY <1>1, <1>2 DEF OnePlace, Carries, RefsCounted, TypeOK
  <2>2. refcount[page[k]] = 0 /\ refs[page[k]] = 0
    <3>1. refcount[page[k]] = 0 /\ ~ Dropping(k, page[k])
      BY <1>1, <1>2, Zenon DEF OnePlace, Carries, Dropping
    <3> QED BY <3>1, <2>1, <1>1, <1>2, Zenon DEF RefsCounted, TypeOK
  <2>3. /\ pc[k] = "mark" /\ pc'[k] = "idle"
        /\ refcount'[page[k]] - refs'[page[k]] = refcount[page[k]] - refs[page[k]]
    <3>1. refcount[page[k]] \in Nat /\ refs[page[k]] \in Nat
      BY <1>1, <1>2, Zenon DEF TypeOK
    <3>2. /\ refcount'[page[k]] = 1
          /\ refs'[page[k]] = 1
          /\ pc[k] = "mark" /\ pc'[k] = "idle"
      BY <1>2, <1>3, Zenon
    <3> QED BY <2>2, <3>1, <3>2
  <2>4. \A q \in Pages : q # page[k] => refcount'[q] = refcount[q] /\ refs'[q] = refs[q]
    BY <1>3, Zenon
  <2>5. (pc[k] = "store" => page[k] = page[k]) /\ (pc'[k] = "store" => page'[k] = page[k])
    BY <1>2, <1>3, Zenon
  <2> QED BY <2>1, <2>3, <2>4, <2>5, <1>1, <1>4, <1>5, <1>2, RefsStep, Zenon
<1> QED BY <1>4, <1>8, <1>9, <1>10, <1>12, <1>11, Zenon DEF IInv

\* The start of free: the caller gives its reference up.
LEMMA free_Inv ==
  ASSUME IInv, NEW k \in Contexts, NEW p \in Pages, free(k, p)
  PROVE  IInv'
<1>1. /\ TypeOK /\ ContextsOK /\ LockHeld /\ IsrSafe
      /\ OnePlace /\ NoLostPage /\ RefsCounted /\ CountExact
  BY Zenon DEF IInv
<1>2. /\ CpuOK(k) /\ RegsOK(k) /\ SnapOK(k) /\ StoreOK(k)
      /\ Core(k) \in Cores /\ k[2] \in 0 .. MaxNest
      /\ Running(k)
      /\ pc[k] = "idle"
      /\ refs[p] > 0
      /\ refs[p] - 1 \in Nat
  <2>1. /\ CpuOK(k) /\ RegsOK(k) /\ SnapOK(k) /\ StoreOK(k)
        /\ Core(k) \in Cores /\ k[2] \in 0 .. MaxNest
    BY <1>1, ContextCore, Zenon DEF ContextsOK
  <2>2. /\ Running(k)
        /\ pc[k] = "idle"
        /\ refs[p] > 0
    BY Zenon DEF free, At
  <2>3. /\ refs[p] - 1 \in Nat
    BY <1>1, <2>1, <2>2, CpusAssumption
    DEF RegsOK, SnapOK, StoreOK, Carries, TypeOK, Cores
  <2> QED BY <2>1, <2>2, <2>3, Zenon
<1>3. /\ \A x \in Cores : iflag'[x] = IF x = Core(k) THEN 0 ELSE iflag[x]
      /\ \A x \in Pages : refs'[x] = IF x = p THEN refs[p] - 1 ELSE refs[x]
      /\ \A x \in Contexts : op'[x] = IF x = k THEN "free" ELSE op[x]
      /\ \A x \in Contexts : page'[x] = IF x = k THEN p ELSE page[x]
      /\ \A x \in Contexts : rc'[x] = IF x = k THEN refcount[p] ELSE rc[x]
      /\ \A x \in Contexts : pc'[x] = IF x = k THEN "store" ELSE pc[x]
      /\ UNCHANGED <<shard, count, lock, refcount, home, depth, tgt, snap>>
  BY <1>1, <1>2, Zenon DEF free, TypeOK, At, Goto, disable_interrupts, lists, counts, cpu, regs
<1>4. TypeOK'
  <2>1. iflag' \in [Cores -> {0, 1}]
    BY <1>1, <1>2, Zenon DEF free, TypeOK, At, disable_interrupts
  <2>2. refs' \in [Pages -> Nat]
    BY <1>1, <1>2, Zenon DEF free, TypeOK, At
  <2>3. /\ op' \in [Contexts -> {"alloc", "steal", "free", "none"}]
        /\ page' \in [Contexts -> {0} \cup Pages]
        /\ rc' \in [Contexts -> Nat]
        /\ pc' \in [Contexts -> Labels]
    BY <1>1, <1>2, CpusAssumption, Zenon DEF free, TypeOK, Labels, At, Goto
  <2> QED BY <2>1, <2>2, <2>3, <1>1, <1>3, Zenon DEF TypeOK
<1>5. OthersKept(k) /\ FlagsKept(k) /\ ListsKept(k)
  BY <1>2, <1>3, Zenon DEF OthersKept, FlagsKept, ListsKept, InCritical
<1>6. CountsKept(k)
  BY <1>3, Zenon DEF CountsKept
<1>7. ContextOK(k)'
  <2>1. CpuOK(k)'
    <3>1. pc'[k] = "store" /\ iflag'[Core(k)] = 0 /\ depth'[Core(k)] = k[2]
      BY <1>2, <1>3, Zenon DEF Running
    <3> QED BY <3>1, <1>2 DEF CpuOK, Masked, Running
  <2>3. RegsOK(k)'
    BY <1>1, <1>2, <1>3, CpusAssumption, Zenon DEF RegsOK, Carries
  <2>2. SnapOK(k)' /\ StoreOK(k)'
    <3>1. pc'[k] = "store" /\ page'[k] = p /\ rc'[k] = refcount'[p] /\ home'[p] = Core(k)
      BY <1>2, <1>3, Zenon DEF free
    <3> QED BY <3>1, Zenon DEF SnapOK, StoreOK
  <2> QED BY <2>1, <2>2, <2>3, Zenon DEF ContextOK
<1>8. ContextsOK'
  BY <1>1, <1>2, <1>5, <1>6, <1>7, Others, Zenon DEF ContextsOK, ContextOK
<1>9. LockHeld' /\ IsrSafe'
  <2>1. \A l \in Contexts : /\ InCritical(l)' <=> InCritical(l)
                            /\ InCritical(l) => tgt'[l] = tgt[l]
    BY <1>2, <1>3, Zenon DEF InCritical
  <2> QED BY <1>1, <1>3, <1>8, <2>1, LocksFrame, Zenon
<1>10. OnePlace' /\ NoLostPage' /\ CountExact'
  <2>1. PagesKept
    BY <1>1, <1>2, <1>3, Zenon DEF PagesKept, Carries
  <2>2. \A l \in Contexts : Carries(l) => page[l] \in Pages
    BY <1>1, CarriedPages, Zenon
  <2> QED BY <1>1, <2>1, <2>2, PagesFrame, Zenon
<1>11. RefsCounted'
  <2>1. \A l \in Contexts : l # k => ~ Dropping(l, p)
    BY <1>1, <1>2, NotDropping, Zenon DEF StoreOK, free
  <2>3. /\ pc[k] = "idle" /\ pc'[k] = "store"
        /\ refcount'[p] - refs'[p] = refcount[p] - refs[p] + 1
    <3>1. refcount[p] \in Nat /\ refs[p] \in Nat
      BY <1>1, <1>2, Zenon DEF TypeOK
    <3>2. /\ refcount'[p] = refcount[p]
          /\ refs'[p] = refs[p] - 1
          /\ pc[k] = "idle" /\ pc'[k] = "store"
      BY <1>2, <1>3, Zenon
    <3> QED BY <3>1, <3>2
  <2>4. \A q \in Pages : q # p => refcount'[q] = refcount[q] /\ refs'[q] = refs[q]
    BY <1>3, Zenon
  <2>5. (pc[k] = "store" => page[k] = p) /\ (pc'[k] = "store" => page'[k] = p)
    BY <1>2, <1>3, Zenon
  <2> QED BY <2>1, <2>3, <2>4, <2>5, <1>1, <1>4, <1>5, <1>2, RefsStep, Zenon
<1> QED BY <1>4, <1>8, <1>9, <1>10, <1>11, Zenon DEF IInv

\* A page that still has references stays with its users.
LEMMA free_shared_Inv ==
  ASSUME IInv, NEW k \in Contexts, free_shared(k)
  PROVE  IInv'
<1>1. /\ TypeOK /\ ContextsOK /\ LockHeld /\ IsrSafe
      /\ OnePlace /\ NoLostPage /\ RefsCounted /\ CountExact
  BY Zenon DEF IInv
<1>2. /\ CpuOK(k) /\ RegsOK(k) /\ SnapOK(k) /\ StoreOK(k)
      /\ Core(k) \in Cores /\ k[2] \in 0 .. MaxNest
      /\ Running(k)
      /\ pc[k] = "store"
      /\ page[k] \in Pages
      /\ refcount[page[k]] > 1
  <2>1. /\ CpuOK(k) /\ RegsOK(k) /\ SnapOK(k) /\ StoreOK(k)
        /\ Core(k) \in Cores /\ k[2] \in 0 .. MaxNest
    BY <1>1, ContextCore, Zenon DEF ContextsOK
  <2>2. /\ Running(k)
        /\ pc[k] = "store"
    BY Zenon DEF free_shared, At
  <2>3. /\ page[k] \in Pages
    BY <1>1, <2>1, <2>2, CpusAssumption, Zenon
    DEF RegsOK, SnapOK, StoreOK, Carries, TypeOK, Cores
  <2>4. refcount[page[k]] \in Nat /\ refs[page[k]] \in Nat
    BY <1>1, <2>3, Zenon DEF TypeOK
  <2>5. refcount[page[k]] = refs[page[k]] + 1
    BY <1>1, <2>2, <2>3, Zenon DEF RefsCounted, Dropping
  <2>6. /\ refcount[page[k]] > 1
    BY <2>1, <2>2, <2>4, <2>5 DEF free_shared, NewCount, StoreOK
  <2> QED BY <2>1, <2>2, <2>3, <2>6, Zenon
<1>3. /\ \A x \in Pages : refcount'[x] = IF x = page[k] THEN refcount[page[k]] - 1 ELSE refcount[x]
      /\ \A x \in Cores : iflag'[x] = IF x = Core(k) THEN 1 ELSE iflag[x]
      /\ \A x \in Contexts : pc'[x] = IF x = k THEN "idle" ELSE pc[x]
      /\ \A x \in Contexts : op'[x] = IF x = k THEN "none" ELSE op[x]
      /\ \A x \in Contexts : tgt'[x] = IF x = k THEN 0 ELSE tgt[x]
      /\ \A x \in Contexts : page'[x] = IF x = k THEN 0 ELSE page[x]
      /\ \A x \in Contexts : snap'[x] = IF x = k THEN {} ELSE snap[x]
      /\ \A x \in Contexts : rc'[x] = IF x = k THEN 0 ELSE rc[x]
      /\ UNCHANGED <<shard, count, lock, refs, home, depth>>
  BY <1>1, <1>2, Zenon DEF free_shared, StoreOK, TypeOK, At, NewCount, Return, enable_interrupts,
     lists, counts, cpu, regs
<1>4. TypeOK'
  <2>1. refcount' \in [Pages -> Nat]
    BY <1>1, <1>2 DEF free_shared, StoreOK, TypeOK, At, NewCount
  <2>2. iflag' \in [Cores -> {0, 1}]
    BY <1>1, <1>2, Zenon DEF free_shared, TypeOK, At, NewCount, enable_interrupts
  <2>3. /\ pc' \in [Contexts -> Labels]
        /\ op' \in [Contexts -> {"alloc", "steal", "free", "none"}]
        /\ tgt' \in [Contexts -> 0 .. MAX_CPUS]
        /\ page' \in [Contexts -> {0} \cup Pages]
        /\ snap' \in [Contexts -> SUBSET Pages]
        /\ rc' \in [Contexts -> Nat]
    BY <1>1, <1>2, CpusAssumption DEF free_shared, TypeOK, Labels, At, Return
  <2> QED BY <2>1, <2>2, <2>3, <1>1, <1>3, Zenon DEF TypeOK
<1>5. OthersKept(k) /\ FlagsKept(k) /\ ListsKept(k)
  BY <1>2, <1>3, Zenon DEF OthersKept, FlagsKept, ListsKept, InCritical
<1>6. CountsKept(k)
  <2>1. home[page[k]] = Core(k)
    BY <1>2, Zenon DEF StoreOK
  <2>2. \A l \in Contexts : l # k => ~ Dropping(l, page[k])
    BY <2>1, <1>1, <1>2, NotDropping, Zenon
  <2> QED BY <2>2, <1>2, <1>3, Zenon DEF CountsKept
<1>7. ContextOK(k)'
  <2>1. CpuOK(k)'
    BY <1>2, <1>3, Zenon DEF CpuOK, Masked, Running
  <2>3. RegsOK(k)'
    BY <1>1, <1>2, <1>3, CpusAssumption, Zenon DEF RegsOK, Carries
  <2>2. SnapOK(k)' /\ StoreOK(k)'
    BY <1>2, <1>3, Zenon DEF SnapOK, StoreOK
  <2> QED BY <2>1, <2>2, <2>3, Zenon DEF ContextOK
<1>8. ContextsOK'
  BY <1>1, <1>2, <1>5, <1>6, <1>7, Others, Zenon DEF ContextsOK, ContextOK
<1>9. LockHeld' /\ IsrSafe'
  <2>1. \A l \in Contexts : /\ InCritical(l)' <=> InCritical(l)
                            /\ InCritical(l) => tgt'[l] = tgt[l]
    BY <1>2, <1>3, Zenon DEF InCritical
  <2> QED BY <1>1, <1>3, <1>8, <2>1, LocksFrame, Zenon
<1>10. OnePlace' /\ NoLostPage' /\ CountExact'
  <2>1. PagesKept
    <3>1. UNCHANGED <<shard, count>>
      BY <1>3, Zenon
    <3>2. \A p \in Pages : \/ refcount'[p] = refcount[p]
                           \/ refcount[p] > 0 /\ refcount'[p] > 0
      <4>1. refcount[page[k]] \in Nat
        BY <1>1, <1>2, Zenon DEF TypeOK
      <4>2. refcount'[page[k]] = refcount[page[k]] - 1
        BY <1>2, <1>3, Zenon
      <4>3. refcount[page[k]] > 0 /\ refcount'[page[k]] > 0
        BY <4>1, <4>2, <1>2
      <4>4. \A p \in Pages : p # page[k] => refcount'[p] = refcount[p]
        BY <1>3, Zenon
      <4> QED BY <4>3, <4>4, Zenon
    <3>3. \A l \in Contexts : /\ Carries(l)' <=> Carries(l)
                              /\ Carries(l) => page'[l] = page[l]
      BY <1>2, <1>3 DEF Carries
    <3> QED BY <3>1, <3>2, <3>3, Zenon DEF PagesKept
  <2>2. \A l \in Contexts : Carries(l) => page[l] \in Pages
    BY <1>1, CarriedPages, Zenon
  <2> QED BY <1>1, <2>1, <2>2, PagesFrame, Zenon
<1>11. RefsCounted'
  <2>1. \A l \in Contexts : l # k => ~ Dropping(l, page[k])
    BY <1>1, <1>2, NotDropping, Zenon DEF StoreOK
  <2>3. /\ pc[k] = "store" /\ pc'[k] = "idle"
        /\ refcount'[page[k]] - refs'[page[k]] = refcount[page[k]] - refs[page[k]] - 1
    <3>1. refcount[page[k]] \in Nat /\ refs[page[k]] \in Nat
      BY <1>1, <1>2, Zenon DEF TypeOK
    <3>2. /\ refcount'[page[k]] = refcount[page[k]] - 1
          /\ refs'[page[k]] = refs[page[k]]
          /\ pc[k] = "store" /\ pc'[k] = "idle"
      BY <1>2, <1>3, Zenon
    <3>3. refcount[page[k]] - 1 - refs[page[k]] = refcount[page[k]] - refs[page[k]] - 1
      BY <3>1
    <3> QED BY <3>2, <3>3, Zenon
  <2>4. \A q \in Pages : q # page[k] => refcount'[q] = refcount[q] /\ refs'[q] = refs[q]
    BY <1>3, Zenon
  <2>5. (pc[k] = "store" => page[k] = page[k]) /\ (pc'[k] = "store" => page'[k] = page[k])
    BY <1>2, <1>3, Zenon
  <2> QED BY <2>1, <2>3, <2>4, <2>5, <1>1, <1>4, <1>5, <1>2, RefsStep, Zenon
<1> QED BY <1>4, <1>8, <1>9, <1>10, <1>11, Zenon DEF IInv

\* The last reference: the page is now the context's to give back.
LEMMA free_last_Inv ==
  ASSUME IInv, NEW k \in Contexts, free_last(k)
  PROVE  IInv'
<1>1. /\ TypeOK /\ ContextsOK /\ LockHeld /\ IsrSafe
      /\ OnePlace /\ NoLostPage /\ RefsCounted /\ CountExact
  BY Zenon DEF IInv
<1>2. /\ CpuOK(k) /\ RegsOK(k) /\ SnapOK(k) /\ StoreOK(k)
      /\ Core(k) \in Cores /\ k[2] \in 0 .. MaxNest
      /\ Running(k)
      /\ pc[k] = "store"
      /\ op[k] = "free"
      /\ page[k] \in Pages
      /\ refcount[page[k]] = 1
  <2>1. /\ CpuOK(k) /\ RegsOK(k) /\ SnapOK(k) /\ StoreOK(k)
        /\ Core(k) \in Cores /\ k[2] \in 0 .. MaxNest
    BY <1>1, ContextCore, Zenon DEF ContextsOK
  <2>2. /\ Running(k)
        /\ pc[k] = "store"
    BY Zenon DEF free_last, At
  <2>3. /\ op[k] = "free"
        /\ page[k] \in Pages
    BY <1>1, <2>1, <2>2, CpusAssumption, Zenon
    DEF RegsOK, SnapOK, StoreOK, Carries, TypeOK, Cores
  <2>4. refcount[page[k]] \in Nat /\ refs[page[k]] \in Nat
    BY <1>1, <2>3, Zenon DEF TypeOK
  <2>5. refcount[page[k]] = refs[page[k]] + 1
    BY <1>1, <2>2, <2>3, Zenon DEF RefsCounted, Dropping
  <2>6. /\ refcount[page[k]] = 1
    BY <2>1, <2>2, <2>4, <2>5 DEF free_last, NewCount, StoreOK
  <2> QED BY <2>1, <2>2, <2>3, <2>6, Zenon
<1>3. /\ \A x \in Pages : refcount'[x] = IF x = page[k] THEN 0 ELSE refcount[x]
      /\ \A x \in Cores : iflag'[x] = IF x = Core(k) THEN 1 ELSE iflag[x]
      /\ \A x \in Contexts : pc'[x] = IF x = k THEN "push" ELSE pc[x]
      /\ UNCHANGED <<shard, count, lock, refs, home, depth, op, tgt, page, snap, rc>>
  BY <1>1, <1>2, Zenon DEF free_last, StoreOK, TypeOK, At, NewCount, Goto, enable_interrupts, lists,
     counts, cpu, regs
<1>4. TypeOK'
  <2>1. refcount' \in [Pages -> Nat]
    BY <1>1, <1>2 DEF free_last, StoreOK, TypeOK, At, NewCount
  <2>2. iflag' \in [Cores -> {0, 1}]
    BY <1>1, <1>2, Zenon DEF free_last, TypeOK, At, NewCount, enable_interrupts
  <2>3. /\ pc' \in [Contexts -> Labels]
    BY <1>1, <1>2, CpusAssumption, Zenon DEF free_last, TypeOK, Labels, At, Goto
  <2> QED BY <2>1, <2>2, <2>3, <1>1, <1>3, Zenon DEF TypeOK
<1>5. OthersKept(k) /\ FlagsKept(k) /\ ListsKept(k)
  BY <1>2, <1>3, Zenon DEF OthersKept, FlagsKept, ListsKept, InCritical
<1>6. CountsKept(k)
  <2>1. home[page[k]] = Core(k)
    BY <1>2, Zenon DEF StoreOK
  <2>2. \A l \in Contexts : l # k => ~ Dropping(l, page[k])
    BY <2>1, <1>1, <1>2, NotDropping, Zenon
  <2> QED BY <2>2, <1>2, <1>3, Zenon DEF CountsKept
<1>7. ContextOK(k)'
  <2>1. CpuOK(k)'
    BY <1>2, <1>3, Zenon DEF CpuOK, Masked, Running
  <2>3. RegsOK(k)'
    BY <1>1, <1>2, <1>3, CpusAssumption, Zenon DEF RegsOK, Carries
  <2>2. SnapOK(k)' /\ StoreOK(k)'
    BY <1>2, <1>3, Zenon DEF SnapOK, StoreOK
  <2> QED BY <2>1, <2>2, <2>3, Zenon DEF ContextOK
<1>8. ContextsOK'
  BY <1>1, <1>2, <1>5, <1>6, <1>7, Others, Zenon DEF ContextsOK, ContextOK
<1>9. LockHeld' /\ IsrSafe'
  <2>1. \A l \in Contexts : /\ InCritical(l)' <=> InCritical(l)
                            /\ InCritical(l) => tgt'[l] = tgt[l]
    BY <1>2, <1>3, Zenon DEF InCritical
  <2> QED BY <1>1, <1>3, <1>8, <2>1, LocksFrame, Zenon
<1>10. OnePlace' /\ NoLostPage'
  <2>1. \A l \in Contexts : Carries(l)' <=> Carries(l) \/ l = k
    BY <1>2, <1>3, Zenon DEF Carries
  <2>2. \A l \in Contexts : Carries(l) => page[l] # page[k]
    <3>1. refcount[page[k]] # 0
      BY <1>2
    <3>2. \A l \in Contexts : Carries(l) => refcount[page[l]] = 0
      BY <1>1, Zenon DEF OnePlace
    <3> QED BY <3>1, <3>2, Zenon
  <2>3. \A s \in Cores : shard'[s] = shard[s] \ {page[k]}
    <3>1. refcount[page[k]] # 0 /\ page[k] \in Pages /\ shard' = shard
      BY <1>2, <1>3
    <3>2. \A s \in Cores : page[k] \notin shard[s]
      BY <1>1, <3>1, Zenon DEF OnePlace
    <3> QED BY <3>1, <3>2, Zenon
  <2>4. refcount'[page[k]] = 0 /\ \A q \in Pages : q # page[k] => refcount'[q] = refcount[q]
    BY <1>1, <1>2, <1>3, Zenon DEF OnePlace
  <2>5. \A l \in Contexts : Carries(l) => page[l] \in Pages
    BY <1>1, CarriedPages, Zenon
  <2> QED BY <1>1, <1>2, <1>3, <2>1, <2>2, <2>3, <2>4, <2>5, GainsPage, Zenon
<1>11. CountExact'
  BY <1>1, <1>3, Zenon DEF CountExact
<1>12. RefsCounted'
  <2>1. \A l \in Contexts : l # k => ~ Dropping(l, page[k])
    BY <1>1, <1>2, NotDropping, Zenon DEF StoreOK
  <2>3. /\ pc[k] = "store" /\ pc'[k] = "push"
        /\ refcount'[page[k]] - refs'[page[k]] = refcount[page[k]] - refs[page[k]] - 1
    <3>1. refcount[page[k]] \in Nat /\ refs[page[k]] \in Nat
      BY <1>1, <1>2, Zenon DEF TypeOK
    <3>2. /\ refcount'[page[k]] = 0
          /\ refs'[page[k]] = refs[page[k]]
          /\ pc[k] = "store" /\ pc'[k] = "push"
      BY <1>2, <1>3, Zenon
    <3> QED BY <1>2, <3>1, <3>2
  <2>4. \A q \in Pages : q # page[k] => refcount'[q] = refcount[q] /\ refs'[q] = refs[q]
    BY <1>3, Zenon
  <2>5. (pc[k] = "store" => page[k] = page[k]) /\ (pc'[k] = "store" => page'[k] = page[k])
    BY <1>2, <1>3, Zenon
  <2> QED BY <2>1, <2>3, <2>4, <2>5, <1>1, <1>4, <1>5, <1>2, RefsStep, Zenon
<1> QED BY <1>4, <1>8, <1>9, <1>10, <1>12, <1>11, Zenon DEF IInv

\* retain counts the new reference.
LEMMA retain_Inv ==
  ASSUME IInv, NEW k \in Contexts, NEW p \in Pages, retain(k, p)
  PROVE  IInv'
<1>1. /\ TypeOK /\ ContextsOK /\ LockHeld /\ IsrSafe
      /\ OnePlace /\ NoLostPage /\ RefsCounted /\ CountExact
  BY Zenon DEF IInv
<1>2. /\ CpuOK(k) /\ RegsOK(k) /\ SnapOK(k) /\ StoreOK(k)
      /\ Core(k) \in Cores /\ k[2] \in 0 .. MaxNest
      /\ Running(k)
      /\ pc[k] = "idle"
      /\ refs[p] > 0
  <2>1. /\ CpuOK(k) /\ RegsOK(k) /\ SnapOK(k) /\ StoreOK(k)
        /\ Core(k) \in Cores /\ k[2] \in 0 .. MaxNest
    BY <1>1, ContextCore, Zenon DEF ContextsOK
  <2>2. /\ Running(k)
        /\ pc[k] = "idle"
        /\ refs[p] > 0
    BY DEF retain, At
  <2> QED BY <2>1, <2>2, Zenon
<1>3. /\ \A x \in Pages : refcount'[x] = IF x = p THEN refcount[p] + 1 ELSE refcount[x]
      /\ \A x \in Pages : refs'[x] = IF x = p THEN refs[p] + 1 ELSE refs[x]
      /\ \A x \in Cores : iflag'[x] = IF x = Core(k) THEN 1 ELSE iflag[x]
      /\ UNCHANGED <<shard, count, lock, home, depth, op, pc, tgt, page, snap, rc>>
  BY <1>1, <1>2, Zenon DEF retain, TypeOK, At, enable_interrupts, lists, counts, cpu, regs
<1>4. TypeOK'
  <2>1. refcount' \in [Pages -> Nat]
    BY <1>1, <1>2 DEF retain, TypeOK, At
  <2>2. refs' \in [Pages -> Nat]
    BY <1>1, <1>2 DEF retain, TypeOK, At
  <2>3. iflag' \in [Cores -> {0, 1}]
    BY <1>1, <1>2, Zenon DEF retain, TypeOK, At, enable_interrupts
  <2> QED BY <2>1, <2>2, <2>3, <1>1, <1>3, Zenon DEF TypeOK
<1>5. OthersKept(k) /\ FlagsKept(k) /\ ListsKept(k)
  BY <1>2, <1>3, Zenon DEF OthersKept, FlagsKept, ListsKept, InCritical
<1>6. CountsKept(k)
  <2>1. home[p] = Core(k)
    BY <1>2, Zenon DEF StoreOK, retain
  <2>2. \A l \in Contexts : l # k => ~ Dropping(l, p)
    BY <2>1, <1>1, <1>2, NotDropping, Zenon
  <2> QED BY <2>2, <1>2, <1>3, Zenon DEF CountsKept
<1>7. ContextOK(k)'
  <2>1. CpuOK(k)'
    BY <1>2, <1>3, Zenon DEF CpuOK, Masked, Running
  <2>3. RegsOK(k)'
    BY <1>1, <1>2, <1>3, CpusAssumption, Zenon DEF RegsOK, Carries
  <2>2. SnapOK(k)' /\ StoreOK(k)'
    BY <1>2, <1>3, Zenon DEF SnapOK, StoreOK
  <2> QED BY <2>1, <2>2, <2>3, Zenon DEF ContextOK
<1>8. ContextsOK'
  BY <1>1, <1>2, <1>5, <1>6, <1>7, Others, Zenon DEF ContextsOK, ContextOK
<1>9. LockHeld' /\ IsrSafe'
  <2>1. \A l \in Contexts : /\ InCritical(l)' <=> InCritical(l)
                            /\ InCritical(l) => tgt'[l] = tgt[l]
    BY <1>2, <1>3, Zenon DEF InCritical
  <2> QED BY <1>1, <1>3, <1>8, <2>1, LocksFrame, Zenon
<1>10. OnePlace' /\ NoLostPage' /\ CountExact'
  <2>1. PagesKept
    <3>1. refcount[p] \in Nat /\ refs[p] \in Nat /\ refcount[p] >= refs[p]
      BY <1>1 DEF RefsCounted, TypeOK
    <3>2. refcount[p] > 0 /\ refcount'[p] > 0
      BY <3>1, <1>2, <1>3
    <3> QED BY <3>2, <1>2, <1>3, Zenon DEF PagesKept, Carries
  <2>2. \A l \in Contexts : Carries(l) => page[l] \in Pages
    BY <1>1, CarriedPages, Zenon
  <2> QED BY <1>1, <2>1, <2>2, PagesFrame, Zenon
<1>11. RefsCounted'
  <2>1. \A l \in Contexts : l # k => ~ Dropping(l, p)
    BY <1>1, <1>2, NotDropping, Zenon DEF StoreOK, retain
  <2>3. /\ pc[k] = "idle" /\ pc'[k] = "idle"
        /\ refcount'[p] - refs'[p] = refcount[p] - refs[p]
    <3>1. refcount[p] \in Nat /\ refs[p] \in Nat
      BY <1>1, <1>2, Zenon DEF TypeOK
    <3>2. /\ refcount'[p] = refcount[p] + 1
          /\ refs'[p] = refs[p] + 1
          /\ pc[k] = "idle" /\ pc'[k] = "idle"
      BY <1>2, <1>3, Zenon
    <3> QED BY <3>1, <3>2
  <2>4. \A q \in Pages : q # p => refcount'[q] = refcount[q] /\ refs'[q] = refs[q]
    BY <1>3, Zenon
  <2>5. (pc[k] = "store" => page[k] = p) /\ (pc'[k] = "store" => page'[k] = p)
    BY <1>2, <1>3, Zenon
  <2> QED BY <2>1, <2>3, <2>4, <2>5, <1>1, <1>4, <1>5, <1>2, RefsStep, Zenon
<1> QED BY <1>4, <1>8, <1>9, <1>10, <1>11, Zenon DEF IInv

-----------------------------------------------------------------------------
(* The steps that change a free list.                                        *)
INSTANCE FiniteSetTheorems

\* There are finitely many pages.
LEMMA FinitePages == IsFiniteSet(Pages)
  BY FS_Interval, PagesAssumption DEF Pages

\* The pop: the page leaves the list and is the context's.
LEMMA pop_Inv ==
  ASSUME IInv, NEW k \in Contexts, pop(k)
  PROVE  IInv'
<1>1. /\ TypeOK /\ ContextsOK /\ LockHeld /\ IsrSafe
      /\ OnePlace /\ NoLostPage /\ RefsCounted /\ CountExact
  BY Zenon DEF IInv
<1>2. /\ CpuOK(k) /\ RegsOK(k) /\ SnapOK(k) /\ StoreOK(k)
      /\ Core(k) \in Cores /\ k[2] \in 0 .. MaxNest
      /\ Running(k)
      /\ pc[k] = "write"
      /\ op[k] \in {"alloc", "steal"}
      /\ tgt[k] \in Cores
      /\ page[k] \in shard[tgt[k]]
      /\ page[k] \in Pages
  <2>1. /\ CpuOK(k) /\ RegsOK(k) /\ SnapOK(k) /\ StoreOK(k)
        /\ Core(k) \in Cores /\ k[2] \in 0 .. MaxNest
    BY <1>1, ContextCore, Zenon DEF ContextsOK
  <2>2. /\ Running(k)
        /\ pc[k] = "write"
        /\ op[k] \in {"alloc", "steal"}
    BY Zenon DEF pop, At
  <2>3. /\ tgt[k] \in Cores
        /\ page[k] \in shard[tgt[k]]
        /\ page[k] \in Pages
    BY <1>1, <2>1, <2>2, CpusAssumption, Zenon
    DEF RegsOK, SnapOK, StoreOK, Carries, TypeOK, Cores
  <2> QED BY <2>1, <2>2, <2>3, Zenon
<1>3. /\ \A x \in Cores : shard'[x] = IF x = tgt[k] THEN shard[tgt[k]] \ {page[k]} ELSE shard[x]
      /\ \A x \in Cores : count'[x] = IF x = tgt[k] THEN count[tgt[k]] - 1 ELSE count[x]
      /\ \A x \in Cores : lock'[x] = IF x = tgt[k] THEN 0 ELSE lock[x]
      /\ \A x \in Cores : iflag'[x] = IF x = Core(k) THEN 1 ELSE iflag[x]
      /\ \A x \in Contexts : snap'[x] = IF x = k THEN {} ELSE snap[x]
      /\ \A x \in Contexts : pc'[x] = IF x = k THEN "mark" ELSE pc[x]
      /\ UNCHANGED <<refcount, refs, home, depth, op, tgt, page, rc>>
  BY <1>1, <1>2, Zenon DEF pop, SnapOK, TypeOK, At, Goto, enable_interrupts, release_lock, lists,
     counts, cpu, regs
<1>4. TypeOK'
  <2>1. shard' \in [Cores -> SUBSET Pages]
    BY <1>1, <1>2, Zenon DEF pop, SnapOK, TypeOK, At
  <2>2. count' \in [Cores -> Int]
    BY <1>1, <1>2 DEF pop, TypeOK, At
  <2>3. lock' \in [Cores -> {0, 1}]
    BY <1>1, <1>2, Zenon DEF pop, TypeOK, At, release_lock
  <2>4. iflag' \in [Cores -> {0, 1}]
    BY <1>1, <1>2, Zenon DEF pop, TypeOK, At, enable_interrupts
  <2>5. /\ snap' \in [Contexts -> SUBSET Pages]
        /\ pc' \in [Contexts -> Labels]
    BY <1>1, <1>2, CpusAssumption, Zenon DEF pop, TypeOK, Labels, At, Goto
  <2> QED BY <2>1, <2>2, <2>3, <2>4, <2>5, <1>1, <1>3, Zenon DEF TypeOK
<1>5. OthersKept(k) /\ FlagsKept(k) /\ ListsKept(k)
  BY <1>2, <1>3, Zenon DEF OthersKept, FlagsKept, ListsKept, InCritical
<1>6. CountsKept(k)
  BY <1>3, Zenon DEF CountsKept
<1>7. ContextOK(k)'
  <2>1. CpuOK(k)'
    BY <1>2, <1>3, Zenon DEF CpuOK, Masked, Running
  <2>3. RegsOK(k)'
    BY <1>1, <1>2, <1>3, CpusAssumption, Zenon DEF RegsOK, Carries, TypeOK
  <2>2. SnapOK(k)' /\ StoreOK(k)'
    BY <1>2, <1>3, Zenon DEF SnapOK, StoreOK
  <2> QED BY <2>1, <2>2, <2>3, Zenon DEF ContextOK
<1>8. ContextsOK'
  BY <1>1, <1>2, <1>5, <1>6, <1>7, Others, Zenon DEF ContextsOK, ContextOK
<1>9. LockHeld' /\ IsrSafe'
  <2>1. InCritical(k) /\ ~ InCritical(k)'
    BY <1>2, <1>3, Zenon DEF InCritical
  <2>2. lock' = [lock EXCEPT ![tgt[k]] = 0]
    BY Zenon DEF pop, release_lock
  <2> QED BY <1>1, <1>5, <1>8, <2>1, <2>2, Release, Zenon
<1>10. OnePlace' /\ NoLostPage'
  <2>1. \A l \in Contexts : Carries(l)' <=> Carries(l) \/ l = k
    BY <1>2, <1>3, Zenon DEF Carries
  <2>2. \A l \in Contexts : Carries(l) => page[l] # page[k]
    BY <1>1, <1>2, Zenon DEF OnePlace
  <2>3. \A s \in Cores : shard'[s] = shard[s] \ {page[k]}
    BY <1>1, <1>2, <1>3 DEF OnePlace
  <2>4. refcount'[page[k]] = 0 /\ \A q \in Pages : q # page[k] => refcount'[q] = refcount[q]
    BY <1>1, <1>2, <1>3, Zenon DEF OnePlace
  <2>5. \A l \in Contexts : Carries(l) => page[l] \in Pages
    BY <1>1, CarriedPages, Zenon
  <2> QED BY <1>1, <1>2, <1>3, <2>1, <2>2, <2>3, <2>4, <2>5, GainsPage, Zenon
<1>11. CountExact'
  <2>1. IsFiniteSet(shard[tgt[k]])
    BY <1>1, <1>2, FinitePages, FS_Subset DEF TypeOK
  <2>2. Cardinality(shard[tgt[k]] \ {page[k]}) = Cardinality(shard[tgt[k]]) - 1
    BY <2>1, <1>2, FS_RemoveElement, Zenon
  <2>3. shard'[tgt[k]] = shard[tgt[k]] \ {page[k]} /\ count'[tgt[k]] = count[tgt[k]] - 1
    BY <1>2, <1>3, Zenon
  <2>4. \A c \in Cores : c # tgt[k] => shard'[c] = shard[c] /\ count'[c] = count[c]
    BY <1>3, Zenon
  <2> QED BY <2>2, <2>3, <2>4, <1>1, <1>2, Zenon DEF CountExact
<1>12. RefsCounted'
  <2>1. RefsKept
    BY <1>2, <1>3, Zenon DEF RefsKept, Dropping
  <2> QED BY <1>1, <2>1, RefsFrame, Zenon
<1> QED BY <1>4, <1>8, <1>9, <1>10, <1>12, <1>11, Zenon DEF IInv

\* The push: the page is linked in front of the list.
LEMMA free_write_Inv ==
  ASSUME IInv, NEW k \in Contexts, free_write(k)
  PROVE  IInv'
<1>1. /\ TypeOK /\ ContextsOK /\ LockHeld /\ IsrSafe
      /\ OnePlace /\ NoLostPage /\ RefsCounted /\ CountExact
  BY Zenon DEF IInv
<1>2. /\ CpuOK(k) /\ RegsOK(k) /\ SnapOK(k) /\ StoreOK(k)
      /\ Core(k) \in Cores /\ k[2] \in 0 .. MaxNest
      /\ Running(k)
      /\ pc[k] = "write"
      /\ op[k] = "free"
      /\ tgt[k] \in Cores
      /\ page[k] \in Pages
      /\ page[k] \notin shard[tgt[k]]
  <2>1. /\ CpuOK(k) /\ RegsOK(k) /\ SnapOK(k) /\ StoreOK(k)
        /\ Core(k) \in Cores /\ k[2] \in 0 .. MaxNest
    BY <1>1, ContextCore, Zenon DEF ContextsOK
  <2>2. /\ Running(k)
        /\ pc[k] = "write"
        /\ op[k] = "free"
    BY Zenon DEF free_write, At
  <2>3. /\ tgt[k] \in Cores
        /\ page[k] \in Pages
        /\ page[k] \notin shard[tgt[k]]
    BY <1>1, <2>1, <2>2, CpusAssumption, Zenon
    DEF RegsOK, SnapOK, StoreOK, Carries, OnePlace, TypeOK, Cores
  <2> QED BY <2>1, <2>2, <2>3, Zenon
<1>3. /\ \A x \in Cores : shard'[x] = IF x = tgt[k] THEN shard[tgt[k]] \cup {page[k]} ELSE shard[x]
      /\ \A x \in Cores : count'[x] = IF x = tgt[k] THEN count[tgt[k]] + 1 ELSE count[x]
      /\ \A x \in Cores : lock'[x] = IF x = tgt[k] THEN 0 ELSE lock[x]
      /\ \A x \in Cores : iflag'[x] = IF x = Core(k) THEN 1 ELSE iflag[x]
      /\ \A x \in Contexts : pc'[x] = IF x = k THEN "idle" ELSE pc[x]
      /\ \A x \in Contexts : op'[x] = IF x = k THEN "none" ELSE op[x]
      /\ \A x \in Contexts : tgt'[x] = IF x = k THEN 0 ELSE tgt[x]
      /\ \A x \in Contexts : page'[x] = IF x = k THEN 0 ELSE page[x]
      /\ \A x \in Contexts : snap'[x] = IF x = k THEN {} ELSE snap[x]
      /\ \A x \in Contexts : rc'[x] = IF x = k THEN 0 ELSE rc[x]
      /\ UNCHANGED <<refcount, refs, home, depth>>
  BY <1>1, <1>2, Zenon DEF free_write, SnapOK, TypeOK, At, Return, enable_interrupts, release_lock,
     lists, counts, cpu, regs
<1>4. TypeOK'
  <2>1. shard' \in [Cores -> SUBSET Pages]
    BY <1>1, <1>2, Zenon DEF free_write, SnapOK, TypeOK, At
  <2>2. count' \in [Cores -> Int]
    BY <1>1, <1>2 DEF free_write, TypeOK, At
  <2>3. lock' \in [Cores -> {0, 1}]
    BY <1>1, <1>2, Zenon DEF free_write, TypeOK, At, release_lock
  <2>4. iflag' \in [Cores -> {0, 1}]
    BY <1>1, <1>2, Zenon DEF free_write, TypeOK, At, enable_interrupts
  <2>5. /\ pc' \in [Contexts -> Labels]
        /\ op' \in [Contexts -> {"alloc", "steal", "free", "none"}]
        /\ tgt' \in [Contexts -> 0 .. MAX_CPUS]
        /\ page' \in [Contexts -> {0} \cup Pages]
        /\ snap' \in [Contexts -> SUBSET Pages]
        /\ rc' \in [Contexts -> Nat]
    BY <1>1, <1>2, CpusAssumption DEF free_write, TypeOK, Labels, At, Return
  <2> QED BY <2>1, <2>2, <2>3, <2>4, <2>5, <1>1, <1>3 DEF TypeOK
<1>5. OthersKept(k) /\ FlagsKept(k) /\ ListsKept(k)
  BY <1>2, <1>3, Zenon DEF OthersKept, FlagsKept, ListsKept, InCritical
<1>6. CountsKept(k)
  BY <1>3, Zenon DEF CountsKept
<1>7. ContextOK(k)'
  <2>1. CpuOK(k)'
    BY <1>2, <1>3, Zenon DEF CpuOK, Masked, Running
  <2>3. RegsOK(k)'
    BY <1>1, <1>2, <1>3, CpusAssumption, Zenon DEF RegsOK, Carries, TypeOK
  <2>2. SnapOK(k)' /\ StoreOK(k)'
    BY <1>2, <1>3, Zenon DEF SnapOK, StoreOK
  <2> QED BY <2>1, <2>2, <2>3, Zenon DEF ContextOK
<1>8. ContextsOK'
  BY <1>1, <1>2, <1>5, <1>6, <1>7, Others, Zenon DEF ContextsOK, ContextOK
<1>9. LockHeld' /\ IsrSafe'
  <2>1. InCritical(k) /\ ~ InCritical(k)'
    BY <1>2, <1>3, Zenon DEF InCritical
  <2>2. lock' = [lock EXCEPT ![tgt[k]] = 0]
    BY Zenon DEF free_write, release_lock
  <2> QED BY <1>1, <1>5, <1>8, <2>1, <2>2, Release, Zenon
<1>10. OnePlace' /\ NoLostPage'
  <2>1. \A l \in Contexts : (Carries(l)' <=> Carries(l) /\ l # k) /\ (l # k => page'[l] = page[l])
    BY <1>2, <1>3, Zenon DEF Carries
  <2>2. Carries(k) /\ \A q \in Pages : q # page[k] => refcount'[q] = refcount[q]
    BY <1>2, <1>3, Zenon DEF Carries
  <2>3. /\ refcount'[page[k]] = refcount[page[k]] /\ tgt[k] \in Cores
        /\ \A s \in Cores : shard'[s] = IF s = tgt[k] THEN shard[s] \cup {page[k]} ELSE shard[s]
    BY <1>2, <1>3, Zenon
  <2>5. \A l \in Contexts : Carries(l) => page[l] \in Pages
    BY <1>1, CarriedPages, Zenon
  <2> QED BY <1>1, <1>2, <2>1, <2>2, <2>3, <2>5, GivesPage, Zenon
<1>11. CountExact'
  <2>1. IsFiniteSet(shard[tgt[k]])
    BY <1>1, <1>2, FinitePages, FS_Subset DEF TypeOK
  <2>2. Cardinality(shard[tgt[k]] \cup {page[k]}) = Cardinality(shard[tgt[k]]) + 1
    BY <2>1, <1>2, FS_AddElement, Zenon
  <2>3. shard'[tgt[k]] = shard[tgt[k]] \cup {page[k]} /\ count'[tgt[k]] = count[tgt[k]] + 1
    BY <1>2, <1>3, Zenon
  <2>4. \A c \in Cores : c # tgt[k] => shard'[c] = shard[c] /\ count'[c] = count[c]
    BY <1>3, Zenon
  <2> QED BY <2>2, <2>3, <2>4, <1>1, <1>2, Zenon DEF CountExact
<1>12. RefsCounted'
  <2>1. RefsKept
    BY <1>2, <1>3, Zenon DEF RefsKept, Dropping
  <2> QED BY <1>1, <2>1, RefsFrame, Zenon
<1> QED BY <1>4, <1>8, <1>9, <1>10, <1>12, <1>11, Zenon DEF IInv

\* The boot state satisfies the invariant: add_region deals the pages out.
LEMMA InitInv == add_region => IInv
<1> SUFFICES ASSUME add_region PROVE IInv
  BY Zenon
<1>1. NUM_CPUS \in Nat \ {0} /\ NUM_CPUS <= MAX_CPUS /\ 0 \in Cores
  BY CpusAssumption DEF Cores
<1>2. TypeOK
  BY <1>1, CpusAssumption, FinitePages, FS_Subset, FS_CardinalityType DEF add_region, TypeOK,
     Labels, Cores
<1>3. /\ \A k \in Contexts : pc[k] = "idle" /\ op[k] = "none" /\ depth[Core(k)] = 0
      /\ \A p \in Pages : refcount[p] = 0 /\ refs[p] = 0
      /\ \A c \in Cores : lock[c] = 0 /\ count[c] = Cardinality(shard[c])
      /\ \A c \in Cores, p \in Pages : p \in shard[c] <=> (p - 1) % NUM_CPUS = c
  BY ContextCore, Zenon DEF add_region
<1>4. ContextsOK
  BY <1>3, Zenon DEF ContextsOK, CpuOK, Masked, RegsOK, Carries, SnapOK, StoreOK
<1>5. LockHeld /\ IsrSafe /\ CountExact
  BY <1>3 DEF LockHeld, IsrSafe, InCritical, CountExact
<1>6. OnePlace
  BY <1>3, Zenon DEF OnePlace, Carries
<1>7. NoLostPage
  <2>1. \A p \in Pages : (p - 1) % NUM_CPUS \in Cores
    BY <1>1, CpusAssumption DEF Pages, Cores
  <2> QED BY <1>3, <2>1, Zenon DEF NoLostPage
<1>8. RefsCounted
  BY <1>3, Zenon DEF RefsCounted, Dropping
<1> QED BY <1>2, <1>4, <1>5, <1>6, <1>7, <1>8, Zenon DEF IInv

\* IInv mentions the variables only.
LEMMA StutterInv == IInv /\ UNCHANGED vars => IInv'
<1> SUFFICES ASSUME IInv, UNCHANGED vars PROVE IInv'
  BY Zenon
<1>1. TypeOK' /\ \A l \in Contexts : CpuOK(l)'
  BY Zenon DEF IInv, vars, TypeOK, ContextsOK, CpuOK, Masked, Running
<1> QED BY <1>1, CpuStep, Zenon DEF vars

\* The allocator keeps its inductive invariant on any number of cores.
THEOREM AllocatorInvariant == Spec => []IInv
<1>1. IInv /\ [Next]_vars => IInv'
  <2> SUFFICES ASSUME IInv, [Next]_vars PROVE IInv'
    BY Zenon
  <2>1. ASSUME NEW k \in Contexts, acquire_lock(k) PROVE IInv'
    BY <2>1, acquire_lock_Inv, Zenon
  <2>2. ASSUME NEW k \in Contexts, alloc(k) PROVE IInv'
    BY <2>2, alloc_Inv
  <2>3. ASSUME NEW k \in Contexts, alloc_head(k) PROVE IInv'
    BY <2>3, alloc_head_Inv, Zenon
  <2>4. ASSUME NEW k \in Contexts, alloc_empty(k) PROVE IInv'
    BY <2>4, alloc_empty_Inv, Zenon
  <2>5. ASSUME NEW k \in Contexts, pop(k) PROVE IInv'
    BY <2>5, pop_Inv, Zenon
  <2>6. ASSUME NEW k \in Contexts, alloc_return(k) PROVE IInv'
    BY <2>6, alloc_return_Inv, Zenon
  <2>7. ASSUME NEW k \in Contexts, steal_self(k) PROVE IInv'
    BY <2>7, steal_self_Inv, Zenon
  <2>8. ASSUME NEW k \in Contexts, steal_visit(k) PROVE IInv'
    BY <2>8, steal_visit_Inv, Zenon
  <2>9. ASSUME NEW k \in Contexts, steal_head(k) PROVE IInv'
    BY <2>9, steal_head_Inv, Zenon
  <2>10. ASSUME NEW k \in Contexts, steal_skip(k) PROVE IInv'
    BY <2>10, steal_skip_Inv, Zenon
  <2>11. ASSUME NEW k \in Contexts, steal_fail(k) PROVE IInv'
    BY <2>11, steal_fail_Inv, Zenon
  <2>12. ASSUME NEW k \in Contexts, NEW p \in Pages, free(k, p) PROVE IInv'
    BY <2>12, free_Inv
  <2>13. ASSUME NEW k \in Contexts, free_shared(k) PROVE IInv'
    BY <2>13, free_shared_Inv, Zenon
  <2>14. ASSUME NEW k \in Contexts, free_last(k) PROVE IInv'
    BY <2>14, free_last_Inv, Zenon
  <2>15. ASSUME NEW k \in Contexts, free_push(k) PROVE IInv'
    BY <2>15, free_push_Inv, Zenon
  <2>16. ASSUME NEW k \in Contexts, free_read(k) PROVE IInv'
    BY <2>16, free_read_Inv, Zenon
  <2>17. ASSUME NEW k \in Contexts, free_write(k) PROVE IInv'
    BY <2>17, free_write_Inv, Zenon
  <2>18. ASSUME NEW k \in Contexts, NEW p \in Pages, retain(k, p) PROVE IInv'
    BY <2>18, retain_Inv, Zenon
  <2>19. ASSUME NEW c \in Cores, isr_enter(c) PROVE IInv'
    BY <2>19, isr_enter_Inv, Zenon
  <2>20. ASSUME NEW c \in Cores, isr_return(c) PROVE IInv'
    BY <2>20, isr_return_Inv, Zenon
  <2>21. ASSUME NEW c \in Cores, syscall_boundary(c) PROVE IInv'
    BY <2>21, syscall_boundary_Inv, Zenon
  <2> QED BY <2>1, <2>2, <2>3, <2>4, <2>5, <2>6, <2>7, <2>8, <2>9, <2>10, <2>11, <2>12, <2>13,
     <2>14, <2>15, <2>16, <2>17, <2>18, <2>19, <2>20, <2>21, StutterInv DEF Next, Step, Call,
     Interrupt
<1> QED BY <1>1, InitInv, PTL DEF Spec

\* A lock has one holder, and no handler ever spins on a lock that the code it
\* interrupted holds.
THEOREM AlwaysIsrSafe == Spec => []IsrSafe
<1>1. IInv => IsrSafe
  BY Zenon DEF IInv
<1> QED BY <1>1, AllocatorInvariant, PTL

\* alloc never hands out a page that is in use, free never links a page twice.
THEOREM AlwaysOnePlace == Spec => []OnePlace
<1>1. IInv => OnePlace
  BY Zenon DEF IInv
<1> QED BY <1>1, AllocatorInvariant, PTL

\* No page is ever lost between the lists and its users.
THEOREM NeverLosesPages == Spec => []NoLostPage
<1>1. IInv => NoLostPage
  BY Zenon DEF IInv
<1> QED BY <1>1, AllocatorInvariant, PTL

\* The reference counts are exact.
THEOREM AlwaysCounted == Spec => []RefsCounted
<1>1. IInv => RefsCounted
  BY Zenon DEF IInv
<1> QED BY <1>1, AllocatorInvariant, PTL
============================================================================
