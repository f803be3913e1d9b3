-------------------------------- MODULE Pmm --------------------------------
(***************************************************************************)
(* The physical page allocator of kernel/core/pmm: one free list per core, *)
(* each under a spinlock, page reference counts, and stealing from other   *)
(* cores' lists.                                                           *)
(*                                                                         *)
(* Every core runs a thread and, on top of it, interrupt handlers, which   *)
(* allocate and free pages too (virtio_net_isr reaches handle_server_syn). *)
(* A handler runs to its end before what it interrupted goes on, so only   *)
(* the topmost context of a core takes steps.  alloc and free end with     *)
(* enable_interrupts whatever the flag was before, so handlers do nest.    *)
(*                                                                         *)
(* The order of a free list is left out: a list is a set, its head any of  *)
(* its members.  Reading the list and writing it back are two steps.       *)
(***************************************************************************)
EXTENDS Integers, FiniteSets

CONSTANTS
  MAX_CPUS,         \* cores that run
  NUM_CPUS,         \* lists that add_region fills and steal_from_remote visits
  NumPages,         \* pages of the regions added at boot
  STEAL_THRESHOLD,  \* a list is stolen from only when it is longer than this
  MaxNest,          \* bound: depth of nested interrupt handlers
  MaxRefs           \* bound: references to one page, whose count is a byte

ASSUME CpusAssumption ==
  MAX_CPUS \in Nat /\ NUM_CPUS \in 1 .. MAX_CPUS /\ MaxNest \in Nat
ASSUME PagesAssumption ==
  NumPages \in Nat /\ STEAL_THRESHOLD \in Nat /\ MaxRefs \in 0 .. 255

Cores == 0 .. MAX_CPUS - 1
Pages == 1 .. NumPages
Contexts == Cores \X (0 .. MaxNest)
Core(k) == k[1]

VARIABLES
  shard,        \* the pages on each core's free list
  count,        \* the length word kept with each list
  lock,         \* the spinlock of each list
  refcount,     \* PMM_REFCOUNTS
  refs,         \* references that callers hold
  home,         \* the core on which they hold them
  iflag,        \* the interrupt flag of each core
  depth,        \* the context a core is running
  op,           \* what a context is doing: "alloc", "steal", "free" or "none"
  pc,           \* how far the call has come
  tgt,          \* the list it works on
  page,         \* the page it works on
  snap,         \* the list as it has read it
  rc            \* the reference count as it has read it

lists == <<shard, count, lock>>
counts == <<refcount, refs, home>>
cpu == <<iflag, depth>>
regs == <<op, tgt, page, snap, rc>>
vars == <<shard, count, lock, refcount, refs, home, iflag, depth,
          op, pc, tgt, page, snap, rc>>

add_region ==
  /\ shard = [c \in Cores |-> {p \in Pages : (p - 1) % NUM_CPUS = c}]
  /\ count = [c \in Cores |-> Cardinality(shard[c])]
  /\ lock = [c \in Cores |-> 0]
  /\ refcount = [p \in Pages |-> 0]
  /\ refs = [p \in Pages |-> 0]
  /\ home = [p \in Pages |-> 0]
  /\ iflag = [c \in Cores |-> 1]
  /\ depth = [c \in Cores |-> 0]
  /\ op = [k \in Contexts |-> "none"]
  /\ pc = [k \in Contexts |-> "idle"]
  /\ tgt = [k \in Contexts |-> 0]
  /\ page = [k \in Contexts |-> 0]
  /\ snap = [k \in Contexts |-> {}]
  /\ rc = [k \in Contexts |-> 0]

Running(k) == depth[Core(k)] = k[2]
At(k, label) == Running(k) /\ pc[k] = label
Goto(k, label) == pc' = [pc EXCEPT ![k] = label]

\* The locals of a call are dead when it returns.
Return(k) ==
  /\ pc' = [pc EXCEPT ![k] = "idle"]
  /\ op' = [op EXCEPT ![k] = "none"]
  /\ tgt' = [tgt EXCEPT ![k] = 0]
  /\ page' = [page EXCEPT ![k] = 0]
  /\ snap' = [snap EXCEPT ![k] = {}]
  /\ rc' = [rc EXCEPT ![k] = 0]

disable_interrupts(k) == iflag' = [iflag EXCEPT ![Core(k)] = 0] /\ UNCHANGED depth
enable_interrupts(k) == iflag' = [iflag EXCEPT ![Core(k)] = 1] /\ UNCHANGED depth

\* Mutant: a plain test of the lock word lets two cores in.
acquire_lock_NoTest(k) ==
  /\ At(k, "lock")
  /\ lock' = [lock EXCEPT ![tgt[k]] = 1]
  /\ Goto(k, "read")
  /\ UNCHANGED <<shard, count, counts, cpu, regs>>

acquire_lock(k) ==
  /\ At(k, "lock") /\ lock[tgt[k]] = 0
  /\ lock' = [lock EXCEPT ![tgt[k]] = 1]
  /\ Goto(k, "read")
  /\ UNCHANGED <<shard, count, counts, cpu, regs>>

release_lock(k) == lock' = [lock EXCEPT ![tgt[k]] = 0]

(***************************************************************************)
(* alloc, and steal_from_remote when the local list is empty.              *)
(***************************************************************************)
\* Mutant: the interrupt flag is left alone around the critical section.
alloc_NoCli(k) ==
  /\ At(k, "idle")
  /\ op' = [op EXCEPT ![k] = "alloc"]
  /\ tgt' = [tgt EXCEPT ![k] = Core(k)]
  /\ Goto(k, "lock")
  /\ UNCHANGED <<lists, counts, cpu, page, snap, rc>>

alloc(k) ==
  /\ At(k, "idle")
  /\ disable_interrupts(k)
  /\ op' = [op EXCEPT ![k] = "alloc"]
  /\ tgt' = [tgt EXCEPT ![k] = Core(k)]
  /\ Goto(k, "lock")
  /\ UNCHANGED <<lists, counts, page, snap, rc>>

\* The head is read; its next pointer stands for the rest of the list.
ReadHead(k) ==
  /\ \E p \in shard[tgt[k]] : page' = [page EXCEPT ![k] = p]
  /\ snap' = [snap EXCEPT ![k] = shard[tgt[k]]]
  /\ Goto(k, "write")
  /\ UNCHANGED <<lists, counts, cpu, op, tgt, rc>>

alloc_head(k) == At(k, "read") /\ op[k] = "alloc" /\ ReadHead(k)

\* Mutant: on an empty list the loop waits for a page with the lock held.
alloc_empty_Waits(k) ==
  /\ At(k, "read") /\ op[k] = "alloc" /\ shard[tgt[k]] = {}
  /\ UNCHANGED vars

alloc_empty(k) ==
  /\ At(k, "read") /\ op[k] = "alloc" /\ shard[tgt[k]] = {}
  /\ release_lock(k)
  /\ enable_interrupts(k)
  /\ op' = [op EXCEPT ![k] = "steal"]
  /\ tgt' = [tgt EXCEPT ![k] = 0]
  /\ Goto(k, "visit")
  /\ UNCHANGED <<shard, count, counts, page, snap, rc>>

pop(k) ==
  /\ At(k, "write") /\ op[k] \in {"alloc", "steal"}
  /\ shard' = [shard EXCEPT ![tgt[k]] = snap[k] \ {page[k]}]
  /\ count' = [count EXCEPT ![tgt[k]] = @ - 1]
  /\ release_lock(k)
  /\ enable_interrupts(k)
  /\ Goto(k, "mark")
  /\ snap' = [snap EXCEPT ![k] = {}]
  /\ UNCHANGED <<counts, op, tgt, page, rc>>

alloc_return(k) ==
  /\ At(k, "mark")
  /\ refcount' = [refcount EXCEPT ![page[k]] = 1]
  /\ refs' = [refs EXCEPT ![page[k]] = 1]
  /\ home' = [home EXCEPT ![page[k]] = Core(k)]
  /\ Return(k)
  /\ UNCHANGED <<lists, cpu>>

\* The loop over victims: the core's own list is passed over, and the end of
\* the loop is the failure of the allocation.
steal_self(k) ==
  /\ At(k, "visit") /\ tgt[k] < NUM_CPUS /\ tgt[k] = Core(k)
  /\ tgt' = [tgt EXCEPT ![k] = @ + 1]
  /\ UNCHANGED <<lists, counts, cpu, pc, op, page, snap, rc>>

steal_visit(k) ==
  /\ At(k, "visit") /\ tgt[k] < NUM_CPUS /\ tgt[k] # Core(k)
  /\ disable_interrupts(k)
  /\ Goto(k, "lock")
  /\ UNCHANGED <<lists, counts, regs>>

steal_head(k) ==
  /\ At(k, "read") /\ op[k] = "steal" /\ count[tgt[k]] > STEAL_THRESHOLD
  /\ ReadHead(k)

steal_skip(k) ==
  /\ At(k, "read") /\ op[k] = "steal"
  /\ count[tgt[k]] <= STEAL_THRESHOLD \/ shard[tgt[k]] = {}
  /\ release_lock(k)
  /\ enable_interrupts(k)
  /\ tgt' = [tgt EXCEPT ![k] = @ + 1]
  /\ Goto(k, "visit")
  /\ UNCHANGED <<shard, count, counts, op, page, snap, rc>>

steal_fail(k) ==
  /\ At(k, "visit") /\ tgt[k] >= NUM_CPUS
  /\ Return(k)
  /\ UNCHANGED <<lists, counts, cpu>>

(***************************************************************************)
(* free and retain.  A caller gives up a reference it holds.  The counts   *)
(* have no lock: a page's references are held on one core (processes, the  *)
(* only holders of a shared page, run on the boot processor).              *)
(***************************************************************************)
\* Mutant: the count is read and written with interrupts enabled.
free_NoCli(k, p) ==
  /\ At(k, "idle") /\ refs[p] > 0 /\ home[p] = Core(k)
  /\ refs' = [refs EXCEPT ![p] = @ - 1]
  /\ op' = [op EXCEPT ![k] = "free"]
  /\ page' = [page EXCEPT ![k] = p]
  /\ rc' = [rc EXCEPT ![k] = refcount[p]]
  /\ Goto(k, "store")
  /\ UNCHANGED <<lists, refcount, home, cpu, tgt, snap>>

free(k, p) ==
  /\ At(k, "idle") /\ refs[p] > 0 /\ home[p] = Core(k)
  /\ disable_interrupts(k)
  /\ refs' = [refs EXCEPT ![p] = @ - 1]
  /\ op' = [op EXCEPT ![k] = "free"]
  /\ page' = [page EXCEPT ![k] = p]
  /\ rc' = [rc EXCEPT ![k] = refcount[p]]
  /\ Goto(k, "store")
  /\ UNCHANGED <<lists, refcount, home, tgt, snap>>

\* The count that free goes on with: a count of zero is left alone.
NewCount(k) == IF rc[k] > 0 THEN rc[k] - 1 ELSE refcount[page[k]]

\* Mutant: the early return is taken for a count of zero too.
free_shared_Always(k) ==
  /\ At(k, "store") /\ NewCount(k) >= 0
  /\ refcount' = [refcount EXCEPT ![page[k]] = NewCount(k)]
  /\ enable_interrupts(k)
  /\ Return(k)
  /\ UNCHANGED <<lists, refs, home>>

free_shared(k) ==
  /\ At(k, "store") /\ NewCount(k) > 0
  /\ refcount' = [refcount EXCEPT ![page[k]] = NewCount(k)]
  /\ enable_interrupts(k)
  /\ Return(k)
  /\ UNCHANGED <<lists, refs, home>>

free_last(k) ==
  /\ At(k, "store") /\ NewCount(k) = 0
  /\ refcount' = [refcount EXCEPT ![page[k]] = NewCount(k)]
  /\ enable_interrupts(k)
  /\ Goto(k, "push")
  /\ UNCHANGED <<lists, refs, home, regs>>

free_push(k) ==
  /\ At(k, "push")
  /\ disable_interrupts(k)
  /\ tgt' = [tgt EXCEPT ![k] = Core(k)]
  /\ Goto(k, "lock")
  /\ UNCHANGED <<lists, counts, op, page, snap, rc>>

free_read(k) ==
  /\ At(k, "read") /\ op[k] = "free"
  /\ snap' = [snap EXCEPT ![k] = shard[tgt[k]]]
  /\ Goto(k, "write")
  /\ UNCHANGED <<lists, counts, cpu, op, tgt, page, rc>>

free_write(k) ==
  /\ At(k, "write") /\ op[k] = "free"
  /\ shard' = [shard EXCEPT ![tgt[k]] = snap[k] \cup {page[k]}]
  /\ count' = [count EXCEPT ![tgt[k]] = @ + 1]
  /\ release_lock(k)
  /\ enable_interrupts(k)
  /\ Return(k)
  /\ UNCHANGED counts

retain(k, p) ==
  /\ At(k, "idle") /\ refs[p] \in 1 .. MaxRefs - 1 /\ home[p] = Core(k)
  /\ refcount' = [refcount EXCEPT ![p] = @ + 1]
  /\ refs' = [refs EXCEPT ![p] = @ + 1]
  /\ enable_interrupts(k)
  /\ UNCHANGED <<lists, home, pc, regs>>

(***************************************************************************)
(* Interrupts, and system calls, which enter the kernel with them off.     *)
(***************************************************************************)
isr_enter(c) ==
  /\ iflag[c] = 1 /\ depth[c] < MaxNest
  /\ depth' = [depth EXCEPT ![c] = @ + 1]
  /\ iflag' = [iflag EXCEPT ![c] = 0]
  /\ UNCHANGED <<lists, counts, pc, regs>>

isr_return(c) ==
  /\ depth[c] > 0 /\ pc[<<c, depth[c]>>] = "idle"
  /\ depth' = [depth EXCEPT ![c] = @ - 1]
  /\ iflag' = [iflag EXCEPT ![c] = 1]
  /\ UNCHANGED <<lists, counts, pc, regs>>

syscall_boundary(c) ==
  /\ depth[c] = 0 /\ pc[<<c, 0>>] = "idle"
  /\ iflag' = [iflag EXCEPT ![c] = 1 - @]
  /\ UNCHANGED <<lists, counts, depth, pc, regs>>

Step(k) ==
  \/ acquire_lock(k)
  \/ alloc_head(k) \/ alloc_empty(k) \/ pop(k) \/ alloc_return(k)
  \/ steal_self(k) \/ steal_visit(k) \/ steal_head(k) \/ steal_skip(k) \/ steal_fail(k)
  \/ free_shared(k) \/ free_last(k) \/ free_push(k) \/ free_read(k) \/ free_write(k)

Call(k) ==
  \/ alloc(k)
  \/ \E p \in Pages : free(k, p) \/ retain(k, p)

Interrupt(c) == isr_enter(c) \/ isr_return(c) \/ syscall_boundary(c)

Next ==
  \/ \E k \in Contexts : Step(k) \/ Call(k)
  \/ \E c \in Cores : Interrupt(c)

\* A core that is in a call keeps executing instructions.
Fairness == \A k \in Contexts : WF_vars(Step(k))

Spec == add_region /\ [][Next]_vars /\ Fairness

----------------------------------------------------------------------------
Labels == {"idle", "lock", "read", "write", "mark", "visit", "store", "push"}

TypeOK ==
  /\ shard \in [Cores -> SUBSET Pages]
  /\ count \in [Cores -> Int]
  /\ lock \in [Cores -> {0, 1}]
  /\ refcount \in [Pages -> Nat]
  /\ refs \in [Pages -> Nat]
  /\ home \in [Pages -> Cores]
  /\ iflag \in [Cores -> {0, 1}]
  /\ depth \in [Cores -> 0 .. MaxNest]
  /\ op \in [Contexts -> {"alloc", "steal", "free", "none"}]
  /\ pc \in [Contexts -> Labels]
  /\ tgt \in [Contexts -> 0 .. MAX_CPUS]
  /\ page \in [Contexts -> {0} \cup Pages]
  /\ snap \in [Contexts -> SUBSET Pages]
  /\ rc \in [Contexts -> Nat]

InCritical(k) == pc[k] \in {"read", "write"}

\* A context that owns a page no one else knows of: between the pop and the
\* return of alloc, and in free once the count has reached zero.
Carries(k) ==
  \/ pc[k] = "mark"
  \/ pc[k] = "push"
  \/ op[k] = "free" /\ pc[k] \in {"lock", "read", "write"}

\* A context that has given its reference up, but not yet in the count.
Dropping(k, p) == pc[k] = "store" /\ page[k] = p

\* The lock of a list is held by at most one context, and that context is the
\* one its core is running, with interrupts off: a handler that spins on a lock
\* never waits for the thread it interrupted (the reentrancy claim in the
\* header of pmm.salt).
IsrSafe ==
  /\ \A k \in Contexts : InCritical(k) =>
       lock[tgt[k]] = 1 /\ Running(k) /\ iflag[Core(k)] = 0
  /\ \A k, l \in Contexts :
       InCritical(k) /\ InCritical(l) /\ tgt[k] = tgt[l] => k = l

\* A page is in one place: on one core's list, or with one context on its way
\* out of or into a list, or referenced.  alloc never hands out a page that is
\* in use, and free never links a page into a list twice.
OnePlace ==
  /\ \A p \in Pages, s, t \in Cores : p \in shard[s] /\ p \in shard[t] => s = t
  /\ \A p \in Pages, s \in Cores : p \in shard[s] => refcount[p] = 0
  /\ \A k \in Contexts : Carries(k) =>
       /\ refcount[page[k]] = 0
       /\ \A s \in Cores : page[k] \notin shard[s]
       /\ \A l \in Contexts : Carries(l) /\ page[k] = page[l] => k = l

\* No page is lost: one that is not referenced is on a list or on its way.
NoLostPage ==
  \A p \in Pages : \/ refcount[p] > 0
                   \/ \E s \in Cores : p \in shard[s]
                   \/ \E k \in Contexts : Carries(k) /\ page[k] = p

\* The count of a page is the number of references its users hold, plus one
\* that is being dropped: no release is lost, none is counted twice.
RefsCounted ==
  \A p \in Pages :
    IF \E k \in Contexts : Dropping(k, p) THEN refcount[p] = refs[p] + 1
                                          ELSE refcount[p] = refs[p]

\* The length word, on which stealing and pmm_available decide, is the length
\* of the list.
CountExact == \A c \in Cores : count[c] = Cardinality(shard[c])

\* The inductive strengthening of the invariants above.  A context with
\* interrupts off is the one its core runs; what it has read of a list is still
\* the list; a lock word of 1 has a holder; a page's references, and the
\* release under way, are on its home core.
Masked(k) == pc[k] \in {"lock", "read", "write", "store"}

CpuOK(k) ==
  /\ Masked(k) => Running(k) /\ iflag[Core(k)] = 0
  /\ k[2] > depth[Core(k)] => pc[k] = "idle"

RegsOK(k) ==
  /\ pc[k] \in {"lock", "read", "write"} => op[k] # "none" /\ tgt[k] \in Cores
  /\ pc[k] = "visit" => op[k] = "steal"
  /\ pc[k] = "mark" => op[k] \in {"alloc", "steal"}
  /\ pc[k] \in {"store", "push"} => op[k] = "free"
  /\ op[k] = "steal" => tgt[k] \in 0 .. NUM_CPUS
  /\ op[k] = "steal" /\ pc[k] \in {"lock", "read", "write"} => tgt[k] < NUM_CPUS
  /\ Carries(k) \/ pc[k] = "store" => page[k] \in Pages

SnapOK(k) ==
  pc[k] = "write" => /\ snap[k] = shard[tgt[k]]
                     /\ op[k] # "free" => page[k] \in shard[tgt[k]]

StoreOK(k) ==
  pc[k] = "store" => home[page[k]] = Core(k) /\ rc[k] = refcount[page[k]]

ContextsOK ==
  \A k \in Contexts : CpuOK(k) /\ RegsOK(k) /\ SnapOK(k) /\ StoreOK(k)

LockHeld ==
  \A c \in Cores : lock[c] = 1 => \E k \in Contexts : InCritical(k) /\ tgt[k] = c

IInv ==
  /\ TypeOK
  /\ ContextsOK
  /\ LockHeld /\ IsrSafe /\ OnePlace /\ NoLostPage /\ RefsCounted /\ CountExact

\* A lock that is taken is released: its holder cannot be interrupted, so no
\* core spins on it for ever because of a handler.
LockReleased == \A c \in Cores : lock[c] = 1 ~> lock[c] = 0
============================================================================
