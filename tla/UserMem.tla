------------------------------ MODULE UserMem ------------------------------
(***************************************************************************)
(* The memory of user processes: the address spaces of mem/user_paging,    *)
(* and the calls that fill them: spawning a process, brk, mmap, the system *)
(* call rings of ring_abi, and granting a page to another process.         *)
(*                                                                         *)
(* Ring 0 is not preempted, so one call runs at a time; what it is doing   *)
(* is the record k.  Interrupt handlers do run during a call, and may take *)
(* or return a page between any two of its steps.                          *)
(*                                                                         *)
(* An address space is named by the page that holds its PML4.  Virtual     *)
(* pages are numbers, in three regions: the program and its heap, mmap,    *)
(* and at the top the rings and the stack.  The kernel half is left out,   *)
(* and addresses wrap where the third region ends, as u64 does at 2^64.    *)
(***************************************************************************)
EXTENDS Integers, Sequences, FiniteSets

CONSTANTS
  MAX_PROCS,      \* entries of PROC_TABLE
  NumPages,       \* bound: pages of the largest machine
  Boots,          \* bound: for each machine, its pages and what the rest of the kernel takes
  Candidates(_),  \* which pages of a free list may be its head
  LEVELS,         \* levels of tables below the PML4; the hardware has 3
  ENTRIES,        \* entries of a lowest table
  SPAN,           \* virtual pages of a region
  PAGE_SIZE,      \* addresses in a page, for the heap's end
  ElfPages,       \* pages of a program, each a segment
  StackPages,     \* pages of a user stack
  Breaks,         \* bound: ends of the heap that brk is asked for
  Lengths,        \* bound: numbers of pages that mmap is asked for
  GrantVAs        \* bound: addresses that grants name

Slots == 0 .. MAX_PROCS - 1
Pages == 1 .. NumPages
None == -1                  \* no page; 0 is what alloc returns when it fails

ASSUME ShapeAssumption ==
  /\ MAX_PROCS \in Nat /\ NumPages \in Nat /\ LEVELS \in Nat \ {0} /\ ENTRIES \in Nat \ {0}
  /\ PAGE_SIZE \in Nat \ {0} /\ Boots \subseteq (0 .. NumPages) \X Nat
  /\ SPAN \in Nat /\ ElfPages \in 1 .. SPAN /\ StackPages \in 1 .. SPAN - 2
ASSUME CandidatesAssumption ==
  \A S \in SUBSET Pages :
    /\ Candidates(S) \subseteq S
    /\ S # {} => Candidates(S) # {}

MMAP_START == SPAN
RING_SQ_USER_VA == 2 * SPAN
RING_CQ_USER_VA == RING_SQ_USER_VA + 1
USER_STACK_TOP == 3 * SPAN
STACK_BASE == USER_STACK_TOP - StackPages
VAs == 0 .. USER_STACK_TOP - 1
Wrap(v) == v % USER_STACK_TOP

ASSUME RequestsAssumption ==
  /\ GrantVAs \subseteq VAs /\ Lengths \subseteq VAs
  /\ Breaks \subseteq 0 .. USER_STACK_TOP * PAGE_SIZE - 1

\* The table that a walk to v meets at level l.  One table of each level but
\* the last covers a region.
TableOf(v, l) ==
  <<l, v \div SPAN, IF l < LEVELS THEN 0 ELSE (v % SPAN) \div ENTRIES>>
Tables == {TableOf(v, l) : v \in VAs, l \in 1 .. LEVELS}

PageEnd(b) == Wrap((b + PAGE_SIZE - 1) \div PAGE_SIZE)

VARIABLES
  free,       \* pages on the free list
  other,      \* pages that the rest of the kernel holds
  state,      \* of each slot; "claimed" is READY without a process in it
  pml4,       \* user_pml4 of each slot
  kstack,     \* kernel_stack_base of each slot
  brk,        \* brk_current of each slot
  mmap_base,  \* the next address mmap gives out
  vma,        \* the VMA list of each slot, newest first
  ring,       \* RING_TABLE: the queue pages of each slot, <<>> if not active
  tbl,        \* for each PML4 page, its tables
  pte,        \* for each PML4 page, its leaf entries
  buf,        \* the page sys_spawn copies the path to
  hdr,        \* the page spawn_process_from_inode reads the header to
  ks,         \* the kernel stack of the process being built
  k,          \* the call in progress
  budget,     \* bound: how often the rest of the kernel may still take a page
  lent,       \* frames that some grant has mapped a second time
  stale       \* lent frames that destroy_ring gave back all the same

procs == <<state, pml4, kstack, brk, mmap_base, vma, ring>>
spaces == <<tbl, pte>>
temps == <<buf, hdr, ks>>
ghosts == <<lent, stale>>
vars == <<free, other, budget, procs, spaces, temps, k, ghosts>>

NoCall == [op |-> "none", pc |-> "idle", s |-> 0, root |-> None, cur |-> 0,
           end |-> 0, page |-> None, lvl |-> 1, sq |-> None, cq |-> None]
Return == k' = NoCall
At(op, pc) == k.op = op /\ k.pc = pc
Ready(s) == k.op = "none" /\ state[s] = "ready"

Init ==
  /\ \E b \in Boots : free = 1 .. b[1] /\ budget = b[2]
  /\ other = {}
  /\ state = [s \in Slots |-> "free"]
  /\ pml4 = [s \in Slots |-> None]
  /\ kstack = [s \in Slots |-> None]
  /\ brk = [s \in Slots |-> 0]
  /\ mmap_base = [s \in Slots |-> 0]
  /\ vma = [s \in Slots |-> <<>>]
  /\ ring = [s \in Slots |-> <<>>]
  /\ tbl = [p \in Pages |-> [t \in Tables |-> None]]
  /\ pte = [p \in Pages |-> [v \in VAs |-> None]]
  /\ buf = None /\ hdr = None /\ ks = None
  /\ k = NoCall
  /\ lent = {} /\ stale = {}

(***************************************************************************)
(* The allocator, as Pmm describes it: alloc returns 0 when it has nothing *)
(* to give, and free takes frame 0 for the end of the list, so that        *)
(* freeing "page 0" drops every page that was on the list.                 *)
(***************************************************************************)
alloc(p) == p \in Candidates(free) /\ free' = free \ {p}
OutOfMemory == free = {} /\ UNCHANGED free
Push(list, p) ==
  IF p = None THEN list ELSE IF p = 0 THEN {} ELSE list \cup {p}

\* The network's receive buffers, the slab cache's pages and the like.
other_alloc ==
  /\ budget > 0
  /\ budget' = budget - 1
  /\ \E p \in Pages : alloc(p) /\ other' = other \cup {p}
  /\ UNCHANGED <<procs, spaces, temps, k, ghosts>>

other_free ==
  /\ \E p \in other : other' = other \ {p} /\ free' = Push(free, p)
  /\ UNCHANGED <<budget, procs, spaces, temps, k, ghosts>>

(***************************************************************************)
(* map_user_page(k.root, k.cur, k.page): a walk that creates the tables it *)
(* does not find, then the leaf.  Out of memory it stops, and its caller   *)
(* is not told.  Either way the caller goes on with its next page.         *)
(***************************************************************************)
NextPage == [k EXCEPT !.pc = "loop", !.cur = @ + 1, !.page = None, !.lvl = 1]

walk_or_create ==
  /\ k.pc = "walk" /\ k.lvl <= LEVELS
  /\ LET t == TableOf(k.cur, k.lvl)
     IN  \/ /\ tbl[k.root][t] # None
            /\ k' = [k EXCEPT !.lvl = @ + 1]
            /\ UNCHANGED <<free, tbl>>
         \/ /\ tbl[k.root][t] = None
            /\ \E p \in Pages : alloc(p) /\ tbl' = [tbl EXCEPT ![k.root][t] = p]
            /\ k' = [k EXCEPT !.lvl = @ + 1]
         \/ /\ tbl[k.root][t] = None
            /\ OutOfMemory
            /\ k' = NextPage
            /\ UNCHANGED tbl
  /\ UNCHANGED <<other, procs, pte, temps, ghosts>>

map_kpti_page ==
  /\ k.pc = "walk" /\ k.lvl > LEVELS
  /\ pte' = [pte EXCEPT ![k.root][k.cur] = k.page]
  /\ lent' = IF k.op = "grant" THEN lent \cup {k.page} ELSE lent
  /\ k' = NextPage
  /\ UNCHANGED <<free, other, procs, tbl, temps, stale>>

(***************************************************************************)
(* Spawning.  sys_spawn has a path and reads the program through the file  *)
(* system; ring_spawn and the boot code have it in memory.                 *)
(***************************************************************************)
SpawnOps == {"inode", "memory"}

sys_spawn(s) ==
  /\ Ready(s)
  /\ \E p \in Pages : alloc(p) /\ buf' = p
  /\ k' = [NoCall EXCEPT !.op = "inode", !.pc = "lookup"]
  /\ UNCHANGED <<other, procs, spaces, hdr, ks, ghosts>>

\* The path cannot be read, or names nothing.
sys_spawn_fails ==
  /\ At("inode", "lookup")
  /\ free' = Push(free, buf) /\ buf' = None
  /\ Return
  /\ UNCHANGED <<other, procs, spaces, hdr, ks, ghosts>>

\* The result of the allocation is not tested.
read_header ==
  /\ At("inode", "lookup")
  /\ \/ \E p \in Pages : alloc(p) /\ hdr' = p
     \/ OutOfMemory /\ hdr' = 0
  /\ k' = [k EXCEPT !.pc = "slot"]
  /\ UNCHANGED <<other, procs, spaces, buf, ks, ghosts>>

spawn_process ==
  /\ k.op = "none"
  /\ k' = [NoCall EXCEPT !.op = "memory", !.pc = "slot"]
  /\ UNCHANGED <<free, other, procs, spaces, temps, ghosts>>

\* Every early return gives back what was taken so far, but not the PML4:
\* destroy_user_pml4 is a stub.
GiveUp ==
  /\ free' = Push(Push(Push(free, ks), hdr), buf)
  /\ ks' = None /\ hdr' = None /\ buf' = None
  /\ Return

\* (mutant) The header page is forgotten on an early return.
spawn_rejects_KeepsHdr ==
  /\ k.op \in SpawnOps
  /\ k.pc = "slot" \/ (k.pc = "loop" /\ k.cur < ElfPages)
  /\ free' = Push(Push(free, ks), buf)
  /\ ks' = None /\ buf' = None
  /\ Return
  /\ UNCHANGED <<other, procs, spaces, hdr, ghosts>>

\* Not an ELF file, no free slot, or a segment out of bounds.
spawn_rejects ==
  /\ k.op \in SpawnOps
  /\ k.pc = "slot" \/ (k.pc = "loop" /\ k.cur < ElfPages)
  /\ GiveUp
  /\ UNCHANGED <<other, procs, spaces, ghosts>>

\* (mutant) The header page is freed once the header has been checked, and
\* again with the others.
alloc_pid_FreesHdr(s) ==
  /\ k.op \in SpawnOps /\ k.pc = "slot"
  /\ state[s] = "free" /\ \A t \in Slots : t < s => state[t] # "free"
  /\ state' = [state EXCEPT ![s] = "claimed"]
  /\ free' = Push(free, hdr)
  /\ k' = [k EXCEPT !.pc = "kstack", !.s = s]
  /\ UNCHANGED <<other, pml4, kstack, brk, mmap_base, vma, ring, spaces, temps, ghosts>>

alloc_pid(s) ==
  /\ k.op \in SpawnOps /\ k.pc = "slot"
  /\ state[s] = "free" /\ \A t \in Slots : t < s => state[t] # "free"
  /\ state' = [state EXCEPT ![s] = "claimed"]
  /\ k' = [k EXCEPT !.pc = "kstack", !.s = s]
  /\ UNCHANGED <<free, other, pml4, kstack, brk, mmap_base, vma, ring, spaces, temps, ghosts>>

alloc_kernel_stack ==
  /\ k.pc = "kstack"
  /\ \/ /\ \E p \in Pages : alloc(p) /\ ks' = p
        /\ k' = [k EXCEPT !.pc = "pml4"]
        /\ UNCHANGED <<hdr, buf>>
     \/ free = {} /\ GiveUp
  /\ UNCHANGED <<other, procs, spaces, ghosts>>

create_user_pml4 ==
  /\ k.pc = "pml4"
  /\ \/ \E p \in Pages :
          /\ alloc(p)
          /\ tbl' = [tbl EXCEPT ![p] = [t \in Tables |-> None]]
          /\ pte' = [pte EXCEPT ![p] = [v \in VAs |-> None]]
          /\ k' = [k EXCEPT !.pc = "loop", !.root = p]
          /\ UNCHANGED temps
     \/ free = {} /\ GiveUp /\ UNCHANGED spaces
  /\ UNCHANGED <<other, procs, ghosts>>

\* A page for the program: out of memory, frame 0 is mapped in its place.
copy_segment_data ==
  /\ k.op \in SpawnOps /\ k.pc = "loop" /\ k.cur < ElfPages
  /\ \/ \E p \in Pages : alloc(p) /\ k' = [k EXCEPT !.pc = "walk", !.page = p]
     \/ OutOfMemory /\ k' = [k EXCEPT !.pc = "walk", !.page = 0]
  /\ UNCHANGED <<other, procs, spaces, temps, ghosts>>

segments_done ==
  /\ k.op \in SpawnOps /\ k.pc = "loop" /\ k.cur = ElfPages
  /\ free' = Push(free, hdr) /\ hdr' = None
  /\ k' = [k EXCEPT !.cur = STACK_BASE]
  /\ UNCHANGED <<other, procs, spaces, buf, ks, ghosts>>

\* A page of the stack.  Out of memory, setup_user_stack stops there, and
\* spawn_process_from_inode maps frame 0.
setup_user_stack ==
  /\ k.op \in SpawnOps /\ k.pc = "loop" /\ k.cur \in STACK_BASE .. USER_STACK_TOP - 1
  /\ \/ \E p \in Pages : alloc(p) /\ k' = [k EXCEPT !.pc = "walk", !.page = p]
     \/ /\ OutOfMemory
        /\ k' = IF k.op = "inode" THEN [k EXCEPT !.pc = "walk", !.page = 0]
                                  ELSE [k EXCEPT !.cur = USER_STACK_TOP]
  /\ UNCHANGED <<other, procs, spaces, temps, ghosts>>

init_slot ==
  /\ k.op \in SpawnOps /\ k.pc = "loop" /\ k.cur = USER_STACK_TOP
  /\ state' = [state EXCEPT ![k.s] = "ready"]
  /\ pml4' = [pml4 EXCEPT ![k.s] = k.root]
  /\ kstack' = [kstack EXCEPT ![k.s] = ks]
  /\ brk' = [brk EXCEPT ![k.s] = ElfPages * PAGE_SIZE]
  /\ mmap_base' = [mmap_base EXCEPT ![k.s] = MMAP_START]
  /\ vma' = [vma EXCEPT ![k.s] = <<>>]
  /\ free' = Push(free, buf)
  /\ ks' = None /\ buf' = None
  /\ Return
  /\ UNCHANGED <<other, ring, spaces, hdr, ghosts>>

(***************************************************************************)
(* The heap and mmap.  The system call and the ring operation are the same *)
(* code twice.                                                             *)
(***************************************************************************)
\* The end of the heap moves at once if no page has to be mapped.
GrowHeap(s, new_brk) ==
  /\ new_brk >= ElfPages * PAGE_SIZE
  /\ IF PageEnd(new_brk) > PageEnd(brk[s])
     THEN /\ k' = [NoCall EXCEPT !.op = "brk", !.pc = "loop", !.s = s,
                     !.root = pml4[s], !.cur = PageEnd(brk[s]), !.end = new_brk]
          /\ UNCHANGED brk
     ELSE brk' = [brk EXCEPT ![s] = new_brk] /\ UNCHANGED k
  /\ UNCHANGED <<free, other, state, pml4, kstack, mmap_base, vma, ring, spaces, temps, ghosts>>

is_active(s) == ring[s] # <<>>

sys_brk(s, new_brk) == Ready(s) /\ GrowHeap(s, new_brk)
ring_brk(s, new_brk) == Ready(s) /\ is_active(s) /\ GrowHeap(s, new_brk)

\* Out of memory the call returns with brk as it was; the pages that it has
\* mapped stay.
brk_page ==
  /\ At("brk", "loop") /\ k.cur < PageEnd(k.end)
  /\ \/ \E p \in Pages : alloc(p) /\ k' = [k EXCEPT !.pc = "walk", !.page = p]
     \/ OutOfMemory /\ Return
  /\ UNCHANGED <<other, procs, spaces, temps, ghosts>>

brk_commit ==
  /\ At("brk", "loop") /\ k.cur = PageEnd(k.end)
  /\ brk' = [brk EXCEPT ![k.s] = k.end]
  /\ Return
  /\ UNCHANGED <<free, other, state, pml4, kstack, mmap_base, vma, ring, spaces, temps, ghosts>>

\* n pages are mapped.  The VMA comes from the slab cache; without one, or
\* for n = 0, nothing happens.  No limit is tested: the end of a request that
\* is long enough wraps to below its start.
MapFresh(s, n) ==
  /\ n > 0
  /\ k' = [NoCall EXCEPT !.op = "mmap", !.pc = "loop", !.s = s,
             !.root = pml4[s], !.cur = mmap_base[s], !.end = Wrap(mmap_base[s] + n)]
  /\ UNCHANGED <<free, other, procs, spaces, temps, ghosts>>

sys_mmap(s, n) == Ready(s) /\ MapFresh(s, n)
ring_mmap(s, n) == Ready(s) /\ is_active(s) /\ MapFresh(s, n)

\* (mutant) Out of memory, the page mapped last is freed and stays mapped.
mmap_page_FreesLast ==
  /\ At("mmap", "loop") /\ k.cur < k.end
  /\ \/ \E p \in Pages : alloc(p) /\ k' = [k EXCEPT !.pc = "walk", !.page = p]
     \/ /\ free = {} /\ Return
        /\ free' = IF k.cur > mmap_base[k.s] THEN Push(free, pte[k.root][k.cur - 1]) ELSE free
  /\ UNCHANGED <<other, procs, spaces, temps, ghosts>>

mmap_page ==
  /\ At("mmap", "loop") /\ k.cur < k.end
  /\ \/ \E p \in Pages : alloc(p) /\ k' = [k EXCEPT !.pc = "walk", !.page = p]
     \/ OutOfMemory /\ Return
  /\ UNCHANGED <<other, procs, spaces, temps, ghosts>>

\* (mutant) The VMA starts where the cursor is.
mmap_commit_Cursor ==
  /\ At("mmap", "loop") /\ k.cur >= k.end
  /\ mmap_base' = [mmap_base EXCEPT ![k.s] = k.end]
  /\ vma' = [vma EXCEPT ![k.s] = <<[start |-> k.cur, end |-> k.end]>> \o @]
  /\ Return
  /\ UNCHANGED <<free, other, state, pml4, kstack, brk, ring, spaces, temps, ghosts>>

\* mmap_base has not moved since the call began: it is the VMA's start.  A
\* request that wrapped comes here with nothing mapped.
mmap_commit ==
  /\ At("mmap", "loop") /\ k.cur >= k.end
  /\ mmap_base' = [mmap_base EXCEPT ![k.s] = k.end]
  /\ vma' = [vma EXCEPT ![k.s] = <<[start |-> mmap_base[k.s], end |-> k.end]>> \o @]
  /\ Return
  /\ UNCHANGED <<free, other, state, pml4, kstack, brk, ring, spaces, temps, ghosts>>

(***************************************************************************)
(* The rings of a process.  RING_TABLE is shorter than PROC_TABLE and the  *)
(* slot is not compared with its length; the calls that would index past   *)
(* its end are left out.                                                   *)
(***************************************************************************)
RING_SLOTS == 16                        \* the length of RING_TABLE

init_ring(s) ==
  /\ Ready(s) /\ s < RING_SLOTS
  /\ \E p \in Pages :
       /\ alloc(p)
       /\ k' = [NoCall EXCEPT !.op = "ring", !.pc = "cq", !.s = s, !.root = pml4[s],
                  !.sq = p]
  /\ UNCHANGED <<other, procs, spaces, temps, ghosts>>

init_ring_cq ==
  /\ At("ring", "cq")
  /\ \/ \E p \in Pages :
          /\ alloc(p)
          /\ k' = [k EXCEPT !.pc = "walk", !.cur = RING_SQ_USER_VA, !.page = k.sq, !.cq = p]
     \/ free = {} /\ free' = Push(free, k.sq) /\ Return
  /\ UNCHANGED <<other, procs, spaces, temps, ghosts>>

init_ring_map_cq ==
  /\ At("ring", "loop") /\ k.cur = RING_CQ_USER_VA
  /\ k' = [k EXCEPT !.pc = "walk", !.page = k.cq]
  /\ UNCHANGED <<free, other, procs, spaces, temps, ghosts>>

\* RING_TABLE is filled in whether or not the pages could be mapped.
init_ring_commit ==
  /\ At("ring", "loop") /\ k.cur = RING_CQ_USER_VA + 1
  /\ ring' = [ring EXCEPT ![k.s] = <<k.sq, k.cq>>]
  /\ Return
  /\ UNCHANGED <<free, other, state, pml4, kstack, brk, mmap_base, vma, spaces, temps, ghosts>>

(***************************************************************************)
(* Granting a page: the frame behind src is mapped at dst of the target.   *)
(* Both entry points pass one page.                                        *)
(***************************************************************************)
Grant(s, target, src, dst) ==
  /\ state[target] # "free" /\ pml4[target] # None
  /\ pte[pml4[s]][src] # None
  /\ pte[pml4[target]][dst] = None
  /\ k' = [NoCall EXCEPT !.op = "grant", !.pc = "walk", !.s = s, !.root = pml4[target],
             !.cur = dst, !.page = pte[pml4[s]][src]]
  /\ UNCHANGED <<free, other, procs, spaces, temps, ghosts>>

sys_shm_grant(s, target, src, dst) == Ready(s) /\ Grant(s, target, src, dst)
ring_shm_grant(s, target, src, dst) ==
  Ready(s) /\ is_active(s) /\ Grant(s, target, src, dst)

\* The result is 0 whether or not the page could be mapped.
grant_done ==
  /\ At("grant", "loop")
  /\ Return
  /\ UNCHANGED <<free, other, procs, spaces, temps, ghosts>>

(***************************************************************************)
(* The end of a process.  Its PML4, tables, pages and kernel stack stay    *)
(* allocated; the ring pages go back and stay mapped.                      *)
(***************************************************************************)
destroy_ring(s) ==
  LET gone == {ring[s][i] : i \in 1 .. Len(ring[s])}
  IN  /\ free' = free \cup gone
      /\ stale' = stale \cup (gone \cap lent)
      /\ ring' = [ring EXCEPT ![s] = <<>>]

process_exit(s) ==
  /\ Ready(s)
  /\ destroy_ring(s)
  /\ state' = [state EXCEPT ![s] = "zombie"]
  /\ UNCHANGED <<other, pml4, kstack, brk, mmap_base, vma, spaces, temps, k, lent>>

\* sys_wait frees the slot, and with it its bit in PID_BITMAP.
sys_wait(s) ==
  /\ k.op = "none" /\ state[s] = "zombie"
  /\ state' = [state EXCEPT ![s] = "free"]
  /\ UNCHANGED <<free, other, pml4, kstack, brk, mmap_base, vma, ring, spaces, temps, k, ghosts>>

Kernel ==
  \/ walk_or_create \/ map_kpti_page
  \/ sys_spawn_fails \/ read_header \/ spawn_process \/ spawn_rejects
  \/ alloc_kernel_stack \/ create_user_pml4 \/ copy_segment_data
  \/ segments_done \/ setup_user_stack \/ init_slot
  \/ brk_page \/ brk_commit \/ mmap_page \/ mmap_commit
  \/ init_ring_cq \/ init_ring_map_cq \/ init_ring_commit \/ grant_done

Process(s) ==
  \/ sys_spawn(s) \/ alloc_pid(s) \/ init_ring(s) \/ process_exit(s) \/ sys_wait(s)
  \/ \E b \in Breaks : sys_brk(s, b) \/ ring_brk(s, b)
  \/ \E n \in Lengths : sys_mmap(s, n) \/ ring_mmap(s, n)
  \/ \E t \in Slots, src \in GrantVAs, dst \in GrantVAs :
       sys_shm_grant(s, t, src, dst) \/ ring_shm_grant(s, t, src, dst)

Next == other_alloc \/ other_free \/ ((Kernel \/ \E s \in Slots : Process(s)) /\ UNCHANGED budget)

Spec == Init /\ [][Next]_vars

(***************************************************************************)
(* Properties.                                                             *)
(***************************************************************************)
\* The address spaces of running processes, and the one being built.
Live(s) == state[s] = "ready"
Roots == {pml4[s] : s \in {t \in Slots : Live(t)}}
           \cup (IF k.op \in SpawnOps THEN {k.root} \ {None} ELSE {})
Leaves(r) == {pte[r][v] : v \in VAs} \ {None, 0}
\* Pages that the kernel has taken and not yet put anywhere.
Loose == {buf, hdr, ks, k.sq, k.cq} \cup (IF k.op = "grant" THEN {} ELSE {k.page})
Unused == free \cup other \cup (Loose \ {None, 0})

\* A page that holds a table of a live address space holds that table only:
\* it is not frame 0, not on the free list, not in other use, and no process has
\* it mapped, unless it came from a ring that was freed while lent.
TablesPrivate ==
  \A r \in Roots :
    LET T == {t \in Tables : tbl[r][t] # None}
        pages == {r} \cup {tbl[r][t] : t \in T}
    IN  /\ Cardinality(pages) = Cardinality(T) + 1 /\ pages \subseteq Pages
        /\ pages \cap Unused = {}
        /\ \A q \in Roots :
             /\ pages \cap Leaves(q) \subseteq stale
             /\ q # r => pages \cap ({q} \cup {tbl[q][t] : t \in Tables}) \subseteq {None}

\* What a process has mapped is its own: a page at two addresses has been
\* lent by a grant, and none is free or in other use.
Isolated ==
  /\ \A r, q \in Roots, v, w \in VAs :
       (<<r, v>> # <<q, w>> /\ pte[r][v] = pte[q][w]) =>
         pte[r][v] \in lent \cup {None, 0}
  /\ \A r \in Roots : Leaves(r) \cap (Unused \ {k.sq, k.cq}) \subseteq stale

\* When no call is in progress the buffers of spawn have been returned and
\* its kernel stack has been handed to the process, on every path.
NothingHeld == k.op = "none" => buf = None /\ hdr = None /\ ks = None

\* The VMA list of a process is a chain, also after calls that failed half way
\* and after lengths that wrapped: the newest ends at mmap_base, each begins
\* where the one before it ends, and the oldest begins at the mark spawn set.
\* As long as no length has wrapped, no two of its regions overlap.
VmaTiles ==
  \A s \in Slots : Live(s) =>
    LET n == Len(vma[s])
    IN  /\ mmap_base[s] = IF n = 0 THEN MMAP_START ELSE vma[s][1].end
        /\ \A i \in 1 .. n :
             vma[s][i].start = IF i = n THEN MMAP_START ELSE vma[s][i + 1].end
        /\ (\A i \in 1 .. n : vma[s][i].start < vma[s][i].end) =>
             \A i, j \in 1 .. n : i < j => vma[s][j].end <= vma[s][i].start
=============================================================================
