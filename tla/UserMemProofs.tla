--------------------------- MODULE UserMemProofs ---------------------------
(***************************************************************************)
(* The page tables of processes are private, their pages are their own,    *)
(* spawn keeps no buffer and the VMA lists are chains to mmap_base: for    *)
(* any number of processes and pages, any shape of the address space, and  *)
(* allocations that fail at any point.                                     *)
(***************************************************************************)
EXTENDS UserMem, TLAPS

USE ShapeAssumption, CandidatesAssumption, RequestsAssumption

MaybePage == Pages \cup {None}
Vmas == Seq([start : Nat, end : Nat])
Calls ==
  [op : {"none", "inode", "memory", "brk", "mmap", "ring", "grant"},
   pc : {"idle", "lookup", "slot", "kstack", "pml4", "loop", "walk", "cq"},
   s : Nat, root : MaybePage, cur : Nat, end : Nat, page : MaybePage \cup {0},
   lvl : Nat, sq : MaybePage, cq : MaybePage]

Typed ==
  /\ free \subseteq Pages /\ other \subseteq Pages /\ stale \subseteq lent
  /\ state \in [Slots -> {"free", "claimed", "ready", "zombie"}]
  /\ pml4 \in [Slots -> MaybePage]
  /\ brk \in [Slots -> Nat] /\ mmap_base \in [Slots -> Nat] /\ vma \in [Slots -> Vmas]
  /\ ring \in [Slots -> {<<>>} \cup (Pages \X Pages)]
  /\ tbl \in [Pages -> [Tables -> MaybePage]]
  /\ pte \in [Pages -> [VAs -> MaybePage \cup {0}]]
  /\ buf \in MaybePage /\ hdr \in MaybePage \cup {0} /\ ks \in MaybePage
  /\ k \in Calls

Building == k.op \in SpawnOps

\* Where a spawn is: it owns its slot, has a PML4 once it maps pages, and has
\* given the header back when it comes to the stack.
SpawnAt ==
  /\ k.pc \in {"lookup", "slot", "kstack", "pml4", "loop", "walk"}
  /\ k.pc \in {"kstack", "pml4", "loop", "walk"} => k.s \in Slots /\ state[k.s] = "claimed"
  /\ k.pc = "lookup" => hdr = None /\ ks = None
  /\ k.pc \in {"lookup", "slot", "kstack", "pml4"} => k.cur = 0
  /\ k.root # None <=> k.pc \in {"loop", "walk"}
  /\ k.pc = "loop" => k.cur <= ElfPages \/ k.cur >= STACK_BASE
  /\ k.pc = "walk" => k.cur < ElfPages \/ k.cur >= STACK_BASE
  /\ k.pc \in {"loop", "walk"} /\ k.cur >= STACK_BASE => hdr = None
  /\ \A s \in Slots : Live(s) => pml4[s] # k.root

\* Where init_ring is: which queue page it maps, and where.
RingAt ==
  /\ k.sq # None /\ k.sq # k.cq
  /\ k.pc # "cq" <=> k.cq # None
  /\ k.pc = "walk" => \/ k.page = k.sq /\ k.cur = RING_SQ_USER_VA
                      \/ k.page = k.cq /\ k.cur = RING_CQ_USER_VA

Control ==
  /\ k.op = "none" => k = NoCall
  /\ k.pc = "walk" \/ k.page = None
  /\ Building => SpawnAt
  /\ ~ Building => buf = None /\ hdr = None /\ ks = None
  /\ k.op \in {"brk", "mmap", "ring", "grant"} =>
       k.s \in Slots /\ Live(k.s) /\ k.pc \in {"loop", "walk", "cq"} /\ k.root # None
  /\ k.op \in {"brk", "mmap", "ring"} => k.root = pml4[k.s]
  /\ At("grant", "walk") => k.page # None /\ \E v \in VAs : k.page = pte[pml4[k.s]][v]
  /\ k.op = "ring" => RingAt
  /\ k.op # "ring" => k.sq = None /\ k.cq = None /\ k.pc # "cq"

\* A running process has a PML4 of its own; a slot without one has no ring.
SlotsOwn ==
  /\ \A s \in Slots : IF Live(s) THEN pml4[s] # None ELSE ring[s] = <<>>
  /\ \A s, t \in Slots : Live(s) /\ Live(t) /\ pml4[s] = pml4[t] => s = t

(***************************************************************************)
(* Who has a page.                                                         *)
(***************************************************************************)
\* The page a call has taken last and not mapped yet, and the queue pages of
\* init_ring from the moment it has both.
Fresh == IF k.op = "grant" THEN None
         ELSE IF k.op # "ring" THEN k.page
         ELSE IF k.pc = "cq" THEN k.sq ELSE None
Held == {buf, hdr, ks, Fresh} \ {None, 0}
Queues == IF k.pc = "cq" THEN {} ELSE {k.sq, k.cq} \ {None}
RingPages(s) == {ring[s][i] : i \in 1 .. Len(ring[s])}
Rings == UNION {RingPages(s) : s \in Slots}
TablePages == Roots \cup ({tbl[r][t] : r \in Roots, t \in Tables} \ {None})

Apart(F, O, H, Q, R, T) ==
  /\ F \cap O = {}
  /\ H \cap (F \cup O) = {}
  /\ Q \cap (F \cup O \cup H) = {}
  /\ R \cap (F \cup O \cup H \cup Q) = {}
  /\ T \cap (F \cup O \cup H \cup Q \cup R) = {}

\* A page is free, in other use, in the hands of a call, a ring page or a
\* table, and has one such place only.
OnePlace ==
  /\ Apart(free, other, Held, Queues, Rings, TablePages)
  /\ buf \in Held => buf \notin {hdr, ks, Fresh}
  /\ hdr \in Held => hdr \notin {ks, Fresh}
  /\ ks \in Held => ks # Fresh
  /\ \A s, t \in Slots : s # t => RingPages(s) \cap RingPages(t) = {}

\* Every table entry of the live address spaces leads to a page of its own.
TablesOnce ==
  /\ \A r, q \in Roots, t \in Tables : tbl[r][t] # q
  /\ \A r, q \in Roots, t, u \in Tables :
       tbl[r][t] = tbl[q][u] /\ tbl[r][t] # None => r = q /\ t = u

\* What the leaf at v of the live address space r may be.
LeafAt(r, v) ==
  LET p == pte[r][v]
  IN  /\ p \in free \cup other \cup Held \cup TablePages => p \in stale
      /\ p # None /\ p = k.sq => p \in lent \/ (r = k.root /\ v = RING_SQ_USER_VA)
      /\ p # None /\ p = k.cq => p \in lent \/ (r = k.root /\ v = RING_CQ_USER_VA)
      /\ \A s \in Slots : p \in RingPages(s) => p \in lent \/ r = pml4[s]

MappedOnce ==
  \A r, q \in Roots, v, w \in VAs :
    (<<r, v>> # <<q, w>> /\ pte[r][v] = pte[q][w]) => pte[r][v] \in lent \cup {None, 0}

Mapped == MappedOnce /\ \A r \in Roots, v \in VAs : LeafAt(r, v)

IInv == Typed /\ Control /\ SlotsOwn /\ OnePlace /\ TablesOnce /\ Mapped

-----------------------------------------------------------------------------
\* 0 and None are not pages, and the regions of the address space are in order.
LEMMA Shape ==
  /\ 0 \notin Pages /\ None \notin Pages /\ None # 0 /\ Pages \subseteq Nat
  /\ ElfPages \in Nat /\ STACK_BASE \in Nat /\ USER_STACK_TOP \in Nat
  /\ ElfPages < STACK_BASE /\ STACK_BASE < USER_STACK_TOP
  /\ RING_SQ_USER_VA \in Nat /\ RING_CQ_USER_VA \in Nat
  /\ RING_SQ_USER_VA # RING_CQ_USER_VA /\ MMAP_START \in Nat
BY DEF Pages, None, STACK_BASE, USER_STACK_TOP, RING_SQ_USER_VA, RING_CQ_USER_VA,
       MMAP_START

\* NoCall is a call record.
LEMMA NoCallTyped ==
  /\ NoCall \in Calls /\ NoCall.op = "none" /\ NoCall.pc = "idle" /\ NoCall.page = None
  /\ NoCall.root = None /\ NoCall.sq = None /\ NoCall.cq = None /\ NoCall.cur = 0
BY Zenon DEF NoCall, Calls, MaybePage

\* What alloc returns is a page that was free.
LEMMA Allocated ==
  ASSUME free \subseteq Pages, NEW p, alloc(p)
  PROVE  p \in free /\ p \in Pages /\ free' = free \ {p}
BY Zenon DEF alloc

-----------------------------------------------------------------------------
(* Steps that make no table and map no page.                                 *)

\* The address spaces that stay are as they were.
SpacesStay ==
  Roots' \subseteq Roots /\ \A r \in Roots' : tbl'[r] = tbl[r] /\ pte'[r] = pte[r]

\* Which address spaces there are depends on the slots and on a spawn only.
LEMMA SameRoots ==
  ASSUME UNCHANGED <<state, pml4>>,
         IF k.op \in SpawnOps THEN k'.op \in SpawnOps /\ k'.root = k.root
                              ELSE k'.op \notin SpawnOps
  PROVE  Roots' = Roots
BY Zenon DEF Roots, Live

\* The tables of the address spaces that stay are still apart.
LEMMA TablesStay ==
  ASSUME TablesOnce, SpacesStay
  PROVE  TablesOnce' /\ TablePages' \subseteq TablePages
<1>1. TablesOnce'
  BY DEF TablesOnce, SpacesStay
<1>2. ASSUME NEW p \in TablePages' PROVE p \in TablePages
  <2>1. CASE p \in Roots'
    BY <2>1 DEF SpacesStay, TablePages
  <2>2. CASE p \notin Roots'
    <3>1. PICK r \in Roots', t \in Tables : p = tbl'[r][t] /\ p # None
      BY <2>2 DEF TablePages
    <3>2. r \in Roots /\ p = tbl[r][t]
      BY <3>1, Zenon DEF SpacesStay
    <3> QED BY <3>1, <3>2 DEF TablePages
  <2> QED BY <2>1, <2>2, Zenon
<1> QED BY <1>1, <1>2, Zenon

\* A leaf stays sound if what becomes free, or comes into the hands of a call,
\* is not mapped (or is marked), if the queue pages are the same or were fresh,
\* and if the ring pages are the same or were the queue pages of that process.
LEMMA LeavesStay ==
  ASSUME Mapped, SpacesStay, stale \subseteq lent, UNCHANGED lent, stale \subseteq stale',
         TablePages' \subseteq TablePages,
         \A r \in Roots', v \in VAs :
           pte[r][v] \in free' \cup other' \cup Held'
             => pte[r][v] \in free \cup other \cup Held \/ pte[r][v] \in stale',
         k'.sq # None => \/ k'.sq = k.sq /\ k'.root = k.root
                         \/ k'.sq \in free \cup Held,
         k'.cq # None => \/ k'.cq = k.cq /\ k'.root = k.root
                         \/ k'.cq \in free \cup Held,
         \A s \in Slots : \A p \in RingPages(s)' :
           pml4'[s] = pml4[s] /\ (p \in RingPages(s) \/ (p \in {k.sq, k.cq} /\ p # None /\ k.root = pml4[s]))
  PROVE  Mapped'
<1>1. MappedOnce'
  BY DEF MappedOnce, SpacesStay, Mapped
<1>2. ASSUME NEW r \in Roots', NEW v \in VAs PROVE LeafAt(r, v)'
  <2> DEFINE p == pte[r][v]
  <2>1. r \in Roots /\ pte'[r][v] = p
    BY Zenon DEF SpacesStay
  <2>2. LeafAt(r, v)
    BY <2>1, Zenon DEF Mapped
  <2>3. p \in free' \cup other' \cup Held' \cup TablePages' => p \in stale'
    BY <2>2, Zenon DEF LeafAt
  <2>4. p # None /\ p = k'.sq => p \in lent \/ (r = k'.root /\ v = RING_SQ_USER_VA)
    BY <2>2, Zenon DEF LeafAt
  <2>5. p # None /\ p = k'.cq => p \in lent \/ (r = k'.root /\ v = RING_CQ_USER_VA)
    BY <2>2, Zenon DEF LeafAt
  <2>6. ASSUME NEW s \in Slots, p \in RingPages(s)' PROVE p \in lent \/ r = pml4'[s]
    <3>1. pml4'[s] = pml4[s] /\ (p \in RingPages(s) \/ (p \in {k.sq, k.cq} /\ p # None /\ k.root = pml4[s]))
      BY <2>6, Zenon
    <3> QED BY <2>2, <3>1, Zenon DEF LeafAt
  <2> HIDE DEF p
  <2> QED BY <2>1, <2>3, <2>4, <2>5, <2>6, Zenon DEF LeafAt
<1> QED BY <1>1, <1>2, Zenon DEF Mapped

\* A step that only moves pages between the free list, other use and the hands
\* of the call keeps the invariant if it puts each page in one place.
LEMMA SteadyLive ==
  ASSUME IInv, Typed', Control', UNCHANGED <<pml4, ring, tbl, pte, lent, stale>>,
         \A s \in Slots : Live(s)' <=> Live(s),
         Roots' \subseteq Roots,
         free' \cup other' \cup Held' \subseteq free \cup other \cup Held,
         Queues' \subseteq free \cup Held \cup Queues,
         free' \cap other' = {}, Held' \cap (free' \cup other') = {},
         Queues' \cap (free' \cup other' \cup Held') = {},
         buf' \in Held' => buf' \notin {hdr', ks', Fresh'},
         hdr' \in Held' => hdr' \notin {ks', Fresh'},
         ks' \in Held' => ks' # Fresh',
         k'.sq # None => \/ k'.sq = k.sq /\ k'.root = k.root
                         \/ k'.sq \in free \cup Held,
         k'.cq # None => \/ k'.cq = k.cq /\ k'.root = k.root
                         \/ k'.cq \in free \cup Held
  PROVE  IInv'
<1>1. SpacesStay
  BY Zenon DEF SpacesStay
<1>2. TablesOnce' /\ TablePages' \subseteq TablePages
  BY <1>1, TablesStay, Zenon DEF IInv
<1>3. \A s \in Slots : RingPages(s)' = RingPages(s)
  BY DEF RingPages
<1>4. Rings' = Rings
  BY <1>3 DEF Rings
<1>5. Mapped'
  <2>1. Mapped /\ stale \subseteq lent /\ stale \subseteq stale' /\ UNCHANGED lent
    BY Zenon DEF IInv, Typed
  <2>2. \A r \in Roots', v \in VAs :
           pte[r][v] \in free' \cup other' \cup Held'
             => pte[r][v] \in free \cup other \cup Held \/ pte[r][v] \in stale'
    BY Zenon
  <2>3. \A s \in Slots : \A p \in RingPages(s)' : pml4'[s] = pml4[s] /\ p \in RingPages(s)
    BY <1>3, Zenon
  <2> QED BY <1>1, <1>2, <2>1, <2>2, <2>3, LeavesStay, Zenon
<1>6. Apart(free, other, Held, Queues, Rings, TablePages)
  BY Zenon DEF IInv, OnePlace
<1>7. Apart(free', other', Held', Queues', Rings, TablePages')
  BY <1>2, <1>6, Zenon DEF Apart
<1>8. Apart(free, other, Held, Queues, Rings, TablePages)'
  BY <1>4, <1>7, Zenon DEF Apart
<1>9. \A s, t \in Slots : s # t => RingPages(s)' \cap RingPages(t)' = {}
  BY <1>3, Zenon DEF IInv, OnePlace
<1>10. OnePlace'
  BY <1>8, <1>9, Zenon DEF OnePlace
<1>11. SlotsOwn'
  BY Zenon DEF IInv, SlotsOwn
<1> QED BY <1>2, <1>5, <1>10, <1>11, Zenon DEF IInv

\* The same, for a step that leaves the slots alone.
LEMMA Steady ==
  ASSUME IInv, Typed', Control', UNCHANGED <<state, pml4, ring, tbl, pte, lent, stale>>,
         Roots' \subseteq Roots,
         free' \cup other' \cup Held' \subseteq free \cup other \cup Held,
         Queues' \subseteq free \cup Held \cup Queues,
         free' \cap other' = {}, Held' \cap (free' \cup other') = {},
         Queues' \cap (free' \cup other' \cup Held') = {},
         buf' \in Held' => buf' \notin {hdr', ks', Fresh'},
         hdr' \in Held' => hdr' \notin {ks', Fresh'},
         ks' \in Held' => ks' # Fresh',
         k'.sq # None => \/ k'.sq = k.sq /\ k'.root = k.root
                         \/ k'.sq \in free \cup Held,
         k'.cq # None => \/ k'.cq = k.cq /\ k'.root = k.root
                         \/ k'.cq \in free \cup Held
  PROVE  IInv'
<1>1. \A s \in Slots : Live(s)' <=> Live(s)
  BY Zenon DEF Live
<1> QED BY <1>1, SteadyLive, Zenon

\* The type of what the steps of a call change.
LEMMA StillTyped ==
  ASSUME Typed, UNCHANGED <<procs, spaces, ghosts>>, free' \subseteq Pages, other' \subseteq Pages,
         buf' \in MaybePage, hdr' \in MaybePage \cup {0}, ks' \in MaybePage, k' \in Calls
  PROVE  /\ Typed'
         /\ UNCHANGED <<state, pml4, ring, tbl, pte, lent, stale, mmap_base>>
BY Zenon DEF Typed, procs, spaces, ghosts

\* Pages taken and returned by the rest of the kernel.
LEMMA OtherKeeps ==
  ASSUME IInv, other_alloc \/ other_free
  PROVE  IInv'
<1>1. /\ UNCHANGED <<procs, spaces, temps, k, ghosts>> /\ UNCHANGED <<buf, hdr, ks>>
      /\ free \subseteq Pages /\ other \subseteq Pages
  BY Zenon DEF other_alloc, other_free, temps, IInv, Typed
<1>2. \/ \E p \in free : free' = free \ {p} /\ other' = other \cup {p}
      \/ \E p \in other : other' = other \ {p} /\ free' = free \cup {p}
  BY <1>1, Allocated, Shape DEF other_alloc, other_free, Push
<1>3. Typed' /\ UNCHANGED <<state, pml4, ring, tbl, pte, lent, stale, mmap_base>>
  BY <1>1, <1>2, StillTyped DEF IInv, Typed
<1>4. Control'
  BY <1>1, <1>3 DEF IInv, Control, Building, SpawnAt, RingAt, Live, At
<1>5. Roots' = Roots
  BY <1>1, <1>3, Zenon DEF Roots, Live
<1>6. Fresh' = Fresh /\ Held' = Held /\ Queues' = Queues
  BY <1>1, Zenon DEF Fresh, Held, Queues
<1>7. OnePlace
  BY Zenon DEF IInv
<1>8. /\ free' \cup other' = free \cup other /\ free' \cap other' = {}
  BY <1>2, <1>7 DEF OnePlace, Apart
<1> QED BY <1>1, <1>3, <1>4, <1>5, <1>6, <1>7, <1>8, Steady, Zenon DEF OnePlace, Apart

\* sys_spawn takes the page for the path; spawn_process starts with nothing.
LEMMA SpawnKeeps ==
  ASSUME IInv, (\E s \in Slots : sys_spawn(s)) \/ spawn_process
  PROVE  IInv'
<1>1. /\ UNCHANGED <<other, procs, spaces, hdr, ks, ghosts>> /\ k.op = "none"
      /\ k = NoCall /\ buf = None /\ hdr = None /\ ks = None /\ free \subseteq Pages
  BY Zenon DEF sys_spawn, spawn_process, temps, Ready, IInv, Typed, Control, Building, SpawnOps
<1>2. \/ /\ \E p \in free : free' = free \ {p} /\ buf' = p
         /\ k' = [NoCall EXCEPT !.op = "inode", !.pc = "lookup"]
      \/ /\ free' = free /\ buf' = buf
         /\ k' = [NoCall EXCEPT !.op = "memory", !.pc = "slot"]
  BY <1>1, Allocated, Zenon DEF sys_spawn, spawn_process, temps
<1>3. /\ k' \in Calls /\ k'.op \in SpawnOps /\ k'.pc \in {"lookup", "slot"}
      /\ k'.root = None /\ k'.page = None /\ k'.sq = None /\ k'.cq = None /\ k'.cur = 0
  <2>1. \/ k' = [NoCall EXCEPT !.op = "inode", !.pc = "lookup"]
        \/ k' = [NoCall EXCEPT !.op = "memory", !.pc = "slot"]
    BY <1>2, Zenon
  <2>2. CASE k' = [NoCall EXCEPT !.op = "inode", !.pc = "lookup"]
    BY <2>2, NoCallTyped, Zenon DEF Calls, SpawnOps
  <2>3. CASE k' = [NoCall EXCEPT !.op = "memory", !.pc = "slot"]
    BY <2>3, NoCallTyped, Zenon DEF Calls, SpawnOps
  <2> QED BY <2>1, <2>2, <2>3, Zenon
<1>4. buf' \in free \cup {None} /\ free' = free \ {buf'}
  BY <1>1, <1>2, Shape
<1>5. Typed' /\ UNCHANGED <<state, pml4, ring, tbl, pte, lent, stale, mmap_base>>
  BY <1>1, <1>3, <1>4, StillTyped, Zenon DEF IInv, Typed, MaybePage
<1>6. Control'
  BY <1>1, <1>3, <1>5 DEF IInv, Control, Building, SpawnAt, SlotsOwn, Live, At, SpawnOps
<1>7. Roots' = Roots
  BY <1>1, <1>3, <1>5, Shape, Zenon DEF Roots, Live, SpawnOps
<1>8. Fresh' = None /\ Held' = {buf'} \ {None, 0} /\ Queues' = {}
  BY <1>1, <1>3, Zenon DEF Fresh, Held, Queues, SpawnOps
<1>9. OnePlace
  BY Zenon DEF IInv
<1> QED BY <1>1, <1>3, <1>4, <1>5, <1>6, <1>7, <1>8, <1>9, Steady DEF OnePlace, Apart

\* Every way out of a spawn gives back what it holds.
LEMMA GiveUpKeeps ==
  ASSUME IInv, Building, k.pc # "walk", k' = NoCall, buf' = None, hdr' = None, ks' = None,
         free' \subseteq free \cup Held, UNCHANGED <<other, procs, spaces, ghosts>>
  PROVE  IInv'
<1>1. free \subseteq Pages /\ other \subseteq Pages /\ Held \subseteq Pages
  BY DEF IInv, Typed, Held, Fresh, Calls, MaybePage, Building, SpawnOps
<1>2. Typed' /\ UNCHANGED <<state, pml4, ring, tbl, pte, lent, stale, mmap_base>>
  BY <1>1, StillTyped, NoCallTyped, Zenon DEF IInv, Typed, MaybePage
<1>3. /\ k'.op = "none" /\ k'.pc = "idle" /\ k'.page = None /\ k'.sq = None /\ k'.cq = None
  BY NoCallTyped, Zenon
<1>4. Control'
  BY <1>3, Zenon DEF Control, Building, SpawnOps, At
<1>5. Roots' \subseteq Roots
  BY <1>2, <1>3, Zenon DEF Roots, Live, SpawnOps
<1>6. Held' = {} /\ Queues' = {} /\ Fresh' = None
  BY <1>3, Zenon DEF Held, Queues, Fresh
<1>7. Apart(free, other, Held, Queues, Rings, TablePages)
  BY Zenon DEF IInv, OnePlace
<1> QED BY <1>2, <1>3, <1>4, <1>5, <1>6, <1>7, Steady, Zenon DEF Apart

\* What pushing onto the free list can add to it.
LEMMA Pushed ==
  ASSUME NEW L, NEW p
  PROVE  Push(L, p) \subseteq L \cup ({p} \ {None, 0})
BY Zenon DEF Push

\* The early returns.
LEMMA RejectKeeps ==
  ASSUME IInv, sys_spawn_fails \/ spawn_rejects
  PROVE  IInv'
<1>1. UNCHANGED <<other, procs, spaces, ghosts>> /\ k' = NoCall /\ Building /\ k.pc # "walk"
  BY Zenon DEF sys_spawn_fails, spawn_rejects, GiveUp, Return, At, Building, SpawnOps
<1>2. CASE sys_spawn_fails
  <2>1. hdr = None /\ ks = None /\ UNCHANGED <<hdr, ks>> /\ buf' = None /\ free' = Push(free, buf)
    BY <1>1, <1>2, Zenon DEF sys_spawn_fails, IInv, Control, SpawnAt, At
  <2>2. free' \subseteq free \cup Held
    BY <2>1, Pushed, Zenon DEF Held
  <2> QED BY <1>1, <2>1, <2>2, GiveUpKeeps, Zenon
<1>3. CASE spawn_rejects
  <2>1. GiveUp
    BY <1>3, Zenon DEF spawn_rejects
  <2>2. free' \subseteq free \cup Held
    BY <2>1, Pushed DEF GiveUp, Held
  <2> QED BY <1>1, <2>1, <2>2, GiveUpKeeps, Zenon DEF GiveUp
<1> QED BY <1>2, <1>3, Zenon

\* read_header: a page for the header, or 0.
LEMMA HeaderKeeps ==
  ASSUME IInv, read_header
  PROVE  IInv'
<1>1. /\ UNCHANGED <<other, procs, spaces, buf, ks, ghosts>> /\ k.op = "inode" /\ k.pc = "lookup"
      /\ k' = [k EXCEPT !.pc = "slot"] /\ hdr = None /\ ks = None
      /\ free \subseteq Pages /\ other \subseteq Pages /\ k \in Calls /\ buf \in MaybePage
  BY Zenon DEF read_header, At, IInv, Typed, Control, Building, SpawnOps, SpawnAt
<1>2. hdr' \in free \cup {0} /\ free' = free \ {hdr'}
  BY <1>1, Allocated, Shape DEF read_header, OutOfMemory
<1>3. /\ k' \in Calls /\ k'.op = "inode" /\ k'.pc = "slot" /\ k'.root = k.root /\ k'.cur = k.cur
      /\ k'.page = k.page /\ k'.sq = k.sq /\ k'.cq = k.cq
  BY <1>1, Zenon DEF Calls
<1>4. Typed' /\ UNCHANGED <<state, pml4, ring, tbl, pte, lent, stale, mmap_base>>
  BY <1>1, <1>2, <1>3, StillTyped, Zenon DEF IInv, MaybePage
<1>5. /\ k.root = None /\ k.page = None /\ k.sq = None /\ k.cq = None /\ k.cur = 0
      /\ \A s \in Slots : Live(s) => pml4[s] # k.root
  BY <1>1, Zenon DEF IInv, Control, Building, SpawnOps, SpawnAt
<1>6. Control'
  BY <1>1, <1>3, <1>4, <1>5, Zenon DEF Control, Building, SpawnAt, Live, At, SpawnOps
<1>7. Roots' = Roots
  BY <1>1, <1>3, <1>4, SameRoots, Zenon DEF SpawnOps
<1>8. /\ Fresh' = None /\ Queues' = {} /\ Held' = {buf, hdr'} \ {None, 0}
      /\ Held = {buf} \ {None, 0}
  BY <1>1, <1>3, <1>5 DEF Fresh, Held, Queues
<1>9. Apart(free, other, Held, Queues, Rings, TablePages)
  BY Zenon DEF IInv, OnePlace
<1>10. buf \notin free
  BY <1>1, <1>8, <1>9, Shape DEF Apart, MaybePage
<1> QED BY <1>1, <1>2, <1>3, <1>4, <1>5, <1>6, <1>7, <1>8, <1>9, <1>10, Steady DEF Apart

\* A step that moves the call and no page; a page that it holds may be dropped.
LEMMA CallMoves ==
  ASSUME IInv, Typed', Control', UNCHANGED <<free, other, buf, hdr, ks>>,
         UNCHANGED <<state, pml4, ring, tbl, pte, lent, stale>>,
         IF k.op \in SpawnOps THEN k'.op \in SpawnOps /\ k'.root = k.root
                              ELSE k'.op \notin SpawnOps,
         Fresh' \in {Fresh, None}, Queues' \subseteq Queues,
         k'.sq # None => k'.sq = k.sq /\ k'.root = k.root,
         k'.cq # None => k'.cq = k.cq /\ k'.root = k.root
  PROVE  IInv'
<1>1. Roots' = Roots
  BY SameRoots, Zenon
<1>2. OnePlace
  BY Zenon DEF IInv
<1>3. Held' \subseteq Held
  BY Zenon DEF Held
<1> QED BY <1>1, <1>2, <1>3, Steady DEF OnePlace, Apart, Held

\* A page for the program, the stack, the heap or mmap; 0 if there is none.
LEMMA PageKeeps ==
  ASSUME IInv, k.op \in {"inode", "memory", "brk", "mmap"}, k.pc = "loop",
         Building => k.cur < ElfPages \/ k.cur >= STACK_BASE,
         NEW p, p \in free \/ p = 0, free' = free \ {p},
         k' = [k EXCEPT !.pc = "walk", !.page = p],
         UNCHANGED <<other, procs, spaces, temps, ghosts>>
  PROVE  IInv'
<1>1. /\ UNCHANGED <<buf, hdr, ks>> /\ k \in Calls /\ free \subseteq Pages /\ other \subseteq Pages
      /\ buf \in MaybePage /\ hdr \in MaybePage \cup {0} /\ ks \in MaybePage
  BY Zenon DEF temps, IInv, Typed
<1>2. /\ k' \in Calls /\ k'.op = k.op /\ k'.pc = "walk" /\ k'.root = k.root /\ k'.s = k.s
      /\ k'.cur = k.cur /\ k'.end = k.end /\ k'.page = p /\ k'.sq = k.sq /\ k'.cq = k.cq
  BY <1>1, Zenon DEF Calls, MaybePage
<1>3. Typed' /\ UNCHANGED <<state, pml4, ring, tbl, pte, lent, stale, mmap_base>>
  BY <1>1, <1>2, StillTyped, Zenon DEF IInv
<1>4. /\ k.sq = None /\ k.cq = None /\ k.page = None /\ k.op # "none"
      /\ Building => SpawnAt
  BY Zenon DEF IInv, Control
<1>5. Building' => SpawnAt'
  BY <1>1, <1>2, <1>3, <1>4, Zenon DEF Building, SpawnAt, Live
<1>6. Control'
  BY <1>1, <1>2, <1>3, <1>4, <1>5, Zenon DEF IInv, Control, Building, Live, At
<1>7. Roots' = Roots
  BY <1>2, <1>3, SameRoots, Zenon
<1>8. /\ Fresh = None /\ Fresh' = p /\ Queues' = {} /\ Held' = Held \cup ({p} \ {None, 0})
  BY <1>1, <1>2, <1>4 DEF Fresh, Held, Queues
<1>9. OnePlace
  BY Zenon DEF IInv
<1>10. p \in free => p \notin Held /\ p \notin {buf, hdr, ks}
  BY <1>1, <1>9, Shape DEF OnePlace, Apart, Held
<1>11. /\ buf' \in Held' => buf' \notin {hdr', ks', Fresh'}
       /\ hdr' \in Held' => hdr' \notin {ks', Fresh'}
       /\ ks' \in Held' => ks' # Fresh'
  BY <1>1, <1>8, <1>9, <1>10, Zenon DEF OnePlace, Held
<1>12. Apart(free, other, Held, Queues, Rings, TablePages)
  BY <1>9, Zenon DEF OnePlace
<1> QED BY <1>1, <1>2, <1>3, <1>4, <1>6, <1>7, <1>8, <1>10, <1>11, <1>12, Steady DEF Apart

\* Returning without pages in hand.
LEMMA ReturnKeeps ==
  ASSUME IInv, k.op \in {"brk", "mmap", "grant"}, k' = NoCall, free' = free,
         UNCHANGED <<other, procs, spaces, temps, ghosts>>
  PROVE  IInv'
<1>1. UNCHANGED <<buf, hdr, ks>> /\ free \subseteq Pages /\ other \subseteq Pages
  BY Zenon DEF temps, IInv, Typed
<1>2. Typed' /\ UNCHANGED <<state, pml4, ring, tbl, pte, lent, stale, mmap_base>>
  BY <1>1, NoCallTyped, StillTyped, Zenon DEF IInv, Typed
<1>3. Control'
  BY <1>1, NoCallTyped, Zenon DEF IInv, Control, Building, SpawnOps, At
<1>4. Fresh' = None /\ Queues' = {}
  BY NoCallTyped, Zenon DEF Fresh, Queues
<1> QED BY <1>1, <1>2, <1>3, <1>4, NoCallTyped, CallMoves, Zenon DEF SpawnOps

\* The page loops.
LEMMA LoopKeeps ==
  ASSUME IInv, copy_segment_data \/ brk_page \/ mmap_page
  PROVE  IInv'
<1>1. /\ UNCHANGED <<other, procs, spaces, temps, ghosts>> /\ k.pc = "loop"
      /\ k.op \in {"inode", "memory", "brk", "mmap"} /\ (Building => k.cur < ElfPages)
      /\ free \subseteq Pages
  BY Zenon DEF copy_segment_data, brk_page, mmap_page, At, SpawnOps, Building, IInv, Typed
<1>2. \/ \E p \in Pages : alloc(p) /\ k' = [k EXCEPT !.pc = "walk", !.page = p]
      \/ OutOfMemory /\ k' = [k EXCEPT !.pc = "walk", !.page = 0]
      \/ OutOfMemory /\ k.op \in {"brk", "mmap"} /\ k' = NoCall
  BY Zenon DEF copy_segment_data, brk_page, mmap_page, At, Return
<1>3. \/ \E p \in free \cup {0} :
           free' = free \ {p} /\ k' = [k EXCEPT !.pc = "walk", !.page = p]
      \/ free' = free /\ k.op \in {"brk", "mmap"} /\ k' = NoCall
  <2>1. ASSUME NEW p \in Pages, alloc(p), k' = [k EXCEPT !.pc = "walk", !.page = p]
        PROVE  p \in free /\ free' = free \ {p}
    BY <1>1, <2>1, Allocated, Zenon
  <2>2. OutOfMemory => free' = free /\ free' = free \ {0}
    BY <1>1, Shape, Zenon DEF OutOfMemory
  <2> QED BY <1>2, <2>1, <2>2, Zenon
<1>4. CASE free' = free /\ k.op \in {"brk", "mmap"} /\ k' = NoCall
  BY <1>1, <1>4, ReturnKeeps, Zenon
<1>5. ASSUME NEW p \in free \cup {0}, free' = free \ {p},
             k' = [k EXCEPT !.pc = "walk", !.page = p]
      PROVE IInv'
  BY <1>1, <1>5, PageKeeps, Zenon
<1> QED BY <1>3, <1>4, <1>5, Zenon

\* A page of the user stack, or the end of the loop.
LEMMA StackKeeps ==
  ASSUME IInv, setup_user_stack
  PROVE  IInv'
<1>1. /\ UNCHANGED <<other, procs, spaces, temps, ghosts>> /\ k.pc = "loop"
      /\ k.op \in {"inode", "memory"} /\ k.cur >= STACK_BASE /\ k.cur \in Nat
      /\ free \subseteq Pages /\ other \subseteq Pages /\ k \in Calls /\ UNCHANGED <<buf, hdr, ks>>
  <2>1. free \subseteq Pages /\ other \subseteq Pages /\ k \in Calls /\ k.cur \in Nat
    BY Zenon DEF IInv, Typed, Calls
  <2>2. k.cur \in STACK_BASE .. USER_STACK_TOP - 1
    BY Zenon DEF setup_user_stack
  <2>3. k.cur >= STACK_BASE
    BY <2>1, <2>2, Shape
  <2> QED BY <2>1, <2>3, Zenon DEF setup_user_stack, SpawnOps, temps
<1>2. \/ \E p \in Pages : alloc(p) /\ k' = [k EXCEPT !.pc = "walk", !.page = p]
      \/ OutOfMemory /\ k' = [k EXCEPT !.pc = "walk", !.page = 0]
      \/ OutOfMemory /\ k' = [k EXCEPT !.cur = USER_STACK_TOP]
  BY Zenon DEF setup_user_stack
<1>3. ASSUME NEW p \in Pages, alloc(p), k' = [k EXCEPT !.pc = "walk", !.page = p]
      PROVE  IInv'
  BY <1>1, <1>3, Allocated, PageKeeps, Zenon
<1>4. CASE OutOfMemory /\ k' = [k EXCEPT !.pc = "walk", !.page = 0]
  <2>1. free' = free \ {0}
    BY <1>1, <1>4, Shape, Zenon DEF OutOfMemory
  <2> QED BY <1>1, <1>4, <2>1, PageKeeps, Zenon
<1>5. CASE OutOfMemory /\ k' = [k EXCEPT !.cur = USER_STACK_TOP]
  <2>1. free' = free
    BY <1>5, Zenon DEF OutOfMemory
  <2>2. /\ k' \in Calls /\ k'.op = k.op /\ k'.pc = k.pc /\ k'.root = k.root /\ k'.s = k.s
        /\ k'.cur = USER_STACK_TOP /\ k'.page = k.page /\ k'.sq = k.sq /\ k'.cq = k.cq
    BY <1>1, <1>5, Shape, Zenon DEF Calls
  <2>3. Typed' /\ UNCHANGED <<state, pml4, ring, tbl, pte, lent, stale, mmap_base>>
    BY <1>1, <2>1, <2>2, StillTyped, Zenon DEF IInv, Typed
  <2>4. SpawnAt'
    BY <1>1, <2>2, <2>3, Shape DEF IInv, Control, Building, SpawnOps, SpawnAt, Live
  <2>5. Control'
    BY <1>1, <2>2, <2>3, <2>4, Zenon DEF IInv, Control, Building, SpawnOps, Live, At
  <2>6. Fresh' = Fresh /\ Queues' = Queues
    BY <2>2, Zenon DEF Fresh, Queues
  <2> QED BY <1>1, <2>1, <2>2, <2>3, <2>5, <2>6, CallMoves, Zenon DEF SpawnOps
<1> QED BY <1>2, <1>3, <1>4, <1>5, Zenon

\* The program is mapped, the header goes back.
LEMMA SegmentsKeeps ==
  ASSUME IInv, segments_done
  PROVE  IInv'
<1>1. /\ UNCHANGED <<other, procs, spaces, buf, ks, ghosts>> /\ k.pc = "loop" /\ hdr' = None
      /\ k.op \in {"inode", "memory"} /\ k' = [k EXCEPT !.cur = STACK_BASE]
      /\ free \subseteq Pages /\ other \subseteq Pages /\ k \in Calls
      /\ buf \in MaybePage /\ ks \in MaybePage /\ hdr \in MaybePage \cup {0}
  BY Zenon DEF segments_done, SpawnOps, IInv, Typed
<1>2. free' \subseteq free \cup ({hdr} \ {None, 0})
  BY Pushed, Zenon DEF segments_done
<1>3. /\ k' \in Calls /\ k'.op = k.op /\ k'.pc = k.pc /\ k'.root = k.root /\ k'.s = k.s
      /\ k'.cur = STACK_BASE /\ k'.page = k.page /\ k'.sq = k.sq /\ k'.cq = k.cq
  BY <1>1, Shape, Zenon DEF Calls
<1>4. Typed' /\ UNCHANGED <<state, pml4, ring, tbl, pte, lent, stale, mmap_base>>
  BY <1>1, <1>2, <1>3, StillTyped, Zenon DEF IInv, MaybePage
<1>5. SpawnAt'
  BY <1>1, <1>3, <1>4, Shape DEF IInv, Control, Building, SpawnOps, SpawnAt, Live
<1>6. Control'
  BY <1>1, <1>3, <1>4, <1>5, Zenon DEF IInv, Control, Building, SpawnOps, Live, At
<1>7. k.page = None /\ k.sq = None /\ k.cq = None
  BY <1>1, Zenon DEF IInv, Control
<1>8. Fresh' = None /\ Queues' = {} /\ Held' = {buf, ks} \ {None, 0}
  BY <1>1, <1>3, <1>7 DEF Fresh, Queues, Held
<1>9. Roots' = Roots
  BY <1>1, <1>3, <1>4, SameRoots, Zenon DEF SpawnOps
<1>10. OnePlace
  BY Zenon DEF IInv
<1>11. /\ buf \in Held' => buf # ks /\ buf \notin free' /\ buf \notin other
       /\ ks \in Held' => ks \notin free' /\ ks \notin other
  BY <1>1, <1>2, <1>8, <1>10, Zenon DEF OnePlace, Apart, Held
<1>12. Held' \subseteq Held /\ free' \subseteq free \cup Held /\ free' \cap other = {}
  BY <1>1, <1>2, <1>8, <1>10 DEF Held, OnePlace, Apart
<1> QED BY <1>1, <1>3, <1>4, <1>6, <1>7, <1>8, <1>9, <1>11, <1>12, Steady

\* The kernel stack of the new process.
LEMMA KernelStackKeeps ==
  ASSUME IInv, alloc_kernel_stack
  PROVE  IInv'
<1>1. /\ UNCHANGED <<other, procs, spaces, ghosts>> /\ k.pc = "kstack" /\ Building
      /\ k.op \in {"inode", "memory"}
      /\ free \subseteq Pages /\ other \subseteq Pages /\ k \in Calls
      /\ buf \in MaybePage /\ hdr \in MaybePage \cup {0}
  BY DEF alloc_kernel_stack, IInv, Typed, Control, Building, SpawnOps, Calls, NoCall
<1>2. CASE free = {} /\ GiveUp
  <2>1. free' \subseteq free \cup Held
    BY <1>2, Pushed DEF GiveUp, Held
  <2> QED BY <1>1, <1>2, <2>1, GiveUpKeeps, Zenon DEF GiveUp, Return
<1>3. CASE /\ \E p \in Pages : alloc(p) /\ ks' = p
           /\ k' = [k EXCEPT !.pc = "pml4"]
           /\ UNCHANGED <<hdr, buf>>
  <2>1. ks' \in free /\ ks' \in Pages /\ free' = free \ {ks'}
    BY <1>1, <1>3, Allocated, Zenon
  <2>2. /\ k' \in Calls /\ k'.op = k.op /\ k'.pc = "pml4" /\ k'.root = k.root /\ k'.s = k.s
        /\ k'.cur = k.cur /\ k'.page = k.page /\ k'.sq = k.sq /\ k'.cq = k.cq
    BY <1>1, <1>3, Zenon DEF Calls
  <2>3. Typed' /\ UNCHANGED <<state, pml4, ring, tbl, pte, lent, stale, mmap_base>>
    BY <1>1, <1>3, <2>1, <2>2, StillTyped, Zenon DEF IInv, MaybePage
  <2>4. SpawnAt'
    BY <1>1, <1>3, <2>2, <2>3 DEF IInv, Control, SpawnAt, Live
  <2>5. Control'
    BY <1>1, <2>2, <2>3, <2>4, Zenon DEF IInv, Control, Building, SpawnOps, Live, At
  <2>6. k.page = None /\ k.sq = None /\ k.cq = None
    BY <1>1, Zenon DEF IInv, Control
  <2>7. Fresh' = None /\ Queues' = {} /\ Held' = {buf, hdr, ks'} \ {None, 0}
    BY <1>1, <1>3, <2>2, <2>6 DEF Fresh, Queues, Held
  <2>8. Roots' = Roots
    BY <1>1, <2>2, <2>3, SameRoots, Zenon DEF SpawnOps
  <2>9. OnePlace
    BY Zenon DEF IInv
  <2>10. {buf, hdr} \ {None, 0} \subseteq Held
    BY Zenon DEF Held
  <2>11. /\ buf \in Held' => buf # hdr /\ buf # ks' /\ buf \notin free' /\ buf \notin other
         /\ hdr \in Held' => hdr # ks' /\ hdr \notin free' /\ hdr \notin other
         /\ ks' \notin free' /\ ks' \notin other
    BY <2>1, <2>7, <2>9, <2>10, Zenon DEF OnePlace, Apart
  <2>12. free \cap other = {} /\ ks' # None
    BY <2>1, <2>9, Shape, Zenon DEF OnePlace, Apart
  <2> QED BY <1>1, <1>3, <2>1, <2>2, <2>3, <2>5, <2>6, <2>7, <2>8, <2>10, <2>11, <2>12, Steady
<1> QED BY <1>2, <1>3, Zenon DEF alloc_kernel_stack


\* An address stays one when it wraps.
LEMMA WrapNat ==
  ASSUME NEW v \in Nat
  PROVE  Wrap(v) \in Nat
<1>1. USER_STACK_TOP \in Nat /\ USER_STACK_TOP > 0
  BY DEF USER_STACK_TOP
<1> QED BY <1>1 DEF Wrap

\* The page count of a heap that ends at b.
LEMMA PageEndNat ==
  ASSUME NEW b \in Nat
  PROVE  PageEnd(b) \in Nat
<1>1. PAGE_SIZE \in Nat /\ PAGE_SIZE > 0
  OBVIOUS
<1>2. b + PAGE_SIZE - 1 \in Nat
  BY <1>1
<1>3. (b + PAGE_SIZE - 1) \div PAGE_SIZE \in Nat
  BY <1>1, <1>2
<1> QED BY <1>3, WrapNat, Zenon DEF PageEnd

\* The type of what the calls on the heap and on mmap change.
LEMMA HeapTyped ==
  ASSUME Typed, UNCHANGED <<free, other, state, pml4, ring, spaces, temps, ghosts>>,
         brk' \in [Slots -> Nat], mmap_base' \in [Slots -> Nat], vma' \in [Slots -> Vmas],
         k' \in Calls
  PROVE  Typed' /\ UNCHANGED <<tbl, pte, lent, stale, buf, hdr, ks>>
BY Zenon DEF Typed, spaces, temps, ghosts

\* A call of a running process begins: it has taken no page.
LEMMA BeginKeeps ==
  ASSUME IInv, NEW s \in Slots, k.op = "none", state[s] = "ready",
         UNCHANGED <<free, other, procs, spaces, temps, ghosts>>,
         k' \in Calls, k'.op \in {"brk", "mmap", "grant"}, k'.s = s, k'.root # None,
         k'.sq = None, k'.cq = None,
         IF k'.op = "grant"
         THEN k'.pc = "walk" /\ k'.page # None /\ \E v \in VAs : k'.page = pte[pml4[s]][v]
         ELSE k'.pc = "loop" /\ k'.page = None /\ k'.root = pml4[s]
  PROVE  IInv'
<1>1. /\ UNCHANGED <<buf, hdr, ks>> /\ free \subseteq Pages /\ other \subseteq Pages
      /\ k = NoCall
  BY Zenon DEF temps, IInv, Typed, Control
<1>2. Typed' /\ UNCHANGED <<state, pml4, ring, tbl, pte, lent, stale, mmap_base>>
  BY <1>1, StillTyped, Zenon DEF IInv, Typed
<1>3. buf = None /\ hdr = None /\ ks = None
  BY Zenon DEF IInv, Control, Building, SpawnOps
<1>4. Control'
  BY <1>1, <1>2, <1>3, Zenon DEF Control, Building, SpawnOps, Live, At
<1>5. Fresh' = None /\ Queues' = {}
  BY Zenon DEF Fresh, Queues
<1> QED BY <1>1, <1>2, <1>4, <1>5, CallMoves, Zenon DEF SpawnOps

\* A call record with some fields set.
LEMMA CallSet ==
  ASSUME NEW o \in {"brk", "mmap"}, NEW s \in Slots, NEW r \in Pages, NEW b \in Nat,
         NEW e \in Nat,
         k' = [NoCall EXCEPT !.op = o, !.pc = "loop", !.s = s, !.root = r, !.cur = b, !.end = e]
  PROVE  /\ k' \in Calls /\ k'.op = o /\ k'.pc = "loop" /\ k'.s = s /\ k'.root = r /\ k'.end = e
         /\ k'.page = None /\ k'.sq = None /\ k'.cq = None
<1>1. s \in Nat
  BY DEF Slots
<1> QED BY <1>1, NoCallTyped, Zenon DEF Calls, MaybePage

\* The same for the record of a grant.
LEMMA GrantSet ==
  ASSUME NEW s \in Slots, NEW r \in Pages, NEW b \in Nat, NEW p \in Pages \cup {0},
         k' = [NoCall EXCEPT !.op = "grant", !.pc = "walk", !.s = s, !.root = r, !.cur = b,
                 !.page = p]
  PROVE  /\ k' \in Calls /\ k'.op = "grant" /\ k'.pc = "walk" /\ k'.s = s /\ k'.root = r
         /\ k'.page = p /\ k'.sq = None /\ k'.cq = None
<1>1. s \in Nat
  BY DEF Slots
<1> QED BY <1>1, NoCallTyped, Zenon DEF Calls, MaybePage

\* sys_brk and ring_brk.
LEMMA BrkKeeps ==
  ASSUME IInv, NEW s \in Slots, NEW b \in Nat, sys_brk(s, b) \/ ring_brk(s, b)
  PROVE  IInv'
<1>1. k.op = "none" /\ state[s] = "ready" /\ GrowHeap(s, b)
  BY Zenon DEF sys_brk, ring_brk, Ready
<1>2. /\ brk \in [Slots -> Nat] /\ pml4[s] \in Pages /\ PageEnd(brk[s]) \in Nat
  BY <1>1, PageEndNat, Zenon DEF IInv, Typed, SlotsOwn, Live, MaybePage
<1>3. CASE PageEnd(b) > PageEnd(brk[s])
  <2>1. /\ k' = [NoCall EXCEPT !.op = "brk", !.pc = "loop", !.s = s,
                   !.root = pml4[s], !.cur = PageEnd(brk[s]), !.end = b]
        /\ UNCHANGED <<free, other, procs, spaces, temps, ghosts>>
    BY <1>1, <1>3, Zenon DEF GrowHeap, procs
  <2>2. /\ k' \in Calls /\ k'.op = "brk" /\ k'.pc = "loop" /\ k'.s = s /\ k'.root = pml4[s]
        /\ k'.page = None /\ k'.sq = None /\ k'.cq = None
    <3> DEFINE r == pml4[s]
               e == PageEnd(brk[s])
    <3>1. /\ k' = [NoCall EXCEPT !.op = "brk", !.pc = "loop", !.s = s, !.root = r, !.cur = e, !.end = b]
          /\ r \in Pages /\ e \in Nat
      BY <1>2, <2>1, Zenon
    <3> HIDE DEF r, e
    <3>2. /\ k' \in Calls /\ k'.op = "brk" /\ k'.pc = "loop" /\ k'.s = s /\ k'.root = r
          /\ k'.page = None /\ k'.sq = None /\ k'.cq = None
      BY <3>1, CallSet, Zenon
    <3> QED BY <3>2, Zenon DEF r
  <2> QED BY <1>1, <1>2, <2>1, <2>2, Shape, BeginKeeps, Zenon
<1>4. CASE ~ (PageEnd(b) > PageEnd(brk[s]))
  <2>1. /\ UNCHANGED <<free, other, state, pml4, ring, mmap_base, vma, spaces, temps, ghosts, k>>
        /\ brk' \in [Slots -> Nat]
    BY <1>1, <1>2, <1>4 DEF GrowHeap
  <2>2. Typed' /\ UNCHANGED <<tbl, pte, lent, stale, buf, hdr, ks>>
    BY <2>1, HeapTyped, Zenon DEF IInv, Typed
  <2>3. Control'
    BY <2>1, <2>2, Zenon DEF IInv, Control, Building, SpawnAt, RingAt, Live, At
  <2>4. Fresh' = Fresh /\ Queues' = Queues
    BY <2>1, Zenon DEF Fresh, Queues
  <2> QED BY <2>1, <2>2, <2>3, <2>4, CallMoves, Zenon
<1> QED BY <1>3, <1>4, Zenon

\* sys_mmap and ring_mmap.
LEMMA MmapKeeps ==
  ASSUME IInv, NEW s \in Slots, NEW n \in Nat, sys_mmap(s, n) \/ ring_mmap(s, n)
  PROVE  IInv'
<1>1. k.op = "none" /\ state[s] = "ready" /\ MapFresh(s, n)
  BY Zenon DEF sys_mmap, ring_mmap, Ready
<1>2. mmap_base[s] \in Nat /\ pml4[s] \in Pages
  BY <1>1, Zenon DEF IInv, Typed, SlotsOwn, Live, MaybePage
<1>3. /\ k' = [NoCall EXCEPT !.op = "mmap", !.pc = "loop", !.s = s,
                 !.root = pml4[s], !.cur = mmap_base[s], !.end = Wrap(mmap_base[s] + n)]
      /\ UNCHANGED <<free, other, procs, spaces, temps, ghosts>>
  BY <1>1, Zenon DEF MapFresh
<1>4. /\ k' \in Calls /\ k'.op = "mmap" /\ k'.pc = "loop" /\ k'.s = s /\ k'.root = pml4[s]
      /\ k'.page = None /\ k'.sq = None /\ k'.cq = None
  <2> DEFINE b == mmap_base[s]
             r == pml4[s]
             e == Wrap(b + n)
  <2>1. e \in Nat /\ b \in Nat /\ r \in Pages
    BY <1>2, WrapNat
  <2>2. k' = [NoCall EXCEPT !.op = "mmap", !.pc = "loop", !.s = s, !.root = r, !.cur = b, !.end = e]
    BY <1>3, Zenon
  <2> HIDE DEF b, r, e
  <2>3. /\ k' \in Calls /\ k'.op = "mmap" /\ k'.pc = "loop" /\ k'.s = s /\ k'.root = r
        /\ k'.page = None /\ k'.sq = None /\ k'.cq = None
    BY <2>1, <2>2, CallSet, ZenonT(60)
  <2> QED BY <2>3, Zenon DEF b, r, e
<1> QED BY <1>1, <1>2, <1>3, <1>4, Shape, BeginKeeps, Zenon

\* sys_shm_grant and ring_shm_grant.
LEMMA GrantKeeps ==
  ASSUME IInv, NEW s \in Slots, NEW t \in Slots, NEW src \in GrantVAs, NEW dst \in GrantVAs,
         sys_shm_grant(s, t, src, dst) \/ ring_shm_grant(s, t, src, dst)
  PROVE  IInv'
<1>1. k.op = "none" /\ state[s] = "ready" /\ Grant(s, t, src, dst)
  BY Zenon DEF sys_shm_grant, ring_shm_grant, Ready
<1>2. pml4[s] \in Pages /\ pml4[t] \in Pages /\ src \in VAs /\ dst \in Nat
  BY <1>1, Shape DEF IInv, Typed, SlotsOwn, Live, MaybePage, Grant, VAs
<1>3. pte[pml4[s]][src] \in MaybePage \cup {0} /\ pte[pml4[s]][src] # None
  BY <1>1, <1>2 DEF IInv, Typed, Grant
<1>4. /\ k' = [NoCall EXCEPT !.op = "grant", !.pc = "walk", !.s = s, !.root = pml4[t],
                 !.cur = dst, !.page = pte[pml4[s]][src]]
      /\ UNCHANGED <<free, other, procs, spaces, temps, ghosts>>
  BY <1>1, Zenon DEF Grant
<1>5. /\ k' \in Calls /\ k'.op = "grant" /\ k'.pc = "walk" /\ k'.s = s /\ k'.root = pml4[t]
      /\ k'.page = pte[pml4[s]][src] /\ k'.sq = None /\ k'.cq = None
  <2>1. pte[pml4[s]][src] \in Pages \cup {0}
    BY <1>3, Zenon DEF MaybePage
  <2> DEFINE p == pte[pml4[s]][src]
             r == pml4[t]
  <2>2. k' = [NoCall EXCEPT !.op = "grant", !.pc = "walk", !.s = s, !.root = r, !.cur = dst,
                !.page = p]
    BY <1>4, Zenon
  <2>3. p \in Pages \cup {0} /\ r \in Pages /\ dst \in Nat
    BY <1>2, <2>1, Zenon
  <2> HIDE DEF p, r
  <2>4. /\ k' \in Calls /\ k'.op = "grant" /\ k'.pc = "walk" /\ k'.s = s /\ k'.root = r
        /\ k'.page = p /\ k'.sq = None /\ k'.cq = None
    BY <2>2, <2>3, GrantSet, ZenonT(60)
  <2> QED BY <2>4, Zenon DEF p, r
<1> QED BY <1>1, <1>2, <1>3, <1>4, <1>5, Shape, BeginKeeps, Zenon


\* brk and mmap record what they have mapped; a grant returns.
LEMMA CommitKeeps ==
  ASSUME IInv, brk_commit \/ mmap_commit \/ grant_done
  PROVE  IInv'
<1>1. CASE grant_done
  BY <1>1, ReturnKeeps, Zenon DEF grant_done, At, Return
<1>2. CASE brk_commit \/ mmap_commit
  <2>1. /\ UNCHANGED <<free, other, state, pml4, ring, spaces, temps, ghosts>>
        /\ k' = NoCall /\ k.op \in {"brk", "mmap"}
        /\ \/ UNCHANGED <<mmap_base, vma>> /\ brk' = [brk EXCEPT ![k.s] = k.end]
           \/ /\ UNCHANGED brk /\ mmap_base' = [mmap_base EXCEPT ![k.s] = k.end]
              /\ vma' = [vma EXCEPT ![k.s] = <<[start |-> mmap_base[k.s], end |-> k.end]>> \o @]
    BY <1>2, Zenon DEF brk_commit, mmap_commit, At, Return
  <2>2. /\ k.end \in Nat /\ k.s \in Slots
        /\ brk \in [Slots -> Nat] /\ mmap_base \in [Slots -> Nat] /\ vma \in [Slots -> Vmas]
    BY <2>1, Zenon DEF IInv, Typed, Calls, Control
  <2>3. <<[start |-> mmap_base[k.s], end |-> k.end]>> \o vma[k.s] \in Vmas
    <3>1. vma[k.s] \in Vmas /\ mmap_base[k.s] \in Nat
      BY <2>2, Zenon
    <3>2. <<[start |-> mmap_base[k.s], end |-> k.end]>> \in Vmas
      BY <2>2, <3>1 DEF Vmas
    <3> QED BY <3>1, <3>2 DEF Vmas
  <2>4. brk' \in [Slots -> Nat] /\ mmap_base' \in [Slots -> Nat] /\ vma' \in [Slots -> Vmas]
    <3> DEFINE v == <<[start |-> mmap_base[k.s], end |-> k.end]>> \o vma[k.s]
    <3>1. v \in Vmas /\ (vma' = vma \/ vma' = [vma EXCEPT ![k.s] = v])
      BY <2>1, <2>3, Zenon
    <3> HIDE DEF v
    <3>2. vma' \in [Slots -> Vmas]
      BY <2>2, <3>1
    <3> QED BY <2>1, <2>2, <3>2, Zenon
  <2>5. Typed' /\ UNCHANGED <<tbl, pte, lent, stale, buf, hdr, ks>>
    BY <2>1, <2>4, NoCallTyped, HeapTyped, Zenon DEF IInv
  <2>6. Control'
    BY <2>1, <2>5, NoCallTyped, Zenon DEF IInv, Control, Building, SpawnOps, At
  <2>7. Fresh' = None /\ Queues' = {}
    BY <2>1, NoCallTyped, Zenon DEF Fresh, Queues
  <2> QED BY <2>1, <2>5, <2>6, <2>7, NoCallTyped, CallMoves, Zenon DEF SpawnOps
<1> QED BY <1>1, <1>2, Zenon

\* init_ring takes the page of the submission queue.
LEMMA InitRingKeeps ==
  ASSUME IInv, NEW s \in Slots, init_ring(s)
  PROVE  IInv'
<1>1. PICK p \in Pages :
        /\ alloc(p)
        /\ k' = [NoCall EXCEPT !.op = "ring", !.pc = "cq", !.s = s, !.root = pml4[s], !.sq = p]
  BY Zenon DEF init_ring
<1>2. /\ UNCHANGED <<other, procs, spaces, temps, ghosts>> /\ UNCHANGED <<buf, hdr, ks>>
      /\ k.op = "none" /\ Live(s)
  BY Zenon DEF init_ring, Ready, temps, Live
<1>3. /\ free \subseteq Pages /\ other \subseteq Pages /\ pml4[s] \in Pages
      /\ k = NoCall /\ buf = None /\ hdr = None /\ ks = None
  BY <1>2 DEF IInv, Typed, Control, Building, SpawnOps, SlotsOwn, MaybePage
<1>4. p \in free /\ free' = free \ {p}
  BY <1>1, <1>3, Allocated, Zenon
<1>5. /\ k' \in Calls /\ k'.op = "ring" /\ k'.pc = "cq" /\ k'.s = s /\ k'.root = pml4[s]
      /\ k'.page = None /\ k'.sq = p /\ k'.cq = None
  <2>1. s \in Nat
    BY DEF Slots
  <2> QED BY <1>1, <1>3, <2>1, NoCallTyped, Zenon DEF Calls, MaybePage
<1>6. Typed' /\ UNCHANGED <<state, pml4, ring, tbl, pte, lent, stale, mmap_base>>
  BY <1>2, <1>3, <1>4, <1>5, StillTyped, Zenon DEF IInv, Typed
<1>7. Control'
  BY <1>2, <1>3, <1>5, <1>6, Shape, Zenon DEF Control, Building, SpawnOps, RingAt, Live, At
<1>8. Roots' = Roots
  BY <1>2, <1>5, <1>6, SameRoots, Zenon DEF SpawnOps
<1>9. Fresh' = p /\ Held' = {p} /\ Queues' = {}
  BY <1>2, <1>3, <1>5, Shape, Zenon DEF Fresh, Held, Queues
<1>10. free \cap other = {}
  BY Zenon DEF IInv, OnePlace, Apart
<1>11. Held' \cap (free' \cup other') = {}
  BY <1>2, <1>4, <1>9, <1>10
<1>12. buf' \notin Held' /\ hdr' \notin Held' /\ ks' \notin Held'
  BY <1>2, <1>3, <1>9, Shape, Zenon
<1> QED BY <1>2, <1>3, <1>4, <1>5, <1>6, <1>7, <1>8, <1>9, <1>10, <1>11, <1>12, Steady, Zenon

\* The page of the completion queue; without one, the other goes back.
LEMMA RingCqKeeps ==
  ASSUME IInv, init_ring_cq
  PROVE  IInv'
<1>1. /\ UNCHANGED <<other, procs, spaces, temps, ghosts>> /\ UNCHANGED <<buf, hdr, ks>>
      /\ k.op = "ring" /\ k.pc = "cq" /\ free \subseteq Pages /\ other \subseteq Pages
      /\ buf = None /\ hdr = None /\ ks = None /\ k \in Calls
      /\ k.sq # None /\ k.cq = None /\ k.page = None
  BY Zenon DEF init_ring_cq, At, temps, IInv, Typed, Control, Building, SpawnOps, RingAt
<1>2. k.sq \in Pages
  BY <1>1, Zenon DEF Calls, MaybePage
<1>3. Fresh = k.sq /\ Held = {k.sq}
  BY <1>1, <1>2, Shape, Zenon DEF Fresh, Held
<1>4. free \cap other = {} /\ k.sq \notin free /\ k.sq \notin other
  BY <1>3, Zenon DEF IInv, OnePlace, Apart
<1>5. CASE free = {} /\ free' = Push(free, k.sq) /\ Return
  <2>1. free' = {k.sq} /\ k' = NoCall
    BY <1>2, <1>5, Shape, Zenon DEF Push, Return
  <2>2. Typed' /\ UNCHANGED <<state, pml4, ring, tbl, pte, lent, stale, mmap_base>>
    BY <1>1, <1>2, <2>1, NoCallTyped, StillTyped, Zenon DEF IInv, Typed
  <2>3. Control'
    BY <1>1, <2>1, NoCallTyped, Zenon DEF Control, Building, SpawnOps, At
  <2>4. Fresh' = None /\ Queues' = {} /\ Held' = {}
    BY <1>1, <2>1, NoCallTyped, Zenon DEF Fresh, Queues, Held
  <2>5. Roots' = Roots
    BY <1>1, <2>1, <2>2, NoCallTyped, SameRoots, Zenon DEF SpawnOps
  <2> QED BY <1>1, <1>3, <1>4, <2>1, <2>2, <2>3, <2>4, <2>5, NoCallTyped, Steady
<1>6. ASSUME NEW p \in Pages, alloc(p),
             k' = [k EXCEPT !.pc = "walk", !.cur = RING_SQ_USER_VA, !.page = k.sq, !.cq = p]
      PROVE  IInv'
  <2>1. p \in free /\ free' = free \ {p}
    BY <1>1, <1>6, Allocated, Zenon
  <2>2. /\ k' \in Calls /\ k'.op = "ring" /\ k'.pc = "walk" /\ k'.s = k.s /\ k'.root = k.root
        /\ k'.cur = RING_SQ_USER_VA /\ k'.page = k.sq /\ k'.sq = k.sq /\ k'.cq = p
    BY <1>1, <1>2, <1>6, Shape, Zenon DEF Calls, MaybePage
  <2>3. Typed' /\ UNCHANGED <<state, pml4, ring, tbl, pte, lent, stale, mmap_base>>
    BY <1>1, <2>1, <2>2, StillTyped, Zenon DEF IInv, Typed
  <2>4. Control'
    BY <1>1, <1>4, <2>1, <2>2, <2>3, Shape, Zenon DEF IInv, Control, Building, SpawnOps, RingAt, Live, At
  <2>5. Fresh' = None /\ Held' = {} /\ Queues' = {k.sq, p}
    BY <1>1, <1>2, <2>2, Shape, Zenon DEF Fresh, Held, Queues
  <2>6. Roots' = Roots
    BY <1>1, <2>2, <2>3, SameRoots, Zenon DEF SpawnOps
  <2>7. /\ Queues' \subseteq free \cup Held \cup Queues /\ Queues' \cap (free' \cup other' \cup Held') = {}
        /\ free' \subseteq free /\ free' \cap other' = {} /\ other' = other
    BY <1>1, <1>3, <1>4, <2>1, <2>5
  <2> QED BY <1>1, <1>3, <1>4, <2>1, <2>2, <2>3, <2>4, <2>5, <2>6, <2>7, Steady, Zenon
<1> QED BY <1>5, <1>6, Zenon DEF init_ring_cq

\* The second queue page is mapped next.
LEMMA RingMapKeeps ==
  ASSUME IInv, init_ring_map_cq
  PROVE  IInv'
<1>1. /\ UNCHANGED <<free, other, procs, spaces, temps, ghosts>> /\ UNCHANGED <<buf, hdr, ks>>
      /\ k.op = "ring" /\ k.pc = "loop" /\ k.cur = RING_CQ_USER_VA
      /\ k' = [k EXCEPT !.pc = "walk", !.page = k.cq]
      /\ free \subseteq Pages /\ other \subseteq Pages /\ k \in Calls
  BY Zenon DEF init_ring_map_cq, At, temps, IInv, Typed
<1>2. /\ k' \in Calls /\ k'.op = "ring" /\ k'.pc = "walk" /\ k'.s = k.s /\ k'.root = k.root
      /\ k'.cur = RING_CQ_USER_VA /\ k'.page = k.cq /\ k'.sq = k.sq /\ k'.cq = k.cq
  BY <1>1, Zenon DEF Calls
<1>3. Typed' /\ UNCHANGED <<state, pml4, ring, tbl, pte, lent, stale, mmap_base>>
  BY <1>1, <1>2, StillTyped, Zenon DEF IInv, Typed
<1>4. Control'
  BY <1>1, <1>2, <1>3, Zenon DEF IInv, Control, Building, SpawnOps, RingAt, Live, At
<1>5. Fresh' = Fresh /\ Queues' = Queues
  BY <1>1, <1>2, Zenon DEF Fresh, Queues
<1> QED BY <1>1, <1>2, <1>3, <1>4, <1>5, CallMoves, Zenon DEF SpawnOps


\* alloc_pid claims a free slot, sys_wait frees a zombie's: neither runs.
LEMMA ClaimKeeps ==
  ASSUME IInv, NEW s \in Slots, alloc_pid(s) \/ sys_wait(s)
  PROVE  IInv'
<1>1. /\ UNCHANGED <<free, other, pml4, kstack, brk, mmap_base, vma, ring, spaces, temps, ghosts>>
      /\ UNCHANGED <<buf, hdr, ks, tbl, pte, lent, stale>>
      /\ free \subseteq Pages /\ other \subseteq Pages /\ k \in Calls
      /\ state \in [Slots -> {"free", "claimed", "ready", "zombie"}] /\ state[s] # "ready"
  BY Zenon DEF alloc_pid, sys_wait, IInv, Typed, spaces, temps, ghosts
<1>2. \/ /\ k.op \in SpawnOps /\ k.pc = "slot" /\ state' = [state EXCEPT ![s] = "claimed"]
         /\ k' = [k EXCEPT !.pc = "kstack", !.s = s]
      \/ /\ k.op = "none" /\ k' = k /\ state' = [state EXCEPT ![s] = "free"]
  BY Zenon DEF alloc_pid, sys_wait
<1>3. /\ state' \in [Slots -> {"free", "claimed", "ready", "zombie"}]
      /\ \A t \in Slots : Live(t)' <=> Live(t)
  BY <1>1, <1>2, Zenon DEF Live
<1>4. /\ k' \in Calls /\ k'.op = k.op /\ k'.root = k.root /\ k'.cur = k.cur
      /\ k'.page = k.page /\ k'.sq = k.sq /\ k'.cq = k.cq
      /\ \/ k.op = "none" /\ k' = k
         \/ /\ k.op \in SpawnOps /\ k.pc = "slot" /\ k'.pc = "kstack" /\ k'.s = s
            /\ state'[s] = "claimed"
  <2>1. s \in Nat
    BY DEF Slots
  <2>2. CASE k' = k /\ k.op = "none"
    BY <1>1, <2>2, Zenon
  <2>3. CASE /\ k.op \in SpawnOps /\ k.pc = "slot" /\ state' = [state EXCEPT ![s] = "claimed"]
             /\ k' = [k EXCEPT !.pc = "kstack", !.s = s]
    BY <1>1, <2>1, <2>3, Zenon DEF Calls
  <2> QED BY <1>2, <2>2, <2>3, Zenon
<1>5. Typed'
  BY <1>1, <1>3, <1>4, Zenon DEF IInv, Typed
<1>6. Building' => SpawnAt'
  BY <1>1, <1>3, <1>4, ZenonT(60) DEF IInv, Control, Building, SpawnOps, SpawnAt
<1>7. Control'
  BY <1>1, <1>3, <1>4, <1>6, Zenon DEF IInv, Control, Building, SpawnOps, At
<1>8. Roots' = Roots
  BY <1>1, <1>3, <1>4, Zenon DEF Roots
<1>9. Fresh' = Fresh /\ Held' = Held /\ Queues' = Queues
  <2>1. k.pc # "cq" /\ k'.pc # "cq"
    BY <1>4, NoCallTyped, Zenon DEF IInv, Control, SpawnOps
  <2>2. Fresh' = Fresh /\ Queues' = Queues
    BY <1>4, <2>1, Zenon DEF Fresh, Queues
  <2> QED BY <1>1, <2>2, Zenon DEF Held
<1>10. OnePlace
  BY Zenon DEF IInv
<1> QED BY <1>1, <1>3, <1>4, <1>5, <1>7, <1>8, <1>9, <1>10, SteadyLive, Zenon DEF OnePlace, Apart

-----------------------------------------------------------------------------
(* The walk.                                                                 *)

\* Where a walk can be.
LEMMA WalkAt ==
  ASSUME IInv, k.pc = "walk"
  PROVE  /\ k.op \in {"inode", "memory", "brk", "mmap", "ring", "grant"}
         /\ k.root \in Pages /\ (k.op # "grant" => k.root \in Roots)
<1>1. k.op # "none" /\ k \in Calls
  BY NoCallTyped, Zenon DEF IInv, Control, Typed
<1>2. k.op \in {"inode", "memory", "brk", "mmap", "ring", "grant"} /\ k.root \in MaybePage
  BY <1>1, Zenon DEF Calls
<1>3. k.root # None
  BY <1>2, Zenon DEF IInv, Control, Building, SpawnOps, SpawnAt
<1>4. k.op # "grant" => k.root \in Roots
  BY <1>2, <1>3, Zenon DEF IInv, Control, Roots, SpawnOps
<1> QED BY <1>2, <1>3, <1>4, Zenon DEF MaybePage

\* The address spaces are pages, and so is every table.
LEMMA TablesArePages ==
  ASSUME IInv
  PROVE  Roots \subseteq Pages /\ TablePages \subseteq Pages
<1>1. Roots \subseteq Pages
  BY DEF IInv, Typed, SlotsOwn, Roots, MaybePage, Calls
<1>2. ASSUME NEW r \in Roots, NEW t \in Tables PROVE tbl[r][t] \in MaybePage
  BY <1>1 DEF IInv, Typed
<1> QED BY <1>1, <1>2 DEF TablePages, MaybePage

\* The call goes one level down, or on to its next page.
LEMMA WalkMoves ==
  ASSUME IInv, k.pc = "walk", k' = [k EXCEPT !.lvl = @ + 1] \/ k' = NextPage,
         UNCHANGED <<state, pml4, mmap_base, buf, hdr, ks>>,
         \/ UNCHANGED pte
         \/ k' = NextPage
  PROVE  /\ k' \in Calls /\ Control'
         /\ k'.op = k.op /\ k'.root = k.root /\ k'.sq = k.sq /\ k'.cq = k.cq
         /\ k'.pc # "cq" /\ (k' = NextPage => k'.page = None /\ Fresh' = None)
         /\ Fresh' \in {Fresh, None} /\ Queues' = Queues /\ Roots' = Roots
<1>1. k \in Calls
  BY Zenon DEF IInv, Typed
<1>2. /\ k' \in Calls /\ k'.op = k.op /\ k'.root = k.root /\ k'.sq = k.sq /\ k'.cq = k.cq
      /\ k'.s = k.s /\ k'.end = k.end
      /\ \/ k'.pc = "walk" /\ k'.page = k.page /\ k'.cur = k.cur /\ UNCHANGED pte
         \/ k'.pc = "loop" /\ k'.page = None /\ k'.cur = k.cur + 1
      /\ (k' = NextPage => k'.pc = "loop" /\ k'.page = None)
  <2>1. CASE k' = NextPage
    <3> DEFINE c == k.cur + 1
    <3>1. c \in Nat
      BY <1>1 DEF Calls
    <3>2. k' = [k EXCEPT !.pc = "loop", !.cur = c, !.page = None, !.lvl = 1]
      BY <2>1, Zenon DEF NextPage
    <3> HIDE DEF c
    <3>3. /\ k' \in Calls /\ k'.op = k.op /\ k'.root = k.root /\ k'.sq = k.sq /\ k'.cq = k.cq
          /\ k'.s = k.s /\ k'.end = k.end /\ k'.pc = "loop" /\ k'.page = None /\ k'.cur = c
      BY <1>1, <3>1, <3>2, Zenon DEF Calls, MaybePage
    <3> QED BY <3>3, Zenon DEF c
  <2>2. CASE k' # NextPage /\ k' = [k EXCEPT !.lvl = @ + 1]
    BY <1>1, <2>2 DEF Calls
  <2> QED BY <2>1, <2>2, Zenon
<1>3. k.cur \in Nat
  BY <1>1, Zenon DEF Calls
<1>4. Building' => SpawnAt'
  <2>1. Building' => Building /\ SpawnAt
    BY <1>2, Zenon DEF Building, IInv, Control
  <2> QED BY <1>2, <1>3, <2>1, Shape DEF SpawnAt, Live
<1>5. k.op = "ring" => RingAt'
  BY <1>2, Zenon DEF IInv, Control, RingAt
<1>6. Control'
  BY <1>2, <1>4, <1>5, WalkAt DEF IInv, Control, Building, Live, At
<1>7. Fresh' \in {Fresh, None} /\ Queues' = Queues /\ (k' = NextPage => Fresh' = None)
  BY <1>2, Zenon DEF Fresh, Queues
<1>8. Roots' = Roots
  BY <1>2, SameRoots, Zenon
<1> QED BY <1>2, <1>6, <1>7, <1>8, Zenon


\* A free page is nothing else.
LEMMA FreeApart ==
  ASSUME OnePlace, NEW p \in free
  PROVE  /\ p \notin other /\ p \notin Held /\ p \notin Queues /\ p \notin Rings
         /\ p \notin TablePages /\ p \notin Roots
<1>1. Roots \subseteq TablePages
  BY DEF TablePages
<1>2. Apart(free, other, Held, Queues, Rings, TablePages)
  BY Zenon DEF OnePlace
<1> QED BY <1>1, <1>2, Zenon DEF Apart

\* What is no table is at no entry.
LEMMA NoEntry ==
  ASSUME NEW p, p # None, p \notin TablePages
  PROVE  \A r \in Roots, t \in Tables : tbl[r][t] # p
BY DEF TablePages

\* It may leave the free list for the tables.
LEMMA ApartMoved ==
  ASSUME NEW F, NEW O, NEW H, NEW Q, NEW R, NEW T, NEW U, NEW p \in F,
         Apart(F, O, H, Q, R, T), U \subseteq T \cup {p}, p \notin H \cup O \cup Q \cup R
  PROVE  Apart(F \ {p}, O, H, Q, R, U)
BY DEF Apart

\* A page from the free list becomes a table of the address space.
LEMMA TableAdded ==
  ASSUME IInv, NEW p \in free, NEW x \in Pages, NEW y, free' = free \ {p},
         tbl' = [tbl EXCEPT ![x][y] = p], Typed', Control', Roots' = Roots,
         UNCHANGED <<other, state, pml4, ring, pte, lent, stale, buf, hdr, ks>>,
         Fresh' \in {Fresh, None}, Queues' = Queues,
         k'.root = k.root, k'.sq = k.sq, k'.cq = k.cq
  PROVE  IInv'
<1>1. \A r \in Pages, t \in Tables : tbl'[r][t] = IF r = x /\ t = y THEN p ELSE tbl[r][t]
  BY DEF IInv, Typed
<1>2. Roots \subseteq Pages /\ TablePages \subseteq Pages
  BY TablesArePages, Zenon
<1>3. OnePlace
  BY Zenon DEF IInv
<1>4. /\ p \notin other /\ p \notin Held /\ p \notin Queues /\ p \notin Rings
      /\ p \notin TablePages /\ p \notin Roots
  BY <1>3, FreeApart, Zenon
<1>5. \A r \in Roots, t \in Tables : tbl[r][t] # p
  <2>1. free \subseteq Pages
    BY Zenon DEF IInv, Typed
  <2>2. p # None
    BY <2>1, Shape, Zenon
  <2> QED BY <1>4, <2>2, NoEntry, Zenon
<1>6. TablePages' \subseteq TablePages \cup {p}
  <2>1. ASSUME NEW r \in Roots, NEW t \in Tables, tbl'[r][t] # None
        PROVE  tbl'[r][t] \in TablePages \cup {p}
    BY <1>1, <1>2, <2>1 DEF TablePages
  <2> QED BY <2>1 DEF TablePages
<1>7. TablesOnce'
  <2>1. ASSUME NEW r \in Roots, NEW q \in Roots, NEW t \in Tables PROVE tbl'[r][t] # q
    BY <1>1, <1>2, <1>4 DEF IInv, TablesOnce
  <2>2. ASSUME NEW r \in Roots, NEW q \in Roots, NEW t \in Tables, NEW u \in Tables,
               tbl'[r][t] = tbl'[q][u], tbl'[r][t] # None
        PROVE  r = q /\ t = u
    BY <1>1, <1>2, <1>5, <2>2 DEF IInv, TablesOnce
  <2> QED BY <2>1, <2>2 DEF TablesOnce
<1>8. Held' \subseteq Held
  BY Zenon DEF Held
<1>9. \A s \in Slots : RingPages(s)' = RingPages(s)
  BY Zenon DEF RingPages
<1>10. Rings' = Rings
  BY <1>9, Zenon DEF Rings
<1>11. OnePlace'
  <2>1. Apart(free, other, Held, Queues, Rings, TablePages)
    BY <1>3, Zenon DEF OnePlace
  <2>2. Apart(free', other', Held', Queues', Rings', TablePages')
    BY <1>4, <1>6, <1>8, <1>10, <2>1 DEF Apart
  <2>3. Apart(free, other, Held, Queues, Rings, TablePages)'
    BY <2>2, Zenon DEF Apart
  <2>4. /\ buf' \in Held' => buf' \notin {hdr', ks', Fresh'}
        /\ hdr' \in Held' => hdr' \notin {ks', Fresh'}
        /\ ks' \in Held' => ks' # Fresh'
    BY <1>3, <1>8, Zenon DEF OnePlace, Held
  <2>5. \A s, t \in Slots : s # t => RingPages(s)' \cap RingPages(t)' = {}
    BY <1>3, <1>9, Zenon DEF OnePlace
  <2> QED BY <2>3, <2>4, <2>5, Zenon DEF OnePlace
<1>12. Mapped'
  <2>1. Mapped
    BY Zenon DEF IInv
  <2>2. MappedOnce'
    BY <2>1 DEF Mapped, MappedOnce
  <2>3. ASSUME NEW r \in Roots, NEW v \in VAs PROVE LeafAt(r, v)'
    <3>1. LeafAt(r, v)
      BY <2>1, Zenon DEF Mapped
    <3>2. pte[r][v] \in free' \cup other' \cup Held' \cup TablePages' => pte[r][v] \in stale
      BY <1>6, <1>8, <3>1, Zenon DEF LeafAt
    <3> QED BY <1>9, <3>1, <3>2, Zenon DEF LeafAt
  <2> QED BY <2>2, <2>3, Zenon DEF Mapped
<1>13. SlotsOwn'
  BY Zenon DEF IInv, SlotsOwn, Live
<1> QED BY <1>7, <1>11, <1>12, <1>13, Zenon DEF IInv

\* walk_or_create.
LEMMA WalkKeeps ==
  ASSUME IInv, walk_or_create
  PROVE  IInv'
<1> DEFINE t == TableOf(k.cur, k.lvl)
<1>1. /\ k.pc = "walk" /\ UNCHANGED <<other, procs, pte, temps, ghosts>>
      /\ UNCHANGED <<state, pml4, ring, brk, mmap_base, vma, buf, hdr, ks, lent, stale>>
      /\ free \subseteq Pages
  BY Zenon DEF walk_or_create, procs, temps, ghosts, IInv, Typed
<1>2. \/ /\ k' = [k EXCEPT !.lvl = @ + 1] \/ k' = NextPage
         /\ UNCHANGED <<free, tbl>>
      \/ /\ \E p \in Pages : alloc(p) /\ tbl' = [tbl EXCEPT ![k.root][t] = p]
         /\ k' = [k EXCEPT !.lvl = @ + 1]
  BY Zenon DEF walk_or_create, OutOfMemory
<1> HIDE DEF t
<1>3. /\ k' \in Calls /\ Control' /\ k'.op = k.op /\ k'.root = k.root
      /\ k'.sq = k.sq /\ k'.cq = k.cq
      /\ Fresh' \in {Fresh, None} /\ Queues' = Queues /\ Roots' = Roots
  BY <1>1, <1>2, WalkMoves, Zenon
<1>4. CASE UNCHANGED <<free, tbl>>
  <2>1. Typed'
    BY <1>1, <1>3, <1>4, Zenon DEF IInv, Typed
  <2> QED BY <1>1, <1>3, <1>4, <2>1, CallMoves, Zenon
<1>5. ASSUME NEW p \in Pages, alloc(p), tbl' = [tbl EXCEPT ![k.root][t] = p]
      PROVE  IInv'
  <2>1. p \in free /\ free' = free \ {p} /\ k.root \in Pages
    BY <1>1, <1>5, Allocated, WalkAt, Zenon
  <2>2. tbl' \in [Pages -> [Tables -> MaybePage]]
    BY <1>5, <2>1, Zenon DEF IInv, Typed, MaybePage
  <2>3. Typed'
    BY <1>1, <1>3, <2>1, <2>2, Zenon DEF IInv, Typed
  <2> QED BY <1>1, <1>3, <1>5, <2>1, <2>3, TableAdded, Zenon
<1> QED BY <1>2, <1>4, <1>5, Zenon


\* A page is mapped at (x, y): its other mappings are lent, and it was in the
\* hands of the call, or is a queue page at its address, or a lent one.
LEMMA LeafAdded ==
  ASSUME IInv, NEW x \in Pages, NEW y, NEW p, pte' = [pte EXCEPT ![x][y] = p],
         Typed', Control', Roots' = Roots,
         UNCHANGED <<free, other, state, pml4, ring, tbl, stale, buf, hdr, ks>>,
         Fresh' = None, Queues' = Queues, lent \subseteq lent',
         k'.root = k.root, k'.sq = k.sq, k'.cq = k.cq,
         \A r \in Roots, v \in VAs :
           pte[r][v] = p /\ (r # x \/ v # y) => p \in lent' \cup {None, 0},
         p \in free \cup other \cup ({buf, hdr, ks} \ {None, 0}) \cup TablePages => p \in stale,
         p # None /\ p = k.sq => p \in lent' \/ (x = k.root /\ y = RING_SQ_USER_VA),
         p # None /\ p = k.cq => p \in lent' \/ (x = k.root /\ y = RING_CQ_USER_VA),
         \A s \in Slots : p \in RingPages(s) => p \in lent' \/ x = pml4[s]
  PROVE  IInv'
<1>1. \A r \in Pages, v \in VAs : pte'[r][v] = IF r = x /\ v = y THEN p ELSE pte[r][v]
  BY DEF IInv, Typed
<1>2. Roots \subseteq Pages
  BY TablesArePages, Zenon
<1>3. OnePlace /\ Mapped
  BY Zenon DEF IInv
<1>4. Held' \subseteq Held /\ Held' = {buf, hdr, ks} \ {None, 0}
  BY Zenon DEF Held
<1>5. \A s \in Slots : RingPages(s)' = RingPages(s)
  BY Zenon DEF RingPages
<1>6. Rings' = Rings /\ TablePages' = TablePages
  BY <1>5 DEF Rings, TablePages
<1>7. OnePlace'
  <2>1. Apart(free, other, Held, Queues, Rings, TablePages)
    BY <1>3, Zenon DEF OnePlace
  <2>2. Apart(free, other, Held, Queues, Rings, TablePages)'
    BY <1>4, <1>6, <2>1, Zenon DEF Apart
  <2>3. /\ buf' \in Held' => buf' \notin {hdr', ks', Fresh'}
        /\ hdr' \in Held' => hdr' \notin {ks', Fresh'}
        /\ ks' \in Held' => ks' # Fresh'
    BY <1>3, <1>4, Zenon DEF OnePlace, Held
  <2>4. \A s, t \in Slots : s # t => RingPages(s)' \cap RingPages(t)' = {}
    BY <1>3, <1>5, Zenon DEF OnePlace
  <2> QED BY <2>2, <2>3, <2>4, Zenon DEF OnePlace
<1>8. MappedOnce'
  <2>1. ASSUME NEW r \in Roots, NEW q \in Roots, NEW v \in VAs, NEW w \in VAs,
               r # q \/ v # w, pte'[r][v] = pte'[q][w]
        PROVE  pte'[r][v] \in lent' \cup {None, 0}
    <3>1. CASE (r = x /\ v = y) \/ (q = x /\ w = y)
      BY <1>1, <1>2, <2>1, <3>1
    <3>2. CASE ~ ((r = x /\ v = y) \/ (q = x /\ w = y))
      <4>1. pte'[r][v] = pte[r][v] /\ pte'[q][w] = pte[q][w]
        BY <1>1, <1>2, <3>2
      <4>2. <<r, v>> # <<q, w>>
        BY <2>1, Zenon
      <4>3. pte[r][v] \in lent \cup {None, 0}
        BY <1>3, <2>1, <4>1, <4>2 DEF Mapped, MappedOnce
      <4> QED BY <4>1, <4>3, Zenon
    <3> QED BY <3>1, <3>2, Zenon
  <2>2. ASSUME NEW r \in Roots, NEW q \in Roots, NEW v \in VAs, NEW w \in VAs,
               <<r, v>> # <<q, w>>
        PROVE  r # q \/ v # w
    BY <2>2, Zenon
  <2> QED BY <2>1, <2>2 DEF MappedOnce
<1>9. ASSUME NEW r \in Roots, NEW v \in VAs PROVE LeafAt(r, v)'
  <2> DEFINE z == pte'[r][v]
  <2>1. z = IF r = x /\ v = y THEN p ELSE pte[r][v]
    BY <1>1, <1>2
  <2>2. LeafAt(r, v)
    BY <1>3, Zenon DEF Mapped
  <2> HIDE DEF z
  <2>3. z \in free \cup other \cup Held' \cup TablePages => z \in stale
    BY <1>4, <2>1, <2>2, Zenon DEF LeafAt
  <2>4. z # None /\ z = k.sq => z \in lent' \/ (r = k.root /\ v = RING_SQ_USER_VA)
    BY <2>1, <2>2, Zenon DEF LeafAt
  <2>5. z # None /\ z = k.cq => z \in lent' \/ (r = k.root /\ v = RING_CQ_USER_VA)
    BY <2>1, <2>2, Zenon DEF LeafAt
  <2>6. \A s \in Slots : z \in RingPages(s) => z \in lent' \/ r = pml4[s]
    BY <2>1, <2>2, Zenon DEF LeafAt
  <2> QED BY <1>5, <1>6, <2>3, <2>4, <2>5, <2>6, Zenon DEF LeafAt, z
<1>10. Mapped' /\ TablesOnce' /\ SlotsOwn'
  BY <1>8, <1>9 DEF IInv, Mapped, TablesOnce, SlotsOwn, Live
<1> QED BY <1>7, <1>10, Zenon DEF IInv

\* The queue pages of a slot: none, or two.
LEMMA RingTwo ==
  ASSUME Typed, NEW s \in Slots
  PROVE  /\ RingPages(s) = IF ring[s] = <<>> THEN {} ELSE {ring[s][1], ring[s][2]}
         /\ RingPages(s) \subseteq Pages
<1>1. CASE ring[s] = <<>>
  BY <1>1 DEF RingPages
<1>2. CASE ring[s] # <<>>
  <2>1. ring[s] \in Pages \X Pages
    BY <1>2, Zenon DEF Typed
  <2>2. PICK a \in Pages, b \in Pages : ring[s] = <<a, b>>
    BY <2>1
  <2>3. Len(ring[s]) = 2 /\ ring[s][1] = a /\ ring[s][2] = b /\ 1 .. 2 = {1, 2}
    BY <2>2
  <2> QED BY <1>2, <2>3, Zenon DEF RingPages
<1> QED BY <1>1, <1>2, Zenon

\* map_kpti_page.
LEMMA LeafKeeps ==
  ASSUME IInv, map_kpti_page
  PROVE  IInv'
<1> DEFINE p == k.page
<1>1. /\ k.pc = "walk" /\ UNCHANGED <<free, other, procs, tbl, temps, stale>>
      /\ UNCHANGED <<state, pml4, ring, brk, mmap_base, vma, buf, hdr, ks>>
      /\ pte' = [pte EXCEPT ![k.root][k.cur] = p] /\ k' = NextPage
      /\ lent' = IF k.op = "grant" THEN lent \cup {p} ELSE lent
      /\ p \in MaybePage \cup {0}
  BY Zenon DEF map_kpti_page, procs, temps, IInv, Typed, Calls
<1>2. /\ k' \in Calls /\ Control' /\ k'.op = k.op /\ k'.root = k.root
      /\ k'.sq = k.sq /\ k'.cq = k.cq /\ Fresh' = None
      /\ Queues' = Queues /\ Roots' = Roots
  BY <1>1, WalkMoves, Zenon
<1>3. /\ k.op \in {"inode", "memory", "brk", "mmap", "ring", "grant"}
      /\ k.root \in Pages /\ (k.op # "grant" => k.root \in Roots)
  BY <1>1, WalkAt, Zenon
<1>4. Typed'
  <2>1. pte' \in [Pages -> [VAs -> MaybePage \cup {0}]]
    BY <1>1, <1>3, Zenon DEF IInv, Typed
  <2> QED BY <1>1, <1>2, <2>1, Zenon DEF IInv, Typed
<1>5. /\ OnePlace /\ Mapped /\ stale \subseteq lent
      /\ Apart(free, other, Held, Queues, Rings, TablePages)
  BY Zenon DEF IInv, OnePlace, Typed
<1>6. \A s \in Slots : RingPages(s) \subseteq Rings
  BY Zenon DEF Rings
<1>7. lent \subseteq lent'
  BY <1>1, Zenon
<1>8. CASE k.op \notin {"grant", "ring"}
  <2>1. Fresh = p /\ k.sq = None /\ k.cq = None
    BY <1>8, Zenon DEF Fresh, IInv, Control
  <2>2. p \in Held \/ p \in {None, 0}
    BY <2>1, Zenon DEF Held
  <2>3. \A r \in Roots, v \in VAs : pte[r][v] = p => p \in lent' \cup {None, 0}
    BY <1>5, <1>7, <2>2, Zenon DEF Mapped, LeafAt
  <2>4. p \notin free \cup other \cup ({buf, hdr, ks} \ {None, 0}) \cup TablePages
    <3>1. CASE p \in Held
      BY <1>5, <2>1, <3>1, Zenon DEF OnePlace, Apart, Held
    <3>2. CASE p \in {None, 0}
      BY <3>2, TablesArePages, Shape, Zenon DEF IInv, Typed
    <3> QED BY <2>2, <3>1, <3>2, Zenon
  <2>5. \A s \in Slots : p \notin RingPages(s)
    <3>1. 0 \notin Rings /\ None \notin Rings
      <4>1. ASSUME NEW s \in Slots PROVE RingPages(s) \subseteq Pages
        BY RingTwo, Zenon DEF IInv
      <4> QED BY <4>1, Shape DEF Rings
    <3> QED BY <1>5, <1>6, <2>2, <3>1 DEF Apart
  <2>6. /\ p # None /\ p = k.sq => p \in lent' \/ (k.root = k.root /\ k.cur = RING_SQ_USER_VA)
        /\ p # None /\ p = k.cq => p \in lent' \/ (k.root = k.root /\ k.cur = RING_CQ_USER_VA)
        /\ \A s \in Slots : p \in RingPages(s) => p \in lent' \/ k.root = pml4[s]
    BY <2>1, <2>5, Zenon
  <2>7. \A r \in Roots, v \in VAs :
          pte[r][v] = p /\ (r # k.root \/ v # k.cur) => p \in lent' \cup {None, 0}
    BY <2>3, Zenon
  <2>8. p \in free \cup other \cup ({buf, hdr, ks} \ {None, 0}) \cup TablePages => p \in stale
    BY <2>4, Zenon
  <2> HIDE DEF p
  <2> QED BY <1>1, <1>2, <1>3, <1>4, <1>7, <2>6, <2>7, <2>8, LeafAdded, Zenon
<1>9. CASE k.op = "ring"
  <2>1. /\ p \in Queues /\ p # None /\ k.root = pml4[k.s] /\ k.sq # k.cq
        /\ \/ p = k.sq /\ k.cur = RING_SQ_USER_VA
           \/ p = k.cq /\ k.cur = RING_CQ_USER_VA
    BY <1>1, <1>9, Zenon DEF Queues, IInv, Control, RingAt
  <2>2. \A r \in Roots, v \in VAs :
          pte[r][v] = p /\ (r # k.root \/ v # k.cur) => p \in lent' \cup {None, 0}
    BY <1>5, <1>7, <2>1, Zenon DEF Mapped, LeafAt
  <2>3. {buf, hdr, ks} \ {None, 0} \subseteq Held
    BY Zenon DEF Held
  <2>4. p \notin free \cup other \cup ({buf, hdr, ks} \ {None, 0}) \cup TablePages
    BY <1>5, <2>1, <2>3, Zenon DEF Apart
  <2>5. \A s \in Slots : p \notin RingPages(s)
    BY <1>5, <1>6, <2>1, Zenon DEF Apart
  <2> HIDE DEF p
  <2> QED BY <1>1, <1>2, <1>3, <1>4, <1>7, <2>1, <2>2, <2>4, <2>5, LeafAdded, Zenon
<1>10. CASE k.op = "grant"
  <2>1. p \in lent' /\ k.sq = None /\ k.cq = None
    BY <1>1, <1>10, Zenon DEF IInv, Control
  <2>2. PICK v \in VAs : p = pte[pml4[k.s]][v]
    BY <1>1, <1>10, Zenon DEF IInv, Control, At
  <2>3. pml4[k.s] \in Roots
    BY <1>10, Zenon DEF IInv, Control, Roots
  <2>4. {buf, hdr, ks} \ {None, 0} \subseteq Held
    BY Zenon DEF Held
  <2>5. p \in free \cup other \cup ({buf, hdr, ks} \ {None, 0}) \cup TablePages => p \in stale
    BY <1>5, <2>2, <2>3, <2>4, Zenon DEF Mapped, LeafAt
  <2> HIDE DEF p
  <2> QED BY <1>1, <1>2, <1>3, <1>4, <1>7, <2>1, <2>5, LeafAdded, Zenon
<1> QED BY <1>8, <1>9, <1>10, Zenon


-----------------------------------------------------------------------------
(* A process is given its address space and its rings, and loses them.       *)

\* A new PML4, without tables or leaves.
LEMMA Pml4Keeps ==
  ASSUME IInv, create_user_pml4
  PROVE  IInv'
<1>1. /\ UNCHANGED <<other, procs, ghosts>> /\ k.pc = "pml4" /\ Building
      /\ UNCHANGED <<state, pml4, ring, brk, mmap_base, vma, lent, stale>>
      /\ k.op \in {"inode", "memory"} /\ free \subseteq Pages /\ other \subseteq Pages
      /\ k \in Calls
  <2>1. k \in Calls /\ k.pc = "pml4" /\ free \subseteq Pages /\ other \subseteq Pages
    BY Zenon DEF create_user_pml4, IInv, Typed
  <2>2. k.op \in {"inode", "memory"}
    BY <2>1, NoCallTyped, Zenon DEF IInv, Control, Calls
  <2> QED BY <2>1, <2>2, Zenon DEF create_user_pml4, procs, ghosts, Building, SpawnOps
<1>2. CASE free = {} /\ GiveUp /\ UNCHANGED spaces
  <2>1. free' \subseteq free \cup Held
    BY <1>2, Pushed DEF GiveUp, Held
  <2> QED BY <1>1, <1>2, <2>1, GiveUpKeeps, Zenon DEF GiveUp, Return
<1>3. ASSUME NEW p \in Pages, alloc(p), tbl' = [tbl EXCEPT ![p] = [t \in Tables |-> None]],
             pte' = [pte EXCEPT ![p] = [v \in VAs |-> None]],
             k' = [k EXCEPT !.pc = "loop", !.root = p], UNCHANGED temps
      PROVE  IInv'
  <2>1. p \in free /\ free' = free \ {p} /\ UNCHANGED <<buf, hdr, ks>>
    BY <1>1, <1>3, Allocated, Zenon DEF temps
  <2>2. /\ k' \in Calls /\ k'.op = k.op /\ k'.pc = "loop" /\ k'.root = p /\ k'.s = k.s
        /\ k'.cur = k.cur /\ k'.page = k.page /\ k'.sq = k.sq /\ k'.cq = k.cq
    BY <1>1, <1>3, Zenon DEF Calls, MaybePage
  <2>3. /\ k.cur = 0 /\ k.root = None /\ k.page = None /\ k.sq = None /\ k.cq = None
        /\ k.s \in Slots /\ state[k.s] = "claimed"
    BY <1>1, Zenon DEF IInv, Control, SpawnAt
  <2>4. Typed'
    <3>1. tbl' \in [Pages -> [Tables -> MaybePage]] /\ pte' \in [Pages -> [VAs -> MaybePage \cup {0}]]
      BY <1>3, Zenon DEF IInv, Typed, MaybePage
    <3> QED BY <1>1, <2>1, <2>2, <3>1, Zenon DEF IInv, Typed
  <2>5. OnePlace /\ TablesOnce /\ Mapped
    BY Zenon DEF IInv
  <2>6. Roots \subseteq Pages /\ TablePages \subseteq Pages /\ Roots' = Roots \cup {p}
    <3>1. Roots' = Roots \cup {p}
      BY <1>1, <2>2, <2>3, Shape DEF Roots, Live, SpawnOps
    <3> QED BY <3>1, TablesArePages, Zenon
  <2>7. /\ p \notin other /\ p \notin Held /\ p \notin Queues /\ p \notin Rings
        /\ p \notin TablePages /\ p \notin Roots
    BY <2>1, <2>5, FreeApart, Zenon
  <2>8. /\ \A r \in Roots : tbl'[r] = tbl[r] /\ pte'[r] = pte[r]
        /\ \A t \in Tables : tbl'[p][t] = None
        /\ \A v \in VAs : pte'[p][v] = None
    BY <1>3, <2>6, <2>7, Zenon DEF IInv, Typed
  <2>9. SpawnAt'
    <3>1. \A s \in Slots : Live(s)' => pml4'[s] # p
      BY <1>1, <2>7, Zenon DEF Live, Roots
    <3> QED BY <1>1, <2>2, <2>3, <3>1, Shape DEF SpawnAt
  <2>10. Control'
    BY <1>1, <2>2, <2>3, <2>9, Zenon DEF Control, Building, SpawnOps, At
  <2>11. \A r \in Roots, t \in Tables : tbl[r][t] # p
    <3>1. p # None
      BY <1>3, Shape, Zenon
    <3> QED BY <2>7, <3>1, NoEntry, Zenon
  <2>12. TablesOnce'
    <3>1. ASSUME NEW r \in Roots', NEW q \in Roots', NEW t \in Tables PROVE tbl'[r][t] # q
      BY <2>5, <2>6, <2>8, <2>11, Shape DEF TablesOnce
    <3>2. ASSUME NEW r \in Roots', NEW q \in Roots', NEW t \in Tables, NEW u \in Tables,
                 tbl'[r][t] = tbl'[q][u], tbl'[r][t] # None
          PROVE  r = q /\ t = u
      BY <2>5, <2>6, <2>8, <3>2 DEF TablesOnce
    <3> QED BY <3>1, <3>2 DEF TablesOnce
  <2>13. TablePages' \subseteq TablePages \cup {p}
    <3>1. ASSUME NEW r \in Roots', NEW t \in Tables, tbl'[r][t] # None
          PROVE  tbl'[r][t] \in TablePages
      BY <2>6, <2>8, <3>1 DEF TablePages
    <3> QED BY <2>6, <3>1 DEF TablePages
  <2>14. /\ Fresh = None /\ Fresh' = None /\ Held' = Held /\ Queues' = {} /\ Queues = {}
         /\ \A s \in Slots : RingPages(s)' = RingPages(s)
    BY <1>1, <2>1, <2>2, <2>3 DEF Fresh, Held, Queues, RingPages
  <2>15. Rings' = Rings
    BY <2>14, Zenon DEF Rings
  <2>16. OnePlace'
    <3>1. Apart(free, other, Held, Queues, Rings, TablePages)
      BY <2>5, Zenon DEF OnePlace
    <3>2. Apart(free, other, Held, Queues, Rings, TablePages)'
      <4>1. Apart(free \ {p}, other, Held, Queues, Rings, TablePages')
        BY <2>1, <2>7, <2>13, <3>1, ApartMoved, Zenon
      <4>2. UNCHANGED <<other, Held, Queues, Rings>>
        BY <1>1, <2>14, <2>15, Zenon
      <4> QED BY <2>1, <4>1, <4>2, Zenon DEF Apart
    <3> QED BY <2>1, <2>5, <2>14, <3>2, Zenon DEF OnePlace
  <2>17. MappedOnce'
    <3>1. ASSUME NEW r \in Roots', NEW q \in Roots', NEW v \in VAs, NEW w \in VAs,
                 <<r, v>> # <<q, w>>, pte'[r][v] = pte'[q][w]
          PROVE  pte'[r][v] \in lent' \cup {None, 0}
      BY <1>1, <2>5, <2>6, <2>8, <3>1 DEF Mapped, MappedOnce
    <3> QED BY <3>1 DEF MappedOnce
  <2>18. ASSUME NEW r \in Roots', NEW v \in VAs PROVE LeafAt(r, v)'
    <3>1. CASE r = p
      <4>1. pte'[r][v] = None
        BY <2>8, <3>1, Zenon
      <4>2. None \notin free' \cup other' \cup Held' \cup TablePages'
        BY <1>1, <2>1, <2>6, <2>13, Shape, Zenon DEF Held
      <4>3. \A s \in Slots : None \notin RingPages(s)'
        BY <2>14, RingTwo, Shape, Zenon DEF IInv
      <4> QED BY <4>1, <4>2, <4>3, Zenon DEF LeafAt
    <3>2. CASE r # p
      <4>1. r \in Roots /\ pte'[r][v] = pte[r][v] /\ LeafAt(r, v)
        BY <2>5, <2>6, <2>8, <3>2, Zenon DEF Mapped
      <4>2. pte[r][v] \in free' \cup other' \cup Held' \cup TablePages' => pte[r][v] \in stale
        BY <1>1, <2>1, <2>13, <2>14, <4>1, Zenon DEF LeafAt
      <4> QED BY <1>1, <2>2, <2>3, <2>14, <4>1, <4>2, Zenon DEF LeafAt
    <3> QED BY <3>1, <3>2, Zenon
  <2>19. SlotsOwn'
    BY <1>1, Zenon DEF IInv, SlotsOwn, Live
  <2> QED BY <2>4, <2>10, <2>12, <2>16, <2>17, <2>18, <2>19, Zenon DEF IInv, Mapped
<1> QED BY <1>2, <1>3, Zenon DEF create_user_pml4


\* init_slot: the address space that was built is now the process's.
LEMMA SlotKeeps ==
  ASSUME IInv, init_slot
  PROVE  IInv'
<1>1. /\ k.op \in SpawnOps /\ k.pc = "loop" /\ k.cur = USER_STACK_TOP
      /\ UNCHANGED <<other, ring, tbl, pte, hdr, lent, stale>>
      /\ free' = Push(free, buf) /\ ks' = None /\ buf' = None /\ k' = NoCall
      /\ state' = [state EXCEPT ![k.s] = "ready"] /\ pml4' = [pml4 EXCEPT ![k.s] = k.root]
  BY Zenon DEF init_slot, spaces, ghosts, Return
<1>2. /\ k.s \in Slots /\ state[k.s] = "claimed" /\ k.root \in Pages /\ hdr = None
      /\ k.page = None /\ k.sq = None /\ k.cq = None
      /\ \A s \in Slots : Live(s) => pml4[s] # k.root
  <2>1. Building /\ SpawnAt /\ k.page = None /\ k.sq = None /\ k.cq = None
    BY <1>1, Zenon DEF Building, IInv, Control, SpawnOps
  <2>2. k.root \in MaybePage
    BY Zenon DEF IInv, Typed, Calls
  <2> QED BY <1>1, <2>1, <2>2, Shape DEF SpawnAt, MaybePage
<1>3. /\ free' \subseteq free \cup ({buf} \ {None, 0}) /\ free \subseteq Pages /\ buf \in MaybePage
  BY <1>1, Pushed, Zenon DEF IInv, Typed
<1>4. Typed'
  <2>1. /\ state' \in [Slots -> {"free", "claimed", "ready", "zombie"}]
        /\ pml4' \in [Slots -> MaybePage]
    BY <1>1, <1>2, Zenon DEF IInv, Typed, MaybePage
  <2>2. mmap_base' \in [Slots -> Nat] /\ brk' \in [Slots -> Nat]
    <3>1. ElfPages * PAGE_SIZE \in Nat
      BY Shape
    <3> QED BY <3>1, Shape, Zenon DEF init_slot, IInv, Typed
  <2>3. vma' \in [Slots -> Vmas]
    <3>1. <<>> \in Vmas
      BY DEF Vmas
    <3> QED BY <3>1, Zenon DEF init_slot, IInv, Typed
  <2> QED BY <1>1, <1>2, <1>3, <2>1, <2>2, <2>3, NoCallTyped, Zenon DEF IInv, Typed, MaybePage
<1>5. Control'
  BY <1>1, <1>2, NoCallTyped, Zenon DEF Control, Building, SpawnOps, At
<1>6. /\ \A s \in Slots : Live(s)' <=> Live(s) \/ s = k.s
      /\ \A s \in Slots : pml4'[s] = IF s = k.s THEN k.root ELSE pml4[s]
      /\ ~ Live(k.s)
  BY <1>1, <1>2, Zenon DEF IInv, Typed, Live
<1>7. SlotsOwn'
  <2>1. SlotsOwn
    BY Zenon DEF IInv
  <2>2. ring' = ring /\ k.root # None
    BY <1>1, <1>2, Shape, Zenon
  <2>3. \A s \in Slots : IF Live(s)' THEN pml4'[s] # None ELSE ring'[s] = <<>>
    BY <1>6, <2>1, <2>2, Zenon DEF SlotsOwn
  <2>4. ASSUME NEW s \in Slots, NEW t \in Slots, Live(s)', Live(t)', pml4'[s] = pml4'[t] PROVE s = t
    <3>1. s = k.s \/ (Live(s) /\ pml4'[s] = pml4[s] /\ pml4[s] # k.root)
      BY <1>2, <1>6, <2>4, Zenon
    <3>2. t = k.s \/ (Live(t) /\ pml4'[t] = pml4[t] /\ pml4[t] # k.root)
      BY <1>2, <1>6, <2>4, Zenon
    <3>3. pml4'[k.s] = k.root
      BY <1>2, <1>6, Zenon
    <3> QED BY <2>1, <2>4, <3>1, <3>2, <3>3, Zenon DEF SlotsOwn
  <2> QED BY <2>3, <2>4, Zenon DEF SlotsOwn
<1>8. Roots' = Roots
  <2>1. k'.op \notin SpawnOps
    BY <1>1, NoCallTyped, Zenon DEF SpawnOps
  <2>2. ASSUME NEW r \in Roots' PROVE r \in Roots
    <3>1. PICK s \in Slots : Live(s)' /\ r = pml4'[s]
      BY <2>1, <2>2, Zenon DEF Roots
    <3>2. k.root # None
      BY <1>2, Shape, Zenon
    <3>3. r = k.root \/ (Live(s) /\ r = pml4[s])
      BY <1>6, <3>1, Zenon
    <3> QED BY <1>1, <3>2, <3>3, Zenon DEF Roots
  <2>3. ASSUME NEW r \in Roots PROVE r \in Roots'
    <3>1. r = k.root \/ \E s \in Slots : Live(s) /\ r = pml4[s]
      BY <1>1, <2>3, Zenon DEF Roots
    <3>2. \E s \in Slots : Live(s)' /\ r = pml4'[s]
      BY <1>2, <1>6, <3>1, Zenon
    <3> QED BY <3>2, Zenon DEF Roots
  <2> QED BY <2>2, <2>3, Zenon
<1>9. SpacesStay
  BY <1>1, <1>8, Zenon DEF SpacesStay
<1>10. TablesOnce' /\ TablePages' \subseteq TablePages
  BY <1>9, TablesStay, Zenon DEF IInv
<1>11. /\ Fresh' = None /\ Held' = {} /\ Queues' = {}
       /\ \A s \in Slots : RingPages(s)' = RingPages(s)
  BY <1>1, <1>2, NoCallTyped, Zenon DEF Fresh, Held, Queues, RingPages
<1>12. Rings' = Rings /\ free' \subseteq free \cup Held
  BY <1>3, <1>11 DEF Rings, Held
<1>13. OnePlace'
  <2>1. OnePlace
    BY Zenon DEF IInv
  <2>2. Apart(free, other, Held, Queues, Rings, TablePages)'
    BY <1>1, <1>10, <1>11, <1>12, <2>1, Zenon DEF OnePlace, Apart
  <2> QED BY <1>11, <2>1, <2>2, Zenon DEF OnePlace
<1>14. Mapped'
  <2>1. Mapped /\ stale \subseteq lent /\ stale \subseteq stale' /\ UNCHANGED lent
    BY <1>1, Zenon DEF IInv, Typed
  <2>2. \A r \in Roots', v \in VAs :
           pte[r][v] \in free' \cup other' \cup Held'
             => pte[r][v] \in free \cup other \cup Held \/ pte[r][v] \in stale'
    <3>1. free' \cup other' \cup Held' \subseteq free \cup other \cup Held
      BY <1>1, <1>11, <1>12, Zenon
    <3> QED BY <3>1, Zenon
  <2>3. \A s \in Slots : \A p \in RingPages(s)' : pml4'[s] = pml4[s] /\ p \in RingPages(s)
    <3>1. RingPages(k.s) = {}
      BY <1>2, <1>6, RingTwo, Zenon DEF IInv, SlotsOwn
    <3> QED BY <1>6, <1>11, <3>1
  <2>4. k'.sq = None /\ k'.cq = None
    BY <1>1, NoCallTyped, Zenon
  <2> QED BY <1>9, <1>10, <2>1, <2>2, <2>3, <2>4, LeavesStay, Zenon
<1> QED BY <1>4, <1>5, <1>7, <1>10, <1>13, <1>14, Zenon DEF IInv


\* init_ring_commit: the queue pages are now the process's.
LEMMA RingCommitKeeps ==
  ASSUME IInv, init_ring_commit
  PROVE  IInv'
<1>1. /\ k.op = "ring" /\ k.pc = "loop" /\ ring' = [ring EXCEPT ![k.s] = <<k.sq, k.cq>>]
      /\ k' = NoCall
      /\ UNCHANGED <<free, other, state, pml4, kstack, brk, mmap_base, vma, spaces, temps, ghosts>>
      /\ UNCHANGED <<tbl, pte, buf, hdr, ks, lent, stale>>
  BY Zenon DEF init_ring_commit, At, Return, spaces, temps, ghosts
<1>2. /\ k.s \in Slots /\ Live(k.s) /\ k.root = pml4[k.s] /\ k.sq \in Pages /\ k.cq \in Pages
      /\ k.sq # None /\ k.cq # None /\ buf = None /\ hdr = None /\ ks = None
  BY <1>1, Shape, Zenon DEF IInv, Typed, Calls, MaybePage, Control, RingAt, Building, SpawnOps
<1>3. Typed'
  <2>1. ring' \in [Slots -> {<<>>} \cup (Pages \X Pages)]
    BY <1>1, <1>2, Zenon DEF IInv, Typed
  <2> QED BY <1>1, <2>1, NoCallTyped, Zenon DEF IInv, Typed
<1>4. Control'
  BY <1>1, <1>2, NoCallTyped, Zenon DEF Control, Building, SpawnOps, At
<1>5. \A s \in Slots : ring'[s] = IF s = k.s THEN <<k.sq, k.cq>> ELSE ring[s]
  BY <1>1, Zenon DEF IInv, Typed
<1>6. \A s \in Slots : RingPages(s)' = IF s = k.s THEN {k.sq, k.cq} ELSE RingPages(s)
  <2>1. ASSUME NEW s \in Slots, s # k.s PROVE RingPages(s)' = RingPages(s)
    BY <1>5, <2>1 DEF RingPages
  <2>2. ASSUME NEW s \in Slots, s = k.s PROVE RingPages(s)' = {k.sq, k.cq}
    <3>1. ring'[s] = <<k.sq, k.cq>>
      BY <1>5, <2>2, Zenon
    <3>2. Len(ring'[s]) = 2 /\ ring'[s][1] = k.sq /\ ring'[s][2] = k.cq /\ 1 .. 2 = {1, 2}
      BY <3>1
    <3> QED BY <3>2, Zenon DEF RingPages
  <2> QED BY <2>1, <2>2, Zenon
<1>7. SlotsOwn'
  BY <1>1, <1>2, <1>5, Zenon DEF IInv, SlotsOwn, Live
<1>8. Roots' = Roots
  BY <1>1, NoCallTyped, SameRoots, Zenon DEF SpawnOps
<1>9. SpacesStay
  BY <1>1, <1>8, Zenon DEF SpacesStay
<1>10. TablesOnce' /\ TablePages' \subseteq TablePages
  BY <1>9, TablesStay, Zenon DEF IInv
<1>11. /\ Fresh' = None /\ Held' = {} /\ Queues' = {} /\ Queues = {k.sq, k.cq}
  BY <1>1, <1>2, NoCallTyped, Zenon DEF Fresh, Held, Queues
<1>12. /\ OnePlace /\ Apart(free, other, Held, Queues, Rings, TablePages)
       /\ \A s \in Slots : RingPages(s) \subseteq Rings
  BY DEF IInv, OnePlace, Rings
<1>13. OnePlace'
  <2>1. Rings' \subseteq Rings \cup Queues
    BY <1>6, <1>11, <1>12, Zenon DEF Rings
  <2>2. Apart(free, other, Held, Queues, Rings, TablePages)'
    BY <1>1, <1>10, <1>11, <1>12, <2>1, Zenon DEF Apart
  <2>3. ASSUME NEW s \in Slots, NEW t \in Slots, s # t
        PROVE  RingPages(s)' \cap RingPages(t)' = {}
    BY <1>6, <1>11, <1>12, <2>3 DEF OnePlace, Apart
  <2> QED BY <1>11, <2>2, <2>3, Zenon DEF OnePlace
<1>14. Mapped'
  <2>1. Mapped /\ stale \subseteq lent /\ stale \subseteq stale' /\ UNCHANGED lent
    BY <1>1, Zenon DEF IInv, Typed
  <2>2. \A r \in Roots', v \in VAs :
           pte[r][v] \in free' \cup other' \cup Held'
             => pte[r][v] \in free \cup other \cup Held \/ pte[r][v] \in stale'
    BY <1>1, <1>11, Zenon
  <2>3. \A s \in Slots : \A p \in RingPages(s)' :
          /\ pml4'[s] = pml4[s]
          /\ p \in RingPages(s) \/ (p \in {k.sq, k.cq} /\ p # None /\ k.root = pml4[s])
    BY <1>1, <1>2, <1>6, Zenon
  <2>4. k'.sq = None /\ k'.cq = None
    BY <1>1, NoCallTyped, Zenon
  <2> QED BY <1>9, <1>10, <2>1, <2>2, <2>3, <2>4, LeavesStay, Zenon
<1> QED BY <1>3, <1>4, <1>7, <1>10, <1>13, <1>14, Zenon DEF IInv

\* process_exit: the ring pages go back to the free list; those that are mapped
\* elsewhere were lent, and are marked.
LEMMA ExitKeeps ==
  ASSUME IInv, NEW s \in Slots, process_exit(s)
  PROVE  IInv'
<1>1. /\ k.op = "none" /\ state[s] = "ready" /\ free' = free \cup RingPages(s)
      /\ stale' = stale \cup (RingPages(s) \cap lent) /\ ring' = [ring EXCEPT ![s] = <<>>]
      /\ state' = [state EXCEPT ![s] = "zombie"]
      /\ UNCHANGED <<other, pml4, kstack, brk, mmap_base, vma, spaces, temps, k, lent>>
      /\ UNCHANGED <<tbl, pte, buf, hdr, ks>>
  BY Zenon DEF process_exit, destroy_ring, Ready, RingPages, spaces, temps
<1>2. /\ k = NoCall /\ buf = None /\ hdr = None /\ ks = None /\ Typed
  BY <1>1, Zenon DEF IInv, Control, Building, SpawnOps
<1>3. Typed'
  <2>1. RingPages(s) \subseteq Pages
    BY <1>2, RingTwo, Zenon
  <2>2. /\ ring' \in [Slots -> {<<>>} \cup (Pages \X Pages)]
        /\ state' \in [Slots -> {"free", "claimed", "ready", "zombie"}]
    BY <1>1, <1>2, Zenon DEF Typed
  <2> QED BY <1>1, <1>2, <2>1, <2>2, Zenon DEF Typed
<1>4. Control'
  BY <1>1, <1>2, NoCallTyped, Zenon DEF Control, Building, SpawnOps, At
<1>5. /\ \A t \in Slots : Live(t)' <=> Live(t) /\ t # s
      /\ \A t \in Slots : ring'[t] = IF t = s THEN <<>> ELSE ring[t]
  BY <1>1, <1>2, Zenon DEF Typed, Live
<1>6. SlotsOwn'
  BY <1>1, <1>5, Zenon DEF IInv, SlotsOwn
<1>7. \A t \in Slots : RingPages(t)' = IF t = s THEN {} ELSE RingPages(t)
  <2>1. ASSUME NEW t \in Slots, t # s PROVE RingPages(t)' = RingPages(t)
    BY <1>5, <2>1, Zenon DEF RingPages
  <2>2. ASSUME NEW t \in Slots, t = s PROVE RingPages(t)' = {}
    <3>1. ring'[t] = <<>>
      BY <1>5, <2>2, Zenon
    <3> QED BY <3>1 DEF RingPages
  <2> QED BY <2>1, <2>2, Zenon
<1>8. /\ Roots' = {pml4[t] : t \in {u \in Slots : Live(u) /\ u # s}}
      /\ Roots = {pml4[t] : t \in {u \in Slots : Live(u)}}
  <2>1. k.op \notin SpawnOps /\ k'.op \notin SpawnOps /\ pml4' = pml4
    BY <1>1, Zenon DEF SpawnOps
  <2>2. {t \in Slots : Live(t)'} = {t \in Slots : Live(t) /\ t # s}
    BY <1>5, Zenon
  <2> QED BY <2>1, <2>2, Zenon DEF Roots
<1>9. Roots' \subseteq Roots /\ pml4[s] \notin Roots'
  BY <1>1, <1>8, Zenon DEF IInv, SlotsOwn, Live
<1>10. SpacesStay
  BY <1>1, <1>9, Zenon DEF SpacesStay
<1>11. TablesOnce' /\ TablePages' \subseteq TablePages
  BY <1>10, TablesStay, Zenon DEF IInv
<1>12. Fresh' = None /\ Held' = {} /\ Queues' = {}
  BY <1>1, <1>2, NoCallTyped, Zenon DEF Fresh, Held, Queues
<1>13. /\ OnePlace /\ Apart(free, other, Held, Queues, Rings, TablePages)
       /\ \A t \in Slots : RingPages(t) \subseteq Rings
  BY DEF IInv, OnePlace, Rings
<1>14. OnePlace'
  <2>1. Rings' \subseteq Rings /\ Rings' \cap RingPages(s) = {}
    BY <1>7, <1>13 DEF Rings, OnePlace
  <2>2. Apart(free, other, Held, Queues, Rings, TablePages)'
    BY <1>1, <1>11, <1>12, <1>13, <2>1, Zenon DEF Apart
  <2>3. ASSUME NEW t \in Slots, NEW u \in Slots, t # u
        PROVE  RingPages(t)' \cap RingPages(u)' = {}
    BY <1>7, <1>13, <2>3, Zenon DEF OnePlace
  <2> QED BY <1>12, <2>2, <2>3, Zenon DEF OnePlace
<1>15. Mapped'
  <2>1. Mapped /\ stale \subseteq lent /\ stale \subseteq stale' /\ UNCHANGED lent
    BY <1>1, Zenon DEF IInv, Typed
  <2>2. ASSUME NEW r \in Roots', NEW v \in VAs, pte[r][v] \in free' \cup other' \cup Held'
        PROVE  pte[r][v] \in free \cup other \cup Held \/ pte[r][v] \in stale'
    <3>1. LeafAt(r, v) /\ r # pml4[s]
      BY <1>9, <2>1, Zenon DEF Mapped
    <3> QED BY <1>1, <1>12, <2>2, <3>1, Zenon DEF LeafAt
  <2>3. \A t \in Slots : \A p \in RingPages(t)' : pml4'[t] = pml4[t] /\ p \in RingPages(t)
    BY <1>1, <1>7, Zenon
  <2>4. k'.sq = None /\ k'.cq = None
    BY <1>1, <1>2, NoCallTyped, Zenon
  <2> QED BY <1>10, <1>11, <2>1, <2>2, <2>3, <2>4, LeavesStay, Zenon
<1> QED BY <1>3, <1>4, <1>6, <1>11, <1>14, <1>15, Zenon DEF IInv


-----------------------------------------------------------------------------
(* The theorems.                                                             *)

\* The machine starts with nothing allocated.
LEMMA InitEstablishes == Init => IInv
<1> SUFFICES ASSUME Init PROVE IInv
  BY Zenon
<1>1. /\ free \subseteq Pages /\ other = {} /\ stale = {} /\ lent = {} /\ k = NoCall
      /\ buf = None /\ hdr = None /\ ks = None
      /\ \A s \in Slots : state[s] = "free" /\ ring[s] = <<>>
  BY DEF Init, Pages
<1>2. Typed
  <2>1. <<>> \in Vmas
    BY DEF Vmas
  <2> QED BY <1>1, <2>1, NoCallTyped, Zenon DEF Init, Typed, MaybePage
<1>3. Control
  BY <1>1, NoCallTyped, Zenon DEF Control, Building, SpawnOps, At
<1>4. Roots = {}
  BY <1>1, NoCallTyped, Zenon DEF Roots, Live, SpawnOps
<1>5. \A s \in Slots : RingPages(s) = {}
  BY <1>1, <1>2, RingTwo, Zenon
<1>6. Fresh = None /\ Held = {} /\ Queues = {} /\ Rings = {} /\ TablePages = {}
  BY <1>1, <1>4, <1>5, NoCallTyped DEF Fresh, Held, Queues, Rings, TablePages
<1>7. OnePlace
  BY <1>1, <1>5, <1>6, Zenon DEF OnePlace, Apart
<1> QED BY <1>1, <1>2, <1>3, <1>4, <1>7, Zenon DEF IInv, SlotsOwn, Live, TablesOnce, Mapped, MappedOnce

\* Every step of the kernel keeps it.
LEMMA NextKeeps == IInv /\ [Next]_vars => IInv'
<1> SUFFICES ASSUME IInv, [Next]_vars PROVE IInv'
  BY Zenon
<1>1. CASE UNCHANGED vars
  <2>1. /\ UNCHANGED <<free, other, state, pml4, brk, mmap_base, vma, ring, tbl, pte>>
        /\ UNCHANGED <<buf, hdr, ks, k, lent, stale>>
    BY <1>1, Zenon DEF vars, procs, spaces, temps, ghosts
  <2>2. Typed' /\ Control'
    BY <2>1, Zenon DEF IInv, Typed, Control, Building, SpawnAt, RingAt, Live, At
  <2>3. Fresh' = Fresh /\ Queues' = Queues
    BY <2>1, Zenon DEF Fresh, Queues
  <2> QED BY <2>1, <2>2, <2>3, CallMoves, Zenon
<1>2. CASE other_alloc \/ other_free
  BY <1>2, OtherKeeps, Zenon
<1>3. CASE Kernel
  <2>1. CASE walk_or_create \/ map_kpti_page
    BY <2>1, WalkKeeps, LeafKeeps, Zenon
  <2>2. CASE sys_spawn_fails \/ read_header \/ spawn_process \/ spawn_rejects
    BY <2>2, RejectKeeps, HeaderKeeps, SpawnKeeps, Zenon
  <2>3. CASE alloc_kernel_stack \/ create_user_pml4 \/ copy_segment_data
    BY <2>3, KernelStackKeeps, Pml4Keeps, LoopKeeps, Zenon
  <2>4. CASE segments_done \/ setup_user_stack \/ init_slot
    BY <2>4, SegmentsKeeps, StackKeeps, SlotKeeps, Zenon
  <2>5. CASE brk_page \/ brk_commit \/ mmap_page \/ mmap_commit
    BY <2>5, LoopKeeps, CommitKeeps, Zenon
  <2>6. CASE init_ring_cq \/ init_ring_map_cq \/ init_ring_commit \/ grant_done
    BY <2>6, RingCqKeeps, RingMapKeeps, RingCommitKeeps, CommitKeeps, Zenon
  <2> QED BY <1>3, <2>1, <2>2, <2>3, <2>4, <2>5, <2>6, Zenon DEF Kernel
<1>4. ASSUME NEW s \in Slots, Process(s) PROVE IInv'
  <2>1. CASE sys_spawn(s) \/ alloc_pid(s) \/ init_ring(s) \/ process_exit(s) \/ sys_wait(s)
    BY <2>1, SpawnKeeps, ClaimKeeps, InitRingKeeps, ExitKeeps, Zenon
  <2>2. ASSUME NEW b \in Breaks, sys_brk(s, b) \/ ring_brk(s, b) PROVE IInv'
    BY <2>2, BrkKeeps DEF USER_STACK_TOP
  <2>3. ASSUME NEW n \in Lengths, sys_mmap(s, n) \/ ring_mmap(s, n) PROVE IInv'
    BY <2>3, MmapKeeps DEF VAs, USER_STACK_TOP
  <2>4. ASSUME NEW t \in Slots, NEW src \in GrantVAs, NEW dst \in GrantVAs,
               sys_shm_grant(s, t, src, dst) \/ ring_shm_grant(s, t, src, dst)
        PROVE  IInv'
    BY <2>4, GrantKeeps, Zenon
  <2> QED BY <1>4, <2>1, <2>2, <2>3, <2>4, Zenon DEF Process
<1> QED BY <1>1, <1>2, <1>3, <1>4, Zenon DEF Next

\* The invariant holds of every behaviour of the kernel's calls.
THEOREM Invariance == Spec => []IInv
<1>1. Init => IInv
  BY InitEstablishes, Zenon
<1>2. IInv /\ [Next]_vars => IInv'
  BY NextKeeps, Zenon
<1> QED BY <1>1, <1>2, PTL DEF Spec

\* Between calls, the pages that spawn takes for the path, the header and the
\* kernel stack have been returned or handed to a process, on every path of
\* sys_spawn, spawn_process and spawn_process_from_inode.
THEOREM BuffersReturned == Spec => []NothingHeld
<1>1. IInv => NothingHeld
  BY Zenon DEF IInv, Control, Building, SpawnOps, NothingHeld
<1> QED BY <1>1, Invariance, PTL

\* No page of a running process is mapped a second time unless a grant lent it,
\* and none is free, in other use or in the hands of a call: map_user_page
\* is only given pages that no address space has.
THEOREM Isolation == Spec => []Isolated
<1>1. IInv => Isolated
  <2> SUFFICES ASSUME IInv PROVE Isolated
    BY Zenon
  <2>1. Mapped
    BY Zenon DEF IInv
  <2>2. \A r, q \in Roots, v, w \in VAs :
          (<<r, v>> # <<q, w>> /\ pte[r][v] = pte[q][w]) => pte[r][v] \in lent \cup {None, 0}
    BY <2>1, Zenon DEF Mapped, MappedOnce
  <2>3. Unused \ {k.sq, k.cq} \subseteq free \cup other \cup Held
    <3>1. k.op # "grant" /\ k.op # "ring" => k.page = Fresh
      BY Zenon DEF Fresh
    <3>2. k.op = "ring" => k.page \in {None, k.sq, k.cq}
      BY Zenon DEF IInv, Control, RingAt
    <3> QED BY <3>1, <3>2, Zenon DEF Unused, Loose, Held
  <2>4. \A r \in Roots : Leaves(r) \cap (Unused \ {k.sq, k.cq}) \subseteq stale
    <3>1. ASSUME NEW r \in Roots, NEW p \in Leaves(r), p \in Unused \ {k.sq, k.cq}
          PROVE  p \in stale
      <4>1. PICK v \in VAs : p = pte[r][v]
        BY Zenon DEF Leaves
      <4>2. LeafAt(r, v) /\ p \in free \cup other \cup Held
        BY <2>1, <2>3, <3>1, Zenon DEF Mapped
      <4> QED BY <4>1, <4>2, Zenon DEF LeafAt
    <3> QED BY <3>1, Zenon
  <2> QED BY <2>2, <2>4, Zenon DEF Isolated
<1> QED BY <1>1, Invariance, PTL


INSTANCE FiniteSetTheorems

\* Distinct entries are as many pages as there are entries.
LEMMA ImageCard ==
  ASSUME NEW S, NEW D, NEW g, IsFiniteSet(D), \A x \in S : g[x] \in D,
         \A d \in D : \E x \in S : g[x] = d, \A x, y \in S : g[x] = g[y] => x = y
  PROVE  Cardinality(D) = Cardinality(S)
<1> DEFINE f == [x \in S |-> g[x]]
<1>1. f \in Injection(S, D)
  BY Zenon DEF Injection, IsInjective
<1>2. f \in Surjection(S, D)
  BY Zenon DEF Surjection
<1> HIDE DEF f
<1> QED BY <1>1, <1>2, FS_Injection, Zenon

\* The pages of a live address space's tables are as many as the tables, and
\* nobody else has one: alloc never gives walk_or_create or create_user_pml4 a
\* page that is still in use, whatever failed before.
THEOREM PrivateTables == Spec => []TablesPrivate
<1>1. IInv => TablesPrivate
  <2> SUFFICES ASSUME IInv, NEW r \in Roots
               PROVE  LET T == {t \in Tables : tbl[r][t] # None}
                          pages == {r} \cup {tbl[r][t] : t \in T}
                      IN  /\ Cardinality(pages) = Cardinality(T) + 1 /\ pages \subseteq Pages
                          /\ pages \cap Unused = {}
                          /\ \A q \in Roots :
                               /\ pages \cap Leaves(q) \subseteq stale
                               /\ q # r => pages \cap ({q} \cup {tbl[q][t] : t \in Tables}) \subseteq {None}
    BY Zenon DEF TablesPrivate
  <2> DEFINE T == {t \in Tables : tbl[r][t] # None}
             D == {tbl[r][t] : t \in T}
             pages == {r} \cup D
  <2>1. TablesOnce /\ Mapped /\ Apart(free, other, Held, Queues, Rings, TablePages)
    BY Zenon DEF IInv, OnePlace
  <2>2. pages \subseteq TablePages /\ TablePages \subseteq Pages
    BY TablesArePages DEF TablePages
  <2>3. Cardinality(pages) = Cardinality(T) + 1
    <3>1. IsFiniteSet(Pages)
      BY FS_Interval DEF Pages
    <3>2. \A t, u \in T : tbl[r][t] = tbl[r][u] => t = u
      <4>1. \A t \in T : t \in Tables /\ tbl[r][t] # None
        BY Zenon
      <4> HIDE DEF T
      <4> QED BY <2>1, <4>1, ZenonT(60) DEF TablesOnce
    <3>3. r \notin D
      BY <2>1 DEF TablesOnce
    <3>4. IsFiniteSet(D) /\ Cardinality(D) = Cardinality(T)
      <4> DEFINE g == tbl[r]
      <4>1. IsFiniteSet(D)
        BY <2>2, <3>1, FS_Subset, Zenon
      <4>2. /\ \A t \in T : g[t] \in D
            /\ \A d \in D : \E t \in T : g[t] = d
            /\ \A t, u \in T : g[t] = g[u] => t = u
        BY <3>2, Zenon
      <4> HIDE DEF g, T, D
      <4> QED BY <4>1, <4>2, ImageCard, Zenon
    <3> HIDE DEF D, T
    <3>5. Cardinality(D \cup {r}) = Cardinality(D) + 1
      BY <3>3, <3>4, FS_AddElement, Zenon
    <3>6. pages = D \cup {r}
      BY Zenon
    <3> QED BY <3>4, <3>5, <3>6, Zenon
  <2>4. pages \cap Unused = {}
    <3>1. /\ k.op # "grant" /\ k.op # "ring" => k.page = Fresh
          /\ k.op = "ring" => k.page \in {None, k.sq, k.cq}
      BY Zenon DEF Fresh, IInv, Control, RingAt
    <3>2. {k.sq, k.cq} \subseteq Queues \cup Held \cup {None}
      BY Shape, Zenon DEF Queues, Held, Fresh, IInv, Control, RingAt, Typed, Calls, MaybePage
    <3>3. Unused \subseteq free \cup other \cup Held \cup Queues
      BY <3>1, <3>2 DEF Unused, Loose, Held
    <3> HIDE DEF pages
    <3> QED BY <2>1, <2>2, <3>3, Zenon DEF Apart
  <2>5. ASSUME NEW q \in Roots
        PROVE  /\ pages \cap Leaves(q) \subseteq stale
               /\ q # r => pages \cap ({q} \cup {tbl[q][t] : t \in Tables}) \subseteq {None}
    <3>1. ASSUME NEW p \in pages, p \in Leaves(q) PROVE p \in stale
      <4>1. PICK v \in VAs : p = pte[q][v]
        BY <3>1, Zenon DEF Leaves
      <4>2. p \in TablePages /\ LeafAt(q, v)
        BY <2>1, <2>2, Zenon DEF Mapped
      <4> HIDE DEF pages
      <4> QED BY <4>1, <4>2, Zenon DEF LeafAt
    <3>2. ASSUME q # r, NEW p \in pages, p \in {q} \cup {tbl[q][t] : t \in Tables} PROVE p = None
      <4>1. ASSUME p # None, NEW t \in Tables, p = tbl[q][t] PROVE FALSE
        <5>1. p # r /\ \A u \in Tables : p # tbl[r][u]
          BY <2>1, <3>2, <4>1 DEF TablesOnce
        <5> QED BY <5>1, Zenon
      <4>2. p # q
        <5>1. p = r \/ \E u \in Tables : p = tbl[r][u]
          BY Zenon
        <5>2. q # r /\ \A u \in Tables : tbl[r][u] # q
          BY <2>1, <3>2 DEF TablesOnce
        <5> QED BY ONLY <5>1, <5>2, Zenon
      <4> QED BY <3>2, <4>1, <4>2, Zenon
    <3> HIDE DEF pages
    <3> QED BY <3>1, <3>2, Zenon
  <2> HIDE DEF T, pages
  <2> QED BY <2>2, <2>3, <2>4, <2>5, Zenon DEF T, pages
<1> QED BY <1>1, Invariance, PTL

\* A VMA list that leads from the mark spawn set to b, and whose regions lie
\* one below the other if each ends above its start.
Ordered(q) ==
  (\A i \in 1 .. Len(q) : q[i].start < q[i].end) =>
    \A i, j \in 1 .. Len(q) : i < j => q[j].end <= q[i].start
Tiles(q, b) ==
  /\ b = IF Len(q) = 0 THEN MMAP_START ELSE q[1].end
  /\ \A i \in 1 .. Len(q) : q[i].start = IF i = Len(q) THEN MMAP_START ELSE q[i + 1].end
  /\ Ordered(q)

\* It still does with one more at the front that starts at b.
LEMMA TilesMore ==
  ASSUME NEW q \in Vmas, NEW b \in Nat, NEW e \in Nat, Tiles(q, b)
  PROVE  Tiles(<<[start |-> b, end |-> e]>> \o q, e)
<1> DEFINE v == [start |-> b, end |-> e]
           z == <<v>> \o q
<1>1. v \in [start : Nat, end : Nat] /\ v.start = b /\ v.end = e
  BY Zenon
<1> HIDE DEF v
<1>2. /\ Len(z) = Len(q) + 1 /\ z[1] = v /\ Len(q) \in Nat
      /\ \A i \in 2 .. Len(z) : z[i] = q[i - 1]
      /\ \A i \in 1 .. Len(q) : z[i + 1] = q[i] /\ q[i].start \in Nat /\ q[i].end \in Nat
  <2> DEFINE V == [start : Nat, end : Nat]
  <2>0. v \in V /\ q \in Seq(V)
    BY <1>1, Zenon DEF Vmas
  <2>2. \A x \in V : x.start \in Nat /\ x.end \in Nat
    BY Zenon
  <2> HIDE DEF V
  <2>1. /\ Len(z) = Len(q) + 1 /\ z[1] = v /\ Len(q) \in Nat
        /\ \A i \in 2 .. Len(z) : z[i] = q[i - 1]
        /\ \A i \in 1 .. Len(q) : q[i] \in V
    BY <2>0
  <2> HIDE DEF z
  <2>3. \A i \in 1 .. Len(q) : i + 1 \in 2 .. Len(z) /\ (i + 1) - 1 = i
    BY <2>1
  <2> QED BY <2>1, <2>2, <2>3
<1> HIDE DEF z
<1>3. e = IF Len(z) = 0 THEN MMAP_START ELSE z[1].end
  BY <1>1, <1>2
<1>4. ASSUME NEW i \in 1 .. Len(z)
      PROVE  z[i].start = IF i = Len(z) THEN MMAP_START ELSE z[i + 1].end
  <2>1. CASE i = 1
    <3>1. Len(q) # 0 => z[2] = q[1]
      BY <1>2
    <3> QED BY <1>1, <1>2, <2>1, <3>1 DEF Tiles
  <2>2. CASE i # 1
    <3>1. /\ i - 1 \in 1 .. Len(q) /\ z[i] = q[i - 1] /\ i \in 2 .. Len(z)
          /\ i # Len(z) => z[i + 1] = q[i]
      BY <1>2, <2>2
    <3> QED BY <1>2, <3>1 DEF Tiles
  <2> QED BY <2>1, <2>2, Zenon
<1>5. ASSUME \A i \in 1 .. Len(z) : z[i].start < z[i].end,
             NEW i \in 1 .. Len(z), NEW j \in 1 .. Len(z), i < j
      PROVE  z[j].end <= z[i].start
  <2>1. \A m \in 1 .. Len(q) : q[m].start < q[m].end
    <3> TAKE m \in 1 .. Len(q)
    <3>1. m + 1 \in 1 .. Len(z) /\ z[m + 1] = q[m]
      BY <1>2
    <3>2. z[m + 1].start < z[m + 1].end
      BY <1>5, <3>1, Zenon
    <3> QED BY <3>1, <3>2, Zenon
  <2>2. \A m, n \in 1 .. Len(q) : m < n => q[n].end <= q[m].start
    BY <2>1, Zenon DEF Tiles, Ordered
  <2>3. j - 1 \in 1 .. Len(q) /\ z[j] = q[j - 1] /\ 1 \in 1 .. Len(q)
    BY <1>2, <1>5
  <2>4. CASE i = 1
    <3> DEFINE m == j - 1
    <3>1. b = q[1].end
      BY <1>2, <2>3 DEF Tiles
    <3>2. m \in 1 .. Len(q) /\ z[j] = q[m]
      BY <2>3
    <3> HIDE DEF m
    <3>3. q[m].end <= q[1].end
      <4>1. CASE m = 1
        BY <1>2, <3>2, <4>1
      <4>2. CASE m # 1
        <5>1. q[m].end <= q[1].start
          BY <1>2, <2>2, <2>3, <3>2, <4>2
        <5>2. q[1].start < q[1].end
          BY <2>1, <2>3, Zenon
        <5> QED BY <1>2, <2>3, <3>2, <5>1, <5>2
      <4> QED BY <4>1, <4>2, Zenon
    <3> QED BY <1>1, <1>2, <2>4, <3>1, <3>2, <3>3
  <2>5. CASE i # 1
    <3> DEFINE m == i - 1
               n == j - 1
    <3>1. m \in 1 .. Len(q) /\ n \in 1 .. Len(q) /\ m < n /\ z[i] = q[m] /\ z[j] = q[n]
      BY <1>2, <1>5, <2>5
    <3> HIDE DEF m, n
    <3> QED BY <2>2, <3>1, Zenon
  <2> QED BY <2>4, <2>5, Zenon
<1>6. Tiles(z, e)
  BY <1>3, <1>4, <1>5, Zenon DEF Tiles, Ordered
<1> QED BY <1>6, Zenon DEF z, v

\* The VMA list of a process is a chain from the mark spawn set to mmap_base,
\* also after calls that failed half way and lengths that wrapped; its regions
\* do not overlap as long as no length has wrapped.
THEOREM VmasTile == Spec => []VmaTiles
<1>1. VmaTiles <=> \A s \in Slots : Live(s) => Tiles(vma[s], mmap_base[s])
  BY Zenon DEF VmaTiles, Tiles, Ordered
<1>2. VmaTiles' <=> \A s \in Slots : Live(s)' => Tiles(vma'[s], mmap_base'[s])
  BY Zenon DEF VmaTiles, Tiles, Ordered
<1>3. Init => VmaTiles
  BY Zenon DEF Init, VmaTiles, Live
<1>4. IInv /\ VmaTiles /\ [Next]_vars => VmaTiles'
  <2> SUFFICES ASSUME IInv, VmaTiles, [Next]_vars PROVE VmaTiles'
    BY Zenon
  <2>1. CASE init_slot
    <3>1. /\ \A s \in Slots : Live(s)' /\ s # k.s => Live(s)
          /\ \A s \in Slots : vma'[s] = IF s = k.s THEN <<>> ELSE vma[s]
          /\ \A s \in Slots : mmap_base'[s] = IF s = k.s THEN MMAP_START ELSE mmap_base[s]
      BY <2>1, Zenon DEF init_slot, IInv, Typed, Live
    <3>2. Tiles(<<>>, MMAP_START)
      BY DEF Tiles, Ordered
    <3> QED BY <1>1, <1>2, <3>1, <3>2, Zenon
  <2>2. CASE mmap_commit
    <3>1. /\ k.s \in Slots /\ Live(k.s) /\ k.end \in Nat
          /\ mmap_base[k.s] \in Nat /\ vma[k.s] \in Vmas
      BY <2>2, Zenon DEF mmap_commit, At, IInv, Control, Typed, Calls
    <3> DEFINE z == <<[start |-> mmap_base[k.s], end |-> k.end]>> \o vma[k.s]
    <3>2. Tiles(z, k.end)
      BY <1>1, <3>1, TilesMore, Zenon
    <3>3. vma' = [vma EXCEPT ![k.s] = z] /\ mmap_base' = [mmap_base EXCEPT ![k.s] = k.end]
          /\ state' = state
      BY <2>2, Zenon DEF mmap_commit
    <3> HIDE DEF z
    <3>4. /\ \A s \in Slots : Live(s)' <=> Live(s)
          /\ \A s \in Slots : vma'[s] = IF s = k.s THEN z ELSE vma[s]
          /\ \A s \in Slots : mmap_base'[s] = IF s = k.s THEN k.end ELSE mmap_base[s]
      BY <3>3, Zenon DEF IInv, Typed, Live
    <3> QED BY <1>1, <1>2, <3>2, <3>4, Zenon
  <2>3. CASE ~ init_slot /\ ~ mmap_commit
    <3>1. /\ UNCHANGED <<mmap_base, vma>>
          /\ \/ UNCHANGED state
             \/ \E s \in Slots, x \in {"claimed", "zombie", "free"} : state' = [state EXCEPT ![s] = x]
      <4>1. CASE UNCHANGED vars \/ other_alloc \/ other_free
        BY <4>1, Zenon DEF vars, procs, other_alloc, other_free
      <4>2. CASE Kernel
        <5>1. CASE brk_commit \/ init_ring_commit
          BY <5>1, Zenon DEF brk_commit, init_ring_commit
        <5>2. CASE ~ (brk_commit \/ init_ring_commit)
          <6>1. UNCHANGED procs
            BY <2>3, <4>2, <5>2, Zenon DEF Kernel, walk_or_create, map_kpti_page,
               sys_spawn_fails, read_header, spawn_process, spawn_rejects, alloc_kernel_stack,
               create_user_pml4, copy_segment_data, segments_done, setup_user_stack,
               brk_page, mmap_page, init_ring_cq, init_ring_map_cq, grant_done
          <6> QED BY <6>1, Zenon DEF procs
        <5> QED BY <5>1, <5>2, Zenon
      <4>3. ASSUME NEW s \in Slots, Process(s)
            PROVE  /\ UNCHANGED <<mmap_base, vma>>
                   /\ \/ UNCHANGED state
                      \/ \E x \in {"claimed", "zombie", "free"} : state' = [state EXCEPT ![s] = x]
        <5>1. CASE alloc_pid(s) \/ process_exit(s) \/ sys_wait(s)
          BY <5>1, Zenon DEF alloc_pid, process_exit, sys_wait
        <5>2. CASE sys_spawn(s) \/ init_ring(s)
          BY <5>2, Zenon DEF sys_spawn, init_ring, procs
        <5>3. CASE \E b \in Breaks : sys_brk(s, b) \/ ring_brk(s, b)
          BY <5>3, Zenon DEF sys_brk, ring_brk, GrowHeap
        <5>4. CASE \E n \in Lengths : sys_mmap(s, n) \/ ring_mmap(s, n)
          BY <5>4, Zenon DEF sys_mmap, ring_mmap, MapFresh, procs
        <5>5. CASE \E u \in Slots, src \in GrantVAs, dst \in GrantVAs :
                     sys_shm_grant(s, u, src, dst) \/ ring_shm_grant(s, u, src, dst)
          BY <5>5, Zenon DEF sys_shm_grant, ring_shm_grant, Grant, procs
        <5> QED BY <4>3, <5>1, <5>2, <5>3, <5>4, <5>5, Zenon DEF Process
      <4> QED BY <4>1, <4>2, <4>3, Zenon DEF Next
    <3>2. \A s \in Slots : Live(s)' => Live(s)
      BY <3>1, Zenon DEF IInv, Typed, Live
    <3> QED BY <1>1, <1>2, <3>1, <3>2, Zenon
  <2> QED BY <2>1, <2>2, <2>3, Zenon
<1> QED BY <1>3, <1>4, Invariance, PTL DEF Spec
=============================================================================
