-------------------------- MODULE ProcSchedProofs --------------------------
(***************************************************************************)
(* The process table stays consistent and every process that can be        *)
(* switched to can be resumed, for any number of slots, services, programs *)
(* and listeners.                                                          *)
(***************************************************************************)
EXTENDS ProcSched, FiniteSetTheorems, TLAPS

USE BootAssumption, WordsAssumption, TargetsAssumption

Entry == [state : States, pid : Nat, parent : Nat,
          space : {"none", "kernel", "user"}, sender : Slots, msg0 : Nat]

AliveIn(p) == {s \in Slots : p[s].state \notin {"FREE", "ZOMBIE"}}

\* p differs from the process table only in mailboxes and in which of the
\* states of a live process each one is in.
Similar(p) ==
  /\ p \in [Slots -> Entry]
  /\ \A s \in Slots : /\ p[s].state = "FREE" <=> proc[s].state = "FREE"
                      /\ p[s].state = "ZOMBIE" <=> proc[s].state = "ZOMBIE"
                      /\ p[s].pid = proc[s].pid
  /\ TASK0 \in Dispatchable(p)

KPC == {"user", "entry", "loop", "halt", "accept", "block", "yield", "wait",
        "idle", "lost"}

\* The types of the variables that say neither who is alive nor who runs.
RestOK ==
  /\ last \in Slots /\ cooldown \in 0 .. 4 /\ pulse \in BOOLEAN
  /\ karg \in [Slots -> Nat] /\ iflag \in BOOLEAN /\ ring \subseteq Slots
  /\ pending \subseteq Listeners /\ missed \subseteq Listeners

\* The kernel threads are in their own code.
KpcOK ==
  /\ kpc \in [Slots -> KPC]
  /\ kpc[TX] \in {"entry", "loop"} /\ kpc[TASK0] \in {"entry", "loop"}
  /\ kpc[TERMINAL] \in {"entry", "halt"}

\* The boot slots are distinct slots of the table.
LEMMA BootSlots ==
  /\ Slots \subseteq Nat /\ TERMINAL \in Slots /\ TX \in Slots /\ TASK0 \in Slots
  /\ FirstUser + 1 \in Slots /\ Booted \in Nat
  /\ TERMINAL # TX /\ TASK0 \notin {TERMINAL, TX} /\ FirstUser + 1 > TASK0
  /\ 0 \in Slots /\ 0 \in Nat /\ Nobody \notin Slots
BY DEF Slots, TERMINAL, TX, TASK0, FirstUser, Booted, Nobody

\* The type invariant, by its parts.
LEMMA Typed ==
  TypeOK <=> /\ proc \in [Slots -> Entry] /\ bitmap \subseteq Slots
             /\ nextPid \in Nat /\ count \in Int /\ current \in Slots
             /\ frame \in [Slots -> {"none", "saved", "live"}]
             /\ kpc \in [Slots -> KPC] /\ to \in Slots \cup {Nobody} /\ RestOK
BY Zenon DEF TypeOK, Entry, KPC, RestOK

\* What kmain leaves in the table satisfies the invariant.
LEMMA InitInv == kmain => Inv
<1> SUFFICES ASSUME kmain PROVE Inv BY Zenon
<1>1. TypeOK
  <2>1. proc \in [Slots -> Entry]
    <3>1. ASSUME NEW s \in Slots PROVE proc[s] \in Entry
      <4>1. s \in Nat /\ 0 \in Slots
        BY BootSlots, Zenon DEF TERMINAL
      <4>2. proc[s] = [state |-> proc[s].state, pid |-> proc[s].pid, parent |-> 0,
                       space |-> proc[s].space, sender |-> 0, msg0 |-> 0]
        BY Zenon DEF kmain
      <4>3. /\ proc[s].state \in States /\ proc[s].pid \in Nat
            /\ proc[s].space \in {"none", "kernel", "user"}
        BY <4>1 DEF kmain, States
      <4> QED BY <4>1, <4>2, <4>3 DEF Entry
    <3> QED BY <3>1, Zenon DEF kmain
  <2>2. bitmap \subseteq Slots /\ nextPid \in Nat /\ count \in Int
    BY BootSlots DEF kmain, Slots
  <2>3. current \in Slots /\ last \in Slots /\ cooldown \in 0 .. 4
    BY BootSlots DEF kmain, TERMINAL
  <2>6. pulse \in BOOLEAN /\ iflag \in BOOLEAN
    BY Zenon DEF kmain
  <2>4. frame \in [Slots -> {"none", "saved", "live"}] /\ karg \in [Slots -> Nat]
        /\ pending \subseteq Listeners /\ missed \subseteq Listeners
        /\ ring \subseteq Slots /\ to \in Slots \cup {Nobody}
    BY BootSlots, Zenon DEF kmain
  <2>5. kpc \in [Slots -> KPC]
    BY Zenon DEF kmain, KPC
  <2> QED BY <2>1, <2>2, <2>3, <2>4, <2>5, <2>6, Typed, Zenon DEF RestOK
<1>2. Alive = 0 .. Booted - 1
  BY BootSlots DEF kmain, Alive, Slots, TERMINAL, TX, TASK0, FirstUser, Booted
<1>3. bitmap = {s \in Slots : proc[s].state # "FREE"}
  BY BootSlots DEF kmain, Slots, TERMINAL, TX, TASK0, FirstUser, Booted
<1>4. count = Cardinality(Alive)
  <2>1. Cardinality(0 .. Booted - 1) = Booted
    BY BootSlots, FS_Interval DEF Booted, FirstUser, TASK0
  <2> QED BY <2>1, <1>2, Zenon DEF kmain
<1>5. UniquePids /\ \A s \in bitmap : proc[s].pid < nextPid
  BY BootSlots DEF kmain, UniquePids, Slots, TASK0, FirstUser, Booted
<1>6. Resumable
  BY <1>2, BootSlots DEF kmain, Resumable, Slots, TASK0, FirstUser, Booted
<1>7. /\ {TERMINAL, TX} \subseteq Alive /\ TASK0 \in Dispatchable(proc)
      /\ kpc[TX] = "entry" /\ kpc[TASK0] = "entry" /\ kpc[TERMINAL] = "entry"
      /\ current \in Alive
  BY <1>2, BootSlots DEF kmain, Dispatchable, Slots, TERMINAL, TX, TASK0, FirstUser, Booted
<1>8. \A s \in Slots : kpc[s] = "idle" => s = current /\ proc[s].state = "ZOMBIE"
  BY Zenon DEF kmain
<1>9. last # TASK0 /\ to = Nobody
  BY DEF kmain, TASK0
<1> QED BY <1>1, <1>3, <1>4, <1>5, <1>6, <1>7, <1>8, <1>9, Zenon DEF Inv, TableAgrees

\* A similar table has the same live slots, so the bitmap, the count and the
\* process ids still agree with it.
LEMMA SimilarAgrees ==
  ASSUME Inv, Similar(proc'), UNCHANGED table
  PROVE  /\ Alive' = Alive
         /\ TableAgrees' /\ UniquePids'
         /\ \A s \in bitmap' : proc'[s].pid < nextPid'
         /\ {TERMINAL, TX} \subseteq Alive' /\ TASK0 \in Dispatchable(proc')
<1>1. Alive' = Alive
  BY Zenon DEF Alive, Similar
<1>2. {s \in Slots : proc'[s].state # "FREE"} = {s \in Slots : proc[s].state # "FREE"}
  BY Zenon DEF Similar
<1>3. TableAgrees'
  BY <1>1, <1>2, Zenon DEF Inv, TableAgrees, table
<1>4. UniquePids' /\ \A s \in bitmap' : proc'[s].pid < nextPid'
  BY DEF Inv, TypeOK, Similar, UniquePids, table
<1> QED BY <1>1, <1>3, <1>4, Zenon DEF Inv, Similar

\* The parts of the invariant, collected for a step that allocates, frees and
\* kills nothing.
LEMMA KeepsInv ==
  ASSUME Inv, Similar(proc'), UNCHANGED table, RestOK', KpcOK',
         current' \in Slots, frame' \in [Slots -> {"none", "saved", "live"}],
         to' \in Slots \cup {Nobody},
         SpawnMayFail \/ Resumable',
         current' \in Alive' \/ kpc'[current'] = "idle",
         to' # Nobody => current' \in Alive' /\ to' \in Alive',
         \A s \in Slots : kpc'[s] = "idle" => s = current' /\ proc'[s].state = "ZOMBIE",
         last' = TASK0 => Landing' \in {TASK0, TERMINAL}
  PROVE  Inv'
<1>1. TypeOK'
  <2>1. bitmap' \subseteq Slots /\ nextPid' \in Nat /\ count' \in Int
    BY Zenon DEF Inv, TypeOK, table
  <2>2. proc' \in [Slots -> Entry]
    BY Zenon DEF Similar
  <2> QED BY <2>1, <2>2, Zenon DEF TypeOK, Entry, KPC, RestOK, KpcOK
<1>2. /\ TableAgrees' /\ UniquePids'
      /\ \A s \in bitmap' : proc'[s].pid < nextPid'
      /\ {TERMINAL, TX} \subseteq Alive' /\ TASK0 \in Dispatchable(proc')
  BY SimilarAgrees, Zenon
<1>3. (TASK0 \in Dispatchable(proc))'
  BY <1>2, Zenon DEF Dispatchable
<1> QED BY <1>1, <1>2, <1>3, Zenon DEF Inv, KpcOK

\* What the invariant says of the slot that has the processor.
LEMMA RunningFacts ==
  ASSUME Inv
  PROVE  /\ current \in Slots /\ to \in Slots \cup {Nobody} /\ RestOK /\ KpcOK
         /\ proc \in [Slots -> Entry]
         /\ frame \in [Slots -> {"none", "saved", "live"}]
         /\ current \in Alive => \A s \in Slots : kpc[s] # "idle"
         /\ kpc[current] # "idle" => current \in Alive
         /\ to # Nobody => current \in Alive /\ to \in Alive
         /\ UNCHANGED <<last, cooldown, pulse, karg, iflag, ring, network>> => RestOK'
<1>1. /\ current \in Slots /\ to \in Slots \cup {Nobody} /\ RestOK
      /\ kpc \in [Slots -> KPC] /\ proc \in [Slots -> Entry]
      /\ frame \in [Slots -> {"none", "saved", "live"}]
  BY Typed, Zenon DEF Inv
<1>2. UNCHANGED <<last, cooldown, pulse, karg, iflag, ring, network>> => RestOK'
  BY <1>1, Zenon DEF RestOK, network
<1> QED BY <1>1, <1>2, Zenon DEF Inv, Alive, KpcOK

\* A step that leaves the stacks alone and puts nobody into the idle loop.
LEMMA StaysInv ==
  ASSUME Inv, Similar(proc'), UNCHANGED <<table, current, frame>>, RestOK', KpcOK',
         \A s \in Slots : kpc'[s] = "idle" => kpc[s] = "idle",
         kpc[current] = "idle" => kpc'[current] = "idle",
         to' \in Slots \cup {Nobody},
         to' # Nobody => current \in Alive /\ to' \in Alive,
         last' = TASK0 => Landing' \in {TASK0, TERMINAL}
  PROVE  Inv'
<1>1. Alive' = Alive /\ current' = current /\ frame' = frame /\ UNCHANGED table
  BY SimilarAgrees, Zenon
<1>2. /\ current' \in Slots /\ frame' \in [Slots -> {"none", "saved", "live"}]
  BY <1>1, RunningFacts, Zenon
<1>3. SpawnMayFail \/ Resumable'
  BY <1>1, Zenon DEF Inv, Resumable
<1>4. current' \in Alive' \/ kpc'[current'] = "idle"
  BY <1>1, Zenon DEF Inv
<1>5. \A s \in Slots : proc[s].state = "ZOMBIE" => proc'[s].state = "ZOMBIE"
  BY Zenon DEF Similar
<1>6. \A s \in Slots : kpc'[s] = "idle" => s = current' /\ proc'[s].state = "ZOMBIE"
  BY <1>1, <1>5, Zenon DEF Inv
<1> QED BY <1>1, <1>2, <1>3, <1>4, <1>6, KeepsInv, Zenon

\* Giving a live process, Task 0 apart, another live state keeps the table
\* similar.
LEMMA SimilarState ==
  ASSUME NEW p, Similar(p), NEW s \in Alive \ {TASK0},
         NEW st \in States \ {"FREE", "ZOMBIE"}
  PROVE  Similar([p EXCEPT ![s].state = st])
<1>1. p \in [Slots -> Entry] /\ p[s] \in Entry /\ s \in Slots
  BY Zenon DEF Similar, Alive
<1> DEFINE d == [p[s] EXCEPT !.state = st]
           p2 == [p EXCEPT ![s].state = st]
<1>2. d \in Entry /\ d.state = st /\ d.pid = p[s].pid
  BY <1>1, Zenon DEF Entry
<1>3. p2 = [p EXCEPT ![s] = d]
  BY <1>1, Zenon
<1> HIDE DEF d, p2
<1>4. p2 \in [Slots -> Entry] /\ p2[s] = d /\ \A t \in Slots \ {s} : p2[t] = p[t]
  BY <1>1, <1>2, <1>3, Zenon
<1>5. proc[s].state \notin {"FREE", "ZOMBIE"}
  BY Zenon DEF Alive
<1>6. Similar(p2)
  BY <1>2, <1>4, <1>5 DEF Similar, Dispatchable
<1> QED BY <1>6, Zenon DEF p2

\* The table is similar to itself, and stays so when a mailbox is written or a
\* live process is given another live state.
LEMMA SimilarFacts ==
  ASSUME Inv, NEW s \in Slots, NEW f \in Slots, NEW w \in Nat
  PROVE  /\ Similar(proc)
         /\ Similar(set_ipc_msg(proc, s, f, w))
         /\ \A st \in States \ {"FREE", "ZOMBIE"} :
              s \in Alive \ {TASK0}
                => /\ Similar([proc EXCEPT ![s].state = st])
                   /\ Similar([set_ipc_msg(proc, s, f, w) EXCEPT ![s].state = st])
<1>1. proc \in [Slots -> Entry] /\ TASK0 \in Dispatchable(proc) /\ TASK0 \in Slots
  BY BootSlots, Zenon DEF Inv, TypeOK, Entry
<1>2. Similar(proc)
  BY <1>1, Zenon DEF Similar
<1> DEFINE e == [proc[s] EXCEPT !.sender = f, !.msg0 = w]
           p1 == set_ipc_msg(proc, s, f, w)
<1>3. e \in Entry /\ e.state = proc[s].state /\ e.pid = proc[s].pid
  <2>1. proc[s] \in Entry
    BY <1>1, Zenon
  <2> QED BY <2>1, Zenon DEF Entry
<1>4. p1 = [proc EXCEPT ![s] = e]
  BY <1>1, Zenon DEF set_ipc_msg
<1> HIDE DEF e, p1
<1>5. p1 \in [Slots -> Entry] /\ p1[s] = e /\ \A t \in Slots \ {s} : p1[t] = proc[t]
  BY <1>1, <1>3, <1>4, Zenon
<1>6. Similar(p1)
  BY <1>1, <1>3, <1>5, Zenon DEF Similar, Dispatchable
<1>7. ASSUME NEW st \in States \ {"FREE", "ZOMBIE"}, s \in Alive \ {TASK0},
             NEW p, Similar(p)
      PROVE  Similar([p EXCEPT ![s].state = st])
  BY <1>7, SimilarState, Zenon
<1>8. Similar(set_ipc_msg(proc, s, f, w))
  BY <1>6, Zenon DEF p1
<1> QED BY <1>2, <1>7, <1>8, Zenon

\* schedule_next leaves the stacks alone and either falls through or chooses
\* another live slot; it falls through only when it finds nobody.
LEMMA ScheduleFacts ==
  ASSUME Inv, to = Nobody, current \in Alive, NEW p, Similar(p), NEW q, schedule_next(p, q)
  PROVE  /\ proc' = p /\ UNCHANGED <<current, frame, iflag>>
         /\ last' \in Slots /\ cooldown' \in 0 .. 4
         /\ to' \in Slots \cup {Nobody}
         /\ to' # Nobody => to' \in Alive \ {current}
         /\ Dispatchable(p) \ {current, last} # {} => to' # Nobody
         /\ last' = TASK0 => Landing' \in {TASK0, TERMINAL}
<1> DEFINE others == Dispatchable(p) \ {current}
           cool == IF cooldown > 0 THEN cooldown - 1 ELSE 0
           scan == others \ {last}
<1>0. /\ current \in Slots /\ last \in Slots /\ cooldown \in 0 .. 4 /\ cool \in 0 .. 4
      /\ 0 \in Slots /\ Nobody \notin Slots
  BY BootSlots, RunningFacts DEF RestOK
<1>1. others \subseteq Alive \ {current} /\ others \subseteq Slots
  BY Zenon DEF Dispatchable, Alive, Similar
<1>2. ASSUME Return(p), UNCHANGED last, cooldown' \in 0 .. 4, scan = {}
      PROVE  /\ proc' = p /\ UNCHANGED <<current, frame, iflag>>
             /\ last' \in Slots /\ cooldown' \in 0 .. 4 /\ to' = Nobody
             /\ last' = TASK0 => Landing' \in {TASK0, TERMINAL}
  <2>1. proc' = p /\ UNCHANGED <<current, frame, iflag, to>>
    BY <1>2, Zenon DEF Return, stack
  <2> QED BY <1>0, <1>2, <2>1, Zenon DEF Inv, Landing
<1>3. ASSUME NEW next \in others, switch_to_process(p, next), cooldown' \in 0 .. 4,
             last' \in Slots, last' = TASK0 => next \in {TASK0, TERMINAL}
      PROVE  /\ proc' = p /\ UNCHANGED <<current, frame, iflag>>
             /\ last' \in Slots /\ cooldown' \in 0 .. 4
             /\ to' \in Slots /\ to' # Nobody /\ to' \in Alive \ {current}
             /\ last' = TASK0 => Landing' \in {TASK0, TERMINAL}
  <2>1. proc' = p /\ to' = next /\ UNCHANGED <<current, frame, iflag>>
    BY <1>3, Zenon DEF switch_to_process
  <2>2. next \in Slots /\ next \in Alive \ {current} /\ next # Nobody
    BY <1>0, <1>1, Zenon
  <2> QED BY <1>3, <2>1, <2>2, Zenon DEF Landing
<1>4. CASE others = {}
  <2>1. Return(p) /\ UNCHANGED <<last, cooldown>> /\ scan = {}
    BY <1>4, Zenon DEF schedule_next
  <2> QED BY <1>0, <1>2, <2>1, Zenon
<1>5. CASE cooldown' = 4 /\ switch_to_process(p, 0) /\ UNCHANGED last /\ 0 \in others
  <2>1. cooldown' \in 0 .. 4
    BY <1>5
  <2> QED BY <1>0, <1>3, <1>5, <2>1, Zenon DEF TERMINAL
<1>6. CASE cooldown' = cool /\ scan = {} /\ Return(p) /\ UNCHANGED last
  BY <1>0, <1>2, <1>6, Zenon
<1>7. ASSUME NEW next \in scan, cooldown' = cool, last' = next, switch_to_process(p, next)
      PROVE  /\ proc' = p /\ UNCHANGED <<current, frame, iflag>>
             /\ last' \in Slots /\ cooldown' \in 0 .. 4
             /\ to' \in Slots /\ to' # Nobody /\ to' \in Alive \ {current}
             /\ last' = TASK0 => Landing' \in {TASK0, TERMINAL}
  <2>1. next \in others /\ last' \in Slots /\ cooldown' \in 0 .. 4
    BY <1>0, <1>1, <1>7, Zenon
  <2> QED BY <1>3, <1>7, <2>1, Zenon
<1>8. \/ others = {}
      \/ cooldown' = 4 /\ switch_to_process(p, 0) /\ UNCHANGED last /\ 0 \in others
      \/ cooldown' = cool /\ scan = {} /\ Return(p) /\ UNCHANGED last
      \/ \E next \in scan : cooldown' = cool /\ last' = next /\ switch_to_process(p, next)
  BY Zenon DEF schedule_next, FirstAfter
<1>9. scan = Dispatchable(p) \ {current, last} /\ (others = {} => scan = {})
  BY Zenon
<1> HIDE DEF others, cool
<1> QED BY <1>0, <1>3, <1>4, <1>5, <1>6, <1>7, <1>8, <1>9, <1>2, Zenon

\* A step that ends in schedule_next preserves the invariant.
LEMMA ScheduleKeeps ==
  ASSUME Inv, to = Nobody, current \in Alive, NEW p, Similar(p), NEW q, schedule_next(p, q),
         UNCHANGED <<table, karg, ring, network>>, pulse' \in BOOLEAN, KpcOK',
         \A s \in Slots : kpc'[s] # "idle"
  PROVE  Inv'
<1>1. /\ proc' = p /\ UNCHANGED <<current, frame, iflag>>
      /\ last' \in Slots /\ cooldown' \in 0 .. 4
      /\ to' \in Slots \cup {Nobody}
      /\ to' # Nobody => to' \in Alive
      /\ last' = TASK0 => Landing' \in {TASK0, TERMINAL}
  BY ScheduleFacts, Zenon
<1>2. RestOK'
  BY <1>1, RunningFacts, Zenon DEF RestOK, network
<1>3. kpc[current] # "idle" /\ current \in Slots
  BY RunningFacts, Zenon
<1>4. Similar(proc') /\ UNCHANGED <<table, current, frame>>
  BY <1>1, Zenon
<1>5. \A s \in Slots : kpc'[s] = "idle" => kpc[s] = "idle"
  OBVIOUS
<1> QED BY <1>1, <1>2, <1>3, <1>4, <1>5, StaysInv, Zenon

\* The timer in Ring 3, the kernel threads and the end of the accept loop.
LEMMA SchedulersKeep ==
  ASSUME Inv,
         \/ timer_preempt \/ kernel_event_loop \/ terminal_tx_poll_thread
         \/ kernel_trampoline \/ accept_yield
  PROVE  Inv'
<1>1. /\ to = Nobody /\ kpc[current] # "idle"
      /\ UNCHANGED <<table, karg, ring, network>>
  BY Zenon DEF Inv, timer_preempt, InUser, kernel_event_loop, terminal_tx_poll_thread,
               kernel_trampoline, accept_yield, InKernel, control
<1>2. /\ Similar(proc) /\ current \in Slots /\ current \in Alive /\ KpcOK
      /\ pulse \in BOOLEAN /\ iflag \in BOOLEAN
      /\ \A s \in Slots : kpc[s] # "idle"
  BY <1>1, RunningFacts, SimilarFacts, BootSlots, Zenon DEF RestOK
<1>3. PICK q : schedule_next(proc, q)
  BY Zenon DEF timer_preempt, kernel_event_loop, terminal_tx_poll_thread,
               kernel_trampoline, accept_yield
<1>4. pulse' \in BOOLEAN
  BY <1>2, Zenon DEF timer_preempt, kernel_event_loop, terminal_tx_poll_thread,
               kernel_trampoline, accept_yield
<1>5. KpcOK' /\ \A s \in Slots : kpc'[s] # "idle"
  <2>1. CASE timer_preempt
    BY <1>2, <2>1, Zenon DEF timer_preempt, control, KpcOK
  <2>2. CASE kernel_event_loop \/ terminal_tx_poll_thread
    BY <1>2, <2>2, BootSlots, Zenon DEF kernel_event_loop, terminal_tx_poll_thread, KpcOK, KPC
  <2>3. CASE kernel_trampoline
    BY <1>2, <2>3, BootSlots, Zenon DEF kernel_trampoline, KpcOK, KPC
  <2>4. CASE accept_yield
    <3>1. current \notin {TX, TASK0, TERMINAL}
      BY <1>2, <2>4, Zenon DEF accept_yield, InKernel, KpcOK
    <3> QED BY <1>2, <2>4, <3>1, BootSlots, Zenon DEF accept_yield, KpcOK, KPC
  <2> QED BY <2>1, <2>2, <2>3, <2>4, Zenon
<1> QED BY <1>1, <1>2, <1>3, <1>4, <1>5, ScheduleKeeps, Zenon

\* Changing stacks gives the processor to the new slot and leaves a frame in
\* the one it takes it from.
LEMMA SwitchKeeps ==
  ASSUME Inv, proc_context_switch
  PROVE  Inv'
<1> DEFINE p1 == [proc EXCEPT ![current].state = IF @ = "RUNNING" THEN "READY" ELSE @]
<1>1. /\ current \in Slots /\ current \in Alive /\ to \in Slots /\ to \in Alive
      /\ to # current /\ to # Nobody
      /\ proc \in [Slots -> Entry] /\ RestOK /\ KpcOK /\ \A s \in Slots : kpc[s] # "idle"
      /\ frame \in [Slots -> {"none", "saved", "live"}]
  BY RunningFacts, Zenon DEF proc_context_switch
<1>2. /\ Resume(p1, to, iflag)
      /\ frame' = [frame EXCEPT ![current] = "saved", ![to] = "live"]
      /\ UNCHANGED <<table, last, cooldown, pulse, kpc, karg, ring, network>>
  BY Zenon DEF proc_context_switch, choice, control
<1>3. /\ p1 \in [Slots -> Entry]
      /\ p1[current].state = (IF proc[current].state = "RUNNING" THEN "READY"
                              ELSE proc[current].state)
      /\ \A s \in Slots \ {current} : p1[s] = proc[s]
      /\ \A s \in Slots : p1[s].pid = proc[s].pid
  BY <1>1 DEF Entry, States
<1> HIDE DEF p1
<1>4. /\ proc' = [p1 EXCEPT ![to].state = "RUNNING"] /\ current' = to /\ to' = Nobody
      /\ iflag' \in BOOLEAN
  BY <1>2, Zenon DEF Resume, FlagOf
<1>5. /\ proc' \in [Slots -> Entry] /\ proc'[to].state = "RUNNING"
      /\ \A s \in Slots \ {to} : proc'[s] = p1[s]
      /\ \A s \in Slots : proc'[s].pid = p1[s].pid
  <2>1. p1[to] \in Entry
    BY <1>1, <1>3, Zenon
  <2> DEFINE e == [p1[to] EXCEPT !.state = "RUNNING"]
  <2>2. e \in Entry /\ e.state = "RUNNING" /\ e.pid = p1[to].pid
    BY <2>1, Zenon DEF Entry, States
  <2>3. proc' = [p1 EXCEPT ![to] = e]
    BY <1>1, <1>3, <1>4, Zenon
  <2> HIDE DEF e
  <2> QED BY <1>1, <1>3, <2>2, <2>3, Zenon
<1>6. Similar(proc')
  <2>1. \A s \in Slots : /\ proc'[s].state = "FREE" <=> proc[s].state = "FREE"
                         /\ proc'[s].state = "ZOMBIE" <=> proc[s].state = "ZOMBIE"
                         /\ proc'[s].pid = proc[s].pid
    BY <1>1, <1>3, <1>5 DEF Alive
  <2>2. TASK0 \in Dispatchable(proc')
    BY <1>3, <1>5 DEF Dispatchable, Inv
  <2> QED BY <1>5, <2>1, <2>2, Zenon DEF Similar
<1>7. Alive' = Alive
  BY <1>2, <1>6, SimilarAgrees, Zenon
<1>8. /\ frame' \in [Slots -> {"none", "saved", "live"}]
      /\ frame'[current] = "saved"
      /\ \A s \in Slots \ {current, to} : frame'[s] = frame[s]
  BY <1>1, <1>2, Zenon
<1>9. SpawnMayFail \/ Resumable'
  BY <1>4, <1>7, <1>8, Zenon DEF Inv, Resumable, Alive
<1>10. last' = TASK0 => Landing' \in {TASK0, TERMINAL}
  BY <1>1, <1>2, <1>4, Zenon DEF Inv, Landing
<1>11. RestOK' /\ KpcOK'
  BY <1>1, <1>2, <1>4, Zenon DEF RestOK, KpcOK, network
<1>12. \A s \in Slots : kpc'[s] # "idle"
  BY <1>1, <1>2, Zenon
<1> QED BY <1>1, <1>2, <1>4, <1>6, <1>7, <1>8, <1>9, <1>10, <1>11, <1>12, KeepsInv, Zenon

\* A step that changes neither who has the processor nor who is to get it.
LEMMA QuietKeeps ==
  ASSUME Inv, Similar(proc'), UNCHANGED <<table, current, frame, last, to>>, RestOK', KpcOK',
         \A s \in Slots : kpc'[s] = "idle" => kpc[s] = "idle",
         kpc[current] = "idle" => kpc'[current] = "idle"
  PROVE  Inv'
<1>1. to' \in Slots \cup {Nobody} /\ UNCHANGED <<table, current, frame>>
  BY RunningFacts, Zenon
<1>2. to' # Nobody => current \in Alive /\ to' \in Alive
  BY RunningFacts, Zenon
<1>3. last' = TASK0 => Landing' \in {TASK0, TERMINAL}
  BY Zenon DEF Inv, Landing
<1> QED BY <1>1, <1>2, <1>3, StaysInv, Zenon

\* Ring 3 code and the system calls never run in the slot of a kernel thread.
LEMMA UserFacts ==
  ASSUME Inv, to = Nobody, kpc[current] \in {"user", "accept", "block", "yield", "wait"}
  PROVE  /\ current \in Alive /\ current \in Slots
         /\ current \notin {TERMINAL, TX, TASK0} /\ last # TASK0
         /\ \A s \in Slots : kpc[s] # "idle"
         /\ \A pc \in KPC \ {"idle"} :
              kpc' = [kpc EXCEPT ![current] = pc]
                => KpcOK' /\ \A s \in Slots : kpc'[s] # "idle"
<1>1. /\ current \in Alive /\ current \in Slots /\ KpcOK
      /\ \A s \in Slots : kpc[s] # "idle"
  BY RunningFacts, Zenon
<1>2. current \notin {TERMINAL, TX, TASK0}
  BY <1>1, Zenon DEF KpcOK
<1>3. last # TASK0
  BY <1>2, Zenon DEF Inv, Landing
<1>4. ASSUME NEW pc \in KPC \ {"idle"}, kpc' = [kpc EXCEPT ![current] = pc]
      PROVE  KpcOK' /\ \A s \in Slots : kpc'[s] # "idle"
  <2>1. kpc' \in [Slots -> KPC] /\ kpc'[current] = pc
        /\ \A s \in Slots \ {current} : kpc'[s] = kpc[s]
    BY <1>1, <1>4, Zenon DEF KpcOK
  <2> QED BY <1>1, <1>2, <2>1, BootSlots, Zenon DEF KpcOK
<1> QED BY <1>1, <1>2, <1>3, <1>4, Zenon

\* Sending and receiving preserve the invariant.
LEMMA IpcKeeps ==
  ASSUME Inv, (\E t \in Targets, w \in Words : sys_ipc_send(t, w)) \/ sys_ipc_recv
  PROVE  Inv'
<1>1. /\ InUser /\ UNCHANGED <<table, last, cooldown, pulse, kpc, karg, ring, network>>
  BY Zenon DEF sys_ipc_send, sys_ipc_recv, choice, control
<1>2. /\ current \in Alive /\ current \in Slots /\ to = Nobody
      /\ current \notin {TERMINAL, TX, TASK0} /\ last # TASK0
  BY <1>1, UserFacts, Zenon DEF InUser
<1>4. ASSUME NEW p, Similar(p), Return(p) PROVE Inv'
  <2>1. Similar(proc') /\ UNCHANGED <<table, current, frame, last, to>> /\ iflag' = iflag
    BY <1>1, <1>4, Zenon DEF Return, stack
  <2>2. KpcOK' /\ RestOK' /\ kpc' = kpc
    BY <1>1, <2>1, RunningFacts, Zenon DEF KpcOK
  <2> QED BY <2>1, <2>2, QuietKeeps, Zenon
<1>5. ASSUME NEW t \in Targets, NEW w \in Words, sys_ipc_send(t, w) PROVE Inv'
  <2> DEFINE p == set_ipc_msg(proc, t, current, w)
  <2>1. t \in Slots /\ w \in Nat
    BY Zenon
  <2>2. Similar(p)
    BY <1>2, <2>1, SimilarFacts, Zenon
  <2>3. CASE proc[t].state = "IPC_BLOCKED"
    <3>1. t \in Alive \ {TASK0} /\ "READY" \in States \ {"FREE", "ZOMBIE"}
      BY <2>1, <2>3, Zenon DEF Alive, Inv, Dispatchable, States
    <3> DEFINE p2 == [p EXCEPT ![t].state = "READY"]
    <3>2. Similar(p2)
      BY <1>2, <2>1, <3>1, SimilarFacts, Zenon
    <3>3. switch_to_process(p2, t)
      BY <1>5, <2>3, Zenon DEF sys_ipc_send
    <3> HIDE DEF p2
    <3>4. Similar(proc') /\ to' = t /\ UNCHANGED <<table, current, frame>> /\ iflag' = iflag
      BY <1>1, <3>2, <3>3, Zenon DEF switch_to_process
    <3>5. KpcOK' /\ RestOK' /\ kpc' = kpc /\ last' # TASK0
      BY <1>1, <1>2, <3>4, RunningFacts, Zenon DEF KpcOK
    <3> QED BY <1>2, <2>1, <3>1, <3>4, <3>5, StaysInv, Zenon
  <2>4. CASE proc[t].state # "IPC_BLOCKED"
    <3>1. Return(p)
      BY <1>5, <2>4, Zenon DEF sys_ipc_send
    <3> QED BY <1>4, <2>2, <3>1, Zenon
  <2> QED BY <2>3, <2>4, Zenon
<1>6. CASE sys_ipc_recv
  <2> DEFINE p == set_ipc_msg(proc, current, 0, 0)
             p2 == [p EXCEPT ![current].state = "IPC_BLOCKED"]
  <2>1. /\ 0 \in Slots /\ 0 \in Nat /\ "IPC_BLOCKED" \in States \ {"FREE", "ZOMBIE"}
        /\ current \in Alive \ {TASK0}
    BY <1>2, BootSlots, Zenon DEF States
  <2>2. Similar(p) /\ Similar(p2)
    BY <1>2, <2>1, SimilarFacts, Zenon
  <2>3. Return(p) \/ Return(p2)
    BY <1>6, Zenon DEF sys_ipc_recv
  <2> HIDE DEF p, p2
  <2> QED BY <1>4, <2>2, <2>3, Zenon
<1> QED BY <1>5, <1>6, Zenon

\* Entering the accept loop, testing for a connection and marking oneself
\* blocked preserve it.
LEMMA AcceptKeeps ==
  ASSUME Inv, (\E l \in Listeners : sys_tcp_accept(l)) \/ tcp_accept \/ accept_block
  PROVE  Inv'
<1>1. /\ to = Nobody /\ kpc[current] \in {"user", "accept", "block"}
      /\ UNCHANGED <<table, last, cooldown, pulse, current, frame, to, ring>>
  BY Zenon DEF sys_tcp_accept, tcp_accept, accept_block, InUser, InKernel, choice, stack
<1>2. /\ current \in Alive \ {TASK0} /\ current \in Slots /\ 0 \in Slots /\ 0 \in Nat
      /\ \A s \in Slots : kpc[s] # "idle"
  BY <1>1, UserFacts, BootSlots, Zenon
<1>3. KpcOK' /\ \A s \in Slots : kpc'[s] # "idle"
  <2>1. \E pc \in KPC \ {"idle"} : kpc' = [kpc EXCEPT ![current] = pc]
    BY Zenon DEF sys_tcp_accept, tcp_accept, accept_block, KPC
  <2> QED BY <1>1, <2>1, UserFacts, Zenon
<1>4. RestOK'
  <2>1. karg' \in [Slots -> Nat]
    <3>1. karg \in [Slots -> Nat] /\ Listeners \subseteq Nat
      BY RunningFacts, Zenon DEF RestOK
    <3>2. karg' = karg \/ \E l \in Listeners : karg' = [karg EXCEPT ![current] = l]
      BY Zenon DEF sys_tcp_accept, tcp_accept, accept_block
    <3> QED BY <1>2, <3>1, <3>2, Zenon
  <2>2. /\ iflag' \in BOOLEAN /\ pending' \subseteq Listeners /\ missed' \subseteq Listeners
    BY RunningFacts, Zenon DEF RestOK, sys_tcp_accept, tcp_accept, accept_block, stack, network
  <2> QED BY <1>1, <2>1, <2>2, RunningFacts, Zenon DEF RestOK
<1>5. Similar(proc')
  <2>1. karg[current] \in Nat /\ "BLOCKED_ACCEPT" \in States \ {"FREE", "ZOMBIE"}
    BY <1>2, RunningFacts, Zenon DEF RestOK, States
  <2>2. proc' = proc \/ proc' = [set_ipc_msg(proc, current, 0, karg[current])
                                   EXCEPT ![current].state = "BLOCKED_ACCEPT"]
    BY Zenon DEF sys_tcp_accept, tcp_accept, accept_block
  <2>3. Similar(proc) /\ Similar([set_ipc_msg(proc, current, 0, karg[current])
                                   EXCEPT ![current].state = "BLOCKED_ACCEPT"])
    BY <1>2, <2>1, SimilarFacts, Zenon
  <2> QED BY <2>2, <2>3, Zenon
<1>6. UNCHANGED <<table, current, frame, last, to>>
  BY <1>1, Zenon
<1> QED BY <1>2, <1>3, <1>4, <1>5, <1>6, QuietKeeps, Zenon

\* Waking a process that sleeps in accept changes only its state.
LEMMA WokenSimilar ==
  ASSUME Inv, NEW l, NEW p \in sched_wake_accept(l)
  PROVE  Similar(p)
<1>1. Similar(proc) /\ "READY" \in States \ {"FREE", "ZOMBIE"}
  BY BootSlots, SimilarFacts, Zenon DEF States
<1>2. p = proc \/ \E s \in Slots : proc[s].state = "BLOCKED_ACCEPT"
                                   /\ p = [proc EXCEPT ![s].state = "READY"]
  BY Zenon DEF sched_wake_accept, Asleep
<1>3. \A s \in Slots : proc[s].state = "BLOCKED_ACCEPT" => s \in Alive \ {TASK0}
  BY Zenon DEF Alive, Inv, Dispatchable
<1>4. ASSUME NEW s \in Slots, proc[s].state = "BLOCKED_ACCEPT"
      PROVE  Similar([proc EXCEPT ![s].state = "READY"])
  <2>1. s \in Alive \ {TASK0}
    BY <1>3, <1>4, Zenon
  <2> QED BY <1>1, <2>1, SimilarState, Zenon
<1> QED BY <1>1, <1>2, <1>4, Zenon

\* The network's interrupt and the poll of sys_yield wake at most one sleeper
\* and the transmit poller.
LEMMA NetworkKeeps ==
  ASSUME Inv, Network
  PROVE  Inv'
<1>1. /\ UNCHANGED <<table, current, frame, last, to, cooldown, pulse, iflag, kpc, karg, ring>>
      /\ (\E l \in Listeners : handle_server_syn(l)) \/ UNCHANGED <<pending, missed>>
  BY Zenon DEF Network, virtio_net_isr, netcore_poll_all, choice, stack, control, network
<1>2. RestOK' /\ KpcOK' /\ kpc' = kpc /\ UNCHANGED <<table, current, frame, last, to>>
  <2>1. pending' \subseteq Listeners /\ missed' \subseteq Listeners
    BY <1>1, RunningFacts, Zenon DEF RestOK, handle_server_syn
  <2> QED BY <1>1, <2>1, RunningFacts, Zenon DEF RestOK, KpcOK
<1>3. Similar(proc')
  <2>1. TX \in Alive \ {TASK0} /\ "READY" \in States \ {"FREE", "ZOMBIE"} /\ Similar(proc)
    BY BootSlots, SimilarFacts, Zenon DEF Inv, States
  <2>2. \E p : Similar(p) /\ (proc' = p \/ proc' = [p EXCEPT ![TX].state = "READY"])
    BY <2>1, WokenSimilar, Zenon DEF Network, virtio_net_isr, netcore_poll_all
  <2>3. PICK p : Similar(p) /\ (proc' = p \/ proc' = [p EXCEPT ![TX].state = "READY"])
    BY <2>2, Zenon
  <2>4. Similar([p EXCEPT ![TX].state = "READY"])
    BY <2>1, <2>3, SimilarState, Zenon
  <2> QED BY <2>3, <2>4, Zenon
<1> QED BY <1>2, <1>3, QuietKeeps, Zenon

\* Draining the caller's own queue, and the end of that system call.
LEMMA YieldKeeps ==
  ASSUME Inv, sys_yield \/ sys_yield_return
  PROVE  Inv'
<1>1. /\ UNCHANGED <<proc, table, current, frame, last, cooldown, pulse, kpc, karg, ring, network>>
      /\ iflag' = iflag \/ iflag' = FALSE
      /\ \/ to = Nobody /\ kpc[current] = "user" /\ to' = current
         \/ to = current /\ to' = Nobody
  BY Zenon DEF sys_yield, sys_yield_return, InUser, choice, control
<1>2. /\ current \in Alive /\ current \in Slots /\ Nobody \notin Slots /\ Similar(proc)
  BY <1>1, RunningFacts, BootSlots, SimilarFacts, Zenon
<1>3. RestOK' /\ KpcOK' /\ kpc' = kpc /\ UNCHANGED <<table, current, frame>> /\ Similar(proc')
  BY <1>1, <1>2, RunningFacts, Zenon DEF RestOK, KpcOK, network
<1>4. to' \in Slots \cup {Nobody} /\ (to' # Nobody => current \in Alive /\ to' \in Alive)
  BY <1>1, <1>2, Zenon
<1>5. last' = TASK0 => Landing' \in {TASK0, TERMINAL}
  BY <1>1, <1>2, Zenon DEF Inv, Landing
<1> QED BY <1>3, <1>4, <1>5, StaysInv, Zenon

\* Mapping a queue, a send and an allocation from it, a tick in kernel code and
\* a step that changes nothing.
LEMMA RingKeeps ==
  ASSUME Inv,
         \/ init_ring \/ ring_mmap \/ (\E t \in Targets, w \in Words : ring_ipc_send(t, w))
         \/ timer_isr \/ UNCHANGED vars
  PROVE  Inv'
<1>1. /\ UNCHANGED <<table, current, frame, last, to, cooldown, kpc, karg, network>>
      /\ iflag' = iflag \/ iflag' = TRUE
      /\ pulse' = pulse \/ pulse' = TRUE
      /\ ring' = ring \/ ring' = ring \cup {current}
  BY Zenon DEF init_ring, ring_mmap, ring_ipc_send, timer_isr, vars, choice, stack, control,
               table, network
<1>2. RestOK' /\ KpcOK' /\ kpc' = kpc /\ UNCHANGED <<table, current, frame, last, to>>
  BY <1>1, RunningFacts, Zenon DEF RestOK, KpcOK, network
<1>3. Similar(proc')
  <2>1. 0 \in Slots /\ current \in Slots /\ "READY" \in States \ {"FREE", "ZOMBIE"} /\ Similar(proc)
    BY BootSlots, SimilarFacts, RunningFacts, Zenon DEF States
  <2>2. CASE proc' = proc
    BY <2>1, <2>2, Zenon
  <2>3. ASSUME NEW t \in Targets, NEW w \in Words, ring_ipc_send(t, w)
        PROVE  Similar(proc')
    <3>1. t \in Alive \ {TASK0} /\ t \in Slots /\ w \in Nat
      BY <2>3, Zenon DEF ring_ipc_send, Alive, Inv, Dispatchable
    <3>2. proc' = [set_ipc_msg(proc, t, current, w) EXCEPT ![t].state = "READY"]
      BY <2>3, Zenon DEF ring_ipc_send
    <3>3. Similar([set_ipc_msg(proc, t, current, w) EXCEPT ![t].state = "READY"])
      BY <2>1, <3>1, SimilarFacts, Zenon
    <3> QED BY <3>2, <3>3, Zenon
  <2> QED BY <2>2, <2>3, Zenon DEF init_ring, ring_mmap, timer_isr, vars
<1> QED BY <1>2, <1>3, QuietKeeps, Zenon

\* The live slots are finitely many.
LEMMA AliveFinite == IsFiniteSet(Alive) /\ Cardinality(Alive) \in Nat
<1>1. IsFiniteSet(Slots)
  BY FS_Interval DEF Slots
<1>2. Alive \subseteq Slots
  BY Zenon DEF Alive
<1> QED BY <1>1, <1>2, FS_Subset, FS_CardinalityType, Zenon

\* p holds the same process in slot s, alive or not as it was.
SameLife(p, s) ==
  /\ p[s].pid = proc[s].pid
  /\ p[s].state = "FREE" <=> proc[s].state = "FREE"
  /\ p[s].state = "ZOMBIE" <=> proc[s].state = "ZOMBIE"

\* An exit takes one process from the count and from the live slots, and either
\* resumes another one or stays in the idle loop as a zombie.
LEMMA ExitKeeps ==
  ASSUME Inv, NEW code \in Words, process_exit(code)
  PROVE  Inv'
<1> DEFINE p0 == set_ipc_msg(proc, current, 0, code)
           p == [p0 EXCEPT ![current].state = "ZOMBIE"]
<1>1. /\ InUser /\ switch_to_next_ready(p) /\ count' = count - 1
      /\ ring' = ring \ {current}
      /\ UNCHANGED <<bitmap, nextPid, last, cooldown, pulse, karg, network>>
  BY Zenon DEF process_exit, choice
<1>2. /\ current \in Alive /\ current \in Slots
      /\ current \notin {TERMINAL, TX, TASK0} /\ last # TASK0
      /\ to = Nobody /\ KpcOK /\ \A s \in Slots : kpc[s] # "idle"
  BY <1>1, UserFacts, RunningFacts, Zenon DEF InUser
<1>3. 0 \in Slots /\ code \in Nat
  BY BootSlots, Zenon
<1>4. Similar(p0)
  BY <1>2, <1>3, SimilarFacts, Zenon
<1> HIDE DEF p0
<1>5. /\ p \in [Slots -> Entry] /\ p[current].state = "ZOMBIE"
      /\ p[current].pid = proc[current].pid
      /\ \A s \in Slots \ {current} : p[s] = p0[s]
  <2>1. p0 \in [Slots -> Entry] /\ p0[current].pid = proc[current].pid
    BY <1>2, <1>4, Zenon DEF Similar
  <2>2. /\ [p0[current] EXCEPT !.state = "ZOMBIE"] \in Entry
        /\ [p0[current] EXCEPT !.state = "ZOMBIE"].state = "ZOMBIE"
        /\ [p0[current] EXCEPT !.state = "ZOMBIE"].pid = p0[current].pid
    <3>1. p0[current] \in Entry
      BY <1>2, <2>1, Zenon
    <3> QED BY <3>1, Zenon DEF Entry, States
  <2>3. p = [p0 EXCEPT ![current] = [p0[current] EXCEPT !.state = "ZOMBIE"]]
    BY <1>2, <2>1, Zenon
  <2> QED BY <1>2, <2>1, <2>2, <2>3, Zenon
<1>51. ASSUME NEW s \in Slots \ {current} PROVE SameLife(p, s)
  <2>1. p[s] = p0[s] /\ s \in Slots
    BY <1>5, Zenon
  <2>2. /\ p0[s].pid = proc[s].pid
        /\ p0[s].state = "FREE" <=> proc[s].state = "FREE"
        /\ p0[s].state = "ZOMBIE" <=> proc[s].state = "ZOMBIE"
    BY <1>4, <2>1, Zenon DEF Similar
  <2> QED BY ONLY <2>1, <2>2, Zenon DEF SameLife
<1> HIDE DEF p
<1>6. \/ /\ proc' = p /\ iflag' = TRUE /\ UNCHANGED <<current, frame, to>>
         /\ kpc' = [kpc EXCEPT ![current] = "idle"]
      \/ \E next \in Dispatchable(p) \ {0, current} :
           /\ Resume(p, next, TRUE)
           /\ frame' = [frame EXCEPT ![next] = "live"] /\ UNCHANGED kpc
  BY <1>1, Zenon DEF switch_to_next_ready, FirstAfter
<1>7. /\ proc' \in [Slots -> Entry] /\ current' \in Slots
      /\ proc'[current].state = "ZOMBIE" /\ proc'[current].pid = proc[current].pid
      /\ \A s \in Slots \ {current} : SameLife(proc', s)
      /\ TASK0 \in Dispatchable(proc')
      /\ frame' \in [Slots -> {"none", "saved", "live"}]
      /\ \A s \in Slots \ {current, current'} : frame'[s] = frame[s]
      /\ \/ current' = current /\ kpc' = [kpc EXCEPT ![current] = "idle"]
         \/ current' \in Alive' \ {current} /\ kpc' = kpc
      /\ to' = Nobody /\ iflag' \in BOOLEAN
  <2>0. frame \in [Slots -> {"none", "saved", "live"}]
    BY RunningFacts, Zenon
  <2>1. CASE /\ proc' = p /\ iflag' = TRUE /\ UNCHANGED <<current, frame, to>>
             /\ kpc' = [kpc EXCEPT ![current] = "idle"]
    <3>1. proc' = p /\ current' = current /\ frame' = frame /\ to' = Nobody /\ iflag' \in BOOLEAN
      BY <1>2, <2>1, Zenon
    <3>2. TASK0 \in Dispatchable(proc')
      BY <1>2, <1>4, <1>5, <3>1, Zenon DEF Similar, Dispatchable
    <3> QED BY <1>2, <1>5, <1>51, <2>0, <2>1, <3>1, <3>2, Zenon
  <2>2. CASE \E next \in Dispatchable(p) \ {0, current} :
               /\ Resume(p, next, TRUE)
               /\ frame' = [frame EXCEPT ![next] = "live"] /\ UNCHANGED kpc
    <3>1. PICK next \in Dispatchable(p) \ {0, current} :
            /\ Resume(p, next, TRUE)
            /\ frame' = [frame EXCEPT ![next] = "live"] /\ UNCHANGED kpc
      BY <2>2, Zenon
    <3>2. next \in Slots /\ p[next].state \in {"READY", "RUNNING"} /\ next # current
      BY Zenon DEF Dispatchable
    <3>3. /\ proc' = [p EXCEPT ![next].state = "RUNNING"] /\ current' = next
          /\ to' = Nobody /\ iflag' \in BOOLEAN
      BY <3>1, Zenon DEF Resume, FlagOf
    <3>4. /\ proc' \in [Slots -> Entry] /\ proc'[next].state = "RUNNING"
          /\ proc'[next].pid = p[next].pid
          /\ \A s \in Slots \ {next} : proc'[s] = p[s]
      <4>1. /\ [p[next] EXCEPT !.state = "RUNNING"] \in Entry
            /\ [p[next] EXCEPT !.state = "RUNNING"].state = "RUNNING"
            /\ [p[next] EXCEPT !.state = "RUNNING"].pid = p[next].pid
        <5>1. p[next] \in Entry
          BY <1>5, <3>2, Zenon
        <5> QED BY <5>1, Zenon DEF Entry, States
      <4>2. proc' = [p EXCEPT ![next] = [p[next] EXCEPT !.state = "RUNNING"]]
        BY <1>5, <3>2, <3>3, Zenon
      <4> QED BY <1>5, <3>2, <4>1, <4>2, Zenon
    <3>5. ASSUME NEW s \in Slots \ {current} PROVE SameLife(proc', s)
      BY <1>51, <3>2, <3>4, Zenon DEF SameLife
    <3>6. TASK0 \in Dispatchable(proc') /\ current' \in Alive' \ {current}
      <4>1. p[TASK0].state \in {"READY", "RUNNING"} /\ TASK0 \in Slots
        BY <1>2, <1>4, <1>5, Zenon DEF Similar, Dispatchable
      <4>2. proc'[TASK0].state \in {"READY", "RUNNING"}
        BY <3>4, <4>1, Zenon
      <4>3. current' \in Alive'
        BY <3>2, <3>3, <3>4, Zenon DEF Alive
      <4> QED BY <3>2, <3>3, <4>1, <4>2, <4>3, Zenon DEF Dispatchable
    <3>7. frame' \in [Slots -> {"none", "saved", "live"}]
          /\ \A s \in Slots \ {next} : frame'[s] = frame[s]
      BY <2>0, <3>1, <3>2, Zenon
    <3>8. proc'[current].state = "ZOMBIE" /\ proc'[current].pid = proc[current].pid
      BY <1>2, <1>5, <3>2, <3>4, Zenon
    <3>9. kpc' = kpc /\ current' = next /\ to' = Nobody /\ iflag' \in BOOLEAN
      BY <3>1, <3>3, Zenon
    <3> QED BY ONLY <3>2, <3>4, <3>5, <3>6, <3>7, <3>8, <3>9, Zenon
  <2> QED BY <1>6, <2>1, <2>2, Zenon
<1>8. Alive' = Alive \ {current}
  BY <1>2, <1>7, Zenon DEF Alive, SameLife
<1>9. TableAgrees'
  <2>1. bitmap' = {s \in Slots : proc'[s].state # "FREE"}
    BY <1>1, <1>2, <1>7, Zenon DEF Inv, TableAgrees, Alive, SameLife
  <2>2. Cardinality(Alive \ {current}) = Cardinality(Alive) - 1
    BY <1>2, AliveFinite, FS_RemoveElement, Zenon
  <2> QED BY <1>1, <1>8, <2>1, <2>2, Zenon DEF Inv, TableAgrees
<1>10. UniquePids' /\ \A s \in bitmap' : proc'[s].pid < nextPid'
  <2>1. \A s \in Slots : proc'[s].pid = proc[s].pid
    BY <1>7, Zenon DEF SameLife
  <2> QED BY <1>1, <2>1 DEF Inv, TypeOK, UniquePids
<1>11. SpawnMayFail \/ Resumable'
  BY <1>7, <1>8, Zenon DEF Inv, Resumable, Alive
<1>12. KpcOK'
  <2>1. kpc \in [Slots -> KPC] /\ "idle" \in KPC
    BY <1>2, Zenon DEF KPC, KpcOK
  <2>2. kpc' = kpc \/ kpc' = [kpc EXCEPT ![current] = "idle"]
    BY <1>7, Zenon
  <2>3. kpc' \in [Slots -> KPC] /\ \A s \in Slots \ {current} : kpc'[s] = kpc[s]
    BY <1>2, <2>1, <2>2, Zenon
  <2> QED BY <1>2, <2>3, BootSlots, Zenon DEF KpcOK
<1>13. TypeOK'
  <2>1. /\ bitmap' \subseteq Slots /\ nextPid' \in Nat /\ count' \in Int
    BY <1>1 DEF Inv, TypeOK
  <2>2. RestOK'
    BY <1>1, <1>7, RunningFacts, Zenon DEF RestOK, network
  <2> QED BY <1>7, <1>12, <2>1, <2>2, Zenon DEF TypeOK, Entry, KPC, RestOK, KpcOK
<1>14. {TERMINAL, TX} \subseteq Alive' /\ (TASK0 \in Dispatchable(proc))'
  <2>1. {TERMINAL, TX} \subseteq Alive'
    BY <1>2, <1>8, Zenon DEF Inv
  <2> QED BY <1>7, <2>1, Zenon DEF Dispatchable
<1>15. /\ current' \in Alive' \/ kpc'[current'] = "idle"
       /\ \A s \in Slots : kpc'[s] = "idle" => s = current' /\ proc'[s].state = "ZOMBIE"
  <2>1. \A s \in Slots \ {current} : kpc'[s] # "idle"
    BY <1>2, <1>7, Zenon DEF KpcOK
  <2> QED BY <1>2, <1>7, <2>1, Zenon DEF KpcOK
<1> QED BY <1>1, <1>2, <1>7, <1>9, <1>10, <1>11, <1>12, <1>13, <1>14, <1>15, Zenon DEF Inv, KpcOK

\* A spawn takes a free slot, a fresh process id and one in the count; a spawn
\* that succeeds leaves a frame to resume.
LEMMA SpawnKeeps ==
  ASSUME Inv, NEW s \in Slots, NEW ok \in BOOLEAN, ok \/ SpawnMayFail,
         sys_spawn(s, ok) \/ ring_spawn(s, ok)
  PROVE  Inv'
<1>0. PICK parent \in Nat : spawn_process(s, ok, parent)
  <2>1. \A t \in Slots : proc[t].parent \in Nat /\ proc[t].pid \in Nat
    BY RunningFacts, Zenon DEF Entry
  <2> QED BY <2>1, RunningFacts, Zenon DEF sys_spawn, ring_spawn
<1>1. /\ s \in Slots \ bitmap
      /\ bitmap' = bitmap \cup {s} /\ nextPid' = nextPid + 1 /\ count' = count + 1
      /\ UNCHANGED <<current, last, cooldown, pulse, karg, to, ring, network>>
      /\ iflag' = iflag \/ iflag' = TRUE
  BY <1>0, Zenon DEF sys_spawn, ring_spawn, spawn_process, alloc_pid, choice
<1>2. /\ current \in Alive /\ current \in Slots /\ KpcOK
      /\ \A t \in Slots : kpc[t] # "idle"
  BY RunningFacts, Zenon DEF sys_spawn, ring_spawn, InUser, Draining
<1>3. /\ proc[s].state = "FREE" /\ s \notin Alive
      /\ s \notin {current, TERMINAL, TX, TASK0} /\ nextPid \in Nat
      /\ proc \in [Slots -> Entry] /\ proc[s] \in Entry
  BY <1>1, <1>2, Zenon DEF Inv, TypeOK, Entry, TableAgrees, Alive, Dispatchable
<1>4. PICK e \in Entry : /\ e.state = "READY" /\ e.pid = nextPid
                         /\ proc' = [proc EXCEPT ![s] = e]
  <2>1. CASE ok
    <3> DEFINE e == [proc[s] EXCEPT !.pid = nextPid, !.state = "READY",
                                    !.space = "user", !.parent = parent]
    <3>1. proc' = [proc EXCEPT ![s] = e]
      BY <1>0, <1>3, <2>1, Zenon DEF spawn_process
    <3>2. e \in Entry /\ e.state = "READY" /\ e.pid = nextPid
      BY <1>3, Zenon DEF Entry, States
    <3> QED BY <3>1, <3>2, Zenon
  <2>2. CASE ~ ok
    <3> DEFINE e == [proc[s] EXCEPT !.pid = nextPid, !.state = "READY"]
    <3>1. proc' = [proc EXCEPT ![s] = e]
      BY <1>0, <1>3, <2>2, Zenon DEF spawn_process
    <3>2. e \in Entry /\ e.state = "READY" /\ e.pid = nextPid
      BY <1>3, Zenon DEF Entry, States
    <3> QED BY <3>1, <3>2, Zenon
  <2> QED BY <2>1, <2>2, Zenon
<1>5. /\ proc' \in [Slots -> Entry] /\ proc'[s].state = "READY" /\ proc'[s].pid = nextPid
      /\ \A t \in Slots \ {s} : proc'[t] = proc[t]
  BY <1>3, <1>4, Zenon
<1>6. Alive' = Alive \cup {s}
  BY <1>3, <1>5, Zenon DEF Alive
<1>7. TableAgrees'
  <2>1. bitmap' = {t \in Slots : proc'[t].state # "FREE"}
    BY <1>1, <1>3, <1>5 DEF Inv, TableAgrees
  <2>2. Cardinality(Alive \cup {s}) = Cardinality(Alive) + 1
    BY <1>3, AliveFinite, FS_AddElement, Zenon
  <2> QED BY <1>1, <1>6, <2>1, <2>2, Zenon DEF Inv, TableAgrees
<1>8. UniquePids' /\ \A t \in bitmap' : proc'[t].pid < nextPid'
  <2>1. \A t \in bitmap : t \in Slots \ {s} /\ proc'[t].pid = proc[t].pid
                          /\ proc[t].pid \in Nat /\ proc[t].pid < nextPid
    BY <1>1, <1>3, <1>5 DEF Inv, TypeOK, Entry
  <2>2. UniquePids'
    BY <1>1, <1>3, <1>5, <2>1 DEF Inv, UniquePids
  <2> QED BY <1>1, <1>3, <1>5, <2>1, <2>2
<1>9. /\ frame' \in [Slots -> {"none", "saved", "live"}]
      /\ \A t \in Slots \ {s} : frame'[t] = frame[t]
      /\ ok => frame'[s] = "saved"
  <2>1. frame \in [Slots -> {"none", "saved", "live"}]
    BY RunningFacts, Zenon
  <2>2. frame' = IF ok THEN [frame EXCEPT ![s] = "saved"] ELSE frame
    BY <1>0, Zenon DEF spawn_process
  <2> QED BY <2>1, <2>2, Zenon
<1>10. SpawnMayFail \/ Resumable'
  BY <1>1, <1>6, <1>9, Zenon DEF Inv, Resumable, Alive
<1>11. KpcOK' /\ \A t \in Slots : kpc'[t] # "idle"
  <2>1. kpc' = [kpc EXCEPT ![s] = IF ok THEN "user" ELSE "lost"]
    BY <1>0, Zenon DEF spawn_process
  <2>2. /\ kpc' \in [Slots -> KPC] /\ kpc'[s] # "idle"
        /\ \A t \in Slots \ {s} : kpc'[t] = kpc[t]
    BY <1>2, <2>1, Zenon DEF KPC, KpcOK
  <2> QED BY <1>2, <1>3, <2>2, BootSlots, Zenon DEF KpcOK
<1>12. TypeOK'
  <2>1. /\ bitmap' \subseteq Slots /\ nextPid' \in Nat /\ count' \in Int
        /\ current' \in Slots /\ to' \in Slots \cup {Nobody}
    BY <1>1 DEF Inv, TypeOK
  <2>2. RestOK'
    BY <1>1, RunningFacts, Zenon DEF RestOK, network
  <2> QED BY <1>5, <1>9, <1>11, <2>1, <2>2, Zenon DEF TypeOK, Entry, KPC, RestOK, KpcOK
<1>13. /\ {TERMINAL, TX} \subseteq Alive' /\ (TASK0 \in Dispatchable(proc))'
       /\ current' \in Alive' /\ (to' # Nobody => current' \in Alive' /\ to' \in Alive')
       /\ last' = TASK0 => Landing' \in {TASK0, TERMINAL}
  <2>1. (TASK0 \in Dispatchable(proc))'
    BY <1>3, <1>5, BootSlots, Zenon DEF Inv, Dispatchable
  <2>2. {TERMINAL, TX} \subseteq Alive'
    BY <1>6, Zenon DEF Inv
  <2>3. current' \in Alive' /\ (to' # Nobody => current' \in Alive' /\ to' \in Alive')
    BY <1>1, <1>2, <1>6, RunningFacts, Zenon
  <2>4. last' = TASK0 => Landing' \in {TASK0, TERMINAL}
    BY <1>1, Zenon DEF Inv, Landing
  <2> QED BY <2>1, <2>2, <2>3, <2>4, Zenon
<1> QED BY <1>1, <1>7, <1>8, <1>10, <1>11, <1>12, <1>13, Zenon DEF Inv, KpcOK

\* A wait reaps a zombie, giving back its slot and its bit, or changes nothing
\* but the point at which the waiting process is.
LEMMA WaitKeeps ==
  ASSUME Inv, NEW c \in Slots, sys_wait(c)
  PROVE  Inv'
<1>1. /\ kpc[current] \in {"user", "wait"} /\ karg' = [karg EXCEPT ![current] = c]
      /\ UNCHANGED <<nextPid, count, current, last, cooldown, pulse, frame, to, ring, network>>
      /\ to = Nobody /\ iflag' \in BOOLEAN
  BY Zenon DEF sys_wait, InUser, InKernel, choice
<1>2. /\ current \in Alive /\ current \in Slots /\ last # TASK0
  BY <1>1, UserFacts, Zenon
<1>3. KpcOK' /\ \A s \in Slots : kpc'[s] # "idle"
  <2>1. \E pc \in KPC \ {"idle"} : kpc' = [kpc EXCEPT ![current] = pc]
    BY Zenon DEF sys_wait, KPC
  <2> QED BY <1>1, <2>1, UserFacts, Zenon
<1>4. proc \in [Slots -> Entry]
  BY RunningFacts, Zenon
<1>5. /\ proc' \in [Slots -> Entry] /\ Alive' = Alive
      /\ bitmap' = {t \in Slots : proc'[t].state # "FREE"}
      /\ bitmap' \subseteq bitmap /\ \A t \in Slots : proc'[t].pid = proc[t].pid
      /\ proc'[TASK0].state = proc[TASK0].state
  <2>1. CASE proc[c].state = "ZOMBIE"
    <3>1. proc' = [proc EXCEPT ![c].state = "FREE"] /\ bitmap' = bitmap \ {c}
      BY <2>1, Zenon DEF sys_wait, Reap
    <3>2. /\ [proc[c] EXCEPT !.state = "FREE"] \in Entry
          /\ [proc[c] EXCEPT !.state = "FREE"].state = "FREE"
          /\ [proc[c] EXCEPT !.state = "FREE"].pid = proc[c].pid
      <4>1. proc[c] \in Entry
        BY <1>4, Zenon
      <4> QED BY <4>1, Zenon DEF Entry, States
    <3>3. /\ proc' \in [Slots -> Entry] /\ proc'[c].state = "FREE"
          /\ proc'[c].pid = proc[c].pid
          /\ \A t \in Slots \ {c} : proc'[t] = proc[t]
      <4>1. proc' = [proc EXCEPT ![c] = [proc[c] EXCEPT !.state = "FREE"]]
        BY <1>4, <3>1, Zenon
      <4> QED BY <1>4, <3>2, <4>1, Zenon
    <3>4. c # TASK0 /\ TASK0 \in Slots
      BY <2>1, BootSlots, Zenon DEF Inv, Dispatchable
    <3>5. Alive' = Alive
      BY <2>1, <3>3, Zenon DEF Alive
    <3> QED BY <3>1, <3>3, <3>4, <3>5, Zenon DEF Inv, TableAgrees
  <2>2. CASE proc[c].state # "ZOMBIE"
    <3>1. proc' = proc /\ bitmap' = bitmap
      BY <2>2, Zenon DEF sys_wait
    <3> QED BY <1>4, <3>1, Zenon DEF Inv, TableAgrees, Alive
  <2> QED BY <2>1, <2>2, Zenon
<1>6. TableAgrees'
  BY <1>1, <1>5, Zenon DEF Inv, TableAgrees
<1>7. UniquePids' /\ \A t \in bitmap' : proc'[t].pid < nextPid'
  BY <1>1, <1>5 DEF Inv, TypeOK, UniquePids
<1>8. SpawnMayFail \/ Resumable'
  BY <1>1, <1>5, Zenon DEF Inv, Resumable
<1>9. TypeOK'
  <2>1. /\ bitmap' \subseteq Slots /\ nextPid' \in Nat /\ count' \in Int
        /\ current' \in Slots /\ frame' \in [Slots -> {"none", "saved", "live"}]
        /\ to' \in Slots \cup {Nobody}
    BY <1>1, <1>5, Zenon DEF Inv, TypeOK
  <2>2. karg' \in [Slots -> Nat]
    <3>1. karg \in [Slots -> Nat] /\ c \in Nat
      BY BootSlots, RunningFacts, Zenon DEF RestOK
    <3> QED BY <1>1, <3>1, Zenon
  <2>3. RestOK'
    BY <1>1, <2>2, RunningFacts, Zenon DEF RestOK, network
  <2> QED BY <1>3, <1>5, <2>1, <2>3, Zenon DEF TypeOK, Entry, KPC, RestOK, KpcOK
<1>10. /\ {TERMINAL, TX} \subseteq Alive' /\ (TASK0 \in Dispatchable(proc))'
       /\ current' \in Alive'
  BY <1>1, <1>2, <1>5, BootSlots, Zenon DEF Inv, Dispatchable
<1> QED BY <1>1, <1>2, <1>3, <1>6, <1>7, <1>8, <1>9, <1>10, Zenon DEF Inv, KpcOK

\* Every step preserves the invariant.
LEMMA NextInv == Inv /\ [Next]_vars => Inv'
<1> SUFFICES ASSUME Inv, [Next]_vars PROVE Inv' BY Zenon
<1>1. CASE Kernel
  BY <1>1, SchedulersKeep, SwitchKeeps, AcceptKeeps, Zenon DEF Kernel, AcceptStep
<1>2. CASE Program
  <2>1. CASE \/ \E t \in Targets, w \in Words : sys_ipc_send(t, w)
             \/ sys_ipc_recv
    BY <2>1, IpcKeeps, Zenon
  <2>2. CASE (\E l \in Listeners : sys_tcp_accept(l)) \/ sys_yield
    BY <2>2, AcceptKeeps, YieldKeeps, Zenon
  <2>3. CASE \E w \in Words : process_exit(w)
    BY <2>3, ExitKeeps, Zenon
  <2>4. CASE \E s \in Slots : sys_spawn(s, TRUE) \/ ring_spawn(s, TRUE)
    BY <2>4, SpawnKeeps, Zenon
  <2>5. CASE SpawnMayFail /\ \E s \in Slots : sys_spawn(s, FALSE) \/ ring_spawn(s, FALSE)
    BY <2>5, SpawnKeeps, Zenon
  <2>6. CASE \E c \in Slots : sys_wait(c)
    BY <2>6, WaitKeeps, Zenon
  <2>7. CASE init_ring \/ ring_mmap \/ \E t \in Targets, w \in Words : ring_ipc_send(t, w)
    BY <2>7, RingKeeps, Zenon
  <2> QED BY <1>2, <2>1, <2>2, <2>3, <2>4, <2>5, <2>6, <2>7, Zenon DEF Program, Ring
<1>3. CASE timer_isr \/ UNCHANGED vars
  BY <1>3, RingKeeps, Zenon
<1>4. CASE sys_yield_return \/ Network
  BY <1>4, YieldKeeps, NetworkKeeps, Zenon
<1> QED BY <1>1, <1>2, <1>3, <1>4, Zenon DEF Next

\* The invariant holds in every reachable state of the process scheduler.
THEOREM SchedulerInvariant == Spec => []Inv
BY InitInv, NextInv, PTL DEF Spec

\* PID_BITMAP, the states and PROC_COUNT always agree (alloc_pid, process_exit,
\* sys_wait), for any number of slots and any mix of calls.
THEOREM TableAlwaysAgrees == Spec => []TableAgrees
<1>1. Inv => TableAgrees
  BY Zenon DEF Inv
<1> QED BY <1>1, SchedulerInvariant, PTL

\* No two occupied slots ever share a process id.
THEOREM PidsAlwaysUnique == Spec => []UniquePids
<1>1. Inv => UniquePids
  BY Zenon DEF Inv
<1> QED BY <1>1, SchedulerInvariant, PTL

\* When no spawn fails half-way, every process that a switch can choose has a
\* saved frame.
THEOREM AlwaysResumable == ASSUME ~ SpawnMayFail PROVE Spec => []Resumable
<1>1. Inv => Resumable
  BY Zenon DEF Inv
<1> QED BY <1>1, SchedulerInvariant, PTL

\* schedule_next called for a live process other than Task 0 and the terminal
\* always finds somebody else to run.
THEOREM SchedulerNeverFallsThrough == Spec => []NeverFallsThrough
<1>1. Inv => NeverFallsThrough
  BY BootSlots, Zenon DEF Inv, NeverFallsThrough, Landing
<1> QED BY <1>1, SchedulerInvariant, PTL

---------------------------------------------------------------------------
Loop == {"accept", "block", "yield"}
Ready == {"READY", "RUNNING"}

\* s has found nothing on l and sleeps or is about to; s will test l again.
Sleeps(s, l) == InAccept(s, l) /\ (proc[s].state = "BLOCKED_ACCEPT" \/ kpc[s] = "block")
Wakes(s, l) == InAccept(s, l) /\ kpc[s] # "block" /\ proc[s].state \in Ready

\* A process is marked BLOCKED_ACCEPT only inside the accept loop, with the
\* listener it waits for in its message word, and goes on to leave the
\* processor; between its test and its call of schedule_next it has it.
Accepting ==
  /\ \A s \in Slots :
       /\ kpc[s] \in Loop => s \in Acceptors /\ s \in Alive
       /\ kpc[s] \in {"block", "yield"} => s = current /\ to = Nobody
       /\ proc[s].state = "BLOCKED_ACCEPT"
            => kpc[s] \in {"accept", "yield"} /\ proc[s].msg0 = karg[s]
       /\ proc[s].state = "BLOCKED_ACCEPT" /\ kpc[s] = "accept" /\ s = current
            => to # Nobody
  /\ to = current => kpc[current] = "user"

\* NoLostAccept, with the process that is about to block among the sleepers.
NoneLost ==
  \A l \in pending \ missed :
    (\E s \in Slots : Sleeps(s, l)) => \E s \in Slots : Wakes(s, l)

\* A step that puts nobody to sleep on a connection and stops nobody who is
\* awake for one loses none.
LEMMA StillAwake ==
  ASSUME NoneLost,
         \A l \in pending' \ missed' : \A s \in Slots :
           /\ Sleeps(s, l)' => l \in pending \ missed /\ Sleeps(s, l)
           /\ Wakes(s, l) => Wakes(s, l)'
  PROVE  NoneLost'
<1> SUFFICES ASSUME NEW l \in pending' \ missed', NEW s \in Slots, Sleeps(s, l)'
             PROVE  \E r \in Slots : Wakes(r, l)'
  BY Zenon DEF NoneLost
<1>1. l \in pending \ missed /\ Sleeps(s, l)
  BY Zenon
<1>2. PICK r \in Slots : Wakes(r, l)
  BY <1>1, Zenon DEF NoneLost
<1> QED BY <1>2, Zenon

\* A step that leaves everyone in the accept loop where they are, and wakes
\* some of them at most, keeps the loop as it should be.
LEMMA AcceptingStays ==
  ASSUME Accepting,
         \A s \in Slots : kpc'[s] \in Loop => kpc[s] \in Loop,
         \A s \in Slots : kpc[s] \in Loop =>
           /\ kpc'[s] = kpc[s] /\ karg'[s] = karg[s] /\ proc'[s].msg0 = proc[s].msg0
           /\ proc'[s].state = proc[s].state \/ proc'[s].state \in Ready,
         \A s \in Slots : proc'[s].state = "BLOCKED_ACCEPT" => kpc[s] \in Loop,
         \A s \in Slots : kpc'[s] \in {"block", "yield"} => s = current' /\ to' = Nobody,
         \A s \in Slots : proc'[s].state = "BLOCKED_ACCEPT" /\ kpc'[s] = "accept"
                          /\ s = current' => to' # Nobody,
         to' = current' => kpc'[current'] = "user"
  PROVE  /\ Accepting'
         /\ \A s \in Slots : \A l : /\ Sleeps(s, l)' => Sleeps(s, l)
                                    /\ Wakes(s, l) => Wakes(s, l)'
<1>1. \A s \in Slots : proc'[s].state = "BLOCKED_ACCEPT"
                         => proc[s].state = "BLOCKED_ACCEPT" /\ kpc[s] \in Loop
  BY Zenon DEF Ready
<1>2. \A s \in Slots : kpc'[s] \in Loop => s \in Acceptors /\ s \in Alive'
  <2> SUFFICES ASSUME NEW s \in Slots, kpc'[s] \in Loop PROVE s \in Acceptors /\ s \in Alive'
    BY Zenon
  <2>1. s \in Acceptors /\ s \in Alive
        /\ (proc'[s].state = proc[s].state \/ proc'[s].state \in Ready)
    BY Zenon DEF Accepting
  <2> QED BY <2>1, Zenon DEF Alive, Ready
<1>3. \A s \in Slots : proc'[s].state = "BLOCKED_ACCEPT"
                         => kpc'[s] \in {"accept", "yield"} /\ proc'[s].msg0 = karg'[s]
  BY <1>1, Zenon DEF Accepting
<1>4. Accepting'
  BY <1>2, <1>3, Zenon DEF Accepting
<1>5. ASSUME NEW s \in Slots, NEW l
      PROVE  (Sleeps(s, l)' => Sleeps(s, l)) /\ (Wakes(s, l) => Wakes(s, l)')
  <2>1. CASE kpc[s] \in Loop
    <3>1. /\ kpc'[s] = kpc[s] /\ karg'[s] = karg[s]
          /\ proc'[s].state = proc[s].state \/ proc'[s].state \in Ready
      BY <2>1, Zenon
    <3>2. Sleeps(s, l)' => Sleeps(s, l)
      BY <1>1, <3>1, Zenon DEF Sleeps, InAccept
    <3>3. Wakes(s, l) => Wakes(s, l)'
      BY <3>1, Zenon DEF Wakes, InAccept
    <3> QED BY <3>2, <3>3, Zenon
  <2>2. CASE kpc[s] \notin Loop
    <3>1. kpc'[s] \notin Loop
      BY <2>2, Zenon
    <3> QED BY <2>2, <3>1, Zenon DEF Sleeps, Wakes, InAccept, Loop
  <2> QED BY <2>1, <2>2, Zenon
<1> QED BY <1>4, <1>5, Zenon

\* If no connection arrives either, none is lost.
LEMMA OthersWait ==
  ASSUME Accepting, NoneLost, pending' \ missed' \subseteq pending \ missed,
         \A s \in Slots : kpc'[s] \in Loop => kpc[s] \in Loop,
         \A s \in Slots : kpc[s] \in Loop =>
           /\ kpc'[s] = kpc[s] /\ karg'[s] = karg[s] /\ proc'[s].msg0 = proc[s].msg0
           /\ proc'[s].state = proc[s].state \/ proc'[s].state \in Ready,
         \A s \in Slots : proc'[s].state = "BLOCKED_ACCEPT" => kpc[s] \in Loop,
         \A s \in Slots : kpc'[s] \in {"block", "yield"} => s = current' /\ to' = Nobody,
         \A s \in Slots : proc'[s].state = "BLOCKED_ACCEPT" /\ kpc'[s] = "accept"
                          /\ s = current' => to' # Nobody,
         to' = current' => kpc'[current'] = "user"
  PROVE  Accepting' /\ NoneLost'
<1>1. /\ Accepting'
      /\ \A s \in Slots : \A l : /\ Sleeps(s, l)' => Sleeps(s, l)
                                 /\ Wakes(s, l) => Wakes(s, l)'
  BY AcceptingStays, Zenon
<1>2. \A l \in pending' \ missed' : \A s \in Slots :
        /\ Sleeps(s, l)' => l \in pending \ missed /\ Sleeps(s, l)
        /\ Wakes(s, l) => Wakes(s, l)'
  BY <1>1, Zenon
<1> QED BY <1>1, <1>2, StillAwake, Zenon

\* The timer and the kernel threads choose whom to switch to, and change no
\* state of a process.
LEMMA SchedulersWait ==
  ASSUME Inv, Accepting, NoneLost,
         timer_preempt \/ kernel_event_loop \/ terminal_tx_poll_thread \/ kernel_trampoline
  PROVE  Accepting' /\ NoneLost'
<1>1. /\ to = Nobody /\ UNCHANGED <<karg, network>>
      /\ current \in {TASK0, TX, TERMINAL} \/ kpc[current] = "user"
      /\ \E q : schedule_next(proc, q)
      /\ \/ kpc' = kpc
         \/ kpc' = [kpc EXCEPT ![TASK0] = "loop"]
         \/ kpc' = [kpc EXCEPT ![TX] = "loop"]
         \/ kpc' = [kpc EXCEPT ![TERMINAL] = "halt"]
  BY Zenon DEF timer_preempt, InUser, kernel_event_loop, terminal_tx_poll_thread,
               kernel_trampoline, InKernel, control
<1>2. /\ KpcOK /\ current \in Slots /\ Similar(proc) /\ Nobody \notin Slots
      /\ kpc[current] \in {"user", "entry", "loop", "halt"}
  BY <1>1, RunningFacts, BootSlots, SimilarFacts, Zenon DEF KpcOK
<1>3. current \in Alive
  BY <1>2, RunningFacts, Zenon
<1>4. proc' = proc /\ current' = current /\ to' # current
  BY <1>1, <1>2, <1>3, ScheduleFacts, Zenon
<1>5. \A s \in Slots : \/ kpc'[s] = kpc[s]
                       \/ kpc'[s] \in {"loop", "halt"} /\ kpc[s] \in {"entry", "loop", "halt"}
  BY <1>1, <1>2, BootSlots, Zenon DEF KpcOK
<1>6. /\ pending' \ missed' \subseteq pending \ missed
      /\ \A s \in Slots : kpc'[s] \in Loop => kpc[s] \in Loop
      /\ \A s \in Slots : kpc[s] \in Loop =>
           /\ kpc'[s] = kpc[s] /\ karg'[s] = karg[s] /\ proc'[s].msg0 = proc[s].msg0
           /\ proc'[s].state = proc[s].state \/ proc'[s].state \in Ready
      /\ \A s \in Slots : proc'[s].state = "BLOCKED_ACCEPT" => kpc[s] \in Loop
  BY <1>1, <1>4, <1>5, Zenon DEF network, Loop, Accepting
<1>7. \A s \in Slots : kpc'[s] \notin {"block", "yield"}
  BY <1>2, <1>5, Zenon DEF Accepting
<1>8. kpc'[current'] # "accept" /\ to' # current'
  BY <1>2, <1>4, <1>5, Zenon
<1> QED BY <1>6, <1>7, <1>8, OthersWait, Zenon

\* So does changing stacks, apart from who is running.
LEMMA SwitchWaits ==
  ASSUME Inv, Accepting, NoneLost, proc_context_switch
  PROVE  Accepting' /\ NoneLost'
<1> DEFINE p1 == [proc EXCEPT ![current].state = IF @ = "RUNNING" THEN "READY" ELSE @]
<1>1. /\ proc \in [Slots -> Entry] /\ current \in Slots /\ to \in Slots
      /\ to # current /\ to # Nobody /\ Nobody \notin Slots
  BY RunningFacts, BootSlots, Zenon DEF proc_context_switch
<1>2. /\ proc' = [p1 EXCEPT ![to].state = "RUNNING"] /\ current' = to /\ to' = Nobody
      /\ UNCHANGED <<kpc, karg, network>>
  BY Zenon DEF proc_context_switch, Resume, control
<1>3. /\ p1 \in [Slots -> Entry] /\ p1[to] = proc[to]
      /\ \A s \in Slots : /\ p1[s].msg0 = proc[s].msg0
                          /\ p1[s].state = proc[s].state \/ p1[s].state = "READY"
  BY <1>1 DEF Entry, States
<1> HIDE DEF p1
<1>4. /\ proc'[to].state = "RUNNING"
      /\ \A s \in Slots : /\ proc'[s].msg0 = p1[s].msg0
                          /\ s # to => proc'[s].state = p1[s].state
  BY <1>1, <1>2, <1>3 DEF Entry
<1>5. \A s \in Slots : /\ proc'[s].msg0 = proc[s].msg0
                       /\ proc'[s].state = proc[s].state \/ proc'[s].state \in Ready
  BY <1>3, <1>4, Zenon DEF Ready
<1>6. \A s \in Slots : proc'[s].state = "BLOCKED_ACCEPT" => kpc[s] \in Loop
  BY <1>5, Zenon DEF Accepting, Ready, Loop
<1>7. \A s \in Slots : kpc'[s] \notin {"block", "yield"}
  BY <1>1, <1>2, Zenon DEF Accepting
<1>8. proc'[current'].state # "BLOCKED_ACCEPT" /\ to' # current'
  BY <1>1, <1>2, <1>4, Zenon
<1>9. pending' \ missed' \subseteq pending \ missed
  BY <1>2, Zenon DEF network
<1> QED BY <1>2, <1>5, <1>6, <1>7, <1>8, <1>9, OthersWait, Zenon

\* A step that touches the entry of one slot outside the accept loop, and takes
\* the processor from nobody inside it.
LEMMA OneSlotWaits ==
  ASSUME Accepting, NoneLost, NEW c \in Slots, kpc[c] \notin Loop,
         proc'[c].state # "BLOCKED_ACCEPT", \A s \in Slots \ {c} : proc'[s] = proc[s],
         \A s \in Slots : kpc[s] \in Loop => kpc'[s] = kpc[s] /\ karg'[s] = karg[s],
         \A s \in Slots : kpc'[s] \in Loop => kpc[s] \in Loop,
         UNCHANGED <<current, network>>, to' = to \/ kpc[current] = "user",
         to' = current => kpc'[current] = "user"
  PROVE  Accepting' /\ NoneLost'
<1>1. \A s \in Slots : kpc[s] \in Loop =>
           /\ kpc'[s] = kpc[s] /\ karg'[s] = karg[s] /\ proc'[s].msg0 = proc[s].msg0
           /\ proc'[s].state = proc[s].state \/ proc'[s].state \in Ready
  BY Zenon
<1>2. \A s \in Slots : proc'[s].state = "BLOCKED_ACCEPT"
                         => proc[s].state = "BLOCKED_ACCEPT" /\ kpc[s] \in Loop
  BY Zenon DEF Accepting, Loop
<1>3. \A s \in Slots : kpc'[s] \in {"block", "yield"} => s = current' /\ to' = Nobody
  BY Zenon DEF Accepting, Loop
<1>4. \A s \in Slots : proc'[s].state = "BLOCKED_ACCEPT" /\ kpc'[s] = "accept"
                       /\ s = current' => to' # Nobody
  BY <1>1, <1>2, Zenon DEF Accepting, Loop
<1>5. pending' \ missed' \subseteq pending \ missed
  BY Zenon DEF network
<1> QED BY <1>1, <1>2, <1>3, <1>4, <1>5, OthersWait, Zenon

\* set_ipc_msg writes the mailbox of one slot and nothing else.
LEMMA MessageSet ==
  ASSUME NEW p \in [Slots -> Entry], NEW c \in Slots, NEW f \in Slots, NEW w \in Nat
  PROVE  /\ set_ipc_msg(p, c, f, w) \in [Slots -> Entry]
         /\ set_ipc_msg(p, c, f, w)[c].state = p[c].state
         /\ set_ipc_msg(p, c, f, w)[c].msg0 = w
         /\ \A s \in Slots \ {c} : set_ipc_msg(p, c, f, w)[s] = p[s]
<1> DEFINE p1 == [p EXCEPT ![c].sender = f]
           m == [p1 EXCEPT ![c].msg0 = w]
<1>1. set_ipc_msg(p, c, f, w) = m
  BY Zenon DEF set_ipc_msg
<1>2. /\ p1 \in [Slots -> Entry] /\ p1[c].state = p[c].state
      /\ \A s \in Slots \ {c} : p1[s] = p[s]
  BY DEF Entry
<1>3. /\ m \in [Slots -> Entry] /\ m[c].state = p1[c].state /\ m[c].msg0 = w
      /\ \A s \in Slots \ {c} : m[s] = p1[s]
  <2> HIDE DEF p1
  <2> QED BY <1>2 DEF Entry
<1> HIDE DEF p1, m
<1> QED BY <1>1, <1>2, <1>3, Zenon

\* A state is written in one slot and nowhere else.
LEMMA StateSet ==
  ASSUME NEW p \in [Slots -> Entry], NEW c \in Slots, NEW st \in States
  PROVE  /\ [p EXCEPT ![c].state = st] \in [Slots -> Entry]
         /\ [p EXCEPT ![c].state = st][c].state = st
         /\ [p EXCEPT ![c].state = st][c].msg0 = p[c].msg0
         /\ \A s \in Slots \ {c} : [p EXCEPT ![c].state = st][s] = p[s]
BY DEF Entry

\* A message goes to a slot that is not in the accept loop, and a receive is
\* made outside it.
LEMMA IpcWaits ==
  ASSUME Inv, Accepting, NoneLost, Targets \cap Acceptors = {},
         \/ \E t \in Targets, w \in Words : sys_ipc_send(t, w) \/ ring_ipc_send(t, w)
         \/ sys_ipc_recv
  PROVE  Accepting' /\ NoneLost'
<1>1. /\ proc \in [Slots -> Entry] /\ current \in Slots /\ 0 \in Slots /\ 0 \in Nat
      /\ Nobody \notin Slots
  BY RunningFacts, BootSlots, Zenon
<1>2. UNCHANGED <<current, kpc, karg, network>>
  BY Zenon DEF sys_ipc_send, sys_ipc_recv, ring_ipc_send, Return, switch_to_process, stack,
               control
<1>3. CASE sys_ipc_recv
  <2>1. kpc[current] = "user" /\ to = Nobody /\ to' = to
    BY <1>3, Zenon DEF sys_ipc_recv, InUser, Return, stack
  <2>2. kpc[current] \notin Loop /\ proc[current].state # "BLOCKED_ACCEPT"
    BY <1>1, <2>1, Zenon DEF Accepting, Loop
  <2>3. \/ proc' = set_ipc_msg(proc, current, 0, 0)
        \/ proc' = [set_ipc_msg(proc, current, 0, 0) EXCEPT ![current].state = "IPC_BLOCKED"]
    BY <1>3, Zenon DEF sys_ipc_recv, Return
  <2>4. "IPC_BLOCKED" \in States
    BY Zenon DEF States
  <2>5. /\ proc'[current].state # "BLOCKED_ACCEPT"
        /\ \A s \in Slots \ {current} : proc'[s] = proc[s]
    <3> DEFINE m == set_ipc_msg(proc, current, 0, 0)
               m2 == [m EXCEPT ![current].state = "IPC_BLOCKED"]
    <3>1. /\ m \in [Slots -> Entry] /\ m[current].state = proc[current].state
          /\ \A s \in Slots \ {current} : m[s] = proc[s]
      BY <1>1, MessageSet
    <3>2. m2[current].state = "IPC_BLOCKED" /\ \A s \in Slots \ {current} : m2[s] = m[s]
      <4> HIDE DEF m
      <4> QED BY <1>1, <2>4, <3>1, StateSet
    <3>3. proc' = m \/ proc' = m2
      BY <2>3, Zenon
    <3> HIDE DEF m, m2
    <3> QED BY <2>2, <3>1, <3>2, <3>3, Zenon
  <2> QED BY <1>1, <1>2, <2>1, <2>2, <2>5, OneSlotWaits, Zenon
<1>4. ASSUME NEW t \in Targets, NEW w \in Words, sys_ipc_send(t, w) \/ ring_ipc_send(t, w)
      PROVE  Accepting' /\ NoneLost'
  <2>1. t \in Slots /\ w \in Nat /\ kpc[t] \notin Loop /\ proc[t].state # "BLOCKED_ACCEPT"
    BY Zenon DEF Accepting, Loop
  <2>2. \/ proc' = set_ipc_msg(proc, t, current, w)
        \/ proc' = [set_ipc_msg(proc, t, current, w) EXCEPT ![t].state = "READY"]
    BY <1>4, Zenon DEF sys_ipc_send, ring_ipc_send, Return, switch_to_process
  <2>3. "READY" \in States
    BY Zenon DEF States
  <2>4. /\ proc'[t].state # "BLOCKED_ACCEPT" /\ \A s \in Slots \ {t} : proc'[s] = proc[s]
    <3> DEFINE m == set_ipc_msg(proc, t, current, w)
               m2 == [m EXCEPT ![t].state = "READY"]
    <3>1. /\ m \in [Slots -> Entry] /\ m[t].state = proc[t].state
          /\ \A s \in Slots \ {t} : m[s] = proc[s]
      BY <1>1, <2>1, MessageSet
    <3>2. m2[t].state = "READY" /\ \A s \in Slots \ {t} : m2[s] = m[s]
      <4> HIDE DEF m
      <4> QED BY <2>1, <2>3, <3>1, StateSet
    <3>3. proc' = m \/ proc' = m2
      BY <2>2, Zenon
    <3> HIDE DEF m, m2
    <3> QED BY <2>1, <3>1, <3>2, <3>3, Zenon
  <2>5. /\ to' = to \/ kpc[current] = "user"
        /\ to' = current => kpc'[current] = "user"
    BY <1>1, <1>2, <1>4, Zenon DEF sys_ipc_send, ring_ipc_send, Return, switch_to_process, stack,
       InUser, Accepting
  <2> QED BY <1>2, <2>1, <2>4, <2>5, OneSlotWaits, Zenon
<1> QED BY <1>3, <1>4, Zenon

\* The calls and interrupts that change no entry of the table.
LEMMA QuietWaits ==
  ASSUME Inv, Accepting, NoneLost,
         \/ sys_yield \/ sys_yield_return \/ init_ring \/ ring_mmap \/ timer_isr
         \/ UNCHANGED vars
  PROVE  Accepting' /\ NoneLost'
<1>1. UNCHANGED <<proc, current, kpc, karg, network>>
  BY Zenon DEF sys_yield, sys_yield_return, init_ring, ring_mmap, timer_isr, vars, stack,
               control, network
<1>2. /\ TASK0 \in Slots /\ kpc[TASK0] \notin Loop /\ proc[TASK0].state # "BLOCKED_ACCEPT"
      /\ current \in Slots /\ Nobody \notin Slots
  BY RunningFacts, BootSlots, Zenon DEF Inv, Dispatchable, Loop
<1>3. /\ to' = to \/ kpc[current] = "user"
      /\ to' = current => kpc'[current] = "user"
  BY <1>1, <1>2, Zenon DEF sys_yield, sys_yield_return, init_ring, ring_mmap, timer_isr, vars,
     stack, InUser, Accepting
<1> QED BY <1>1, <1>2, <1>3, OneSlotWaits, Zenon

\* An exit is made outside the accept loop and resumes nobody it marks.
LEMMA ExitWaits ==
  ASSUME Inv, Accepting, NoneLost, NEW w \in Words, process_exit(w)
  PROVE  Accepting' /\ NoneLost'
<1>1. /\ proc \in [Slots -> Entry] /\ current \in Slots /\ 0 \in Slots /\ w \in Nat
      /\ "ZOMBIE" \in States /\ "RUNNING" \in States /\ KpcOK
  BY RunningFacts, BootSlots, Zenon DEF States
<1>2. kpc[current] = "user" /\ to = Nobody /\ UNCHANGED <<karg, network>>
  BY Zenon DEF process_exit, InUser
<1> DEFINE m == set_ipc_msg(proc, current, 0, w)
           p == [m EXCEPT ![current].state = "ZOMBIE"]
<1>3. m \in [Slots -> Entry] /\ \A s \in Slots \ {current} : m[s] = proc[s]
  BY <1>1, MessageSet
<1>4. switch_to_next_ready(p)
  BY Zenon DEF process_exit
<1>5. /\ p \in [Slots -> Entry] /\ p[current].state = "ZOMBIE"
      /\ \A s \in Slots \ {current} : p[s] = m[s]
  <2> HIDE DEF m
  <2> QED BY <1>1, <1>3, StateSet
<1> HIDE DEF m, p
<1>6. \/ proc' = p /\ current' = current /\ kpc' = [kpc EXCEPT ![current] = "idle"] /\ to' = to
      \/ \E next \in Dispatchable(p) \ {current} :
           /\ proc' = [p EXCEPT ![next].state = "RUNNING"]
           /\ current' = next /\ kpc' = kpc /\ to' = Nobody
  BY <1>4, Zenon DEF switch_to_next_ready, Resume, FirstAfter
<1>7. \A s \in Slots \ {current} : kpc'[s] = kpc[s]
  BY <1>1, <1>6, Zenon DEF KpcOK
<1>8. kpc'[current] \notin Loop /\ kpc[current] \notin Loop
  BY <1>1, <1>2, <1>6, Zenon DEF Loop, KpcOK
<1>9. /\ \A s \in Slots \ {current} :
           /\ proc'[s].msg0 = proc[s].msg0
           /\ proc'[s].state = proc[s].state \/ proc'[s].state \in Ready
      /\ proc'[current].state # "BLOCKED_ACCEPT" /\ proc'[current'].state # "BLOCKED_ACCEPT"
      /\ current' \in Slots /\ to' = Nobody
  <2>1. CASE proc' = p /\ current' = current /\ to' = to
    BY <1>1, <1>2, <1>3, <1>5, <2>1, Zenon
  <2>2. ASSUME NEW next \in Dispatchable(p) \ {current}, current' = next, to' = Nobody,
               proc' = [p EXCEPT ![next].state = "RUNNING"]
        PROVE  /\ \A s \in Slots \ {current} :
                    /\ proc'[s].msg0 = proc[s].msg0
                    /\ proc'[s].state = proc[s].state \/ proc'[s].state \in Ready
               /\ proc'[current].state # "BLOCKED_ACCEPT"
               /\ proc'[current'].state # "BLOCKED_ACCEPT"
               /\ current' \in Slots /\ to' = Nobody
    <3>1. next \in Slots /\ next # current
      BY Zenon DEF Dispatchable
    <3>2. /\ proc'[next].state = "RUNNING" /\ proc'[next].msg0 = p[next].msg0
          /\ \A s \in Slots \ {next} : proc'[s] = p[s]
      BY <1>1, <1>5, <2>2, <3>1, StateSet
    <3>3. ASSUME NEW s \in Slots \ {current}
          PROVE  /\ proc'[s].msg0 = proc[s].msg0
                 /\ proc'[s].state = proc[s].state \/ proc'[s].state \in Ready
      <4>1. p[s] = proc[s]
        BY <1>3, <1>5, Zenon
      <4> QED BY <3>2, <4>1, Zenon DEF Ready
    <3>4. proc'[current].state = "ZOMBIE"
      BY <1>1, <1>5, <3>1, <3>2, Zenon
    <3> QED BY <2>2, <3>1, <3>2, <3>3, <3>4, Zenon
  <2> QED BY <1>6, <2>1, <2>2, Zenon
<1>10. \A s \in Slots : kpc[s] \in Loop => s # current
  BY <1>8, Zenon
<1>11. \A s \in Slots : proc'[s].state = "BLOCKED_ACCEPT" => kpc[s] \in Loop
  BY <1>9, Zenon DEF Accepting, Loop, Ready
<1>12. \A s \in Slots : kpc'[s] \notin {"block", "yield"}
  BY <1>2, <1>7, <1>8, Zenon DEF Accepting, Loop
<1>13. /\ \A s \in Slots : kpc'[s] \in Loop => kpc[s] \in Loop
       /\ pending' \ missed' \subseteq pending \ missed /\ to' # current'
       /\ \A s \in Slots : kpc[s] \in Loop =>
            /\ kpc'[s] = kpc[s] /\ karg'[s] = karg[s] /\ proc'[s].msg0 = proc[s].msg0
            /\ proc'[s].state = proc[s].state \/ proc'[s].state \in Ready
  BY <1>2, <1>7, <1>8, <1>9, <1>10, BootSlots, Zenon DEF network
<1> QED BY <1>9, <1>11, <1>12, <1>13, OthersWait, Zenon

\* A spawn takes a free slot and sys_wait frees a zombie's: neither is in the
\* accept loop.
LEMMA LifeWaits ==
  ASSUME Inv, Accepting, NoneLost,
         \/ \E s \in Slots, ok \in BOOLEAN : sys_spawn(s, ok) \/ ring_spawn(s, ok)
         \/ \E c \in Slots : sys_wait(c)
  PROVE  Accepting' /\ NoneLost'
<1>1. /\ proc \in [Slots -> Entry] /\ current \in Slots /\ Nobody \notin Slots /\ KpcOK
      /\ karg \in [Slots -> Nat]
  BY RunningFacts, BootSlots, Zenon DEF RestOK
<1>2. UNCHANGED <<current, to, network>>
  BY Zenon DEF sys_spawn, ring_spawn, sys_wait
<1>3. ASSUME NEW s \in Slots, NEW ok \in BOOLEAN, sys_spawn(s, ok) \/ ring_spawn(s, ok)
      PROVE  Accepting' /\ NoneLost'
  <2>1. PICK parent : spawn_process(s, ok, parent)
    BY <1>3, Zenon DEF sys_spawn, ring_spawn
  <2>2. /\ s \in Slots \ bitmap /\ karg' = karg
        /\ kpc' = [kpc EXCEPT ![s] = IF ok THEN "user" ELSE "lost"]
    BY <1>3, <2>1, Zenon DEF sys_spawn, ring_spawn, spawn_process, alloc_pid
  <2>3. proc[s].state = "FREE" /\ kpc[s] \notin Loop /\ current \in Alive /\ s # current
    BY <1>1, <1>3, <2>2, RunningFacts, Zenon
       DEF Inv, TableAgrees, Accepting, Alive, sys_spawn, ring_spawn, InUser, Draining
  <2> DEFINE p1 == [proc EXCEPT ![s].pid = nextPid]
             p2 == [p1 EXCEPT ![s].state = "READY"]
             p3 == [p2 EXCEPT ![s].space = "user"]
             p4 == [p3 EXCEPT ![s].parent = parent]
  <2>4. proc' = p4 \/ proc' = p2
    BY <2>1, Zenon DEF spawn_process
  <2>5. p1 \in [Slots -> Entry] /\ \A r \in Slots \ {s} : p1[r] = proc[r]
    <3>1. nextPid \in Nat
      BY Zenon DEF Inv, TypeOK
    <3> QED BY <1>1, <3>1 DEF Entry
  <2>6. p2 \in [Slots -> Entry] /\ p2[s].state = "READY" /\ \A r \in Slots \ {s} : p2[r] = p1[r]
    <3> HIDE DEF p1
    <3> QED BY <2>5 DEF Entry, States
  <2>7. p3 \in [Slots -> Entry] /\ p3[s].state = p2[s].state /\ \A r \in Slots \ {s} : p3[r] = p2[r]
    <3> HIDE DEF p2
    <3> QED BY <2>6 DEF Entry
  <2>8. p4[s].state = p3[s].state /\ \A r \in Slots \ {s} : p4[r] = p3[r]
    <3> HIDE DEF p3
    <3> QED BY <2>7 DEF Entry
  <2> HIDE DEF p1, p2, p3, p4
  <2>9. proc'[s].state # "BLOCKED_ACCEPT" /\ \A r \in Slots \ {s} : proc'[r] = proc[r]
    BY <2>4, <2>5, <2>6, <2>7, <2>8, Zenon
  <2>10. /\ kpc'[s] \notin Loop /\ \A r \in Slots \ {s} : kpc'[r] = kpc[r]
    BY <1>1, <2>2, Zenon DEF KpcOK, Loop
  <2>11. to' = current => kpc'[current] = "user"
    BY <1>1, <1>2, <2>3, <2>10, Zenon DEF Accepting
  <2> QED BY <1>2, <2>2, <2>3, <2>9, <2>10, <2>11, OneSlotWaits, Zenon
<1>4. ASSUME NEW c \in Slots, sys_wait(c)
      PROVE  Accepting' /\ NoneLost'
  <2>1. /\ kpc[current] \in {"user", "wait"} /\ to = Nobody
        /\ karg' = [karg EXCEPT ![current] = c]
        /\ \E pc \in {"user", "wait"} : kpc' = [kpc EXCEPT ![current] = pc]
        /\ \/ proc' = proc
           \/ proc[c].state = "ZOMBIE" /\ proc' = [proc EXCEPT ![c].state = "FREE"]
    BY <1>4, Zenon DEF sys_wait, Reap, InUser, InKernel
  <2>2. /\ kpc'[current] \notin Loop /\ kpc[current] \notin Loop
        /\ \A s \in Slots \ {current} : kpc'[s] = kpc[s] /\ karg'[s] = karg[s]
    BY <1>1, <2>1, Zenon DEF KpcOK, Loop
  <2>3. to' # current
    BY <1>1, <1>2, <2>1, Zenon
  <2>4. CASE proc' = proc
    <3>1. proc[current].state # "BLOCKED_ACCEPT"
      BY <1>1, <2>1, Zenon DEF Accepting
    <3> QED BY <1>1, <1>2, <2>2, <2>3, <2>4, <3>1, OneSlotWaits, Zenon
  <2>5. CASE proc[c].state = "ZOMBIE" /\ proc' = [proc EXCEPT ![c].state = "FREE"]
    <3>1. proc'[c].state = "FREE" /\ \A s \in Slots \ {c} : proc'[s] = proc[s]
      BY <1>1, <2>5 DEF Entry
    <3>2. kpc[c] \notin Loop
      BY <2>5, Zenon DEF Accepting, Alive
    <3> QED BY <1>2, <2>2, <2>3, <3>1, <3>2, OneSlotWaits, Zenon
  <2> QED BY <2>1, <2>4, <2>5, Zenon
<1> QED BY <1>3, <1>4, Zenon

\* The accept loop: a process that finds a connection takes it; one that finds
\* none goes to sleep with its listener written down, and does not fall through
\* schedule_next.
LEMMA AcceptWaits ==
  ASSUME Inv, Accepting, NoneLost,
         \/ \E l \in Listeners : sys_tcp_accept(l)
         \/ tcp_accept \/ accept_block \/ accept_yield
  PROVE  Accepting' /\ NoneLost'
<1>1. /\ proc \in [Slots -> Entry] /\ current \in Slots /\ 0 \in Slots /\ Nobody \notin Slots
      /\ karg \in [Slots -> Nat] /\ kpc \in [Slots -> KPC] /\ karg[current] \in Nat
  BY RunningFacts, BootSlots, Zenon DEF RestOK, KpcOK
<1>2. /\ to = Nobody /\ UNCHANGED current
      /\ kpc[current] \in {"user", "accept", "block", "yield"}
  <2>1. CASE accept_yield
    <3>1. to = Nobody /\ kpc[current] = "yield" /\ schedule_next(proc, pulse) /\ Similar(proc)
      BY <1>1, <2>1, SimilarFacts, Zenon DEF accept_yield, InKernel
    <3>2. current \in Alive
      BY <3>1, RunningFacts, Zenon
    <3> QED BY <3>1, <3>2, ScheduleFacts, Zenon
  <2> QED BY <2>1, Zenon DEF sys_tcp_accept, tcp_accept, accept_block, InUser, InKernel, stack
<1>3. \A s \in Slots \ {current} : kpc[s] \notin {"block", "yield"}
  BY Zenon DEF Accepting
<1>4. current \in Alive /\ current \notin {TERMINAL, TX, TASK0} /\ last # TASK0
  BY <1>2, UserFacts, Zenon
<1>5. CASE \E l \in Listeners : sys_tcp_accept(l)
  <2>1. PICK l \in Listeners : sys_tcp_accept(l)
    BY <1>5, Zenon
  <2>2. /\ kpc' = [kpc EXCEPT ![current] = "accept"] /\ karg' = [karg EXCEPT ![current] = l]
        /\ current \in Acceptors /\ kpc[current] = "user" /\ UNCHANGED <<proc, to, network>>
    BY <2>1, Zenon DEF sys_tcp_accept, InUser, stack
  <2>3. /\ kpc'[current] = "accept"
        /\ \A s \in Slots \ {current} : kpc'[s] = kpc[s] /\ karg'[s] = karg[s]
    BY <1>1, <2>2, Zenon
  <2>4. proc[current].state # "BLOCKED_ACCEPT"
    BY <1>1, <2>2, Zenon DEF Accepting
  <2>5. Alive' = Alive
    BY <2>2, Zenon DEF Alive
  <2>6. Accepting'
    BY <1>1, <1>2, <1>3, <1>4, <2>2, <2>3, <2>4, <2>5, Zenon DEF Accepting
  <2>7. ASSUME NEW m \in pending' \ missed', NEW s \in Slots
        PROVE  /\ Sleeps(s, m)' => m \in pending \ missed /\ Sleeps(s, m)
               /\ Wakes(s, m) => Wakes(s, m)'
    <3>1. m \in pending \ missed
      BY <2>2, Zenon DEF network
    <3>2. CASE s = current
      BY <2>2, <2>3, <2>4, <3>2, Zenon DEF Sleeps, Wakes, InAccept
    <3>3. CASE s # current
      BY <2>2, <2>3, <3>1, <3>3, Zenon DEF Sleeps, Wakes, InAccept
    <3> QED BY <3>2, <3>3, Zenon
  <2> QED BY <2>6, <2>7, StillAwake, Zenon
<1>6. CASE tcp_accept
  <2> DEFINE l == karg[current]
  <2>1. /\ kpc[current] = "accept" /\ UNCHANGED <<proc, to, karg>>
        /\ \/ /\ l \in pending /\ pending' = pending \ {l} /\ missed' = missed \ {l}
              /\ kpc' = [kpc EXCEPT ![current] = "user"]
           \/ /\ l \notin pending /\ UNCHANGED <<pending, missed>>
              /\ kpc' = [kpc EXCEPT ![current] = "block"]
    BY <1>6, Zenon DEF tcp_accept, InKernel, network
  <2>2. /\ kpc'[current] \in {"user", "block"}
        /\ \A s \in Slots \ {current} : kpc'[s] = kpc[s]
    BY <1>1, <2>1, Zenon
  <2>3. proc[current].state # "BLOCKED_ACCEPT" /\ current \in Acceptors
    BY <1>1, <1>2, <2>1, Zenon DEF Accepting, Loop
  <2>4. Alive' = Alive
    BY <2>1, Zenon DEF Alive
  <2>5. Accepting'
    BY <1>1, <1>2, <1>3, <1>4, <2>1, <2>2, <2>3, <2>4, Zenon DEF Accepting
  <2>6. ASSUME NEW m \in pending' \ missed', NEW s \in Slots
        PROVE  /\ Sleeps(s, m)' => m \in pending \ missed /\ Sleeps(s, m)
               /\ Wakes(s, m) => Wakes(s, m)'
    <3>1. m \in pending \ missed /\ m # l
      BY <2>1, Zenon
    <3>2. CASE s = current
      <4>1. karg[s] # m /\ karg'[s] # m
        BY <2>1, <3>1, <3>2, Zenon
      <4> QED BY <4>1, Zenon DEF Sleeps, Wakes, InAccept
    <3>3. CASE s # current
      BY <2>1, <2>2, <3>1, <3>3, Zenon DEF Sleeps, Wakes, InAccept
    <3> QED BY <3>2, <3>3, Zenon
  <2> QED BY <2>5, <2>6, StillAwake, Zenon
<1>7. CASE accept_block
  <2> DEFINE k == karg[current]
             m0 == set_ipc_msg(proc, current, 0, k)
             p == [m0 EXCEPT ![current].state = "BLOCKED_ACCEPT"]
  <2>1. /\ kpc[current] = "block" /\ kpc' = [kpc EXCEPT ![current] = "yield"]
        /\ UNCHANGED <<to, karg, pending, missed>> /\ proc' = p
    BY <1>7, Zenon DEF accept_block, InKernel, stack, network
  <2>2. m0 \in [Slots -> Entry] /\ m0[current].msg0 = k
        /\ \A s \in Slots \ {current} : m0[s] = proc[s]
    <3>1. k \in Nat
      BY <1>1, Zenon
    <3> HIDE DEF k
    <3> QED BY <1>1, <3>1, MessageSet
  <2>3. /\ p[current].state = "BLOCKED_ACCEPT" /\ p[current].msg0 = m0[current].msg0
        /\ \A s \in Slots \ {current} : p[s] = m0[s]
    <3> HIDE DEF m0
    <3>1. "BLOCKED_ACCEPT" \in States
      BY Zenon DEF States
    <3> QED BY <1>1, <2>2, <3>1, StateSet
  <2> HIDE DEF m0, p
  <2>4. /\ proc'[current].state = "BLOCKED_ACCEPT" /\ proc'[current].msg0 = karg[current]
        /\ \A s \in Slots \ {current} : proc'[s] = proc[s]
    BY <2>1, <2>2, <2>3, Zenon
  <2>5. kpc'[current] = "yield" /\ \A s \in Slots \ {current} : kpc'[s] = kpc[s]
    BY <1>1, <2>1, Zenon
  <2>6. Alive' = Alive /\ current \in Acceptors
    BY <1>1, <1>4, <2>1, <2>4, Zenon DEF Alive, Accepting, Loop
  <2>7. Accepting'
    <3>1. ASSUME NEW s \in Slots \ {current}
          PROVE  /\ kpc'[s] \in Loop => s \in Acceptors /\ s \in Alive'
                 /\ kpc'[s] \notin {"block", "yield"}
                 /\ proc'[s].state = "BLOCKED_ACCEPT"
                      => kpc'[s] \in {"accept", "yield"} /\ proc'[s].msg0 = karg'[s]
      <4>1. kpc'[s] = kpc[s] /\ proc'[s] = proc[s] /\ karg'[s] = karg[s] /\ s \in Slots
        BY <2>1, <2>4, <2>5, Zenon
      <4> QED BY <1>3, <2>6, <4>1, Zenon DEF Accepting
    <3> QED BY <1>1, <1>2, <1>4, <2>1, <2>4, <2>5, <2>6, <3>1, Zenon DEF Accepting
  <2>8. ASSUME NEW l \in pending' \ missed', NEW s \in Slots
        PROVE  /\ Sleeps(s, l)' => l \in pending \ missed /\ Sleeps(s, l)
               /\ Wakes(s, l) => Wakes(s, l)'
    <3>1. CASE s = current
      BY <2>1, <3>1, Zenon DEF Sleeps, Wakes, InAccept
    <3>2. CASE s # current
      BY <2>1, <2>4, <2>5, <3>2, Zenon DEF Sleeps, Wakes, InAccept
    <3> QED BY <3>1, <3>2, Zenon
  <2> QED BY <2>7, <2>8, StillAwake, Zenon
<1>8. CASE accept_yield
  <2>1. /\ kpc[current] = "yield" /\ kpc' = [kpc EXCEPT ![current] = "accept"]
        /\ UNCHANGED <<karg, pending, missed>> /\ schedule_next(proc, pulse) /\ Similar(proc)
    BY <1>1, <1>8, SimilarFacts, Zenon DEF accept_yield, InKernel, network
  <2>2. TASK0 \in Dispatchable(proc) \ {current, last}
    BY <1>4, Zenon DEF Inv
  <2>3. proc' = proc /\ to' # Nobody /\ to' # current
    BY <1>2, <1>4, <2>1, <2>2, ScheduleFacts, Zenon
  <2>4. kpc'[current] = "accept" /\ \A s \in Slots \ {current} : kpc'[s] = kpc[s]
    BY <1>1, <2>1, Zenon
  <2>5. Alive' = Alive /\ current \in Acceptors
    BY <1>1, <2>1, <2>3, Zenon DEF Alive, Accepting, Loop
  <2>6. Accepting'
    BY <1>1, <1>2, <1>3, <1>4, <2>1, <2>3, <2>4, <2>5, Zenon DEF Accepting
  <2>7. ASSUME NEW l \in pending' \ missed', NEW s \in Slots
        PROVE  /\ Sleeps(s, l)' => l \in pending \ missed /\ Sleeps(s, l)
               /\ Wakes(s, l) => Wakes(s, l)'
    <3>1. CASE s = current
      BY <2>1, <2>3, <2>4, <3>1, Zenon DEF Sleeps, Wakes, InAccept
    <3>2. CASE s # current
      BY <2>1, <2>3, <2>4, <3>2, Zenon DEF Sleeps, Wakes, InAccept
    <3> QED BY <3>1, <3>2, Zenon
  <2> QED BY <2>6, <2>7, StillAwake, Zenon
<1> QED BY <1>5, <1>6, <1>7, <1>8, Zenon

\* A connection request wakes a process that sleeps on its listener, if there
\* is one; the only one it can miss is about to block.
LEMMA SynWakes ==
  ASSUME Inv, Accepting, NoneLost, NEW l \in Listeners, handle_server_syn(l),
         UNCHANGED <<current, to, kpc, karg>>, NEW p \in sched_wake_accept(l),
         \A s \in Slots \ {TX} : proc'[s] = p[s], proc'[TX].state # "BLOCKED_ACCEPT"
  PROVE  Accepting' /\ NoneLost'
<1>1. /\ proc \in [Slots -> Entry] /\ current \in Slots /\ TX \in Slots
      /\ kpc[TX] \notin Loop
  BY RunningFacts, BootSlots, Zenon DEF Inv, Loop
<1>2. \/ Asleep(l) = {} /\ p = proc
      \/ \E w \in Asleep(l) : p = [proc EXCEPT ![w].state = "READY"]
  BY Zenon DEF sched_wake_accept
<1>3. ASSUME NEW w \in Asleep(l), p = [proc EXCEPT ![w].state = "READY"]
      PROVE  /\ w \in Slots /\ p[w].state = "READY" /\ p[w].msg0 = proc[w].msg0
             /\ \A s \in Slots \ {w} : p[s] = proc[s]
  <2>1. w \in Slots /\ "READY" \in States
    BY Zenon DEF Asleep, States
  <2> QED BY <1>1, <1>3, <2>1, StateSet
<1>4. \A s \in Slots : /\ p[s].msg0 = proc[s].msg0
                       /\ p[s].state = proc[s].state \/ p[s].state \in Ready
  BY <1>2, <1>3, Zenon DEF Ready
<1>5. /\ \A s \in Slots : kpc'[s] \in Loop => kpc[s] \in Loop
      /\ \A s \in Slots : kpc[s] \in Loop =>
           /\ kpc'[s] = kpc[s] /\ karg'[s] = karg[s] /\ proc'[s].msg0 = proc[s].msg0
           /\ proc'[s].state = proc[s].state \/ proc'[s].state \in Ready
  BY <1>1, <1>4, Zenon
<1>6. \A s \in Slots : proc'[s].state = "BLOCKED_ACCEPT"
                         => kpc[s] \in Loop /\ proc[s].state = "BLOCKED_ACCEPT"
  BY <1>1, <1>4, Zenon DEF Accepting, Loop, Ready
<1>7. /\ \A s \in Slots : kpc'[s] \in {"block", "yield"} => s = current' /\ to' = Nobody
      /\ \A s \in Slots : proc'[s].state = "BLOCKED_ACCEPT" /\ kpc'[s] = "accept"
                          /\ s = current' => to' # Nobody
      /\ to' = current' => kpc'[current'] = "user"
  BY <1>6, Zenon DEF Accepting
<1>8. /\ Accepting'
      /\ \A s \in Slots : \A m : /\ Sleeps(s, m)' => Sleeps(s, m)
                                 /\ Wakes(s, m) => Wakes(s, m)'
  BY <1>5, <1>6, <1>7, AcceptingStays, Zenon
<1>9. ASSUME NEW m \in pending' \ missed', NEW s \in Slots, Sleeps(s, m)'
      PROVE  \E r \in Slots : Wakes(r, m)'
  <2>1. Sleeps(s, m)
    BY <1>8, <1>9, Zenon
  <2>2. CASE m # l
    <3>1. m \in pending \ missed
      BY <2>2, Zenon DEF handle_server_syn
    <3>2. PICK r \in Slots : Wakes(r, m)
      BY <2>1, <3>1, Zenon DEF NoneLost
    <3> QED BY <1>8, <3>2, Zenon
  <2>3. CASE m = l /\ Asleep(l) = {}
    <3>1. proc[s].state # "BLOCKED_ACCEPT"
      BY <2>1, <2>3, Zenon DEF Sleeps, InAccept, Accepting, Asleep
    <3>2. kpc[s] = "block" /\ karg[s] = l
      BY <2>1, <2>3, <3>1, Zenon DEF Sleeps, InAccept
    <3>3. InKernel("block") /\ karg[current] = l
      BY <3>2, Zenon DEF Accepting, InKernel
    <3>4. l \in missed'
      BY <2>3, <3>3, Zenon DEF handle_server_syn
    <3> QED BY <2>3, <3>4, Zenon
  <2>4. CASE m = l /\ Asleep(l) # {}
    <3>1. PICK w \in Asleep(l) : p = [proc EXCEPT ![w].state = "READY"]
      BY <1>2, <2>4, Zenon
    <3>2. w \in Slots /\ p[w].state = "READY"
      BY <1>3, <3>1, Zenon
    <3>3. kpc[w] \in {"accept", "yield"} /\ karg[w] = l /\ w # TX
      BY <1>1, <3>1, <3>2, Zenon DEF Asleep, Accepting, Loop
    <3>4. proc'[w].state \in Ready
      BY <3>2, <3>3, Zenon DEF Ready
    <3> QED BY <2>4, <3>2, <3>3, <3>4, Zenon DEF Wakes, InAccept
  <2> QED BY <2>2, <2>3, <2>4, Zenon
<1> QED BY <1>8, <1>9, Zenon DEF NoneLost

\* The network's interrupt and the poll of sys_yield.
LEMMA NetworkWaits ==
  ASSUME Inv, Accepting, NoneLost, Network
  PROVE  Accepting' /\ NoneLost'
<1>1. /\ proc \in [Slots -> Entry] /\ TX \in Slots /\ current \in Slots /\ Nobody \notin Slots
      /\ kpc[TX] \notin Loop /\ "READY" \in States
  BY RunningFacts, BootSlots, Zenon DEF Inv, Loop, States
<1>2. UNCHANGED <<current, to, kpc, karg>>
  BY Zenon DEF Network, virtio_net_isr, netcore_poll_all, stack, control
<1>3. ASSUME NEW p, Similar(p), proc' = [p EXCEPT ![TX].state = "READY"]
      PROVE  proc'[TX].state = "READY" /\ \A s \in Slots \ {TX} : proc'[s] = p[s]
  <2>1. p \in [Slots -> Entry]
    BY <1>3, Zenon DEF Similar
  <2> QED BY <1>1, <1>3, <2>1, StateSet
<1>4. CASE \E l \in Listeners : virtio_net_isr(l)
  <2>1. PICK l \in Listeners : virtio_net_isr(l)
    BY <1>4, Zenon
  <2>2. l # Nobody
    BY DEF Nobody
  <2>3. PICK p \in sched_wake_accept(l) : proc' = [p EXCEPT ![TX].state = "READY"]
    BY <2>1, <2>2, Zenon DEF virtio_net_isr
  <2>4. handle_server_syn(l)
    BY <2>1, <2>2, Zenon DEF virtio_net_isr
  <2>5. Similar(p)
    BY WokenSimilar, Zenon
  <2> QED BY <1>2, <1>3, <2>3, <2>4, <2>5, SynWakes, Zenon
<1>5. CASE virtio_net_isr(Nobody)
  <2>1. Nobody \notin Listeners
    BY DEF Nobody
  <2>2. UNCHANGED network /\ proc' = [proc EXCEPT ![TX].state = "READY"]
    BY <1>5, <2>1, Zenon DEF virtio_net_isr
  <2>3. Similar(proc)
    BY BootSlots, SimilarFacts, Zenon
  <2>4. proc'[TX].state # "BLOCKED_ACCEPT" /\ \A s \in Slots \ {TX} : proc'[s] = proc[s]
    BY <1>3, <2>2, <2>3, Zenon
  <2>5. to' = current => kpc'[current] = "user"
    BY <1>2, Zenon DEF Accepting
  <2> QED BY <1>1, <1>2, <2>2, <2>4, <2>5, OneSlotWaits, Zenon
<1>6. CASE \E l \in Listeners : netcore_poll_all(l)
  <2>1. PICK l \in Listeners : netcore_poll_all(l)
    BY <1>6, Zenon
  <2>2. handle_server_syn(l) /\ proc' \in sched_wake_accept(l)
    BY <2>1, Zenon DEF netcore_poll_all
  <2>3. proc'[TX].state # "BLOCKED_ACCEPT"
    <3>1. Asleep(l) \subseteq Slots \ {TX} /\ proc[TX].state # "BLOCKED_ACCEPT"
      BY <1>1, Zenon DEF Accepting, Asleep, Loop
    <3>2. proc' = proc \/ \E s \in Asleep(l) : proc' = [proc EXCEPT ![s].state = "READY"]
      BY <2>2, Zenon DEF sched_wake_accept
    <3> QED BY <1>1, <3>1, <3>2, Zenon
  <2>4. PICK p \in sched_wake_accept(l) : proc' = p
    BY <2>2, Zenon
  <2> QED BY <1>2, <2>2, <2>3, <2>4, SynWakes, Zenon
<1> QED BY <1>4, <1>5, <1>6, Zenon DEF Network

\* When no message is sent to a process that accepts connections, no
\* connection waits while everyone who could take it sleeps, unless its SYN
\* came between the test and the block of the process that goes to sleep: for
\* any number of acceptors, listeners and interleavings, the wake-up of
\* handle_server_syn is lost in that window only.  A message loses it too (the
\* run accept_key), because sys_ipc_send overwrites the word that holds the
\* listener.
THEOREM AcceptNeverLost ==
  ASSUME Targets \cap Acceptors = {}
  PROVE  Spec => []NoLostAccept
<1>1. kmain => Accepting /\ NoneLost
  <2> SUFFICES ASSUME kmain PROVE Accepting /\ NoneLost
    BY Zenon
  <2>1. pending = {} /\ to = Nobody /\ current \in Slots
        /\ \A s \in Slots : kpc[s] \notin Loop /\ proc[s].state # "BLOCKED_ACCEPT"
    BY BootSlots DEF kmain, Loop
  <2>2. Nobody # current
    BY <2>1, BootSlots, Zenon
  <2> QED BY <2>1, <2>2, Zenon DEF Accepting, NoneLost, Loop
<1>2. Inv /\ Accepting /\ NoneLost /\ [Next]_vars => Accepting' /\ NoneLost'
  <2> SUFFICES ASSUME Inv, Accepting, NoneLost, [Next]_vars
               PROVE  Accepting' /\ NoneLost'
    BY Zenon
  <2>1. CASE Kernel
    BY <2>1, SchedulersWait, SwitchWaits, AcceptWaits, Zenon DEF Kernel, AcceptStep
  <2>2. CASE Program
    BY <2>2, IpcWaits, QuietWaits, AcceptWaits, ExitWaits, LifeWaits, Zenon DEF Program, Ring
  <2>3. CASE sys_yield_return \/ timer_isr \/ UNCHANGED vars
    BY <2>3, QuietWaits, Zenon
  <2>4. CASE Network
    BY <2>4, NetworkWaits, Zenon
  <2> QED BY <2>1, <2>2, <2>3, <2>4, Zenon DEF Next
<1>3. Accepting /\ NoneLost => NoLostAccept
  <2> SUFFICES ASSUME NoneLost, NEW l \in pending \ missed, NEW s \in Slots,
                      InAccept(s, l), proc[s].state = "BLOCKED_ACCEPT"
               PROVE  \E r \in Slots : InAccept(r, l) /\ kpc[r] # "block"
                                       /\ proc[r].state \in {"READY", "RUNNING"}
    BY Zenon DEF NoLostAccept
  <2>1. PICK r \in Slots : Wakes(r, l)
    BY Zenon DEF NoneLost, Sleeps
  <2> QED BY <2>1, Zenon DEF Wakes, Ready
<1> QED BY <1>1, <1>2, <1>3, SchedulerInvariant, PTL DEF Spec
===========================================================================
