----------------------------- MODULE ProcSched -----------------------------
(***************************************************************************)
(* The process table, the round-robin process scheduler and the blocking   *)
(* system calls of kernel/core: process, syscall_sched, syscall_ipc,       *)
(* syscall_handlers, dispatcher.                                           *)
(*                                                                         *)
(* Processes run on the boot processor only, and the timer preempts Ring 3 *)
(* only.  A system call and the timer's handler start with interrupts off; *)
(* sched_yield, the page allocator and the first run of a kernel thread    *)
(* turn them on, and since proc_context_switch saves no RFLAGS the flag    *)
(* passes from one stack to the next.  While it is on, the network's       *)
(* interrupt may come between any two steps of kernel code.  kpc and karg  *)
(* are what a slot does when it has the processor; to is the slot a call   *)
(* of switch_to_process has yet to switch to.                              *)
(***************************************************************************)
EXTENDS Integers, FiniteSets

CONSTANTS
  MAX_PROCS,    \* size of PROC_TABLE
  RSips,        \* Ring 3 services that kmain spawns blocked
  Users,        \* Ring 3 programs that kmain spawns RUNNING
  Listeners,    \* listening sockets
  Calls,        \* the calls programs make, of {"recv", "yield",
                \* "ring", "exit", "spawn", "wait"}
  Targets,      \* slots that programs send messages to
  Acceptors,    \* slots whose program accepts connections
  SpawnMayFail, \* whether an allocation or the ELF check of a spawn may fail
  Words,        \* message words and exit codes
  MaxPid        \* bound: no spawn beyond this process id

Slots == 0 .. MAX_PROCS - 1

\* Slots in the order of kmain: the terminal, the transmit poller, the Ring 3
\* services, Task 0, the programs; the second program (grit) runs first.
TERMINAL == 0
TX == 1
TASK0 == 2 + RSips
FirstUser == TASK0 + 1
Booted == FirstUser + Users

ASSUME BootAssumption ==
  /\ MAX_PROCS \in Nat /\ RSips \in Nat /\ Users \in Nat \ {0, 1}
  /\ Booted <= MAX_PROCS
ASSUME WordsAssumption ==
  /\ Words \subseteq Nat \ {0} /\ Listeners \subseteq Nat
  /\ MaxPid \in Nat /\ SpawnMayFail \in BOOLEAN
ASSUME TargetsAssumption == Targets \subseteq Slots /\ Acceptors \subseteq Slots

VARIABLES
  proc,         \* PROC_TABLE
  bitmap,       \* PID_BITMAP: the slots whose bit is set
  nextPid,      \* NEXT_PID
  count,        \* PROC_COUNT
  current,      \* CURRENT_PID
  last,         \* LAST_DISPATCHED
  cooldown,     \* TASK0_COOLDOWN
  pulse,        \* the pulse queue is not empty
  frame,        \* kernel_rsp: "none", "saved" (a frame to resume), "live"
  kpc, karg,    \* what a slot does when it has the processor
  to,           \* the slot being switched to, the caller of sys_yield, or Nobody
  iflag,        \* the interrupt flag in kernel code (in Ring 3 it is on)
  ring,         \* RING_TABLE: the slots with a mapped submission queue
  pending,      \* listeners with a connection waiting in pending_accept
  missed        \* history: listeners whose connection came between the test
                \* and the block of an accept, when no one else slept on it

Nobody == -1
table == <<bitmap, nextPid, count>>
choice == <<last, cooldown>>
stack == <<current, frame, to, iflag>>
control == <<kpc, karg>>
network == <<pending, missed>>
vars == <<proc, bitmap, nextPid, count, current, last, cooldown, pulse,
          frame, kpc, karg, to, iflag, ring, pending, missed>>

States == {"FREE", "READY", "RUNNING", "ZOMBIE", "IPC_BLOCKED", "BLOCKED_ACCEPT"}

Dispatchable(p) == {s \in Slots : p[s].state \in {"READY", "RUNNING"}}

\* The first slot of S met when scanning upwards, cyclically, after slot a.
Dist(a, s) == (s + MAX_PROCS - a) % MAX_PROCS
FirstAfter(a, S) == {s \in S : \A t \in S : Dist(a, s) <= Dist(a, t)}

(***************************************************************************)
(* kmain, up to the switch to the first user process.                      *)
(***************************************************************************)
kmain ==
  /\ proc = [s \in Slots |->
       [state  |-> IF s >= Booted THEN "FREE"
                   ELSE IF s = TASK0 THEN "READY"
                   ELSE IF s < TASK0 THEN "IPC_BLOCKED" ELSE "RUNNING",
        pid    |-> IF s < Booted THEN s + 1 ELSE 0,
        parent |-> 0,
        space  |-> IF s >= Booted THEN "none"
                   ELSE IF s \in {TERMINAL, TX, TASK0} THEN "kernel" ELSE "user",
        sender |-> 0, msg0 |-> 0]]
  /\ bitmap = 0 .. Booted - 1
  /\ nextPid = Booted + 1
  /\ count = Booted
  /\ current = FirstUser + 1
  /\ last = 0 /\ cooldown = 0 /\ pulse = FALSE
  /\ frame = [s \in Slots |-> IF s >= Booted THEN "none"
                              ELSE IF s = FirstUser + 1 THEN "live" ELSE "saved"]
  /\ kpc = [s \in Slots |-> IF s \in {TERMINAL, TX, TASK0} THEN "entry" ELSE "user"]
  /\ karg = [s \in Slots |-> 0]
  /\ to = Nobody /\ iflag = FALSE /\ ring = {}
  /\ pending = {} /\ missed = {}

(***************************************************************************)
(* Switching.  p is the process table as the handler has left it so far.   *)
(***************************************************************************)
InUser == kpc[current] = "user" /\ to = Nobody
InKernel(pc) == kpc[current] = pc /\ to = Nobody
IntOn == InUser \/ iflag

Return(p) == proc' = p /\ UNCHANGED stack

\* The first run of a kernel thread enables interrupts; a stack that was
\* switched away from finds the flag as the last one had it (Ring 3 has its own).
FlagOf(next, flag) == kpc[next] # "user" /\ (kpc[next] = "entry" \/ flag)

Resume(p, next, flag) ==
  /\ proc' = [p EXCEPT ![next].state = "RUNNING"]
  /\ current' = next /\ to' = Nobody
  /\ iflag' = FlagOf(next, flag)

\* switch_to_process drains the submission queue of the slot that leaves ...
switch_to_process(p, next) ==
  proc' = p /\ to' = next /\ UNCHANGED <<current, frame, iflag>>

\* Mutant: the stack pointer of the old process is not stored.
proc_context_switch_NoSave ==
  /\ to \notin {Nobody, current}
  /\ Resume([proc EXCEPT ![current].state = IF @ = "RUNNING" THEN "READY" ELSE @],
            to, iflag)
  /\ frame' = [frame EXCEPT ![to] = "live"]
  /\ UNCHANGED <<table, choice, pulse, control, ring, network>>

\* ... and then changes stacks.
proc_context_switch ==
  /\ to \notin {Nobody, current}
  /\ Resume([proc EXCEPT ![current].state = IF @ = "RUNNING" THEN "READY" ELSE @],
            to, iflag)
  /\ frame' = [frame EXCEPT ![current] = "saved", ![to] = "live"]
  /\ UNCHANGED <<table, choice, pulse, control, ring, network>>

\* Mutant: LAST_DISPATCHED records the slot that leaves, not the one that runs.
schedule_next_RecordsOld(p, q) ==
  LET scan == Dispatchable(p) \ {current, last}
  IN  /\ UNCHANGED cooldown
      /\ IF scan = {}
         THEN Return(p) /\ UNCHANGED last
         ELSE \E next \in FirstAfter(last, scan) :
                last' = current /\ switch_to_process(p, next)

\* Mutant: the scan always starts at slot 0.
schedule_next_NoRotation(p, q) ==
  LET scan == Dispatchable(p) \ {current, 0}
  IN  /\ UNCHANGED cooldown
      /\ IF scan = {}
         THEN Return(p) /\ UNCHANGED last
         ELSE \E next \in FirstAfter(0, scan) :
                last' = next /\ switch_to_process(p, next)

schedule_next(p, q) ==
  LET others == Dispatchable(p) \ {current}
      cool   == IF cooldown > 0 THEN cooldown - 1 ELSE 0
      scan   == others \ {last}
  IN  IF others = {}
      THEN Return(p) /\ UNCHANGED <<last, cooldown>>
      ELSE IF q /\ cool = 0 /\ current # 0 /\ 0 \in Dispatchable(p)
      THEN cooldown' = 4 /\ switch_to_process(p, 0) /\ UNCHANGED last
      ELSE /\ cooldown' = cool
           /\ IF scan = {}
              THEN Return(p) /\ UNCHANGED last
              ELSE \E next \in FirstAfter(last, scan) :
                     last' = next /\ switch_to_process(p, next)

\* The exit path leaves the dead stack for good; only Ring 3 slots are tried.
\* It has freed pages, so interrupts are on.
switch_to_next_ready(p) ==
  LET ring3 == {s \in Dispatchable(p) \ {0, current} : p[s].space # p[0].space}
  IN  IF ring3 = {}
      THEN /\ proc' = p /\ iflag' = TRUE
           /\ kpc' = [kpc EXCEPT ![current] = "idle"]
           /\ UNCHANGED <<current, frame, to>>
      ELSE \E next \in FirstAfter(current, ring3) :
             /\ Resume(p, next, TRUE)
             /\ frame' = [frame EXCEPT ![next] = "live"]
             /\ UNCHANGED kpc

(***************************************************************************)
(* The timer and the kernel threads.                                       *)
(***************************************************************************)
timer_preempt ==
  /\ InUser
  /\ pulse' = TRUE
  /\ schedule_next(proc, TRUE)
  /\ UNCHANGED <<table, control, ring, network>>

\* The timer interrupts kernel code: only the pulse.
timer_isr ==
  /\ iflag
  /\ pulse' = TRUE
  /\ UNCHANGED <<proc, table, choice, stack, control, ring, network>>

\* Task 0 drains the queue and yields; a tick may fall in between.
kernel_event_loop ==
  /\ current = TASK0 /\ to = Nobody
  /\ kpc' = [kpc EXCEPT ![TASK0] = "loop"]
  /\ \E tick \in {FALSE, iflag} : pulse' = tick /\ schedule_next(proc, tick)
  /\ UNCHANGED <<table, karg, ring, network>>

terminal_tx_poll_thread ==
  /\ current = TX /\ to = Nobody
  /\ kpc' = [kpc EXCEPT ![TX] = "loop"]
  /\ schedule_next(proc, pulse)
  /\ UNCHANGED <<table, pulse, karg, ring, network>>

\* sys_terminal_main is a stub: it returns to kernel_trampoline, which calls
\* schedule_next and halts if that call ever returns.
kernel_trampoline ==
  /\ current = TERMINAL /\ InKernel("entry")
  /\ kpc' = [kpc EXCEPT ![TERMINAL] = "halt"]
  /\ schedule_next(proc, pulse)
  /\ UNCHANGED <<table, pulse, karg, ring, network>>

(***************************************************************************)
(* Message passing.                                                        *)
(***************************************************************************)
set_ipc_msg(p, s, sender, msg0) ==
  [p EXCEPT ![s].sender = sender, ![s].msg0 = msg0]

\* Sending to oneself is left out: a process that the previous receive left
\* marked IPC_BLOCKED would be switched to its own, already used, frame.
sys_ipc_send(t, w) ==
  /\ InUser /\ t # current
  /\ proc[t].state # "FREE"
  /\ LET p == set_ipc_msg(proc, t, current, w)
     IN  IF proc[t].state = "IPC_BLOCKED"
         THEN switch_to_process([p EXCEPT ![t].state = "READY"], t)
         ELSE proc[t].sender = 0 /\ Return(p)
  /\ UNCHANGED <<table, choice, pulse, control, ring, network>>

\* With no message buffered the process is marked, sched_yield runs a kernel
\* fiber if there is one and comes straight back, and the call returns.
sys_ipc_recv ==
  /\ InUser
  /\ LET p == set_ipc_msg(proc, current, 0, 0)
     IN  IF proc[current].sender # 0 THEN Return(p)
         ELSE Return([p EXCEPT ![current].state = "IPC_BLOCKED"])
  /\ UNCHANGED <<table, choice, pulse, control, ring, network>>

(***************************************************************************)
(* Accepting connections.  tcp_accept tests and takes; with nothing there, *)
(* the process marks itself with what it waits for, calls schedule_next    *)
(* and tests again when it is back.                                        *)
(***************************************************************************)
sys_tcp_accept(l) ==
  /\ InUser /\ current \in Acceptors
  /\ kpc' = [kpc EXCEPT ![current] = "accept"]
  /\ karg' = [karg EXCEPT ![current] = l]
  /\ UNCHANGED <<proc, table, choice, pulse, stack, ring, network>>

tcp_accept ==
  /\ InKernel("accept")
  /\ LET l == karg[current]
     IN  IF l \in pending
         THEN /\ pending' = pending \ {l} /\ missed' = missed \ {l}
              /\ kpc' = [kpc EXCEPT ![current] = "user"]
              /\ iflag' = FALSE
         ELSE kpc' = [kpc EXCEPT ![current] = "block"] /\ UNCHANGED <<network, iflag>>
  /\ UNCHANGED <<proc, table, choice, pulse, current, frame, to, karg, ring>>

\* Mutant: the process blocks without saying what it waits for.
accept_block_NoKey ==
  /\ InKernel("block")
  /\ proc' = [proc EXCEPT ![current].state = "BLOCKED_ACCEPT"]
  /\ kpc' = [kpc EXCEPT ![current] = "yield"]
  /\ UNCHANGED <<table, choice, pulse, stack, karg, ring, network>>

accept_block ==
  /\ InKernel("block")
  /\ LET p == set_ipc_msg(proc, current, 0, karg[current])
     IN  proc' = [p EXCEPT ![current].state = "BLOCKED_ACCEPT"]
  /\ kpc' = [kpc EXCEPT ![current] = "yield"]
  /\ UNCHANGED <<table, choice, pulse, stack, karg, ring, network>>

accept_yield ==
  /\ InKernel("yield")
  /\ kpc' = [kpc EXCEPT ![current] = "accept"]
  /\ schedule_next(proc, pulse)
  /\ UNCHANGED <<table, pulse, karg, ring, network>>

\* The tables that waking the first process asleep on l may leave.
Asleep(l) == {s \in Slots : proc[s].state = "BLOCKED_ACCEPT" /\ proc[s].msg0 = l}
sched_wake_accept(l) ==
  IF Asleep(l) = {} THEN {proc}
  ELSE {[proc EXCEPT ![s].state = "READY"] :
          s \in {s \in Asleep(l) : \A t \in Asleep(l) : s <= t}}

handle_server_syn(l) ==
  /\ pending' = pending \cup {l}
  /\ missed' = IF Asleep(l) # {} THEN missed \ {l}
               ELSE IF InKernel("block") /\ karg[current] = l THEN missed \cup {l}
               ELSE missed

\* The network's interrupt: the frames are handled, a SYN among them or not,
\* and slot 1 is made ready.
virtio_net_isr(l) ==
  /\ IntOn
  /\ \/ l \in Listeners /\ handle_server_syn(l)
        /\ \E p \in sched_wake_accept(l) : proc' = [p EXCEPT ![TX].state = "READY"]
     \/ l = Nobody /\ UNCHANGED network
        /\ proc' = [proc EXCEPT ![TX].state = "READY"]
  /\ UNCHANGED <<table, choice, pulse, stack, control, ring>>

\* System call 119 drains the caller's submission queue, polls the network
\* and returns; slot 1 is left alone.
sys_yield ==
  /\ InUser
  /\ to' = current
  /\ UNCHANGED <<proc, table, choice, pulse, current, frame, iflag, control, ring,
                 network>>

netcore_poll_all(l) ==
  /\ to = current
  /\ handle_server_syn(l)
  /\ proc' \in sched_wake_accept(l)
  /\ UNCHANGED <<table, choice, pulse, stack, control, ring>>

sys_yield_return ==
  /\ to = current
  /\ to' = Nobody /\ iflag' = FALSE
  /\ UNCHANGED <<proc, table, choice, pulse, current, frame, control, ring, network>>

(***************************************************************************)
(* The life of a process.                                                  *)
(***************************************************************************)
\* Mutant: the count is not decremented.
process_exit_NoCount(code) ==
  /\ InUser
  /\ LET p == set_ipc_msg(proc, current, 0, code)
     IN  switch_to_next_ready([p EXCEPT ![current].state = "ZOMBIE"])
  /\ ring' = ring \ {current}
  /\ UNCHANGED <<table, choice, pulse, karg, network>>

process_exit(code) ==
  /\ InUser
  /\ LET p == set_ipc_msg(proc, current, 0, code)
     IN  switch_to_next_ready([p EXCEPT ![current].state = "ZOMBIE"])
  /\ count' = count - 1
  /\ ring' = ring \ {current}
  /\ UNCHANGED <<bitmap, nextPid, choice, pulse, karg, network>>

alloc_pid(s) ==
  /\ s \in Slots \ bitmap /\ \A t \in Slots \ bitmap : s <= t
  /\ nextPid <= MaxPid
  /\ bitmap' = bitmap \cup {s}
  /\ nextPid' = nextPid + 1
  /\ count' = count + 1

\* Mutant: the process id is the number of processes, not a fresh one.
spawn_process_PidIsCount(s, ok, parent) ==
  /\ alloc_pid(s)
  /\ LET p == [proc EXCEPT ![s].pid = count', ![s].state = "READY"]
     IN  proc' = IF ok THEN [p EXCEPT ![s].space = "user", ![s].parent = parent] ELSE p
  /\ frame' = IF ok THEN [frame EXCEPT ![s] = "saved"] ELSE frame
  /\ kpc' = [kpc EXCEPT ![s] = IF ok THEN "user" ELSE "lost"]

\* What spawn_process and spawn_process_from_inode do; a spawn that fails after
\* alloc_pid returns without giving the slot back.
spawn_process(s, ok, parent) ==
  /\ alloc_pid(s)
  /\ LET p == [proc EXCEPT ![s].pid = nextPid, ![s].state = "READY"]
     IN  proc' = IF ok THEN [p EXCEPT ![s].space = "user", ![s].parent = parent] ELSE p
  /\ frame' = IF ok THEN [frame EXCEPT ![s] = "saved"] ELSE frame
  /\ kpc' = [kpc EXCEPT ![s] = IF ok THEN "user" ELSE "lost"]

sys_spawn(s, ok) ==
  /\ InUser
  /\ spawn_process(s, ok, proc[current].pid)
  /\ UNCHANGED <<current, choice, pulse, karg, to, iflag, ring, network>>

Reap(c) ==
  /\ proc' = [proc EXCEPT ![c].state = "FREE"]
  /\ bitmap' = bitmap \ {c}

\* One test of the loop in sys_wait, whose sched_yield changes no process and
\* leaves interrupts on.
sys_wait(c) ==
  /\ \/ InUser /\ proc[c].parent = proc[current].pid
     \/ InKernel("wait") /\ karg[current] = c
  /\ karg' = [karg EXCEPT ![current] = c]
  /\ IF proc[c].state = "ZOMBIE"
     THEN /\ Reap(c) /\ iflag' = FALSE
          /\ kpc' = [kpc EXCEPT ![current] = "user"]
     ELSE /\ kpc' = [kpc EXCEPT ![current] = "wait"] /\ iflag' = TRUE
          /\ UNCHANGED <<proc, bitmap>>
  /\ UNCHANGED <<nextPid, count, current, choice, pulse, frame, to, ring, network>>

(***************************************************************************)
(* The submission queue, which a process fills in its own memory: whatever *)
(* it holds, drain_sq carries out on behalf of the slot.                   *)
(***************************************************************************)
RING_SLOTS == 16                        \* the length of RING_TABLE

\* Slots from 16 up, which init_ring would use to index past RING_TABLE, are
\* left out.
init_ring ==
  /\ InUser /\ current < RING_SLOTS
  /\ ring' = ring \cup {current}
  /\ UNCHANGED <<proc, table, choice, pulse, stack, control, network>>

Draining == to # Nobody /\ current \in ring

ring_ipc_send(t, w) ==
  /\ Draining /\ t < RING_SLOTS
  /\ proc[t].state = "IPC_BLOCKED"
  /\ proc' = [set_ipc_msg(proc, t, current, w) EXCEPT ![t].state = "READY"]
  /\ UNCHANGED <<table, choice, pulse, stack, control, ring, network>>

ring_spawn(s, ok) ==
  /\ Draining
  /\ spawn_process(s, ok, proc[s].parent)
  /\ iflag' = TRUE
  /\ UNCHANGED <<current, choice, pulse, karg, to, ring, network>>

\* ring_brk and ring_mmap take pages, which leaves interrupts on.
ring_mmap ==
  /\ Draining
  /\ iflag' = TRUE
  /\ UNCHANGED <<proc, table, choice, pulse, current, frame, to, control, ring,
                 network>>

---------------------------------------------------------------------------
AcceptStep == tcp_accept \/ accept_block \/ accept_yield

Kernel ==
  \/ timer_preempt \/ kernel_event_loop \/ terminal_tx_poll_thread
  \/ kernel_trampoline \/ proc_context_switch \/ AcceptStep

Ring ==
  \/ init_ring \/ ring_mmap
  \/ \E t \in Targets, w \in Words : ring_ipc_send(t, w)
  \/ "spawn" \in Calls /\ \E s \in Slots : ring_spawn(s, TRUE)
  \/ "spawn" \in Calls /\ SpawnMayFail /\ \E s \in Slots : ring_spawn(s, FALSE)

Program ==
  \/ \E t \in Targets, w \in Words : sys_ipc_send(t, w)
  \/ "recv" \in Calls /\ sys_ipc_recv
  \/ \E l \in Listeners : sys_tcp_accept(l)
  \/ "yield" \in Calls /\ sys_yield
  \/ "exit" \in Calls /\ \E w \in Words : process_exit(w)
  \/ "spawn" \in Calls /\ \E s \in Slots : sys_spawn(s, TRUE)
  \/ "spawn" \in Calls /\ SpawnMayFail /\ \E s \in Slots : sys_spawn(s, FALSE)
  \/ "wait" \in Calls /\ \E c \in Slots : sys_wait(c)
  \/ "ring" \in Calls /\ Ring

Network ==
  \/ \E l \in Listeners \cup {Nobody} : virtio_net_isr(l)
  \/ \E l \in Listeners : netcore_poll_all(l)

Next == Kernel \/ Program \/ sys_yield_return \/ timer_isr \/ Network

\* A tick that comes while interrupts are off is held and taken on the return
\* to Ring 3, so a program that keeps calling the kernel is preempted as well;
\* kernel code that has the processor keeps running.
Fairness == SF_vars(timer_preempt) /\ WF_vars(kernel_event_loop)
            /\ WF_vars(terminal_tx_poll_thread) /\ WF_vars(kernel_trampoline)
            /\ WF_vars(proc_context_switch) /\ WF_vars(AcceptStep)
            /\ WF_vars(sys_yield_return)

Spec == kmain /\ [][Next]_vars
FairSpec == Spec /\ Fairness

---------------------------------------------------------------------------
\* Process.state holds one of the states of process.salt, ipc_sender a slot.
TypeOK ==
  /\ proc \in [Slots -> [state : States, pid : Nat, parent : Nat,
                         space : {"none", "kernel", "user"},
                         sender : Slots, msg0 : Nat]]
  /\ bitmap \subseteq Slots /\ nextPid \in Nat /\ count \in Int
  /\ current \in Slots /\ last \in Slots /\ cooldown \in 0 .. 4
  /\ pulse \in BOOLEAN
  /\ frame \in [Slots -> {"none", "saved", "live"}]
  /\ kpc \in [Slots -> {"user", "entry", "loop", "halt", "accept", "block",
                        "yield", "wait", "idle", "lost"}]
  /\ karg \in [Slots -> Nat] /\ to \in Slots \cup {Nobody} /\ iflag \in BOOLEAN
  /\ ring \subseteq Slots /\ pending \subseteq Listeners /\ missed \subseteq Listeners

Alive == {s \in Slots : proc[s].state \notin {"FREE", "ZOMBIE"}}

\* The three records alloc_pid, process_exit and sys_wait keep of which slots
\* are taken agree: the bitmap with the states, PROC_COUNT with the number of
\* processes that have not exited.
TableAgrees ==
  /\ bitmap = {s \in Slots : proc[s].state # "FREE"}
  /\ count = Cardinality(Alive)

\* No two slots that are in use, zombies included, have the same process id,
\* so sys_wait can only reap the child it was asked for.
UniquePids ==
  \A s, t \in bitmap : proc[s].pid = proc[t].pid => s = t

\* Every process that schedule_next, switch_to_next_ready or sys_ipc_send may
\* switch to has a saved stack frame to resume.
Resumable == \A s \in Alive \ {current} : frame[s] = "saved"

\* A call of schedule_next by a Ring 3 process always finds someone else to
\* run, so a process that blocks in sys_tcp_accept does leave the processor
\* (Task 0 is always ready and is never the slot the scan leaves out).
NeverFallsThrough ==
  current \notin {TASK0, TERMINAL} /\ current \in Alive /\ to = Nobody
    => Dispatchable(proc) \ {current, last} # {}

InAccept(s, l) == kpc[s] \in {"accept", "block", "yield"} /\ karg[s] = l

\* A connection waits in pending_accept while every process that could take it
\* sleeps only if its SYN came, by interrupt, between the last sleeper's test
\* and its block.  In every other case, with any number of processes on the
\* listener, one of them has been woken and has its test ahead of it.
NoLostAccept ==
  \A l \in pending \ missed :
    (\E s \in Slots : InAccept(s, l) /\ proc[s].state = "BLOCKED_ACCEPT")
      => \E s \in Slots : InAccept(s, l) /\ kpc[s] # "block"
                          /\ proc[s].state \in {"READY", "RUNNING"}

\* Round robin starves no one: a READY process gets the processor.
FairDispatch == \A s \in Slots : (proc[s].state = "READY") ~> (current = s)

\* The loop of sys_wait yields to the scheduler: a process that waits for a
\* child does not keep the processor from it for ever.
WaitYields ==
  \A s \in Slots : (current = s /\ kpc[s] = "wait")
                     ~> (current # s \/ kpc[s] # "wait")

\* The slot that has the processor, or is about to get it.
Landing == IF to = Nobody THEN current ELSE to

\* The inductive invariant: the kernel threads never leave the table, the slot
\* that has the processor is alive unless it exited into the idle loop, and
\* Task 0 is the last slot dispatched only while it or the terminal runs.
Inv ==
  /\ TypeOK /\ TableAgrees /\ UniquePids
  /\ \A s \in bitmap : proc[s].pid < nextPid
  /\ SpawnMayFail \/ Resumable
  /\ {TERMINAL, TX} \subseteq Alive /\ TASK0 \in Dispatchable(proc)
  /\ kpc[TX] \in {"entry", "loop"} /\ kpc[TASK0] \in {"entry", "loop"}
  /\ kpc[TERMINAL] \in {"entry", "halt"}
  /\ current \in Alive \/ kpc[current] = "idle"
  /\ to # Nobody => current \in Alive /\ to \in Alive
  /\ \A s \in Slots : kpc[s] = "idle" => s = current /\ proc[s].state = "ZOMBIE"
  /\ last = TASK0 => Landing \in {TASK0, TERMINAL}
===========================================================================
