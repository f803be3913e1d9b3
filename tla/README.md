# TLA+ models of keuos

Specifications of the parts of this repository whose correctness depends on the
order of many steps: two cores and their store buffers, the process scheduler,
the page allocator, the memory of user processes, the image codecs and the
rasterizer of Facet, and the TLS bridge of the network daemon. TLC checks every
module on small instances; TLAPS proves the most important properties of the
ring, the scheduler, the page allocator, user memory, the TLS bridge, and of the
arithmetic of the codecs for every value of the constants.

To check a run: `tlc -config <cfg> <module>`, with the pairs listed under
[Runs](#runs). To check the proofs: `tlapm <module>` for the modules under
[Proofs](#proofs). `PROJECT.json` maps each definition to the lines it models and
lists the hazards that the properties are about.

## The system and its modules

Definitions keep the names of the functions they model; a function that switches
stacks, waits, or is interrupted half-way is several actions. A definition
`X_Something` that no other definition uses is a deliberately wrong variant of
`X`, kept to show that a property notices the difference.

### Kernel

**Shared-memory ring** (`kernel/lib/ipc_shm.salt`): `SpscRing`, and `Fifo` for
what it promises. The producer and the consumer run on different cores under
x86-64 TSO. Data and head go through the producer's store buffer, tail through
the consumer's; `DrainData`, `DrainHead` and `DrainTail` make one store visible.
`spsc_push`, `spsc_pop`, the bulk and the frame operations read the other side's
index once and then copy byte by byte. A byte is represented by its position, so
"the right byte" is a statement about positions. `SpscRing` implements
`Fifo` under the refinement mapping in `Channel`.

**Process table, scheduler and blocking calls** (`kernel/core/process.salt`,
`syscall_sched.salt`, `syscall_ipc.salt`, `syscall_handlers.salt`,
`dispatcher.salt`, `proc_switch.S`): `ProcSched`. State: the table, the pid
bitmap, `NEXT_PID`, `PROC_COUNT`, `CURRENT_PID`, `LAST_DISPATCHED`, the pending
connections, the slots with a submission queue, the interrupt flag, and for each
stack what it will do when it is resumed. Processes run on the boot processor, and
the timer preempts in Ring 3 and nowhere else. A call starts with interrupts off,
but `sched_yield`, the page allocator and the first run of a kernel thread turn them
on, and the switch saves no flags: the network's interrupt may then come between any
two steps of kernel code. So accepting is four steps (the call, the test, the block,
the yield) and a switch two: `switch_to_process` first drains the submission queue of
the process that leaves (`ring_ipc_send`, `ring_spawn`, `ring_mmap`), then
`proc_context_switch` changes stacks. The other actions: timer, event loop, transmit
and terminal threads, `sys_ipc_send`, `sys_ipc_recv`, `sys_yield` with the network
poll in it, spawn, wait and exit.

**Page allocator** (`kernel/core/pmm.salt`): `Pmm`. Each core has a thread and
nested interrupt handlers that all call `alloc`, `free` and `retain`. Locking,
reading the list head, writing it back, and the two halves of a count update are
separate steps, so a handler or another core may come between any two of them.
The order of a list is abstracted: a list is a set, its head any member. A page's
references stay on the core that took it, so two cores that change one count at
once, which takes a `retain` that has no callers, do not occur.

**User memory** (`kernel/mem/user_paging.salt` and, in `kernel/core`,
`exec_user.salt`, `spawn_inode.salt`, `process_resource.salt`,
`syscall_sched.salt`, `syscall_ipc.salt`, `ring_abi.salt`, `ring_ops.salt`):
`UserMem`. The page-table walk,
the two spawn paths, `brk`, `mmap`, the ring pages, grants, exit and reaping, one
action per allocation, each of which may find no page. Interrupt handlers take
and return pages between the steps. Addresses wrap above the top region, as a
`u64` does: neither `brk` nor `mmap` tests a limit. `ProcSched` and `UserMem` describe the same
calls from two sides, who runs and what is mapped; `UserMem` and `Pmm` meet in
the set of free pages, which `UserMem` takes as given.

### Facet

**Image files** (`user/facet/gpu/facet_image.c`, `stb_image.h`,
`stb_image_write.h`). `facet_image.c` compiles the PNG, JPEG and BMP loaders only.

| module | part |
|---|---|
| `StbSizes` | the overflow checks before every size computation |
| `StbImage` | the heap, format conversion, flipping, the common state |
| `StbInflate` | `stbi__do_zlib`: headers, code lengths, symbols, stored blocks, growth of the output |
| `StbPngLine`, `StbPng` | line filters; chunks, passes, palette, transparency |
| `StbBmp` | BMP loader and writer |
| `StbDeflate`, `StbPngWrite` | the compressor with lazy matching, the PNG writer |
| `StbJpegHuff` | the bit reader and the Huffman decoder with its shortcuts |
| `StbJpegFrame`, `StbJpegPixels` | plane sizes; inverse transform, resampling, colours |
| `StbJpeg` | markers, tables, frame, baseline and progressive scans, output lines |
| `StbJpegTables`, `StbJpegWrite` | the JPEG writer after quantisation |
| `StbSeqs` | sequences put together, for the writers |
| `FacetImage`, `FacetJpeg` | `facet_image_decode` with these loaders, and writer composed with loader |
| `FacetJpegImage` | what the samples and pixels of a JPEG should be, by definition |

A decode is a sequence of actions, one per chunk, segment, symbol, block or
line. `heap` counts the allocations less the frees of each buffer, and every
`malloc` has a failing outcome. Memory that the code does not initialise holds
any member of `Junk`.

**Rasterizer** (`user/facet/raster/facet_raster.c`, `.h`): `FacetRaster`. Paths,
canvas, curve flattening, edge table, scanline fill and blending, again with
failing allocations. `facet_canvas_fill_nonzero` is `facet_canvas_fill` with one
rule. Sizes wrap modulo `U32`. Two writes outside a buffer are in the code (a
command of a path that could not grow, and the pixels of a canvas whose size
wrapped); the model ends where one happens. Coordinates are multiples of 1/`ONE` pixel; on those of the run the float
arithmetic is exact but for the division that finds where an edge meets a
scanline (see [Comparison](#comparison-with-the-compiled-code)).

### netd

**TLS bridge** (`user/netd/tls_bridge.c`, `tls_state.h`): `TlsBridge`. The slot
pool, `netd_tls_pump` (one step per read, write, push, and test of the loop),
`netd_tls_send`, and the release of a slot. BearSSL, sockets, `poll` and the peer
are not in the repository; they are modelled from how the bridge uses them and
marked external. Assumed of the engine: it offers no room for records while cleartext is pending.
When `netd_tls_pump` closes it after a read of 0 it closes as BearSSL does: it sends
its own close_notify and then asks for records until the peer's comes, unless that
one is what it answers. Errors of a read or write that `tls_bridge.c` takes for hard
are those of a reset and, on a faulty connection, any other errno. A record is one unit, as is a request, so a partial `send` of one
request is abstracted; partial writes to the socket are not. The repository has
no caller of these functions: the daemon modelled follows the comment on
`netd_tls_pump`, pumping a slot when its socket polls ready and releasing it when
the pump says that the connection is over.

## Runs

| run | module, cfg | properties |
|---|---|---|
| `spsc_ring` | `SpscRing`, `MCSpscRing.cfg` | `NoTornCopy`, `IsFifo`, `Delivered` |
| `sched_ipc` | `ProcSched`, `MCProcSched.cfg` | `Resumable`, `NeverFallsThrough`, `NoLostAccept`, `FairDispatch` |
| `sched_life` | `ProcSched`, `MCProcLife.cfg` | `TableAgrees`, `UniquePids` |
| `pmm` | `Pmm`, `MCPmm.cfg` | `IsrSafe`, `OnePlace`, `NoLostPage`, `RefsCounted`, `LockReleased` |
| `usermem` | `MCUserMem`, `MCUserMem.cfg` | `TablesPrivate`, `Isolated`, `NothingHeld`, `VmaTiles` |
| `facet_image` | `MCFacetImage`, `MCFacetImage.cfg` | `TypeOK`, `Decoded`, `GoodFilesDecode`, `HeapSound`, `Progress` |
| `facet_jpeg` | `MCFacetJpeg`, `MCFacetJpeg.cfg` | `SamplesRight`, `PixelsRight`, `Inside`, `GoodFilesDecode`, `HeapSound`, `Progress` |
| `facet_raster` | `MCFacetRaster`, `MCFacetRaster.cfg` | `StaysInside`, `Painted`, `Premultiplied`, `BuffersSafe` |
| `tls_bridge` | `MCTlsBridge`, `MCTlsBridge.cfg` | `FdsAccounted`, `RoutedInOrder`, `NothingLost`, `VerdictKept`, `PumpReturns`, `DeadReleased`, `DataArrives` |
| `wait_yields` | `ProcSched`, `MCWaitYields.cfg` | `WaitYields` (violated) |
| `accept_key` | `ProcSched`, `MCAcceptKey.cfg` | `NoLostAccept` (violated) |
| `bmp_gap` | `MCFacetImage`, `MCBmpGap.cfg` | `ExtraBytesAccepted` (violated) |

### What they show, and why the bounds are enough

**`spsc_ring`.** A ring of 4 bytes and requests of 1, 3 and 5 bytes (one that
fits, one that wraps, one that never fits), 11 bytes in all, so every cell is
used on three laps. No copy is torn, the ring is the bounded FIFO channel, and
what a push accepted is delivered. The instance stops when 11 bytes have crossed,
so deadlock is not checked. The theorems remove the bounds from the safety part.

**`sched_ipc`.** One service, two programs and the kernel threads, one listening
socket on which both programs accept, submission queues, under preemption and
network interrupts. Every process that can be switched to has a frame to resume;
`schedule_next` called from Ring 3 never falls through; every ready process runs in the
end. With two acceptors a wake-up may go to either, and the connection that it announced
may be taken by the other: `NoLostAccept` says that no connection waits with everyone
who could take it asleep, except when its SYN came between a test and the block that
follows it. The code does lose that one; the history variable `missed` names these
listeners, and nothing else is excepted. Messages go to the service that starts
blocked; the acceptors get none (that case is `accept_key`).

**`sched_life`.** All calls together, with two spawns that may fail and one free
slot, which the second child gets when the first is reaped. Bitmap, states and count
agree and ids are unique. Deadlock is not checked: a failed spawn leaves a slot READY
that has nothing to run, and when it is dispatched nothing follows.

**`pmm`.** Two cores, each a thread and one handler, two pages, stealing allowed
as soon as there is a page. Two cores and one level of nesting give every pair of
contexts that can meet on one lock; two pages let a list be empty, hold the last
page, or be stolen from. A system call that the allocator leaves with interrupts on
can be interrupted from then on, but not preempted: that happens in Ring 3 only. The
theorems remove these bounds.

**`usermem`.** Two process slots on a machine of 12 pages, and on one of 9 of which
an interrupt handler may take one, and return it, between any two steps; one level
of tables below the PML4, tables of two entries, regions of three pages. That is enough for a walk that finds its table, one that
has to make it, and one that cannot, in each of the three regions, and for the
machine to run out at each allocation of each call. One length of `mmap` and one end
of the heap wrap. `VmaTiles` then still says that the list is a chain from the first
address to `mmap_base`; that its regions are disjoint it says only while no
length has wrapped. `Isolated` excepts pages that were freed while lent, which
is what the code does (see below); the ghost variable `stale` names them.

**`facet_image`.** 278 decodes: PNG files of every colour type, depth, filter and
both interlacings, of sizes from 1x1 up, built from the definition of the format
and not from the code; images sent through the library's writers; BMP files of every
header, depth and mask; damaged and truncated files. The OS/2 palettes among the
good ones have four colours that no pixel uses, because the loader counts such a
palette four entries short; one with just four counts as empty and is refused. Each is decoded with all outcomes of every
allocation. `Decoded` compares what is returned with the image described;
`GoodFilesDecode` says that only lack of memory makes a good file fail;
`HeapSound` that nothing is freed twice or leaked; `Progress` that every step
consumes or produces something, which with the absence of deadlock is termination
without any fairness. `stbi__zreceive` makes up bits past the end of the data without
noting it (only `stbi__zhuffman_decode` does), so no constant bounds them; the
measure therefore counts the output once the data are used up, and that the output
ends rests on its size being an unsigned int. `Junk` has two values, so that a result that depends
on memory never written has two outcomes. The initial IDAT buffer, hash table,
stored block and window are made small (`FirstIdata`, `ZHash`, `MaxStored`,
`Window`) so that growth, collision, splitting and expiry happen.

**`facet_jpeg`.** 110 decodes: baseline and progressive files with every kind of
scan, the mixes of sampling factors that the resamplers tell apart, one to four
components, restarts, files from the writer, and damaged ones. Samples and pixels are
compared with the exact transform and the exact colour, within rounding.

**`facet_raster`.** 779 jobs, all but one on a canvas of 4x3 pixels: all triangles over 8
points and all quadrilaterals over 4, on and between the middles of rows, on
pixel borders and off the canvas, most of them degenerate or self-crossing;
curves, nested and open paths, several fills, and colours that are not
premultiplied; and a canvas whose size wraps. Both tables start with room for two, so
they grow. `Painted` computes the winding number along another ray than the code; a
pixel is painted in full if its middle is inside, and not at all otherwise.
`BuffersSafe` bounds what is written past a path that could not grow to one command.

**`tls_bridge`.** Two slots under three loads: a slot used by three tabs in turn
with data, requests and all faults; two connections side by side, one of them
faulty; three tabs for two slots. A socket holds one record, so that partial
and refused writes happen. `PumpReturns`, `DeadReleased` and `DataArrives` hold in every
behaviour in which the pump does not stay in `Spins` for ever: a peer has ended the
stream without close_notify, the engine goes on asking for records, each read gives
0, and a read of 0 counts as progress. Without this exception TLC finds
`PumpReturns` violated by that loop.

**Violated.** `wait_yields`: `sys_wait` says that it yields, but `sched_yield`
switches to nobody, so a parent keeps the processor from the child it waits for.
`accept_key`: a message sent to a process asleep in accept overwrites the word it
is woken by, and the connection wakes nobody. `bmp_gap`: a BMP of 16 bits or more a
pixel with a gap after its header skips the gap twice, so it is decoded from the
wrong place, though the code says that it accepts such files.

### Fairness

Safety properties use none. `Delivered`: store buffers drain (hardware) and the
consumer keeps polling. `FairDispatch`: timer interrupts keep coming, the kernel
threads' loops go on, and a stack that has been switched to runs; nothing is assumed of
programs. The timer is strongly fair, because a tick that comes in a call, with
interrupts off, is held and taken on the return to Ring 3: a program that makes one
call after another is preempted as well. `LockReleased`: each context that can take a step takes one, which is
what a processor does. The TLS properties: the pump's own code runs on, the
daemon releases a slot when it is told to, each socket that polls ready
again and again is pumped (strong fairness, since readiness may come and go while another slot is
served), and the network takes what was written. Nothing is assumed of the peer
sending, closing or resetting. `Progress` of the decoders is a step property and needs none.

## Proofs

TLAPS proves these for every value of the constants that satisfies the named
assumptions of the modules.

**The ring** (`SpscRingProofs`, for `Cap` a positive number, any set of request
lengths, any number of bytes). `RingInvariant`: `IInv` is inductive. It joins the
type, `Occupancy` (tail, head and what is still in the store buffers are ordered
and less than a lap apart), `Intact` (the cells between tail and what has been
drained hold their bytes), `InFlight` (a pending head value lies behind the bytes it
publishes), `CopyInside` (a running copy is inside what it saw) and `NoTornCopy`.
`NoTornCopy` alone is not inductive: whether a cell is overwritten depends on a
stale tail the producer still goes by and on the order in its buffer. From it
follow `OccupancyHolds`, `NoTornCopyHolds`, and `RingIsFifo`: the ring implements
`Fifo`, by showing that its initial states are initial there and each step is a
put, a get or nothing.

**The scheduler** (`ProcSchedProofs`, for any number of slots, services, programs
(two at least, as `kmain` boots) and listeners, and any mix of calls).
`SchedulerInvariant`: `Inv` is inductive; it adds to `TableAgrees` and
`UniquePids` that ids in use are below `NEXT_PID`, that the kernel threads never
leave the table, that the slot with the processor is alive unless it exited into
the idle loop, and that Task 0 is the last slot dispatched only while it or the
terminal runs (else `schedule_next`, which leaves that slot out, could find no
one). From it
`TableAlwaysAgrees`, `PidsAlwaysUnique`, `SchedulerNeverFallsThrough`, and, under
the assumption that no spawn fails half-way, `AlwaysResumable`. That
assumption is needed: a failed spawn leaves a READY slot without a frame.
`AcceptNeverLost`: while no message is sent to a process that accepts
connections, `NoLostAccept`, for any number of acceptors and listeners. Besides `Inv` it
needs `Accepting`: a process is BLOCKED_ACCEPT only inside the accept loop, its message
word names the listener it waits for, and from its test to its call of `schedule_next`
it has the processor. It also needs `NoneLost`, which counts the process that is about
to block among the sleepers: else the step that blocks it would not keep the property.
The hypothesis is needed too: `accept_key` shows a message overwriting that word.

**The page allocator** (`PmmProofs`, for any number of cores, pages, nested
handlers and any threshold). `AllocatorInvariant`: `IInv` is inductive; it joins the type, what the registers of a context hold at each
label, that a held lock has one holder inside a critical section, `IsrSafe`,
`OnePlace`, `NoLostPage`, `RefsCounted` and `CountExact`. The registers matter
because a context writes back a head it read steps before: that no one else has
changed the list in between is what the lock and the disabled interrupts give.
The steps that move no page come first, then those that change a list. From it
`AlwaysIsrSafe`, `AlwaysOnePlace`, `NeverLosesPages`, `AlwaysCounted`.

**User memory** (`UserMemProofs`, for any number of processes and pages, any
depth and width of the page tables, any program and stack size, and an allocator
that may hand out any free page, and fails only when there is none).
`Invariance`: `IInv` is inductive. Its parts: `Control`, where the call in
progress is and what it has in hand there; `SlotsOwn`, a running process has a
PML4 that no other has; `OnePlace`, a page is on the free list, in other use, in
the hands of the call, one of a process's ring pages or a table of a live address
space, and only one of these; `TablesOnce`, every table entry leads to a page of its
own; and `Mapped`, what a leaf may be. The properties alone are not inductive.
That a page just allocated is mapped nowhere needs `OnePlace` for everything
a call holds between two allocations, and that `process_exit` may free the ring pages
needs to know that only their owner, or the target of a grant, has them mapped. Most
actions only move pages between the free list and the call, which the lemma
`Steady` covers once; the steps that make a table, map a page or change a slot have
lemmas of their own. From it `PrivateTables`, `Isolation`, `BuffersReturned`.
`VmasTile` has an invariant of its own, that each list is a chain whose
regions are in order unless a length wrapped; any set of lengths is allowed.

**The TLS bridge** (`TlsBridgeProofs`, for any number of slots,
connections, records and requests, any capacity of the socket and whatever the
network does). `Invariance`: `IInv` is inductive. It joins the type, `Owned` (each
descriptor in use belongs to one slot, which names it, and each connection to one
slot at most) and `Delivered`: for each connection `Carried` says where every record
is, in the tab's ring, in the engine or in the socket, in order and without a
gap, and the same for the requests on their way out; `Judged` ties the state of a
slot to what the engine or the socket has seen. The first lemmas show for each
operation of the engine and the socket that it keeps `Carried`, and that a step on one
slot leaves the others as they were; then there is one lemma per action. From it
`SocketsAccounted`, `Routing`, `NoLoss` and the action property `VerdictsStand`: a slot
that is CLOSING or in ERROR stays so until it is released, but that an ERROR may become
CLOSING when the engine then closes.

**PNG filters** (`StbProofs`). `PaethEquivalent`: the loader's branch-free
predictor is the writer's, for all bytes. `PredictorsAgree`: for every filter and
row, the first included, both sides use the same prediction. `LineRestored`: the
loader's `unfilter_line` gives back every line of bytes that `encode_png_line`
filters, whatever its length, the line above, the row, the size of a pixel and the
filter. The loader predicts from bytes that it has itself restored, so this is an
induction along the line.

**Size checks** (`StbProofs`, for every `INT_MAX` and `SHRT_MAX`).
`Mul2Exact` (non-negative factors), `Mad3NoOverflow` (a non-negative summand),
`AddExact`, and `Mul2ShortsExact` (a non-negative second factor): the check
accepts exactly what fits (`Mad3NoOverflow`: only what fits).

**The heap of the PNG and BMP loaders** (`StbProofs`, for every list of chunks, every BMP header,
every constant and whichever allocations fail). `HeapAlwaysSound`:
`HeapSound` follows from `HeapInv`, which says for every stage of the loader exactly
which buffers are allocated. `HeapSound` alone is not inductive: that `stbi__do_png`
frees `expanded`, `idata` and the image once each depends on which of them the
earlier stages have taken over, on the passes of an interlaced image leaving
one image and no other, and on a header with a size greater than zero, without
which there would be no pass at all. The exception that the property names, the
argument `stbi__convert_16_to_8` keeps without memory, is in the theorem too.

**The inflater** (`StbProofs`, for every list of chunks whose IDAT data are bytes
(`Bytes`), compressed well or not, and whichever allocations fail). `AlwaysTyped`:
`TypeOK` of `facet_image`, whose last part says that what is written never exceeds
the output buffer and that the bit buffer holds at most 32 bits. `InflatesBytes`:
the output are bytes, so a match takes nothing from before the output or past
what is written. Both follow from `TypeInv`. It adds to `HeapInv` that the header's
sizes are natural numbers (else the first buffer would have no size), and about the
inflater (`ZTyped`) that its reader stands in the input and never has more bits
buffered than it read or made up (`Readers`). Without that bound the header of a
stored block, which may be buffered in part, would be looked for before the input.
The loops of `stbi__zreceive` and of the code-length sizes are functions over an
interval; `Induction` and `Iterate`, described below, serve here too.

**The JPEG decoder** (`FacetJpegProofs`, for every image size and limit on it
(`DimensionsAssumption`), every job, and whichever allocations fail).
`BlocksInside` and `LinesInside` are about the sizes that the frame header computes: a
scan of one component writes inside its plane, and the resampler reads the
component's samples and writes at most three bytes past the line, the slack that
its buffer has.

`HeapAlwaysSound`: `HeapSound` follows from `HeapInv`, which says for every step which
buffers are allocated, and that `own`, what `stbi__cleanup_jpeg` will free, has
neither the state nor the result in it.

`AlwaysInside`: in every reachable state `Inside` holds, if the file is a sequence of
bytes (`Bytes`). Nothing else is asked of the file: it may be cut short or say
anything. The inductive invariant is `InsideInv`, and its main part is `Sound`. `Inside`
alone is far from inductive. That a block lies in its plane depends on the scan
header, which chose the components and laid out the blocks of an MCU, on the frame
header, which accepted the sampling factors and sized the planes, and on how far the
scan has come. That a coefficient index stays below 64 + 15 depends on the run
lengths that a Huffman table can give. So `Sound` says for each step: what the reader
holds (`Reader`: a place in the file, a bit buffer, a marker), that every Huffman table
in use is one that `stbi__build_huffman` accepted or the empty one (`IsTable`), that the
frame has sizes and factors that fit (`Sized`) and planes of that shape (`Framed`),
where the scan is (`Scans`), and which rows the resampler is at. The lemmas follow the
code: the reader from `stbi__grow_buffer_unsafe` up to `stbi__extend_receive`, the
table segments, the frame and scan headers, one lemma for each step of a block, and the
output. The loops of the reader, and those over the tables of a segment and the
sizes of a code, are functions over an interval of numbers. The lemmas
`Induction` and `Iterate` do induction on them with sets in the place of predicates,
from the well-foundedness of `<` on the naturals (`WellFoundedInduction`).

**The rasterizer** (`FacetRasterProofs`, for every canvas size, list of commands,
list of fills and first room of the two tables, and whichever allocations fail; a
colour is four bytes, `JobsAssumption`). `BuffersAlwaysSafe` and `AlwaysPremultiplied`
follow from `RInv`: the rooms, what is allocated at each step, and that the canvas has
the shape of the job and premultiplied pixels when the colours given are; in the
state that follows an undefined write it claims no more than that one command. The last
part rests on the arithmetic of `canvas_blend`: the share of the pixel that is left
is monotone and at most `255 - a`, so no sum passes 255 and none passes its alpha.
`BlendExact` says the same of the operator: it is source-over, without the wrap.

**Only model-checked.** All liveness (`Delivered`, `FairDispatch`,
`LockReleased`, `PumpReturns`, `DeadReleased`, `DataArrives`), which the prover
does not reach; `NoLostAccept` where messages are sent to acceptors (it fails there);
what the decoders return (`Decoded` and `GoodFilesDecode` of `facet_image`,
`SamplesRight`, `PixelsRight` and `GoodFilesDecode` of `facet_jpeg`, the two `Progress`)
and what a fill paints (`Painted`, `StaysInside`). The proofs about the inflater and
the JPEG decoder bound what their readers and tables can give. What they compute is another matter:
that a Huffman code, an inverse transform, the flattening of a curve or a winding
number is the right one speaks of folds and of functions whose recursion is over
the data, and the library's induction theorems take an operator, which the provers
cannot instantiate. That the files of the JPEG writer are sequences of bytes, the
hypothesis of `AlwaysInside`, is left to the type `unsigned char`; TLC checks
`Inside` without it.

## Comparison with the compiled code

The models of the C code were also compared with the code itself, compiled and
given the jobs of the runs.

- Rasterizer: all 778 jobs of the 4x3 canvas give the same pixels as `facet_raster.c`, with 64
  initial entries in its tables where the run has 2.
- PNG and BMP: all 278 decodes end as in the compiled `stb_image.h`, with the same
  pixels, but for three whose pixels come from palette entries that the file does
  not set (uninitialised in the code, a member of `Junk` in the model). The 18 files
  that the writers make are the same byte for byte, the checksums of chunks and
  the size field of a BMP apart, when `stb_image_write.h` is compiled with the hash,
  the window and the block length of the run.
- JPEG: the 109 distinct pairs of a file and a requested number of components.
  With uninitialised memory all 0, all agree. With every byte 90, 106 agree; the
  other three are progressive files with coefficients that no scan writes, where
  the model has 90 in a 16-bit coefficient and the byte pattern makes it 0x5A5A.
  With 16-bit words of 90 these agree too. The build with SSE2 kernels gives the same
  results as the portable one.

## Where code and comments disagree

Three disagreements are runs that TLC shows violated (above). The following were met
while modelling; the models do what the code does.

Kernel:
- `sys_ipc_recv` may return with the caller still marked IPC_BLOCKED
  (`syscall_ipc.salt:145`, `181`).
- The idle loop of the exit path never dispatches a READY process again
  (`syscall_sched.salt:98`, `118`).
- The exit code of a zombie, and mail that waits for a process entering accept,
  share a word with messages and are overwritten by them.
- The terminal thread halts in `proc_switch.S:185` while others are alive; resumed
  with interrupts off, it stops the machine.
- A SYN between the test of `pending_accept` and the block of the process that found
  nothing wakes nobody (`syscall_handlers.salt:298`); the next SYN wakes it.
- The drained OP_EXIT posts a completion and returns, where `ring_abi.salt:274` says
  "post CQE first, then exit (never returns)".
- Slots from 16 up index past RING_TABLE in `init_ring`; the model leaves them out.
- `mmap` tests no limit, where `syscall_test.salt:74` says "Mmap requests over the user
  limit should fail". A length that wraps maps nothing and sets `mmap_base` below,
  and so does an end of the heap in the last page.
- A spawn that fails after `alloc_pid` leaves a READY slot with no frame; the
  priority of a pulse goes to slot 0.
- Exit frees no address space (`user_paging.salt:443` is a stub), and
  `keuos_reclaim` has no caller.
- A rolled-back grant leaves PTE_SHARED on the source. `grant`, `brk` and `mmap` report
  success when there was no page for a table. Ring pages that were granted stay
  mapped in the other process after exit frees them.
- A spawn without memory maps frame 0, and `pmm.free(0)` then empties the list.
- `pmm.salt` describes a lock-free list and has spinlocks; `init_cpu_count` and
  `retain` have no callers.

Image files:
- `resample_row_h_2` exchanges the two weights of the last sample but one;
  `PixelsRight` compares with the weights as they are in the code.
- The Huffman index 255 is also the mark "not accelerated".
- A JPEG whose segment after the frame cannot be read is returned as a success;
  one whose test cannot allocate is reported as of unknown type.
- `stbi__mul2shorts_valid` compares the wrong way round for two negative factors,
  which no caller passes.
- `stbi__convert_16_to_8` keeps its argument when out of memory, and the caller
  may then flip a null image; `stbi_write_png_to_mem` keeps the compressed data
  when the output cannot be allocated.
- A palette index beyond the palette, and progressive coefficients that no scan
  writes, read uninitialised memory.
- The palette size of an OS/2 BMP is computed with 24 instead of 12, four entries
  short (`stb_image.h:5559`): the last four colours are not read, a palette of four is
  refused, and of a smaller one nothing is read.
- `stbi_zlib_compress` of no data writes no block; past its end the inflater's
  `zreceive` makes up zeros without noting the end.

Rasterizer:
- `facet_raster.h:6` says that the fill is anti-aliased, and `test_raster.c:596` asserts
  partial alpha on a diagonal edge; the fill has none, and that test fails.
- The size of a canvas is a product of `uint32_t` that may wrap
  (`facet_raster.c:103`), and clearing it then writes past its buffer.
- A path that cannot grow is written past its end; an edge that cannot be stored
  unbalances the row, which is then filled to its right end.
- Open subpaths are not closed, edges that are nearly flat are dropped, and
  colours that are not premultiplied wrap in a byte.

TLS bridge:
- `netd_tls_send` says that it returns -1 on error (`tls_bridge.c:247`) and never
  does. A peer that ends the stream without close_notify may keep `netd_tls_pump` in its
  loop for ever, and with it the daemon's one thread, though its comment
  (`tls_bridge.c:151`) lists three results. An errno other than EAGAIN, EINTR included,
  ends the connection. A connection is ESTABLISHED only when it first receives data.

## Not modelled

- The rest of the kernel: the fiber scheduler and work stealing, slab cache and
  reclamation, the sharded allocator, the IPC fast path and arbiter, the network
  stack, the entity component system, file systems, drivers and boot. These are
  separate parts, each large enough for modules of its own.
- Of the parts that are modelled: the adaptive consumer and wake flag of the
  ring; calls that only report (`ps`, `meminfo`); page flags, the kernel half and
  the trampolines of an address space; addresses above 128 MB in the allocator,
  which have no count.
- `stb_image.h` has loaders for GIF, PSD, PIC, PNM, HDR and TGA, which
  `facet_image.c` compiles out; the 16-bit, float, callback and stdio entry
  points have no caller. The SIMD kernels are left out (compared above). The JPEG writer's
  colour conversion, transform and quantisation are in floating point; a unit
  starts as its quantised coefficients. Checksums of PNG chunks, and writer
  allocations that fail, are left out.
- Facet's display and GPU headers only declare; `facet_os.c` is one system call
  per function; the compositor and widgets lay out and draw in floating point;
  `keuos_rt.c` has functions of one or two assignments; the benchmark times one
  picture.
- User programs: `ProcSched` and `UserMem` let a program make any call they model,
  in any order.
