# A TLA+ model of the AF_XDP reflector

The program receives packets on one NIC queue through an AF_XDP socket, swaps
the endpoints of supported UDP packets in place and sends them back from the
same UMEM frame. This directory holds a model of it in TLA+: modules translated
from the C++ source, TLC configurations that check small instances, and proofs
checked by TLAPS.

## 1. The system

| Part | Source | State | Operations | What makes it hard |
|---|---|---|---|---|
| Descriptor ring | `include/afxdp/ring.hpp` | shared `*producer_`, `*consumer_`, slots; private `cached_prod_`, `cached_cons_` | `readable_range`, `release_consumed_entries`, `writable_range`, `publish_written_entries`, `queued_entry_count` | two ends without locks, stale cached indices, 32-bit wrap-around |
| Frame allocator | `frame_alloc.hpp` | LIFO stack of frame addresses | `alloc`, `free` | a double free runs past the array |
| Transmitter | `transmitter.hpp` | open window (`reserved_`, `tx_start_`, `tx_avail_`, `tx_used_`), `outstanding_` | `send_in_place`, `publish_and_service_tx`, `reclaim_completed_frames`, `drain_until` | top-up of a half-used window, failed wakeups with partial progress, budgets, deadline |
| Receiver | `receiver.hpp` | the current batch | `run`, `process_rx_and_maintain_io`, `prepare_thread` | one pass does RX, TX, refill and wakeup while the kernel moves all four rings |
| Socket | `xsk.hpp` | fd, four rings, mode flags | `create`, `refill_fill`, `request_rx_progress`, `request_tx_progress`, `kernel_stats` | need-wakeup flags, partial setup |
| UMEM | `umem.hpp` | the mapping | `create`, moves, `release` | fallbacks, a raw mapping before the object exists |
| XDP loader | `xdp_loader.hpp` | `redirecting_`, `ifindex_`, kernel map entry and attachment | `create`, `stop_redirect`, `detach`, `release`, `update_filter_ip` | failure halfway, failing undo |
| Filter program | `bpf/xdp_prog_bpf.c` | two maps | `xdp_filter_ip` | bounds before every read, VLAN depth, maps that change meanwhile |
| Benchmark helpers | `bench.hpp` | sample buffer | `Samples`, `reflect_swap`, `calibrate_tsc` | window opened by the other thread, percentile index, unsigned lengths, checksums that are not recomputed |
| Run life cycle | `main.cpp` | handshake flags, stop state, objects alive, exit code, run summary | `main`, `run_receiver`, signal handler | handshake between threads, signals at any moment, destructor order, counters read while they change |
| Common | `common.hpp` | one fd | error values, `FileDesc`, `log` | moves |

The **worker** thread owns the rings and the allocator from the moment it is
started until it is joined; then the **control** thread owns them for the drain.
The **kernel** is the other end of all four rings. A frame travels

    allocator -> FILL -> kernel -> RX -> allocator                 (recycled)
                                   RX -> staged -> TX -> kernel
                                                -> COMPLETION -> allocator

What each part must guarantee:

* ring: a FIFO; no queued entry is overwritten; no entry is read before it is
  published; all of it across index wrap-around;
* allocator, transmitter, receiver, socket together: every frame has exactly one
  owner, `outstanding_` is exact, only frame bases are handed out, nothing stays
  staged after a pass, and no missed wakeup stops the flow of frames;
* life cycle: packets are redirected only to a prepared worker, the worker only
  touches live objects, every exit releases what was acquired in the right
  order, a stop always ends the run, and exit code and metadata tell failures
  (the exceptions are named in section 3);
* construction: each kernel resource has one object that releases it, through
  every fallback, move and failure, and the recorded modes are the granted ones;
* statistics: the counters are no coherent snapshot but always in order, and account
  for every frame between two stores; the summary adds up, the rejection limit holds per report interval, and the samples are the
  first callbacks after the window opens;
* filter and reflector: no read past a packet, exactly the intended packets are
  redirected and reflected, checksums stay valid;
* samples: printed percentiles are quantiles, an exported CSV is complete.

The hazards behind these, at the source lines where they bite, are listed in
`PROJECT.json`.

## 2. Modules

| Module | Models | State and actions |
|---|---|---|
| `RingView` | `MmapRing` as one end sees it: the queue `q` and `seen = cached_prod_ - cached_cons_` | operators for each method, used by everything below |
| `FifoRing` | abstract: what a ring promises | reserve, top up, stage, publish; open, read, release |
| `Ring` | `MmapRing` with its indices modulo `M = K * N` and how its clients use windows | one action per shared-memory access; implements `FifoRing` |
| `FrameAllocator` | the stack, frame addresses (frame number and offset) | `AllocK`, `FreeAll` (with the mask), `AllFree` |
| `Transmitter` | `Transmitter` | `SendInPlace`; `PublishTx`, `ReapFirst`, `KickTx`, `ReapAgain` are `publish_and_service_tx` cut at its accesses to kernel memory |
| `Receiver` | `Receiver::run` and a pass, `refill_fill`, the RX wakeup, main's callback | `RunExit`, `RxPoll`, `Callback`, `ReleaseRx`, `FillCheck`, `Refill`, `KickRx`, `Prefill` |
| `FrameOwnership` | abstract: the cycle above, as eight sets of frames | nine moves |
| `Engine` | worker, drain and kernel together; implements `FrameOwnership` | adds the kernel's actions, `RequestStop`, `JoinAndDrain`, `DrainCheck`, `DeadlinePasses` |
| `Statistics` | `Engine` with the counters of `Transmitter`, `Receiver` and the callback, the sample window, the control loop of `run_receiver` and the run summary | each worker action of `Engine`, and each counter store as a step of its own: a callback is `BeginCallback`, `StoreCallbacks`, `CountedCallback`, `Store`, `RecordSample`; `CountedService` and `CountedPass` leave a store `due` for `Store`; `UncountedStep` is the rest of a pass. The control loop is `LoopTest`, `StartSamples`, `ReadStats`, `Decide`, `StopAndJoin`, `Summarise`; `Signal` |
| `Lifecycle` | `main` and `run_receiver` of both threads, signal handlers, `XdpLoader`, destructors, exports | one action per step visible to the other thread or able to fail |
| `Construction` | `Umem::create`, `Xsk::create`, `MmapRing::create`, `XdpLoader::create`, the moves and destructors of their objects | one action per system or library call; `stack` is the C++ objects in order of construction, each with the handles it would release; `Explicitly` is what main gives back by hand, where a message about a refusal may throw; `DestroyLast` is one step of a destructor |
| `XdpFilter` | `xdp_filter_ip` and the loader's writes to its maps | one action per read of the packet or of a map; `Attach`, `SetTargetIp`, `UpdateFilterIp`, `StopRedirect`, `Detach` in between; `configured`, a history variable, holds the addresses written so far |
| `Reflector` | `reflect_swap` | `Supported` with all checks, `SwapEndpoints`; a frame is reflected twice |
| `Samples` | `Samples::record`, `report`, `dump_csv` | record, sort and print, then one action per write of the CSV |
| `RingProofs` | theorems about `Ring` | |
| `EngineProofs` | theorems about `Engine`: lemmas on sequences of frame addresses, `alloc` and `free`, on the rings and the quiet steps; the steps that move frames, the callback and the results | |
| `StatisticsProofs` | theorems about `Statistics`, on top of `EngineProofs` | |
| `ReflectorProofs` | theorems about `Reflector` | |
| `XdpFilterProofs` | theorems about `XdpFilter` | |
| `LifecycleProofs` | theorems about `Lifecycle` | |
| `ConstructionProofs` | theorems about `Construction` | |
| `SamplesProofs` | theorems about `Samples` | |
| `MCRing`, `MCEngine`, `MCStatistics`, `MCLifecycle`, `MCConstruction`, `MCXdpFilter`, `MCReflector`, `MCSamples` | the modules TLC runs | |

`pc` in `Engine` is the program counter of the thread that owns the rings;
`owner` says which thread that is. In `Lifecycle`, `cpc` and `wpc` are the
control thread's and the worker's; there the worker's packet loop is one state,
and the drain one step that succeeds or not. `atomic::wait` is a test that
either goes on or falls asleep, atomically as the standard promises, and
`notify_one` wakes the sleeper to test again. `failed` is a history variable.

Definitions marked "Faulty form" are not part of the model. Each is a definition
with a plausible mistake; putting it in the place of the correct one makes TLC
report a violation of the property named in `PROJECT.json`.

### Abstractions

* A descriptor in `Ring` is an element of `Values`. In the engine it is a frame
  and an offset; lengths are reduced to the outcome of `0 < length <= frame_size`,
  and packet contents to whether the reflector supports them.
* `Engine` uses `RingView`, not `Ring`: it keeps the entries and the cached
  occupancy and drops the absolute indices. The proof that `Ring` implements
  `FifoRing`, which is written with the same operators, is what justifies this.
* `reclaim_completed_frames`, `refill_fill` and the release of a batch each touch
  the shared index once on entry and once at the end. What lies between only
  touches private memory and slots the other end may not use, so each is one
  step.
* Reading `need_wakeup` twice in a row (`receiver.hpp:144`, `xsk.hpp:82`) is one
  step: the second read can only skip a wakeup the kernel no longer wants.
* The kernel is modelled from what the code relies on: it takes FILL and TX
  entries while it is awake, delivers and completes in any order, takes a TX
  entry only when a COMPLETION slot is sure to be there, and may ask for a
  wakeup at any time, having looked at the ring earlier. A wakeup call may fail
  and work all the same.
* Memory order: an index is stored with release and loaded with acquire, so the
  slots written before a store are visible to whoever loads the index; the
  interleaving semantics of the model is what those accesses provide.
* `Statistics` keeps `Engine` whole and adds to it. It leaves out the counters that
  nothing relates to a frame (bytes, refills, wakeup errors). Every other counter
  store is a step of its own, after the step it counts, and the control loop may
  come between any two. `phase` says how far the thread is, `due` which store it owes,
  `timed` whether the callback under way is to be sampled. Stores become visible in
  program order, as they do on x86, the only target. `ReadStats` reads all counters
  in one step because only one of them, the rejections, is used before the worker is
  joined. `MaxPackets` bounds the arrivals and with them the counters.
* `Lifecycle` leaves the control loop's numbers out: a report may find an anomaly or
  not. The second the loop sleeps is a state of its own (`interval`), in which a signal
  may come. It and `Construction` cut the same code differently: `Lifecycle` has both
  threads and signals and one step per create function, `Construction` one thread
  and a step per call; the worker is there a resource that is joined.
* A call that fails, throws or is refused is one choice of the model. In
  `Construction` the kernel refuses to detach in another mode than that of the
  attachment.
* A packet in `XdpFilter` is its length, the type field behind each tag, its source
  and whether it is on the socket's queue. A frame in `Reflector` is the fields
  `reflect_swap` looks at or moves; the flags and fragment offset are the set of
  bits that are set. Endpoint fields are numbers: checksums are ones' complement
  sums of 16-bit words, for which only the sum matters.
* In `Samples` the product of doubles behind a percentile index may come out just
  below a whole number, and `ns_per_tick` is the inverse of an odd number, so that
  rounding has no ties. `std::sort` is what it promises: position `k` holds the value
  that fewer than `k` samples lie below and at least `k` do not exceed (`Sorted`).

## 3. Runs

| Run | Instance | Shows |
|---|---|---|
| `ring` | `N = 4`, index space of 8, two values | type, `CachedViewsAreSafe`, `NoOverwrite`, and `FifoSpec`: the refinement of `FifoRing` |
| `engine` | `N = 2`, 3 frames, batch 2, busy polling | `FrameConservation`, `OutstandingExact`, `NothingOverflows`, `FrameBasesOnly`, `NothingLeftStaged`, and `OwnershipSpec`: the refinement of `FrameOwnership` |
| `engine_live` | `N = 2`, 2 frames, no busy polling | `TxFramesComeBack`, `ReceptionIsFed`, `FillReachesDriver` |
| `engine_stop` | `N = 2`, 2 frames, batch 1, threshold 2 | `StopEnds`, without any assumption on the kernel |
| `lifecycle` | exceptions allowed | `WorkerOwnsLiveRings`, `RedirectedToPreparedWorker`, `NothingLeftBehind`, `ExitCodeTellsFailure`, `MetadataExplainsExit`; `StopLeadsToExit`, `StartupCompletes` |
| `statistics` | `N = 2`, 2 frames, 2 packets, rejection limit 1, room for 1 sample | `CountersAccountForFrames`, `SummaryAddsUp`, `AnomalyIsPerInterval`, `SamplesAreFirstCallbacks` |
| `statistics_live` | the same with 1 frame | `BurstEndsRun` |
| `construction` | all four settings of huge pages and zero copy | `OneOwnerPerResource`, `NothingLeaks`, `LifetimesNest`, `ModesAreTheGrantedOnes`; `WorkerGoesBeforeLoader` |
| `xdp_filter` | lengths around every header boundary, zero and one other address | `ReadsWithinPacket`; `VerdictIsRight`, `OnlyConfiguredSources` |
| `reflector` | lengths on both sides of every limit, five fragment bits | `ReflectsExactlyTheWorkload`, `ChecksumsStayValid`, `SupportedFramesFit` |
| `samples` | up to 10 samples of 3 durations, the four percentiles printed | `PercentilesAreQuantiles`, `ExportedCsvIsSortedAndComplete` |

**Bounds.** The index space of `ring` is two ring sizes, so indices wrap every
eight entries and every position of both ends relative to the wrap occurs; four
slots allow a partly used window, a stale window and a partly read batch at the
same time. Two ring slots and three frames in `engine` are the smallest instance
in which a TX ring is full while a batch still has a frame, a window is topped
up, COMPLETION fills up, and the allocator runs empty. One packet offset besides
0 suffices to tell a masked address from an unmasked one. In `engine_stop` a
batch is smaller than the ring, so a window can stay partly unread between
passes. No counter of the engine is bounded artificially: `outstanding` is bounded by the
frames. `Lifecycle` and `Construction` have no bounds at all.

In `statistics` a limit of one rejection and two packets allow an interval below, at
and above the limit and two intervals at the limit; both packets fit one batch, and one
sample leaves a callback after the window is full. One frame, as in `statistics_live`,
still allows a burst: it is recycled after each rejection. The two addresses of `xdp_filter` are the
value the map is created with and another one; each may be the source of a packet and
each may be configured. The lengths of
`xdp_filter` are the ends of each header for zero, one and two tags and one byte
less; those of `reflector` are each limit and its neighbours, with the largest
16-bit value. Ten is the first number of samples for which both `0.5 n` and `0.9 n`
are whole, where a product of doubles may fall short.

**Named exceptions.** Three properties state what the code does where a shorter
statement would be false.

* `ExitCodeTellsFailure`: `run_receiver` looks at the stop flag before the outcome of
  the worker's preparation (`main.cpp:413`), so a failed preparation that a stop
  overtakes returns zero. The history variable `failed` records it as `masked`; it is
  the only failure that does not show.
* `NothingLeftBehind` and `NothingLeaks`: if the message of `Umem::create` throws
  (`umem.hpp:107`), no object owns the mapping yet and it stays until the process ends.
* `NothingLeftBehind`: `std::terminate` ends a run without unwinding if `parse_args`,
  the message of `install_signal_handlers`, `XdpLoader::parse_ipv4` or
  `Samples::report` throws. Then the thread and the descriptors end with the process.
  The property keeps what would outlive it: no program is on the interface at these
  points.

`RedirectedToPreparedWorker` also states when the program goes. main and
`~XdpLoader` take it off only after the worker is gone. The local loader of a `create`
that throws takes it off while the worker still waits to be activated.

**Deadlock** is checked in every run but `xdp_filter`, where the system may stop:
with the program detached no packet reaches it and the loader is gone. In the others
the only states without a proper successor are the final ones, which stutter
explicitly.

**Fairness.** `engine_live` assumes that the thread owning the rings keeps
running (a `while` loop without blocking calls: every system call in it is
nonblocking), that time passes, that a transmission the kernel took completes,
that a wakeup which is tried again and again works at some point, and that a
kernel which is awake again and again serves the FILL and TX rings. The last two
are strong fairness: the driver may go back to sleep between any two steps, and
an `EAGAIN` or `EBUSY` may repeat. That the code tries again and again is what
the run checks. Nothing is assumed about the arrival of packets. Busy polling is
off, the harder case: with it on, every pass issues the system call.
`engine_stop` assumes only that the thread runs and that time passes.
`statistics_live` assumes that worker and control thread run and that time passes,
nothing of the kernel. `lifecycle` assumes that both threads run; signals are never
forced, and neither are failures and exceptions: each is one choice of a step that must
be taken.

## 4. Proofs

### The ring

`RingProofs` proves, for every ring size `N >= 2`, every index space `K * N`
with `K >= 2` and every set of values:

* `RingTypeOK`, `RingCachedViewsAreSafe`, `RingNoOverwrite`: the three
  invariants of run `ring`;
* `RingImplementsFifo`: `Spec => FifoSpec`.

None of the three is inductive alone. The inductive invariant `IInv` (module
`Ring`) adds that each end's own cached index is the shared one it publishes
(`OwnIndexIsCurrent`), that an open write window starts at the end of the queue
and fits between it and the capacity (`WriteWindow`), that an open read window
starts at the front and lies within what is published (`ReadWindow`), both with
the values in their slots, and that no queued slot is blank. The argument: the
occupancy is at most what the producing end believes, which is at most `N`; a
window of size `avail` lies within the `N` minus that many slots that follow; two
positions less than `N` apart have different slots (`SlotInjective`), so staging
leaves the queue alone. The arithmetic lemmas reduce sums and differences modulo
`M` to case splits, and use that `M` is a multiple of `N`, which holds because
ring sizes are powers of two. The refinement proof has one lemma per action and
uses only `IInv`.

### The engine

`EngineProofs` proves, for every ring size `N >= 2`, number of frames, allocator
capacity at least that, batch size up to `N`, refill threshold, set of packet offsets
and either setting of busy polling:

* `EngineTypeOK`, `EngineFrameConservation`, `EngineFrameBasesOnly`,
  `EngineOutstandingExact`, `EngineNothingOverflows`, `EngineNothingLeftStaged`:
  the six invariants of run `engine`;
* `EngineImplementsOwnership`: `Spec => OwnershipSpec`, where `OwnershipSpec` is
  `FrameOwnership` under the refinement mapping;
* `OneOwner`: that abstract cycle of moves keeps exactly one owner per frame.

The assumptions are the named `ASSUME`s of `RingView`, `FrameAllocator`,
`Transmitter`, `Receiver` and `Engine`, each a static assertion of `main.cpp` or a
type. The inductive invariant is `Engine!IInv`: the six invariants together, with
three facts that are no goals themselves. `TxWindow` says that an open window has
room for what is staged and ends within the ring; without it nothing bounds the
staged descriptors. `kernel_tx` is finite, so that its size can be counted. No RX
entry is half processed when a service pass starts, so that the drain finds
`i = 0`.

The argument goes through ownership. For every action that moves frames, the
first lemmas of `EngineProofs` (the frames of a concatenation, of a cut, of what
`alloc` and `free` leave) show that it is a step of `FrameOwnership` under the
refinement mapping, that no queue has a frame twice afterwards, and that lengths
and `seen` counts stay in order. `OwnersMove` then gives
one owner per frame in the next state, which bounds the allocator's array: a
sequence without repeated frames is no longer than there are frames
(`DistinctIsShort`). Actions that move no frame are treated together
(`QuietSteps`). The refinement follows from the same lemmas.

### The statistics

`StatisticsProofs` proves, for every value of the engine's constants and every
rejection limit and sample capacity:

* `StatisticsImplementEngine`: `StatSpec => Spec`, so that every theorem above holds
  with counters and control loop as well;
* `StatisticsAccount`, `StatisticsSummary`, `StatisticsAnomaly`, `StatisticsSamples`:
  the invariants of run `statistics`.

The inductive invariant is `IInv /\ StatInv`. `StatInv` adds to the four properties
what they lack to be inductive.

* `Accounts` states the equations of `CountersAccountForFrames` at every moment, with
  the store that is due (`Behind`) or the callback in hand added where it belongs. The
  property follows: when nothing is due the equations are the plain ones, and when
  something is due the counter that lags is the smaller one.
* `Pending` bounds the store that is due: a frame is counted as staged while it is in
  the window and as submitted while it is outstanding, an outcome is one, and nothing
  is due when the worker has left or the drain is over.
* `Passes` ties the batch counters to the program counter and the owner: between passes
  and in the drain `n` is zero, and receive passes are the worker's.
* `Judgement` says that the value read and the rejections since then add up to the
  counter, and that the verdict lags behind the history only between reading and
  decision; that is why the counter is read once.
* `Summarised` says that once the run is done the summary is the counters of that
  moment and nothing moves any more.
* `Sampled` says that the window opened at some callback of the past and that a callback
  under way is timed exactly if it is among the first after that.

The argument has three parts: steps that touch no counter (`Uncounted`), steps of the
control loop, and the steps that count. For the last, `OweTally` and `StoreTally` show
that leaving a store due and doing it keep what is stored and due together.

### The reflector

`ReflectorProofs` proves `ReflectorCorrect`, `ReflectorKeepsChecksums` and
`ReflectorFramesFit`, the invariants of run `reflector`, for every set of lengths,
fragment fields and endpoint values and every frame size that satisfies the static
assertion of `main.cpp`. The checks in the order of the code are equivalent to the
description of the workload (lengths by linear arithmetic, the mask by its bits),
and the chain of copies is the crossing of the endpoints, which is its own inverse.

### The XDP filter

`XdpFilterProofs` proves, for every set of packet lengths and source addresses (the
kernel's initial value among them):

* `ReadsStayWithinPacket`: the invariant of run `xdp_filter`;
* `VerdictsAreRight`, `OnlyConfiguredSourcesRedirected`: its two action properties,
  about the step that returns a verdict.

The inductive invariant has four parts. `Walked` says where the cursor stands: behind
the Ethernet header and `depth` tags, all announced by the type fields before them and
all within the packet; the bound on `touched` and the equivalence between the parser's
path and the declarative `Filtered` (`FilteredHere`, `FilteredBeyond`) come from it.
`Watched` says that the maps' present contents are among those the history variables
collected while the packet was processed, and that a packet on its way to `redirect`
matched one of them. `TargetConfigured` says that the program is attached, and meets packets,
only after the loader has written an address, and that every value the map holds from
then on, and every one a packet under way has met, is in `configured`. The order of
`XdpLoader::create` is what makes `OnlyConfiguredSources` true. The action properties
then follow for each way the program returns (`ReturnsRightly`); no step of the control
thread returns a verdict (`OnlyProgramReturns`).

### The life cycle

`LifecycleProofs` proves the five invariants of run `lifecycle`, whether or not
functions may throw: `WorkerAlwaysOwnsLiveRings`, `AlwaysRedirectedToPreparedWorker`,
`NothingIsLeftBehind`, `ExitCodeAlwaysTellsFailure`, `MetadataAlwaysExplainsExit`. The
state space is finite and TLC visits all of it; the proof says why the properties hold,
point by point of `main`. The points of the control thread are grouped (`Starting`,
`Building`, `Preparing`, `Loading`, ...), and the inductive invariant says for each
group which flags are up:

* `SignalsHandled`: both handlers are installed once anything exists, so a signal
  kills the process only in `Starting`;
* `WorkerKnown`, `Built`: a worker exists from `spawn` to `join`, and UMEM and socket
  exist around it; destructors run only when it is gone;
* `Hooked`: `redirecting_` and `ifindex_` agree with the kernel, and what is still
  hooked behind the loader's destructor is what the kernel refused;
* `StartupKnown`, `ActivatedRightly`: `activated` means that the program is attached or
  that a stop was requested, so a worker that runs unstopped has traffic to expect;
* `ExitCodeKnown`: the exit code is zero while nothing but a masked preparation has failed. It is inductive only
  with the clause that at exit code zero the loader's destructor finds nothing left to
  release, or else its silent failure would break it;
* `Recorded`: `RunSummary` names a reason exactly when the code is nonzero, until the
  CSV export, whose result is part of the reason afterwards.

There is one lemma for each group of steps. A step that fails or throws is handled by
four lemmas (`LeavesMain`, `LeavesBlock`, `LeavesCreate`, `LeavesReports`), one for each
place the exception passes.

### Construction and destruction

`ConstructionProofs` proves the four invariants and the action property of run
`construction`: `ResourcesHaveOneOwner`, `NothingEverLeaks`, `LifetimesAlwaysNest`,
`ModesAreAlwaysTheGrantedOnes`, `WorkerAlwaysGoesBeforeLoader`. As with the life cycle,
TLC visits the whole state space; the proof says why it holds whichever call fails.

The inductive invariant has two halves. On the way forward (`AtPoint`) the call that
comes next determines everything: which resources exist (`LiveAt`), which object owns
each (`Owners`, `Arranged`), which object was declared last (`Topmost`) and which modes
have been recorded (`Recorded`). A failed call or an exception, that of a message after a refused
`stop_redirect` or after the drain included (`ClosingLeaves`), leaves that world, and
what remains is `GoodStack`, which is what destructors keep:

* `Sorted`: objects are in the order of declaration, each at most once;
* `OneOwner`, `Covered`: no handle is stale or doubled, and whatever exists and was
  neither refused nor lost with a raw pointer is in some object's hands;
* `Supported`: what a resource uses is held by the same object or by one declared
  before it, so it is destroyed later;
* `Placed`: a raw pointer holds the UMEM only, the thread object alone holds the
  worker, and a loader that holds anything is the one that is attached;
* `Remembered`: an owner knows the mode the kernel granted, so a detach asks for the
  right one and only the kernel's refusal can leave the program on the interface.

`ArrangedIsGood` is the bridge between the halves: at every point the owner of what a
resource uses was declared no later than that resource's owner (`OwnersInOrder`).
`FirstToRelease` is why a destructor may go through `ReleaseOrder`: its first element
among what the object holds is used by nothing else the object holds. Both are about
the order of main's variables and of the members of `Xsk`. There is one lemma per
action, and one each for what moves, declarations and destructors do to a stack
(`MoveEffect`, `Entered`, `PopGood`, `ReleaseGood`). `RefusedOnly`, that the kernel
refuses map entries and detachments only, is inductive by itself and completes
`LifetimesAlwaysNest`.

### The samples

`SamplesProofs` proves the two invariants of run `samples`, `PercentilesAreAlwaysQuantiles`
and `ExportedCsvIsAlwaysSortedAndComplete`, for every capacity, set of durations,
conversion factor and set of percentiles `0 < p < 1`. The assumptions are those of
`SamplesAssumption`.

Both properties are about what was measured, and later steps see only the buffer. So
the inductive invariant relates the two (`Counted`): in every range of printed values there are as many entries
of the buffer as durations that were recorded. `record` adds one to both sides
(`OneMore`), and the sort keeps it (`SortedCounts`). The rest of the invariant is the
order that `report` leaves for `dump_csv`, which sorts nothing itself, and that the
lines written so far are a prefix of the buffer, all of it once writing ended without
an error.

The argument counts instead of following the sort. A duration prints as at most `b`
after the sort exactly at the positions up to the number of durations that print so
before it (`SortedRank`, because the conversion is monotone). A range of printed values
is thus a block of positions whose length is a difference of two such counts. The
quantile follows from the same lemma and from `i <= p * n <= i + 1` for the index `i`,
whichever way the product of doubles was rounded (`IndexBounds`). That each position
has a value at all (`KthSmallest`) is shown with least elements of sets of naturals
and needs no induction over the sequence.

### Running the provers

`tlapm M.tla` checks the proofs of module `M` with Z3 and Zenon; the three largest modules,
`ConstructionProofs`, `EngineProofs` and `StatisticsProofs`, take ten to twenty minutes
each. In the first two, Zenon
is the default (`USE ZenonT(30)`) and a leaf that needs arithmetic, or that Zenon is slow
on, names SMT. This is not only for speed: the types that tlapm infers for an SMT
obligation depend on the obligations it encoded before, so that in a module of a thousand
leaves one that Z3 proves alone may fail in a run of the whole module. Changes to these
modules should be tried with a full run from nothing.

### Only model-checked

Every safety and action property of the runs has a theorem. The liveness properties,
`TxFramesComeBack`, `ReceptionIsFed`, `FillReachesDriver`, `StopEnds`,
`StopLeadsToExit`, `StartupCompletes` and `BurstEndsRun`, are checked by TLC only, since
fairness is out of the prover's reach.

## 5. Not modelled

* Text output and logging: formatting. That they may throw is modelled. If the log
  message in `Umem::create` (`umem.hpp:107`) throws, the mapping has no owner yet and
  stays until the process ends; `NothingLeaks` and `NothingLeftBehind` name this
  exception.
* `parse_args` is one step that fails, throws or succeeds: it turns text into values.
* The result of `calibrate_tsc`: floating-point timing; here a step that may fail.
* The numbers of `kernel_stats` and the counters of bytes, refills and wakeup errors:
  they are only printed.
* Crashes of the process: nothing is persisted, and the kernel closes the socket.
