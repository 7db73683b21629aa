----------------------------- MODULE Statistics -----------------------------
(***************************************************************************)
(* The numbers a run is judged by.  The worker counts what it does with    *)
(* every frame (BenchStats in main.cpp, Receiver::Stats,                   *)
(* Transmitter::Stats) and times the callbacks of one sample window; the   *)
(* control thread's loop reads the counters once per interval while the    *)
(* worker goes on, stops the run when too many frames were rejected in one *)
(* interval, and summarises the counters after the drain.                  *)
(*                                                                         *)
(* Every step of the engine is a step of module Engine; the store to a     *)
(* counter is a step of its own, before or after it as in the code, so     *)
(* that the control thread, a signal or the kernel may come in between.    *)
(* The counters are relaxed atomics of one writer; its stores are taken in *)
(* program order, as x86, the code's only target, makes them visible.      *)
(***************************************************************************)
EXTENDS Engine

CONSTANTS
  RejectionLimit,  \* TX_REJECTION_LIMIT
  SampleCapacity,  \* SAMPLE_CAPACITY
  MaxPackets       \* bound on the packets that arrive

ASSUME StatisticsAssumption ==
  RejectionLimit \in Nat /\ SampleCapacity \in Nat /\ MaxPackets \in Nat

VARIABLES
  count,                         \* the value of every counter
  phase,                         \* how far the writer is with what it counts
  due,                           \* the store to a counter that comes next
  timed,                         \* timed of the callback under way
  enabled, n_samples, dropped,   \* Samples: enabled_, n_, dropped_
  control,                       \* where the control thread is
  g_stop, stop_reason,
  frames_rejected,               \* the counter as stats() returned it
  last_rejected,
  run,                           \* RunSummary, once it is complete
  before_window,                 \* history: callbacks begun before the sample window opened
  since_read, burst              \* history: rejections since the last stats(), and whether there
                                 \* were more than RejectionLimit between two of them

Counted == Outcomes \cup {"callbacks", "received", "submitted", "reclaimed"}

Nothing == [counter |-> "received", amount |-> 0]

writevars   == <<phase, due, timed>>
loopvars    == <<control, g_stop, stop_reason, frames_rejected, last_rejected, run>>
samplevars  == <<enabled, n_samples, dropped>>
historyvars == <<before_window, since_read, burst>>
statvars    == <<count, writevars, samplevars, loopvars, historyvars>>
allvars     == <<vars, statvars>>

StatInit ==
  /\ Init
  /\ count = [c \in Counted |-> 0]
  /\ phase = "between" /\ due = Nothing /\ timed = FALSE
  /\ enabled = FALSE /\ n_samples = 0 /\ dropped = 0
  /\ control = "loop" /\ g_stop = FALSE /\ stop_reason = "signal"
  /\ frames_rejected = 0 /\ last_rejected = 0
  /\ run = [count |-> count, abandoned |-> 0, samples |-> 0]
  /\ before_window = 0 /\ since_read = 0 /\ burst = FALSE

-----------------------------------------------------------------------------
(***************************************************************************)
(* The worker, and the drain after it.                                     *)
(***************************************************************************)
Recording == n_samples < SampleCapacity /\ enabled

\* Samples::record.
Record ==
  IF n_samples < SampleCapacity
  THEN n_samples' = n_samples + 1 /\ UNCHANGED dropped
  ELSE dropped' = dropped + 1 /\ UNCHANGED n_samples

\* The callback begins: whether it is timed is decided now.
BeginCallback ==
  /\ phase = "between" /\ pc = "callback" /\ i < n
  /\ phase' = "begun"
  /\ timed' = Recording
  /\ UNCHANGED <<vars, count, due, samplevars, loopvars, historyvars>>

\* It counts itself before it looks at the frame.
StoreCallbacks ==
  /\ phase = "begun"
  /\ phase' = "counted"
  /\ count' = [count EXCEPT !["callbacks"] = @ + 1]
  /\ UNCHANGED <<vars, due, timed, samplevars, loopvars, historyvars>>

\* k is to be added to counter c; zero is not added.
Owe(c, k) ==
  /\ phase' = IF k > 0 THEN "store" ELSE "between"
  /\ due' = IF k > 0 THEN [counter |-> c, amount |-> k] ELSE Nothing
  /\ UNCHANGED <<count, timed, samplevars, loopvars, historyvars>>

\* The frame is disposed of; its outcome is counted next.
CountedCallback ==
  /\ phase = "counted"
  /\ \E outcome \in Outcomes : Callback(outcome) /\ Owe(outcome, 1)
  /\ UNCHANGED <<kvars, expired>>

\* The store or fetch_add that is due; a callback that is sampled ends with its
\* sample.
StoreDue(sampled) ==
  /\ phase = "store"
  /\ count' = [count EXCEPT ![due.counter] = @ + due.amount]
  /\ since_read' = IF due.counter = "rejected" THEN since_read + due.amount ELSE since_read
  /\ phase' = IF sampled THEN "record" ELSE "between"
  /\ timed' = sampled
  /\ due' = Nothing
  /\ UNCHANGED <<vars, samplevars, loopvars, before_window, burst>>

\* Faulty forms: a callback that stages nothing is not sampled; whether a callback
\* is sampled is decided when it ends.
StoreStagedOnly == StoreDue(timed /\ due.counter = "staged")

StoreDecidesLate == StoreDue(Recording /\ due.counter \in Outcomes)

\* Decided when the callback began.
Store == StoreDue(timed)

RecordSample ==
  /\ phase = "record"
  /\ Record
  /\ timed' = FALSE
  /\ phase' = "between"
  /\ UNCHANGED <<vars, count, due, enabled, loopvars, historyvars>>

\* Faulty form: the second reclamation of a pass is not counted.
FramesReclaimedFirstOnly == IF pc = "reap" THEN ReclaimAmount(N) ELSE 0

\* What reclaim_completed_frames adds to frames_reclaimed_.
FramesReclaimed ==
  CASE pc = "reap"                       -> ReclaimAmount(N)
    [] pc = "reap_again" /\ reaped < N   -> ReclaimAmount(N - reaped)
    [] OTHER                             -> 0

\* publish_and_service_tx: the counters follow the rings.
CountedService ==
  /\ phase = "between"
  /\ \/ PublishTx /\ Owe("submitted", Len(staged))
     \/ (ReapFirst \/ ReapAgain) /\ Owe("reclaimed", FramesReclaimed)
     \/ KickTx /\ UNCHANGED statvars
  /\ UNCHANGED <<rvars, kvars, expired>>

\* Receiver::run adds what a pass processed when the pass is over.
CountedPass ==
  /\ phase = "between"
  /\ KickRx
  /\ Owe("received", n)
  /\ UNCHANGED <<kvars, expired>>

UncountedStep ==
  /\ phase = "between"
  /\ RunExit \/ RxPoll \/ ReleaseRx \/ FillCheck \/ Refill \/ Prefill
  /\ UNCHANGED <<kvars, expired, statvars>>

WorkerCounts ==
  \/ BeginCallback \/ StoreCallbacks \/ CountedCallback
  \/ Store \/ RecordSample
  \/ CountedService \/ CountedPass \/ UncountedStep

-----------------------------------------------------------------------------
(***************************************************************************)
(* The control thread.                                                     *)
(***************************************************************************)

\* while (!g_stop)
LoopTest ==
  /\ control = "loop"
  /\ pc # "prefill"
  /\ control' = IF g_stop THEN "stopping" ELSE "asleep"
  /\ UNCHANGED <<vars, count, writevars, samplevars, historyvars,
                 g_stop, stop_reason, frames_rejected, last_rejected, run>>

\* Callbacks that decided whether they are timed.
Begun == count["callbacks"] + (IF phase = "begun" THEN 1 ELSE 0)

\* The thread has slept for a second, which is all of SAMPLE_WARMUP: the sample
\* window is opened unless it was before or a stop is under way.
StartSamples ==
  /\ control = "asleep"
  /\ control' = "awake"
  /\ enabled' = (enabled \/ ~g_stop)
  /\ before_window' = IF enabled' /\ ~enabled THEN Begun ELSE before_window
  /\ UNCHANGED <<vars, count, writevars, n_samples, dropped, since_read, burst,
                 g_stop, stop_reason, frames_rejected, last_rejected, run>>

\* The counters are read.  Of what is read only the rejections are used, in the
\* next step.
ReadStats ==
  /\ control = "awake"
  /\ control' = "decide"
  /\ frames_rejected' = count["rejected"]
  /\ since_read' = 0
  /\ burst' = (burst \/ since_read > RejectionLimit)
  /\ UNCHANGED <<vars, count, writevars, samplevars, before_window,
                 g_stop, stop_reason, last_rejected, run>>

\* Faulty forms: last_rejected is updated only when there was an anomaly; the
\* anomaly does not stop the run.
DecideKeepsLast ==
  /\ control = "decide"
  /\ control' = "loop"
  /\ LET anomaly == frames_rejected - last_rejected > RejectionLimit
     IN  /\ stop_reason' = IF anomaly THEN "tx_rejection_anomaly" ELSE stop_reason
         /\ g_stop' = (g_stop \/ anomaly)
         /\ last_rejected' = IF anomaly THEN frames_rejected ELSE last_rejected
  /\ UNCHANGED <<vars, count, writevars, samplevars, historyvars, frames_rejected, run>>

DecideGoesOn ==
  /\ control = "decide"
  /\ control' = "loop"
  /\ LET anomaly == frames_rejected - last_rejected > RejectionLimit
     IN  stop_reason' = IF anomaly THEN "tx_rejection_anomaly" ELSE stop_reason
  /\ last_rejected' = frames_rejected
  /\ UNCHANGED <<vars, count, writevars, samplevars, historyvars, g_stop, frames_rejected, run>>

\* Too many rejections since the last report stop the run.
Decide ==
  /\ control = "decide"
  /\ control' = "loop"
  /\ LET anomaly == frames_rejected - last_rejected > RejectionLimit
     IN  /\ stop_reason' = IF anomaly THEN "tx_rejection_anomaly" ELSE stop_reason
         /\ g_stop' = (g_stop \/ anomaly)
  /\ last_rejected' = frames_rejected
  /\ UNCHANGED <<vars, count, writevars, samplevars, historyvars, frames_rejected, run>>

StopAndJoin ==
  /\ \/ control = "stopping" /\ RequestStop
     \/ phase = "between" /\ (JoinAndDrain \/ DrainCheck)
  /\ UNCHANGED statvars

\* Faulty form: the counters are read before the drain.
SummariseEarly ==
  /\ control = "stopping"
  /\ pc \in {"exited", "done"}
  /\ control' = "done"
  /\ run' = [count |-> count, abandoned |-> outstanding, samples |-> n_samples]
  /\ UNCHANGED <<vars, count, writevars, samplevars, historyvars, g_stop, stop_reason, frames_rejected,
                 last_rejected>>

\* What drain_until returned, and the counters after it.
Summarise ==
  /\ control = "stopping"
  /\ pc = "done"
  /\ control' = "done"
  /\ run' = [count |-> count, abandoned |-> outstanding, samples |-> n_samples]
  /\ UNCHANGED <<vars, count, writevars, samplevars, historyvars, g_stop, stop_reason, frames_rejected,
                 last_rejected>>

ControlLoop == LoopTest \/ StartSamples \/ ReadStats \/ Decide \/ StopAndJoin \/ Summarise

\* SIGINT or SIGTERM.
Signal ==
  /\ ~g_stop
  /\ g_stop' = TRUE
  /\ UNCHANGED <<vars, count, writevars, samplevars, historyvars,
                 control, stop_reason, frames_rejected, last_rejected, run>>

\* 1 from the moment a callback counted itself to the one its frame is disposed of.
InHand == IF phase = "counted" THEN 1 ELSE 0

\* The kernel, until MaxPackets have arrived.
KernelStep ==
  /\ Kernel
  /\ rx'.q # rx.q => count["callbacks"] - InHand + Len(RxPending) < MaxPackets
  /\ UNCHANGED statvars

StatNext ==
  \/ WorkerCounts \/ ControlLoop \/ Signal \/ KernelStep
  \/ DeadlinePasses /\ UNCHANGED statvars
  \/ control = "done" /\ UNCHANGED allvars

StatSpec ==
  /\ StatInit /\ [][StatNext]_allvars
  /\ WF_allvars(WorkerCounts) /\ WF_allvars(ControlLoop)
  /\ WF_allvars(DeadlinePasses /\ UNCHANGED statvars)

-----------------------------------------------------------------------------
(***************************************************************************)
(* Properties.                                                             *)
(***************************************************************************)
Summaries == [count : [Counted -> Nat], abandoned : Nat, samples : Nat]

\* Every variable has its type.
StatTypeOK ==
  /\ count \in [Counted -> Nat]
  /\ phase \in {"between", "begun", "counted", "store", "record"}
  /\ due \in [counter : Counted, amount : Nat] /\ timed \in BOOLEAN
  /\ enabled \in BOOLEAN /\ n_samples \in 0..SampleCapacity /\ dropped \in Nat
  /\ control \in {"loop", "asleep", "awake", "decide", "stopping", "done"}
  /\ g_stop \in BOOLEAN /\ stop_reason \in {"signal", "tx_rejection_anomaly"}
  /\ frames_rejected \in Nat /\ last_rejected \in 0..frames_rejected
  /\ run \in Summaries
  /\ before_window \in Nat /\ since_read \in Nat /\ burst \in BOOLEAN

\* Callbacks whose outcome is counted.
Disposed == count["staged"] + count["rejected"] + count["unsupported"]

\* "Each counter is race-free; the group is not one coherent snapshot"
\* (main.cpp:467).  What a reader may rely on all the same, whatever stores he
\* comes between: no more frames are counted as reclaimed than as submitted, as
\* submitted than as staged, as received than as callbacks, and the outcomes
\* are behind the callbacks by the one under way at most.  Between two stores
\* the counters account for every frame: what is staged is submitted or in the
\* open window, what is submitted is reclaimed or outstanding, and a callback
\* belongs to a pass that is counted or under way.
CountersAccountForFrames ==
  /\ count["reclaimed"] <= count["submitted"] /\ count["submitted"] <= count["staged"]
  /\ count["received"] <= count["callbacks"]
  /\ count["callbacks"] - Disposed \in {0, 1}
  /\ phase = "between" =>
       /\ count["callbacks"] = Disposed
       /\ count["staged"] = count["submitted"] + Len(staged)
       /\ count["submitted"] = count["reclaimed"] + outstanding
       /\ count["callbacks"] = count["received"] + (IF pc = "callback" THEN i ELSE n)

\* The summary written to run_metadata.txt adds up: every frame received was
\* seen by the callback, every staged one was submitted, and every submitted
\* one came back or is reported as abandoned.
SummaryAddsUp ==
  control = "done" =>
    LET c == run.count
    IN  /\ c["received"] = c["callbacks"]
        /\ c["callbacks"] = c["submitted"] + c["rejected"] + c["unsupported"]
        /\ c["submitted"] = c["reclaimed"] + run.abandoned
        /\ run.abandoned = Len(tx.q) + Cardinality(kernel_tx) + Len(cq.q)

\* The limit is a "Count per reporting interval, not packets/s" (main.cpp:55):
\* the run is stopped as an anomaly exactly when more than RejectionLimit
\* frames were rejected between two reads of the counter, however the
\* rejections and the reads interleave.
AnomalyIsPerInterval ==
  control # "decide" => (stop_reason = "tx_rejection_anomaly" <=> burst)

\* "all_callbacks_including_unsupported_and_tx_rejections",
\* "first_capacity_callbacks_or_worker_stop" (main.cpp:134): the samples are
\* those of the first SampleCapacity callbacks that began after the window
\* opened; the one it opened in the middle of is not among them, the one
\* under way is recorded when it ends, and none is dropped.
SamplesAreFirstCallbacks ==
  /\ dropped = 0
  /\ LET callbacks == Begun - before_window
         under_way == IF timed THEN 1 ELSE 0
     IN  n_samples + under_way = IF ~enabled THEN 0 ELSE Min2(SampleCapacity, callbacks)

\* A burst of rejections ends the run, whatever the kernel does.
BurstEndsRun == since_read > RejectionLimit ~> control = "done"
=============================================================================
