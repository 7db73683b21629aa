----------------------------- MODULE Lifecycle -----------------------------
(***************************************************************************)
(* The life of one run (main.cpp, main and run_receiver): the control      *)
(* thread that sets everything up, watches it and tears it down, the       *)
(* worker jthread, and the signals that may arrive at any moment.  The two *)
(* threads meet in the prepared/activated handshake and in request_stop    *)
(* and join.  Every early return and exception leaves through the          *)
(* destructors of the objects built so far, in reverse order.  What the    *)
(* worker does with the rings is module Engine; here it is one state,      *)
(* "run".                                                                  *)
(***************************************************************************)
EXTENDS Naturals

CONSTANT MayThrow    \* whether allocation and formatting may throw
ASSUME MayThrowAssumption == MayThrow \in BOOLEAN

VARIABLES
  cpc, wpc,             \* where the control thread and the worker are
  handled,              \* the signals signal_handler is installed for
  g_stop,               \* set by signal_handler and by the control loop
  prepared, activated,  \* the handshake flags
  startup,              \* result of the worker's preparation: "unset", "ok", "failed"
  stop_requested,       \* the jthread's stop state
  callback,             \* the stop_callback: "none", "registered", "running"
  joined,               \* poll_thread.join() was called
  umem, xsk,            \* the UMEM mapping and the socket exist
  redirecting, ifindex, \* XdpLoader: redirecting_, and whether ifindex_ is set
  map_entry, attached,  \* kernel: the xsks_map entry, the program on the interface
  exit_code,
  run,                  \* the fields of RunSummary that say why the run ended
  metadata,             \* the complete run_metadata.txt this run wrote, if any
  leaving,              \* a return or an exception is unwinding the block
  failed                \* history: what the control thread saw fail

handshake == <<prepared, activated, startup, stop_requested, callback, joined>>
hooks     == <<redirecting, ifindex, map_entry, attached>>
resources == <<umem, xsk, hooks>>
records   == <<run, metadata>>
outcome   == <<exit_code, leaving, failed, records>>
signals   == <<handled, g_stop>>
vars      == <<cpc, wpc, signals, handshake, resources, outcome>>

Signals == {"SIGINT", "SIGTERM"}

Init ==
  /\ cpc = "args" /\ wpc = "none"
  /\ handled = {} /\ g_stop = FALSE
  /\ prepared = FALSE /\ activated = FALSE /\ startup = "unset"
  /\ stop_requested = FALSE /\ callback = "none" /\ joined = FALSE
  /\ umem = FALSE /\ xsk = FALSE
  /\ redirecting = FALSE /\ ifindex = FALSE
  /\ map_entry = FALSE /\ attached = FALSE
  /\ exit_code = 0 /\ leaving = FALSE /\ failed = {}
  /\ run = [stop_reason |-> "signal", stats_failed |-> FALSE, stop_redirect_failed |-> FALSE,
            abandoned |-> FALSE, csv_exported |-> FALSE]
  /\ metadata = {}

-----------------------------------------------------------------------------
(***************************************************************************)
(* The control thread.                                                     *)
(***************************************************************************)

\* The control thread goes from one point to another.
Goto(here, there) == cpc = here /\ cpc' = there

Note(what) == failed' = failed \cup {what}

\* A return statement inside the block, or an exception that main reports.
Leave(code, through) ==
  /\ cpc' = through
  /\ leaving' = TRUE
  /\ exit_code' = code

\* One fallible setup step that builds nothing or one of the resources.
Setup(here, there, built) ==
  /\ cpc = here
  /\ \/ /\ built
        /\ cpc' = there
        /\ UNCHANGED outcome
     \/ /\ Leave(1, "unwind_thread")
        /\ Note("setup")
        /\ UNCHANGED <<resources, records>>

\* main: a failure before run_receiver returns 1 with nothing built.
Prepare(here, there, done, undone) ==
  /\ cpc = here
  /\ \/ done /\ cpc' = there /\ UNCHANGED outcome
     \/ undone /\ Leave(1, "exited") /\ Note("setup") /\ UNCHANGED records
  /\ UNCHANGED <<wpc, g_stop, handshake, resources>>

ParseArgs == Prepare("args", "sigint", UNCHANGED handled, UNCHANGED handled)

\* install_signal_handlers: SIGINT, then SIGTERM.  Without the second the first
\* is given back; whether that succeeds is not looked at.
HandleSigint == Prepare("sigint", "sigterm", handled' = {"SIGINT"}, UNCHANGED handled)

\* Faulty form: SIGTERM's handler takes the place of SIGINT's.
HandleSigtermOnly ==
  Prepare("sigterm", "cpu", handled' = {"SIGTERM"}, handled' \in {{}, {"SIGINT"}})

HandleSigterm ==
  Prepare("sigterm", "cpu", handled' = Signals, handled' \in {{}, {"SIGINT"}})

SelectCpu ==
  /\ Setup("cpu", "umem", UNCHANGED resources)
  /\ UNCHANGED <<wpc, signals, handshake>>

CreateUmem ==
  /\ Setup("umem", "xsk", umem' = TRUE /\ UNCHANGED <<xsk, hooks>>)
  /\ UNCHANGED <<wpc, signals, handshake>>

CreateXsk ==
  /\ Setup("xsk", "prefill", xsk' = TRUE /\ UNCHANGED <<umem, hooks>>)
  /\ UNCHANGED <<wpc, signals, handshake>>

\* refill_fill and the first wakeup, whose failure is only reported.
PrefillFill ==
  /\ Goto("prefill", "spawn")
  /\ UNCHANGED <<wpc, signals, handshake, resources, outcome>>

SpawnWorker ==
  /\ Goto("spawn", "wait_prepared")
  /\ wpc' = "register"
  /\ UNCHANGED <<signals, handshake, resources, outcome>>

\* prepared.wait(false): the thread sleeps only if it still sees false, and a
\* notification lets it look again.
WaitPrepared ==
  /\ cpc = "wait_prepared"
  /\ cpc' = IF prepared THEN "check_stop" ELSE "asleep"
  /\ UNCHANGED <<wpc, signals, handshake, resources, outcome>>

\* A stop before anything is attached ends the run with zero, before the
\* outcome of the preparation is looked at: a failed one is masked.
CheckStop ==
  /\ cpc = "check_stop"
  /\ IF g_stop
     THEN /\ Leave(0, "unwind_thread")
          /\ failed' = failed \cup (IF startup = "failed" THEN {"masked"} ELSE {})
          /\ UNCHANGED records
     ELSE cpc' = "check_startup" /\ UNCHANGED outcome
  /\ UNCHANGED <<wpc, signals, handshake, resources>>

\* Faulty form: the outcome of the preparation is not looked at.
CheckStartupIgnored ==
  /\ Goto("check_startup", "load_open")
  /\ UNCHANGED <<wpc, signals, handshake, resources, outcome>>

CheckStartup ==
  /\ cpc = "check_startup"
  /\ IF startup # "ok"
     THEN Leave(1, "unwind_thread") /\ Note("startup") /\ UNCHANGED records
     ELSE cpc' = "load_open" /\ UNCHANGED outcome
  /\ UNCHANGED <<wpc, signals, handshake, resources>>

\* XdpLoader::create.  A step that fails destroys the half-built loader.
LoadStep(here, there, built) ==
  /\ cpc = here
  /\ \/ built /\ cpc' = there /\ UNCHANGED outcome
     \/ Leave(1, "unwind_load") /\ Note("setup") /\ UNCHANGED <<resources, records>>
  /\ UNCHANGED <<wpc, signals, handshake>>

LoadOpen == LoadStep("load_open", "load_map", UNCHANGED resources)

\* Faulty form: the loader does not remember the map entry.
LoadMapForgets ==
  LoadStep("load_map", "load_filter",
           map_entry' = TRUE /\ UNCHANGED <<umem, xsk, redirecting, ifindex, attached>>)

LoadMap ==
  LoadStep("load_map", "load_filter",
           /\ map_entry' = TRUE
           /\ redirecting' = TRUE
           /\ UNCHANGED <<umem, xsk, ifindex, attached>>)

LoadFilter == LoadStep("load_filter", "load_attach", UNCHANGED resources)

\* Driver mode or, when that fails, generic mode.
LoadAttach ==
  LoadStep("load_attach", "load_log",
           /\ attached' = TRUE
           /\ ifindex' = TRUE
           /\ UNCHANGED <<umem, xsk, redirecting, map_entry>>)

\* create logs the mode and returns the loader.
LoadReturns ==
  /\ Goto("load_log", "check_activate")
  /\ UNCHANGED <<wpc, signals, handshake, resources, outcome>>

\* Everything is attached: the worker is let loose unless a stop came first.
CheckActivate ==
  /\ cpc = "check_activate"
  /\ cpc' = IF g_stop THEN "loop" ELSE "activate"
  /\ UNCHANGED <<wpc, signals, handshake, resources, outcome>>

StoreActivated ==
  /\ Goto("activate", "notify")
  /\ activated' = TRUE
  /\ UNCHANGED <<wpc, signals, prepared, startup, stop_requested, callback, joined,
                 resources, outcome>>

\* Faulty form: the notification is missing.
WakeNobody == UNCHANGED wpc

\* A worker asleep in activated.wait looks at the flag again.
WakeWorker == wpc' = IF wpc = "asleep" THEN "wait_activated" ELSE wpc

NotifyActivated ==
  /\ Goto("notify", "loop")
  /\ WakeWorker
  /\ UNCHANGED <<signals, handshake, resources, outcome>>

\* Faulty form: the errno of the query is lost.
SummariseWithoutErrno(trouble, reason) ==
  run' = [run EXCEPT !.stop_reason = reason]

\* RunSummary keeps the errno of a failed statistics query and the reason to
\* stop.
SummariseTrouble(trouble, reason) ==
  run' = [run EXCEPT !.stats_failed = @ \/ "stats" \in trouble, !.stop_reason = reason]

\* The test of the control loop; without a stop the thread sleeps for a second.
LoopGoesOn ==
  /\ Goto("loop", "interval")
  /\ ~g_stop
  /\ UNCHANGED <<wpc, signals, handshake, resources, outcome>>

\* One report: all is well, or the kernel statistics are unavailable, or too
\* many TX rejections since the last report stop the run.  A signal may have
\* come during the interval.
Report ==
  /\ Goto("interval", "loop")
  /\ \E trouble \in SUBSET {"stats", "rejections"} :
       /\ failed' = failed \cup trouble
       /\ exit_code' = IF trouble # {} THEN 1 ELSE exit_code
       /\ g_stop' = (g_stop \/ "rejections" \in trouble)
       /\ SummariseTrouble(trouble, IF "rejections" \in trouble THEN "tx_rejection_anomaly"
                                    ELSE run.stop_reason)
  /\ UNCHANGED <<wpc, handled, handshake, resources, leaving, metadata>>

LoopEnds ==
  /\ Goto("loop", "stop_redirect")
  /\ g_stop
  /\ UNCHANGED <<wpc, signals, handshake, resources, outcome>>

\* XdpLoader::stop_redirect and detach: nothing to do, done, or refused by the
\* kernel (ok is the value returned).
StopRedirect(ok) ==
  /\ ~redirecting => ok
  /\ redirecting' = ~ok
  /\ map_entry' = IF redirecting /\ ok THEN FALSE ELSE map_entry

Detach(ok) ==
  /\ ~ifindex => ok
  /\ ifindex' = ~ok
  /\ attached' = IF ifindex /\ ok THEN FALSE ELSE attached

\* A failure the control thread reports with exit code 1.
ReportFailure(what) == Note(what) /\ exit_code' = 1

StopRedirection ==
  /\ Goto("stop_redirect", "request_stop")
  /\ \E ok \in BOOLEAN :
       /\ StopRedirect(ok)
       /\ IF ok THEN UNCHANGED <<exit_code, failed>> ELSE ReportFailure("stop_redirect")
       /\ run' = [run EXCEPT !.stop_redirect_failed = ~ok]
  /\ UNCHANGED <<wpc, signals, handshake, umem, xsk, ifindex, attached, leaving, metadata>>

\* Faulty form: no stop_callback unblocks the worker.
RequestStopOnly ==
  /\ Goto("request_stop", "join")
  /\ stop_requested' = TRUE
  /\ UNCHANGED <<wpc, signals, prepared, activated, startup, callback, joined, resources, outcome>>

\* request_stop() runs a registered stop_callback on the calling thread.
RequestStop ==
  /\ cpc = "request_stop"
  /\ stop_requested' = TRUE
  /\ callback' = IF callback = "registered" THEN "running" ELSE callback
  /\ cpc' = IF callback = "registered" THEN "callback_store" ELSE "join"
  /\ UNCHANGED <<wpc, signals, prepared, activated, startup, joined, resources, outcome>>

CallbackStores ==
  /\ Goto("callback_store", "callback_notify")
  /\ activated' = TRUE
  /\ UNCHANGED <<wpc, signals, prepared, startup, stop_requested, callback, joined,
                 resources, outcome>>

CallbackNotifies ==
  /\ Goto("callback_notify", "join")
  /\ WakeWorker
  /\ callback' = "none"
  /\ UNCHANGED <<signals, prepared, activated, startup, stop_requested, joined,
                 resources, outcome>>

Join ==
  /\ cpc = "join"
  /\ wpc = "returned"
  /\ joined' = TRUE
  /\ cpc' = IF leaving THEN "unwind_loader" ELSE "drain"
  /\ UNCHANGED <<wpc, signals, prepared, activated, startup, stop_requested, callback,
                 resources, outcome>>

\* drain_until: frames still outstanding at the deadline are abandoned.
Drain ==
  /\ Goto("drain", "detach")
  /\ \/ UNCHANGED <<exit_code, failed, run>>
     \/ ReportFailure("drain") /\ run' = [run EXCEPT !.abandoned = TRUE]
  /\ UNCHANGED <<wpc, signals, handshake, resources, leaving, metadata>>

DetachProgram ==
  /\ cpc = "detach"
  /\ \E ok \in BOOLEAN :
       /\ Detach(ok)
       /\ IF ok
          THEN cpc' = "final_stats" /\ UNCHANGED outcome
          ELSE Leave(1, "unwind_thread") /\ Note("detach") /\ UNCHANGED records
  /\ UNCHANGED <<wpc, signals, handshake, umem, xsk, redirecting, map_entry>>

\* Faulty form: the failure does not reach the exit code.
FinalStatsSilent ==
  /\ Goto("final_stats", "unwind_thread")
  /\ UNCHANGED failed \/ Note("stats")
  /\ UNCHANGED <<wpc, signals, handshake, resources, exit_code, leaving, records>>

\* The last statistics query; then the block ends.
FinalStats ==
  /\ Goto("final_stats", "unwind_thread")
  /\ \/ UNCHANGED <<exit_code, failed, run>>
     \/ ReportFailure("stats") /\ SummariseTrouble({"stats"}, run.stop_reason)
  /\ UNCHANGED <<wpc, signals, handshake, resources, leaving, metadata>>

\* samples.report, once all I/O is gone.
ReportSamples ==
  /\ Goto("report", "csv")
  /\ UNCHANGED <<wpc, signals, handshake, resources, outcome>>

DumpCsv ==
  /\ Goto("csv", "metadata")
  /\ \/ run' = [run EXCEPT !.csv_exported = TRUE] /\ UNCHANGED <<exit_code, failed>>
     \/ ReportFailure("export") /\ UNCHANGED run
  /\ UNCHANGED <<wpc, signals, handshake, resources, leaving, metadata>>

\* dump_run_metadata: the file is complete, or it is incomplete or missing.
DumpMetadata ==
  /\ Goto("metadata", "done")
  /\ \/ metadata' = {[run |-> run, exit_code |-> exit_code]} /\ UNCHANGED <<exit_code, failed>>
     \/ ReportFailure("export") /\ UNCHANGED metadata
  /\ UNCHANGED <<wpc, signals, handshake, resources, leaving, run>>

Done ==
  /\ Goto("done", "exited")
  /\ UNCHANGED <<wpc, signals, handshake, resources, outcome>>

\* Points where std::println, std::format or an allocation may throw; main
\* catches the exception and returns 1.
Throwing ==
  \/ cpc \in {"cpu", "umem", "xsk", "prefill", "spawn", "loop", "interval", "stop_redirect"}
  \/ cpc = "request_stop" /\ ~leaving /\ "stop_redirect" \in failed
  \/ cpc = "detach" /\ "drain" \in failed

\* ... outside the block: with nothing left to unwind but the samples.
ThrowingLate ==
  \/ cpc = "metadata" /\ ~run.csv_exported
  \/ cpc = "done"

Throw ==
  /\ MayThrow
  /\ \/ Throwing /\ Leave(1, "unwind_thread")
     \/ /\ cpc \in {"load_open", "load_map", "load_filter", "load_attach", "load_log"}
        /\ Leave(1, "unwind_load")
     \/ ThrowingLate /\ Leave(1, "exited")
  /\ Note("exception")
  /\ UNCHANGED <<wpc, signals, handshake, resources, records>>

\* Umem::create: a message that throws between mmap and the object that is to
\* own the mapping leaves the mapping to nobody.  Nothing else is built yet.
LoseMapping ==
  /\ MayThrow
  /\ cpc = "umem"
  /\ Leave(1, "exited")
  /\ umem' = TRUE
  /\ failed' = failed \cup {"exception", "mapping"}
  /\ UNCHANGED <<wpc, signals, handshake, xsk, hooks, records>>

\* parse_args and the message of install_signal_handlers are outside the try
\* block, XdpLoader::parse_ipv4 and samples.report are noexcept: what they throw
\* ends in std::terminate, without unwinding.
Terminate ==
  /\ MayThrow
  /\ cpc \in {"args", "sigint", "sigterm", "load_filter", "report"}
  /\ cpc' = "terminated"
  /\ UNCHANGED <<wpc, signals, handshake, resources, outcome>>

-----------------------------------------------------------------------------
(***************************************************************************)
(* Unwinding, in reverse order of declaration.                             *)
(***************************************************************************)

\* XdpLoader::release ignores failures.
Release ==
  \E ok1 \in BOOLEAN, ok2 \in BOOLEAN :
    /\ StopRedirect(ok1)
    /\ Detach(ok2)
    /\ failed' = failed \cup (IF ok1 THEN {} ELSE {"stop_redirect"})
                       \cup (IF ok2 THEN {} ELSE {"detach"})

\* The local loader of a create that failed.
UnwindLoad ==
  /\ Goto("unwind_load", "unwind_thread")
  /\ Release
  /\ UNCHANGED <<wpc, signals, handshake, umem, xsk, exit_code, leaving, records>>

\* Faulty form: the thread is left running.
UnwindThreadDetached ==
  /\ Goto("unwind_thread", "unwind_loader")
  /\ UNCHANGED <<wpc, signals, handshake, resources, outcome>>

\* ~jthread: request_stop and join, unless there is no thread or it was
\* joined already.
UnwindThread ==
  /\ cpc = "unwind_thread"
  /\ cpc' = IF wpc = "none" \/ joined THEN "unwind_loader" ELSE "request_stop"
  /\ UNCHANGED <<wpc, signals, handshake, resources, outcome>>

UnwindLoader ==
  /\ Goto("unwind_loader", "unwind_xsk")
  /\ Release
  /\ UNCHANGED <<wpc, signals, handshake, umem, xsk, exit_code, leaving, records>>

UnwindXsk ==
  /\ Goto("unwind_xsk", "unwind_umem")
  /\ xsk' = FALSE
  /\ UNCHANGED <<wpc, signals, handshake, umem, hooks, outcome>>

UnwindUmem ==
  /\ cpc = "unwind_umem"
  /\ cpc' = IF leaving THEN "exited" ELSE "report"
  /\ umem' = FALSE
  /\ UNCHANGED <<wpc, signals, handshake, xsk, hooks, outcome>>

Control ==
  \/ ParseArgs \/ HandleSigint \/ HandleSigterm
  \/ SelectCpu \/ CreateUmem \/ CreateXsk \/ PrefillFill \/ SpawnWorker
  \/ WaitPrepared \/ CheckStop \/ CheckStartup
  \/ LoadOpen \/ LoadMap \/ LoadFilter \/ LoadAttach \/ LoadReturns
  \/ CheckActivate \/ StoreActivated \/ NotifyActivated
  \/ LoopGoesOn \/ Report \/ LoopEnds
  \/ StopRedirection \/ RequestStop \/ CallbackStores \/ CallbackNotifies \/ Join
  \/ Drain \/ DetachProgram \/ FinalStats
  \/ ReportSamples \/ DumpCsv \/ DumpMetadata \/ Done
  \/ UnwindLoad \/ UnwindThread \/ UnwindLoader \/ UnwindXsk \/ UnwindUmem

-----------------------------------------------------------------------------
(***************************************************************************)
(* The worker: the lambda of poll_thread.                                  *)
(***************************************************************************)

\* The stop_callback is constructed; if a stop was requested before, it runs
\* here and now.
WorkerRegisters ==
  /\ wpc = "register"
  /\ wpc' = "pin"
  /\ IF stop_requested
     THEN activated' = TRUE /\ UNCHANGED callback
     ELSE callback' = "registered" /\ UNCHANGED activated
  /\ UNCHANGED <<cpc, signals, prepared, startup, stop_requested, joined, resources, outcome>>

\* One step of the preparation, which may fail.
PrepareThread(here, there) ==
  /\ wpc = here
  /\ \/ wpc' = there /\ UNCHANGED startup
     \/ wpc' = "store_prepared" /\ startup' = "failed"
  /\ UNCHANGED <<cpc, signals, prepared, activated, stop_requested, callback, joined,
                 resources, outcome>>

PinToCpu == PrepareThread("pin", "realtime")

\* Only with -r.
SetRealtime == PrepareThread("realtime", "calibrate")

\* A signal does not cut the calibration short: nanosleep goes on with what
\* remains.
CalibrateTsc ==
  /\ wpc = "calibrate"
  /\ wpc' = "store_prepared"
  /\ startup' \in {"ok", "failed"}
  /\ UNCHANGED <<cpc, signals, prepared, activated, stop_requested, callback, joined,
                 resources, outcome>>

WorkerStoresPrepared ==
  /\ wpc = "store_prepared"
  /\ wpc' = "notify_prepared"
  /\ prepared' = TRUE
  /\ UNCHANGED <<cpc, signals, activated, startup, stop_requested, callback, joined,
                 resources, outcome>>

\* Faulty form: the notification is missing.
WorkerNotifiesNobody ==
  /\ wpc = "notify_prepared"
  /\ wpc' = IF startup = "ok" THEN "wait_activated" ELSE "unregister"
  /\ UNCHANGED <<cpc, signals, handshake, resources, outcome>>

WorkerNotifiesPrepared ==
  /\ wpc = "notify_prepared"
  /\ wpc' = IF startup = "ok" THEN "wait_activated" ELSE "unregister"
  /\ cpc' = IF cpc = "asleep" THEN "wait_prepared" ELSE cpc
  /\ UNCHANGED <<signals, handshake, resources, outcome>>

\* activated.wait(false).
WorkerWaits ==
  /\ wpc = "wait_activated"
  /\ wpc' = IF activated THEN "run" ELSE "asleep"
  /\ UNCHANGED <<cpc, signals, handshake, resources, outcome>>

\* receiver.run() returns once it sees the stop request.
WorkerStops ==
  /\ wpc = "run"
  /\ stop_requested
  /\ wpc' = "unregister"
  /\ UNCHANGED <<cpc, signals, handshake, resources, outcome>>

\* The stop_callback is destroyed; while it runs on the control thread, its
\* destructor waits.
WorkerReturns ==
  /\ wpc = "unregister"
  /\ callback # "running"
  /\ callback' = "none"
  /\ wpc' = "returned"
  /\ UNCHANGED <<cpc, signals, prepared, activated, startup, stop_requested, joined,
                 resources, outcome>>

Over == cpc \in {"exited", "killed", "terminated"}

\* The thread ends with the process.
Worker ==
  /\ ~Over
  /\ \/ WorkerRegisters \/ PinToCpu \/ SetRealtime \/ CalibrateTsc
     \/ WorkerStoresPrepared \/ WorkerNotifiesPrepared \/ WorkerWaits \/ WorkerStops
     \/ WorkerReturns

\* SIGINT or SIGTERM, once or again; the default action ends the process.
Signal(signum) ==
  /\ ~Over
  /\ IF signum \in handled
     THEN g_stop' = TRUE /\ UNCHANGED cpc
     ELSE cpc' = "killed" /\ UNCHANGED g_stop
  /\ UNCHANGED <<wpc, handled, handshake, resources, outcome>>

Exited == Over /\ UNCHANGED vars

Next ==
  \/ Control \/ Throw \/ LoseMapping \/ Terminate \/ Worker \/ Exited
  \/ \E signum \in Signals : Signal(signum)

Spec == Init /\ [][Next]_vars /\ WF_vars(Control) /\ WF_vars(Worker)

-----------------------------------------------------------------------------
(***************************************************************************)
(* Properties.                                                             *)
(***************************************************************************)
WorkerAlive == wpc \notin {"none", "returned"}

\* The worker only ever runs while the socket and the UMEM it works on exist,
\* and the control thread touches rings and allocator (prefill, drain_until:
\* "the RX worker must be stopped/joined before control calls this",
\* transmitter.hpp:115) only while the worker does not run.
WorkerOwnsLiveRings ==
  /\ WorkerAlive => umem /\ xsk
  /\ cpc \in {"prefill", "drain"} => ~WorkerAlive /\ umem /\ xsk

\* Traffic is redirected only to a worker that was prepared successfully
\* ("Call prepare_thread() on this thread before activating packet
\* redirection", receiver.hpp:88), the socket is not closed under a program the
\* kernel would let go, and the worker polls unstopped only once the program is
\* attached.  The program is taken off by main and by ~XdpLoader only after the
\* worker is gone ("exceptional exits join it before loader cleanup",
\* main.cpp:386), and by the local loader of a create that throws only while
\* the worker still waits to be activated.
RedirectedToPreparedWorker ==
  /\ attached => startup = "ok"
  /\ attached /\ "detach" \notin failed => umem /\ xsk
  /\ wpc = "run" /\ ~stop_requested => attached
  /\ cpc \in {"unwind_loader", "detach"} => ~WorkerAlive
  /\ cpc = "unwind_load" => ~activated /\ wpc # "run"

\* However a run ends (an early return, an exception, std::terminate, a signal),
\* no program stays on the interface, unless the kernel refused to detach it.
\* A process that returns from main has itself given back the thread, the
\* socket, the map entry (unless refused) and the mapping (unless the message
\* of Umem::create threw before an object owned it, umem.hpp:107); a signal
\* kills it only before it has any.  After std::terminate the rest of what was
\* built ends with the process.
NothingLeftBehind ==
  /\ Over /\ attached => "detach" \in failed
  /\ cpc \in {"exited", "killed"} =>
       /\ ~xsk /\ ~WorkerAlive
       /\ map_entry => "stop_redirect" \in failed
       /\ umem => "mapping" \in failed

\* "A clean signal stop returns zero. Statistics-query, export, and shutdown
\* failures return nonzero." (docs/BENCHMARKING.md:38): the exit code is zero
\* exactly when nothing failed, silent failures of destructors included.  One
\* failure is exempt: that of a worker's preparation that a stop overtook,
\* because the stop is looked at first (main.cpp:413).
ExitCodeTellsFailure == cpc = "exited" => (exit_code = 0 <=> failed \subseteq {"masked"})

\* run_metadata.txt retains the "outcome" (README.md:34, docs/BENCHMARKING.md):
\* a complete file names a reason for every nonzero exit code it states, none
\* for zero, and states the code the process returns unless the very last
\* message threw.
MetadataExplainsExit ==
  \A file \in metadata :
    /\ file.exit_code = 0 <=>
         file.run = [stop_reason |-> "signal", stats_failed |-> FALSE,
                     stop_redirect_failed |-> FALSE, abandoned |-> FALSE, csv_exported |-> TRUE]
    /\ exit_code # file.exit_code => exit_code = 1 /\ "exception" \in failed

\* A signal at any moment ends the run, and so does every return or exception
\* inside the block: no wait in the handshake or in join misses its
\* notification.
StopLeadsToExit == g_stop \/ leaving ~> Over

\* Without a signal the startup completes: the control thread reaches its
\* loop or gives up, and a worker it activated runs.
StartupCompletes ==
  /\ (cpc = "args") ~> (cpc = "loop" \/ Over)
  /\ (cpc = "loop" /\ ~g_stop) ~> (wpc = "run" \/ g_stop \/ leaving)
=============================================================================
