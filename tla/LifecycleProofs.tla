--------------------------- MODULE LifecycleProofs ---------------------------
(***************************************************************************)
(* The safety properties of a run, for every interleaving of the control   *)
(* thread, the worker and the signals, from one inductive invariant that   *)
(* says what holds at which point of main.                                 *)
(***************************************************************************)
EXTENDS Lifecycle, TLAPS

(***************************************************************************)
(* The points of the control thread.                                       *)
(***************************************************************************)
Starting   == {"args", "sigint", "sigterm"}
Building   == {"cpu", "umem", "xsk", "prefill", "spawn"}
Preparing  == {"wait_prepared", "asleep", "check_stop", "check_startup"}
Loading    == {"load_open", "load_map", "load_filter", "load_attach", "load_log"}
Activating == {"check_activate", "activate", "notify"}
Polling    == {"loop", "interval", "stop_redirect"}
Stopping   == {"request_stop", "callback_store", "callback_notify", "join"}
Draining   == {"drain", "detach", "final_stats"}
Unwinding  == {"unwind_load", "unwind_thread", "unwind_loader", "unwind_xsk", "unwind_umem"}
Reporting  == {"report", "csv", "metadata", "done"}
Ended      == {"exited", "killed", "terminated"}

Before == Starting \cup Building \cup Preparing     \* nothing is loaded
Within == Preparing \cup Loading \cup Activating \cup Polling \cup Stopping \cup Draining

(***************************************************************************)
(* The invariant.                                                          *)
(***************************************************************************)
RunSummaries ==
  [stop_reason : {"signal", "tx_rejection_anomaly"}, stats_failed : BOOLEAN,
   stop_redirect_failed : BOOLEAN, abandoned : BOOLEAN, csv_exported : BOOLEAN]

\* Flags are only ever tested; their type is not needed.
TypeOK ==
  /\ cpc \in Before \cup Within \cup Unwinding \cup Reporting \cup Ended
  /\ wpc \in {"none", "register", "pin", "realtime", "calibrate", "store_prepared",
              "notify_prepared", "wait_activated", "asleep", "run", "unregister", "returned"}
  /\ startup \in {"unset", "ok", "failed"}
  /\ exit_code \in {0, 1}
  /\ run \in RunSummaries

\* A signal kills the process only while nothing exists.
SignalsHandled == cpc \notin Starting \cup Ended => handled = Signals

\* When there is a worker, and when it is known to be gone.
WorkerKnown ==
  /\ cpc \in Starting \cup Building => wpc = "none"
  /\ cpc \in Within \cup {"unwind_load"} => wpc # "none"
  /\ joined => wpc = "returned" /\ stop_requested
  /\ cpc \in Draining => joined
  /\ cpc \in {"unwind_loader", "unwind_xsk", "unwind_umem", "exited", "killed"} \cup Reporting =>
       wpc \in {"none", "returned"}

\* When the UMEM and the socket exist.  A process that ends in std::terminate may
\* have both; one that exits may have a mapping it lost.
Built ==
  /\ cpc \in Starting \cup {"cpu", "umem", "killed"} \cup Reporting => ~umem
  /\ cpc = "exited" /\ umem => "mapping" \in failed
  /\ cpc \in Starting \cup {"cpu", "umem", "xsk", "unwind_umem", "exited", "killed"} \cup Reporting =>
       ~xsk
  /\ cpc = "xsk" => umem
  /\ cpc \in {"prefill", "spawn", "unwind_load"} \cup Within => umem /\ xsk
  /\ wpc # "none" /\ cpc \in {"unwind_thread", "unwind_loader", "unwind_xsk"} => umem /\ xsk
  /\ wpc \notin {"none", "returned"} /\ cpc = "terminated" => umem /\ xsk

\* The loader remembers what is hooked into the kernel, and lets go of it.
Hooked ==
  /\ ifindex <=> attached
  /\ redirecting <=> map_entry
  /\ cpc \in Before \cup {"load_open", "load_map"} => ~map_entry
  /\ cpc \in Before \cup (Loading \ {"load_log"}) => ~attached
  /\ cpc \in {"load_log"} \cup Activating \cup Polling => attached
  /\ cpc \in {"unwind_xsk", "unwind_umem"} \cup Reporting \cup Ended =>
       /\ attached => "detach" \in failed
       /\ map_entry => "stop_redirect" \in failed \/ cpc = "terminated"

\* The program is attached only after a successful preparation.
StartupKnown ==
  /\ wpc \in {"none", "register", "pin", "realtime", "calibrate"} => startup = "unset"
  /\ cpc \in Loading => startup = "ok"
  /\ attached => startup = "ok"

\* The worker is let loose by main once everything is attached, or to stop.
ActivatedRightly ==
  /\ cpc \in Before \cup Loading \cup {"check_activate", "activate", "unwind_load"} =>
       ~stop_requested /\ ~activated
  /\ cpc \in {"callback_store", "callback_notify", "join"} => stop_requested
  /\ wpc = "none" => ~activated
  /\ cpc = "unwind_loader" => wpc = "none" \/ stop_requested
  /\ activated => attached \/ stop_requested
  /\ wpc = "run" => activated

\* Nothing has failed, but for a preparation whose failure a stop masks.
NothingReported == failed \subseteq {"masked"}

\* The exit code is zero as long as nothing has failed; then the loader's
\* destructor, which reports nothing, finds nothing to do.
ExitCodeKnown ==
  /\ exit_code = 0 <=> NothingReported
  /\ cpc \in Before \cup Loading \cup Activating => exit_code = 0
  /\ cpc \in Before \cup Loading \cup Activating \cup Polling => ~leaving
  /\ cpc = "unwind_load" => exit_code = 1
  /\ cpc \in Stopping \cup Draining \cup {"unwind_thread", "unwind_loader"} /\ exit_code = 0 =>
       /\ ~redirecting
       /\ leaving \/ cpc \in {"final_stats", "unwind_thread", "unwind_loader"} => ~ifindex

\* RunSummary names no reason for a nonzero exit code.
Faultless ==
  /\ run.stop_reason = "signal" /\ ~run.stats_failed
  /\ ~run.stop_redirect_failed /\ ~run.abandoned

\* RunSummary keeps up with the exit code, and the file with both.
Recorded ==
  /\ cpc \in Reporting => ~leaving
  /\ cpc \notin {"metadata", "done"} \cup Ended =>
       ~run.csv_exported /\ (~leaving => (exit_code = 0 <=> Faultless))
  /\ cpc = "metadata" => (exit_code = 0 <=> Faultless /\ run.csv_exported)
  /\ cpc \in Before \cup Loading \cup Activating \cup Polling => ~run.stop_redirect_failed
  /\ cpc \notin {"done"} \cup Ended => metadata = {}
  /\ cpc = "done" => \A file \in metadata : file.exit_code = exit_code
  /\ MetadataExplainsExit

IInv ==
  /\ TypeOK /\ SignalsHandled /\ WorkerKnown /\ Built /\ Hooked
  /\ StartupKnown /\ ActivatedRightly /\ ExitCodeKnown /\ Recorded

-----------------------------------------------------------------------------
(***************************************************************************)
(* Leaving.  The ways a failed step or an exception leaves the block.      *)
(***************************************************************************)

\* The tuples of variables and the sets of points are abbreviations, and the
\* parts of the invariant come into play where a step expands IInv.
USE DEF handshake, hooks, resources, records, outcome, signals, Signals,
        Starting, Building, Preparing, Loading, Activating, Polling, Stopping, Draining,
        Unwinding, Reporting, Ended, Before, Within,
        TypeOK, SignalsHandled, WorkerKnown, Built, Hooked, StartupKnown, ActivatedRightly,
        ExitCodeKnown, NothingReported, Recorded, Faultless, MetadataExplainsExit

\* ... from main, before anything is built.
LEMMA LeavesMain ==
  ASSUME IInv, cpc \in Starting, Leave(1, "exited"), Note("setup"),
         UNCHANGED <<wpc, g_stop, handshake, resources, records>>
  PROVE  IInv'
  BY DEF IInv, Leave, Note

\* ... from the block of run_receiver, through ~jthread.
LEMMA LeavesBlock ==
  ASSUME IInv, NEW what, what # "masked", Leave(1, "unwind_thread"), Note(what),
         UNCHANGED <<wpc, signals, handshake, resources, records>>,
         \/ cpc \in Building \cup Polling \cup {"check_startup", "detach"}
         \/ cpc = "request_stop" /\ ~leaving
  PROVE  IInv'
  BY DEF IInv, Leave, Note

\* ... from XdpLoader::create, through the destructor of its local loader.
LEMMA LeavesCreate ==
  ASSUME IInv, NEW what, what # "masked", Leave(1, "unwind_load"), Note(what),
         UNCHANGED <<wpc, signals, handshake, resources, records>>,
         cpc \in Loading
  PROVE  IInv'
  BY DEF IInv, Leave, Note

\* ... from the reports, with nothing left to release.
LEMMA LeavesReports ==
  ASSUME IInv, Leave(1, "exited"), Note("exception"),
         UNCHANGED <<wpc, signals, handshake, resources, records>>,
         cpc \in {"metadata", "done"}
  PROVE  IInv'
  BY DEF IInv, Leave, Note

-----------------------------------------------------------------------------
(***************************************************************************)
(* The control thread's steps.                                             *)
(***************************************************************************)

\* parse_args and install_signal_handlers.
LEMMA StartingSteps ==
  ASSUME IInv, ParseArgs \/ HandleSigint \/ HandleSigterm
  PROVE  IInv'
  <1>1. cpc \in Starting /\ UNCHANGED <<wpc, g_stop, handshake, resources>>
    BY DEF ParseArgs, HandleSigint, HandleSigterm, Prepare
  <1>2. CASE Leave(1, "exited") /\ Note("setup") /\ UNCHANGED records
    BY <1>1, <1>2, LeavesMain
  <1>3. CASE UNCHANGED outcome
    <2>1. cpc' \in {"sigint", "sigterm", "cpu"}
      BY <1>3 DEF IInv, ParseArgs, HandleSigint, HandleSigterm, Prepare, Leave
    <2>2. cpc' = "cpu" => handled' = Signals
      BY <1>3 DEF IInv, ParseArgs, HandleSigint, HandleSigterm, Prepare, Leave
    <2>3. QED
      BY <1>1, <1>3, <2>1, <2>2 DEF IInv
  <1>4. QED
    BY <1>2, <1>3 DEF ParseArgs, HandleSigint, HandleSigterm, Prepare

\* The UMEM, the socket, the first frames and the thread.
LEMMA BuildingSteps ==
  ASSUME IInv, SelectCpu \/ CreateUmem \/ CreateXsk \/ PrefillFill \/ SpawnWorker
  PROVE  IInv'
  <1>1. CASE /\ SelectCpu \/ CreateUmem \/ CreateXsk
             /\ Leave(1, "unwind_thread") /\ Note("setup") /\ UNCHANGED <<resources, records>>
    <2>1. cpc \in Building /\ UNCHANGED <<wpc, signals, handshake>>
      BY <1>1 DEF SelectCpu, CreateUmem, CreateXsk, Setup
    <2>2. QED
      BY <1>1, <2>1, LeavesBlock
  <1>2. CASE SelectCpu /\ UNCHANGED <<resources, outcome>>
    BY <1>2 DEF IInv, SelectCpu, Setup, Leave
  <1>3. CASE CreateUmem /\ umem' = TRUE /\ UNCHANGED <<xsk, hooks, outcome>>
    <2>1. cpc = "umem" /\ cpc' = "xsk" /\ umem' /\ UNCHANGED <<wpc, signals, handshake>>
      BY <1>3 DEF IInv, CreateUmem, Setup, Leave
    <2>2. QED
      BY <1>3, <2>1 DEF IInv
  <1>4. CASE CreateXsk /\ xsk' = TRUE /\ UNCHANGED <<umem, hooks, outcome>>
    <2>1. cpc = "xsk" /\ cpc' = "prefill" /\ xsk' /\ UNCHANGED <<wpc, signals, handshake>>
      BY <1>4 DEF IInv, CreateXsk, Setup, Leave
    <2>2. QED
      BY <1>4, <2>1 DEF IInv
  <1>5. CASE PrefillFill
    BY <1>5 DEF IInv, PrefillFill, Goto
  <1>6. CASE SpawnWorker
    BY <1>6 DEF IInv, SpawnWorker, Goto
  <1>7. QED
    BY <1>1, <1>2, <1>3, <1>4, <1>5, <1>6, Zenon DEF SelectCpu, CreateUmem, CreateXsk, Setup

\* Waiting for the worker.
LEMMA PreparingSteps ==
  ASSUME IInv, WaitPrepared \/ CheckStop \/ CheckStartup
  PROVE  IInv'
  <1>1. CASE WaitPrepared
    BY <1>1 DEF IInv, WaitPrepared
  <1>2. CASE CheckStop /\ g_stop
    <2>1. /\ cpc = "check_stop" /\ cpc' = "unwind_thread" /\ leaving' /\ exit_code' = 0
          /\ UNCHANGED <<wpc, signals, handshake, resources, records>>
      BY <1>2 DEF CheckStop, Leave
    <2>2. NothingReported'
      BY <1>2 DEF IInv, CheckStop
    <2>3. QED
      BY <2>1, <2>2 DEF IInv
  <1>3. CASE CheckStop /\ ~g_stop
    BY <1>3 DEF IInv, CheckStop
  <1>4. CASE CheckStartup /\ startup # "ok"
    BY <1>4, LeavesBlock DEF CheckStartup
  <1>5. CASE CheckStartup /\ startup = "ok"
    BY <1>5, SMTT(20) DEF IInv, CheckStartup
  <1>6. QED
    BY <1>1, <1>2, <1>3, <1>4, <1>5

\* XdpLoader::create.
LEMMA LoadingSteps ==
  ASSUME IInv, LoadOpen \/ LoadMap \/ LoadFilter \/ LoadAttach \/ LoadReturns
  PROVE  IInv'
  <1>1. CASE /\ LoadOpen \/ LoadMap \/ LoadFilter \/ LoadAttach
             /\ Leave(1, "unwind_load") /\ Note("setup") /\ UNCHANGED <<resources, records>>
    <2>1. cpc \in Loading /\ UNCHANGED <<wpc, signals, handshake>>
      BY <1>1 DEF LoadOpen, LoadMap, LoadFilter, LoadAttach, LoadStep
    <2>2. QED
      BY <1>1, <2>1, LeavesCreate
  <1>2. CASE (LoadOpen \/ LoadFilter) /\ UNCHANGED <<resources, outcome>>
    <2>1. /\ \/ cpc = "load_open" /\ cpc' = "load_map"
             \/ cpc = "load_filter" /\ cpc' = "load_attach"
          /\ UNCHANGED <<wpc, signals, handshake>>
      BY <1>2 DEF IInv, LoadOpen, LoadFilter, LoadStep, Leave
    <2>2. QED
      BY <1>2, <2>1 DEF IInv
  <1>3. CASE LoadMap /\ map_entry' = TRUE /\ redirecting' = TRUE
             /\ UNCHANGED <<umem, xsk, ifindex, attached, outcome>>
    <2>1. /\ cpc = "load_map" /\ cpc' = "load_filter" /\ map_entry' /\ redirecting'
          /\ UNCHANGED <<wpc, signals, handshake>>
      BY <1>3 DEF IInv, LoadMap, LoadStep, Leave
    <2>2. QED
      BY <1>3, <2>1 DEF IInv
  <1>4. CASE LoadAttach /\ attached' = TRUE /\ ifindex' = TRUE
             /\ UNCHANGED <<umem, xsk, redirecting, map_entry, outcome>>
    <2>1. /\ cpc = "load_attach" /\ cpc' = "load_log" /\ attached' /\ ifindex'
          /\ UNCHANGED <<wpc, signals, handshake>>
      BY <1>4 DEF IInv, LoadAttach, LoadStep, Leave
    <2>2. QED
      BY <1>4, <2>1 DEF IInv
  <1>5. CASE LoadReturns
    BY <1>5 DEF IInv, LoadReturns, Goto
  <1>6. QED
    BY <1>1, <1>2, <1>3, <1>4, <1>5, Zenon DEF LoadOpen, LoadMap, LoadFilter, LoadAttach, LoadStep

\* The worker is let loose.
LEMMA ActivatingSteps ==
  ASSUME IInv, CheckActivate \/ StoreActivated \/ NotifyActivated
  PROVE  IInv'
  <1>1. CASE CheckActivate
    BY <1>1 DEF IInv, CheckActivate
  <1>2. CASE StoreActivated
    BY <1>2 DEF IInv, StoreActivated, Goto
  <1>3. CASE NotifyActivated
    BY <1>3 DEF IInv, NotifyActivated, WakeWorker, Goto
  <1>4. QED
    BY <1>1, <1>2, <1>3

\* What SummariseTrouble leaves in RunSummary.
LEMMA SummaryOfTrouble ==
  ASSUME run \in RunSummaries, NEW trouble,
         NEW reason \in {"signal", "tx_rejection_anomaly"}, SummariseTrouble(trouble, reason)
  PROVE  /\ run' \in RunSummaries
         /\ run'.stop_reason = reason
         /\ run'.stats_failed <=> run.stats_failed \/ "stats" \in trouble
         /\ run'.stop_redirect_failed <=> run.stop_redirect_failed
         /\ run'.abandoned <=> run.abandoned
         /\ run'.csv_exported <=> run.csv_exported
  <1>1. run' \in RunSummaries
    BY Zenon DEF SummariseTrouble, RunSummaries
  <1>2. run'.stop_reason = reason
    BY DEF SummariseTrouble, RunSummaries
  <1>3. run'.stats_failed = (run.stats_failed \/ "stats" \in trouble)
    BY DEF SummariseTrouble, RunSummaries
  <1>4. /\ run'.stop_redirect_failed = run.stop_redirect_failed
        /\ run'.abandoned = run.abandoned
        /\ run'.csv_exported = run.csv_exported
    BY DEF SummariseTrouble, RunSummaries
  <1>5. QED
    BY <1>1, <1>2, <1>3, <1>4, Zenon

-----------------------------------------------------------------------------
(***************************************************************************)
(* The loop, stopping, unwinding and reporting.  Here each part of the     *)
(* invariant is kept for its own reasons.                                  *)
(***************************************************************************)
HIDE DEF TypeOK, SignalsHandled, WorkerKnown, Built, Hooked, StartupKnown, ActivatedRightly,
         ExitCodeKnown, NothingReported, Recorded, Faultless, MetadataExplainsExit

\* The control loop.
LEMMA PollingSteps ==
  ASSUME IInv, LoopGoesOn \/ Report \/ LoopEnds
  PROVE  IInv'
  <1> /\ TypeOK /\ SignalsHandled /\ WorkerKnown /\ Built /\ Hooked
      /\ StartupKnown /\ ActivatedRightly /\ ExitCodeKnown /\ Recorded
    BY DEF IInv
  <1>1. CASE Report
    <2>1. PICK trouble \in SUBSET {"stats", "rejections"} :
            /\ failed' = failed \cup trouble
            /\ exit_code' = IF trouble # {} THEN 1 ELSE exit_code
            /\ SummariseTrouble(trouble, IF "rejections" \in trouble THEN "tx_rejection_anomaly"
                                         ELSE run.stop_reason)
      BY <1>1 DEF Report
    <2>2. /\ cpc = "interval" /\ cpc' = "loop"
          /\ UNCHANGED <<wpc, handled, handshake, resources, leaving, metadata>>
      BY <1>1 DEF Report, Goto
    <2>3. run \in RunSummaries /\ run.stop_reason \in {"signal", "tx_rejection_anomaly"}
      BY DEF TypeOK, RunSummaries
    <2>4. /\ run' \in RunSummaries
          /\ run'.stop_reason = IF "rejections" \in trouble THEN "tx_rejection_anomaly"
                                ELSE run.stop_reason
          /\ run'.stats_failed <=> run.stats_failed \/ "stats" \in trouble
          /\ run'.stop_redirect_failed <=> run.stop_redirect_failed
          /\ run'.abandoned <=> run.abandoned
          /\ run'.csv_exported <=> run.csv_exported
      BY <2>1, <2>3, SummaryOfTrouble
    <2>5. exit_code' = 0 <=> exit_code = 0 /\ trouble = {}
      <3>1. CASE trouble = {}
        BY <2>1, <3>1
      <3>2. CASE trouble # {}
        <4>1. exit_code' = 1
          BY <2>1, <3>2
        <4>2. exit_code' # 0
          BY <4>1
        <4>3. QED
          BY <3>2, <4>2, Zenon
      <3>3. QED
        BY <3>1, <3>2
    <2>6. NothingReported' <=> NothingReported /\ trouble = {}
      <3>1. CASE trouble = {}
        BY <2>1, <3>1, Zenon DEF NothingReported
      <3>2. CASE trouble # {}
        <4>1. PICK t \in trouble : TRUE
          BY <3>2, Zenon
        <4>2. t # "masked" /\ t \in failed'
          BY <2>1, <4>1
        <4>3. QED
          BY <3>2, <4>2, Zenon DEF NothingReported
      <3>3. QED
        BY <3>1, <3>2
    <2>7. Faultless' <=> Faultless /\ trouble = {}
      BY <2>1, <2>4 DEF Faultless
    <2>8. exit_code' \in {0, 1}
      BY <2>1 DEF TypeOK
    <2>9. TypeOK' /\ SignalsHandled'
      BY <2>2, <2>4, <2>8, Zenon DEF TypeOK, SignalsHandled
    <2>10. WorkerKnown' /\ Built'
      BY <2>2, Zenon DEF WorkerKnown, Built
    <2>11. Hooked' /\ StartupKnown' /\ ActivatedRightly'
      BY <2>2, Zenon DEF Hooked, StartupKnown, ActivatedRightly
    <2>12. ExitCodeKnown'
      BY <2>2, <2>5, <2>6, Zenon DEF ExitCodeKnown
    <2>13. Recorded'
      BY <2>2, <2>4, <2>5, <2>7, Zenon DEF Recorded, MetadataExplainsExit
    <2>14. QED
      BY <2>9, <2>10, <2>11, <2>12, <2>13 DEF IInv
  <1>2. CASE LoopGoesOn \/ LoopEnds
    <2>1. /\ cpc = "loop" /\ cpc' \in {"interval", "stop_redirect"}
          /\ UNCHANGED <<wpc, signals, handshake, resources, outcome>>
      BY <1>2 DEF LoopGoesOn, LoopEnds, Goto
    <2>2. TypeOK' /\ SignalsHandled'
      BY <2>1, ZenonT(40) DEF TypeOK, SignalsHandled
    <2>3. WorkerKnown' /\ Built'
      BY <2>1, Zenon DEF WorkerKnown, Built
    <2>4. Hooked' /\ StartupKnown' /\ ActivatedRightly'
      BY <2>1, Zenon DEF Hooked, StartupKnown, ActivatedRightly
    <2>5. ExitCodeKnown'
      BY <2>1, Zenon DEF ExitCodeKnown, NothingReported
    <2>6. Recorded'
      BY <2>1, Zenon DEF Recorded, Faultless, MetadataExplainsExit
    <2>7. QED
      BY <2>2, <2>3, <2>4, <2>5, <2>6 DEF IInv
  <1>3. QED
    BY <1>1, <1>2, Zenon

\* What became of a map deletion or a detach.
LEMMA HooksLetGo ==
  ASSUME NEW ok \in BOOLEAN
  PROVE  /\ StopRedirect(ok) =>
              /\ redirecting' <=> ~ok
              /\ map_entry' <=> map_entry /\ ~(redirecting /\ ok)
              /\ redirecting \/ ok
         /\ Detach(ok) =>
              /\ ifindex' <=> ~ok
              /\ attached' <=> attached /\ ~(ifindex /\ ok)
              /\ ifindex \/ ok
  <1>1. CASE ok
    BY <1>1, Zenon DEF StopRedirect, Detach
  <1>2. CASE ~ok
    BY <1>2, Zenon DEF StopRedirect, Detach
  <1>3. QED
    BY <1>1, <1>2

\* stop_redirect, request_stop and join.
LEMMA StoppingSteps ==
  ASSUME IInv, StopRedirection \/ RequestStop \/ CallbackStores \/ CallbackNotifies \/ Join
  PROVE  IInv'
  <1> /\ TypeOK /\ SignalsHandled /\ WorkerKnown /\ Built /\ Hooked
      /\ StartupKnown /\ ActivatedRightly /\ ExitCodeKnown /\ Recorded
    BY DEF IInv
  <1>1. CASE StopRedirection
    <2>1. PICK ok \in BOOLEAN :
            /\ StopRedirect(ok)
            /\ IF ok THEN UNCHANGED <<exit_code, failed>> ELSE ReportFailure("stop_redirect")
            /\ run' = [run EXCEPT !.stop_redirect_failed = ~ok]
      BY <1>1 DEF StopRedirection
    <2>2. /\ cpc = "stop_redirect" /\ cpc' = "request_stop"
          /\ UNCHANGED <<wpc, signals, handshake, umem, xsk, ifindex, attached, leaving, metadata>>
      BY <1>1 DEF StopRedirection, Goto
    <2>3. /\ redirecting' <=> ~ok
          /\ map_entry' <=> map_entry /\ ~(redirecting /\ ok)
          /\ redirecting \/ ok
      BY <2>1, HooksLetGo
    <2>4. run \in RunSummaries
      BY DEF TypeOK
    <2>5. run' \in RunSummaries
      BY <2>1, <2>4, Zenon DEF RunSummaries
    <2>6. run'.stop_redirect_failed <=> ~ok
      BY <2>1, <2>4, Zenon DEF RunSummaries
    <2>7. /\ run'.stop_reason = run.stop_reason /\ run'.stats_failed = run.stats_failed
          /\ run'.abandoned = run.abandoned /\ run'.csv_exported = run.csv_exported
      BY <2>1, <2>4 DEF RunSummaries
    <2>8. CASE ok
      <3>1. exit_code' = exit_code /\ failed' = failed
        BY <2>1, <2>8
      <3>2. ~redirecting' /\ ~map_entry'
        BY <2>3, <2>8 DEF Hooked
      <3>3. ~run.stop_redirect_failed /\ ~run'.stop_redirect_failed
        BY <2>2, <2>6, <2>8 DEF Recorded
      <3>4. TypeOK' /\ SignalsHandled'
        BY <2>2, <2>5, <2>7, <3>1, <3>2, <3>3, Zenon DEF TypeOK, SignalsHandled
      <3>5. WorkerKnown' /\ Built'
        BY <2>2, <2>5, <2>7, <3>1, <3>2, <3>3, Zenon DEF WorkerKnown, Built
      <3>6. Hooked' /\ StartupKnown' /\ ActivatedRightly'
        BY <2>2, <2>5, <2>7, <3>1, <3>2, <3>3, Zenon DEF Hooked, StartupKnown, ActivatedRightly, WorkerKnown
      <3>7. ExitCodeKnown'
        BY <2>2, <2>5, <2>7, <3>1, <3>2, <3>3, Zenon DEF ExitCodeKnown, NothingReported, Hooked
      <3>8. Recorded'
        BY <2>2, <2>5, <2>7, <3>1, <3>2, <3>3, Zenon DEF Recorded, Faultless, MetadataExplainsExit
      <3>9. QED
        BY <3>4, <3>5, <3>6, <3>7, <3>8 DEF IInv
    <2>9. CASE ~ok
      <3>1. exit_code' = 1 /\ failed' = failed \cup {"stop_redirect"}
        BY <2>1, <2>9 DEF ReportFailure, Note
      <3>2. TypeOK' /\ SignalsHandled'
        BY <2>2, <2>3, <2>5, <2>6, <2>7, <2>9, <3>1, Zenon DEF TypeOK, SignalsHandled
      <3>3. WorkerKnown' /\ Built'
        BY <2>2, <2>3, <2>5, <2>6, <2>7, <2>9, <3>1, Zenon DEF WorkerKnown, Built
      <3>4. Hooked' /\ StartupKnown' /\ ActivatedRightly'
        BY <2>2, <2>3, <2>5, <2>6, <2>7, <2>9, <3>1, Zenon DEF Hooked, StartupKnown, ActivatedRightly, WorkerKnown
      <3>5. ExitCodeKnown'
        BY <2>2, <2>3, <2>5, <2>6, <2>7, <2>9, <3>1 DEF ExitCodeKnown, NothingReported, Hooked
      <3>6. Recorded'
        BY <2>2, <2>3, <2>5, <2>6, <2>7, <2>9, <3>1 DEF Recorded, Faultless, MetadataExplainsExit
      <3>7. QED
        BY <3>2, <3>3, <3>4, <3>5, <3>6 DEF IInv
    <2>10. QED
      BY <2>8, <2>9
  <1>2. CASE RequestStop
    <2>1. /\ cpc = "request_stop" /\ stop_requested'
          /\ cpc' \in {"callback_store", "join"}
          /\ UNCHANGED <<wpc, signals, prepared, activated, startup, joined, resources, outcome>>
      BY <1>2 DEF RequestStop
    <2>2. TypeOK' /\ SignalsHandled'
      BY <2>1, ZenonT(40) DEF TypeOK, SignalsHandled
    <2>3. WorkerKnown' /\ Built'
      BY <2>1, Zenon DEF WorkerKnown, Built
    <2>4. Hooked' /\ StartupKnown' /\ ActivatedRightly'
      BY <2>1, Zenon DEF Hooked, StartupKnown, ActivatedRightly, WorkerKnown
    <2>5. ExitCodeKnown'
      BY <2>1, Zenon DEF ExitCodeKnown, NothingReported, Hooked
    <2>6. Recorded'
      BY <2>1, Zenon DEF Recorded, Faultless, MetadataExplainsExit
    <2>7. QED
      BY <2>2, <2>3, <2>4, <2>5, <2>6 DEF IInv
  <1>3. CASE CallbackStores
    <2>1. /\ cpc = "callback_store" /\ cpc' = "callback_notify" /\ activated'
          /\ UNCHANGED <<wpc, signals, prepared, startup, stop_requested, callback, joined,
                         resources, outcome>>
      BY <1>3 DEF CallbackStores, Goto
    <2>2. TypeOK' /\ SignalsHandled'
      BY <2>1, Zenon DEF TypeOK, SignalsHandled
    <2>3. WorkerKnown' /\ Built'
      BY <2>1, Zenon DEF WorkerKnown, Built
    <2>4. Hooked' /\ StartupKnown' /\ ActivatedRightly'
      BY <2>1, Zenon DEF Hooked, StartupKnown, ActivatedRightly, WorkerKnown
    <2>5. ExitCodeKnown'
      BY <2>1, Zenon DEF ExitCodeKnown, NothingReported, Hooked
    <2>6. Recorded'
      BY <2>1, Zenon DEF Recorded, Faultless, MetadataExplainsExit
    <2>7. QED
      BY <2>2, <2>3, <2>4, <2>5, <2>6 DEF IInv
  <1>4. CASE CallbackNotifies
    <2>1. /\ cpc = "callback_notify" /\ cpc' = "join"
          /\ wpc' = IF wpc = "asleep" THEN "wait_activated" ELSE wpc
          /\ UNCHANGED <<signals, prepared, activated, startup, stop_requested, joined,
                         resources, outcome>>
      BY <1>4 DEF CallbackNotifies, WakeWorker, Goto
    <2>2. TypeOK' /\ SignalsHandled'
      BY <2>1, Zenon DEF TypeOK, SignalsHandled
    <2>3. WorkerKnown' /\ Built'
      BY <2>1, Zenon DEF WorkerKnown, Built
    <2>4. Hooked' /\ StartupKnown' /\ ActivatedRightly'
      BY <2>1, Zenon DEF Hooked, StartupKnown, ActivatedRightly, WorkerKnown
    <2>5. ExitCodeKnown'
      BY <2>1, Zenon DEF ExitCodeKnown, NothingReported, Hooked
    <2>6. Recorded'
      BY <2>1, Zenon DEF Recorded, Faultless, MetadataExplainsExit
    <2>7. QED
      BY <2>2, <2>3, <2>4, <2>5, <2>6 DEF IInv
  <1>5. CASE Join
    <2>1. /\ cpc = "join" /\ wpc = "returned" /\ joined'
          /\ cpc' = IF leaving THEN "unwind_loader" ELSE "drain"
          /\ UNCHANGED <<wpc, signals, prepared, activated, startup, stop_requested, callback,
                         resources, outcome>>
      BY <1>5 DEF Join
    <2>2. TypeOK' /\ SignalsHandled'
      BY <2>1, Zenon DEF TypeOK, SignalsHandled
    <2>3. WorkerKnown' /\ Built'
      BY <2>1, Zenon DEF WorkerKnown, Built, ActivatedRightly
    <2>4. Hooked' /\ StartupKnown' /\ ActivatedRightly'
      BY <2>1, Zenon DEF Hooked, StartupKnown, ActivatedRightly, WorkerKnown
    <2>5. ExitCodeKnown'
      BY <2>1, Zenon DEF ExitCodeKnown, NothingReported, Hooked
    <2>6. Recorded'
      BY <2>1, Zenon DEF Recorded, Faultless, MetadataExplainsExit
    <2>7. QED
      BY <2>2, <2>3, <2>4, <2>5, <2>6 DEF IInv
  <1>6. QED
    BY <1>1, <1>2, <1>3, <1>4, <1>5

\* The worker has been joined: drain_until, detach, the last statistics.
LEMMA DrainingSteps ==
  ASSUME IInv, Drain \/ DetachProgram \/ FinalStats
  PROVE  IInv'
  <1> /\ TypeOK /\ SignalsHandled /\ WorkerKnown /\ Built /\ Hooked
      /\ StartupKnown /\ ActivatedRightly /\ ExitCodeKnown /\ Recorded
    BY DEF IInv
  <1> run \in RunSummaries
    BY DEF TypeOK
  <1>1. CASE Drain /\ UNCHANGED <<exit_code, failed, run>>
    <2>1. /\ cpc = "drain" /\ cpc' = "detach"
          /\ UNCHANGED <<wpc, signals, handshake, resources, outcome>>
      BY <1>1 DEF Drain, Goto
    <2>2. TypeOK' /\ SignalsHandled'
      BY <2>1, Zenon DEF TypeOK, SignalsHandled
    <2>3. WorkerKnown' /\ Built'
      BY <2>1, Zenon DEF WorkerKnown, Built
    <2>4. Hooked' /\ StartupKnown' /\ ActivatedRightly'
      BY <2>1, Zenon DEF Hooked, StartupKnown, ActivatedRightly, WorkerKnown
    <2>5. ExitCodeKnown'
      BY <2>1, Zenon DEF ExitCodeKnown, NothingReported, Hooked
    <2>6. Recorded'
      BY <2>1, Zenon DEF Recorded, Faultless, MetadataExplainsExit
    <2>7. QED
      BY <2>2, <2>3, <2>4, <2>5, <2>6 DEF IInv
  <1>2. CASE Drain /\ ReportFailure("drain") /\ run' = [run EXCEPT !.abandoned = TRUE]
    <2>1. /\ cpc = "drain" /\ cpc' = "detach"
          /\ exit_code' = 1 /\ failed' = failed \cup {"drain"}
          /\ UNCHANGED <<wpc, signals, handshake, resources, leaving, metadata>>
      BY <1>2 DEF Drain, Goto, ReportFailure, Note
    <2>2. run' \in RunSummaries
      BY <1>2, Zenon DEF RunSummaries
    <2>3. run'.abandoned /\ run'.csv_exported = run.csv_exported
      BY <1>2 DEF RunSummaries
    <2>4. TypeOK' /\ SignalsHandled'
      BY <2>1, <2>2, <2>3, Zenon DEF TypeOK, SignalsHandled
    <2>5. WorkerKnown' /\ Built'
      BY <2>1, <2>2, <2>3, Zenon DEF WorkerKnown, Built
    <2>6. Hooked' /\ StartupKnown' /\ ActivatedRightly'
      BY <2>1, <2>2, <2>3, Zenon DEF Hooked, StartupKnown, ActivatedRightly, WorkerKnown
    <2>7. ExitCodeKnown'
      BY <2>1, <2>2, <2>3 DEF ExitCodeKnown, NothingReported, Hooked
    <2>8. Recorded'
      BY <2>1, <2>2, <2>3 DEF Recorded, Faultless, MetadataExplainsExit
    <2>9. QED
      BY <2>4, <2>5, <2>6, <2>7, <2>8 DEF IInv
  <1>3. CASE DetachProgram
    <2>1. PICK ok \in BOOLEAN :
            /\ Detach(ok)
            /\ IF ok
               THEN cpc' = "final_stats" /\ UNCHANGED outcome
               ELSE Leave(1, "unwind_thread") /\ Note("detach") /\ UNCHANGED records
      BY <1>3 DEF DetachProgram
    <2>2. cpc = "detach" /\ UNCHANGED <<wpc, signals, handshake, umem, xsk, redirecting, map_entry>>
      BY <1>3 DEF DetachProgram
    <2>3. /\ ifindex' <=> ~ok
          /\ attached' <=> attached /\ ~(ifindex /\ ok)
          /\ ifindex \/ ok
      BY <2>1, HooksLetGo
    <2>4. CASE ok
      <3>1. cpc' = "final_stats" /\ UNCHANGED outcome
        BY <2>1, <2>4
      <3>2. ~ifindex' /\ ~attached'
        BY <2>3, <2>4 DEF Hooked
      <3>3. TypeOK' /\ SignalsHandled'
        BY <2>2, <3>1, <3>2, Zenon DEF TypeOK, SignalsHandled
      <3>4. WorkerKnown' /\ Built'
        BY <2>2, <3>1, <3>2, Zenon DEF WorkerKnown, Built
      <3>5. Hooked' /\ StartupKnown' /\ ActivatedRightly'
        BY <2>2, <3>1, <3>2, Zenon DEF Hooked, StartupKnown, ActivatedRightly, WorkerKnown
      <3>6. ExitCodeKnown'
        BY <2>2, <3>1, <3>2, Zenon DEF ExitCodeKnown, NothingReported, Hooked
      <3>7. Recorded'
        BY <2>2, <3>1, <3>2, Zenon DEF Recorded, Faultless, MetadataExplainsExit
      <3>8. QED
        BY <3>3, <3>4, <3>5, <3>6, <3>7 DEF IInv
    <2>5. CASE ~ok
      <3>1. /\ cpc' = "unwind_thread" /\ exit_code' = 1 /\ leaving'
            /\ failed' = failed \cup {"detach"} /\ UNCHANGED records
        BY <2>1, <2>5 DEF Leave, Note
      <3>2. TypeOK' /\ SignalsHandled'
        BY <2>2, <2>3, <2>5, <3>1, Zenon DEF TypeOK, SignalsHandled
      <3>3. WorkerKnown' /\ Built'
        BY <2>2, <2>3, <2>5, <3>1, Zenon DEF WorkerKnown, Built
      <3>4. Hooked' /\ StartupKnown' /\ ActivatedRightly'
        BY <2>2, <2>3, <2>5, <3>1, Zenon DEF Hooked, StartupKnown, ActivatedRightly, WorkerKnown
      <3>5. ExitCodeKnown'
        BY <2>2, <2>3, <2>5, <3>1 DEF ExitCodeKnown, NothingReported, Hooked
      <3>6. Recorded'
        BY <2>2, <2>3, <2>5, <3>1, Zenon DEF Recorded, Faultless, MetadataExplainsExit
      <3>7. QED
        BY <3>2, <3>3, <3>4, <3>5, <3>6 DEF IInv
    <2>6. QED
      BY <2>4, <2>5
  <1>4. CASE FinalStats /\ UNCHANGED <<exit_code, failed, run>>
    <2>1. /\ cpc = "final_stats" /\ cpc' = "unwind_thread"
          /\ UNCHANGED <<wpc, signals, handshake, resources, outcome>>
      BY <1>4 DEF FinalStats, Goto
    <2>2. TypeOK' /\ SignalsHandled'
      BY <2>1, Zenon DEF TypeOK, SignalsHandled
    <2>3. WorkerKnown' /\ Built'
      BY <2>1, Zenon DEF WorkerKnown, Built
    <2>4. Hooked' /\ StartupKnown' /\ ActivatedRightly'
      BY <2>1, Zenon DEF Hooked, StartupKnown, ActivatedRightly, WorkerKnown
    <2>5. ExitCodeKnown'
      BY <2>1, Zenon DEF ExitCodeKnown, NothingReported, Hooked
    <2>6. Recorded'
      BY <2>1, Zenon DEF Recorded, Faultless, MetadataExplainsExit
    <2>7. QED
      BY <2>2, <2>3, <2>4, <2>5, <2>6 DEF IInv
  <1>5. CASE FinalStats /\ ReportFailure("stats") /\ SummariseTrouble({"stats"}, run.stop_reason)
    <2>1. /\ cpc = "final_stats" /\ cpc' = "unwind_thread"
          /\ exit_code' = 1 /\ failed' = failed \cup {"stats"}
          /\ UNCHANGED <<wpc, signals, handshake, resources, leaving, metadata>>
      BY <1>5 DEF FinalStats, Goto, ReportFailure, Note
    <2>2. run.stop_reason \in {"signal", "tx_rejection_anomaly"}
      BY DEF RunSummaries
    <2>3. run' \in RunSummaries /\ run'.stats_failed /\ (run'.csv_exported <=> run.csv_exported)
      BY <1>5, <2>2, SummaryOfTrouble
    <2>4. TypeOK' /\ SignalsHandled'
      BY <2>1, <2>3, Zenon DEF TypeOK, SignalsHandled
    <2>5. WorkerKnown' /\ Built'
      BY <2>1, <2>3, Zenon DEF WorkerKnown, Built
    <2>6. Hooked' /\ StartupKnown' /\ ActivatedRightly'
      BY <2>1, <2>3, Zenon DEF Hooked, StartupKnown, ActivatedRightly, WorkerKnown
    <2>7. ExitCodeKnown'
      BY <2>1, <2>3 DEF ExitCodeKnown, NothingReported, Hooked
    <2>8. Recorded'
      BY <2>1, <2>3 DEF Recorded, Faultless, MetadataExplainsExit
    <2>9. QED
      BY <2>4, <2>5, <2>6, <2>7, <2>8 DEF IInv
  <1>6. QED
    BY <1>1, <1>2, <1>3, <1>4, <1>5 DEF Drain, FinalStats

\* XdpLoader::release: a hook is left only where the kernel refused.
LEMMA Releases ==
  ASSUME IInv, Release
  PROVE  /\ ifindex' <=> attached'
         /\ redirecting' <=> map_entry'
         /\ attached' => attached /\ "detach" \in failed'
         /\ map_entry' => map_entry /\ "stop_redirect" \in failed'
         /\ failed \subseteq failed'
         /\ failed' # failed => ifindex \/ redirecting
  <1> /\ TypeOK /\ SignalsHandled /\ WorkerKnown /\ Built /\ Hooked
      /\ StartupKnown /\ ActivatedRightly /\ ExitCodeKnown /\ Recorded
    BY DEF IInv
  <1>1. PICK ok1 \in BOOLEAN, ok2 \in BOOLEAN :
          /\ StopRedirect(ok1)
          /\ Detach(ok2)
          /\ failed' = failed \cup (IF ok1 THEN {} ELSE {"stop_redirect"})
                             \cup (IF ok2 THEN {} ELSE {"detach"})
    BY DEF Release
  <1>2. /\ redirecting' <=> ~ok1
        /\ map_entry' <=> map_entry /\ ~(redirecting /\ ok1)
        /\ redirecting \/ ok1
        /\ ifindex' <=> ~ok2
        /\ attached' <=> attached /\ ~(ifindex /\ ok2)
        /\ ifindex \/ ok2
    BY <1>1, HooksLetGo
  <1>3. (ifindex <=> attached) /\ (redirecting <=> map_entry)
    BY DEF Hooked
  <1>4. failed \subseteq failed'
    BY <1>1
  <1>5. ~ok1 => "stop_redirect" \in failed'
    BY <1>1
  <1>6. ~ok2 => "detach" \in failed'
    BY <1>1
  <1>7. ok1 /\ ok2 => failed' = failed
    BY <1>1
  <1>8. QED
    BY <1>2, <1>3, <1>4, <1>5, <1>6, <1>7

\* The destructors.
LEMMA UnwindingSteps ==
  ASSUME IInv, UnwindLoad \/ UnwindThread \/ UnwindLoader \/ UnwindXsk \/ UnwindUmem
  PROVE  IInv'
  <1> /\ TypeOK /\ SignalsHandled /\ WorkerKnown /\ Built /\ Hooked
      /\ StartupKnown /\ ActivatedRightly /\ ExitCodeKnown /\ Recorded
    BY DEF IInv
  <1>1. CASE UnwindLoad
    <2>1. /\ cpc = "unwind_load" /\ cpc' = "unwind_thread"
          /\ UNCHANGED <<wpc, signals, handshake, umem, xsk, exit_code, leaving, records>>
      BY <1>1 DEF UnwindLoad, Goto
    <2>2. /\ ifindex' <=> attached'
          /\ redirecting' <=> map_entry'
          /\ attached' => attached
          /\ failed \subseteq failed'
      BY <1>1, Releases DEF UnwindLoad
    <2>3. exit_code = 1 /\ ~NothingReported' /\ ~activated
      BY <2>1, <2>2 DEF ExitCodeKnown, NothingReported, ActivatedRightly
    <2>4. TypeOK' /\ SignalsHandled'
      BY <2>1, <2>2, <2>3, Zenon DEF TypeOK, SignalsHandled
    <2>5. WorkerKnown' /\ Built'
      BY <2>1, <2>2, <2>3, Zenon DEF WorkerKnown, Built
    <2>6. Hooked' /\ StartupKnown' /\ ActivatedRightly'
      BY <2>1, <2>2, <2>3, Zenon DEF Hooked, StartupKnown, ActivatedRightly, WorkerKnown
    <2>7. ExitCodeKnown'
      BY <2>1, <2>2, <2>3 DEF ExitCodeKnown, NothingReported, Hooked
    <2>8. Recorded'
      BY <2>1, <2>2, <2>3, Zenon DEF Recorded, Faultless, MetadataExplainsExit
    <2>9. QED
      BY <2>4, <2>5, <2>6, <2>7, <2>8 DEF IInv
  <1>2. CASE UnwindThread
    <2>1. /\ cpc = "unwind_thread"
          /\ \/ (wpc = "none" \/ joined) /\ cpc' = "unwind_loader"
             \/ wpc # "none" /\ ~joined /\ cpc' = "request_stop"
          /\ UNCHANGED <<wpc, signals, handshake, resources, outcome>>
      BY <1>2 DEF UnwindThread
    <2>2. TypeOK' /\ SignalsHandled'
      BY <2>1, ZenonT(40) DEF TypeOK, SignalsHandled
    <2>3. WorkerKnown' /\ Built'
      BY <2>1, Zenon DEF WorkerKnown, Built
    <2>4. Hooked' /\ StartupKnown' /\ ActivatedRightly'
      BY <2>1, Zenon DEF Hooked, StartupKnown, ActivatedRightly, WorkerKnown
    <2>5. ExitCodeKnown'
      BY <2>1, Zenon DEF ExitCodeKnown, NothingReported, Hooked
    <2>6. Recorded'
      BY <2>1, Zenon DEF Recorded, Faultless, MetadataExplainsExit
    <2>7. QED
      BY <2>2, <2>3, <2>4, <2>5, <2>6 DEF IInv
  <1>3. CASE UnwindLoader
    <2>1. /\ cpc = "unwind_loader" /\ cpc' = "unwind_xsk"
          /\ UNCHANGED <<wpc, signals, handshake, umem, xsk, exit_code, leaving, records>>
      BY <1>3 DEF UnwindLoader, Goto
    <2>2. /\ ifindex' <=> attached'
          /\ redirecting' <=> map_entry'
          /\ attached' => attached /\ "detach" \in failed'
          /\ map_entry' => map_entry /\ "stop_redirect" \in failed'
          /\ failed \subseteq failed'
          /\ failed' # failed => ifindex \/ redirecting
      BY <1>3, Releases DEF UnwindLoader
    <2>3. exit_code = 0 <=> NothingReported'
      BY <2>1, <2>2 DEF ExitCodeKnown, NothingReported
    <2>4. TypeOK' /\ SignalsHandled'
      BY <2>1, <2>2, <2>3, Zenon DEF TypeOK, SignalsHandled
    <2>5. WorkerKnown' /\ Built'
      BY <2>1, <2>2, <2>3, Zenon DEF WorkerKnown, Built
    <2>6. Hooked' /\ StartupKnown' /\ ActivatedRightly'
      BY <2>1, <2>2, <2>3, Zenon DEF Hooked, StartupKnown, ActivatedRightly, WorkerKnown
    <2>7. ExitCodeKnown'
      BY <2>1, <2>2, <2>3, Zenon DEF ExitCodeKnown, NothingReported, Hooked
    <2>8. Recorded'
      BY <2>1, <2>2, <2>3, Zenon DEF Recorded, Faultless, MetadataExplainsExit
    <2>9. QED
      BY <2>4, <2>5, <2>6, <2>7, <2>8 DEF IInv
  <1>4. CASE UnwindXsk
    <2>1. /\ cpc = "unwind_xsk" /\ cpc' = "unwind_umem" /\ ~xsk'
          /\ UNCHANGED <<wpc, signals, handshake, umem, hooks, outcome>>
      BY <1>4 DEF UnwindXsk, Goto
    <2>2. TypeOK' /\ SignalsHandled'
      BY <2>1, Zenon DEF TypeOK, SignalsHandled
    <2>3. WorkerKnown' /\ Built'
      BY <2>1, Zenon DEF WorkerKnown, Built
    <2>4. Hooked' /\ StartupKnown' /\ ActivatedRightly'
      BY <2>1, Zenon DEF Hooked, StartupKnown, ActivatedRightly, WorkerKnown
    <2>5. ExitCodeKnown'
      BY <2>1, Zenon DEF ExitCodeKnown, NothingReported, Hooked
    <2>6. Recorded'
      BY <2>1, Zenon DEF Recorded, Faultless, MetadataExplainsExit
    <2>7. QED
      BY <2>2, <2>3, <2>4, <2>5, <2>6 DEF IInv
  <1>5. CASE UnwindUmem
    <2>1. /\ cpc = "unwind_umem" /\ ~umem'
          /\ cpc' = IF leaving THEN "exited" ELSE "report"
          /\ UNCHANGED <<wpc, signals, handshake, xsk, hooks, outcome>>
      BY <1>5 DEF UnwindUmem
    <2>2. TypeOK' /\ SignalsHandled'
      BY <2>1, Zenon DEF TypeOK, SignalsHandled
    <2>3. WorkerKnown' /\ Built'
      BY <2>1, Zenon DEF WorkerKnown, Built
    <2>4. Hooked' /\ StartupKnown' /\ ActivatedRightly'
      BY <2>1, Zenon DEF Hooked, StartupKnown, ActivatedRightly, WorkerKnown
    <2>5. ExitCodeKnown'
      BY <2>1, Zenon DEF ExitCodeKnown, NothingReported, Hooked
    <2>6. Recorded'
      BY <2>1, Zenon DEF Recorded, Faultless, MetadataExplainsExit
    <2>7. QED
      BY <2>2, <2>3, <2>4, <2>5, <2>6 DEF IInv
  <1>6. QED
    BY <1>1, <1>2, <1>3, <1>4, <1>5

\* The reports, and the files.
LEMMA ReportingSteps ==
  ASSUME IInv, ReportSamples \/ DumpCsv \/ DumpMetadata \/ Done
  PROVE  IInv'
  <1> /\ TypeOK /\ SignalsHandled /\ WorkerKnown /\ Built /\ Hooked
      /\ StartupKnown /\ ActivatedRightly /\ ExitCodeKnown /\ Recorded
    BY DEF IInv
  <1> run \in RunSummaries
    BY DEF TypeOK
  <1>1. CASE ReportSamples
    <2>1. /\ cpc = "report" /\ cpc' = "csv"
          /\ UNCHANGED <<wpc, signals, handshake, resources, outcome>>
      BY <1>1 DEF ReportSamples, Goto
    <2>2. TypeOK' /\ SignalsHandled'
      BY <2>1, Zenon DEF TypeOK, SignalsHandled
    <2>3. WorkerKnown' /\ Built'
      BY <2>1, Zenon DEF WorkerKnown, Built
    <2>4. Hooked' /\ StartupKnown' /\ ActivatedRightly'
      BY <2>1, Zenon DEF Hooked, StartupKnown, ActivatedRightly, WorkerKnown
    <2>5. ExitCodeKnown'
      BY <2>1, Zenon DEF ExitCodeKnown, NothingReported, Hooked
    <2>6. Recorded'
      BY <2>1, Zenon DEF Recorded, Faultless, MetadataExplainsExit
    <2>7. QED
      BY <2>2, <2>3, <2>4, <2>5, <2>6 DEF IInv
  <1>2. CASE DumpCsv /\ run' = [run EXCEPT !.csv_exported = TRUE] /\ UNCHANGED <<exit_code, failed>>
    <2>1. /\ cpc = "csv" /\ cpc' = "metadata" /\ UNCHANGED <<exit_code, failed>>
          /\ UNCHANGED <<wpc, signals, handshake, resources, leaving, metadata>>
      BY <1>2 DEF DumpCsv, Goto
    <2>2. run' \in RunSummaries
      BY <1>2, Zenon DEF RunSummaries
    <2>3. /\ run'.csv_exported
          /\ run'.stop_reason = run.stop_reason /\ run'.stats_failed = run.stats_failed
          /\ run'.stop_redirect_failed = run.stop_redirect_failed
          /\ run'.abandoned = run.abandoned
      BY <1>2 DEF RunSummaries
    <2>4. TypeOK' /\ SignalsHandled'
      BY <2>1, <2>2, <2>3, Zenon DEF TypeOK, SignalsHandled
    <2>5. WorkerKnown' /\ Built'
      BY <2>1, <2>2, <2>3, Zenon DEF WorkerKnown, Built
    <2>6. Hooked' /\ StartupKnown' /\ ActivatedRightly'
      BY <2>1, <2>2, <2>3, Zenon DEF Hooked, StartupKnown, ActivatedRightly, WorkerKnown
    <2>7. ExitCodeKnown'
      BY <2>1, <2>2, <2>3, Zenon DEF ExitCodeKnown, NothingReported, Hooked
    <2>8. Recorded'
      BY <2>1, <2>2, <2>3, Zenon DEF Recorded, Faultless, MetadataExplainsExit
    <2>9. QED
      BY <2>4, <2>5, <2>6, <2>7, <2>8 DEF IInv
  <1>3. CASE DumpCsv /\ ReportFailure("export") /\ UNCHANGED run
    <2>1. /\ cpc = "csv" /\ cpc' = "metadata" /\ exit_code' = 1 /\ failed' = failed \cup {"export"}
          /\ UNCHANGED <<wpc, signals, handshake, resources, leaving, records>>
      BY <1>3 DEF DumpCsv, Goto, ReportFailure, Note
    <2>2. TypeOK' /\ SignalsHandled'
      BY <2>1, Zenon DEF TypeOK, SignalsHandled
    <2>3. WorkerKnown' /\ Built'
      BY <2>1, Zenon DEF WorkerKnown, Built
    <2>4. Hooked' /\ StartupKnown' /\ ActivatedRightly'
      BY <2>1, Zenon DEF Hooked, StartupKnown, ActivatedRightly, WorkerKnown
    <2>5. ExitCodeKnown'
      BY <2>1 DEF ExitCodeKnown, NothingReported, Hooked
    <2>6. Recorded'
      BY <2>1 DEF Recorded, Faultless, MetadataExplainsExit
    <2>7. QED
      BY <2>2, <2>3, <2>4, <2>5, <2>6 DEF IInv
  <1>4. CASE DumpMetadata /\ metadata' = {[run |-> run, exit_code |-> exit_code]}
             /\ UNCHANGED <<exit_code, failed>>
    <2>1. /\ cpc = "metadata" /\ cpc' = "done" /\ UNCHANGED <<exit_code, failed>>
          /\ UNCHANGED <<wpc, signals, handshake, resources, leaving, run>>
      BY <1>4 DEF DumpMetadata, Goto
    <2>2. exit_code = 0 <=> Faultless /\ run.csv_exported
      BY <2>1 DEF Recorded
    <2>3. Faultless /\ run.csv_exported <=>
            run = [stop_reason |-> "signal", stats_failed |-> FALSE, stop_redirect_failed |-> FALSE,
                   abandoned |-> FALSE, csv_exported |-> TRUE]
      BY DEF RunSummaries, Faultless
    <2>4. \A file \in metadata' : file.run = run /\ file.exit_code = exit_code
      BY <1>4
    <2>5. MetadataExplainsExit'
      BY <2>1, <2>2, <2>3, <2>4, ZenonT(40) DEF MetadataExplainsExit
    <2>6. Recorded'
      BY <2>1, <2>4, <2>5 DEF Recorded
    <2>7. TypeOK' /\ SignalsHandled'
      BY <2>1, Zenon DEF TypeOK, SignalsHandled
    <2>8. WorkerKnown' /\ Built'
      BY <2>1, Zenon DEF WorkerKnown, Built
    <2>9. Hooked' /\ StartupKnown' /\ ActivatedRightly'
      BY <2>1, Zenon DEF Hooked, StartupKnown, ActivatedRightly, WorkerKnown
    <2>10. ExitCodeKnown'
      BY <2>1, Zenon DEF ExitCodeKnown, NothingReported, Hooked
    <2>11. QED
      BY <2>6, <2>7, <2>8, <2>9, <2>10 DEF IInv
  <1>5. CASE DumpMetadata /\ ReportFailure("export") /\ UNCHANGED metadata
    <2>1. /\ cpc = "metadata" /\ cpc' = "done" /\ exit_code' = 1 /\ failed' = failed \cup {"export"}
          /\ UNCHANGED <<wpc, signals, handshake, resources, leaving, records>>
      BY <1>5 DEF DumpMetadata, Goto, ReportFailure, Note
    <2>2. TypeOK' /\ SignalsHandled'
      BY <2>1, Zenon DEF TypeOK, SignalsHandled
    <2>3. WorkerKnown' /\ Built'
      BY <2>1, Zenon DEF WorkerKnown, Built
    <2>4. Hooked' /\ StartupKnown' /\ ActivatedRightly'
      BY <2>1, Zenon DEF Hooked, StartupKnown, ActivatedRightly, WorkerKnown
    <2>5. ExitCodeKnown'
      BY <2>1 DEF ExitCodeKnown, NothingReported, Hooked
    <2>6. Recorded'
      BY <2>1, Zenon DEF Recorded, Faultless, MetadataExplainsExit
    <2>7. QED
      BY <2>2, <2>3, <2>4, <2>5, <2>6 DEF IInv
  <1>6. CASE Done
    <2>1. /\ cpc = "done" /\ cpc' = "exited"
          /\ UNCHANGED <<wpc, signals, handshake, resources, outcome>>
      BY <1>6 DEF Done, Goto
    <2>2. TypeOK' /\ SignalsHandled'
      BY <2>1, Zenon DEF TypeOK, SignalsHandled
    <2>3. WorkerKnown' /\ Built'
      BY <2>1, Zenon DEF WorkerKnown, Built
    <2>4. Hooked' /\ StartupKnown' /\ ActivatedRightly'
      BY <2>1, Zenon DEF Hooked, StartupKnown, ActivatedRightly, WorkerKnown
    <2>5. ExitCodeKnown'
      BY <2>1, Zenon DEF ExitCodeKnown, NothingReported, Hooked
    <2>6. Recorded'
      BY <2>1, Zenon DEF Recorded, Faultless, MetadataExplainsExit
    <2>7. QED
      BY <2>2, <2>3, <2>4, <2>5, <2>6 DEF IInv
  <1>7. QED
    BY <1>1, <1>2, <1>3, <1>4, <1>5, <1>6 DEF DumpCsv, DumpMetadata

-----------------------------------------------------------------------------
(***************************************************************************)
(* Exceptions, the worker and the signals.                                 *)
(***************************************************************************)

\* Exceptions, caught by main or not.
LEMMA ExceptionSteps ==
  ASSUME IInv, Throw \/ LoseMapping \/ Terminate
  PROVE  IInv'
  <1> /\ TypeOK /\ SignalsHandled /\ WorkerKnown /\ Built /\ Hooked
      /\ StartupKnown /\ ActivatedRightly /\ ExitCodeKnown /\ Recorded
    BY DEF IInv
  <1>1. CASE Throw
    <2>1. Note("exception") /\ UNCHANGED <<wpc, signals, handshake, resources, records>>
      BY <1>1 DEF Throw
    <2>2. CASE Throwing /\ Leave(1, "unwind_thread")
      BY <2>1, <2>2, LeavesBlock DEF Throwing
    <2>3. CASE cpc \in Loading /\ Leave(1, "unwind_load")
      BY <2>1, <2>3, LeavesCreate
    <2>4. CASE ThrowingLate /\ Leave(1, "exited")
      BY <2>1, <2>4, LeavesReports DEF ThrowingLate
    <2>5. QED
      BY <1>1, <2>2, <2>3, <2>4 DEF Throw
  <1>2. CASE Terminate
    <2>1. /\ cpc \in Starting \cup {"load_filter", "report"} /\ cpc' = "terminated"
          /\ UNCHANGED <<wpc, signals, handshake, resources, outcome>>
      BY <1>2 DEF Terminate
    <2>2. TypeOK' /\ SignalsHandled'
      BY <2>1, Zenon DEF TypeOK, SignalsHandled
    <2>3. WorkerKnown' /\ Built'
      BY <2>1, Zenon DEF WorkerKnown, Built
    <2>4. Hooked' /\ StartupKnown' /\ ActivatedRightly'
      BY <2>1, Zenon DEF Hooked, StartupKnown, ActivatedRightly, WorkerKnown
    <2>5. ExitCodeKnown'
      BY <2>1, Zenon DEF ExitCodeKnown, NothingReported, Hooked
    <2>6. Recorded'
      BY <2>1, Zenon DEF Recorded, Faultless, MetadataExplainsExit
    <2>7. QED
      BY <2>2, <2>3, <2>4, <2>5, <2>6 DEF IInv
  <1>3. CASE LoseMapping
    <2>1. /\ cpc = "umem" /\ cpc' = "exited" /\ leaving' /\ exit_code' = 1
          /\ UNCHANGED <<wpc, signals, handshake, xsk, hooks, records>>
      BY <1>3 DEF LoseMapping, Leave
    <2>2. "mapping" \in failed' /\ ~NothingReported'
      BY <1>3 DEF LoseMapping, NothingReported
    <2>3. TypeOK' /\ SignalsHandled'
      BY <2>1, Zenon DEF TypeOK, SignalsHandled
    <2>4. WorkerKnown' /\ Built'
      BY <2>1, <2>2, Zenon DEF WorkerKnown, Built
    <2>5. Hooked' /\ StartupKnown' /\ ActivatedRightly'
      BY <2>1, Zenon DEF Hooked, StartupKnown, ActivatedRightly, WorkerKnown
    <2>6. ExitCodeKnown'
      BY <2>1, <2>2 DEF ExitCodeKnown
    <2>7. Recorded'
      BY <2>1, Zenon DEF Recorded, Faultless, MetadataExplainsExit
    <2>8. QED
      BY <2>3, <2>4, <2>5, <2>6, <2>7 DEF IInv
  <1>4. QED
    BY <1>1, <1>2, <1>3

\* The worker, and the flag and the call that let main go on.
LEMMA WorkerSteps ==
  ASSUME IInv, Worker
  PROVE  IInv'
  <1> /\ TypeOK /\ SignalsHandled /\ WorkerKnown /\ Built /\ Hooked
      /\ StartupKnown /\ ActivatedRightly /\ ExitCodeKnown /\ Recorded
    BY DEF IInv
  <1>1. CASE WorkerNotifiesPrepared
    <2>1. /\ wpc = "notify_prepared" /\ wpc' \in {"wait_activated", "unregister"}
          /\ \/ cpc' = cpc
             \/ cpc = "asleep" /\ cpc' = "wait_prepared"
          /\ UNCHANGED <<signals, handshake, resources, outcome>>
      BY <1>1 DEF WorkerNotifiesPrepared
    <2>2. TypeOK' /\ SignalsHandled'
      BY <2>1, Zenon DEF TypeOK, SignalsHandled
    <2>3. WorkerKnown' /\ Built'
      BY <2>1, Zenon DEF WorkerKnown, Built
    <2>4. Hooked' /\ StartupKnown' /\ ActivatedRightly'
      BY <2>1, Zenon DEF Hooked, StartupKnown, ActivatedRightly, WorkerKnown
    <2>5. ExitCodeKnown'
      BY <2>1, Zenon DEF ExitCodeKnown, NothingReported, Hooked
    <2>6. Recorded'
      BY <2>1, Zenon DEF Recorded, Faultless, MetadataExplainsExit
    <2>7. QED
      BY <2>2, <2>3, <2>4, <2>5, <2>6 DEF IInv
  <1> HIDE DEF Starting, Building, Preparing, Loading, Activating, Polling, Stopping, Draining,
               Unwinding, Reporting, Ended, Before, Within
  <1>2. CASE WorkerRegisters
    <2>1. /\ wpc = "register" /\ wpc' = "pin"
          /\ \/ stop_requested /\ activated'
             \/ ~stop_requested /\ activated' = activated
          /\ UNCHANGED <<cpc, signals, prepared, startup, stop_requested, joined, resources, outcome>>
      BY <1>2 DEF WorkerRegisters
    <2>2. TypeOK' /\ SignalsHandled'
      BY <2>1, Zenon DEF TypeOK, SignalsHandled
    <2>3. WorkerKnown' /\ Built'
      BY <2>1, Zenon DEF WorkerKnown, Built
    <2>4. Hooked' /\ StartupKnown' /\ ActivatedRightly'
      BY <2>1 DEF Hooked, StartupKnown, ActivatedRightly, WorkerKnown
    <2>5. ExitCodeKnown'
      BY <2>1, Zenon DEF ExitCodeKnown, NothingReported, Hooked
    <2>6. Recorded'
      BY <2>1, Zenon DEF Recorded, Faultless, MetadataExplainsExit
    <2>7. QED
      BY <2>2, <2>3, <2>4, <2>5, <2>6 DEF IInv
  <1>3. CASE PinToCpu \/ SetRealtime \/ CalibrateTsc
    <2>1. /\ wpc \in {"pin", "realtime", "calibrate"}
          /\ wpc' \in {"realtime", "calibrate", "store_prepared"}
          /\ startup' \in {startup, "ok", "failed"}
          /\ wpc' # "store_prepared" => startup' = startup
          /\ UNCHANGED <<cpc, signals, prepared, activated, stop_requested, callback, joined,
                         resources, outcome>>
      BY <1>3 DEF PinToCpu, SetRealtime, CalibrateTsc, PrepareThread
    <2>2. startup = "unset"
      BY <2>1 DEF StartupKnown
    <2>3. TypeOK' /\ SignalsHandled'
      BY <2>1, <2>2, Zenon DEF TypeOK, SignalsHandled
    <2>4. WorkerKnown' /\ Built'
      BY <2>1, <2>2, Zenon DEF WorkerKnown, Built
    <2>5. Hooked' /\ StartupKnown' /\ ActivatedRightly'
      BY <2>1, <2>2, Zenon DEF Hooked, StartupKnown, ActivatedRightly, WorkerKnown
    <2>6. ExitCodeKnown'
      BY <2>1, <2>2, Zenon DEF ExitCodeKnown, NothingReported, Hooked
    <2>7. Recorded'
      BY <2>1, <2>2, Zenon DEF Recorded, Faultless, MetadataExplainsExit
    <2>8. QED
      BY <2>3, <2>4, <2>5, <2>6, <2>7 DEF IInv
  <1>4. CASE WorkerStoresPrepared \/ WorkerWaits \/ WorkerStops \/ WorkerReturns
    <2>1. /\ \/ wpc = "store_prepared" /\ wpc' = "notify_prepared"
             \/ wpc = "wait_activated" /\ wpc' = "run" /\ activated
             \/ wpc = "wait_activated" /\ wpc' = "asleep"
             \/ wpc = "run" /\ wpc' = "unregister"
             \/ wpc = "unregister" /\ wpc' = "returned"
          /\ UNCHANGED <<cpc, signals, activated, startup, stop_requested, joined,
                         resources, outcome>>
      BY <1>4 DEF WorkerStoresPrepared, WorkerWaits, WorkerStops, WorkerReturns
    <2>2. TypeOK' /\ SignalsHandled'
      BY <2>1, Zenon DEF TypeOK, SignalsHandled
    <2>3. WorkerKnown' /\ Built'
      BY <2>1, Zenon DEF WorkerKnown, Built
    <2>4. Hooked' /\ StartupKnown' /\ ActivatedRightly'
      BY <2>1, Zenon DEF Hooked, StartupKnown, ActivatedRightly, WorkerKnown
    <2>5. ExitCodeKnown'
      BY <2>1, Zenon DEF ExitCodeKnown, NothingReported, Hooked
    <2>6. Recorded'
      BY <2>1, Zenon DEF Recorded, Faultless, MetadataExplainsExit
    <2>7. QED
      BY <2>2, <2>3, <2>4, <2>5, <2>6 DEF IInv
  <1>5. QED
    BY <1>1, <1>2, <1>3, <1>4 DEF Worker

\* A signal, while the process is there to receive it.
LEMMA SignalSteps ==
  ASSUME IInv, NEW signum \in Signals, Signal(signum)
  PROVE  IInv'
  <1> /\ TypeOK /\ SignalsHandled /\ WorkerKnown /\ Built /\ Hooked
      /\ StartupKnown /\ ActivatedRightly /\ ExitCodeKnown /\ Recorded
    BY DEF IInv
  <1>1. cpc \notin Ended /\ UNCHANGED <<wpc, handled, handshake, resources, outcome>>
    BY DEF Signal, Over
  <1>2. CASE signum \notin handled
    <2>1. cpc \in Starting /\ cpc' = "killed"
      BY <1>1, <1>2 DEF SignalsHandled, Signal
    <2>2. TypeOK' /\ SignalsHandled'
      BY <1>1, <2>1, Zenon DEF TypeOK, SignalsHandled
    <2>3. WorkerKnown' /\ Built'
      BY <1>1, <2>1, Zenon DEF WorkerKnown, Built
    <2>4. Hooked' /\ StartupKnown' /\ ActivatedRightly'
      BY <1>1, <2>1, Zenon DEF Hooked, StartupKnown, ActivatedRightly, WorkerKnown
    <2>5. ExitCodeKnown'
      BY <1>1, <2>1, Zenon DEF ExitCodeKnown, NothingReported, Hooked
    <2>6. Recorded'
      BY <1>1, <2>1, Zenon DEF Recorded, Faultless, MetadataExplainsExit
    <2>7. QED
      BY <2>2, <2>3, <2>4, <2>5, <2>6 DEF IInv
  <1> HIDE DEF Starting, Building, Preparing, Loading, Activating, Polling, Stopping, Draining,
               Unwinding, Reporting, Ended, Before, Within
  <1>3. CASE signum \in handled
    <2>1. cpc' = cpc
      BY <1>3 DEF Signal
    <2>2. TypeOK' /\ SignalsHandled'
      BY <1>1, <2>1, Zenon DEF TypeOK, SignalsHandled
    <2>3. WorkerKnown' /\ Built'
      BY <1>1, <2>1, Zenon DEF WorkerKnown, Built
    <2>4. Hooked' /\ StartupKnown' /\ ActivatedRightly'
      BY <1>1, <2>1, Zenon DEF Hooked, StartupKnown, ActivatedRightly, WorkerKnown
    <2>5. ExitCodeKnown'
      BY <1>1, <2>1, Zenon DEF ExitCodeKnown, NothingReported, Hooked
    <2>6. Recorded'
      BY <1>1, <2>1, Zenon DEF Recorded, Faultless, MetadataExplainsExit
    <2>7. QED
      BY <2>2, <2>3, <2>4, <2>5, <2>6 DEF IInv
  <1>4. QED
    BY <1>2, <1>3

-----------------------------------------------------------------------------
(***************************************************************************)
(* The theorems.                                                           *)
(***************************************************************************)

\* Every step keeps the invariant.
LEMMA NextStep ==
  ASSUME IInv, [Next]_vars
  PROVE  IInv'
  <1>1. CASE Control
    BY <1>1, StartingSteps, BuildingSteps, PreparingSteps, LoadingSteps, ActivatingSteps,
       PollingSteps, StoppingSteps, DrainingSteps, ReportingSteps, UnwindingSteps DEF Control
  <1>2. CASE Throw \/ LoseMapping \/ Terminate
    BY <1>2, ExceptionSteps
  <1>3. CASE Worker
    BY <1>3, WorkerSteps
  <1>4. CASE \E signum \in Signals : Signal(signum)
    BY <1>4, SignalSteps
  <1>5. CASE UNCHANGED vars
    <2> HIDE DEF Starting, Building, Preparing, Loading, Activating, Polling, Stopping, Draining,
                 Unwinding, Reporting, Ended, Before, Within
    <2>1. UNCHANGED <<cpc, wpc, signals, handshake, resources, outcome>>
      BY <1>5 DEF vars
    <2>2. TypeOK' /\ SignalsHandled'
      BY <2>1, Zenon DEF IInv, TypeOK, SignalsHandled
    <2>3. WorkerKnown' /\ Built'
      BY <2>1, Zenon DEF IInv, WorkerKnown, Built
    <2>4. Hooked' /\ StartupKnown' /\ ActivatedRightly'
      BY <2>1, Zenon DEF IInv, Hooked, StartupKnown, ActivatedRightly, WorkerKnown
    <2>5. ExitCodeKnown'
      BY <2>1, Zenon DEF IInv, ExitCodeKnown, NothingReported, Hooked
    <2>6. Recorded'
      BY <2>1, Zenon DEF IInv, Recorded, Faultless, MetadataExplainsExit
    <2>7. QED
      BY <2>2, <2>3, <2>4, <2>5, <2>6 DEF IInv
  <1>6. QED
    BY <1>1, <1>2, <1>3, <1>4, <1>5 DEF Next, Exited

\* The invariant holds in every state of a run.
THEOREM LifecycleInvariant == Spec => []IInv
  <1>1. Init => IInv
    <2> SUFFICES ASSUME Init PROVE IInv
      OBVIOUS
    <2>1. run \in RunSummaries
      BY DEF Init, RunSummaries
    <2>2. TypeOK /\ SignalsHandled
      BY <2>1 DEF Init, TypeOK, SignalsHandled
    <2>3. WorkerKnown /\ Built
      BY DEF Init, WorkerKnown, Built
    <2>4. Hooked /\ StartupKnown /\ ActivatedRightly
      BY DEF Init, Hooked, StartupKnown, ActivatedRightly
    <2>5. ExitCodeKnown
      BY DEF Init, ExitCodeKnown, NothingReported
    <2>6. Recorded
      BY DEF Init, Recorded, Faultless, MetadataExplainsExit
    <2>7. QED
      BY <2>2, <2>3, <2>4, <2>5, <2>6 DEF IInv
  <1>2. IInv /\ [Next]_vars => IInv'
    BY NextStep
  <1>3. QED
    BY <1>1, <1>2, PTL DEF Spec

\* The worker polls only while the UMEM and the socket exist, and main touches
\* the rings only before the worker is started or after it was joined.
THEOREM WorkerAlwaysOwnsLiveRings == Spec => []WorkerOwnsLiveRings
  <1>1. IInv => WorkerOwnsLiveRings
    BY DEF IInv, TypeOK, WorkerKnown, Built, WorkerOwnsLiveRings, WorkerAlive
  <1>2. QED
    BY <1>1, LifecycleInvariant, PTL

\* The program is on the interface only for a worker that was prepared, and is
\* taken off only once that worker is gone or, by a create that throws, while it
\* still waits to be activated.
THEOREM AlwaysRedirectedToPreparedWorker == Spec => []RedirectedToPreparedWorker
  <1>1. IInv => RedirectedToPreparedWorker
    BY DEF IInv, TypeOK, WorkerKnown, Built, Hooked, StartupKnown, ActivatedRightly,
           RedirectedToPreparedWorker, WorkerAlive
  <1>2. QED
    BY <1>1, LifecycleInvariant, PTL

\* However the process ends, no program stays on the interface that the kernel
\* did not refuse to detach; a process that exits or is killed has nothing else
\* left either, but for a map entry the kernel refused to delete and a mapping
\* that Umem::create lost to an exception.
THEOREM NothingIsLeftBehind == Spec => []NothingLeftBehind
  <1>1. IInv => NothingLeftBehind
    BY DEF IInv, WorkerKnown, Built, Hooked, NothingLeftBehind, WorkerAlive, Over
  <1>2. QED
    BY <1>1, LifecycleInvariant, PTL

\* The exit code is zero exactly when nothing failed, in the destructors too, but
\* for a preparation whose failure a stop masks.
THEOREM ExitCodeAlwaysTellsFailure == Spec => []ExitCodeTellsFailure
  <1>1. IInv => ExitCodeTellsFailure
    BY DEF IInv, ExitCodeKnown, NothingReported, ExitCodeTellsFailure
  <1>2. QED
    BY <1>1, LifecycleInvariant, PTL

\* A complete run_metadata.txt gives a reason for a nonzero exit code and none
\* for zero.
THEOREM MetadataAlwaysExplainsExit == Spec => []MetadataExplainsExit
  <1>1. IInv => MetadataExplainsExit
    BY DEF IInv, Recorded
  <1>2. QED
    BY <1>1, LifecycleInvariant, PTL
=============================================================================
