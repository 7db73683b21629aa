-------------------------- MODULE StatisticsProofs --------------------------
(***************************************************************************)
(* The counters, the sample window and the summary are right for any       *)
(* number of frames, ring and batch size, rejection limit, sample capacity *)
(* and number of packets.  The proof rests on the engine's invariant: what *)
(* is staged and outstanding is known there, what was counted is known     *)
(* here, and the two differ by the store that is due.                      *)
(***************************************************************************)
EXTENDS Statistics, EngineProofs

-----------------------------------------------------------------------------
(***************************************************************************)
(* The inductive invariant.                                                *)
(***************************************************************************)

\* What is still to be added to a counter, and its value after that.
Behind(c) == IF due.counter = c THEN due.amount ELSE 0

Done(c) == count[c] + Behind(c)

\* What a pass has handed to the callback and not yet counted as received.
InPass == IF pc = "callback" THEN i ELSE n

\* With the store that is due the counters account for every frame.
Accounts ==
  /\ count["callbacks"] = Done("staged") + Done("rejected") + Done("unsupported") + InHand
  /\ Done("staged") = Done("submitted") + Len(staged)
  /\ Done("submitted") = Done("reclaimed") + outstanding
  /\ count["callbacks"] = Done("received") + InPass + InHand

\* One store is due at a time, before anything that depends on it: a frame is
\* counted as staged while it is in the window, as submitted while it is
\* outstanding.  Nothing is due when the worker has left or the drain is over.
Pending ==
  /\ phase # "store" => due = Nothing
  /\ due.counter # "callbacks"
  /\ due.counter \in Outcomes => due.amount <= 1
  /\ Behind("staged") <= Len(staged) /\ Behind("submitted") <= outstanding
  /\ timed => phase # "between"
  /\ phase = "record" => timed
  /\ pc \in {"exited", "done"} => phase = "between"

\* Between two passes nothing is left of the last one to count; receive passes
\* are the worker's, the drain is the control thread's.
Passes ==
  /\ owner = "control" \/ pc \in {"run", "exited"} => n = 0
  /\ pc \in {"prefill", "drain_check", "done"} => owner = "control"
  /\ pc \in {"run", "callback", "fill_check", "refill", "rx_kick", "exited"} => owner = "worker"

\* What was rejected since the last read makes up the difference to the value
\* read, and the verdict is behind the history by the decision to come.
Judgement ==
  /\ count["rejected"] = frames_rejected + since_read
  /\ control # "decide" => last_rejected = frames_rejected
  /\ burst <=>
       \/ stop_reason = "tx_rejection_anomaly"
       \/ control = "decide" /\ frames_rejected - last_rejected > RejectionLimit

\* The summary is taken when nothing moves any more.
Summarised ==
  control = "done" => pc = "done" /\ run.count = count /\ run.abandoned = outstanding

\* The window opened at some callback.
Sampled == before_window <= Begun /\ SamplesAreFirstCallbacks

\* Together.
StatInv ==
  /\ StatTypeOK /\ Accounts /\ Pending
  /\ Passes /\ Judgement /\ Summarised /\ Sampled

-----------------------------------------------------------------------------
(***************************************************************************)
(* Counting.                                                               *)
(***************************************************************************)

\* Every counter by name.
LEMMA Tallies ==
  ASSUME NEW f \in [Counted -> Nat]
  PROVE  /\ f["callbacks"] \in Nat /\ f["received"] \in Nat
         /\ f["submitted"] \in Nat /\ f["reclaimed"] \in Nat
         /\ f["staged"] \in Nat /\ f["rejected"] \in Nat /\ f["unsupported"] \in Nat
  BY DEF Counted, Outcomes

\* What is due is a number.
LEMMA DueTallies ==
  ASSUME StatTypeOK, NEW c \in Counted
  PROVE  count[c] \in Nat /\ Behind(c) \in Nat /\ Done(c) \in Nat
  BY DEF StatTypeOK, Behind, Done

\* When nothing is due the counters are up to date.
LEMMA NothingDue ==
  ASSUME StatTypeOK, due = Nothing, NEW c \in Counted
  PROVE  Behind(c) = 0 /\ Done(c) = count[c]
  BY DEF StatTypeOK, Behind, Done, Nothing

\* Owing an amount moves one counter's value to be.
LEMMA OweTally ==
  ASSUME StatTypeOK, due = Nothing, NEW c \in Counted, NEW k \in Nat, Owe(c, k)
  PROVE  /\ due' \in [counter : Counted, amount : Nat] /\ phase' \in {"store", "between"}
         /\ phase' # "store" => due' = Nothing
         /\ due'.counter \in {c, "received"} /\ due'.amount = k
         /\ count' = count
         /\ Behind(c)' = k /\ Done(c)' = Done(c) + k
         /\ \A d \in Counted \ {c} : Behind(d)' = 0 /\ Done(d)' = Done(d)
  <1>1. /\ count' = count /\ phase' = IF k > 0 THEN "store" ELSE "between"
        /\ due' = IF k > 0 THEN [counter |-> c, amount |-> k] ELSE Nothing
    BY DEF Owe
  <1>2. "received" \in Counted
    BY DEF Counted
  <1>3. /\ due' \in [counter : Counted, amount : Nat] /\ due'.counter \in {c, "received"}
        /\ due'.amount = k
        /\ k > 0 => due'.counter = c
    BY <1>1, <1>2 DEF Nothing
  <1>4. /\ Behind(c)' = k
        /\ \A d \in Counted \ {c} : Behind(d)' = 0
    BY <1>3 DEF Behind
  <1>5. \A d \in Counted : Done(d) = count[d] /\ Done(d)' = count[d] + Behind(d)' /\ count[d] \in Nat
    BY <1>1, NothingDue, DueTallies DEF Done
  <1>6. QED
    BY <1>1, <1>3, <1>4, <1>5

\* A store brings one counter up to its value to be.
LEMMA StoreTally ==
  ASSUME StatTypeOK, Store
  PROVE  /\ count' \in [Counted -> Nat] /\ due' = Nothing
         /\ \A d \in Counted : count'[d] = Done(d) /\ Behind(d)' = 0 /\ Done(d)' = Done(d)
  <1>1. count' = [count EXCEPT ![due.counter] = @ + due.amount] /\ due' = Nothing
    BY DEF Store, StoreDue
  <1>2. /\ count \in [Counted -> Nat] /\ due.counter \in Counted /\ due.amount \in Nat
    BY DEF StatTypeOK
  <1>3. count[due.counter] + due.amount \in Nat
    BY <1>2
  <1>4. count' \in [Counted -> Nat]
    BY <1>1, <1>2, <1>3
  <1>5. \A d \in Counted : count'[d] = IF d = due.counter THEN count[d] + due.amount ELSE count[d]
    BY <1>1, <1>2
  <1>6. \A d \in Counted : count[d] \in Nat /\ count[d] + 0 = count[d]
    BY <1>2
  <1>7. \A d \in Counted : count'[d] = Done(d)
    BY <1>5, <1>6 DEF Done, Behind
  <1>8. \A d \in Counted : Behind(d)' = 0 /\ count'[d] \in Nat
    BY <1>1, <1>4 DEF Behind, Nothing
  <1>9. \A d \in Counted : Done(d)' = Done(d)
    BY <1>7, <1>8 DEF Done
  <1>10. QED
    BY <1>1, <1>4, <1>7, <1>8, <1>9

\* What a reader may rely on.
LEMMA Accountable ==
  ASSUME IInv, StatTypeOK, Accounts, Pending
  PROVE  CountersAccountForFrames
  <1>1. /\ "staged" \in Counted /\ "rejected" \in Counted /\ "unsupported" \in Counted
        /\ "submitted" \in Counted /\ "reclaimed" \in Counted /\ "received" \in Counted
        /\ "callbacks" \in Counted
    BY DEF Counted, Outcomes
  <1>2. \A c \in Counted : count[c] \in Nat /\ Behind(c) \in Nat /\ Done(c) = count[c] + Behind(c)
    BY DueTallies DEF Done
  <1>3. /\ Len(staged) \in Nat /\ outstanding \in Nat /\ InPass \in Nat
    BY Types DEF InPass
  <1>4. InHand \in {0, 1} /\ (phase = "store" => InHand = 0) /\ (phase = "between" => InHand = 0)
    BY DEF InHand
  <1>5. phase # "store" => \A c \in Counted : Behind(c) = 0
    BY NothingDue DEF Pending
  <1>6. Behind("staged") + Behind("rejected") + Behind("unsupported") \in {0, 1}
    <2>1. due.counter \in {"staged", "rejected", "unsupported"} => due.amount \in {0, 1}
      BY DEF Pending, StatTypeOK, Outcomes
    <2>2. QED
      BY <2>1 DEF Behind
  <1>7. /\ count["reclaimed"] <= count["submitted"] /\ count["submitted"] <= count["staged"]
        /\ count["received"] <= count["callbacks"]
    <2>1. /\ count["reclaimed"] \in Nat /\ Behind("reclaimed") \in Nat
          /\ count["submitted"] \in Nat /\ Behind("submitted") \in Nat
          /\ count["staged"] \in Nat /\ Behind("staged") \in Nat
          /\ count["received"] \in Nat /\ Behind("received") \in Nat
      BY <1>1, <1>2, Zenon
    <2>2. /\ Done("reclaimed") = count["reclaimed"] + Behind("reclaimed")
          /\ Done("submitted") = count["submitted"] + Behind("submitted")
          /\ Done("staged") = count["staged"] + Behind("staged")
          /\ Done("received") = count["received"] + Behind("received")
      BY <1>1, <1>2, Zenon
    <2>3. /\ Done("staged") = Done("submitted") + Len(staged) /\ Behind("staged") <= Len(staged)
          /\ Done("submitted") = Done("reclaimed") + outstanding /\ Behind("submitted") <= outstanding
          /\ count["callbacks"] = Done("received") + InPass + InHand
      BY Zenon DEF Accounts, Pending
    <2>4. count["submitted"] + Behind("submitted") = count["reclaimed"] + Behind("reclaimed") + outstanding
      BY <2>2, <2>3, Zenon
    <2>5. count["staged"] + Behind("staged") = count["submitted"] + Behind("submitted") + Len(staged)
      BY <2>2, <2>3, Zenon
    <2>6. count["callbacks"] = count["received"] + Behind("received") + InPass + InHand
      BY <2>2, <2>3, Zenon
    <2>7. count["reclaimed"] <= count["submitted"]
      BY <1>3, <2>1, <2>3, <2>4
    <2>8. count["submitted"] <= count["staged"]
      BY <1>3, <2>1, <2>3, <2>5
    <2>9. count["received"] <= count["callbacks"]
      BY <1>3, <1>4, <2>1, <2>6
    <2>10. QED
      BY <2>7, <2>8, <2>9
  <1>8. count["callbacks"] - Disposed \in {0, 1}
    <2> DEFINE late == Behind("staged") + Behind("rejected") + Behind("unsupported")
    <2>1. /\ count["staged"] \in Nat /\ Behind("staged") \in Nat
          /\ count["rejected"] \in Nat /\ Behind("rejected") \in Nat
          /\ count["unsupported"] \in Nat /\ Behind("unsupported") \in Nat
          /\ Done("staged") = count["staged"] + Behind("staged")
          /\ Done("rejected") = count["rejected"] + Behind("rejected")
          /\ Done("unsupported") = count["unsupported"] + Behind("unsupported")
      BY <1>1, <1>2, Zenon
    <2>2. count["callbacks"] = Done("staged") + Done("rejected") + Done("unsupported") + InHand
      BY Zenon DEF Accounts
    <2>3. count["callbacks"] - Disposed = late + InHand
      BY <1>4, <2>1, <2>2 DEF Disposed
    <2>4. CASE phase = "store"
      BY <1>4, <1>6, <2>3, <2>4
    <2>5. CASE phase # "store"
      <3>1. Behind("staged") = 0 /\ Behind("rejected") = 0 /\ Behind("unsupported") = 0
        BY <1>1, <1>5, <2>5, Zenon
      <3>2. QED
        BY <1>4, <2>3, <3>1
    <2>6. QED
      BY <2>4, <2>5
  <1>9. ASSUME phase = "between"
        PROVE  /\ count["callbacks"] = Disposed
               /\ count["staged"] = count["submitted"] + Len(staged)
               /\ count["submitted"] = count["reclaimed"] + outstanding
               /\ count["callbacks"] = count["received"] + InPass
    <2>1. /\ Done("staged") = count["staged"] /\ Done("rejected") = count["rejected"]
          /\ Done("unsupported") = count["unsupported"] /\ Done("submitted") = count["submitted"]
          /\ Done("reclaimed") = count["reclaimed"] /\ Done("received") = count["received"]
      BY <1>1, <1>9, NothingDue, Zenon DEF Pending
    <2>2. InHand = 0 /\ count["staged"] \in Nat /\ count["rejected"] \in Nat
          /\ count["unsupported"] \in Nat /\ count["received"] \in Nat
      BY <1>1, <1>2, <1>4, <1>9, Zenon
    <2>3. count["callbacks"] = Disposed /\ count["callbacks"] = count["received"] + InPass
      BY <1>3, <2>1, <2>2 DEF Accounts, Disposed
    <2>4. QED
      BY <2>1, <2>3, Zenon DEF Accounts
  <1>10. QED
    BY <1>7, <1>8, <1>9 DEF CountersAccountForFrames, InPass

-----------------------------------------------------------------------------
(***************************************************************************)
(* The engine under the counters.                                          *)
(***************************************************************************)

\* Counting adds nothing to the engine and takes nothing away from it.
LEMMA EngineStep == [StatNext]_allvars => [Next]_vars
  <1> SUFFICES ASSUME [StatNext]_allvars PROVE [Next]_vars
    OBVIOUS
  <1>1. CASE WorkerCounts
    BY <1>1 DEF WorkerCounts, BeginCallback, StoreCallbacks, CountedCallback, Store, StoreDue, RecordSample,
       CountedService, CountedPass, UncountedStep, Next, WorkerStep, ServiceStep, Service
  <1>2. CASE ControlLoop
    BY <1>2 DEF ControlLoop, LoopTest, StartSamples, ReadStats, Decide, StopAndJoin, Summarise, Next, Control
  <1>3. CASE Signal \/ KernelStep \/ (DeadlinePasses /\ UNCHANGED statvars) \/ UNCHANGED allvars
    BY <1>3 DEF Signal, KernelStep, allvars, Next, Control
  <1>4. QED
    BY <1>1, <1>2, <1>3 DEF StatNext

\* Every behaviour with counters is a behaviour of the engine, so all that is
\* proved of Engine's Spec holds of a run that is counted and judged.
THEOREM StatisticsImplementEngine == StatSpec => Spec
  <1>1. StatInit => Init
    BY DEF StatInit
  <1>2. QED
    BY <1>1, EngineStep, PTL DEF StatSpec, Spec

-----------------------------------------------------------------------------
(***************************************************************************)
(* Steps that count nothing.                                               *)
(***************************************************************************)

\* A step of the engine between two counts.
LEMMA Uncounted ==
  ASSUME StatInv, UNCHANGED <<statvars, Len(staged), outstanding, InPass>>, Passes',
         pc' \in {"exited", "done"} => phase = "between",
         pc = "done" => pc' = "done"
  PROVE  StatInv'
  <1> USE DEF statvars, writevars, samplevars, loopvars, historyvars
  <1>1. StatTypeOK'
    BY DEF StatInv, StatTypeOK
  <1>2. UNCHANGED <<count, due, phase, timed>>
    OBVIOUS
  <1>3. Accounts'
    BY <1>2 DEF StatInv, Accounts, Done, Behind, InHand
  <1>4. Pending'
    BY <1>2 DEF StatInv, Pending, Behind
  <1>5. Judgement'
    BY DEF StatInv, Judgement
  <1>6. Summarised'
    BY DEF StatInv, Summarised
  <1>7. Sampled'
    BY DEF StatInv, Sampled, SamplesAreFirstCallbacks, Begun
  <1>8. QED
    BY <1>1, <1>3, <1>4, <1>5, <1>6, <1>7 DEF StatInv

\* The worker's steps that count nothing.
LEMMA UncountedWorkerSteps ==
  ASSUME IInv, StatInv, UncountedStep
  PROVE  StatInv'
  <1> USE DEF InPass, Passes, servicevars, rvars
  <1>1. Passes /\ phase = "between" /\ UNCHANGED statvars
    BY DEF StatInv, UncountedStep
  <1>2. CASE RunExit
    <2>1. UNCHANGED <<Len(staged), outstanding, InPass>> /\ Passes' /\ pc # "done"
      BY <1>1, <1>2 DEF RunExit
    <2>2. QED
      BY <1>1, <2>1, Uncounted
  <1>3. CASE RxPoll
    <2>1. i = 0
      BY <1>3, Parts DEF RxPoll, Counters, NothingLeftStaged
    <2>2. UNCHANGED <<Len(staged), outstanding, InPass>> /\ Passes' /\ pc # "done"
      BY <1>1, <1>3, <2>1 DEF RxPoll
    <2>3. QED
      BY <1>1, <2>2, Uncounted
  <1>4. CASE ReleaseRx
    <2>1. UNCHANGED <<Len(staged), outstanding, InPass>> /\ Passes' /\ pc # "done"
      BY <1>1, <1>4 DEF ReleaseRx
    <2>2. QED
      BY <1>1, <2>1, Uncounted
  <1>5. CASE FillCheck
    <2>1. UNCHANGED <<Len(staged), outstanding, InPass>> /\ Passes' /\ pc # "done"
      BY <1>1, <1>5 DEF FillCheck
    <2>2. QED
      BY <1>1, <2>1, Uncounted
  <1>6. CASE Refill
    <2>1. UNCHANGED <<Len(staged), outstanding, InPass>> /\ Passes' /\ pc # "done"
      BY <1>1, <1>6 DEF Refill
    <2>2. QED
      BY <1>1, <2>1, Uncounted
  <1>7. CASE Prefill
    <2>1. UNCHANGED <<Len(staged), outstanding, InPass>> /\ Passes' /\ pc # "done"
      BY <1>1, <1>7 DEF Prefill
    <2>2. QED
      BY <1>1, <2>1, Uncounted
  <1>8. QED
    BY <1>2, <1>3, <1>4, <1>5, <1>6, <1>7 DEF UncountedStep

\* The kernel, the deadline, and the control thread's hand in the engine.
LEMMA UncountedOtherSteps ==
  ASSUME StatInv, UNCHANGED statvars,
         \/ phase = "between" /\ KickTx /\ UNCHANGED <<rvars, kvars, expired>>
         \/ RequestStop
         \/ phase = "between" /\ (JoinAndDrain \/ DrainCheck)
         \/ DeadlinePasses
         \/ Kernel
  PROVE  StatInv'
  <1> USE DEF InPass, Passes, servicevars, rvars, kvars
  <1>1. Passes /\ (pc \in {"exited", "done"} => phase = "between")
    BY DEF StatInv, Pending
  <1>2. CASE phase = "between" /\ KickTx /\ UNCHANGED <<rvars, kvars, expired>>
    <2>1. UNCHANGED <<Len(staged), outstanding, InPass>> /\ Passes' /\ pc # "done"
      BY <1>1, <1>2 DEF KickTx
    <2>2. QED
      BY <1>2, <2>1, Uncounted
  <1>3. CASE RequestStop \/ DeadlinePasses
    <2>1. UNCHANGED <<Len(staged), outstanding, InPass, pc>> /\ Passes'
      BY <1>1, <1>3 DEF RequestStop, DeadlinePasses
    <2>2. QED
      BY SMTT(30), <1>1, <2>1, Uncounted
  <1>4. CASE phase = "between" /\ JoinAndDrain
    <2>1. UNCHANGED <<Len(staged), outstanding, InPass>> /\ Passes' /\ pc # "done"
      BY <1>1, <1>4 DEF JoinAndDrain
    <2>2. QED
      BY <1>4, <2>1, Uncounted
  <1>5. CASE phase = "between" /\ DrainCheck
    <2>1. pc = "drain_check" /\ pc' \in {"publish", "done"}
      BY <1>5 DEF DrainCheck
    <2>2. UNCHANGED <<owner, staged, outstanding, n>>
      BY <1>5 DEF DrainCheck
    <2>3. UNCHANGED <<Len(staged), outstanding, InPass>> /\ Passes' /\ pc # "done"
      BY <1>1, <2>1, <2>2
    <2>4. QED
      BY <1>5, <2>3, Uncounted
  <1>6. CASE Kernel
    <2>1. UNCHANGED <<pc, owner, staged, outstanding, n, i>>
      BY <1>6, Zenon DEF Kernel, KernelTakesFill, KernelAsksForRxWakeup, KernelDelivers, KernelTakesTx,
         KernelAsksForTxWakeup, KernelCompletes
    <2>2. UNCHANGED <<Len(staged), outstanding, InPass, pc>> /\ Passes'
      BY <1>1, <2>1
    <2>3. QED
      BY <1>1, <2>2, Uncounted
  <1>7. QED
    BY <1>2, <1>3, <1>4, <1>5, <1>6

-----------------------------------------------------------------------------
(***************************************************************************)
(* The control thread's loop.                                              *)
(***************************************************************************)

\* The engine's side of the invariant stands still with the engine.
LEMMA EngineStands ==
  ASSUME StatInv, UNCHANGED <<vars, count, writevars>>
  PROVE  Accounts' /\ Pending' /\ Passes' /\ Begun' = Begun
  <1>1. UNCHANGED <<pc, owner, n, i, staged, outstanding, phase, due, timed, count>>
    BY DEF vars, servicevars, rvars, writevars
  <1>2. Accounts'
    BY <1>1 DEF StatInv, Accounts, Done, Behind, InHand, InPass
  <1>3. Pending'
    BY <1>1 DEF StatInv, Pending, Behind
  <1>4. QED
    BY <1>1, <1>2, <1>3 DEF StatInv, Passes, Begun

\* The loop's test, a signal, and the summary leave the verdict alone.
LEMMA LoopSteps ==
  ASSUME IInv, StatInv, LoopTest \/ Signal \/ Summarise
  PROVE  StatInv'
  <1> USE DEF writevars, samplevars, historyvars
  <1>1. /\ UNCHANGED <<vars, count, writevars, samplevars, historyvars, stop_reason, frames_rejected,
                       last_rejected>>
        /\ (control # "decide" /\ control' # "decide") \/ control' = control
    BY DEF LoopTest, Signal, Summarise
  <1>2. UNCHANGED <<pc, outstanding>> /\ outstanding \in Nat
    BY <1>1, Types DEF vars, servicevars
  <1>3. StatTypeOK'
    <2>1. StatTypeOK
      BY DEF StatInv
    <2>2. CASE LoopTest
      BY <1>1, <2>1, <2>2 DEF StatTypeOK, LoopTest
    <2>3. CASE Signal
      BY <1>1, <2>1, <2>3 DEF StatTypeOK, Signal
    <2>4. CASE Summarise
      <3>1. run' \in Summaries
        BY <2>1, <2>4, <1>2 DEF StatTypeOK, Summarise, Summaries
      <3>2. QED
        BY <1>1, <2>1, <2>4, <3>1 DEF StatTypeOK, Summarise
    <2>5. QED
      BY <2>2, <2>3, <2>4
  <1>4. Accounts' /\ Pending' /\ Passes' /\ Begun' = Begun
    BY <1>1, EngineStands
  <1>5. Judgement'
    BY <1>1 DEF StatInv, Judgement
  <1>6. Summarised'
    <2>1. CASE LoopTest
      BY <2>1 DEF Summarised, LoopTest
    <2>2. CASE Signal
      BY <1>1, <1>2, <2>2 DEF StatInv, Summarised, Signal
    <2>3. CASE Summarise
      BY <1>1, <1>2, <2>3 DEF Summarised, Summarise
    <2>4. QED
      BY <2>1, <2>2, <2>3
  <1>7. Sampled'
    BY <1>1, <1>4 DEF StatInv, Sampled, SamplesAreFirstCallbacks
  <1>8. QED
    BY <1>3, <1>4, <1>5, <1>6, <1>7 DEF StatInv

\* The sample window may open, whatever the callback is doing.
LEMMA StartSamplesStep ==
  ASSUME StatInv, StartSamples
  PROVE  StatInv'
  <1>1. /\ UNCHANGED <<vars, count, writevars, n_samples, dropped, since_read, burst,
                       g_stop, stop_reason, frames_rejected, last_rejected, run>>
        /\ control = "asleep" /\ control' = "awake"
        /\ enabled' = (enabled \/ ~g_stop)
        /\ before_window' = IF enabled' /\ ~enabled THEN Begun ELSE before_window
    BY DEF StartSamples
  <1>2. StatTypeOK /\ Judgement /\ Sampled
    BY DEF StatInv
  <1>3. count["callbacks"] \in Nat /\ Begun \in Nat /\ SampleCapacity \in Nat
    BY <1>2, Tallies, StatisticsAssumption DEF StatTypeOK, Begun
  <1>4. StatTypeOK'
    <2>1. before_window' \in Nat /\ enabled' \in BOOLEAN
      BY <1>1, <1>2, <1>3 DEF StatTypeOK
    <2>2. QED
      BY <1>1, <1>2, <2>1 DEF StatTypeOK, writevars
  <1>5. Accounts' /\ Pending' /\ Passes' /\ Begun' = Begun
    BY <1>1, EngineStands
  <1>6. Judgement'
    BY <1>1, <1>2 DEF Judgement
  <1>7. Summarised'
    BY <1>1 DEF Summarised
  <1>8. Sampled'
    <2>1. CASE enabled' /\ ~enabled
      <3>1. n_samples + (IF timed THEN 1 ELSE 0) = 0 /\ dropped = 0
        BY <1>2, <2>1 DEF Sampled, SamplesAreFirstCallbacks
      <3>2. Begun - Begun = 0 /\ Min2(SampleCapacity, 0) = 0 /\ Begun <= Begun
        BY <1>3 DEF Min2
      <3>3. UNCHANGED <<n_samples, timed, dropped>> /\ before_window' = Begun /\ Begun' = Begun
        BY <1>1, <1>5, <2>1 DEF writevars
      <3>4. QED
        BY <2>1, <3>1, <3>2, <3>3 DEF Sampled, SamplesAreFirstCallbacks
    <2>2. CASE ~(enabled' /\ ~enabled)
      <3>1. UNCHANGED <<enabled, before_window>>
        BY <1>1, <1>2, <2>2, Zenon DEF StatTypeOK
      <3>2. QED
        BY <1>1, <1>2, <1>5, <3>1 DEF Sampled, SamplesAreFirstCallbacks, writevars
    <2>3. QED
      BY <2>1, <2>2
  <1>9. QED
    BY <1>4, <1>5, <1>6, <1>7, <1>8 DEF StatInv

\* Reading the counter closes an interval.
LEMMA ReadStatsStep ==
  ASSUME StatInv, ReadStats
  PROVE  StatInv'
  <1>1. /\ UNCHANGED <<vars, count, writevars, samplevars, before_window, g_stop, stop_reason,
                       last_rejected, run>>
        /\ control = "awake" /\ control' = "decide"
        /\ frames_rejected' = count["rejected"]
        /\ since_read' = 0
        /\ burst' = (burst \/ since_read > RejectionLimit)
    BY DEF ReadStats
  <1>2. StatTypeOK /\ Judgement /\ Sampled
    BY DEF StatInv
  <1>3. count["rejected"] \in Nat
    BY <1>2, Tallies DEF StatTypeOK
  <1>4. /\ since_read \in Nat /\ burst \in BOOLEAN /\ frames_rejected \in Nat
        /\ count["rejected"] = frames_rejected + since_read /\ last_rejected = frames_rejected
        /\ burst <=> stop_reason = "tx_rejection_anomaly"
    BY <1>1, <1>2 DEF StatTypeOK, Judgement
  <1>5. StatTypeOK'
    <2>1. last_rejected' \in 0..frames_rejected' /\ frames_rejected' \in Nat /\ since_read' \in Nat
      BY <1>1, <1>3, <1>4
    <2>2. burst' \in BOOLEAN
      BY <1>1, <1>4
    <2>3. QED
      BY <1>1, <1>2, <2>1, <2>2 DEF StatTypeOK, writevars, samplevars
  <1>6. Accounts' /\ Pending' /\ Passes' /\ Begun' = Begun
    BY <1>1, EngineStands
  <1>7. Judgement'
    <2>1. frames_rejected' - last_rejected' = since_read
      BY <1>1, <1>4
    <2>2. count'["rejected"] = frames_rejected' + since_read'
      BY <1>1, <1>3
    <2>3. frames_rejected' - last_rejected' > RejectionLimit <=> since_read > RejectionLimit
      BY <2>1, Zenon
    <2>4. control' # "decide" => last_rejected' = frames_rejected'
      BY <1>1, Zenon
    <2>5. burst' <=> \/ stop_reason' = "tx_rejection_anomaly"
                     \/ control' = "decide" /\ frames_rejected' - last_rejected' > RejectionLimit
      BY <1>1, <1>4, <2>3, ZenonT(40)
    <2>6. QED
      BY <2>2, <2>4, <2>5, ZenonT(40) DEF Judgement
  <1>8. Summarised'
    BY <1>1 DEF Summarised
  <1>9. Sampled'
    BY <1>1, <1>2, <1>6 DEF Sampled, SamplesAreFirstCallbacks, writevars, samplevars
  <1>10. QED
    BY <1>5, <1>6, <1>7, <1>8, <1>9 DEF StatInv

\* The decision brings the verdict up to date.
LEMMA DecideStep ==
  ASSUME StatInv, Decide
  PROVE  StatInv'
  <1>1. /\ UNCHANGED <<vars, count, writevars, samplevars, historyvars, frames_rejected, run>>
        /\ control = "decide" /\ control' = "loop" /\ last_rejected' = frames_rejected
        /\ stop_reason' = IF frames_rejected - last_rejected > RejectionLimit
                          THEN "tx_rejection_anomaly" ELSE stop_reason
        /\ g_stop' = (g_stop \/ frames_rejected - last_rejected > RejectionLimit)
    BY DEF Decide
  <1>2. StatTypeOK /\ Judgement /\ Sampled
    BY DEF StatInv
  <1>3. StatTypeOK'
    <2>1. /\ last_rejected' \in 0..frames_rejected' /\ g_stop' \in BOOLEAN
          /\ stop_reason' \in {"signal", "tx_rejection_anomaly"}
      BY <1>1, <1>2 DEF StatTypeOK
    <2>2. QED
      BY <1>1, <1>2, <2>1 DEF StatTypeOK, writevars, samplevars, historyvars
  <1>4. Accounts' /\ Pending' /\ Passes' /\ Begun' = Begun
    BY <1>1, EngineStands
  <1>5. Judgement'
    BY <1>1, <1>2 DEF Judgement, historyvars
  <1>6. Summarised'
    BY <1>1 DEF Summarised
  <1>7. Sampled'
    BY <1>1, <1>2, <1>4 DEF Sampled, SamplesAreFirstCallbacks, writevars, samplevars, historyvars
  <1>8. QED
    BY <1>3, <1>4, <1>5, <1>6, <1>7 DEF StatInv

-----------------------------------------------------------------------------
(***************************************************************************)
(* Steps that count.                                                       *)
(***************************************************************************)

\* A store that becomes due leaves the verdict and the samples alone.
LEMMA Owing ==
  ASSUME StatInv, NEW c \in Counted, NEW k \in Nat, Owe(c, k), phase \in {"between", "counted"},
         Accounts', Pending', Passes', pc # "done"
  PROVE  StatInv'
  <1> USE DEF samplevars, loopvars, historyvars
  <1>1. UNCHANGED <<count, timed, samplevars, loopvars, historyvars>>
    BY DEF Owe
  <1>2. StatTypeOK /\ Judgement /\ Summarised /\ Sampled /\ due = Nothing
    BY DEF StatInv, Pending
  <1>3. due' \in [counter : Counted, amount : Nat] /\ phase' \in {"store", "between"}
    BY <1>2, OweTally
  <1>4. StatTypeOK'
    BY <1>1, <1>2, <1>3 DEF StatTypeOK
  <1>5. Judgement'
    BY <1>1, <1>2 DEF Judgement
  <1>6. Summarised'
    BY <1>1, <1>2 DEF Summarised
  <1>7. Begun' = Begun
    BY <1>1, <1>3 DEF Begun
  <1>8. Sampled'
    BY <1>1, <1>2, <1>7 DEF Sampled, SamplesAreFirstCallbacks
  <1>9. QED
    BY <1>4, <1>5, <1>6, <1>8 DEF StatInv

\* It is due for what the engine has just done.
LEMMA OwePending ==
  ASSUME StatInv, NEW c \in Counted \ {"callbacks"}, NEW k \in Nat, Owe(c, k),
         phase = "between" \/ (phase = "counted" /\ k = 1),
         c \in Outcomes => k <= 1,
         Len(staged)' \in Nat, c = "staged" => k <= Len(staged)',
         outstanding' \in Nat, c = "submitted" => k <= outstanding',
         pc' \notin {"exited", "done"}
  PROVE  Pending'
  <1>1. StatTypeOK /\ due = Nothing /\ (timed => phase # "between")
    BY DEF StatInv, Pending
  <1>2. /\ phase' = IF k > 0 THEN "store" ELSE "between"
        /\ timed' = timed
    BY DEF Owe
  <1>3. /\ phase' # "store" => due' = Nothing
        /\ due'.counter \in {c, "received"} /\ due'.amount = k
        /\ Behind(c)' = k /\ \A d \in Counted \ {c} : Behind(d)' = 0
    BY <1>1, OweTally
  <1>4. due'.counter # "callbacks" /\ (due'.counter \in Outcomes => due'.amount <= 1)
    BY <1>3 DEF Outcomes
  <1>5. "staged" \in Counted /\ "submitted" \in Counted
    BY DEF Counted, Outcomes
  <1>6. Behind("staged")' <= Len(staged)'
    BY <1>3, <1>5
  <1>7. Behind("submitted")' <= outstanding'
    BY <1>3, <1>5
  <1>8. timed' => phase' # "between"
    BY <1>1, <1>2
  <1>9. phase' # "record"
    BY <1>2
  <1>10. QED
    BY <1>3, <1>4, <1>6, <1>7, <1>8, <1>9, Zenon DEF Pending

\* publish_and_service_tx: what was staged becomes submitted and outstanding,
\* what is reclaimed is outstanding no more.
LEMMA CountedServiceStep ==
  ASSUME IInv, StatInv, CountedService, IInv'
  PROVE  StatInv'
  <1>1. /\ StatTypeOK /\ Accounts /\ Passes /\ phase = "between" /\ due = Nothing
        /\ UNCHANGED <<n, i>> /\ Len(staged) \in Nat /\ outstanding \in Nat
    BY Types DEF StatInv, Pending, CountedService, rvars
  <1>2. owner \in {"worker", "control"}
    BY Parts DEF TypeOK
  <1>3. /\ Done("submitted") \in Nat /\ Done("reclaimed") \in Nat /\ Done("staged") \in Nat
        /\ Done("staged") = Done("submitted") + Len(staged)
        /\ Done("submitted") = Done("reclaimed") + outstanding
    BY <1>1, DueTallies DEF Accounts, Counted, Outcomes
  <1>4. InHand = 0
    BY <1>1 DEF InHand
  <1>5. CASE PublishTx /\ Owe("submitted", Len(staged))
    <2> DEFINE k == Len(staged)
    <2>1. /\ pc = "publish" /\ pc' \in {"fill_check", "drain_check", "reap"} /\ owner' = owner
          /\ pc' = "fill_check" => owner = "worker"
          /\ pc' = "drain_check" => owner # "worker"
          /\ outstanding' = outstanding + k /\ Len(staged)' = 0
      BY <1>5 DEF PublishTx, AfterService
    <2>2. Passes'
      BY <1>1, <1>2, <2>1 DEF Passes
    <2>3. "submitted" \in Counted \ {"callbacks"}
      BY DEF Counted, Outcomes
    <2>4. k \in Nat /\ Owe("submitted", k)
      BY <1>1, <1>5
    <2> HIDE DEF k
    <2>5. /\ count' = count /\ phase' # "counted" /\ Done("submitted")' = Done("submitted") + k
          /\ \A d \in Counted \ {"submitted"} : Done(d)' = Done(d)
      BY <1>1, <2>3, <2>4, OweTally
    <2>6. /\ Done("staged")' = Done("staged") /\ Done("rejected")' = Done("rejected")
          /\ Done("unsupported")' = Done("unsupported") /\ Done("received")' = Done("received")
          /\ Done("reclaimed")' = Done("reclaimed")
      BY <2>5, Zenon DEF Counted, Outcomes
    <2>7. InHand' = InHand /\ InPass' = InPass
      BY <1>1, <1>4, <2>1, <2>5 DEF InHand, InPass
    <2>8. /\ Done("staged") = Done("submitted")' + 0
          /\ Done("submitted")' = Done("reclaimed") + outstanding'
      BY <1>1, <1>3, <2>1, <2>4, <2>5 DEF k
    <2>9. Accounts'
      BY <1>1, <2>1, <2>5, <2>6, <2>7, <2>8, Zenon DEF Accounts
    <2>10. outstanding' \in Nat /\ k <= outstanding'
      BY <1>1, <2>1, <2>4
    <2>11. "submitted" \notin Outcomes
      BY DEF Outcomes
    <2>12. Pending'
      BY <1>1, <2>1, <2>3, <2>4, <2>10, <2>11, OwePending
    <2>13. QED
      BY <1>1, <2>1, <2>2, <2>3, <2>4, <2>9, <2>12, Owing
  <1>6. CASE (ReapFirst \/ ReapAgain) /\ Owe("reclaimed", FramesReclaimed)
    <2> DEFINE k == FramesReclaimed
    <2>1. /\ pc \in {"reap", "reap_again"} /\ owner' = owner /\ staged' = staged
          /\ pc' \in {"fill_check", "drain_check", "tx_kick"}
          /\ pc' = "fill_check" => owner = "worker"
          /\ pc' = "drain_check" => owner # "worker"
      BY <1>6 DEF ReapFirst, ReapAgain, AfterService
    <2>2. Passes'
      BY <1>1, <1>2, <2>1 DEF Passes
    <2>3. FramesReclaimed \in Nat /\ outstanding' = outstanding - FramesReclaimed
      <3>1. CASE ReapFirst
        <4>1. Reclaim(N) /\ FramesReclaimed = ReclaimAmount(N)
          BY <3>1 DEF ReapFirst, FramesReclaimed
        <4>2. QED
          BY <4>1, ReclaimFacts, Constants
      <3>2. CASE ReapAgain /\ reaped < N
        <4>1. Reclaim(N - reaped) /\ FramesReclaimed = ReclaimAmount(N - reaped)
          BY <3>2 DEF ReapAgain, FramesReclaimed
        <4>2. N - reaped \in Nat
          BY SMTT(30), <3>2, Types, Constants
        <4>3. QED
          BY <4>1, <4>2, ReclaimFacts
      <3>3. CASE ReapAgain /\ ~(reaped < N)
        <4>1. FramesReclaimed = 0 /\ outstanding' = outstanding
          BY <3>3 DEF ReapAgain, FramesReclaimed
        <4>2. QED
          BY <1>1, <4>1
      <3>4. QED
        BY <1>6, <3>1, <3>2, <3>3
    <2>4. "reclaimed" \in Counted \ {"callbacks"}
      BY DEF Counted, Outcomes
    <2>5. k \in Nat /\ Owe("reclaimed", k) /\ outstanding' = outstanding - k
      BY <1>6, <2>3
    <2> HIDE DEF k
    <2>6. /\ count' = count /\ phase' # "counted" /\ Done("reclaimed")' = Done("reclaimed") + k
          /\ \A d \in Counted \ {"reclaimed"} : Done(d)' = Done(d)
      BY <1>1, <2>4, <2>5, OweTally
    <2>7. /\ Done("staged")' = Done("staged") /\ Done("rejected")' = Done("rejected")
          /\ Done("unsupported")' = Done("unsupported") /\ Done("received")' = Done("received")
          /\ Done("submitted")' = Done("submitted")
      BY <2>6, Zenon DEF Counted, Outcomes
    <2>8. InHand' = InHand /\ InPass' = InPass /\ Len(staged)' = Len(staged)
      BY <1>1, <1>4, <2>1, <2>6 DEF InHand, InPass
    <2>9. Done("submitted") = Done("reclaimed")' + outstanding'
      BY <1>1, <1>3, <2>5, <2>6
    <2>10. Accounts'
      BY <1>1, <2>6, <2>7, <2>8, <2>9, Zenon DEF Accounts
    <2>11. outstanding' \in Nat
      BY Zenon DEF IInv, TypeOK
    <2>12. "reclaimed" \notin Outcomes
      BY DEF Outcomes
    <2>13. Pending'
      BY <1>1, <2>1, <2>4, <2>5, <2>8, <2>11, <2>12, OwePending
    <2>14. QED
      BY <1>1, <2>1, <2>2, <2>4, <2>5, <2>10, <2>13, Owing
  <1>7. CASE KickTx /\ UNCHANGED statvars
    BY <1>7, UncountedOtherSteps DEF CountedService
  <1>8. QED
    BY SMTT(30), <1>5, <1>6, <1>7 DEF CountedService

\* The pass is over and counted.
LEMMA CountedPassStep ==
  ASSUME IInv, StatInv, CountedPass
  PROVE  StatInv'
  <1>1. /\ StatTypeOK /\ Accounts /\ Passes /\ phase = "between" /\ due = Nothing
        /\ n \in Nat /\ Len(staged) \in Nat /\ outstanding \in Nat
        /\ Owe("received", n)
    BY Types DEF StatInv, Pending, CountedPass
  <1>2. /\ pc = "rx_kick" /\ pc' = "run" /\ n' = 0
        /\ UNCHANGED <<owner, staged, outstanding>>
    BY DEF CountedPass, KickRx, servicevars
  <1>3. "received" \in Counted \ {"callbacks"} /\ "received" \notin Outcomes
    BY DEF Counted, Outcomes
  <1>4. /\ count' = count /\ phase' # "counted" /\ Done("received")' = Done("received") + n
        /\ \A d \in Counted \ {"received"} : Done(d)' = Done(d)
    BY <1>1, <1>3, OweTally
  <1>5. /\ Done("staged")' = Done("staged") /\ Done("rejected")' = Done("rejected")
        /\ Done("unsupported")' = Done("unsupported") /\ Done("submitted")' = Done("submitted")
        /\ Done("reclaimed")' = Done("reclaimed")
    BY <1>4, Zenon DEF Counted, Outcomes
  <1>6. InHand = 0 /\ InHand' = 0 /\ InPass = n /\ InPass' = 0 /\ Done("received") \in Nat
    BY <1>1, <1>2, <1>3, <1>4, DueTallies DEF InHand, InPass
  <1>7. count'["callbacks"] = Done("received")' + InPass' + InHand'
    <2>1. count["callbacks"] = Done("received") + InPass + InHand
      BY <1>1 DEF Accounts
    <2>2. Done("received") + n + 0 = (Done("received") + n) + 0 + 0
      BY <1>1, <1>6
    <2>3. QED
      BY <1>4, <1>6, <2>1, <2>2, ZenonT(40)
  <1>8. Accounts'
    BY <1>1, <1>2, <1>4, <1>5, <1>6, <1>7, Zenon DEF Accounts
  <1>9. Passes'
    BY <1>1, <1>2 DEF Passes
  <1>10. Pending'
    BY <1>1, <1>2, <1>3, OwePending
  <1>11. QED
    BY <1>1, <1>2, <1>3, <1>8, <1>9, <1>10, Owing

\* A callback stages one frame or none, as its outcome says.
LEMMA CallbackStages ==
  ASSUME IInv, NEW outcome, Callback(outcome)
  PROVE  /\ Len(staged) \in Nat
         /\ Len(staged') = IF outcome = "staged" THEN Len(staged) + 1 ELSE Len(staged)
  <1> DEFINE addr == rx.q[i + 1]
             transferred == outcome = "staged"
  <1>1. /\ i < n /\ n <= rx.seen /\ rx.seen <= Len(rx.q) /\ rx.q \in Seq(A)
        /\ i \in Nat /\ n \in Nat /\ rx.seen \in Nat /\ Len(rx.q) \in Nat
    BY Types, Parts, Zenon DEF Callback, Counters
  <1>2. i + 1 \in 1..Len(rx.q)
    BY <1>1
  <1>3. addr \in A
    BY <1>1, <1>2
  <1>4. /\ transferred \in BOOLEAN
        /\ \/ ~transferred /\ UNCHANGED txvars
           \/ \E len_ok \in BOOLEAN : SendInPlace(addr, len_ok, transferred)
    BY Zenon DEF Callback, Strategy
  <1>5. staged \in Seq(A) /\ Len(staged) \in Nat
    BY Types
  <1> HIDE DEF addr
  <1>6. staged' = IF transferred THEN Append(staged, addr) ELSE staged
    BY <1>3, <1>4, StrategyFacts, Zenon
  <1>7. Len(Append(staged, addr)) = Len(staged) + 1
    BY <1>3, <1>5
  <1>8. QED
    BY <1>5, <1>6, <1>7

\* The callback's outcome matches what it did with the frame.
LEMMA CallbackAccounted ==
  ASSUME IInv, StatTypeOK, Accounts, phase = "counted", due = Nothing,
         NEW outcome \in Outcomes, Callback(outcome), Owe(outcome, 1)
  PROVE  Accounts'
  <1>1. outcome \in Counted
    BY DEF Counted
  <1>2. /\ count' = count /\ phase' # "counted" /\ Done(outcome)' = Done(outcome) + 1
        /\ \A d \in Counted \ {outcome} : Done(d)' = Done(d)
    BY <1>1, OweTally
  <1>3. /\ Done("received")' = Done("received") /\ Done("submitted")' = Done("submitted")
        /\ Done("reclaimed")' = Done("reclaimed")
    BY <1>2 DEF Counted, Outcomes
  <1>4. /\ Done("staged") \in Nat /\ Done("rejected") \in Nat /\ Done("unsupported") \in Nat
        /\ Done("submitted") \in Nat /\ Done("received") \in Nat
    BY DueTallies DEF Counted, Outcomes
  <1>5. pc = "callback" /\ i \in Nat /\ i' = i + 1 /\ UNCHANGED <<pc, outstanding>>
    BY Types DEF Callback
  <1>6. InHand = 1 /\ InHand' = 0 /\ InPass = i /\ InPass' = i + 1
    BY <1>2, <1>5 DEF InHand, InPass
  <1>7. /\ count["callbacks"] = Done("staged") + Done("rejected") + Done("unsupported") + 1
        /\ Done("staged") = Done("submitted") + Len(staged)
        /\ count["callbacks"] = Done("received") + i + 1
    BY <1>6, Zenon DEF Accounts
  <1>8. /\ Len(staged) \in Nat
        /\ Len(staged)' = IF outcome = "staged" THEN Len(staged) + 1 ELSE Len(staged)
    BY CallbackStages
  <1>9. /\ count["callbacks"] = Done("staged")' + Done("rejected")' + Done("unsupported")' + 0
        /\ Done("staged")' = Done("submitted") + Len(staged)'
    <2>1. CASE outcome = "staged"
      <3>1. /\ Done("staged")' = Done("staged") + 1 /\ Done("rejected")' = Done("rejected")
            /\ Done("unsupported")' = Done("unsupported") /\ Len(staged)' = Len(staged) + 1
        BY <1>2, <1>8, <2>1, Zenon DEF Counted, Outcomes
      <3>2. Done("staged") + 1 = Done("submitted") + (Len(staged) + 1)
        BY <1>4, <1>7, <1>8
      <3>3. Done("staged") + Done("rejected") + Done("unsupported") + 1 =
              (Done("staged") + 1) + Done("rejected") + Done("unsupported") + 0
        BY <1>4
      <3>4. QED
        BY <1>7, <3>1, <3>2, <3>3, Zenon
    <2>2. CASE outcome = "rejected"
      <3>1. /\ Done("staged")' = Done("staged") /\ Done("rejected")' = Done("rejected") + 1
            /\ Done("unsupported")' = Done("unsupported") /\ Len(staged)' = Len(staged)
        BY <1>2, <1>8, <2>2 DEF Counted, Outcomes
      <3>2. QED
        BY <1>4, <1>7, <1>8, <3>1
    <2>3. CASE outcome = "unsupported"
      <3>1. /\ Done("staged")' = Done("staged") /\ Done("rejected")' = Done("rejected")
            /\ Done("unsupported")' = Done("unsupported") + 1 /\ Len(staged)' = Len(staged)
        BY <1>2, <1>8, <2>3 DEF Counted, Outcomes
      <3>2. QED
        BY <1>4, <1>7, <1>8, <3>1
    <2>4. QED
      BY <2>1, <2>2, <2>3 DEF Outcomes
  <1>10. count["callbacks"] = Done("received") + (i + 1) + 0
    BY <1>4, <1>5, <1>7
  <1>11. QED
    BY <1>2, <1>3, <1>5, <1>6, <1>9, <1>10, Zenon DEF Accounts

\* The frame is disposed of, with its outcome due.
LEMMA CountedCallbackStep ==
  ASSUME IInv, StatInv, CountedCallback
  PROVE  StatInv'
  <1>1. PICK outcome \in Outcomes : Callback(outcome) /\ Owe(outcome, 1)
    BY DEF CountedCallback
  <1>2. StatTypeOK /\ Accounts /\ Passes /\ phase = "counted" /\ due = Nothing
    BY DEF StatInv, Pending, CountedCallback
  <1>3. outcome \in Counted \ {"callbacks"} /\ outcome # "submitted"
    BY DEF Counted, Outcomes
  <1>4. Accounts'
    BY <1>1, <1>2, CallbackAccounted
  <1>5. pc = "callback" /\ UNCHANGED <<pc, owner, n, outstanding>> /\ outstanding \in Nat
    BY <1>1, Types, ZenonT(40) DEF Callback
  <1>6. Passes'
    BY <1>2, <1>5 DEF Passes
  <1>7. Len(staged)' \in Nat /\ (outcome = "staged" => 1 <= Len(staged)')
    BY <1>1, CallbackStages
  <1>8. Pending'
    BY <1>1, <1>2, <1>3, <1>5, <1>7, OwePending
  <1>9. QED
    BY <1>1, <1>2, <1>3, <1>4, <1>5, <1>6, <1>8, Owing

\* A callback begins; with the window open and room in it, it will be sampled.
LEMMA BeginCallbackStep ==
  ASSUME StatInv, BeginCallback
  PROVE  StatInv'
  <1> USE DEF samplevars, loopvars, historyvars
  <1>1. /\ phase = "between" /\ pc = "callback" /\ phase' = "begun" /\ timed' = Recording
        /\ UNCHANGED <<vars, count, due, samplevars, loopvars, historyvars>>
    BY DEF BeginCallback
  <1>2. /\ StatTypeOK /\ Accounts /\ Pending /\ Passes /\ Judgement /\ Summarised /\ Sampled
        /\ ~timed /\ due = Nothing
    BY <1>1 DEF StatInv, Pending
  <1>3. UNCHANGED <<pc, owner, n, i, staged, outstanding>>
    BY <1>1 DEF vars, servicevars, rvars
  <1>4. StatTypeOK'
    <2>1. timed' \in BOOLEAN
      BY <1>1, <1>2, ZenonT(40) DEF Recording, StatTypeOK
    <2>2. QED
      BY <1>1, <1>2, <2>1 DEF StatTypeOK
  <1>5. Accounts'
    BY <1>1, <1>2, <1>3, ZenonT(40) DEF Accounts, Done, Behind, InHand, InPass
  <1>6. Pending'
    BY <1>1, <1>2, <1>3 DEF Pending, Behind
  <1>7. Passes' /\ Judgement' /\ Summarised'
    BY <1>1, <1>2, <1>3 DEF Passes, Judgement, Summarised
  <1>8. Sampled'
    <2> DEFINE c == Begun - before_window
    <2>1. /\ count["callbacks"] \in Nat /\ before_window \in Nat /\ SampleCapacity \in Nat
          /\ n_samples \in Nat /\ enabled \in BOOLEAN
      BY <1>2, Tallies, StatisticsAssumption DEF StatTypeOK
    <2>2. Begun = count["callbacks"] /\ Begun' = count["callbacks"] + 1
      BY <1>1, <2>1 DEF Begun
    <2>3. before_window <= Begun /\ dropped = 0 /\ n_samples + 0 = IF ~enabled THEN 0 ELSE Min2(SampleCapacity, c)
      BY <1>2 DEF Sampled, SamplesAreFirstCallbacks
    <2>4. c \in Nat /\ Begun' - before_window' = c + 1 /\ before_window' <= Begun'
      BY <1>1, <2>1, <2>2, <2>3
    <2> HIDE DEF c
    <2>5. n_samples + (IF Recording THEN 1 ELSE 0) = IF ~enabled THEN 0 ELSE Min2(SampleCapacity, c + 1)
      BY <2>1, <2>3, <2>4 DEF Recording, Min2
    <2>6. QED
      BY <1>1, <2>3, <2>4, <2>5, Zenon DEF Sampled, SamplesAreFirstCallbacks
  <1>9. QED
    BY <1>4, <1>5, <1>6, <1>7, <1>8 DEF StatInv

\* It counts itself.
LEMMA StoreCallbacksStep ==
  ASSUME IInv, StatInv, StoreCallbacks
  PROVE  StatInv'
  <1> USE DEF samplevars, loopvars, historyvars
  <1>1. /\ phase = "begun" /\ phase' = "counted" /\ count' = [count EXCEPT !["callbacks"] = @ + 1]
        /\ UNCHANGED <<vars, due, timed, samplevars, loopvars, historyvars>>
    BY DEF StoreCallbacks
  <1>2. /\ StatTypeOK /\ Accounts /\ Pending /\ Passes /\ Judgement /\ Summarised /\ Sampled
        /\ due = Nothing /\ pc # "done"
    BY <1>1 DEF StatInv, Pending
  <1>3. UNCHANGED <<pc, owner, n, i, staged, outstanding>>
    BY <1>1 DEF vars, servicevars, rvars
  <1>4. /\ count \in [Counted -> Nat] /\ "callbacks" \in Counted /\ count["callbacks"] \in Nat
    BY <1>2 DEF StatTypeOK, Counted
  <1>5. /\ count' \in [Counted -> Nat] /\ count'["callbacks"] = count["callbacks"] + 1
        /\ \A d \in Counted \ {"callbacks"} : count'[d] = count[d]
    BY <1>1, <1>4
  <1>6. /\ count'["staged"] = count["staged"] /\ count'["rejected"] = count["rejected"]
        /\ count'["unsupported"] = count["unsupported"] /\ count'["received"] = count["received"]
        /\ count'["submitted"] = count["submitted"] /\ count'["reclaimed"] = count["reclaimed"]
    BY <1>5 DEF Counted, Outcomes
  <1>7. StatTypeOK'
    BY <1>1, <1>2, <1>5 DEF StatTypeOK
  <1>8. Accounts'
    <2>1. /\ Done("staged")' = Done("staged") /\ Done("rejected")' = Done("rejected")
          /\ Done("unsupported")' = Done("unsupported") /\ Done("received")' = Done("received")
          /\ Done("submitted")' = Done("submitted") /\ Done("reclaimed")' = Done("reclaimed")
      BY <1>1, <1>6, Zenon DEF Done, Behind
    <2>2. InHand = 0 /\ InHand' = 1 /\ InPass' = InPass
      BY <1>1, <1>3 DEF InHand, InPass
    <2>3. /\ count["callbacks"] = Done("staged") + Done("rejected") + Done("unsupported") + 0
          /\ count["callbacks"] = Done("received") + InPass + 0
      BY <1>2, <2>2, ZenonT(40) DEF Accounts
    <2>4. /\ Done("staged") \in Nat /\ Done("rejected") \in Nat /\ Done("unsupported") \in Nat
          /\ Done("received") \in Nat
      BY <1>2, DueTallies DEF Counted, Outcomes
    <2>5. InPass \in Nat
      BY Types DEF InPass
    <2>6. /\ count["callbacks"] + 1 = Done("staged") + Done("rejected") + Done("unsupported") + 1
          /\ count["callbacks"] + 1 = Done("received") + InPass + 1
      BY <2>3, <2>4, <2>5
    <2>7. QED
      BY <1>2, <1>3, <1>5, <2>1, <2>2, <2>6, Zenon DEF Accounts
  <1>9. Pending'
    BY <1>1, <1>2, <1>3 DEF Pending, Behind
  <1>10. Passes' /\ Judgement' /\ Summarised'
    BY <1>1, <1>2, <1>3, <1>6, ZenonT(40) DEF Passes, Judgement, Summarised
  <1>11. Begun' = Begun
    BY <1>1, <1>4, <1>5 DEF Begun
  <1>12. Sampled'
    BY <1>1, <1>2, <1>11 DEF Sampled, SamplesAreFirstCallbacks
  <1>13. QED
    BY <1>7, <1>8, <1>9, <1>10, <1>12 DEF StatInv

\* What is due is stored; a rejection counts for the interval it is stored in.
LEMMA StoreStep ==
  ASSUME IInv, StatInv, Store
  PROVE  StatInv'
  <1> USE DEF samplevars, loopvars
  <1>1. /\ phase = "store" /\ phase' = (IF timed THEN "record" ELSE "between") /\ timed' = timed
        /\ since_read' = IF due.counter = "rejected" THEN since_read + due.amount ELSE since_read
        /\ UNCHANGED <<vars, samplevars, loopvars, before_window, burst>>
    BY DEF Store, StoreDue
  <1>2. /\ StatTypeOK /\ Accounts /\ Pending /\ Passes /\ Judgement /\ Summarised /\ Sampled
        /\ pc \notin {"exited", "done"}
    BY <1>1 DEF StatInv, Pending
  <1>3. UNCHANGED <<pc, owner, n, i, staged, outstanding>>
    BY <1>1 DEF vars, servicevars, rvars
  <1>4. /\ count' \in [Counted -> Nat] /\ due' = Nothing
        /\ \A d \in Counted : count'[d] = Done(d) /\ Behind(d)' = 0 /\ Done(d)' = Done(d)
    BY <1>2, StoreTally
  <1>5. /\ "staged" \in Counted /\ "rejected" \in Counted /\ "unsupported" \in Counted
        /\ "submitted" \in Counted /\ "reclaimed" \in Counted /\ "received" \in Counted
        /\ "callbacks" \in Counted
    BY DEF Counted, Outcomes
  <1>6. count'["callbacks"] = count["callbacks"]
    <2>1. Behind("callbacks") = 0 /\ count["callbacks"] \in Nat
      BY <1>2, <1>5, DueTallies DEF Pending, Behind
    <2>2. QED
      BY <1>4, <1>5, <2>1 DEF Done
  <1>7. since_read' \in Nat /\ count'["rejected"] = frames_rejected + since_read'
    <2>1. /\ count["rejected"] = frames_rejected + since_read /\ frames_rejected \in Nat
          /\ since_read \in Nat /\ due.amount \in Nat /\ count["rejected"] \in Nat
      BY <1>2, <1>5, Tallies DEF Judgement, StatTypeOK
    <2>2. count'["rejected"] = count["rejected"] + (IF due.counter = "rejected" THEN due.amount ELSE 0)
      BY <1>4, <1>5 DEF Done, Behind
    <2>3. QED
      BY <1>1, <2>1, <2>2
  <1>8. StatTypeOK'
    <2>1. due' \in [counter : Counted, amount : Nat]
      BY <1>4, <1>5 DEF Nothing
    <2>2. phase' \in {"record", "between"}
      BY <1>1
    <2>3. QED
      BY <1>1, <1>2, <1>4, <1>7, <2>1, <2>2 DEF StatTypeOK
  <1>9. Accounts'
    <2>1. InHand' = InHand /\ InPass' = InPass
      BY <1>1, <1>3 DEF InHand, InPass
    <2>2. /\ Done("staged")' = Done("staged") /\ Done("rejected")' = Done("rejected")
          /\ Done("unsupported")' = Done("unsupported") /\ Done("received")' = Done("received")
          /\ Done("submitted")' = Done("submitted") /\ Done("reclaimed")' = Done("reclaimed")
      BY <1>4, <1>5, Zenon
    <2>3. QED
      BY <1>2, <1>3, <1>6, <2>1, <2>2, Zenon DEF Accounts
  <1>10. Pending'
    <2>1. Behind("staged")' = 0 /\ Behind("submitted")' = 0
      BY <1>4, <1>5, Zenon
    <2>2. Behind("staged")' <= Len(staged)' /\ Behind("submitted")' <= outstanding'
      <3>1. Len(staged) \in Nat /\ outstanding \in Nat
        BY Types
      <3>2. 0 <= Len(staged)' /\ 0 <= outstanding'
        BY <1>3, <3>1
      <3>3. QED
        BY <2>1, <3>2, ZenonT(40)
    <2>3. due'.counter # "callbacks" /\ due'.counter \notin Outcomes
      BY <1>4 DEF Nothing, Outcomes
    <2>4. QED
      BY <1>1, <1>2, <1>3, <1>4, <2>2, <2>3, Zenon DEF Pending
  <1>11. Passes' /\ Summarised'
    BY <1>1, <1>2, <1>3 DEF Passes, Summarised
  <1>12. Judgement'
    BY <1>1, <1>2, <1>7 DEF Judgement
  <1>13. Begun' = Begun
    BY <1>1, <1>6 DEF Begun
  <1>14. Sampled'
    BY <1>1, <1>2, <1>13 DEF Sampled, SamplesAreFirstCallbacks
  <1>15. QED
    BY <1>8, <1>9, <1>10, <1>11, <1>12, <1>14 DEF StatInv

\* A timed callback ends with its sample, for which there is room.
LEMMA RecordSampleStep ==
  ASSUME StatInv, RecordSample
  PROVE  StatInv'
  <1> USE DEF loopvars, historyvars
  <1>1. /\ phase = "record" /\ phase' = "between" /\ timed' = FALSE /\ Record
        /\ UNCHANGED <<vars, count, due, enabled, loopvars, historyvars>>
    BY DEF RecordSample
  <1>2. /\ StatTypeOK /\ Accounts /\ Pending /\ Passes /\ Judgement /\ Summarised /\ Sampled
        /\ timed /\ due = Nothing /\ pc # "done"
    BY <1>1 DEF StatInv, Pending
  <1>3. UNCHANGED <<pc, owner, n, i, staged, outstanding>>
    BY <1>1 DEF vars, servicevars, rvars
  <1>4. /\ n_samples' = n_samples + 1 /\ dropped' = 0 /\ n_samples' \in 0..SampleCapacity
    <2>1. /\ n_samples \in Nat /\ SampleCapacity \in Nat /\ Begun \in Nat /\ before_window \in Nat
          /\ before_window <= Begun
      BY <1>2, Tallies, StatisticsAssumption DEF StatTypeOK, Begun, Sampled
    <2>2. n_samples + 1 = (IF ~enabled THEN 0 ELSE Min2(SampleCapacity, Begun - before_window))
          /\ dropped = 0
      BY <1>2 DEF Sampled, SamplesAreFirstCallbacks
    <2>3. n_samples < SampleCapacity
      BY <2>1, <2>2 DEF Min2
    <2>4. QED
      BY <1>1, <2>1, <2>2, <2>3 DEF Record
  <1>5. StatTypeOK'
    <2>1. dropped' \in Nat
      BY <1>4
    <2>2. timed' \in BOOLEAN
      BY <1>1, ZenonT(40)
    <2>3. QED
      BY <1>1, <1>2, <1>4, <2>1, <2>2, Zenon DEF StatTypeOK
  <1>6. Accounts'
    BY <1>1, <1>2, <1>3, ZenonT(40) DEF Accounts, Done, Behind, InHand, InPass
  <1>7. Pending'
    BY <1>1, <1>2, <1>3 DEF Pending, Behind
  <1>8. Passes' /\ Judgement' /\ Summarised'
    BY <1>1, <1>2, <1>3 DEF Passes, Judgement, Summarised
  <1>9. Sampled'
    <2>1. Begun' = Begun
      BY <1>1 DEF Begun
    <2>2. n_samples \in Nat
      BY <1>2, StatisticsAssumption DEF StatTypeOK
    <2>3. n_samples' + (IF timed' THEN 1 ELSE 0) = n_samples + (IF timed THEN 1 ELSE 0)
      BY <1>1, <1>2, <1>4, <2>2
    <2>4. QED
      BY <1>1, <1>2, <1>4, <2>1, <2>3 DEF Sampled, SamplesAreFirstCallbacks
  <1>10. QED
    BY <1>5, <1>6, <1>7, <1>8, <1>9 DEF StatInv

-----------------------------------------------------------------------------
(***************************************************************************)
(* The results.                                                            *)
(***************************************************************************)

\* All counters are zero, no frame is on its way.
LEMMA StatInitInvariant == StatInit => IInv /\ StatInv
  <1> SUFFICES ASSUME StatInit PROVE IInv /\ StatInv
    OBVIOUS
  <1> USE DEF StatInit
  <1>1. IInv
    BY InitInvariant
  <1>2. /\ pc = "prefill" /\ owner = "control" /\ n = 0 /\ outstanding = 0 /\ Len(staged) = 0
    BY DEF Init, TransmitterInit, ReceiverInit
  <1>3. \A c \in Counted : count[c] = 0
    OBVIOUS
  <1>4. /\ count["callbacks"] = 0 /\ count["received"] = 0
        /\ count["submitted"] = 0 /\ count["reclaimed"] = 0
        /\ count["staged"] = 0 /\ count["rejected"] = 0 /\ count["unsupported"] = 0
    BY <1>3 DEF Counted, Outcomes
  <1>5. StatTypeOK
    <2>1. count \in [Counted -> Nat]
      OBVIOUS
    <2>2. run \in Summaries
      BY <2>1 DEF Summaries
    <2>3. n_samples \in 0..SampleCapacity /\ last_rejected \in 0..frames_rejected
      BY StatisticsAssumption
    <2>4. due \in [counter : Counted, amount : Nat]
      BY DEF Nothing, Counted
    <2>5. QED
      BY <2>1, <2>2, <2>3, <2>4, Zenon DEF StatTypeOK
  <1>6. due = Nothing /\ \A c \in Counted : Behind(c) = 0 /\ Done(c) = count[c]
    BY <1>5, NothingDue
  <1>7. Accounts
    <2>1. /\ Done("received") = 0 /\ Done("submitted") = 0 /\ Done("reclaimed") = 0
          /\ Done("staged") = 0 /\ Done("rejected") = 0 /\ Done("unsupported") = 0
      BY <1>3, <1>6 DEF Counted, Outcomes
    <2>2. InHand = 0 /\ InPass = 0
      BY <1>2 DEF InHand, InPass
    <2>3. QED
      BY <1>2, <1>4, <2>1, <2>2 DEF Accounts
  <1>8. Pending
    BY <1>2 DEF Pending, Behind, Nothing, Outcomes
  <1>9. Passes /\ Summarised
    BY <1>2 DEF Passes, Summarised
  <1>10. Judgement
    BY <1>4, StatisticsAssumption DEF Judgement
  <1>11. Sampled
    BY <1>4 DEF Sampled, SamplesAreFirstCallbacks, Begun
  <1>12. QED
    BY <1>1, <1>5, <1>7, <1>8, <1>9, <1>10, <1>11 DEF StatInv

\* Every step keeps the engine's invariant and this one.
LEMMA StatNextInvariant == IInv /\ StatInv /\ [StatNext]_allvars => IInv' /\ StatInv'
  <1> SUFFICES ASSUME IInv, StatInv, [StatNext]_allvars PROVE IInv' /\ StatInv'
    OBVIOUS
  <1>1. IInv'
    BY EngineStep, NextInvariant
  <1>2. CASE WorkerCounts
    BY <1>1, <1>2, BeginCallbackStep, StoreCallbacksStep, CountedCallbackStep, StoreStep,
       RecordSampleStep, CountedServiceStep, CountedPassStep, UncountedWorkerSteps DEF WorkerCounts
  <1>3. CASE ControlLoop
    BY <1>1, <1>3, LoopSteps, StartSamplesStep, ReadStatsStep, DecideStep, UncountedOtherSteps
       DEF ControlLoop, StopAndJoin
  <1>4. CASE Signal
    BY <1>1, <1>4, LoopSteps
  <1>5. CASE KernelStep \/ (DeadlinePasses /\ UNCHANGED statvars)
    BY <1>1, <1>5, UncountedOtherSteps DEF KernelStep
  <1>6. CASE UNCHANGED allvars
    <2>1. UNCHANGED <<pc, owner, n, i, staged, outstanding>>
      BY <1>6 DEF allvars, vars, servicevars, rvars
    <2>2. UNCHANGED <<statvars, Len(staged), outstanding, InPass, pc>> /\ Passes'
      BY <1>6, <2>1 DEF allvars, InPass, Passes, StatInv
    <2>3. pc \in {"exited", "done"} => phase = "between"
      BY DEF StatInv, Pending
    <2>4. QED
      BY <1>1, <2>2, <2>3, Uncounted
  <1>7. QED
    BY <1>1, <1>2, <1>3, <1>4, <1>5, <1>6 DEF StatNext

\* The invariants hold of every reachable state of a counted run.
THEOREM StatisticsInvariant == StatSpec => [](IInv /\ StatInv)
  <1>1. StatInit => IInv /\ StatInv
    BY StatInitInvariant
  <1>2. IInv /\ StatInv /\ [StatNext]_allvars => (IInv /\ StatInv)'
    BY StatNextInvariant
  <1>3. QED
    BY <1>1, <1>2, PTL DEF StatSpec

\* BenchStats, Receiver::Stats and Transmitter::Stats never show more frames at
\* a later stage than at an earlier one, whichever two stores a reader comes
\* between, and account for every frame when no store is due.
THEOREM StatisticsAccount == StatSpec => []CountersAccountForFrames
  <1>1. IInv /\ StatInv => CountersAccountForFrames
    BY Accountable DEF StatInv
  <1>2. QED
    BY <1>1, StatisticsInvariant, PTL

\* The summary of a run adds up, the abandoned frames included, however the
\* drain ended.
THEOREM StatisticsSummary == StatSpec => []SummaryAddsUp
  <1>1. IInv /\ StatInv => SummaryAddsUp
    <2> SUFFICES ASSUME IInv, StatInv, control = "done" PROVE SummaryAddsUp
      BY DEF SummaryAddsUp
    <2>1. pc = "done" /\ run.count = count /\ run.abandoned = outstanding /\ phase = "between"
      BY DEF StatInv, Summarised, Pending
    <2>2. n = 0 /\ Len(staged) = 0
      BY <2>1, Parts DEF StatInv, Passes, Counters, NothingLeftStaged
    <2>3. outstanding = Len(tx.q) + Cardinality(kernel_tx) + Len(cq.q)
      BY Parts DEF OutstandingExact
    <2>4. CountersAccountForFrames
      BY Accountable DEF StatInv
    <2>5. /\ count["received"] \in Nat /\ count["submitted"] \in Nat
          /\ count["callbacks"] = count["received"] + n
          /\ count["staged"] = count["submitted"] + Len(staged)
          /\ count["callbacks"] = count["staged"] + count["rejected"] + count["unsupported"]
          /\ count["submitted"] = count["reclaimed"] + outstanding
      BY <2>1, <2>4, Tallies DEF StatInv, StatTypeOK, CountersAccountForFrames, Disposed
    <2>6. count["callbacks"] = count["received"] /\ count["staged"] = count["submitted"]
      BY <2>2, <2>5
    <2>7. QED
      BY <2>1, <2>3, <2>5, <2>6 DEF SummaryAddsUp
  <1>2. QED
    BY <1>1, StatisticsInvariant, PTL

\* The rejection limit is applied to exactly the rejections between two reads
\* of the counter (main.cpp:499), in every interleaving.
THEOREM StatisticsAnomaly == StatSpec => []AnomalyIsPerInterval
  <1>1. StatInv => AnomalyIsPerInterval
    BY Zenon DEF StatInv, Judgement, AnomalyIsPerInterval
  <1>2. QED
    BY <1>1, StatisticsInvariant, PTL

\* The sample window holds the first callbacks that begin after it was opened,
\* wherever in a callback that was, and none is dropped, for any capacity.
THEOREM StatisticsSamples == StatSpec => []SamplesAreFirstCallbacks
  <1>1. StatInv => SamplesAreFirstCallbacks
    BY DEF StatInv, Sampled
  <1>2. QED
    BY <1>1, StatisticsInvariant, PTL
=============================================================================
