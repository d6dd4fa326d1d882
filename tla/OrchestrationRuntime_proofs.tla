--------------------- MODULE OrchestrationRuntime_proofs ---------------------
(***************************************************************************)
(* Proofs about OrchestrationRuntime for any missions, any run ids, any    *)
(* number of checkpoints, with or without crashes and failing commits.     *)
(*                                                                         *)
(* The argument is IInv: live threads and active jobs point at each other, *)
(* the outcome is carried unchanged from the target through the copy to    *)
(* the tables, and every Event on its way was fetched for the run that was *)
(* current then.  Each action is shown to preserve IInv, and the           *)
(* properties are read off it.                                             *)
(***************************************************************************)
EXTENDS OrchestrationRuntime, TLAPS

\* Shorthand for the definitions every step opens.
USE DEF Active, Terminal, JobState, Live, Closing, Gone, ThreadPc, IdleJob,
        memory, threads, tables

LEMMA InitIInv == Init => IInv
BY RuntimeAssumption DEF Init, IInv, TypeOK, LiveMatchesActive, JobNamesItsRun,
   OutcomeCarried, TablesFollowThread, StopsWereRequested

\* start: the new run was unborn, so no other job, thread or row names it.
LEMMA StartStep ==
  ASSUME NEW t \in Task, NEW r \in RunId, IInv, Start(t, r)
  PROVE  IInv'
<1> USE RuntimeAssumption DEF IInv, Start
<1>a. row' \in [RunId -> {"absent", "running"} \cup Terminal]
  BY DEF TypeOK, RecordStarted
<1>b. events' \in [RunId -> SUBSET ({"started"} \cup Terminal)]
  <2>1. {"started"} \in SUBSET ({"started"} \cup Terminal)
    OBVIOUS
  <2>2. events' = events \/ events' = [events EXCEPT ![r] = {"started"}]
    BY DEF RecordStarted
  <2> QED
    BY <2>1, <2>2 DEF TypeOK
<1>1. TypeOK'
  BY <1>a, <1>b DEF TypeOK
<1> USE DEF RecordStarted
<1>2. LiveMatchesActive'
  BY DEF TypeOK, LiveMatchesActive, JobNamesItsRun
<1>3. JobNamesItsRun'
  BY DEF TypeOK, JobNamesItsRun
<1>4. OutcomeCarried'
  BY DEF TypeOK, OutcomeCarried
<1>5. TablesFollowThread'
  BY DEF TypeOK, TablesFollowThread, OutcomeCarried
<1>6. StopsWereRequested'
  BY DEF TypeOK, StopsWereRequested
<1> QED
  BY <1>1, <1>2, <1>3, <1>4, <1>5, <1>6

\* request_stop: the Event it fetches is that of the job's run.
LEMMA RequestStopStep ==
  ASSUME NEW t \in Task, IInv, RequestStop(t)
  PROVE  IInv'
<1> USE RuntimeAssumption DEF IInv, RequestStop
<1>1. TypeOK'
  BY DEF TypeOK, LiveMatchesActive
<1>2. LiveMatchesActive'
  BY DEF TypeOK, LiveMatchesActive
<1>3. JobNamesItsRun'
  BY DEF TypeOK, JobNamesItsRun
<1>4. OutcomeCarried'
  BY DEF TypeOK, OutcomeCarried, LiveMatchesActive
<1>5. TablesFollowThread'
  BY DEF TypeOK, TablesFollowThread
<1>6. StopsWereRequested'
  BY DEF TypeOK, StopsWereRequested, JobNamesItsRun
<1> QED
  BY <1>1, <1>2, <1>3, <1>4, <1>5, <1>6

\* Setting a fetched Event moves it from one half of StopsWereRequested to the
\* other.
LEMMA SetCancelEventStep ==
  ASSUME NEW r \in RunId, IInv, SetCancelEvent(r)
  PROVE  IInv'
BY DEF IInv, SetCancelEvent, TypeOK, LiveMatchesActive, JobNamesItsRun,
   OutcomeCarried, TablesFollowThread, StopsWereRequested

LEMMA CheckpointStep ==
  ASSUME NEW r \in RunId, IInv, Checkpoint(r)
  PROVE  IInv'
<1>1. TypeOK'
  BY RuntimeAssumption DEF IInv, TypeOK, Checkpoint
<1> QED
  BY <1>1 DEF IInv, Checkpoint, LiveMatchesActive, JobNamesItsRun,
     OutcomeCarried, TablesFollowThread, StopsWereRequested

\* Leaving the target, for a result the run may have; a cancelled run is one
\* whose Event is set.
LEMMA LeaveTargetStep ==
  ASSUME NEW r \in RunId, NEW result \in Terminal, IInv,
         pc[r] = "target", result = "cancelled" => r \in isSet,
         LeaveTarget(r, result)
  PROVE  IInv'
<1> USE DEF IInv, LeaveTarget, TypeOK
<1>1. TypeOK'
  OBVIOUS
<1>2. LiveMatchesActive'
  BY DEF LiveMatchesActive
<1>3. JobNamesItsRun'
  BY DEF JobNamesItsRun
<1>4. OutcomeCarried'
  BY DEF OutcomeCarried, LiveMatchesActive
<1>5. TablesFollowThread'
  BY DEF TablesFollowThread, OutcomeCarried
<1>6. StopsWereRequested'
  BY DEF StopsWereRequested
<1> QED
  BY <1>1, <1>2, <1>3, <1>4, <1>5, <1>6

\* FinishJob: the thread is live, so the job is its own and is closed with the
\* thread's outcome.
LEMMA FinishJobStep ==
  ASSUME NEW r \in RunId, IInv, FinishJob(r)
  PROVE  IInv'
<1> DEFINE t == taskOf[r]
<1> USE RuntimeAssumption DEF IInv, FinishJob, UpdateJob
<1>0. /\ t \in Task
      /\ jobs[t].run = r
      /\ outcome[r] \in Terminal
      /\ jobs' = [jobs EXCEPT ![t].state = outcome[r]]
  BY DEF LiveMatchesActive, OutcomeCarried
<1> HIDE DEF UpdateJob
<1>1. TypeOK'
  BY <1>0 DEF TypeOK
<1>2. LiveMatchesActive'
  BY <1>0 DEF TypeOK, LiveMatchesActive
<1>3. JobNamesItsRun'
  BY <1>0 DEF TypeOK, JobNamesItsRun
<1>4. OutcomeCarried'
  BY <1>0 DEF TypeOK, OutcomeCarried
<1>5. TablesFollowThread'
  BY DEF TypeOK, TablesFollowThread
<1>6. StopsWereRequested'
  BY DEF TypeOK, StopsWereRequested
<1> QED
  BY <1>1, <1>2, <1>3, <1>4, <1>5, <1>6

\* _emit_terminal: the copy it takes is of the thread's own job, already
\* closed with the thread's outcome.
LEMMA EmitTerminalStep ==
  ASSUME NEW r \in RunId, IInv, EmitTerminal(r)
  PROVE  IInv'
<1> USE RuntimeAssumption DEF IInv, EmitTerminal
<1>1. TypeOK'
  <2>1. taskOf[r] \in Task /\ outcome[r] \in Terminal
    BY DEF OutcomeCarried
  <2>2. snap' \in [RunId -> {"none"} \cup Terminal]
    BY <2>1 DEF TypeOK, OutcomeCarried
  <2>3. pc' \in [RunId -> ThreadPc]
    BY DEF TypeOK
  <2> QED
    BY <2>2, <2>3 DEF TypeOK
<1>2. LiveMatchesActive'
  BY DEF TypeOK, LiveMatchesActive
<1>3. JobNamesItsRun'
  BY DEF TypeOK, JobNamesItsRun
<1>4. OutcomeCarried'
  BY DEF TypeOK, OutcomeCarried
<1>5. TablesFollowThread'
  BY DEF TypeOK, TablesFollowThread
<1>6. StopsWereRequested'
  BY DEF StopsWereRequested
<1> QED
  BY <1>1, <1>2, <1>3, <1>4, <1>5, <1>6

\* The two commits of the terminal listener write the copied outcome.
LEMMA PersistRowStep ==
  ASSUME NEW r \in RunId, IInv, PersistRow(r)
  PROVE  IInv'
<1> USE RuntimeAssumption DEF IInv, PersistRow
<1>1. TypeOK'
  BY DEF TypeOK, OutcomeCarried
<1>2. LiveMatchesActive'
  BY DEF TypeOK, LiveMatchesActive
<1>3. JobNamesItsRun'
  BY DEF TypeOK, JobNamesItsRun
<1>4. OutcomeCarried'
  BY DEF TypeOK, OutcomeCarried
<1>5. TablesFollowThread'
  BY DEF TypeOK, TablesFollowThread, OutcomeCarried
<1>6. StopsWereRequested'
  BY DEF StopsWereRequested
<1> QED
  BY <1>1, <1>2, <1>3, <1>4, <1>5, <1>6

LEMMA PersistEventStep ==
  ASSUME NEW r \in RunId, IInv, PersistEvent(r)
  PROVE  IInv'
<1> USE RuntimeAssumption DEF IInv, PersistEvent
<1>1. TypeOK'
  <2>1. snap[r] \in Terminal
    BY DEF OutcomeCarried
  <2>2. events' \in [RunId -> SUBSET ({"started"} \cup Terminal)]
    BY <2>1 DEF TypeOK
  <2>3. pc' \in [RunId -> ThreadPc]
    BY DEF TypeOK
  <2> QED
    BY <2>2, <2>3 DEF TypeOK
<1>2. LiveMatchesActive'
  BY DEF TypeOK, LiveMatchesActive
<1>3. JobNamesItsRun'
  BY DEF TypeOK, JobNamesItsRun
<1>4. OutcomeCarried'
  BY DEF TypeOK, OutcomeCarried
<1>5. TablesFollowThread'
  BY DEF TypeOK, TablesFollowThread, OutcomeCarried
<1>6. StopsWereRequested'
  BY DEF StopsWereRequested
<1> QED
  BY <1>1, <1>2, <1>3, <1>4, <1>5, <1>6

\* The finally clause can only remove an entry.
LEMMA CleanupStep ==
  ASSUME NEW r \in RunId, IInv, Cleanup(r)
  PROVE  IInv'
BY RuntimeAssumption DEF IInv, TypeOK, Cleanup, LiveMatchesActive, JobNamesItsRun,
   OutcomeCarried, TablesFollowThread, StopsWereRequested

\* A restart empties the memory and leaves no live thread.
LEMMA CrashStep == IInv /\ Crash => IInv'
BY RuntimeAssumption DEF IInv, Crash, TypeOK, LiveMatchesActive, JobNamesItsRun,
   OutcomeCarried, TablesFollowThread, StopsWereRequested

LEMMA NextIInv == IInv /\ [Next]_vars => IInv'
<1> SUFFICES ASSUME IInv, [Next]_vars PROVE IInv'
  OBVIOUS
<1>1. CASE \E t \in Task, r \in RunId : Start(t, r)
  BY <1>1, StartStep
<1>2. CASE \E t \in Task : RequestStop(t)
  BY <1>2, RequestStopStep
<1>3. CASE \E r \in RunId : SetCancelEvent(r)
  BY <1>3, SetCancelEventStep
<1>4. CASE \E r \in RunId : ThreadStep(r)
  <2> PICK r \in RunId : ThreadStep(r)
    BY <1>4
  <2>1. CASE Checkpoint(r)
    BY <2>1, CheckpointStep
  <2>2. CASE CancelAtCheckpoint(r)
    BY <2>2, LeaveTargetStep DEF CancelAtCheckpoint
  <2>3. CASE TargetReturns(r)
    BY <2>3, LeaveTargetStep DEF TargetReturns
  <2>4. CASE TargetRaises(r)
    BY <2>4, LeaveTargetStep DEF TargetRaises
  <2>5. CASE FinishJob(r)
    BY <2>5, FinishJobStep
  <2>6. CASE EmitTerminal(r)
    BY <2>6, EmitTerminalStep
  <2>7. CASE PersistRow(r)
    BY <2>7, PersistRowStep
  <2>8. CASE PersistEvent(r)
    BY <2>8, PersistEventStep
  <2>9. CASE Cleanup(r)
    BY <2>9, CleanupStep
  <2> QED
    BY <2>1, <2>2, <2>3, <2>4, <2>5, <2>6, <2>7, <2>8, <2>9 DEF ThreadStep
<1>5. CASE Crash
  BY <1>5, CrashStep
<1>6. CASE UNCHANGED vars
  BY <1>6 DEF vars, IInv, TypeOK, LiveMatchesActive, JobNamesItsRun,
     OutcomeCarried, TablesFollowThread, StopsWereRequested
<1> QED
  BY <1>1, <1>2, <1>3, <1>4, <1>5, <1>6 DEF Next

\* IInv holds throughout: the fact every theorem below rests on.
THEOREM Invariance == Spec => []IInv
BY InitIInv, NextIInv, PTL DEF Spec

\* Every variable keeps its type: jobs hold known states, the tables hold
\* outcomes a run can have.
THEOREM TypeCorrectness == Spec => []TypeOK
<1>1. IInv => TypeOK
  BY DEF IInv
<1> QED
  BY <1>1, Invariance, PTL

\* start's refusal is enough: no mission ever has two threads in their
\* targets, because each of them would be the one run of the mission's job.
THEOREM MutualExclusion == Spec => []OneTargetPerMission
<1>1. IInv => OneTargetPerMission
  BY DEF IInv, LiveMatchesActive, OneTargetPerMission
<1> QED
  BY <1>1, Invariance, PTL

\* An active job always has its own thread, so the refusal is not for ever.
THEOREM ActiveJobsHaveThreads == Spec => []ActiveJobHasThread
<1>1. IInv => ActiveJobHasThread
  BY DEF IInv, LiveMatchesActive, ActiveJobHasThread
<1> QED
  BY <1>1, Invariance, PTL

\* Cancelling is never misdelivered to a run nobody asked to stop.
THEOREM CancellationIsOwn == Spec => []OnlyRequestedRunsCancelled
<1>1. IInv => OnlyRequestedRunsCancelled
  BY DEF IInv, StopsWereRequested, OnlyRequestedRunsCancelled
<1> QED
  BY <1>1, Invariance, PTL

\* Closed rows and terminal events tell the outcome of their own run.
THEOREM TablesTellTheTruth == Spec => [](RowTellsOwnOutcome /\ EventFollowsRow)
<1>1. IInv => RowTellsOwnOutcome
  BY DEF IInv, TablesFollowThread, RowTellsOwnOutcome
<1>2. IInv => EventFollowsRow
  BY DEF IInv, TypeOK, TablesFollowThread, EventFollowsRow
<1> QED
  BY <1>1, <1>2, Invariance, PTL

\* A terminal event never stands in the journal ahead of its row: the second
\* commit is tried only after the first.
THEOREM EventsFollowRows == Spec => []EventFollowsRow
BY TablesTellTheTruth, PTL

-----------------------------------------------------------------------------
(* Without failing commits the row of the latest run that has ended is     *)
(* closed.  A thread skips the commit only if its job was replaced, and a  *)
(* job that was replaced never names that run again.                       *)

\* Where a thread that did not fail to commit leaves its row.
RowsClosed ==
  ~DbFaults => \A r \in RunId :
    /\ pc[r] # "unborn" => row[r] # "absent"
    /\ pc[r] = "event" => row[r] = outcome[r]
    /\ \A t \in Task : pc[r] \in {"finally", "ended"} /\ jobs[t].run = r => row[r] = outcome[r]

\* Starts replace jobs by those of threads that have only begun; every other
\* step leaves the run of a job alone.
LEMMA StepRowsClosed ==
  ASSUME IInv, RowsClosed, [Next]_vars
  PROVE  RowsClosed'
<1> SUFFICES ASSUME ~DbFaults, NEW r \in RunId
             PROVE  /\ pc'[r] # "unborn" => row'[r] # "absent"
                    /\ pc'[r] = "event" => row'[r] = outcome'[r]
                    /\ \A t \in Task : pc'[r] \in {"finally", "ended"} /\ jobs'[t].run = r
                                         => row'[r] = outcome'[r]
  BY DEF RowsClosed
<1> USE RuntimeAssumption DEF RowsClosed, IInv, TypeOK
<1>0. CASE UNCHANGED vars
  BY <1>0 DEF vars
<1>1. ASSUME NEW u \in Task, NEW q \in RunId, Start(u, q)
      PROVE  /\ pc'[r] # "unborn" => row'[r] # "absent"
             /\ pc'[r] = "event" => row'[r] = outcome'[r]
             /\ \A t \in Task : pc'[r] \in {"finally", "ended"} /\ jobs'[t].run = r
                                  => row'[r] = outcome'[r]
  <2>1. row' = [row EXCEPT ![q] = "running"]
    BY <1>1 DEF Start, RecordStarted
  <2>2. CASE r = q
    BY <1>1, <2>1, <2>2 DEF Start
  <2>3. CASE r # q
    <3>1. pc'[r] = pc[r] /\ row'[r] = row[r] /\ outcome'[r] = outcome[r] /\ taskOf'[r] = taskOf[r]
      BY <1>1, <2>1, <2>3 DEF Start
    <3>2. \A t \in Task : jobs'[t].run = r => jobs[t].run = r
      BY <1>1, <2>3 DEF Start
    <3> QED
      BY <3>1, <3>2
  <2> QED
    BY <2>2, <2>3
<1>2. CASE \E t \in Task : RequestStop(t)
  <2>1. \A t \in Task : jobs'[t].run = jobs[t].run
    BY <1>2 DEF RequestStop
  <2> QED
    BY <1>2, <2>1 DEF RequestStop
<1>3. CASE \E q \in RunId : SetCancelEvent(q)
  BY <1>3 DEF SetCancelEvent
<1>4. ASSUME NEW q \in RunId, ThreadStep(q)
      PROVE  /\ pc'[r] # "unborn" => row'[r] # "absent"
             /\ pc'[r] = "event" => row'[r] = outcome'[r]
             /\ \A t \in Task : pc'[r] \in {"finally", "ended"} /\ jobs'[t].run = r
                                  => row'[r] = outcome'[r]
  <2>1. CASE Checkpoint(q)
    BY <2>1 DEF Checkpoint
  <2>2. CASE CancelAtCheckpoint(q) \/ TargetReturns(q) \/ TargetRaises(q)
    BY <2>2 DEF CancelAtCheckpoint, TargetReturns, TargetRaises, LeaveTarget
  <2>3. CASE FinishJob(q)
    <3>1. \A t \in Task : jobs'[t].run = jobs[t].run
      BY <2>3 DEF FinishJob, UpdateJob
    <3> QED
      BY <2>3, <3>1 DEF FinishJob
  <2>4. CASE EmitTerminal(q)
    BY <2>4 DEF EmitTerminal, JobNamesItsRun
  <2>5. CASE PersistRow(q)
    BY <2>5 DEF PersistRow, OutcomeCarried
  <2>6. CASE PersistEvent(q)
    BY <2>6 DEF PersistEvent
  <2>7. CASE Cleanup(q)
    BY <2>7 DEF Cleanup
  <2> QED
    BY <1>4, <2>1, <2>2, <2>3, <2>4, <2>5, <2>6, <2>7 DEF ThreadStep
<1>5. CASE Crash
  BY <1>5 DEF Crash
<1>6. CASE Next
  BY <1>1, <1>2, <1>3, <1>4, <1>5, <1>6 DEF Next
<1> QED
  BY <1>0, <1>6

\* The page that lists runs never shows the latest finished run as active,
\* unless a commit failed.
THEOREM LatestRowsClosed == Spec => []LatestFinishedRowClosed
<1>1. Init => RowsClosed
  BY DEF Init, RowsClosed
<1>2. IInv /\ RowsClosed /\ [Next]_vars => RowsClosed'
  BY StepRowsClosed
<1>3. IInv /\ RowsClosed => LatestFinishedRowClosed
  BY DEF IInv, JobNamesItsRun, RowsClosed, LatestFinishedRowClosed
<1> QED
  BY <1>1, <1>2, <1>3, Invariance, PTL DEF Spec

\* Only a thread about to close a row writes a terminal state, and it does so
\* once: a closed row stays as it is.
THEOREM ClosedRowsAreFinal == Spec => ClosedRowIsFinal
<1>1. IInv /\ [Next]_vars => [\A r \in RunId : row[r] \in Terminal => row'[r] = row[r]]_row
  <2> SUFFICES ASSUME IInv, Next, NEW r \in RunId, row[r] \in Terminal
               PROVE  row'[r] = row[r]
    BY DEF vars
  <2>0. pc[r] \notin {"unborn", "persist"}
    BY DEF IInv, TablesFollowThread
  <2>1. CASE \E t \in Task, q \in RunId : Start(t, q)
    BY <2>0, <2>1 DEF Start, RecordStarted, IInv, TypeOK
  <2>2. CASE \E t \in Task : RequestStop(t)
    BY <2>2 DEF RequestStop
  <2>3. CASE \E q \in RunId : SetCancelEvent(q)
    BY <2>3 DEF SetCancelEvent
  <2>4. CASE \E q \in RunId : PersistRow(q)
    BY <2>0, <2>4 DEF PersistRow, IInv, TypeOK
  <2>5. CASE \E q \in RunId : ThreadStep(q) /\ ~PersistRow(q)
    BY <2>5 DEF ThreadStep, Checkpoint, CancelAtCheckpoint, TargetReturns,
       TargetRaises, LeaveTarget, FinishJob, EmitTerminal, PersistEvent, Cleanup
  <2>6. CASE Crash
    BY <2>6 DEF Crash
  <2> QED
    BY <2>1, <2>2, <2>3, <2>4, <2>5, <2>6 DEF Next
<1> QED
  BY <1>1, Invariance, PTL DEF Spec, ClosedRowIsFinal

\* Steps of a thread that neither leave the target nor close the job stutter.
LEMMA SlotsStutter ==
  ASSUME IInv, NEW r \in RunId,
         \/ Checkpoint(r) \/ CancelAtCheckpoint(r) \/ TargetReturns(r)
         \/ TargetRaises(r) \/ EmitTerminal(r) \/ PersistRow(r)
         \/ PersistEvent(r) \/ Cleanup(r)
  PROVE  UNCHANGED Slots!slots
<1>1. UNCHANGED jobs
  BY DEF Checkpoint, CancelAtCheckpoint, TargetReturns, TargetRaises,
     LeaveTarget, EmitTerminal, PersistRow, PersistEvent, Cleanup
<1>2. ASSUME NEW q \in RunId PROVE RunVerdict'[q] = RunVerdict[q]
  BY DEF Checkpoint, CancelAtCheckpoint, TargetReturns, TargetRaises,
     LeaveTarget, EmitTerminal, PersistRow, PersistEvent, Cleanup, RunVerdict,
     IInv, TypeOK
<1>3. UNCHANGED RunVerdict
  BY <1>2 DEF RunVerdict
<1> QED
  BY <1>1, <1>3 DEF Slots!slots, SlotHolder

LEMMA SlotsAdmit ==
  ASSUME IInv, NEW t \in Task, NEW r \in RunId, Start(t, r)
  PROVE  Slots!Admit(t, r)
<1> USE RuntimeAssumption DEF Start, IInv, TypeOK
<1>1. SlotHolder[t] = NoRun /\ RunVerdict[r] = "none"
  BY DEF SlotHolder, RunVerdict
<1>2. SlotHolder' = [SlotHolder EXCEPT ![t] = r]
  BY DEF SlotHolder
<1>3. RunVerdict' = [RunVerdict EXCEPT ![r] = "live"]
  BY DEF RunVerdict
<1> QED
  BY <1>1, <1>2, <1>3 DEF Slots!Admit

LEMMA SlotsDecide ==
  ASSUME IInv, NEW r \in RunId, FinishJob(r)
  PROVE  \E t \in Task, v \in Slots!Decided : Slots!Decide(t, v)
<1> DEFINE t == taskOf[r]
<1> USE RuntimeAssumption DEF FinishJob, IInv, TypeOK
<1>1. /\ t \in Task /\ outcome[r] \in Terminal
      /\ jobs[t].run = r /\ jobs[t].state \in Active
      /\ jobs' = [jobs EXCEPT ![t].state = outcome[r]]
  BY DEF LiveMatchesActive, OutcomeCarried, UpdateJob
<1>2. SlotHolder[t] = r /\ r # NoRun
  BY <1>1 DEF SlotHolder
<1>3. SlotHolder' = [SlotHolder EXCEPT ![t] = NoRun]
  BY <1>1 DEF SlotHolder
<1>4. RunVerdict' = [RunVerdict EXCEPT ![r] = outcome[r]]
  BY <1>1 DEF RunVerdict
<1>5. Slots!Decide(t, outcome[r])
  BY <1>2, <1>3, <1>4 DEF Slots!Decide
<1> QED
  BY <1>1, <1>5 DEF Slots!Decided

LEMMA SlotsRestart == IInv /\ Crash => Slots!Restart
<1> SUFFICES ASSUME IInv, Crash PROVE Slots!Restart
  OBVIOUS
<1>1. SlotHolder' = [t \in Task |-> NoRun]
  BY DEF Crash, SlotHolder
<1>2. RunVerdict' = [r \in RunId |-> IF RunVerdict[r] = "live" THEN "lost" ELSE RunVerdict[r]]
  BY DEF Crash, RunVerdict, IInv, TypeOK, OutcomeCarried
<1> QED
  BY <1>1, <1>2 DEF Slots!Restart

\* The run manager implements RunSlots: starts admit, the job's update decides,
\* a crash is a restart, and everything else is invisible.
THEOREM Refinement == Spec => ImplementsRunSlots
<1>1. Init => Slots!Init
  BY DEF Init, Slots!Init, SlotHolder, RunVerdict
<1>2. IInv /\ [Next]_vars => [Slots!Next]_(Slots!slots)
  <2> SUFFICES ASSUME IInv, [Next]_vars PROVE Slots!Next \/ UNCHANGED Slots!slots
    OBVIOUS
  <2>1. CASE \E t \in Task, r \in RunId : Start(t, r)
    BY <2>1, SlotsAdmit DEF Slots!Next
  <2>2. CASE \E t \in Task : RequestStop(t)
    <3>1. UNCHANGED SlotHolder
      BY <2>2 DEF RequestStop, SlotHolder, IInv, TypeOK
    <3>2. UNCHANGED RunVerdict
      BY <2>2 DEF RequestStop, RunVerdict
    <3> QED
      BY <3>1, <3>2 DEF Slots!slots
  <2>3. CASE \E r \in RunId : SetCancelEvent(r)
    BY <2>3 DEF SetCancelEvent, Slots!slots, SlotHolder, RunVerdict
  <2>4. CASE \E r \in RunId : FinishJob(r)
    BY <2>4, SlotsDecide DEF Slots!Next
  <2>5. CASE \E r \in RunId : ThreadStep(r) /\ ~FinishJob(r)
    BY <2>5, SlotsStutter DEF ThreadStep
  <2>6. CASE Crash
    BY <2>6, SlotsRestart DEF Slots!Next
  <2>7. CASE UNCHANGED vars
    BY <2>7 DEF vars, Slots!slots, SlotHolder, RunVerdict
  <2> QED
    BY <2>1, <2>2, <2>3, <2>4, <2>5, <2>6, <2>7 DEF Next
<1> QED
  BY <1>1, <1>2, Invariance, PTL DEF Spec, ImplementsRunSlots, Slots!Spec
=============================================================================
