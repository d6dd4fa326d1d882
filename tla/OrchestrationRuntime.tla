------------------------ MODULE OrchestrationRuntime ------------------------
(***************************************************************************)
(* The background run manager of the dashboard process                     *)
(* (app/orchestrator/runtime.py) with the lifecycle listener that mirrors  *)
(* it into the Run and ExecutionEvent tables                               *)
(* (app/storage/run_persistence.py).                                       *)
(*                                                                         *)
(* One step is one critical section of the manager's lock, one database    *)
(* commit, or one stretch of the run's target between two checkpoints.     *)
(* An Event object is named by the run it was created for.  The _threads   *)
(* dictionary is filled and emptied with _cancel_events, so one variable   *)
(* stands for both.  reset_for_tests, which only the test suite calls, is  *)
(* left out.                                                               *)
(***************************************************************************)
EXTENDS Naturals, FiniteSets

CONSTANTS
  Task,         \* missions that may be run
  RunId,        \* run ids uuid4 can hand out: bounds the number of starts
  NoTask,       \* "not started for any mission"
  NoRun,        \* "no entry in the dictionary"
  Checkpoints,  \* number of check_cancelled calls on the target's path
  MayCrash,     \* TRUE: the process may be killed and restarted
  DbFaults      \* TRUE: a listener commit may fail (the exception is logged)

ASSUME RuntimeAssumption ==
  /\ NoTask \notin Task
  /\ NoRun \notin RunId
  /\ Checkpoints \in Nat
  /\ MayCrash \in BOOLEAN
  /\ DbFaults \in BOOLEAN

VARIABLES
  jobs,          \* _jobs: per mission the latest run and its state
  cancelEvents,  \* _cancel_events (and _threads): whose Event is registered
  isSet,         \* runs whose Event has been set
  stopping,      \* Events fetched by request_stop and not yet set
  pc,            \* where each run's thread is
  taskOf,        \* the mission a run was started for
  step,          \* checkpoints the run's target has passed
  outcome,       \* how the target ended
  snap,          \* state copied by _emit_terminal for the listener
  row,           \* state column of the Run row, "absent" without a row
  events,        \* ExecutionEvent rows written for the run
  requested      \* history: runs that were current when a stop was asked for

memory  == <<jobs, cancelEvents, isSet, stopping>>
threads == <<pc, taskOf, step, outcome, snap>>
tables  == <<row, events>>
vars    == <<memory, threads, tables, requested>>

Active   == {"running", "stopping"}
Terminal == {"completed", "failed", "cancelled"}
JobState == {"idle"} \cup Active \cup Terminal

\* Threads inside the target, or past it with the job not yet updated.
Live == {"target", "update"}
\* Threads that have updated the job and are still doing their bookkeeping.
Closing == {"emit", "persist", "event", "finally"}
\* Threads that exist no more; the last two were cut short by a crash,
\* "killed" before the job was updated and "severed" after.
Gone == {"ended", "killed", "severed"}
ThreadPc == {"unborn"} \cup Live \cup Closing \cup Gone

IdleJob == [run |-> NoRun, state |-> "idle"]

Init ==
  /\ jobs = [t \in Task |-> IdleJob]
  /\ cancelEvents = [t \in Task |-> NoRun]
  /\ isSet = {}
  /\ stopping = {}
  /\ pc = [r \in RunId |-> "unborn"]
  /\ taskOf = [r \in RunId |-> NoTask]
  /\ step = [r \in RunId |-> 0]
  /\ outcome = [r \in RunId |-> "none"]
  /\ snap = [r \in RunId |-> "none"]
  /\ row = [r \in RunId |-> "absent"]
  /\ events = [r \in RunId |-> {}]
  /\ requested = {}

-----------------------------------------------------------------------------
(* The dashboard's calls.                                                  *)

\* The "started" listener: Run row, then run_started event, one commit each.
\* A failure of either is swallowed and the start goes on.
RecordStarted(r) ==
  \/ /\ row' = [row EXCEPT ![r] = "running"]
     /\ events' = [events EXCEPT ![r] = {"started"}]
  \/ /\ DbFaults
     /\ row' = [row EXCEPT ![r] = "running"]
     /\ UNCHANGED events
  \/ /\ DbFaults
     /\ UNCHANGED <<row, events>>

\* Altered forms end in the name of the bug they carry; no action uses them.
Start_IgnoresStopping(t, r) ==
  /\ jobs[t].state # "running"
  /\ pc[r] = "unborn"
  /\ jobs' = [jobs EXCEPT ![t] = [run |-> r, state |-> "running"]]
  /\ cancelEvents' = [cancelEvents EXCEPT ![t] = r]
  /\ pc' = [pc EXCEPT ![r] = "target"]
  /\ taskOf' = [taskOf EXCEPT ![r] = t]
  /\ RecordStarted(r)
  /\ UNCHANGED <<isSet, stopping, step, outcome, snap, requested>>

\* start: refused while the mission's job is running or stopping.
Start(t, r) ==
  /\ jobs[t].state \notin Active
  /\ pc[r] = "unborn"
  /\ jobs' = [jobs EXCEPT ![t] = [run |-> r, state |-> "running"]]
  /\ cancelEvents' = [cancelEvents EXCEPT ![t] = r]
  /\ pc' = [pc EXCEPT ![r] = "target"]
  /\ taskOf' = [taskOf EXCEPT ![r] = t]
  /\ RecordStarted(r)
  /\ UNCHANGED <<isSet, stopping, step, outcome, snap, requested>>

\* request_stop, the locked half: mark the job and fetch the Event.
RequestStop(t) ==
  /\ jobs[t].state \in Active
  /\ jobs' = [jobs EXCEPT ![t].state = "stopping"]
  /\ stopping' = stopping \cup ({cancelEvents[t]} \ {NoRun})
  /\ requested' = requested \cup {jobs[t].run}
  /\ UNCHANGED <<cancelEvents, isSet, threads, tables>>

SetCancelEvent_LateLookup(r) ==
  /\ r \in stopping
  /\ stopping' = stopping \ {r}
  /\ isSet' = isSet \cup ({cancelEvents[taskOf[r]]} \ {NoRun})
  /\ UNCHANGED <<jobs, cancelEvents, threads, tables, requested>>

\* request_stop after the lock is released: set the Event, if there was one.
SetCancelEvent(r) ==
  /\ r \in stopping
  /\ stopping' = stopping \ {r}
  /\ isSet' = isSet \cup {r}
  /\ UNCHANGED <<jobs, cancelEvents, threads, tables, requested>>

-----------------------------------------------------------------------------
(* A run's thread.                                                         *)

\* check_cancelled finds the Event clear and the target goes on.
Checkpoint(r) ==
  /\ pc[r] = "target"
  /\ step[r] < Checkpoints
  /\ r \notin isSet
  /\ step' = [step EXCEPT ![r] = @ + 1]
  /\ UNCHANGED <<memory, pc, taskOf, outcome, snap, tables, requested>>

LeaveTarget(r, result) ==
  /\ pc' = [pc EXCEPT ![r] = "update"]
  /\ outcome' = [outcome EXCEPT ![r] = result]
  /\ UNCHANGED <<memory, taskOf, step, snap, tables, requested>>

\* check_cancelled finds the Event set and raises OrchestrationCancelled.
CancelAtCheckpoint(r) ==
  /\ pc[r] = "target"
  /\ step[r] < Checkpoints
  /\ r \in isSet
  /\ LeaveTarget(r, "cancelled")

\* The target returns after its last checkpoint.
TargetReturns(r) ==
  /\ pc[r] = "target"
  /\ step[r] = Checkpoints
  /\ LeaveTarget(r, "completed")

\* The target raises anything else, wherever it is.
TargetRaises(r) ==
  /\ pc[r] = "target"
  /\ LeaveTarget(r, "failed")

UpdateJob_KeepsStopping(t, r, state) ==
  jobs' = IF jobs[t] = [run |-> r, state |-> "running"]
            THEN [jobs EXCEPT ![t].state = state] ELSE jobs

\* update: fields reach the job only if it is still this run's.
UpdateJob(t, r, state) ==
  jobs' = IF jobs[t].run = r THEN [jobs EXCEPT ![t].state = state] ELSE jobs

FinishJob_ForgetsCancelled(r) ==
  /\ pc[r] = "update"
  /\ UpdateJob(taskOf[r], r, outcome[r])
  /\ pc' = [pc EXCEPT ![r] = IF outcome[r] = "cancelled" THEN "finally" ELSE "emit"]
  /\ UNCHANGED <<cancelEvents, isSet, stopping, taskOf, step, outcome, snap,
                 tables, requested>>

\* The except/else arm of _run_thread writes the terminal state.
FinishJob(r) ==
  /\ pc[r] = "update"
  /\ UpdateJob(taskOf[r], r, outcome[r])
  /\ pc' = [pc EXCEPT ![r] = "emit"]
  /\ UNCHANGED <<cancelEvents, isSet, stopping, taskOf, step, outcome, snap,
                 tables, requested>>

EmitTerminal_AnyRun(r) ==
  /\ pc[r] = "emit"
  /\ snap' = [snap EXCEPT ![r] = jobs[taskOf[r]].state]
  /\ pc' = [pc EXCEPT ![r] = "persist"]
  /\ UNCHANGED <<memory, taskOf, step, outcome, tables, requested>>

\* _emit_terminal under the lock: copy the job, or return if it was replaced.
EmitTerminal(r) ==
  /\ pc[r] = "emit"
  /\ \/ /\ jobs[taskOf[r]].run = r
        /\ snap' = [snap EXCEPT ![r] = jobs[taskOf[r]].state]
        /\ pc' = [pc EXCEPT ![r] = "persist"]
     \/ /\ jobs[taskOf[r]].run # r
        /\ pc' = [pc EXCEPT ![r] = "finally"]
        /\ UNCHANGED snap
  /\ UNCHANGED <<memory, taskOf, step, outcome, tables, requested>>

PersistRow_EventAnyway(r) ==
  /\ pc[r] = "persist"
  /\ row' \in {row, [row EXCEPT ![r] = snap[r]]}
  /\ pc' = [pc EXCEPT ![r] = "event"]
  /\ UNCHANGED <<memory, taskOf, step, outcome, snap, events, requested>>

PersistRow_LatestRow(r) ==
  /\ pc[r] = "persist"
  /\ row' = [row EXCEPT ![jobs[taskOf[r]].run] = snap[r]]
  /\ pc' = [pc EXCEPT ![r] = "event"]
  /\ UNCHANGED <<memory, taskOf, step, outcome, snap, events, requested>>

\* The "terminal" listener, first commit: update_run_terminal, which returns
\* without effect when the row was never created.
PersistRow(r) ==
  /\ pc[r] = "persist"
  /\ \/ /\ row' = IF row[r] = "absent" THEN row ELSE [row EXCEPT ![r] = snap[r]]
        /\ pc' = [pc EXCEPT ![r] = "event"]
     \/ /\ DbFaults
        /\ pc' = [pc EXCEPT ![r] = "finally"]
        /\ UNCHANGED row
  /\ UNCHANGED <<memory, taskOf, step, outcome, snap, events, requested>>

\* Second commit: the run_completed, run_failed or run_cancelled event.
PersistEvent(r) ==
  /\ pc[r] = "event"
  /\ \/ events' = [events EXCEPT ![r] = @ \cup {snap[r]}]
     \/ DbFaults /\ UNCHANGED events
  /\ pc' = [pc EXCEPT ![r] = "finally"]
  /\ UNCHANGED <<memory, taskOf, step, outcome, snap, row, requested>>

\* The finally clause pops the mission's entries, whoever owns them by now.
Cleanup(r) ==
  /\ pc[r] = "finally"
  /\ cancelEvents' = [cancelEvents EXCEPT ![taskOf[r]] = NoRun]
  /\ pc' = [pc EXCEPT ![r] = "ended"]
  /\ UNCHANGED <<jobs, isSet, stopping, taskOf, step, outcome, snap, tables,
                 requested>>

-----------------------------------------------------------------------------
(* The process dies and is started again: the threads are daemons and the  *)
(* dictionaries are empty; only the tables survive.                        *)

Crash ==
  /\ MayCrash
  /\ jobs' = [t \in Task |-> IdleJob]
  /\ cancelEvents' = [t \in Task |-> NoRun]
  /\ isSet' = {}
  /\ stopping' = {}
  /\ pc' = [r \in RunId |-> CASE pc[r] \in Live    -> "killed"
                              [] pc[r] \in Closing -> "severed"
                              [] OTHER             -> pc[r]]
  /\ UNCHANGED <<taskOf, step, outcome, snap, tables, requested>>

ThreadStep(r) ==
  \/ Checkpoint(r) \/ CancelAtCheckpoint(r)
  \/ TargetReturns(r) \/ TargetRaises(r)
  \/ FinishJob(r) \/ EmitTerminal(r)
  \/ PersistRow(r) \/ PersistEvent(r) \/ Cleanup(r)

Next ==
  \/ \E t \in Task, r \in RunId : Start(t, r)
  \/ \E t \in Task : RequestStop(t)
  \/ \E r \in RunId : SetCancelEvent(r) \/ ThreadStep(r)
  \/ Crash

\* Threads are scheduled, LLM calls and commits return (each client has a
\* timeout), and a stop handler that fetched an Event goes on to set it.
Fairness == \A r \in RunId : WF_vars(SetCancelEvent(r)) /\ WF_vars(ThreadStep(r))

Spec     == Init /\ [][Next]_vars
FairSpec == Spec /\ Fairness

-----------------------------------------------------------------------------
(* Properties.                                                             *)

TypeOK ==
  /\ jobs \in [Task -> [run : RunId \cup {NoRun}, state : JobState]]
  /\ cancelEvents \in [Task -> RunId \cup {NoRun}]
  /\ isSet \subseteq RunId
  /\ stopping \subseteq RunId
  /\ pc \in [RunId -> ThreadPc]
  /\ taskOf \in [RunId -> Task \cup {NoTask}]
  /\ step \in [RunId -> 0 .. Checkpoints]
  /\ outcome \in [RunId -> {"none"} \cup Terminal]
  /\ snap \in [RunId -> {"none"} \cup Terminal]
  /\ row \in [RunId -> {"absent", "running"} \cup Terminal]
  /\ events \in [RunId -> SUBSET ({"started"} \cup Terminal)]
  /\ requested \subseteq RunId

\* Two targets never work on one mission at the same time, whatever the order
\* of starts, stops and the bookkeeping of finished threads: the manager's
\* only defence against two threads writing the mission's rows.
OneTargetPerMission ==
  \A r1, r2 \in RunId :
    pc[r1] \in Live /\ pc[r2] \in Live /\ taskOf[r1] = taskOf[r2] => r1 = r2

\* A mission shown as running or stopping has a thread that will report for
\* it.  Otherwise start would refuse the mission for ever.
ActiveJobHasThread ==
  \A t \in Task : jobs[t].state \in Active =>
    \E r \in RunId : jobs[t].run = r /\ pc[r] \in Live /\ taskOf[r] = t

\* A run ends as cancelled only if a stop was asked for while it was the
\* mission's current run: a stop aimed at one run, delivered late because
\* request_stop sets the Event outside the lock, never stops its successor.
OnlyRequestedRunsCancelled ==
  \A r \in RunId : outcome[r] = "cancelled" => r \in requested

\* What the Run row says of a finished run is what happened to that run.  The
\* listener writes from a copy it took earlier, when another run may already
\* have replaced the job.
RowTellsOwnOutcome ==
  \A r \in RunId : row[r] \notin {"absent", "running"} => row[r] = outcome[r]

\* A run_completed, run_failed or run_cancelled event is never in the journal
\* ahead of its Run row, even when one of the two commits fails.
EventFollowsRow ==
  \A r \in RunId : \A e \in events[r] \ {"started"} :
    row[r] \in {"absent", e}

\* While a run is the mission's latest and its bookkeeping has been done, its
\* row is closed: without database failures the page that lists runs never
\* shows the latest finished run as active.
LatestFinishedRowClosed ==
  ~DbFaults => \A t \in Task : \A r \in RunId :
    jobs[t].run = r /\ pc[r] \in {"event", "finally", "ended"} => row[r] = outcome[r]

\* A Run row that was closed is never reopened or rewritten, nor dropped.
ClosedRowIsFinal ==
  [][\A r \in RunId : row[r] \in Terminal => row'[r] = row[r]]_row

\* The promise of RunSlots, kept by the lock and by start's refusal: an
\* active job is a held slot, a run's verdict is the outcome its thread wrote.
SlotHolder ==
  [t \in Task |-> IF jobs[t].state \in Active THEN jobs[t].run ELSE NoRun]
RunVerdict ==
  [r \in RunId |-> CASE pc[r] = "unborn" -> "none"
                     [] pc[r] \in Live   -> "live"
                     [] pc[r] = "killed" -> "lost"
                     [] OTHER            -> outcome[r]]
Slots == INSTANCE RunSlots WITH holder <- SlotHolder, verdict <- RunVerdict
ImplementsRunSlots == Slots!Spec

\* A mission for which a stop was asked leaves the stopping state: the owner
\* is never left with a mission that can be neither started nor stopped.
StopSettles ==
  \A t \in Task : jobs[t].state = "stopping" ~> jobs[t].state # "stopping"

\* Once the Event of a run is set the run's row does not stay open for ever
\* while the run is still the mission's latest.
SignalledRunIsRecorded ==
  \A r \in RunId : r \in isSet ~>
    (row[r] \in Terminal \/ \A t \in Task : jobs[t].run # r)

\* Documented: "Stop AI-Team cancels the work at a safe checkpoint"
\* (docs/V1-READINESS.md line 82): a mission shown as stopping has an Event
\* that is set, or about to be.
StoppingRunIsSignalled ==
  \A t \in Task : jobs[t].state = "stopping" => jobs[t].run \in isSet \cup stopping

-----------------------------------------------------------------------------
(* The inductive invariant behind the safety properties of Spec.           *)

\* Live threads and active jobs point at each other.
LiveMatchesActive ==
  /\ \A r \in RunId : pc[r] \in Live =>
       /\ taskOf[r] \in Task
       /\ jobs[taskOf[r]].run = r
       /\ jobs[taskOf[r]].state \in Active
  /\ \A t \in Task : jobs[t].state \in Active =>
       /\ jobs[t].run \in RunId
       /\ pc[jobs[t].run] \in Live
       /\ taskOf[jobs[t].run] = t

\* A job names a run that was started for its mission; the registered Event,
\* if any, is that of the job's run.
JobNamesItsRun ==
  \A t \in Task :
    /\ cancelEvents[t] \in {jobs[t].run, NoRun}
    /\ jobs[t].run \in RunId => taskOf[jobs[t].run] = t /\ pc[jobs[t].run] # "unborn"

\* From the end of the target on, outcome, job and copy agree.
OutcomeCarried ==
  \A r \in RunId :
    /\ pc[r] \in {"unborn", "target"} => outcome[r] = "none"
    /\ pc[r] \in {"update"} \cup Closing => taskOf[r] \in Task /\ outcome[r] \in Terminal
    /\ pc[r] = "emit" /\ jobs[taskOf[r]].run = r => jobs[taskOf[r]].state = outcome[r]
    /\ pc[r] \in {"persist", "event"} => snap[r] = outcome[r]

\* What the tables hold at each stage of the bookkeeping.
TablesFollowThread ==
  \A r \in RunId :
    /\ row[r] \in {"absent", "running", outcome[r]}
    /\ pc[r] \in {"unborn", "emit", "persist"} \cup Live => row[r] \in {"absent", "running"}
    /\ pc[r] \in {"unborn", "emit", "persist", "event"} \cup Live => events[r] \subseteq {"started"}
    /\ pc[r] = "event" => row[r] \in {"absent", outcome[r]}
    /\ events[r] \subseteq {"started", outcome[r]}
    /\ outcome[r] \in events[r] => row[r] \in {"absent", outcome[r]}

\* Every Event on its way was fetched for the run that was current then.
StopsWereRequested ==
  /\ isSet \cup stopping \subseteq requested
  /\ \A r \in RunId : outcome[r] = "cancelled" => r \in requested

IInv ==
  /\ TypeOK
  /\ LiveMatchesActive
  /\ JobNamesItsRun
  /\ OutcomeCarried
  /\ TablesFollowThread
  /\ StopsWereRequested
=============================================================================
