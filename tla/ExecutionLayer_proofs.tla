------------------------ MODULE ExecutionLayer_proofs ------------------------
(***************************************************************************)
(* Proofs about ExecutionLayer for any missions, patch files and numbers   *)
(* of executions.                                                          *)
(*                                                                         *)
(* Whatever the number of missions: a target is always on a branch number  *)
(* its mission was given (Numbered), a mission's address and a target that *)
(* is past the pull request vouch for a pull request (PrVouched), and      *)
(* while nothing breaks, EXECUTING and the target come and go together.    *)
(* With one mission in the workspace nobody else moves the head or the     *)
(* tree: what the tests saw is what is committed, pushed and proposed      *)
(* (TestedInv), and while its file stays as it was approved, the tree      *)
(* holds the approved patch and nothing else (SignedInv); what was once    *)
(* committed stays below every later branch, so a retry is refused by git  *)
(* before it can open a second pull request (OnceInv).                     *)
(***************************************************************************)
EXTENDS ExecutionLayer, TLAPS

\* A target works under a number its mission was given, and has a job.
Numbered ==
  \A t \in Task : pc[t] # "off" => attempt[t] \in 1 .. Attempts /\ job[t] # "none"

ExecInv == TypeOK /\ Numbered

\* The places a checkpoint leads to.
LEMMA CheckpointTargets ==
  ASSUME NEW c \in DOMAIN CheckpointAt
  PROVE  /\ CheckpointAt[c].next \in Pc \ {"off", "push", "pr", "end"}
         /\ CheckpointAt[c].stop \in {"cancelled", "post_fail"}
         /\ CheckpointAt[c].next = "commit" => c = "tests_done"
         /\ CheckpointAt[c].next = "tests" => FALSE
         /\ c \in Pc \ {"off", "end"}
BY DEF CheckpointAt, Pc, PrLoop

-----------------------------------------------------------------------------
(* Type correctness.                                                       *)

LEMMA InitExec == Init => ExecInv
<1> SUFFICES ASSUME Init PROVE ExecInv
  OBVIOUS
<1>1. file \in [Task -> Content]
  BY ExecutionAssumption DEF Init
<1>2. Numbered
  BY DEF Init, Numbered
<1>3. attempt \in [Task -> 0 .. Attempts]
  BY ExecutionAssumption DEF Init
<1>4. /\ refs \in [Branch \cup {Main} -> Tree] /\ dirty \in Tree /\ tested \in [Task -> Tree]
      /\ DOMAIN remote = {}
  BY DEF Init, Tree
<1> QED
  BY <1>1, <1>2, <1>3, <1>4 DEF Init, TypeOK, ExecInv, Status, Pc

\* What the owner does.
LEMMA OwnerTypes ==
  ASSUME ExecInv, NEW t \in Task, OwnerStep(t)
  PROVE  ExecInv'
<1> USE ExecutionAssumption DEF ExecInv, TypeOK, Numbered, db, workspace
<1>1. CASE Approve(t)
  BY <1>1 DEF Approve, Status
<1>2. CASE Rework(t)
  BY <1>2 DEF Rework, Status
<1>3. CASE ReworkRunEnds(t)
  BY <1>3 DEF ReworkRunEnds, Status
<1>4. CASE ConfirmMerge(t)
  BY <1>4 DEF ConfirmMerge, Status
<1>5. CASE ReplacePatch(t)
  <2>1. file' \in [Task -> Content]
    BY <1>5 DEF ReplacePatch
  <2> QED
    BY <1>5, <2>1 DEF ReplacePatch
<1>6. CASE StartExecution(t)
  <2>1. attempt' \in [Task -> 0 .. Attempts] /\ attempt'[t] \in 1 .. Attempts
    BY <1>6 DEF StartExecution
  <2>2. status' \in [Task -> Status] /\ pc' \in [Task -> Pc]
    BY <1>6 DEF StartExecution, Status, Pc, PrLoop
  <2>3. job' \in [Task -> {"none", "running", "stopping"}] /\ job'[t] = "running"
    BY <1>6 DEF StartExecution
  <2>4. Numbered'
    BY <1>6, <2>1, <2>3 DEF StartExecution
  <2> QED
    BY <1>6, <2>1, <2>2, <2>3, <2>4 DEF StartExecution
<1>7. CASE StopExecution(t)
  BY <1>7 DEF StopExecution
<1> QED
  BY <1>1, <1>2, <1>3, <1>4, <1>5, <1>6, <1>7 DEF OwnerStep

LEMMA OwnBranch ==
  ASSUME ExecInv, NEW t \in Task, pc[t] # "off"
  PROVE  Own(t) \in Branch
BY DEF ExecInv, Numbered, Own, Branch

\* What the target does.
LEMMA TargetTypes ==
  ASSUME ExecInv, NEW t \in Task, TargetStep(t)
  PROVE  ExecInv'
<1> USE ExecutionAssumption DEF Keep, KeepOutside, db, workspace
<1>0. /\ TypeOK /\ cur \in DOMAIN refs
      /\ \A c \in Tree : c \cup dirty \in Tree /\ dirty \cup {Report} \in Tree
                         /\ c \cup {Report} \in Tree
      /\ \A b \in DOMAIN refs : refs[b] \in Tree
  BY DEF ExecInv, TypeOK, Tree
<1>p. ASSUME NEW next \in Pc \ {"off"}, GoTo(t, next), UNCHANGED <<attempt, job>>
      PROVE  pc' \in [Task -> Pc] /\ (pc[t] # "off" => Numbered')
  BY <1>p DEF ExecInv, TypeOK, GoTo, Numbered
<1>a. {"post_ok", "post_fail", "end", "clean", "branch", "apply_enter", "apply_checked", "apply_done",
       "tests", "tests_done", "push", "pr"} \subseteq Pc \ {"off"}
  BY DEF Pc, PrLoop
<1>1. CASE PassCheckpoint(t)
  <2>1. PICK next \in Pc \ {"off"} : GoTo(t, next)
    BY <1>1, CheckpointTargets DEF PassCheckpoint, CheckpointThen, Pc
  <2>2. pc[t] # "off"
    BY <1>1 DEF PassCheckpoint, CheckpointAt
  <2> QED
    BY <1>1, <1>p, <2>1, <2>2 DEF PassCheckpoint, ExecInv, TypeOK
<1>2. CASE CheckClean(t)
  BY <1>2, <1>p, <1>a DEF CheckClean, ExecInv, TypeOK
<1>3. CASE MakeBranch(t)
  <2>1. Own(t) \in Branch
    BY <1>3, OwnBranch DEF MakeBranch
  <2>2. refs' \in [Branch \cup {Main} -> Tree] /\ cur' \in Branch \cup {Main}
    BY <1>3, <1>0, <2>1 DEF MakeBranch, TypeOK
  <2> QED
    BY <1>3, <1>p, <1>a, <2>2 DEF MakeBranch, ExecInv, TypeOK
<1>4. CASE ApplyCheck(t)
  BY <1>4, <1>p, <1>a DEF ApplyCheck, ExecInv, TypeOK
<1>5. CASE ApplyPatch(t)
  <2>1. dirty' \in Tree
    BY <1>5, <1>0 DEF ApplyPatch, TypeOK, Tree
  <2> QED
    BY <1>5, <1>p, <1>a, <2>1 DEF ApplyPatch, ExecInv, TypeOK
<1>6. CASE CheckChanged(t)
  BY <1>6, <1>p, <1>a DEF CheckChanged, ExecInv, TypeOK
<1>7. CASE RunTests(t)
  <2>1. refs[cur] \cup dirty \in Tree
    BY <1>0
  <2>2. tested' \in [Task -> Tree]
    BY <1>7, <1>0, <2>1 DEF RunTests, TypeOK
  <2> QED
    BY <1>7, <1>p, <1>a, <2>2 DEF RunTests, ExecInv, TypeOK
<1>8. CASE Commit(t)
  <2>1. dirty' \in Tree
    BY <1>8, <1>0 DEF Commit, Tree
  <2>2. refs' \in [Branch \cup {Main} -> Tree]
    <3>1. refs[cur] \cup dirty \cup {Report} \in Tree
      BY <1>0
    <3> QED
      BY <1>8, <3>1 DEF Commit, ExecInv, TypeOK
  <2> QED
    BY <1>8, <1>p, <1>a, <2>1, <2>2 DEF Commit, ExecInv, TypeOK
<1>9. CASE Push(t)
  <2>1. Own(t) \in Branch
    BY <1>9, OwnBranch DEF Push
  <2>2. DOMAIN remote' \subseteq Branch /\ \A b \in DOMAIN remote' : remote'[b] \in Tree
    BY <1>9, <1>0, <2>1 DEF Push, TypeOK
  <2> QED
    BY <1>9, <1>p, <1>a, <2>2 DEF Push, ExecInv, TypeOK
<1>10. CASE CreatePr(t)
  <2>1. prs' \subseteq PullRequest
    <3>1. CASE cur \in DOMAIN remote
      <4>1. [by |-> t, head |-> cur, content |-> remote[cur],
             green |-> remote[cur] = tested[t] \cup {Report}] \in PullRequest
        BY <1>0, <3>1 DEF TypeOK, PullRequest
      <4> QED
        BY <1>10, <1>0, <4>1 DEF CreatePr, TypeOK
    <3>2. CASE cur \notin DOMAIN remote
      BY <1>10, <1>0, <3>2 DEF CreatePr, TypeOK
    <3> QED
      BY <3>1, <3>2
  <2> QED
    BY <1>10, <1>p, <1>a, <2>1 DEF CreatePr, ExecInv, TypeOK
<1>11. CASE RecordSuccess(t)
  <2>1. status' \in [Task -> Status] /\ prUrl' \in [Task -> BOOLEAN]
    BY <1>11, <1>0 DEF RecordSuccess, TypeOK, Status
  <2> QED
    BY <1>11, <1>p, <1>a, <2>1 DEF RecordSuccess, ExecInv, TypeOK
<1>12. CASE RecordFailure(t)
  <2>1. status' \in [Task -> Status]
    BY <1>12, <1>0 DEF RecordFailure, TypeOK, Status
  <2> QED
    BY <1>12, <1>p, <1>a, <2>1 DEF RecordFailure, ExecInv, TypeOK
<1>13. CASE EndJob(t)
  <2>1. pc' \in [Task -> Pc] /\ job' \in [Task -> {"none", "running", "stopping"}]
    BY <1>13, <1>0 DEF EndJob, GoTo, TypeOK, Pc
  <2>2. Numbered'
    BY <1>13, <1>0 DEF EndJob, GoTo, TypeOK, ExecInv, Numbered
  <2> QED
    BY <1>13, <2>1, <2>2 DEF EndJob, ExecInv, TypeOK
<1> QED
  BY <1>1, <1>2, <1>3, <1>4, <1>5, <1>6, <1>7, <1>8, <1>9, <1>10, <1>11, <1>12, <1>13
  DEF TargetStep

LEMMA StepExec == ExecInv /\ [Next]_vars => ExecInv'
<1> SUFFICES ASSUME ExecInv, [Next]_vars PROVE ExecInv'
  OBVIOUS
<1>1. CASE \E t \in Task : OwnerStep(t)
  BY <1>1, OwnerTypes
<1>2. CASE \E t \in Task : TargetStep(t)
  BY <1>2, TargetTypes
<1>3. CASE Break
  BY <1>3 DEF Break, ExecInv, TypeOK, Numbered, Pc, db, workspace
<1>4. CASE UNCHANGED vars
  BY <1>4 DEF vars, db, workspace, ExecInv, TypeOK, Numbered
<1> QED
  BY <1>1, <1>2, <1>3, <1>4 DEF Next

\* Every variable of the execution layer keeps its type, for any missions,
\* contents and number of executions, and whatever breaks.
THEOREM ExecTypes == Spec => []TypeOK
<1>1. ExecInv => TypeOK
  BY DEF ExecInv
<1> QED
  BY <1>1, InitExec, StepExec, PTL DEF Spec

-----------------------------------------------------------------------------
(* Stops.                                                                  *)

\* The places of a target after a step of it.
LEMMA StepOfTarget ==
  ASSUME ExecInv, NEW t \in Task, TargetStep(t)
  PROVE  /\ \A u \in Task \ {t} : pc'[u] = pc[u]
         /\ pc'[t] = "commit" => pc[t] = "tests_done" /\ job[t] # "stopping"
         /\ pc'[t] = "push" => pc[t] = "commit"
         /\ pc'[t] = "pr" => pc[t] = "push"
         /\ pc'[t] = "off" <=> pc[t] = "end"
         /\ pc'[t] = "end" <=> pc[t] \in {"record", "failed", "cancelled"}
         /\ pc[t] # "off"
<1> USE DEF ExecInv, TypeOK, GoTo
<1>1. CASE PassCheckpoint(t)
  BY <1>1, CheckpointTargets DEF PassCheckpoint, CheckpointThen, CheckpointAt
<1>2. CASE ~PassCheckpoint(t)
  BY <1>2 DEF TargetStep, CheckClean, MakeBranch, ApplyCheck, ApplyPatch, CheckChanged, RunTests,
     Commit, Push, CreatePr, RecordSuccess, RecordFailure, EndJob
<1> QED
  BY <1>1, <1>2

\* Owners move a target only by starting it.
LEMMA StepOfOwner ==
  ASSUME ExecInv, NEW t \in Task, OwnerStep(t)
  PROVE  pc' = pc \/ (StartExecution(t) /\ pc' = [pc EXCEPT ![t] = "enter"])
BY DEF OwnerStep, Approve, Rework, ReworkRunEnds, ConfirmMerge, ReplacePatch, StartExecution,
   StopExecution

\* A stop the target can see before the commit keeps it from committing,
\* pushing and opening a pull request, however many missions are executed.
THEOREM StopPreventsCommit == Spec => StopBeforeCommit
<1> DEFINE P == \A t \in Task : job[t] = "stopping" /\ pc[t] \notin {"commit", "push", "pr"}
                  => pc'[t] \notin {"commit", "push", "pr"}
<1>1. ExecInv /\ [Next]_vars => [P]_vars
  <2> SUFFICES ASSUME ExecInv, Next, NEW t \in Task, job[t] = "stopping",
                      pc[t] \notin {"commit", "push", "pr"}
               PROVE  pc'[t] \notin {"commit", "push", "pr"}
    OBVIOUS
  <2>1. ASSUME NEW u \in Task, OwnerStep(u)
        PROVE  pc'[t] \notin {"commit", "push", "pr"}
    BY <2>1, StepOfOwner DEF ExecInv, TypeOK
  <2>2. ASSUME NEW u \in Task, TargetStep(u)
        PROVE  pc'[t] \notin {"commit", "push", "pr"}
    BY <2>2, StepOfTarget
  <2>3. CASE Break
    BY <2>3 DEF Break
  <2> QED
    BY <2>1, <2>2, <2>3 DEF Next
<1>2. Spec => [][P]_vars
  BY <1>1, InitExec, StepExec, PTL DEF Spec
<1> QED
  BY <1>2 DEF StopBeforeCommit

-----------------------------------------------------------------------------
(* What a status says of the target and of pull requests.                  *)

\* While nothing breaks, a mission without a job has no target, and EXECUTING
\* is shown while a target works.
TargetInv ==
  /\ ExecInv
  /\ \A t \in Task : pc[t] = "off" => job[t] = "none"
  /\ ExecutingHasTarget

LEMMA StepTarget == ~MayBreak /\ TargetInv /\ [Next]_vars => TargetInv'
<1> SUFFICES ASSUME ~MayBreak, TargetInv, [Next]_vars PROVE TargetInv'
  OBVIOUS
<1>0. ExecInv' /\ TypeOK /\ TypeOK' /\ Numbered
  BY StepExec DEF TargetInv, ExecInv
<1> DEFINE I(t) == /\ pc[t] = "off" => job[t] = "none"
                   /\ status[t] = "EXECUTING" <=> pc[t] \notin {"off", "end"}
<1>i. \A t \in Task : I(t)
  BY DEF TargetInv, ExecutingHasTarget
<1>q. (\A t \in Task : I(t)') => TargetInv'
  BY <1>0 DEF TargetInv, ExecutingHasTarget
<1> HIDE DEF I
<1>1. ASSUME NEW t \in Task, OwnerStep(t), NEW u \in Task
      PROVE  I(u)'
  <2>1. CASE StartExecution(t)
    BY <1>0, <1>i, <2>1 DEF I, StartExecution, TypeOK
  <2>2. CASE StopExecution(t)
    BY <1>0, <1>i, <2>2 DEF I, StopExecution, TypeOK, db
  <2>3. CASE Approve(t) \/ Rework(t) \/ ReworkRunEnds(t) \/ ConfirmMerge(t) \/ ReplacePatch(t)
    <3>1. /\ pc' = pc /\ job' = job
          /\ status'[u] = status[u] \/ (status'[u] # "EXECUTING" /\ status[u] # "EXECUTING")
      BY <1>0, <2>3 DEF Approve, Rework, ReworkRunEnds, ConfirmMerge, ReplacePatch, TypeOK, db
    <3> QED
      BY <1>i, <3>1 DEF I
  <2> QED
    BY <1>1, <2>1, <2>2, <2>3 DEF OwnerStep
<1>2. ASSUME NEW t \in Task, TargetStep(t), NEW u \in Task
      PROVE  I(u)'
  <2>0. /\ \A v \in Task \ {t} : pc'[v] = pc[v]
        /\ pc[t] # "off"
        /\ pc'[t] = "off" <=> pc[t] = "end"
        /\ pc'[t] = "end" <=> pc[t] \in {"record", "failed", "cancelled"}
    BY <1>2, StepOfTarget DEF TargetInv
  <2>1. CASE RecordSuccess(t) \/ RecordFailure(t)
    BY <1>0, <1>i, <2>0, <2>1 DEF I, RecordSuccess, RecordFailure, GoTo, TypeOK
  <2>2. CASE EndJob(t)
    BY <1>0, <1>i, <2>0, <2>2 DEF I, EndJob, KeepOutside, TypeOK
  <2>3. CASE ~RecordSuccess(t) /\ ~RecordFailure(t) /\ ~EndJob(t)
    <3>1. /\ status' = status /\ job' = job
          /\ pc[t] \notin {"end", "record", "failed", "cancelled"}
      BY <1>2, <2>3 DEF TargetStep, PassCheckpoint, CheckClean, MakeBranch, ApplyCheck,
         ApplyPatch, CheckChanged, RunTests, Commit, Push, CreatePr, KeepOutside, CheckpointAt
    <3> QED
      BY <1>i, <2>0, <3>1 DEF I
  <2> QED
    BY <2>1, <2>2, <2>3
<1>3. ~Break
  BY DEF Break
<1>4. ASSUME UNCHANGED vars, NEW u \in Task
      PROVE  I(u)'
  BY <1>i, <1>4 DEF I, vars, db
<1> QED
  BY <1>q, <1>1, <1>2, <1>3, <1>4 DEF Next

\* As long as no target raises what nobody catches, EXECUTING is shown exactly
\* while a target works on the mission, for any number of missions.
THEOREM ExecutingIsWorkedOn == ~MayBreak => (Spec => []ExecutingHasTarget)
<1> SUFFICES ASSUME ~MayBreak PROVE Spec => []ExecutingHasTarget
  OBVIOUS
<1>1. Init => TargetInv
  BY InitExec DEF Init, TargetInv, ExecutingHasTarget
<1>2. TargetInv /\ [Next]_vars => TargetInv'
  BY StepTarget
<1>3. TargetInv => ExecutingHasTarget
  BY DEF TargetInv
<1> QED
  BY <1>1, <1>2, <1>3, PTL DEF Spec

\* A stored address, a mission waiting for its merge and a target past the
\* creation all vouch for a pull request of the mission.
PrVouched ==
  \A t \in Task :
    prUrl[t] \/ status[t] = "APPROVED_WAIT_MERGE" \/ pc[t] \in {"post_ok", "record"}
      => \E p \in prs : p.by = t

LEMMA StepVouched == ExecInv /\ PrVouched /\ [Next]_vars => PrVouched'
<1> SUFFICES ASSUME ExecInv, PrVouched, [Next]_vars PROVE PrVouched'
  OBVIOUS
<1> USE DEF ExecInv, TypeOK
<1>1. ASSUME NEW t \in Task, OwnerStep(t)
      PROVE  PrVouched'
  <2>1. prs' = prs /\ prUrl' = prUrl
    BY <1>1 DEF OwnerStep, Approve, Rework, ReworkRunEnds, ConfirmMerge, ReplacePatch,
       StartExecution, StopExecution, db
  <2>2. pc' = pc \/ pc' = [pc EXCEPT ![t] = "enter"]
    BY <1>1, StepOfOwner
  <2>3. \A u \in Task : status'[u] = "APPROVED_WAIT_MERGE"
                          => status[u] = "APPROVED_WAIT_MERGE" \/ prUrl[u]
    BY <1>1 DEF OwnerStep, Approve, Rework, ReworkRunEnds, ConfirmMerge, ReplacePatch,
       StartExecution, StopExecution, db
  <2> QED
    BY <2>1, <2>2, <2>3 DEF PrVouched
<1>2. ASSUME NEW t \in Task, TargetStep(t)
      PROVE  PrVouched'
  <2>1. CASE PassCheckpoint(t)
    <3>1. /\ UNCHANGED <<prs, prUrl, status>>
          /\ \A u \in Task : pc'[u] \in {"post_ok", "record"} => pc[u] \in {"post_ok", "record"}
      BY <2>1 DEF PassCheckpoint, CheckpointThen, CheckpointAt, GoTo, KeepOutside
    <3> QED
      BY <3>1 DEF PrVouched
  <2>2. CASE CreatePr(t)
    <3>1. CASE UNCHANGED prs /\ GoTo(t, "post_fail")
      BY <2>2, <3>1 DEF CreatePr, GoTo, PrVouched
    <3>2. CASE ~(UNCHANGED prs /\ GoTo(t, "post_fail"))
      <4>1. prs' = prs \cup {[by |-> t, head |-> cur, content |-> remote[cur],
                              green |-> remote[cur] = tested[t] \cup {Report}]}
        BY <2>2, <3>2 DEF CreatePr
      <4>2. prs \subseteq prs' /\ \E p \in prs' : p.by = t
        <5> DEFINE r == [by |-> t, head |-> cur, content |-> remote[cur],
                         green |-> remote[cur] = tested[t] \cup {Report}]
        <5>1. r.by = t /\ r \in prs' /\ prs \subseteq prs'
          BY <4>1
        <5> HIDE DEF r
        <5> QED
          BY <5>1
      <4>3. /\ \A u \in Task \ {t} : pc'[u] = pc[u]
            /\ UNCHANGED <<prUrl, status>>
        BY <2>2 DEF CreatePr, GoTo
      <4> QED
        BY <4>2, <4>3 DEF PrVouched
    <3> QED
      BY <3>1, <3>2
  <2>3. CASE RecordSuccess(t)
    BY <2>3 DEF RecordSuccess, GoTo, PrVouched
  <2>4. CASE RecordFailure(t)
    BY <2>4 DEF RecordFailure, GoTo, PrVouched
  <2>5. CASE ~(PassCheckpoint(t) \/ CreatePr(t) \/ RecordSuccess(t) \/ RecordFailure(t))
    <3>1. /\ UNCHANGED <<prs, prUrl, status>>
          /\ \A u \in Task : pc'[u] \in {"post_ok", "record"} => pc[u] \in {"post_ok", "record"}
      BY <1>2, <2>5 DEF TargetStep, CheckClean, MakeBranch, ApplyCheck, ApplyPatch, CheckChanged,
         RunTests, Commit, Push, EndJob, GoTo, KeepOutside
    <3> QED
      BY <3>1 DEF PrVouched
  <2> QED
    BY <2>1, <2>2, <2>3, <2>4, <2>5
<1>3. CASE Break
  BY <1>3 DEF Break, PrVouched, db
<1>4. CASE UNCHANGED vars
  BY <1>4 DEF vars, db, PrVouched
<1> QED
  BY <1>1, <1>2, <1>3, <1>4 DEF Next

\* A mission waits for a merge only if its pull request was opened, whatever
\* breaks, however many missions share the workspace.
THEOREM MergeWaitsForPr == Spec => []MergeWaitHasPr
<1>1. Init => PrVouched
  BY DEF Init, PrVouched
<1>2. PrVouched => MergeWaitHasPr
  BY DEF PrVouched, MergeWaitHasPr
<1> QED
  BY <1>1, <1>2, InitExec, StepExec, StepVouched, PTL DEF Spec

-----------------------------------------------------------------------------
(* One mission in the workspace.                                           *)

Alone == \E t : Task = {t}

OnBranch == PrLoop \ {"enter", "clean", "branch"}

\* From the tests to the pull request the content stays what the tests saw.
TestedInv ==
  /\ ExecInv
  /\ \A t \in Task :
       /\ pc[t] \in OnBranch => cur = Own(t)
       /\ pc[t] \in {"tests_done", "commit"} => tested[t] = refs[cur] \cup dirty
       /\ pc[t] = "push" => refs[cur] = tested[t] \cup {Report}
       /\ pc[t] = "pr" => cur \in DOMAIN remote /\ remote[cur] = tested[t] \cup {Report}
  /\ PrIsTested

LEMMA StepTested == Alone /\ TestedInv /\ [Next]_vars => TestedInv'
<1> SUFFICES ASSUME Alone, TestedInv, [Next]_vars PROVE TestedInv'
  OBVIOUS
<1>t. PICK t : Task = {t}
  BY DEF Alone
<1>0. ExecInv /\ ExecInv' /\ TypeOK
  BY StepExec DEF TestedInv, ExecInv
<1> DEFINE I == /\ pc[t] \in OnBranch => cur = Own(t)
                /\ pc[t] \in {"tests_done", "commit"} => tested[t] = refs[cur] \cup dirty
                /\ pc[t] = "push" => refs[cur] = tested[t] \cup {Report}
                /\ pc[t] = "pr" => cur \in DOMAIN remote /\ remote[cur] = tested[t] \cup {Report}
<1>i. I /\ PrIsTested
  BY <1>t DEF TestedInv
<1>q. I' /\ PrIsTested' => TestedInv'
  BY <1>0, <1>t DEF TestedInv
<1>b. OnBranch = {"apply_enter", "apply_check", "apply_checked", "apply", "apply_done", "applied",
                  "changed", "tests", "tests_done", "commit", "push", "pr"}
  BY DEF OnBranch, PrLoop
<1> HIDE DEF I
<1>1. CASE OwnerStep(t)
  <2>1. UNCHANGED <<workspace, remote, tested, prs>>
    BY <1>1 DEF OwnerStep, Approve, Rework, ReworkRunEnds, ConfirmMerge, ReplacePatch,
       StartExecution, StopExecution
  <2>2. CASE pc' = pc /\ attempt' = attempt
    BY <1>i, <1>q, <2>1, <2>2 DEF I, workspace, Own, PrIsTested
  <2>3. CASE StartExecution(t)
    <3>1. pc'[t] = "enter"
      BY <1>0, <1>t, <2>3 DEF StartExecution, TypeOK
    <3> QED
      BY <1>i, <1>q, <1>b, <2>1, <3>1 DEF I, PrIsTested
  <2> QED
    BY <1>1, <2>2, <2>3 DEF OwnerStep, Approve, Rework, ReworkRunEnds, ConfirmMerge, ReplacePatch,
       StopExecution
<1>2. CASE TargetStep(t)
  <2>0. /\ \A next : GoTo(t, next) => pc'[t] = next
        /\ attempt' = attempt
    BY <1>0, <1>t, <1>2 DEF GoTo, Keep, TypeOK, TargetStep, PassCheckpoint, CheckClean, MakeBranch,
       ApplyCheck, ApplyPatch, CheckChanged, RunTests, Commit, Push, CreatePr, RecordSuccess,
       RecordFailure, EndJob
  <2>1. CASE PassCheckpoint(t)
    <3>1. /\ UNCHANGED <<workspace, tested, remote, prs>>
          /\ pc'[t] \in OnBranch => pc[t] \in OnBranch
          /\ pc'[t] \in {"tests_done", "commit"} => pc[t] \in {"tests_done", "commit"}
          /\ pc'[t] \notin {"push", "pr"}
      BY <1>b, <2>0, <2>1 DEF PassCheckpoint, CheckpointThen, CheckpointAt, KeepOutside
    <3> QED
      BY <1>i, <1>q, <2>0, <3>1 DEF I, workspace, Own, PrIsTested
  <2>2. CASE CheckClean(t)
    BY <1>b, <1>i, <1>q, <2>0, <2>2 DEF I, CheckClean, workspace, KeepOutside, PrIsTested
  <2>3. CASE MakeBranch(t)
    BY <1>b, <1>i, <1>q, <2>0, <2>3 DEF I, MakeBranch, KeepOutside, PrIsTested, Own
  <2>4. CASE ApplyCheck(t) \/ ApplyPatch(t) \/ CheckChanged(t)
    <3>1. /\ UNCHANGED <<cur, refs, tested, remote, prs>>
          /\ pc[t] \in OnBranch
          /\ pc'[t] \notin {"tests_done", "commit", "push", "pr"}
      BY <1>b, <2>0, <2>4 DEF ApplyCheck, ApplyPatch, CheckChanged, workspace, KeepOutside
    <3> QED
      BY <1>i, <1>q, <2>0, <3>1 DEF I, Own, PrIsTested
  <2>5. CASE RunTests(t)
    <3>1. /\ UNCHANGED <<cur, refs, dirty, remote, prs>>
          /\ pc[t] \in OnBranch
          /\ \/ pc'[t] = "tests_done" /\ tested'[t] = refs[cur] \cup dirty
             \/ pc'[t] = "post_fail"
      BY <1>0, <1>b, <1>t, <2>0, <2>5 DEF RunTests, workspace, KeepOutside, TypeOK
    <3> QED
      BY <1>b, <1>i, <1>q, <2>0, <3>1 DEF I, Own, PrIsTested
  <2>6. CASE Commit(t)
    <3>1. cur \in DOMAIN refs
      BY <1>0 DEF TypeOK
    <3>2. /\ UNCHANGED <<cur, tested, remote, prs>>
          /\ pc[t] = "commit"
          /\ \/ pc'[t] = "push" /\ refs'[cur] = refs[cur] \cup dirty \cup {Report}
             \/ pc'[t] = "post_fail"
      BY <2>0, <2>6, <3>1 DEF Commit, KeepOutside
    <3> QED
      BY <1>b, <1>i, <1>q, <2>0, <3>2 DEF I, Own, PrIsTested
  <2>7. CASE Push(t)
    <3>1. /\ UNCHANGED <<cur, tested, refs, prs>>
          /\ pc[t] = "push"
          /\ \/ pc'[t] = "post_fail"
             \/ /\ pc'[t] = "pr"
                /\ Own(t) \in DOMAIN remote' /\ remote'[Own(t)] = refs[Own(t)]
      BY <2>0, <2>7 DEF Push, workspace
    <3> QED
      BY <1>b, <1>i, <1>q, <2>0, <3>1 DEF I, Own, PrIsTested
  <2>8. CASE CreatePr(t)
    <3>1. pc'[t] \in {"post_ok", "post_fail"} /\ pc[t] = "pr"
      BY <2>0, <2>8 DEF CreatePr
    <3>2. \A p \in prs' : p \in prs \/ p.green = (remote[cur] = tested[t] \cup {Report})
      BY <2>8 DEF CreatePr
    <3>3. PrIsTested'
      BY <1>i, <3>1, <3>2 DEF I, PrIsTested
    <3> QED
      BY <1>b, <1>q, <3>1, <3>3 DEF I
  <2>9. CASE RecordSuccess(t) \/ RecordFailure(t) \/ EndJob(t)
    <3>1. pc'[t] \in {"end", "off"} /\ prs' = prs
      BY <2>0, <2>9 DEF RecordSuccess, RecordFailure, EndJob, KeepOutside
    <3> QED
      BY <1>b, <1>i, <1>q, <3>1 DEF I, PrIsTested
  <2> QED
    BY <1>2, <2>1, <2>2, <2>3, <2>4, <2>5, <2>6, <2>7, <2>8, <2>9 DEF TargetStep
<1>3. CASE Break
  <2>1. /\ UNCHANGED <<workspace, remote, tested, prs, attempt>>
        /\ pc'[t] = pc[t] \/ pc'[t] = "off"
    BY <1>t, <1>3 DEF Break
  <2> QED
    BY <1>b, <1>i, <1>q, <2>1 DEF I, workspace, Own, PrIsTested
<1>4. CASE UNCHANGED vars
  BY <1>i, <1>q, <1>4 DEF vars, workspace, I, Own, PrIsTested
<1> QED
  BY <1>t, <1>1, <1>2, <1>3, <1>4 DEF Next

\* With one mission in the workspace, the content of every pull request is what
\* the last green test run saw, whatever breaks, is stopped, reworked or
\* rewritten, and however often it is executed.
THEOREM LonePrIsTested == Alone => (Spec => []PrIsTested)
<1> SUFFICES ASSUME Alone PROVE Spec => []PrIsTested
  OBVIOUS
<1>1. Init => TestedInv
  BY InitExec DEF Init, TestedInv, OnBranch, PrLoop, PrIsTested
<1>2. TestedInv /\ [Next]_vars => TestedInv'
  BY StepTested
<1>3. TestedInv => PrIsTested
  BY DEF TestedInv
<1> QED
  BY <1>1, <1>2, <1>3, PTL DEF Spec

-----------------------------------------------------------------------------
(* One mission whose file stays as it was approved.                        *)

\* Nothing but the report and what the owner approved gets into the workspace
\* or out of it.
Clean(t, content) == content \subseteq signed[t] \cup {Report}

SignedInv ==
  /\ ExecInv
  /\ \A t \in Task :
       /\ approved[t] => file[t] \in signed[t]
       /\ pc[t] # "off" => approved[t]
       /\ \A b \in DOMAIN refs : Clean(t, refs[b])
       /\ \A b \in DOMAIN remote : Clean(t, remote[b])
       /\ Clean(t, dirty)
  /\ PrIsSignedPatch

LEMMA StepSigned == Alone /\ ~MayReplace /\ SignedInv /\ [Next]_vars => SignedInv'
<1> SUFFICES ASSUME Alone, ~MayReplace, SignedInv, [Next]_vars PROVE SignedInv'
  OBVIOUS
<1>t. PICK t : Task = {t}
  BY DEF Alone
<1>0. ExecInv /\ ExecInv' /\ TypeOK /\ cur \in DOMAIN refs
  BY StepExec DEF SignedInv, ExecInv, TypeOK
<1> DEFINE Owner == /\ approved[t] => file[t] \in signed[t]
                    /\ pc[t] # "off" => approved[t]
           Work  == /\ \A b \in DOMAIN refs : Clean(t, refs[b])
                    /\ \A b \in DOMAIN remote : Clean(t, remote[b])
                    /\ Clean(t, dirty)
                    /\ \A p \in prs : Clean(t, p.content)
<1>p. PrIsSignedPatch <=> \A p \in prs : Clean(t, p.content)
  <2>1. \A p \in prs : p.by = t
    BY <1>0, <1>t DEF TypeOK, PullRequest
  <2> QED
    BY <2>1 DEF PrIsSignedPatch, Clean
<1>r. PrIsSignedPatch' <=> \A p \in prs' : Clean(t, p.content)'
  <2>1. \A p \in prs' : p.by = t
    BY <1>0, <1>t DEF ExecInv, TypeOK, PullRequest
  <2> QED
    BY <2>1 DEF PrIsSignedPatch, Clean
<1>i. Owner /\ Work
  BY <1>t, <1>p DEF SignedInv
<1>q. Owner' /\ Work' => SignedInv'
  BY <1>0, <1>t, <1>r DEF SignedInv
<1> HIDE DEF Owner, Work
<1>1. CASE OwnerStep(t)
  <2>1. /\ UNCHANGED <<workspace, remote, prs, file>>
        /\ signed[t] \subseteq signed'[t]
    BY <1>0, <1>1, <1>t DEF OwnerStep, Approve, Rework, ReworkRunEnds, ConfirmMerge, ReplacePatch,
       StartExecution, StopExecution, TypeOK
  <2>2. Work'
    BY <1>i, <2>1 DEF Work, Clean, workspace
  <2>3. Owner'
    <3>1. CASE Approve(t)
      BY <1>0, <1>i, <1>t, <3>1 DEF Owner, Approve, TypeOK
    <3>2. CASE StartExecution(t)
      BY <1>0, <1>i, <1>t, <3>2 DEF Owner, StartExecution, MayStart, TypeOK
    <3>3. CASE Rework(t) \/ ReworkRunEnds(t) \/ ConfirmMerge(t) \/ ReplacePatch(t) \/ StopExecution(t)
      BY <1>i, <3>3 DEF Owner, Rework, ReworkRunEnds, ConfirmMerge, ReplacePatch, StopExecution, db
    <3> QED
      BY <1>1, <3>1, <3>2, <3>3 DEF OwnerStep
  <2> QED
    BY <1>q, <2>2, <2>3
<1>2. CASE TargetStep(t)
  <2>1. UNCHANGED <<approved, file, signed>> /\ pc[t] # "off"
    BY <1>0, <1>2, <1>t, StepOfTarget DEF Keep, TargetStep, PassCheckpoint, CheckClean, MakeBranch,
       ApplyCheck, ApplyPatch, CheckChanged, RunTests, Commit, Push, CreatePr, RecordSuccess,
       RecordFailure, EndJob
  <2>2. Owner' /\ approved[t] /\ file[t] \in signed[t]
    BY <1>i, <2>1 DEF Owner
  <2>b. Own(t) \in DOMAIN refs
    BY <1>0, <1>t, <2>1, OwnBranch DEF TypeOK
  <2>3. CASE MakeBranch(t)
    <3>1. UNCHANGED <<dirty, remote, prs>> /\ (refs' = refs \/ refs' = [refs EXCEPT ![Own(t)] = refs[cur]])
      BY <2>3 DEF MakeBranch, KeepOutside
    <3>2. DOMAIN refs' = DOMAIN refs /\ \A b \in DOMAIN refs : refs'[b] = refs[b] \/ refs'[b] = refs[cur]
      BY <3>1
    <3> QED
      BY <1>0, <1>i, <1>q, <2>1, <2>2, <3>1, <3>2 DEF Work, Clean
  <2>4. CASE ApplyPatch(t)
    BY <1>i, <1>q, <2>1, <2>2, <2>4 DEF Work, Clean, ApplyPatch, KeepOutside
  <2>5. CASE Commit(t)
    <3>1. /\ UNCHANGED <<remote, prs>> /\ dirty' \in {{}, dirty \cup {Report}}
          /\ refs' = refs \/ refs' = [refs EXCEPT ![cur] = @ \cup dirty \cup {Report}]
      BY <2>5 DEF Commit, KeepOutside
    <3>2. DOMAIN refs' = DOMAIN refs
          /\ \A b \in DOMAIN refs : refs'[b] \subseteq refs[b] \cup dirty \cup {Report}
      BY <3>1
    <3> QED
      BY <1>0, <1>i, <1>q, <2>1, <2>2, <3>1, <3>2 DEF Work, Clean
  <2>6. CASE Push(t)
    BY <1>i, <1>q, <2>1, <2>2, <2>b, <2>6 DEF Work, Clean, Push, workspace
  <2>7. CASE CreatePr(t)
    <3>1. \A p \in prs' : p \in prs \/ (cur \in DOMAIN remote /\ p.content = remote[cur])
      BY <2>7 DEF CreatePr
    <3>2. UNCHANGED <<workspace, remote>>
      BY <2>7 DEF CreatePr
    <3> QED
      BY <1>i, <1>q, <2>1, <2>2, <3>1, <3>2 DEF Work, Clean, workspace
  <2>8. CASE ~(MakeBranch(t) \/ ApplyPatch(t) \/ Commit(t) \/ Push(t) \/ CreatePr(t))
    <3>1. UNCHANGED <<workspace, remote, prs>>
      BY <1>2, <2>8 DEF KeepOutside, TargetStep, PassCheckpoint, CheckClean, ApplyCheck,
         CheckChanged, RunTests, RecordSuccess, RecordFailure, EndJob
    <3> QED
      BY <1>i, <1>q, <2>1, <2>2, <3>1 DEF Work, Clean, workspace
  <2> QED
    BY <2>3, <2>4, <2>5, <2>6, <2>7, <2>8
<1>3. CASE Break
  <2>1. /\ UNCHANGED <<db, file, signed, workspace, remote, prs>>
        /\ pc'[t] = pc[t] \/ pc'[t] = "off"
    BY <1>t, <1>3 DEF Break
  <2> QED
    BY <1>i, <1>q, <2>1 DEF Owner, Work, Clean, workspace, db
<1>4. CASE UNCHANGED vars
  BY <1>i, <1>q, <1>4 DEF vars, workspace, db, Owner, Work, Clean
<1> QED
  BY <1>t, <1>1, <1>2, <1>3, <1>4 DEF Next

\* With one mission in the workspace, and its file as it was approved, a pull
\* request holds what the owner approved and the report, nothing else, however
\* often the execution fails, is stopped, reworked and started again.
THEOREM LonePrIsSigned == Alone /\ ~MayReplace => (Spec => []PrIsSignedPatch)
<1> SUFFICES ASSUME Alone, ~MayReplace PROVE Spec => []PrIsSignedPatch
  OBVIOUS
<1>1. Init => SignedInv
  BY InitExec DEF Init, SignedInv, Clean, PrIsSignedPatch
<1>2. SignedInv /\ [Next]_vars => SignedInv'
  BY StepSigned
<1>3. SignedInv => PrIsSignedPatch
  BY DEF SignedInv
<1> QED
  BY <1>1, <1>2, <1>3, PTL DEF Spec

\* Once a pull request is open its patch is below every later branch, and a
\* target that has got past git apply holds a patch that was not there before.
OnceInv ==
  /\ ExecInv
  /\ \A t \in Task :
       /\ pc[t] \in {"apply_done", "applied", "changed", "tests", "tests_done", "commit"}
            => file[t] \in refs[cur] \cup dirty
       /\ pc[t] \in {"push", "pr"} => file[t] \in refs[cur]
       /\ prs # {} => /\ file[t] \in refs[cur]
                      /\ pc[t] \notin OnBranch \ {"apply_enter", "apply_check"}
  /\ \A p, q \in prs : p = q

LEMMA StepOnce == Alone /\ ~MayReplace /\ OnceInv /\ [Next]_vars => OnceInv'
<1> SUFFICES ASSUME Alone, ~MayReplace, OnceInv, [Next]_vars PROVE OnceInv'
  OBVIOUS
<1>t. PICK t : Task = {t}
  BY DEF Alone
<1>0. ExecInv /\ ExecInv' /\ TypeOK /\ cur \in DOMAIN refs
  BY StepExec DEF OnceInv, ExecInv, TypeOK
<1> DEFINE I == /\ pc[t] \in {"apply_done", "applied", "changed", "tests", "tests_done", "commit"}
                     => file[t] \in refs[cur] \cup dirty
                /\ pc[t] \in {"push", "pr"} => file[t] \in refs[cur]
                /\ prs # {} => /\ file[t] \in refs[cur]
                               /\ pc[t] \notin OnBranch \ {"apply_enter", "apply_check"}
                /\ \A p, q \in prs : p = q
<1>i. I
  BY <1>t DEF OnceInv
<1>q. I' => OnceInv'
  BY <1>0, <1>t DEF OnceInv
<1>b. OnBranch \ {"apply_enter", "apply_check"} =
        {"apply_checked", "apply", "apply_done", "applied", "changed", "tests", "tests_done",
         "commit", "push", "pr"}
  BY DEF OnBranch, PrLoop
<1> HIDE DEF I
<1>1. CASE OwnerStep(t)
  <2>1. /\ UNCHANGED <<workspace, prs, file>>
        /\ pc' = pc \/ pc'[t] = "enter"
    BY <1>0, <1>1, <1>t DEF OwnerStep, Approve, Rework, ReworkRunEnds, ConfirmMerge, ReplacePatch,
       StartExecution, StopExecution, TypeOK
  <2> QED
    BY <1>b, <1>i, <1>q, <2>1 DEF I, workspace
<1>2. CASE TargetStep(t)
  <2>0. /\ \A next : GoTo(t, next) => pc'[t] = next
        /\ file' = file
    BY <1>0, <1>t, <1>2 DEF GoTo, Keep, TypeOK, TargetStep, PassCheckpoint, CheckClean, MakeBranch,
       ApplyCheck, ApplyPatch, CheckChanged, RunTests, Commit, Push, CreatePr, RecordSuccess,
       RecordFailure, EndJob
  <2>1. CASE PassCheckpoint(t)
    <3>1. /\ UNCHANGED <<workspace, prs>>
          /\ pc'[t] \in {"apply_check", "apply", "applied", "changed", "commit"} =>
               \/ pc[t] = "apply_enter" /\ pc'[t] = "apply_check"
               \/ pc[t] = "apply_checked" /\ pc'[t] = "apply"
               \/ pc[t] \in {"apply_done", "applied", "tests_done"}
          /\ pc'[t] \in {"apply_check", "apply", "applied", "changed", "commit", "clean", "record",
                         "failed", "cancelled", "post_fail"}
      BY <2>0, <2>1 DEF PassCheckpoint, CheckpointThen, CheckpointAt, KeepOutside
    <3> QED
      BY <1>b, <1>i, <1>q, <2>0, <3>1 DEF I, workspace
  <2>2. CASE CheckClean(t)
    BY <1>b, <1>i, <1>q, <2>0, <2>2 DEF I, CheckClean, workspace, KeepOutside
  <2>3. CASE MakeBranch(t)
    <3>1. Own(t) \in DOMAIN refs
      BY <1>0, <1>t, <2>3, OwnBranch DEF MakeBranch, TypeOK
    <3>2. /\ prs' = prs /\ pc'[t] \in {"apply_enter", "post_fail"}
      BY <2>0, <2>3 DEF MakeBranch, KeepOutside
    <3>3. refs'[cur'] = refs[cur]
      <4>1. CASE refs' = [refs EXCEPT ![Own(t)] = refs[cur]] /\ cur' = Own(t)
        BY <3>1, <4>1
      <4>2. CASE UNCHANGED <<refs, cur>>
        BY <4>2
      <4> QED
        BY <2>3, <4>1, <4>2 DEF MakeBranch
    <3> QED
      BY <1>b, <1>i, <1>q, <2>0, <3>2, <3>3 DEF I
  <2>4. CASE ApplyCheck(t)
    BY <1>b, <1>i, <1>q, <2>0, <2>4 DEF I, ApplyCheck, workspace, KeepOutside
  <2>5. CASE ApplyPatch(t)
    BY <1>b, <1>i, <1>q, <2>0, <2>5 DEF I, ApplyPatch, KeepOutside
  <2>6. CASE CheckChanged(t) \/ RunTests(t)
    <3>1. /\ UNCHANGED <<workspace, prs>>
          /\ pc[t] \in {"changed", "tests"} /\ pc'[t] \in {"tests", "tests_done", "post_fail"}
      BY <2>0, <2>6 DEF CheckChanged, RunTests, KeepOutside
    <3> QED
      BY <1>b, <1>i, <1>q, <2>0, <3>1 DEF I, workspace
  <2>7. CASE Commit(t)
    <3>1. /\ UNCHANGED <<cur, prs>>
          /\ pc[t] = "commit"
          /\ \/ pc'[t] = "push" /\ refs'[cur] = refs[cur] \cup dirty \cup {Report}
             \/ pc'[t] = "post_fail" /\ refs' = refs
      BY <1>0, <2>0, <2>7 DEF Commit, KeepOutside
    <3> QED
      BY <1>b, <1>i, <1>q, <2>0, <3>1 DEF I
  <2>8. CASE Push(t)
    BY <1>b, <1>i, <1>q, <2>0, <2>8 DEF I, Push, workspace
  <2>9. CASE CreatePr(t)
    <3>1. /\ UNCHANGED <<cur, refs, dirty>>
          /\ pc[t] = "pr" /\ pc'[t] \in {"post_ok", "post_fail"}
          /\ prs' = prs \/ \E p : prs' = prs \cup {p}
      BY <2>0, <2>9 DEF CreatePr, workspace
    <3>2. prs = {} /\ file[t] \in refs[cur]
      BY <1>b, <1>i, <3>1 DEF I
    <3>3. \A p, q \in prs' : p = q
      BY <3>1, <3>2
    <3> QED
      BY <1>b, <1>q, <2>0, <3>1, <3>2, <3>3 DEF I
  <2>10. CASE RecordSuccess(t) \/ RecordFailure(t) \/ EndJob(t)
    <3>1. pc'[t] \in {"end", "off"} /\ UNCHANGED <<workspace, prs>>
      BY <2>0, <2>10 DEF RecordSuccess, RecordFailure, EndJob, KeepOutside
    <3> QED
      BY <1>b, <1>i, <1>q, <2>0, <3>1 DEF I, workspace
  <2> QED
    BY <1>2, <2>1, <2>2, <2>3, <2>4, <2>5, <2>6, <2>7, <2>8, <2>9, <2>10 DEF TargetStep
<1>3. CASE Break
  <2>1. /\ UNCHANGED <<workspace, prs, file>>
        /\ pc'[t] = pc[t] \/ pc'[t] = "off"
    BY <1>t, <1>3 DEF Break
  <2> QED
    BY <1>b, <1>i, <1>q, <2>1 DEF I, workspace
<1>4. CASE UNCHANGED vars
  BY <1>i, <1>q, <1>4 DEF vars, workspace, I
<1> QED
  BY <1>t, <1>1, <1>2, <1>3, <1>4 DEF Next

\* With one mission in the workspace, and its file as it was approved, one pull
\* request is opened at most, even when its address was lost and the execution
\* is started again: git refuses a patch that is already below the branch.
THEOREM LonePrOnce == Alone /\ ~MayReplace => (Spec => []OnePrPerMission)
<1> SUFFICES ASSUME Alone, ~MayReplace PROVE Spec => []OnePrPerMission
  OBVIOUS
<1>1. Init => OnceInv
  BY InitExec DEF Init, OnceInv, OnBranch, PrLoop
<1>2. OnceInv /\ [Next]_vars => OnceInv'
  BY StepOnce
<1>3. OnceInv => OnePrPerMission
  BY DEF OnceInv, OnePrPerMission
<1> QED
  BY <1>1, <1>2, <1>3, PTL DEF Spec
=============================================================================
