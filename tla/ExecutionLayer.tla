--------------------------- MODULE ExecutionLayer ---------------------------
(***************************************************************************)
(* Owner-approved execution: app/execution/service.py drives the PR loop   *)
(* of app/runners/cursor_runner/pr_loop.py in a background run.            *)
(*                                                                         *)
(* All missions name the same checkout, the usual deployment: one          *)
(* EXECUTION_ALLOWED_ROOTS entry.  One step is one git, pytest or gh       *)
(* command, one commit to the database, or one checkpoint.  Repository     *)
(* contents are the set of patches they contain; a mission's patch touches *)
(* files of its own.  The run manager is reduced to what                   *)
(* OrchestrationRuntime establishes: one target per mission, and a stop    *)
(* that reaches it; a thread that is started runs.  The orchestration that *)
(* follows a rework or a clarification is one step.                        *)
(***************************************************************************)
EXTENDS Naturals, FiniteSets

CONSTANTS
  Task,         \* missions with an execution_request
  Content,      \* contents the patch files may have
  PatchOf,      \* [Task -> SUBSET Content]: contents mission t's file may take
  Report,       \* DEV_REPORT.md, written before every commit
  Attempts,     \* bound on the executions started per mission
  MayRework,    \* TRUE: the owner may send missions back
  MayReplace,   \* TRUE: a patch file may be rewritten between decisions
  MayBreak      \* TRUE: the process may die, or the target raise unexpectedly

ASSUME ExecutionAssumption ==
  /\ PatchOf \in [Task -> SUBSET Content]
  /\ \A t \in Task : PatchOf[t] # {}
  /\ Report \notin Content
  /\ Attempts \in Nat \ {0}
  /\ MayRework \in BOOLEAN /\ MayReplace \in BOOLEAN /\ MayBreak \in BOOLEAN

VARIABLES
  status,     \* Task.status
  approved,   \* a Decision row with owner_approval and code a exists
  prUrl,      \* Task.pr_url is set
  file,       \* content of the mission's patch file now
  signed,     \* history: contents the file had when the owner approved
  job,        \* the mission's background job: "none", "running", "stopping"
  pc,         \* where the job's target is
  attempt,    \* executions started so far; names the current branch
  cur,        \* branch checked out in the workspace
  refs,       \* content of each local branch
  dirty,      \* uncommitted content of the workspace
  remote,     \* branches pushed, with their content
  tested,     \* content the last green test run of a mission saw
  prs         \* pull requests opened

db        == <<status, approved, prUrl>>
workspace == <<cur, refs, dirty>>
vars      == <<db, file, signed, job, pc, attempt, workspace, remote, tested, prs>>

Branch == Task \X (1 .. Attempts)
Main   == <<"main", 0>>
Tree   == SUBSET (Content \cup {Report})

Status == {"WAIT_OWNER", "EXECUTION_READY", "EXECUTING", "EXECUTION_FAILED",
           "APPROVED_WAIT_MERGE", "REWORK", "DONE"}

\* The target: run_pr_loop up to "post", then the lines after it.
PrLoop == {"enter", "clean", "branch", "apply_enter", "apply_check",
           "apply_checked", "apply", "apply_done", "applied", "changed",
           "tests", "tests_done", "commit", "push", "pr"}
Pc == {"off", "post_ok", "post_fail", "record", "failed", "cancelled", "end"} \cup PrLoop

PullRequest == [by : Task, head : Branch, content : Tree, green : BOOLEAN]

Own(t) == <<t, attempt[t]>>

Init ==
  /\ status = [t \in Task |-> "WAIT_OWNER"]
  /\ approved = [t \in Task |-> FALSE]
  /\ prUrl = [t \in Task |-> FALSE]
  /\ file \in {f \in [Task -> Content] : \A t \in Task : f[t] \in PatchOf[t]}
  /\ signed = [t \in Task |-> {}]
  /\ job = [t \in Task |-> "none"]
  /\ pc = [t \in Task |-> "off"]
  /\ attempt = [t \in Task |-> 0]
  /\ cur = Main
  /\ refs = [b \in Branch \cup {Main} |-> {}]
  /\ dirty = {}
  /\ remote = [b \in {} |-> {}]
  /\ tested = [t \in Task |-> {}]
  /\ prs = {}

-----------------------------------------------------------------------------
(* The owner, through the dashboard; every handler is refused while the    *)
(* mission's job is active.                                                *)

\* apply_owner_decision approve with resolve_status_after_approve.
Approve(t) ==
  /\ status[t] = "WAIT_OWNER"
  /\ job[t] = "none"
  /\ approved' = [approved EXCEPT ![t] = TRUE]
  /\ signed' = [signed EXCEPT ![t] = @ \cup {file[t]}]
  /\ status' = [status EXCEPT ![t] = IF prUrl[t] THEN "APPROVED_WAIT_MERGE"
                                                ELSE "EXECUTION_READY"]
  /\ UNCHANGED <<prUrl, file, job, pc, attempt, workspace, remote, tested, prs>>

\* Rework, from any status the dashboard offers it in.
Rework(t) ==
  /\ MayRework
  /\ status[t] \in {"WAIT_OWNER", "EXECUTION_READY", "APPROVED_WAIT_MERGE", "DONE"}
  /\ job[t] = "none"
  /\ status' = [status EXCEPT ![t] = "REWORK"]
  /\ UNCHANGED <<approved, prUrl, file, signed, job, pc, attempt, workspace,
                 remote, tested, prs>>

\* The run that follows a rework reaches the owner again, or ends the mission
\* itself, or (a mission explored by scenario) is ready for execution.
ReworkRunEnds(t) ==
  /\ status[t] = "REWORK"
  /\ \E s \in {"WAIT_OWNER", "DONE", "EXECUTION_READY"} :
       status' = [status EXCEPT ![t] = s]
  /\ UNCHANGED <<approved, prUrl, file, signed, job, pc, attempt, workspace,
                 remote, tested, prs>>

\* apply_merge_confirmation.
ConfirmMerge(t) ==
  /\ status[t] = "APPROVED_WAIT_MERGE"
  /\ prUrl[t]
  /\ job[t] = "none"
  /\ status' = [status EXCEPT ![t] = "DONE"]
  /\ UNCHANGED <<approved, prUrl, file, signed, job, pc, attempt, workspace,
                 remote, tested, prs>>

\* A new artifact is written under ARTIFACTS_DIR at the requested path.
ReplacePatch(t) ==
  /\ MayReplace
  /\ \E c \in PatchOf[t] \ {file[t]} : file' = [file EXCEPT ![t] = c]
  /\ UNCHANGED <<db, signed, job, pc, attempt, workspace, remote, tested, prs>>

\* Altered forms end in the name of the bug they carry; no action uses them.
\* execution_capabilities: status, a recorded approval, no active job.
MayStart_WithoutApproval(t) ==
  /\ status[t] \in {"EXECUTION_READY", "EXECUTION_FAILED"}
  /\ job[t] = "none"
MayStart(t) ==
  /\ status[t] \in {"EXECUTION_READY", "EXECUTION_FAILED"}
  /\ approved[t]
  /\ job[t] = "none"

\* start_approved_execution: EXECUTING is committed, then the run starts.
StartExecution(t) ==
  /\ MayStart(t)
  /\ attempt[t] < Attempts
  /\ status' = [status EXCEPT ![t] = "EXECUTING"]
  /\ attempt' = [attempt EXCEPT ![t] = @ + 1]
  /\ job' = [job EXCEPT ![t] = "running"]
  /\ pc' = [pc EXCEPT ![t] = "enter"]
  /\ UNCHANGED <<approved, prUrl, file, signed, workspace, remote, tested, prs>>

\* pipeline/stop: request_stop; the target sees it at its next checkpoint.
StopExecution(t) ==
  /\ job[t] = "running"
  /\ job' = [job EXCEPT ![t] = "stopping"]
  /\ UNCHANGED <<db, file, signed, pc, attempt, workspace, remote, tested, prs>>

-----------------------------------------------------------------------------
(* The target.  GoTo moves the program counter; nothing else of the        *)
(* database, the remote or the workspace changes in a step that does not   *)
(* say so.                                                                 *)

GoTo(t, next) == pc' = [pc EXCEPT ![t] = next]
Keep(t) == UNCHANGED <<approved, file, signed, attempt>>
KeepOutside(t) == UNCHANGED <<status, prUrl, remote, prs>>

\* check_cancelled: OrchestrationCancelled goes to the handler that records it,
\* except inside run_pr_loop's try block around the callback, which turns it
\* into an ordinary failure result.
CheckpointThen(t, next, onStop) ==
  GoTo(t, IF job[t] = "stopping" THEN onStop ELSE next)

\* Checkpoints of the target, each with what follows and what a stop does.
CheckpointAt_NoneBeforeCommit ==
  [enter         |-> [next |-> "clean",       stop |-> "cancelled"],
   apply_enter   |-> [next |-> "apply_check", stop |-> "post_fail"],
   apply_checked |-> [next |-> "apply",       stop |-> "post_fail"],
   apply_done    |-> [next |-> "applied",     stop |-> "post_fail"],
   applied       |-> [next |-> "changed",     stop |-> "cancelled"],
   tests_done    |-> [next |-> "commit",      stop |-> "commit"],
   post_ok       |-> [next |-> "record",      stop |-> "cancelled"],
   post_fail     |-> [next |-> "failed",      stop |-> "cancelled"]]

CheckpointAt ==
  [enter         |-> [next |-> "clean",       stop |-> "cancelled"],
   apply_enter   |-> [next |-> "apply_check", stop |-> "post_fail"],
   apply_checked |-> [next |-> "apply",       stop |-> "post_fail"],
   apply_done    |-> [next |-> "applied",     stop |-> "post_fail"],
   applied       |-> [next |-> "changed",     stop |-> "cancelled"],
   tests_done    |-> [next |-> "commit",      stop |-> "cancelled"],
   post_ok       |-> [next |-> "record",      stop |-> "cancelled"],
   post_fail     |-> [next |-> "failed",      stop |-> "cancelled"]]

PassCheckpoint(t) ==
  /\ pc[t] \in DOMAIN CheckpointAt
  /\ CheckpointThen(t, CheckpointAt[pc[t]].next, CheckpointAt[pc[t]].stop)
  /\ Keep(t) /\ KeepOutside(t)
  /\ UNCHANGED <<job, workspace, tested>>

\* git status: the workspace must be clean, else nothing is touched.  A missing
\* GH_TOKEN ends the loop here as well.
CheckClean(t) ==
  /\ pc[t] = "clean"
  /\ \/ GoTo(t, "post_fail")
     \/ /\ dirty = {}
        /\ GoTo(t, "branch")
  /\ Keep(t) /\ KeepOutside(t)
  /\ UNCHANGED <<job, workspace, tested>>

MakeBranch_FromMain(t) ==
  /\ pc[t] = "branch"
  /\ refs' = [refs EXCEPT ![Own(t)] = refs[Main]]
  /\ cur' = Own(t)
  /\ GoTo(t, "apply_enter")
  /\ Keep(t) /\ KeepOutside(t)
  /\ UNCHANGED <<job, dirty, tested>>

\* git checkout -b: the new branch starts at the current head, whatever branch
\* that is, and uncommitted changes stay in the tree.
MakeBranch(t) ==
  /\ pc[t] = "branch"
  /\ \/ /\ refs' = [refs EXCEPT ![Own(t)] = refs[cur]]
        /\ cur' = Own(t)
        /\ GoTo(t, "apply_enter")
     \/ /\ GoTo(t, "post_fail")
        /\ UNCHANGED <<refs, cur>>
  /\ Keep(t) /\ KeepOutside(t)
  /\ UNCHANGED <<job, dirty, tested>>

\* git apply --check: refused when the tree already has the patch.
ApplyCheck(t) ==
  /\ pc[t] = "apply_check"
  /\ \/ GoTo(t, "post_fail")
     \/ /\ file[t] \notin refs[cur] \cup dirty
        /\ GoTo(t, "apply_checked")
  /\ Keep(t) /\ KeepOutside(t)
  /\ UNCHANGED <<job, workspace, tested>>

\* git apply reads the file again.
ApplyPatch(t) ==
  /\ pc[t] = "apply"
  /\ \/ /\ GoTo(t, "post_fail")
        /\ UNCHANGED dirty
     \/ /\ file[t] \notin refs[cur] \cup dirty
        /\ dirty' = dirty \cup {file[t]}
        /\ GoTo(t, "apply_done")
  /\ Keep(t) /\ KeepOutside(t)
  /\ UNCHANGED <<job, cur, refs, tested>>

\* git status again: nothing changed means failure.
CheckChanged(t) ==
  /\ pc[t] = "changed"
  /\ \/ GoTo(t, "post_fail")
     \/ /\ dirty # {}
        /\ GoTo(t, "tests")
  /\ Keep(t) /\ KeepOutside(t)
  /\ UNCHANGED <<job, workspace, tested>>

\* pytest over the tree as it is now; red ends the loop before any commit.
RunTests_RedGoesOn(t) ==
  /\ pc[t] = "tests"
  /\ tested' \in {tested, [tested EXCEPT ![t] = refs[cur] \cup dirty]}
  /\ GoTo(t, "tests_done")
  /\ Keep(t) /\ KeepOutside(t)
  /\ UNCHANGED <<job, workspace>>

RunTests(t) ==
  /\ pc[t] = "tests"
  /\ \/ /\ tested' = [tested EXCEPT ![t] = refs[cur] \cup dirty]
        /\ GoTo(t, "tests_done")
     \/ /\ GoTo(t, "post_fail")
        /\ UNCHANGED tested
  /\ Keep(t) /\ KeepOutside(t)
  /\ UNCHANGED <<job, workspace>>

\* git add -A and git commit, on the branch that is checked out.
Commit(t) ==
  /\ pc[t] = "commit"
  /\ \/ /\ refs' = [refs EXCEPT ![cur] = @ \cup dirty \cup {Report}]
        /\ dirty' = {}
        /\ GoTo(t, "push")
     \/ /\ dirty' = dirty \cup {Report}
        /\ GoTo(t, "post_fail")
        /\ UNCHANGED refs
  /\ Keep(t) /\ KeepOutside(t)
  /\ UNCHANGED <<job, cur, tested>>

\* git push of the mission's own branch; a timeout hides whether it arrived.
Push(t) ==
  /\ pc[t] = "push"
  /\ \/ /\ remote' = [b \in (DOMAIN remote) \cup {Own(t)} |->
                        IF b = Own(t) THEN refs[b] ELSE remote[b]]
        /\ \E next \in {"pr", "post_fail"} : GoTo(t, next)
     \/ /\ GoTo(t, "post_fail")
        /\ UNCHANGED remote
  /\ Keep(t)
  /\ UNCHANGED <<status, prUrl, job, workspace, tested, prs>>

\* gh pr create, which opens the pull request of the branch checked out; the
\* loop fails unless the address is printed in time.
CreatePr_NoUrlNeeded(t) ==
  /\ pc[t] = "pr"
  /\ GoTo(t, "post_ok")
  /\ Keep(t)
  /\ UNCHANGED <<status, prUrl, job, workspace, tested, remote, prs>>

CreatePr(t) ==
  /\ pc[t] = "pr"
  /\ \/ /\ cur \in DOMAIN remote
        /\ remote[cur] # {}
        /\ \A p \in prs : p.head # cur
        /\ prs' = prs \cup {[by |-> t, head |-> cur, content |-> remote[cur],
                             green |-> remote[cur] = tested[t] \cup {Report}]}
        /\ \E next \in {"post_ok", "post_fail"} : GoTo(t, next)
     \/ /\ GoTo(t, "post_fail")
        /\ UNCHANGED prs
  /\ Keep(t)
  /\ UNCHANGED <<status, prUrl, job, workspace, tested, remote>>

\* APPROVED_WAIT_MERGE with the PR's address.
RecordSuccess(t) ==
  /\ pc[t] = "record"
  /\ status' = [status EXCEPT ![t] = "APPROVED_WAIT_MERGE"]
  /\ prUrl' = [prUrl EXCEPT ![t] = TRUE]
  /\ GoTo(t, "end")
  /\ Keep(t)
  /\ UNCHANGED <<job, workspace, remote, tested, prs>>

\* _record_terminal_failure: a stop makes the mission ready again.
RecordFailure_OnlyErrors(t) ==
  /\ pc[t] \in {"failed", "cancelled"}
  /\ status' = IF pc[t] = "cancelled" THEN status
               ELSE [status EXCEPT ![t] = "EXECUTION_FAILED"]
  /\ GoTo(t, "end")
  /\ Keep(t)
  /\ UNCHANGED <<prUrl, job, workspace, remote, tested, prs>>

RecordFailure_UnknownStatus(t) ==
  /\ pc[t] \in {"failed", "cancelled"}
  /\ status' = [status EXCEPT ![t] = IF pc[t] = "cancelled" THEN "CANCELLED"
                                                            ELSE "EXECUTION_FAILED"]
  /\ GoTo(t, "end")
  /\ Keep(t)
  /\ UNCHANGED <<prUrl, job, workspace, remote, tested, prs>>

RecordFailure(t) ==
  /\ pc[t] \in {"failed", "cancelled"}
  /\ status' = [status EXCEPT ![t] = IF pc[t] = "cancelled" THEN "EXECUTION_READY"
                                                            ELSE "EXECUTION_FAILED"]
  /\ GoTo(t, "end")
  /\ Keep(t)
  /\ UNCHANGED <<prUrl, job, workspace, remote, tested, prs>>

\* The run manager closes the job.
EndJob(t) ==
  /\ pc[t] = "end"
  /\ job' = [job EXCEPT ![t] = "none"]
  /\ GoTo(t, "off")
  /\ Keep(t) /\ KeepOutside(t)
  /\ UNCHANGED <<workspace, tested>>

\* The target raises something its handler does not catch, e.g. an OSError from
\* writing DEV_REPORT.md or a failed database call: the job fails and the
\* status stays as it is.  Losing the process does the same to every job.
Break ==
  /\ MayBreak
  /\ \E S \in SUBSET {t \in Task : pc[t] # "off"} :
       /\ S # {}
       /\ job' = [t \in Task |-> IF t \in S THEN "none" ELSE job[t]]
       /\ pc' = [t \in Task |-> IF t \in S THEN "off" ELSE pc[t]]
  /\ UNCHANGED <<db, file, signed, attempt, workspace, remote, tested, prs>>

TargetStep(t) ==
  \/ PassCheckpoint(t) \/ CheckClean(t) \/ MakeBranch(t)
  \/ ApplyCheck(t) \/ ApplyPatch(t) \/ CheckChanged(t) \/ RunTests(t)
  \/ Commit(t) \/ Push(t) \/ CreatePr(t)
  \/ RecordSuccess(t) \/ RecordFailure(t) \/ EndJob(t)

OwnerStep(t) ==
  \/ Approve(t) \/ Rework(t) \/ ReworkRunEnds(t) \/ ConfirmMerge(t)
  \/ ReplacePatch(t) \/ StartExecution(t) \/ StopExecution(t)

Next == (\E t \in Task : OwnerStep(t) \/ TargetStep(t)) \/ Break

\* Every command of the loop has a timeout, so the target always goes on.
\* The owner is under no obligation to do anything.
Spec     == Init /\ [][Next]_vars
FairSpec == Spec /\ \A t \in Task : WF_vars(TargetStep(t))

-----------------------------------------------------------------------------
(* Properties.                                                             *)

\* Type correctness.
TypeOK ==
  /\ status \in [Task -> Status]
  /\ approved \in [Task -> BOOLEAN] /\ prUrl \in [Task -> BOOLEAN]
  /\ file \in [Task -> Content] /\ signed \in [Task -> SUBSET Content]
  /\ job \in [Task -> {"none", "running", "stopping"}]
  /\ pc \in [Task -> Pc] /\ attempt \in [Task -> 0 .. Attempts]
  /\ cur \in Branch \cup {Main}
  /\ refs \in [Branch \cup {Main} -> Tree] /\ dirty \in Tree
  /\ DOMAIN remote \subseteq Branch /\ \A b \in DOMAIN remote : remote[b] \in Tree
  /\ tested \in [Task -> Tree] /\ prs \subseteq PullRequest

\* Every pull request carries patches the owner of its mission has approved and
\* the report, nothing else: "Owner approval binds the repository, base SHA and
\* patch SHA256. Changed inputs require fresh approval."
PrIsSignedPatch == \A p \in prs : p.content \ {Report} \subseteq signed[p.by]

\* The content of every pull request is what the last green test run of its
\* mission saw: "Execution must run tests before committing and creating a PR."
PrIsTested == \A p \in prs : p.green

\* However often a mission fails, is stopped or reworked, it opens one pull
\* request for one patch: a retry never duplicates a PR whose address was lost.
OnePrPerMission == \A p, q \in prs : p.by = q.by => p = q

\* A mission waits for a merge only if its pull request was opened.
MergeWaitHasPr ==
  \A t \in Task : status[t] = "APPROVED_WAIT_MERGE" => \E p \in prs : p.by = t

\* EXECUTING is shown exactly while a target works on the mission, so no owner
\* decision and no other run gets between the start and the recorded result.
ExecutingHasTarget ==
  \A t \in Task : status[t] = "EXECUTING" <=> pc[t] \notin {"off", "end"}

\* A stop the target can see before the commit keeps it from committing,
\* pushing and opening a pull request.
StopBeforeCommit ==
  [][\A t \in Task :
       job[t] = "stopping" /\ pc[t] \notin {"commit", "push", "pr"}
         => pc'[t] \notin {"commit", "push", "pr"}]_vars

\* Every execution ends in a status the owner can act on, whatever fails and
\* whenever it is stopped.
ExecutionSettles ==
  \A t \in Task : status[t] = "EXECUTING" ~>
    job[t] = "none" /\ status[t] \in {"EXECUTION_READY", "EXECUTION_FAILED",
                                      "APPROVED_WAIT_MERGE"}
=============================================================================
