-------------------------- MODULE MissionLifecycle --------------------------
(***************************************************************************)
(* One mission and everything that writes its status: the orchestration    *)
(* run of app/orchestrator/sync_run.py, and the owner's decisions of       *)
(* app/dashboard/api and app/bot/handlers.py, with the Decision and        *)
(* Approval rows they leave (app/storage/repositories.py).                 *)
(*                                                                         *)
(* Three actors work on the mission: the event loop of the dashboard       *)
(* process ("office"), the background thread that process may run          *)
(* ("thread"), and the event loop of the Telegram process ("bot").  A loop *)
(* does one handler at a time, and a run it makes itself blocks it; the    *)
(* three interleave, one database commit or query a step.  The owner may   *)
(* also use the console (app/dashboard/app.py), whose pages resume and     *)
(* cancel a mission in any status.  A mission is not exploratory, and the  *)
(* execution layer has a module of its own.                                *)
(***************************************************************************)
EXTENDS Naturals, Sequences, FiniteSets

CONSTANTS
  MaxDecisions,  \* bound on the decisions the owner makes
  MaxRuns,       \* bound on the runs started
  OnApproves,    \* statuses resolve_status_after_approve may answer
  SyncRuns,      \* TRUE: runs made inside a dashboard request are used as well
  Telegram,      \* TRUE: the owner uses the bot as well
  Console        \* TRUE: and the console

ASSUME LifecycleAssumption ==
  /\ MaxDecisions \in Nat /\ MaxRuns \in Nat
  /\ OnApproves \subseteq {"DONE", "EXECUTION_READY", "APPROVED_WAIT_MERGE"}
  /\ SyncRuns \in BOOLEAN /\ Telegram \in BOOLEAN /\ Console \in BOOLEAN

VARIABLES
  status,      \* Task.status
  onApprove,   \* what it answers for this mission: a PR, a request, neither
  decisions,   \* Decision rows: the codes, oldest first
  approvals,   \* Approval rows, oldest first
  handler,     \* the decision each loop is handling
  run,         \* where each actor's orchestration run is
  runs,        \* runs started so far
  stopAsked,   \* the background run's Event is set
  bare,        \* the last background run was the console's, which has no handlers
  seen,        \* Task.status as the background run's session last loaded it
  botQueue     \* runs the bot has created as tasks and not begun

rows == <<decisions, approvals>>
vars == <<status, onApprove, rows, handler, run, runs, stopAsked, bare, seen, botQueue>>

Loop   == {"office", "bot"}
Actor  == Loop \cup {"thread"}
Code   == {"a", "r", "c", "m"}

InWork    == {"TRIAGED", "IN_PIPELINE", "IN_ROUNDTABLE", "IN_COURT"}
AfterOk   == {"DONE", "EXECUTION_READY", "APPROVED_WAIT_MERGE"}
Status    == {"NEW", "WAIT_OWNER", "NEED_INFO", "REWORK", "ARCHIVED"} \cup InWork \cup AfterOk
Startable == {"NEW", "REWORK", "NEED_INFO"}
Reworkable == {"WAIT_OWNER", "EXECUTION_READY", "APPROVED_WAIT_MERGE", "DONE",
               "NEED_INFO", "REWORK"}

\* A run: checkpoints (passed at once without a control), then commits.
CheckThen == [triage_check     |-> "triage",
              pipeline_check   |-> "pipeline",
              roundtable_check |-> "roundtable",
              court_check      |-> "court",
              finalize_check   |-> "finalize"]
PhaseStatus == [triage     |-> "TRIAGED",
                pipeline   |-> "IN_PIPELINE",
                roundtable |-> "IN_ROUNDTABLE",
                court      |-> "IN_COURT"]
AfterPhase == [triage     |-> "pipeline_check",
               pipeline   |-> "roundtable_check",
               roundtable |-> "court_check",
               court      |-> "finalize_check"]

Working == {"begin", "finalize", "query", "insert"}
             \cup (DOMAIN CheckThen) \cup (DOMAIN PhaseStatus)
RunPc   == {"off", "end", "handling", "settling"} \cup Working

\* A handler: insert the Decision row, look up the open approval, close it,
\* write the status; "run" while its loop makes a run itself.  The console's
\* handlers have places of their own.
ConsolePc == {"reopen", "resume", "archive"}
HandlerPc == {"idle", "insert", "lookup", "close", "status", "run"} \cup ConsolePc
Handler == [at : HandlerPc, code : Code, inline : BOOLEAN, dec : Nat, row : Nat]
Idle == [at |-> "idle", code |-> "a", inline |-> FALSE, dec |-> 0, row |-> 0]

ApprovalRow == [state : {"REQUESTED", "APPROVED", "REJECTED"}, dec : Nat]
Open(rs) == {i \in DOMAIN rs : rs[i].state = "REQUESTED"}

Init ==
  /\ status = "NEW"
  /\ onApprove \in OnApproves
  /\ decisions = <<>>
  /\ approvals = <<>>
  /\ handler = [p \in Loop |-> Idle]
  /\ run = [a \in Actor |-> "off"]
  /\ runs = 0
  /\ stopAsked = FALSE /\ bare = FALSE
  /\ seen = "none"
  /\ botQueue \in IF Telegram THEN {0, 1} ELSE {0}

-----------------------------------------------------------------------------
(* Starting and stopping runs.                                             *)

BeginRun(a) ==
  /\ runs < MaxRuns
  /\ runs' = runs + 1
  /\ run' = [run EXCEPT ![a] = "begin"]

\* pipeline/start.
OfficeStart ==
  /\ handler["office"].at = "idle"
  /\ status \in Startable
  /\ run["thread"] = "off"
  /\ BeginRun("thread")
  /\ stopAsked' = FALSE /\ bare' = FALSE
  /\ UNCHANGED <<status, onApprove, rows, handler, seen, botQueue>>

\* pipeline/stop.
OfficeStop ==
  /\ handler["office"].at = "idle"
  /\ run["thread"] # "off"
  /\ stopAsked' = TRUE
  /\ UNCHANGED <<status, onApprove, rows, handler, run, runs, bare, seen, botQueue>>

\* pipeline/run: no guard; the request lasts as long as the run.
OfficeRunInline ==
  /\ SyncRuns
  /\ handler["office"].at = "idle"
  /\ BeginRun("office")
  /\ handler' = [handler EXCEPT !["office"].at = "run"]
  /\ UNCHANGED <<status, onApprove, rows, stopAsked, bare, seen, botQueue>>

\* _run_orchestration in the bot, created as a task by an earlier handler.
BotRunBegins ==
  /\ botQueue > 0
  /\ handler["bot"].at = "idle"
  /\ botQueue' = botQueue - 1
  /\ BeginRun("bot")
  /\ handler' = [handler EXCEPT !["bot"].at = "run"]
  /\ UNCHANGED <<status, onApprove, rows, stopAsked, bare, seen>>

-----------------------------------------------------------------------------
(* The owner's decisions.                                                  *)

\* What _build_owner_actions offers in each status.
Offered(code) ==
  CASE code \in {"a", "c"} -> status = "WAIT_OWNER"
    [] code = "r"          -> status \in Reworkable
    [] code = "m"          -> status = "APPROVED_WAIT_MERGE"

TakeDecision(p, code, inline) ==
  /\ handler[p].at = "idle"
  /\ Len(decisions) < MaxDecisions
  /\ handler' = [handler EXCEPT ![p] = [Idle EXCEPT !.at = "insert", !.code = code,
                                                    !.inline = inline]]
  /\ UNCHANGED <<status, onApprove, rows, run, runs, stopAsked, bare, seen, botQueue>>

\* apply_owner_decision, apply_merge_confirmation and rework/start.
OfficeDecides_Busy(code, inline) ==
  /\ Offered(code)
  /\ inline => SyncRuns /\ code = "r"
  /\ TakeDecision("office", code, inline)

OfficeDecides(code, inline) ==
  /\ Offered(code)
  /\ run["thread"] = "off"
  /\ inline => SyncRuns /\ code = "r"
  /\ TakeDecision("office", code, inline)

\* handle_owner_callback: a button of an old message works in any status.
BotDecides(code) ==
  /\ Telegram
  /\ TakeDecision("bot", code, FALSE)

\* add_decision, first commit.
InsertDecision(p) ==
  /\ handler[p].at = "insert"
  /\ decisions' = Append(decisions, handler[p].code)
  /\ handler' = [handler EXCEPT ![p] = [@ EXCEPT !.at = "lookup", !.dec = Len(decisions) + 1]]
  /\ UNCHANGED <<status, onApprove, approvals, run, runs, stopAsked, bare, seen, botQueue>>

\* get_open_pending_approval: the newest REQUESTED row, 0 without one.
LookupApproval(p) ==
  /\ handler[p].at = "lookup"
  /\ \E i \in {0} \cup Open(approvals) :
       /\ \A j \in Open(approvals) : j <= i
       /\ handler' = [handler EXCEPT ![p] = [@ EXCEPT !.at = "close", !.row = i]]
  /\ UNCHANGED <<status, onApprove, rows, run, runs, stopAsked, bare, seen, botQueue>>

Verdict(p) ==
  [state |-> IF handler[p].code \in {"a", "m"} THEN "APPROVED" ELSE "REJECTED",
   dec   |-> handler[p].dec]

\* Altered forms end in the name of the bug they carry; no action uses them.
CloseApproval_StateOnly(p) ==
  /\ handler[p].at = "close"
  /\ approvals' = IF handler[p].row # 0
                    THEN [approvals EXCEPT ![handler[p].row].state = Verdict(p).state]
                    ELSE Append(approvals, Verdict(p))
  /\ handler' = [handler EXCEPT ![p].at = "status"]
  /\ UNCHANGED <<status, onApprove, decisions, run, runs, stopAsked, bare, seen, botQueue>>

\* add_decision, second commit: close the row that was found; an approval
\* without one gets a row of its own, a refusal without one leaves none.
CloseApproval(p) ==
  /\ handler[p].at = "close"
  /\ approvals' = CASE handler[p].row # 0 ->
                         [approvals EXCEPT ![handler[p].row] = Verdict(p)]
                    [] handler[p].row = 0 /\ handler[p].code \in {"a", "m"} ->
                         Append(approvals, Verdict(p))
                    [] OTHER -> approvals
  /\ handler' = [handler EXCEPT ![p].at = "status"]
  /\ UNCHANGED <<status, onApprove, decisions, run, runs, stopAsked, bare, seen, botQueue>>

StatusAfter_Approved(code) ==
  CASE code = "a" -> IF onApprove = "DONE" THEN "APPROVED" ELSE onApprove
    [] code = "r" -> "REWORK"
    [] code = "c" -> "NEED_INFO"
    [] code = "m" -> "DONE"

StatusAfter(code) ==
  CASE code = "a" -> onApprove
    [] code = "r" -> "REWORK"
    [] code = "c" -> "NEED_INFO"
    [] code = "m" -> "DONE"

\* The status commit, and the run a rework is followed by: in the background,
\* inside the request, or as a task of the bot.
WriteDecision(p) ==
  /\ handler[p].at = "status"
  /\ status' = StatusAfter(handler[p].code)
  /\ LET rework == handler[p].code = "r" /\ runs < MaxRuns IN
     \/ /\ rework /\ p = "office" /\ ~handler[p].inline
        /\ BeginRun("thread")
        /\ stopAsked' = FALSE /\ bare' = FALSE
        /\ handler' = [handler EXCEPT ![p] = Idle]
        /\ UNCHANGED botQueue
     \/ /\ rework /\ p = "office" /\ handler[p].inline
        /\ BeginRun("office")
        /\ handler' = [handler EXCEPT ![p] = [Idle EXCEPT !.at = "run"]]
        /\ UNCHANGED <<stopAsked, bare, botQueue>>
     \/ /\ rework /\ p = "bot"
        /\ botQueue' = botQueue + 1
        /\ handler' = [handler EXCEPT ![p] = Idle]
        /\ UNCHANGED <<run, runs, stopAsked, bare>>
     \/ /\ ~rework
        /\ handler' = [handler EXCEPT ![p] = Idle]
        /\ UNCHANGED <<run, runs, stopAsked, bare, botQueue>>
  /\ UNCHANGED <<onApprove, rows, seen>>

-----------------------------------------------------------------------------
(* The console.  It looks at the mission's status only to reopen it.       *)

ConsoleAt(at) == handler' = [handler EXCEPT !["office"] = [Idle EXCEPT !.at = at]]

\* /resume, up to its first commit.
ConsoleResume ==
  /\ Console
  /\ handler["office"].at = "idle"
  /\ runs < MaxRuns
  /\ ConsoleAt(IF status \in Startable \ {"REWORK"} THEN "reopen" ELSE "resume")
  /\ UNCHANGED <<status, onApprove, rows, run, runs, stopAsked, bare, seen, botQueue>>

Reopen ==
  /\ handler["office"].at = "reopen"
  /\ status' = "REWORK"
  /\ ConsoleAt("resume")
  /\ UNCHANGED <<onApprove, rows, run, runs, stopAsked, bare, seen, botQueue>>

\* The manager refuses a second run; there is no other guard.
ResumeRun ==
  /\ handler["office"].at = "resume"
  /\ ConsoleAt("idle")
  /\ IF run["thread"] = "off" /\ runs < MaxRuns
       THEN BeginRun("thread") /\ stopAsked' = FALSE /\ bare' = TRUE
       ELSE UNCHANGED <<run, runs, stopAsked, bare>>
  /\ UNCHANGED <<status, onApprove, rows, seen, botQueue>>

\* /cancel: stop the run there is, then archive the mission.
ConsoleCancel ==
  /\ Console
  /\ handler["office"].at = "idle"
  /\ stopAsked' = (stopAsked \/ run["thread"] # "off")
  /\ ConsoleAt("archive")
  /\ UNCHANGED <<status, onApprove, rows, run, runs, bare, seen, botQueue>>

Archive ==
  /\ handler["office"].at = "archive"
  /\ status' = "ARCHIVED"
  /\ ConsoleAt("idle")
  /\ UNCHANGED <<onApprove, rows, run, runs, stopAsked, bare, seen, botQueue>>

-----------------------------------------------------------------------------
(* run_sync_orchestration, for any actor.                                  *)

MoveRun(a, next) == run' = [run EXCEPT ![a] = next]
KeepLoops == UNCHANGED <<onApprove, decisions, handler, runs, stopAsked, bare, botQueue>>

\* Every read and every commit of the status loads it again.
Load(a, value) == seen' = IF a = "thread" THEN value ELSE seen

\* A mission that is ready for execution is left alone.
ReadStatus(a) ==
  /\ run[a] = "begin"
  /\ MoveRun(a, IF status = "EXECUTION_READY" THEN "end" ELSE "triage_check")
  /\ Load(a, status)
  /\ KeepLoops /\ UNCHANGED <<status, approvals>>

PassCheck(a) ==
  /\ run[a] \in DOMAIN CheckThen
  /\ MoveRun(a, CASE a = "thread" /\ stopAsked /\ ~bare -> "handling"
                  [] a = "thread" /\ stopAsked /\ bare  -> "end"
                  [] OTHER -> CheckThen[run[a]])
  /\ KeepLoops /\ UNCHANGED <<status, approvals, seen>>

EnterPhase(a) ==
  /\ run[a] \in DOMAIN PhaseStatus
  /\ status' = PhaseStatus[run[a]]
  /\ MoveRun(a, AfterPhase[run[a]])
  /\ Load(a, status')
  /\ KeepLoops /\ UNCHANGED approvals

\* Risks, gates and owner rules decide whether the owner is asked.
Finalize(a) ==
  /\ run[a] = "finalize"
  /\ \/ /\ status' = "WAIT_OWNER"
        /\ MoveRun(a, "query")
     \/ /\ status' = "DONE"
        /\ MoveRun(a, "end")
  /\ Load(a, status')
  /\ KeepLoops /\ UNCHANGED approvals

QueryApproval_Skipped(a) ==
  /\ run[a] = "query"
  /\ MoveRun(a, "insert")
  /\ KeepLoops /\ UNCHANGED <<status, approvals, seen>>

QueryApproval_AnyState(a) ==
  /\ run[a] = "query"
  /\ MoveRun(a, IF approvals = <<>> THEN "insert" ELSE "end")
  /\ KeepLoops /\ UNCHANGED <<status, approvals, seen>>

\* ensure_pending_owner_approval: a query, then the insert.
QueryApproval(a) ==
  /\ run[a] = "query"
  /\ MoveRun(a, IF Open(approvals) = {} THEN "insert" ELSE "end")
  /\ KeepLoops /\ UNCHANGED <<status, approvals, seen>>

InsertApproval(a) ==
  /\ run[a] = "insert"
  /\ approvals' = Append(approvals, [state |-> "REQUESTED", dec |-> 0])
  /\ MoveRun(a, "end")
  /\ KeepLoops /\ UNCHANGED <<status, seen>>

Raise_NoHandler(a) ==
  /\ run[a] \in Working
  /\ MoveRun(a, "end")
  /\ KeepLoops /\ UNCHANGED <<status, approvals, seen>>

\* An agent or a file operation fails, after the last commit too: the background
\* target has a handler for it; a loop only answers with the error, and the
\* thread of the console's run ends.
Raise(a) ==
  /\ run[a] \in Working \cup {"end"}
  /\ IF a = "thread" /\ ~bare THEN MoveRun(a, "handling")
     ELSE run[a] # "end" /\ MoveRun(a, "end")
  /\ KeepLoops /\ UNCHANGED <<status, approvals, seen>>

\* Both handlers of the background target read the mission before they write:
\* the database's status, or the one their session still holds.
ReadToSettle ==
  /\ run["thread"] = "handling"
  /\ seen' \in {status} \cup ({seen} \ {"none"})
  /\ MoveRun("thread", "settling")
  /\ KeepLoops /\ UNCHANGED <<status, approvals>>

Settle_Always ==
  /\ run["thread"] = "settling"
  /\ status' = "REWORK"
  /\ MoveRun("thread", "off")
  /\ seen' = "none"
  /\ KeepLoops /\ UNCHANGED approvals

\* REWORK, unless the mission was done or archived.  The session writes a column only when
\* its value differs from the one it loaded.
Settle ==
  /\ run["thread"] = "settling"
  /\ status' = IF seen \in {"DONE", "ARCHIVED", "REWORK"} THEN status ELSE "REWORK"
  /\ MoveRun("thread", "off")
  /\ seen' = "none"
  /\ KeepLoops /\ UNCHANGED approvals

EndRun(a) ==
  /\ run[a] = "end"
  /\ MoveRun(a, "off")
  /\ handler' = [p \in Loop |-> IF p = a THEN Idle ELSE handler[p]]
  /\ Load(a, "none")
  /\ UNCHANGED <<status, onApprove, rows, runs, stopAsked, bare, botQueue>>

HandlerStep(p) ==
  \/ InsertDecision(p) \/ LookupApproval(p) \/ CloseApproval(p) \/ WriteDecision(p)

RunStep(a) ==
  \/ ReadStatus(a) \/ PassCheck(a) \/ EnterPhase(a) \/ Finalize(a)
  \/ QueryApproval(a) \/ InsertApproval(a) \/ Raise(a) \/ EndRun(a)

LoopStep ==
  \/ OfficeStart \/ OfficeStop \/ OfficeRunInline \/ BotRunBegins
  \/ \E code \in Code : BotDecides(code)
  \/ \E code \in Code, inline \in BOOLEAN : OfficeDecides(code, inline)

ConsoleRest == Reopen \/ ResumeRun \/ Archive
ConsoleStep == ConsoleResume \/ ConsoleCancel \/ ConsoleRest

Next ==
  \/ LoopStep
  \/ ConsoleStep
  \/ \E p \in Loop : HandlerStep(p)
  \/ \E a \in Actor : RunStep(a)
  \/ ReadToSettle \/ Settle

\* Loops and threads are scheduled and every call of a run has a timeout.
Fairness ==
  /\ \A p \in Loop : WF_vars(HandlerStep(p))
  /\ \A a \in Actor : WF_vars(RunStep(a))
  /\ WF_vars(ReadToSettle \/ Settle)
  /\ WF_vars(ConsoleRest)

Spec     == Init /\ [][Next]_vars
FairSpec == Spec /\ Fairness
-----------------------------------------------------------------------------
(* Properties.                                                             *)

\* Type correctness.
TypeOK ==
  /\ status \in Status /\ seen \in Status \cup {"none"} /\ onApprove \in AfterOk
  /\ decisions \in Seq(Code)
  /\ approvals \in Seq(ApprovalRow)
  /\ handler \in [Loop -> Handler]
  /\ run \in [Actor -> RunPc]
  /\ runs \in 0 .. MaxRuns /\ botQueue \in Nat
  /\ stopAsked \in BOOLEAN /\ bare \in BOOLEAN

Deciding(p) == handler[p].at \in {"insert", "lookup", "close", "status"}
Quiet == \A p \in Loop : handler[p].at = "idle" /\ \A a \in Actor : run[a] = "off"

\* No owner decision is being recorded while a background run works on the
\* mission: "Пока AI-Team выполняет задачу, owner-решения недоступны".
DecisionsWaitForRun == \A p \in Loop : Deciding(p) => run["thread"] = "off"

\* The owner is never asked twice at once: "Идемпотентно: повторный вызов не
\* создаёт дубликат REQUESTED".
OneOpenApproval == Cardinality(Open(approvals)) <= 1

\* When nothing is in progress, a mission that waits for the owner has a row
\* that asks him, unless the last run was the console's, whose failure nobody
\* handles.  (Not the converse: a run that fails after it asked leaves the row
\* open under REWORK.)
WaitOwnerHasApproval ==
  Quiet /\ ~bare /\ status = "WAIT_OWNER" => Open(approvals) # {}

\* Every approval the owner gave has an Approval row naming it once the handler
\* is done: none is lost because two handlers closed the same row.
ApprovalsRecorded ==
  Quiet => \A d \in DOMAIN decisions : decisions[d] \in {"a", "m"} =>
    \E i \in DOMAIN approvals : approvals[i] = [state |-> "APPROVED", dec |-> d]

\* A closed row names a decision, and that decision says what the row says,
\* whichever handlers close it and in whatever order.
RowMatchesDecision ==
  \A i \in DOMAIN approvals :
    \/ approvals[i].state = "REQUESTED"
    \/ /\ approvals[i].dec \in DOMAIN decisions
       /\ approvals[i].state = IF decisions[approvals[i].dec] \in {"a", "m"}
                                 THEN "APPROVED" ELSE "REJECTED"

\* A background run that is stopped or fails after it closed the mission does
\* not reopen it, and a mission archived while no run works on it stays so until
\* the console resumes it: "Операционные действия больше не нужны".
ClosedMissionStays ==
  [][/\ status = "DONE" => ~(run["thread"] = "settling" /\ run'["thread"] = "off")
     /\ status = "ARCHIVED" => run["thread"] # "off"]_status

\* Whatever is stopped or fails, a mission in work comes to a status the owner
\* can act on, unless the console has taken the run over.
MissionSettles == status \in InWork /\ ~bare ~> status \notin InWork \/ bare
=============================================================================
