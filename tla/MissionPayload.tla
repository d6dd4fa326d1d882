----------------------------- MODULE MissionPayload -----------------------------
(***************************************************************************)
(* The content of one mission: Task.business_action_json, the columns the  *)
(* triage fills, the documents of its runs and the knowledge it published. *)
(*                                                                         *)
(* Everyone who changes business_action_json reads it whole, changes a key *)
(* and writes it whole (TaskRepository.update_task), and there is no lock: *)
(* the background run of the office, the event loop of the office with its *)
(* inline runs, and the bot interleave between the read and the write.     *)
(* MissionLifecycle has the statuses and the approvals in full; here are   *)
(* those the content depends on.                                           *)
(***************************************************************************)
EXTENDS Routing, Sequences

CONSTANTS
  MissionTexts,   \* the texts a mission may begin with
  Additions,      \* what an attached intake draft may add to the text
  Answers,        \* usable answers of the agents: [domain, type, crit, mode]
  Options,        \* scenario ids build_default_scenarios makes
  OwnerRules,     \* keys of the owner's stored rules
  DefaultTier,    \* llm_tier_default of the configuration
  Engine,         \* orchestration engine: "crewai", "auto" or "rules"
  AllowFallback,  \* the rules may replace an answer the agents do not give
  Setup,          \* the endpoints and keys configured
  OwnerOps,       \* the operations the owner uses, of Kinds
  Overlap,        \* FALSE, a bound: no run begins beside another
  MaxRuns,        \* bound on the runs started
  MaxOps,         \* bound on the owner's operations
  Nil

Kinds == {"select", "tier", "draft", "publish", "reject", "view", "done",
          "lead", "approve"}

ASSUME PayloadAssumption ==
  /\ MissionTexts \cup Additions \subseteq Texts
  /\ Answers # {} /\ \A ans \in Answers : ans.crit \in 0 .. 3
  /\ DefaultTier \in {"local", "cloud"} /\ AllowFallback \in BOOLEAN /\ Overlap \in BOOLEAN
  /\ OwnerOps \subseteq Kinds
  /\ MaxRuns \in Nat /\ MaxOps \in Nat
  /\ Nil \notin Options

VARIABLES
  text,       \* Task.owner_text
  status,     \* Task.status
  columns,    \* Task.domain .. plan_or_execute: Nil or [route, crit, mode]
  payload,    \* Task.business_action_json
  pc,         \* where each writer is
  work,       \* what it holds: operation, triage, number of its run
  seen,       \* the payload it read and has not written back yet
  fresh,      \* nobody has written the payload since it read what it acts on
  queue,      \* runs the bot has created as tasks and not begun
  files,      \* who wrote step files, report and verdict last: run numbers
  judgement,  \* what the report says of the task
  knowledge,  \* entries of the knowledge base, one element for each
  runs, ops,  \* so far
  lastTriaged,\* the run that filled the columns last
  owed,       \* history: what the owner chose last
  overtaken,  \* history: somebody wrote what he had read before a write
  mixed       \* history: two runs at once, or a text changed under a run

task    == <<text, status, columns, payload>>
writers == <<pc, work, seen, fresh, queue>>
output  == <<files, judgement, knowledge>>
history == <<lastTriaged, owed, overtaken, mixed>>
vars    == <<task, writers, output, runs, ops, history>>

Writer   == {"office", "desk", "bot"}   \* background run; the two event loops
Steps    == {"first", "second"}
Document == Steps \cup {"report", "verdict"}

RunPc == {"tier", "check", "triage", "gm", "meta", "resync", "columns", "bundle",
          "choose", "wait", "exec", "ready", "pipeline", "step1", "step2", "roundtable",
          "court", "report", "verdict", "pack", "action", "final"}
OpPc  == {"read", "write", "again", "approved", "begin"}
Pc    == {"idle"} \cup RunPc \cup OpPc

\* Where the next thing a writer does needs the payload.
Reading == {"again", "gm", "meta", "bundle", "exec", "ready", "pack", "action"}

Payloads == [tier : {"none", "local", "cloud"}, revenue : BOOLEAN,
             meta : {Nil} \cup Triages, options : BOOLEAN,
             chosen : {Nil} \cup Options, exec : {Nil} \cup Options, ready : BOOLEAN,
             pack : {"none", "business", "outreach"},
             action : {"none", "pending", "done"}, leads : 0 .. MaxOps,
             draft : {Nil} \cup (1 .. MaxOps), draftState : {"none", "pending", "published", "rejected"}]

ASSUME NilAssumption == Nil \notin Payloads

EmptyPayload == [tier |-> "none", revenue |-> FALSE, meta |-> Nil, options |-> FALSE,
                 chosen |-> Nil, exec |-> Nil, ready |-> FALSE, pack |-> "none",
                 action |-> "none", leads |-> 0, draft |-> Nil, draftState |-> "none"]

NothingOwed == [chosen |-> Nil, tier |-> "none", draftState |-> "none", leads |-> 0]

NoWork == [kind |-> "none", arg |-> Nil, tri |-> Nil, run |-> 0]

Startable == {"NEW", "REWORK", "NEED_INFO"}
InWork    == {"TRIAGED", "IN_PIPELINE", "IN_ROUNDTABLE", "IN_COURT"}
Statuses  == Startable \cup InWork \cup {"WAIT_OWNER", "EXECUTION_READY", "DONE"}

RunActive(p) == pc[p] \in RunPc

Init ==
  /\ text \in MissionTexts
  /\ status = "NEW" /\ columns = Nil
  /\ payload = EmptyPayload
  /\ pc = [p \in Writer |-> "idle"]
  /\ work = [p \in Writer |-> NoWork]
  /\ seen = [p \in Writer |-> Nil]
  /\ fresh = [p \in Writer |-> TRUE]
  /\ queue = 0
  /\ files = [d \in Document |-> 0]
  /\ judgement = Nil
  /\ knowledge = <<>>
  /\ runs = 0 /\ ops = 0 /\ lastTriaged = 0
  /\ owed = NothingOwed
  /\ overtaken = FALSE /\ mixed = FALSE

-----------------------------------------------------------------------------
(* Reading and writing the payload.                                        *)

Goto(p, next) == pc' = [pc EXCEPT ![p] = next]

\* On with a run or a handler, or back to the loop.
Move(p, next) ==
  /\ Goto(p, next)
  /\ work' = IF next = "idle" THEN [work EXCEPT ![p] = NoWork] ELSE work

Hold(p) == seen' = [seen EXCEPT ![p] = payload]

\* get_task.  A run that declares a mission ready still acts on the choice it
\* read when it prepared the execution.
Load(p) ==
  /\ pc[p] \in Reading /\ seen[p] = Nil
  /\ Hold(p)
  /\ UNCHANGED <<task, pc, work, fresh, queue, output, runs, ops, history>>

\* update_task(business_action_json = b): the whole value, whatever is there.
Save(p, b) ==
  LET Behind(q) == q # p /\ (seen[q] # Nil \/ pc[q] = "ready")
  IN  /\ payload' = b
      /\ seen' = [seen EXCEPT ![p] = Nil]
      /\ fresh' = [q \in Writer |-> q = p \/ (fresh[q] /\ ~Behind(q))]
      /\ overtaken' = (overtaken \/ ~fresh[p])

\* The writer had nothing to write after all.
Discard(p) ==
  /\ seen' = [seen EXCEPT ![p] = Nil]
  /\ fresh' = [fresh EXCEPT ![p] = pc[p] = "exec" => @]
  /\ UNCHANGED <<payload, overtaken>>

Keep == UNCHANGED <<seen, fresh, payload, overtaken>>
KeepDocuments == UNCHANGED <<files, judgement>>

-----------------------------------------------------------------------------
(* The run: tier, early returns, triage.                                   *)

RunStep == UNCHANGED <<text, knowledge, runs, ops, queue, owed, mixed>>

BeginRun(p) ==
  /\ runs < MaxRuns
  /\ Overlap \/ \A q \in Writer : ~RunActive(q)
  /\ runs' = runs + 1
  /\ Goto(p, "tier")
  /\ work' = [work EXCEPT ![p] = [NoWork EXCEPT !.run = runs + 1]]
  /\ Hold(p)
  /\ mixed' = (mixed \/ \E q \in Writer \ {p} : RunActive(q))

\* The tier is stored when it was not: what was a default is then a choice.
StoreTier(p) ==
  /\ pc[p] = "tier"
  /\ LET tier == ResolveTier(seen[p].tier, text, DefaultTier)
     IN  IF seen[p].tier = tier THEN Discard(p)
         ELSE Save(p, [seen[p] EXCEPT !.tier = tier])
  /\ Move(p, "check")
  /\ RunStep /\ KeepDocuments /\ UNCHANGED <<status, columns, lastTriaged>>

WaitsForChoice == status = "WAIT_OWNER" /\ payload.options /\ payload.chosen = Nil

\* A mission ready for execution, or waiting for a scenario, is not run again.
CheckRepeat(p) ==
  /\ pc[p] = "check"
  /\ Move(p, IF status = "EXECUTION_READY" \/ WaitsForChoice THEN "idle" ELSE "triage")
  /\ RunStep /\ Keep /\ KeepDocuments /\ UNCHANGED <<status, columns, lastTriaged>>

ColumnsOf(tri) == [route |-> tri.route, crit |-> tri.crit, mode |-> tri.mode]

Triage(p) ==
  /\ pc[p] = "triage"
  /\ \E ans \in AgentAnswers(Answers, Engine, AllowFallback, Setup) :
       LET tri == RunTriage(text, ans)
       IN  /\ work' = [work EXCEPT ![p].tri = tri]
           /\ columns' = ColumnsOf(tri)
  /\ status' = "TRIAGED"
  /\ lastTriaged' = work[p].run
  /\ Goto(p, IF work'[p].tri.revenue THEN "gm" ELSE "meta")
  /\ RunStep /\ Keep /\ KeepDocuments

\* _apply_revenue_gm_after_triage: the commercial workstream and its next step.
MarkRevenue(p) ==
  /\ pc[p] = "gm" /\ seen[p] # Nil
  /\ Save(p, [seen[p] EXCEPT !.revenue = TRUE])
  /\ Move(p, "meta")
  /\ RunStep /\ KeepDocuments /\ UNCHANGED <<status, columns, lastTriaged>>

\* persist_triage_snapshot.
StoreTriage(p) ==
  /\ pc[p] = "meta" /\ seen[p] # Nil
  /\ Save(p, [seen[p] EXCEPT !.meta = work[p].tri])
  /\ Move(p, "resync")
  /\ RunStep /\ KeepDocuments /\ UNCHANGED <<status, columns, lastTriaged>>

\* resync_triage_dict_from_store.
ResyncTriage(p) ==
  /\ pc[p] = "resync"
  /\ work' = [work EXCEPT ![p].tri =
                IF payload.meta = Nil THEN @ ELSE Resync(payload.meta, @, text)]
  /\ Goto(p, "columns")
  /\ RunStep /\ Keep /\ KeepDocuments /\ UNCHANGED <<status, columns, lastTriaged>>

FillColumns(p) ==
  /\ pc[p] = "columns"
  /\ columns' = ColumnsOf(work[p].tri)
  /\ Move(p, IF work[p].tri.explore \/ Explores(text) THEN "bundle" ELSE "pipeline")
  /\ RunStep /\ Keep /\ KeepDocuments /\ UNCHANGED <<status, lastTriaged>>

-----------------------------------------------------------------------------
(* The run of an exploration: scenarios, the owner's choice, execution.    *)

EnsureBundle_Rebuilds(p) ==
  /\ pc[p] = "bundle" /\ seen[p] # Nil
  /\ Save(p, [seen[p] EXCEPT !.options = TRUE, !.chosen = Nil])
  /\ Move(p, "choose")
  /\ RunStep /\ KeepDocuments /\ UNCHANGED <<status, columns, lastTriaged>>

\* _ensure_exploration_bundle: scenarios that exist, and the choice, stay.
EnsureBundle(p) ==
  /\ pc[p] = "bundle" /\ seen[p] # Nil
  /\ Save(p, [seen[p] EXCEPT !.options = TRUE])
  /\ Move(p, "choose")
  /\ RunStep /\ KeepDocuments /\ UNCHANGED <<status, columns, lastTriaged>>

LookForChoice(p) ==
  /\ pc[p] = "choose"
  /\ Move(p, IF payload.chosen = Nil THEN "wait" ELSE "exec")
  /\ RunStep /\ Keep /\ KeepDocuments /\ UNCHANGED <<status, columns, lastTriaged>>

\* The owner is asked by the message and by the status; there is no Approval row.
WaitForOwner(p) ==
  /\ pc[p] = "wait"
  /\ status' = "WAIT_OWNER"
  /\ Move(p, "idle")
  /\ RunStep /\ Keep /\ KeepDocuments /\ UNCHANGED <<columns, lastTriaged>>

\* _run_execution_from_scenario; an id that is no option leaves things as they are.
PrepareExecution_Once(p) ==
  /\ pc[p] = "exec" /\ seen[p] # Nil
  /\ IF seen[p].chosen \in Options /\ seen[p].exec = Nil
       THEN Save(p, [seen[p] EXCEPT !.exec = seen[p].chosen, !.ready = TRUE])
       ELSE Discard(p)
  /\ Move(p, "ready")
  /\ RunStep /\ KeepDocuments /\ UNCHANGED <<status, columns, lastTriaged>>

PrepareExecution(p) ==
  /\ pc[p] = "exec" /\ seen[p] # Nil
  /\ IF seen[p].options /\ seen[p].chosen \in Options
       THEN Save(p, [seen[p] EXCEPT !.exec = seen[p].chosen, !.ready = TRUE])
       ELSE Discard(p)
  /\ Move(p, "ready")
  /\ RunStep /\ KeepDocuments /\ UNCHANGED <<status, columns, lastTriaged>>

\* The payload is read again, and whatever execution it holds is declared ready.
DeclareReady(p) ==
  /\ pc[p] = "ready" /\ seen[p] # Nil
  /\ IF seen[p].exec = Nil
       THEN Discard(p) /\ status' = "WAIT_OWNER"
       ELSE Save(p, [seen[p] EXCEPT !.ready = TRUE]) /\ status' = "EXECUTION_READY"
  /\ Move(p, "idle")
  /\ RunStep /\ KeepDocuments /\ UNCHANGED <<columns, lastTriaged>>

-----------------------------------------------------------------------------
(* The run of any other mission: pipeline, roundtable, court, pack, end.   *)

Pipeline == [pipeline |-> "step1", step1 |-> "step2", step2 |-> "roundtable"]
StepOf   == [step1 |-> "first", step2 |-> "second"]

EnterPipeline(p) ==
  /\ pc[p] = "pipeline"
  /\ status' = "IN_PIPELINE"
  /\ Move(p, "step1")
  /\ RunStep /\ Keep /\ KeepDocuments /\ UNCHANGED <<columns, lastTriaged>>

\* The file of a step has the number of the step in its name, not of the run.
WriteStep(p) ==
  /\ pc[p] \in DOMAIN StepOf
  /\ files' = [files EXCEPT ![StepOf[pc[p]]] = work[p].run]
  /\ Move(p, Pipeline[pc[p]])
  /\ RunStep /\ Keep /\ UNCHANGED <<status, columns, judgement, lastTriaged>>

Roundtable(p) ==
  /\ pc[p] = "roundtable"
  /\ status' = "IN_ROUNDTABLE"
  /\ Move(p, "court")
  /\ RunStep /\ Keep /\ KeepDocuments /\ UNCHANGED <<columns, lastTriaged>>

RisksOf(p) == RiskTable(work[p].tri, Cardinality(Steps))

EnterCourt(p) ==
  /\ pc[p] = "court"
  /\ status' = "IN_COURT"
  /\ Move(p, "report")
  /\ RunStep /\ Keep /\ KeepDocuments /\ UNCHANGED <<columns, lastTriaged>>

\* run_court: the task as it is now, the stored triage before the run's own;
\* the risk table is the one the roundtable made.
WriteReport(p) ==
  /\ pc[p] = "report"
  /\ LET tri == IF payload.meta = Nil THEN work[p].tri
                ELSE CanonicalForCourt(payload.meta, work[p].tri, text)
     IN  judgement' = [columns |-> ColumnsOf(tri), owner |-> OwnerInTable(RisksOf(p))]
  /\ files' = [files EXCEPT !["report"] = work[p].run]
  /\ Move(p, "verdict")
  /\ RunStep /\ Keep /\ UNCHANGED <<status, columns, lastTriaged>>

WriteVerdict(p) ==
  /\ pc[p] = "verdict"
  /\ files' = [files EXCEPT !["verdict"] = work[p].run]
  /\ Move(p, "pack")
  /\ RunStep /\ Keep /\ UNCHANGED <<status, columns, judgement, lastTriaged>>

\* A pack is built when the GM left a next step; it replaces the one there was.
BuildPack(p) ==
  /\ pc[p] = "pack" /\ seen[p] # Nil
  /\ IF seen[p].revenue THEN Save(p, [seen[p] EXCEPT !.pack = "business"]) ELSE Discard(p)
  /\ Move(p, "action")
  /\ RunStep /\ KeepDocuments /\ UNCHANGED <<status, columns, lastTriaged>>

HasPack(b) == b.pack # "none" \/ b.revenue

\* ensure_action_instance_blob: a pack there is stays, an action there is too.
Ensured(b) == [b EXCEPT !.pack = IF @ = "none" THEN "business" ELSE @,
                        !.action = IF @ = "none" THEN "pending" ELSE @]

EnsureAction(p) ==
  /\ pc[p] = "action" /\ seen[p] # Nil
  /\ IF HasPack(seen[p]) THEN Save(p, Ensured(seen[p])) ELSE Discard(p)
  /\ Move(p, "final")
  /\ RunStep /\ KeepDocuments /\ UNCHANGED <<status, columns, lastTriaged>>

Finish(p) ==
  /\ pc[p] = "final"
  /\ status' = IF NeedsApproval(OwnerRules, work[p].tri, RisksOf(p)) THEN "WAIT_OWNER" ELSE "DONE"
  /\ Move(p, "idle")
  /\ RunStep /\ Keep /\ KeepDocuments /\ UNCHANGED <<columns, lastTriaged>>

\* Where an agent or a file can fail, and where a run looks whether the owner
\* has stopped it.
Failing     == {"triage", "step1", "step2", "report", "verdict"}
Checkpoints == {"triage", "pipeline", "roundtable", "court", "pack", "final"}

\* The office's handler sends a run's mission back to work, nobody else does.
Abort(p) ==
  /\ pc[p] \in Failing \/ (p = "office" /\ pc[p] \in Checkpoints)
  /\ status' = IF p = "office" /\ status # "DONE" THEN "REWORK" ELSE status
  /\ Move(p, "idle")
  /\ Discard(p)
  /\ RunStep /\ KeepDocuments /\ UNCHANGED <<columns, lastTriaged>>

RunOf(p) ==
  \/ StoreTier(p) \/ CheckRepeat(p) \/ Triage(p) \/ MarkRevenue(p) \/ StoreTriage(p)
  \/ ResyncTriage(p) \/ FillColumns(p) \/ EnsureBundle(p) \/ LookForChoice(p)
  \/ WaitForOwner(p) \/ PrepareExecution(p) \/ DeclareReady(p) \/ EnterPipeline(p)
  \/ WriteStep(p) \/ Roundtable(p) \/ EnterCourt(p) \/ WriteReport(p) \/ WriteVerdict(p)
  \/ BuildPack(p) \/ EnsureAction(p) \/ Finish(p) \/ Abort(p)

-----------------------------------------------------------------------------
(* Starting runs.                                                          *)

Quiet == UNCHANGED <<task, fresh, output, lastTriaged, owed, overtaken>>

\* pipeline/start, refused outside these statuses and beside another.
StartOffice ==
  /\ pc["desk"] = "idle" /\ pc["office"] = "idle" /\ status \in Startable
  /\ BeginRun("office")
  /\ Quiet /\ UNCHANGED <<queue, ops>>

\* pipeline/run, and exploration/select once it stored the choice: the request
\* is the run.
StartInline ==
  /\ pc["desk"] \in {"idle", "begin"}
  /\ BeginRun("desk")
  /\ Quiet /\ UNCHANGED <<queue, ops>>

\* _run_orchestration, once the loop of the bot comes to it.
StartQueued ==
  /\ pc["bot"] = "idle" /\ queue > 0
  /\ BeginRun("bot")
  /\ queue' = queue - 1
  /\ Quiet /\ UNCHANGED ops

-----------------------------------------------------------------------------
(* The owner's operations.                                                 *)

\* Which of them each loop has a handler for.
Offers == [desk |-> {"select", "draft", "publish", "reject", "view", "done", "lead", "approve"},
           bot  |-> {"select", "tier", "done", "lead", "approve"}]

Arguments(kind) == CASE kind = "select" -> Options
                     [] kind = "tier" -> {"local", "cloud"} \ {DefaultTier}  \* a bound
                     [] OTHER -> {Nil}

\* A handler begins by reading the mission.
Ask(p, kind) ==
  /\ pc[p] = "idle" /\ ops < MaxOps
  /\ kind \in Offers[p] \cap OwnerOps
  /\ kind = "approve" /\ p = "desk" => status = "WAIT_OWNER" /\ pc["office"] = "idle"
  /\ \E arg \in Arguments(kind) :
       work' = [work EXCEPT ![p] = [NoWork EXCEPT !.kind = kind, !.arg = arg]]
  /\ ops' = ops + 1
  /\ Goto(p, "read") /\ Hold(p)
  /\ Quiet /\ UNCHANGED <<queue, runs, mixed>>

TaskWantsOutreach(b) ==
  \/ columns # Nil /\ columns.route.type \in {"content_pipeline", "marketing_plan"}
  \/ b.meta # Nil /\ b.meta.route.domain \in {"MEDIA_OPS", "AUTHORITY_CONTENT"}

\* What the handlers check on the payload they read.
Refused(p) ==
  LET b == seen[p]
      kind == work[p].kind
  IN  \/ kind = "select" /\ p = "desk" /\ ~b.options
      \/ kind \in {"publish", "reject"} /\ b.draftState # "pending"
      \/ kind \in {"view", "done", "lead"} /\ ~HasPack(b)
      \/ kind = "done" /\ p = "bot" /\ (status = "EXECUTION_READY" \/ b.ready)

OpStep == UNCHANGED <<text, columns, files, judgement, lastTriaged, mixed>>

Refuse(p) ==
  /\ pc[p] = "read" /\ Refused(p)
  /\ Move(p, "idle") /\ Discard(p)
  /\ OpStep /\ UNCHANGED <<status, queue, knowledge, runs, ops, owed>>

\* An approved mission with nothing to send is done.
CloseMission(p) ==
  /\ pc[p] = "read" /\ work[p].kind = "approve" /\ ~TaskWantsOutreach(seen[p])
  /\ status' = "DONE"
  /\ Move(p, "idle") /\ Discard(p)
  /\ OpStep /\ UNCHANGED <<queue, knowledge, runs, ops, owed>>

\* approve_knowledge_draft that leaves the entry for later.
AddEntry_Later(p) ==
  /\ pc[p] = "read" /\ work[p].kind = "publish" /\ ~Refused(p)
  /\ Move(p, "write")
  /\ OpStep /\ Keep /\ UNCHANGED <<status, queue, knowledge, runs, ops, owed>>

\* add_memory_entry, a commit of its own before the draft is marked.
AddEntry(p) ==
  /\ pc[p] = "read" /\ work[p].kind = "publish" /\ ~Refused(p)
  /\ knowledge' = Append(knowledge, seen[p].draft)
  /\ Move(p, "write")
  /\ OpStep /\ Keep /\ UNCHANGED <<status, queue, runs, ops, owed>>

\* The mark fails after the entry was added: the draft is still pending.
FailToMark(p) ==
  /\ pc[p] = "write"
  /\ Move(p, "idle") /\ Discard(p)
  /\ OpStep /\ UNCHANGED <<status, queue, knowledge, runs, ops, owed>>

\* What each handler makes of the payload it read.
Choose(b, option)  == [b EXCEPT !.chosen = option]
ChooseTier(b, t)   == [b EXCEPT !.tier = t]
CreateDraft(b, id) == [b EXCEPT !.draft = id, !.draftState = "pending"]
MarkPublished(b)   == [b EXCEPT !.draftState = "published"]
RejectDraft(b)     == [b EXCEPT !.draftState = "rejected"]
ApplyFeedback(b)   == [Ensured(b) EXCEPT !.action = "done"]
CreateLead(b)      == [Ensured(b) EXCEPT !.leads = @ + 1]
PrepareOutreach(b) == [b EXCEPT !.pack = "outreach", !.ready = TRUE]

Effect(b, kind, arg) ==
  CASE kind = "select"  -> Choose(b, arg)
    [] kind = "tier"    -> ChooseTier(b, arg)
    [] kind = "draft"   -> CreateDraft(b, ops)
    [] kind = "publish" -> MarkPublished(b)
    [] kind = "reject"  -> RejectDraft(b)
    [] kind = "view"    -> Ensured(b)
    [] kind = "done"    -> ApplyFeedback(b)
    [] kind = "lead"    -> CreateLead(b)
    [] kind = "approve" -> PrepareOutreach(b)

StatusAfter(kind) == CASE kind = "select" -> "TRIAGED"
                       [] kind = "tier" -> "REWORK"
                       [] OTHER -> status

\* What follows the write: a second write, the status, a run, or nothing.
After(p) == CASE work[p].kind = "select" /\ p = "desk" /\ runs < MaxRuns -> "begin"
              [] work[p].kind = "done" -> "again"
              [] work[p].kind = "approve" -> "approved"
              [] OTHER -> "idle"

\* One run waiting in the bot's loop is enough here: a bound.
QueuesRun(p) == p = "bot" /\ work[p].kind \in {"select", "tier"} /\ queue = 0

MayCommit(p) ==
  CASE work[p].kind = "publish" -> pc[p] = "write"
    [] work[p].kind = "approve" -> pc[p] = "read" /\ TaskWantsOutreach(seen[p])
    [] OTHER -> pc[p] = "read" /\ ~Refused(p)

\* What the payload now has to say, until somebody overwrites it unread.
Owed(p) ==
  CASE overtaken' -> NothingOwed
    [] ~overtaken' /\ work[p].kind = "select" -> [owed EXCEPT !.chosen = work[p].arg]
    [] ~overtaken' /\ work[p].kind = "tier" -> [owed EXCEPT !.tier = work[p].arg]
    [] ~overtaken' /\ work[p].kind = "draft" -> [owed EXCEPT !.draftState = "pending"]
    [] ~overtaken' /\ work[p].kind = "publish" -> [owed EXCEPT !.draftState = "published"]
    [] ~overtaken' /\ work[p].kind = "reject" -> [owed EXCEPT !.draftState = "rejected"]
    [] ~overtaken' /\ work[p].kind = "lead" -> [owed EXCEPT !.leads = @ + 1]
    [] OTHER -> owed

Commit(p) ==
  /\ MayCommit(p)
  /\ Save(p, Effect(seen[p], work[p].kind, work[p].arg))
  /\ owed' = Owed(p)
  /\ status' = StatusAfter(work[p].kind)
  /\ queue' = IF QueuesRun(p) THEN queue + 1 ELSE queue
  /\ Move(p, After(p))
  /\ OpStep /\ UNCHANGED <<knowledge, runs, ops>>

\* The feedback handlers write the enriched payload a second time.
EnsureAgain(p) ==
  /\ pc[p] = "again" /\ seen[p] # Nil
  /\ Save(p, Ensured(seen[p]))
  /\ Move(p, "idle")
  /\ OpStep /\ UNCHANGED <<status, queue, knowledge, runs, ops, owed>>

\* The outreach pack of an approved mission is written: it can be executed.
WriteApproved(p) ==
  /\ pc[p] = "approved"
  /\ status' = "EXECUTION_READY"
  /\ Move(p, "idle")
  /\ OpStep /\ Keep /\ UNCHANGED <<queue, knowledge, runs, ops, owed>>

\* append_owner_context: an attached intake draft changes what the text says.
AttachText ==
  /\ pc["bot"] = "idle" /\ ops < MaxOps
  /\ \E more \in Additions : text' \in Joinings(text, more) \ {text}
  /\ ops' = ops + 1
  /\ mixed' = (mixed \/ \E p \in Writer : RunActive(p))
  /\ UNCHANGED <<status, columns, payload, writers, output, runs, lastTriaged, owed, overtaken>>

OpOf(p) ==
  \/ Refuse(p) \/ CloseMission(p) \/ AddEntry(p) \/ FailToMark(p) \/ Commit(p)
  \/ EnsureAgain(p) \/ WriteApproved(p)

Next ==
  \/ \E p \in Writer : Load(p) \/ RunOf(p) \/ OpOf(p)
  \/ \E p \in {"desk", "bot"}, kind \in Kinds : Ask(p, kind)
  \/ StartOffice \/ StartInline \/ StartQueued \/ AttachText

Spec == Init /\ [][Next]_vars
-----------------------------------------------------------------------------
(* Properties.                                                             *)

\* Every variable has its type, and a writer that acts on the payload holds it.
TypeOK ==
  /\ text \in Texts /\ status \in Statuses
  /\ columns = Nil \/ columns \in [route : Routes, crit : 0 .. 3, mode : {"PLAN", "EXECUTE"}]
  /\ payload \in Payloads
  /\ \A p \in Writer : /\ pc[p] \in Pc
                       /\ seen[p] = Nil \/ seen[p] \in Payloads
                       /\ pc[p] \in {"read", "write", "tier"} => seen[p] # Nil
                       /\ work[p].run \in 0 .. MaxRuns
                       /\ work[p].tri = Nil \/ work[p].tri \in Triages
  /\ queue \in {0, 1} /\ runs \in 0 .. MaxRuns /\ ops \in 0 .. MaxOps
  /\ \A d \in Document : files[d] \in 0 .. runs

NoRunActive == queue = 0 /\ \A p \in Writer : ~RunActive(p)

\* What the owner chose last, a scenario, a model, the fate of a draft, a lead,
\* is in the payload, as long as nobody wrote one that he had read before: no
\* run and no handler drops or remakes a key it is not about.
OwnerChoiceKept ==
  ~overtaken =>
    /\ payload.chosen = owed.chosen
    /\ owed.tier # "none" => payload.tier = owed.tier
    /\ payload.draftState = owed.draftState
    /\ payload.leads = owed.leads

\* When a run declares a mission ready for execution, what it prepared is the
\* scenario the owner chose last, not an earlier one, unless he chose it while
\* the run was preparing.
ReadyFollowsSelection ==
  [][\A p \in Writer :
       /\ pc[p] = "ready" /\ pc'[p] = "idle" /\ seen[p] # Nil
       /\ status' = "EXECUTION_READY" /\ status # "EXECUTION_READY" /\ ~overtaken'
       => payload'.exec = payload'.chosen]_vars

\* A draft is marked as published only once its entry is in the knowledge base,
\* whatever interleaves, fails or is written back in between.
PublishedHasEntry ==
  payload.draftState = "published" => \E i \in DOMAIN knowledge : knowledge[i] = payload.draft

\* Whatever the agents answer, and whatever triage is stored, a run never
\* closes a mission: only the owner's approval does.
OnlyOwnerCloses ==
  [][status' = "DONE" /\ status # "DONE" =>
       \E p \in Writer : pc[p] = "read" /\ work[p].kind = "approve"]_vars

\* Once a run that filled the columns has judged the mission, report, verdict
\* and step files are all of that run, the report says of the mission what its
\* columns say, and asks for the owner if the mission waits for him.
ReportIsCoherent ==
  NoRunActive /\ ~mixed /\ ~overtaken /\ lastTriaged # 0 /\ files["verdict"] = lastTriaged =>
    /\ \A d \in Document : files[d] = lastTriaged
    /\ judgement.columns = columns
    /\ status = "WAIT_OWNER" => judgement.owner
=============================================================================
