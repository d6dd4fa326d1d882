# A verification project for MyWave AI-Team

TLA+ specifications of the core logic of this repository, TLC configurations
that check them on small instances, and TLAPS proofs of the properties that
matter most for every instance. Paths are relative to `src/`.

## 1. The system

Two operating-system processes, started by `app/main.py`, share one database and
nothing else:

* the **dashboard** (FastAPI, one event loop). Its handlers are `async def` with
  synchronous bodies, so one handler at a time; beside them run the **background
  threads** of the run manager;
* the **Telegram bot** (aiogram, one event loop), whose runs block its loop.

A third, optional process is the **Molt service**, which answers in the threads
of a pool.

A *mission* is a `Task` row. It comes out of the intake of the bot, or of a
form. An *orchestration run* takes it through triage, pipeline, roundtable and
court to DONE or to WAIT_OWNER; the *owner* approves, sends back, asks for
clarification or confirms a merge, in either process; an approved mission with
an `execution_request` is *executed*: its patch is applied, tested, committed,
pushed and proposed as a pull request. Everything that has no column of its own
is in the JSON payload `business_action_json`.

| component | state | operations | what makes it correct |
| --- | --- | --- | --- |
| run manager `app/orchestrator/runtime.py` | `_jobs`, `_cancel_events`, `_threads`, behind one lock | start, request_stop, update, thread body, terminal event | one run per mission; a stop reaches its run and no other; active means alive |
| run persistence `app/storage/run_persistence.py` | `runs`, `execution_events` | listener for started and terminal, two commits each | rows tell the run's own outcome, once |
| execution `app/execution/service.py`, `app/runners/cursor_runner/pr_loop.py` | task status, approval, PR address; a git checkout; the remote | start, checkpoints, git, pytest, gh, recording | only approved and tested content is proposed, once; executions settle |
| owner decisions `app/dashboard/api/{common,tasks}.py`, `app/dashboard/app.py`, `app/bot/handlers.py` | `decisions`, `approvals`, task status | approve, rework, clarify, merge, start, stop, resume, cancel, synchronous run | decisions and runs exclude each other; every approval is recorded; what is closed stays closed |
| orchestration `app/orchestrator/sync_run.py`, `triage*.py`, `roundtable.py`, `court.py` | task status, columns, payload, artefacts | phases, checkpoints, exploration, owner gate | the owner is asked once; only he closes a mission; the report says what the columns say |
| repositories `app/storage/repositories.py` | all tables | read, modify, commit | no lost update |
| exploration, execution packs `app/orchestrator/` | payload | scenarios, choice, pack | what is executed was chosen |
| smart intake `app/intake`, `app/gm_director.py`, drafts in `repositories.py` | `intake_drafts` with expiry, context of a question | classify, ask, draft, confirm, attach, refine | a confirmed draft becomes at most one mission |
| knowledge intake `app/knowledge_intake` | a case and its stage; a draft in the payload | nine steps; create, publish, reject | what is published was approved and has sources |
| owner memory `app/owner_memory` | rules | rules at intake and at a run's end | rules only tighten the gate |
| business execution `app/business_execution` | packs, actions, leads and deals in the payload | pack choice, learning, feedback, sales | outcomes move missions to what sells |
| canonical path `app/canonical_bridge.py`, `packages/shared-core` | runtime state row and memory, canonical runs and approvals | hooks around runs and decisions, retrying client | run and approval belong together |
| Molt service `services/molt_http_service` | receipts | deduplicated POSTs | a request takes effect once; accepted means done |
| metrics, gateway, MCP server, pages, auth, scripts | configuration, presentation | | nothing depends on their order |

**Interactions.** Handlers call the manager and the repositories; the manager
calls the listener and the target; the target calls the run or the PR loop, which
call back to the manager's checkpoints and to the canonical hooks, which call
the Molt service. The two processes meet only in the database, and the bot
cannot see the dashboard's jobs.

**What is hard.** The order of a thread's bookkeeping and the next start; a stop
whose Event is set outside the lock; commits that fail one by one; processes that
die; a checkout shared by missions; commands and requests that time out after
taking effect; decisions of two processes on the same rows; a payload everybody
reads whole and writes whole; handlers that read a status and write it later;
connections that belong to a thread; buttons pressed late or twice.
`PROJECT.json` lists each of these at its line.

## 2. Modules

| module | models | role |
| --- | --- | --- |
| `RunSlots` | what the manager promises | abstract specification |
| `OrchestrationRuntime` | manager and listener | detailed specification; refines `RunSlots` |
| `OrchestrationRuntime_proofs` | | theorems |
| `ExecutionLayer` | execution service, PR loop, checkout, remote | specification |
| `ExecutionLayer_proofs` | | theorems |
| `MissionLifecycle` | statuses, runs, owner decisions, approvals and console of one mission | specification |
| `MissionLifecycle_proofs` | | theorems |
| `Routing` | triage, commercial lock, risk table, owner gate, rules, model tiers | functions |
| `MissionPayload` | payload, columns and documents of one mission under three writers; extends `Routing` | specification |
| `MissionPayload_proofs` | | theorems |
| `KnowledgeCase` | the nine steps of a knowledge case | specification |
| `KnowledgeCase_proofs` | | theorems |
| `Packs` | pack choice, learning and override, as functions of tallies | functions |
| `Intake` | messages, questions, drafts, buttons, and what outcomes teach; extends `Packs` | specification |
| `Intake_proofs` | | theorems |
| `CanonicalPath` | hooks, client, service, tables of the canonical path | specification |
| `CanonicalPath_proofs` | | theorems |
| `MC...` | constants, small instances and symmetry for TLC | |

Definitions whose name has a suffix after `_` (`Start_IgnoresStopping`, ...) are
altered forms used for sensitivity analysis: put in the place of the definition
they are named after, each makes the property it is paired with in
`PROJECT.json` fail. No specification uses them.

The modules overlap where components do. `MissionLifecycle` has the statuses and
approvals in full and no payload; `MissionPayload` has the payload in full, and
of the statuses those the payload depends on; `ExecutionLayer` begins where an
approved mission has an execution request. What one of them reduces, another
has: the manager in the others is what `OrchestrationRuntime` establishes, and
the ends of runs in `Intake` are one step because `MissionPayload` has the many.

### OrchestrationRuntime

One step is one critical section, one commit, or one stretch of the target
between checkpoints. `jobs` is `_jobs` reduced to run id and state;
`cancelEvents` is `_cancel_events` (and `_threads`, which is filled and emptied
with it); an Event is named by its run, `isSet` says which are set; `stopping`
holds the Events `request_stop` has fetched under the lock and sets after it.
`pc`, `outcome` and `snap` are the thread's place and locals; `row` and `events`
the tables. `Start` is one step because the listener and `thread.start` run
under the lock. `Crash` empties memory and keeps the tables. The dashboard calls
the manager from one loop; the model lets a start come between the two halves of
a stop, so the results hold for callers in other threads too.

`RunSlots` says the same without threads: a slot per mission, admitted when
free, decided once by its holder, lost on restart. A slot is held while the job
is active; the verdict of a run is the outcome its thread wrote into the job.

### ExecutionLayer

Missions share one checkout (one entry of `EXECUTION_ALLOWED_ROOTS_JSON`). A
step is one git, pytest or gh command, one commit or one checkpoint. The content
of a tree is the set of patches in it, and a mission's patch touches files of its
own. Every command may fail; `Push` and `CreatePr` may take effect and then time
out. `CheckpointAt` lists each checkpoint of the target with what a stop does
there: inside `run_pr_loop`'s try block a stop becomes an ordinary failure, and
the checkpoint after the loop turns it back into a cancellation. `signed` and
`tested` remember what the owner approved and the tests saw. `Break` is a
process that dies or a target that raises what it does not catch.

A branch starts at whatever branch is checked out (`pr_loop.py:152`): the pull
request of a mission also carries the commits of the execution before it. The
specification follows the code; no property states the isolated branch that
`service.py:152` speaks of, because it is not there.

### MissionLifecycle

One mission, three actors: the dashboard's loop, the thread it may run, and the
bot's loop. A decision is four steps: insert the Decision (commit), look up the
open approval (query), close or add a row (commit), write the status (commit and,
after a rework, start a run). A run is its checkpoints, status commits, the
owner gate (query, insert) and its end. `seen` is the status the thread's session
holds: its handlers read it before they settle the mission, and the session
writes a column only when its value differs from the one it loaded. What the
agents say is the choice in `Finalize`. `onApprove` is fixed per mission: what
`resolve_status_after_approve` answers.

The console (`app/dashboard/app.py`) is a fourth channel, served by the
dashboard's loop. Its decision forms and `/pause` are those of the office;
`/resume` and `/cancel` are not: they look at no status but to reopen the
mission, and the run `/resume` starts has none of the handlers of the office's
run. `bare` says that the last background run was such a run. What follows from
the code, and is in the model:

* a cancel while a run works is undone by that run's next status commit;
* `/resume` takes a mission in any status, DONE and ARCHIVED included, and may
  write REWORK over the status of a run beside which it is then refused;
* a run of the console that is stopped or fails leaves an IN_ status, for which
  the office offers nothing;
* `/cancel` sent as a form reads `form_view`, which that handler does not define
  (`app.py:1268`): an error, after the commit;
* `common.py:613` tells the owner of an archived mission to send it back first,
  which `REWORKABLE_TASK_STATUSES` does not allow.

### Routing and MissionPayload

`Routing` reads a task: a text is what the detectors find in it, a route is a
task type of `config/routing.yaml` with the words its gate and its name
contain. `MissionPayload` runs it. Three writers: the background run (`office`),
the dashboard's loop with its synchronous runs (`desk`), and the bot. Each reads
the whole payload, changes a key and writes the whole (`repositories.py:237`);
`seen` is what a writer has read and not yet written back, `fresh` says that
nobody wrote since. `files` holds which run wrote each document last, because
the paths carry no run (`pipeline.py:137`, `court.py:333`). `owed` is what the
owner chose last, `overtaken` that a stale payload was written back, `mixed` that
two runs, or a run and an attached text, met; all three are history.

What the model brings to light, besides the properties:

* a payload written back stale loses the owner's choice, and nothing detects it;
  `OwnerChoiceKept` is therefore conditional on `~overtaken`;
* publishing knowledge is two commits (`service.py:138`); a mark that fails, or a
  stale "pending" written back, allows a second entry. The service publishes a
  draft of the payload without taking it through `KnowledgeIntakeCase`;
* a scenario chosen while a run prepares the execution of another is ignored
  until the next run (`sync_run.py:430-457`);
* an exploration waits for the owner without an Approval row (`sync_run.py:409`);
* looking at the page of an execution pack writes the payload (`app.py:967-1004`);
* the lock of a commercial task also lowers a criticality the agents raised;
* the tier a run resolves is stored and counts as the owner's choice from then on;
* every gate of `routing.yaml` contains APPROVAL, so every run asks the owner:
  `OnlyOwnerCloses`.

### KnowledgeCase

The immutable case of `workflow.py`, followed through the values the caller goes
on with. A refused step changes nothing and is no action. The arguments are any
sets: repeated ids, scores out of range, claims without sources, entities nobody
declared.

### Packs and Intake

`Intake` is the bot's loop: an action is what a handler does between two awaits.
A text is what the patterns find in it; the model's answer is a record of what
the code reads of it, and may omit risk words the owner wrote. `drafts` are the
rows ever put, live or gone; `question` is the module-level context; `asking` and
`confirming` are handlers suspended at an await. `Packs` computes what the
outcomes of missions change about the choice of a pack: rates in hundredths,
priorities in thousandths; where the code adds two floats and compares for
equality, `tie` says how that comes out. Tallies are cardinalities: sales are
counted one by one, revenue unit by unit. A history (`Pasts`) is one that the
loop of `growth_engine.py:136-155` can have counted (`SoundTallies`): revenue
comes from sales, and no more actions are completed than were made.

What the model brings to light:

* the owner's approval keys never reach the director: `normalize.py:107-118`
  passes the one rule that was applied and the preferences, and neither is among
  the keys looked for;
* risk is read off the text together with the memory shown beside it, so a
  mission is high-risk because an earlier one was;
* `#TASK`, "new mission" on an attach draft and attached text pass neither rules
  nor director; an attach draft may name a mission that is closed or missing;
* "refine" leaves the first draft confirmable: two missions of one request;
* a draft is popped before its mission is made (`handlers.py:539`): a failure in
  between loses it; the context of a question is set after the await that sends
  it (`handlers.py:388`);
* "не сработало" contains "сработ" and counts as a success as well as a failure
  (`learning_hooks.py:23`); the mode of the best pack is not used
  (`learning_hooks.py:202`), so an override may choose a pack that is failing;
* a pack "fails" from 49.5 % of its missions on, not from half: the rate is
  rounded to two places before it is compared with 0.5 (`learning_hooks.py:111`,
  `165`). `MovedPackHasSold` said half at first; the attempt to prove it for any
  number of missions showed that this is false from 101 missions on, which no
  small instance reaches;
* a run rebuilds the pack's type each time, and sales made with another type are
  then not counted (`growth_engine.py:149`); the pack made at intake looks at no
  outcomes (`gm_director.py:408`).

### CanonicalPath

One mission with Molt as the run owner over HTTP, sqlite storage, and the
crosswalk in memory. A hook is a step machine in a thread of the office
(`hook`), its boundary call in `call`, the attempts that reached the service in
`serving`. Every store has one sqlite3 connection, which raises in every thread
but the one that used it first (`sqlite_adapter.py:32`): `conn` and `pool` say
which that is, chosen at the start and at each restart. A request or an answer
may be lost, an answer may come late, either process may restart. The runtime
state is kept twice, in the row and in memory. `effects` counts completed work
per request id; an id is used anew once nothing carries it.

After a rework the service writes the new run into the row only
(`canonical_bridge.py:328`): if the next run's creation is refused or lost, the
office's memory pairs a new approval with the old run. After a restart the
context of a pending approval comes back only if the row was written
(`app/canonical_bridge.py:294-312`), though `runtime_state.py:3` promises it.

## 3. Runs

| run | instance | shows |
| --- | --- | --- |
| RuntimeSafety | 2 missions, 2 runs, crashes, failing commits | one target per mission; stops reach their run only; tables tell the truth |
| RuntimeRefines | 2 missions, 2 runs, crashes, fair | refinement of `RunSlots`, finality of rows, stops settle |
| RuntimeStopLost | 1 mission, 2 runs | *violated*: `StoppingRunIsSignalled` |
| ExecSingle | 1 mission, 3 executions, rework, lost process | the pull request is the approved, tested patch, once; a stop in time prevents the commit |
| ExecShared | 2 missions, 1 execution each, files rewritten, fair | status and target agree; executions settle |
| ExecStaleApproval | 1 mission, file rewritten | *violated*: `PrIsSignedPatch` |
| MissionOffice | 4 decisions, 4 runs, office and console, fair | decisions wait for runs, one open approval, approvals recorded, closed stays closed, missions settle |
| MissionChannels | 2 decisions, 2 runs, all channels | types, rows match decisions |
| Payload | 4 routes, 3 texts, an addition, 2 scenarios, 2 runs, 2 operations, all writers | choices survive, published means stored, the report agrees with the columns, only the owner closes, what is ready was chosen |
| Knowledge | 2 claims, sources, entities, scores in and out of range | a published record is grounded |
| Intake | 4 texts, 2 histories, 2 messages, missions and drafts, 1 sale each | a draft is used once; outcomes move a mission only where they should |
| Canonical | 2 runs, 2 background threads, 2 workers, 1 retry, 1 fault of any kind | effects happen once, accepted means done, run and approval match |

**Bounds.** `RunId` bounds the starts: two suffice for a run and its successor,
the pair every hazard of the manager is about; missions share only the lock, two
show that they do not disturb each other. `Checkpoints = 1` gives a stop that
comes before, at and after a checkpoint. Three executions allow a failed, a
stopped and a retried one. Two decisions and two runs in all channels allow every
pairwise race of loops; four of each give the office several complete cycles.

In Payload, two runs are a run and the one that meets what it left, and two
operations are a choice and one more that may interleave with either; `Overlap =
FALSE` keeps the runs from overlapping each other (the owner's operations still
overlap them): `mixed` exempts overlapping runs from the only property about
them. The routes are the four whose gates and criticalities differ in what the
properties tell apart; one answer of the agents escalates and reroutes at once.
`OwnerOps` leaves out the page that writes the payload, whose write is that of
`EnsureAgain`. In Intake, four texts are noise, a risky request for a landing
page, a plain one for content and a question; the two histories are one in which
another pack sells and one in which the pack asked for fails and a busy one does
not sell; a sale brings nothing or one unit (`MaxAmount`), since only whether
there is revenue and more of it than elsewhere decides. In Knowledge, two of everything let a fact and an assumption, a known
and an unknown id, and a repeated id occur. In Canonical, one fault meets every
step of a hook, its retries included; a second run follows the approval of the
first. A request id used again stands for a fresh one: nothing of the old is
left that could meet it.

Behaviours end when the bounds are used up, so deadlock is not checked.

**Fairness.** Threads and loops are scheduled (weak fairness of their steps):
commands have timeouts of 300 and 120 seconds, the LLM and HTTP clients have
theirs, and every failure is a step. The owner is under no obligation, so no
fairness on owner actions, starts, stops or crashes.

**Conditions.** Where a property has a condition, the code gives it no more:
`MissionSettles` and `WaitOwnerHasApproval` exempt the console's own run, which
has no handlers; `OwnerChoiceKept`, `ReportIsCoherent` and `ReadyFollowsSelection`
exempt behaviours in which a stale payload was written back, `ReportIsCoherent`
also those in which two runs met or a text changed under a run; `EffectOnce` exempts
an attempt repeated while the service still has it, and a pool in which the
worker that can work cannot read receipts. Each was found by TLC where the
condition is dropped.

### What the violated properties say

1. *A stop can be lost* (`app/orchestrator/runtime.py:232`): a thread that has
   already reported pops the mission's Event, even if it is its successor's.
   The mission then shows "stopping" and runs to its end. It does come to an end
   (`StopSettles`), and no other run is ever stopped in its place.
2. *An approval outlives the patch* (`app/execution/service.py:72`): the content
   approved is not compared with the file applied.

### Other disagreements, without a run of their own

* The owner can be asked twice when two processes run one mission
  (`repositories.py:291`), although `owner_flow.py:13` calls the call idempotent:
  set `Telegram = TRUE` in `MissionOffice.cfg` and `OneOpenApproval` fails.
* A button of the bot records a decision while a run of the office works
  (`handlers.py:878`), which `common.py:625` excludes: with the same change
  `DecisionsWaitForRun` fails.
* Branches are stacked, the console's run has no handlers, and the context of an
  approval may not survive a restart: see section 2.

## 4. Proofs

Forty theorems, each for every value of the constants that its module's
assumptions allow. Every invariant and every action property a passing run
checks is stated by one of them; a run shows it on a small instance first, which
also finds the conditions it needs. Some theorems have a hypothesis besides
the assumptions, the same for which the run is instantiated:

| hypothesis | says | why |
| --- | --- | --- |
| `Alone` | one mission in the checkout | branches are stacked on what is checked out: with two missions, the pull request of one carries the commits of the other |
| `~MayReplace` | the approved file is not rewritten | see run ExecStaleApproval |
| `~MayBreak` | no target dies or raises what nobody catches | it leaves EXECUTING behind |
| `~Telegram`, `~SyncRuns` | the bot is not used; no run works inside a request | see section 3 |
| `GatesAsk` | every gate asks for an approval | a fact of `config/routing.yaml:17-127` |

### OrchestrationRuntime_proofs

For any missions, run ids and number of
checkpoints, with or without crashes and failing commits, from
`RuntimeAssumption` only. The argument is the inductive invariant `IInv`: live
threads and active jobs point at each other (`LiveMatchesActive`), which alone
makes targets exclusive; a job names a run of its own mission and the registered
Event is that run's (`JobNamesItsRun`), without which a stop could fetch a
stranger's Event; outcome, job and copy agree from the target to the tables
(`OutcomeCarried`, `TablesFollowThread`); every Event on its way was fetched for
a run that was current (`StopsWereRequested`). `LatestRowsClosed` adds
`RowsClosed`: a thread skips the commit only if its job was replaced, and the
job then names another run for good. `Refinement` shows that starts admit, the
job's update decides, a crash restarts and all else stutters.

### ExecutionLayer_proofs

For any missions, contents and executions, from `ExecutionAssumption`. Whatever
shares the checkout: `StopPreventsCommit`; `MergeWaitsForPr` (`PrVouched`: a
stored address and a target past the creation vouch for a pull request, so a
retry that finds the address may skip the creation); `ExecutingIsWorkedOn`
(`TargetInv`: the job goes with the target, so the status is written by whoever
works). For a mission alone: `LonePrIsTested` (`TestedInv`: between the tests
and the pull request the content of the branch, then of the remote, is what the
tests saw, and then that with the report); `LonePrIsSigned` (`SignedInv`: every
branch, local or pushed, and the tree hold nothing but what was approved and the
report - of *every* branch, because the next one starts there); `LonePrOnce`
(`OnceInv`: after a pull request its patch is below every branch a retry can
start from, so `git apply --check` refuses it before the second one).

### MissionLifecycle_proofs

For any number of decisions and runs, from
`LifecycleAssumption`, the console included. `RowsTellTheDecision` (`RowInv`)
needs that a handler between its two commits names the decision it inserted,
which holds because decisions are only appended. The others are
conditional on the channels, as the code is. `OfficeDecisionsWait` (`BusyInv`,
without the bot) needs that the bot's loop stays idle, and that the office's loop
looks at the job and starts runs in the same loop, so a decision in hand excludes
a start. `OfficeApprovalsRecorded` (`RecordInv`, without the bot) needs that
every approval but the one in hand has a row naming it, and that a row found
open stays open until the same loop closes it. `OfficeAsksOnce` (`AskInv`, with
neither the bot nor synchronous runs) needs that only the background run asks,
and that between its query and its insert nobody else adds an open row.
`OfficeWaitIsAsked` and `OfficeClosedStays` (`OfficeInv`) need that the session
of an office's run knows when it closed the mission or made it wait, whatever
the console wrote since (`SeenInv`), that no decision or reopening is on its
way to an archived mission (`ArchivedInv`), and where a mission may wait without an open row on the way: in
a run before its insert, or in a handler that has closed the row and has yet to
write the status (`WaitInv`).

### MissionPayload_proofs

For any texts, routes, answers, scenarios, runs and operations of three writers,
from `RoutesAssumption`, `PayloadAssumption` and `NilAssumption` (no payload is
the mark of one not read). Each writer acts on what it read earlier, so every
invariant speaks of the payloads held as well as of the one stored. `FreshInv`:
who was not written over holds what is stored, from which `ChoiceSurvives`
follows. `EntryInv`: where a published draft is, or is held and may be written
back, its entry exists - `PublishedIsThere` needs no condition, because entries
are never removed. `ReadyInv`: a run about to execute finds the scenario it
executes (`ReadyIsChosen`). `RunsNeverClose` needs of a run that finishes that it
carries a triage of some route (`WriterOK` of `PayloadInv`): the gate then asks,
whatever criticality, mode and rules come with it (`AlwaysAsks`). `ReportInv`, for `ReportMatches`: the only run there is has written
each document up to its place, and its judgement is of the columns. What a step
of a run can do to the payload is said once, in `RunShape`.

### CanonicalPath_proofs

For any threads, workers, request ids, runs, retries and faults, from
`CanonicalAssumption`. `AcceptedWasDone` holds whatever is lost, repeated or
restarted, because the answer goes with the last piece of the work. The
other two rest on `AloneInv`: while no attempt was abandoned the service has at
most the attempt the office waits for. `WorkOnce` (`OnceInv`): where a request
was completed there is its receipt, or the worker about to write it is the one
that can; the work itself is done by the one worker whose connection works, so
the others cannot complete it a second time. `RowIsCoherent` (`RowInv`): from
the question of a hook to its end nobody else changes the run of the row, if the
hook can write the row at all.

### Intake_proofs

For any texts, answers, projects, histories, and numbers of messages, drafts,
missions and sales, from the assumptions of `Intake` (`TextsAssumption`,
`IntakeAssumption`, `BoundsAssumption`, `NilAssumption`). `DraftOnce` is
inductive with the types: a step adds at most one use of one draft, which it
takes or which was being confirmed (`UsesGrow`), and a taken row does not come
back. `MovesAreEarned`: whatever the tallies, the override answers with the pack
asked for, the generic one if that pack failed, or one that has sold
(`Learned`) - without a sale the revenue and conversion parts of a priority are
nothing (`Priorities`), and no rounding makes a rate pass a threshold that is
not passed by 49.5 % (`Rates`).

### KnowledgeCase_proofs

For any claims, sources, entities, scores and persons,
from `CaseAssumption`. `CaseInv` says what each stage has established: facts
with declared sources from `source` on, a score for every fact from `confidence`
on, a draft that equals the case, an approval that names somebody.
`CaseRecordGrounded` is read off it.

### Only model-checked

Liveness (`StopSettles`, `SignalledRunIsRecorded`, `ExecutionSettles`,
`MissionSettles`), which the prover does not treat under fairness. The safety
part of the same properties is proved where it has one: a stop reaches only
its run, EXECUTING has a target, a waiting mission has its row. `RunSlots` is
implemented in its safety part; it states no fairness.

In the modules, prefix operators are parenthesised (`(UNION S) \cup T`,
`(DOMAIN f) \cup T`): without parentheses TLC and the prover group them
differently, and would check different formulas.

## 5. Assumptions

* Creating a thread succeeds. Otherwise a registered job would stay running
  (`runtime.py:152`).
* In `MissionLifecycle` and `MissionPayload` failures are those of agents, files
  and calls; commits succeed. After a failed commit the handler's own query is
  refused by its session (`common.py:904`). Commits of the listener may fail.
* Statements of one transaction are one step where only its commit is visible.
* git, gh and pytest are external: they succeed as documented, fail without
  effect, or take effect and time out.
* `INTAKE_V1`, owner memory and the director are enabled; the office's summary
  of the context counts for nothing in the length of a text.
* A mission keeps its scenarios once they were made: their ids depend on
  nothing but their number.

## 6. Not modelled, and the plan

Not modelled for good: prompts and texts of agents, pages, documents, auth,
logging, metrics, the gateway's configuration, the MCP tools (forwarding),
scripts and deployment; patterns and similarity scores beyond what they decide;
the manual and cursor_agent modes of the PR loop, whose effect is outside the
program; the local transport and the in-memory storage of the canonical path,
which have none of its hazards.

Still open:

1. weaker hypotheses where they are stronger than the code needs: `PrIsTested`
   for missions that share a checkout one after the other, and
   `WaitOwnerHasApproval` with synchronous runs;
2. an abstract "takes effect once" service that the deduplicating one implements
   where it does, and an abstract draft (put, taken once) that `Intake`
   implements;
3. lemmas on `Routing` for all routes and answers: rules only tighten the gate,
   a commercial lock is the last word on the columns.
