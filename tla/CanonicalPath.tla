---------------------------- MODULE CanonicalPath ----------------------------
(***************************************************************************)
(* The canonical path of one mission: the hooks of app/canonical_bridge.py *)
(* around its runs and the owner's decisions, the client and the service   *)
(* of the Molt boundary (packages/shared-core, services/molt_http_service) *)
(* and the tables both write, where Molt owns the runs (MOLT_RUN_OWNER,    *)
(* MOLT_TRANSPORT_MODE=http, CANONICAL_STORAGE=sqlite, the crosswalk in    *)
(* memory).                                                                *)
(*                                                                         *)
(* A hook runs in a thread of the office: the event loop, where decisions  *)
(* and inline runs are handled, or a background thread.  The service works *)
(* in the threads of a pool.  Each store of either process has one sqlite3 *)
(* connection, which raises in every thread but the one that used it first *)
(* since the process started, be it for this mission or for another: the   *)
(* owner is chosen at the start.  A step is one query, one commit or one   *)
(* message.                                                                *)
(***************************************************************************)
EXTENDS Naturals, Sequences, FiniteSets

CONSTANTS
  Background,   \* identities of the office's background threads
  Worker,       \* threads of the service's pool
  Request,      \* request ids; one is used anew once nothing carries it
  MaxStarts,    \* bound on the runs of the mission
  MaxRetries,   \* MOLT_HTTP_RETRIES
  Faults,       \* subset of {"lost", "late", "office", "service"}
  MaxFaults     \* bound on the restarts and on the calls that go wrong

ASSUME CanonicalAssumption ==
  /\ MaxStarts \in Nat /\ MaxRetries \in Nat /\ MaxFaults \in Nat
  /\ Faults \subseteq {"lost", "late", "office", "service"}
  /\ "loop" \notin Background /\ "none" \notin Background \cup Worker

VARIABLES
  \* the database file
  runs,       \* status of the canonical runs, oldest first
  approvals,  \* canonical approvals, oldest first
  row,        \* the mission's row of canonical_runtime_state
  receipts,   \* request -> stored answer
  \* the office process
  mission,    \* what the mission's status allows
  starts,     \* runs of the mission so far
  hook,       \* the hook at work
  mem,        \* _canonical_state: the same as row, in memory
  cross,      \* the crosswalk knows the canonical task
  conn,       \* the thread each connection of the office belongs to
  call,       \* the boundary call the hook waits for
  \* the service process
  serving,    \* attempts that reached the service
  pool,       \* the worker each connection of the service belongs to
  \* history
  effects,    \* request -> how often its work was completed
  faults,     \* faults so far
  overtaken   \* an attempt was abandoned while the service had it

office  == <<mission, starts, hook, mem, cross, conn, call>>
service == <<serving, pool, receipts, effects>>
tables  == <<runs, approvals, row>>
history == <<faults, overtaken>>
vars    == <<office, service, tables, history>>

Thread   == Background \cup {"loop"}
Code     == {"a", "r", "c"}   \* approve, rework, clarify
NoCode   == "wait"            \* the hook of a run
Pair     == [task : BOOLEAN, run : Nat, approval : Nat]
NoPair   == [task |-> FALSE, run |-> 0, approval |-> 0]
Answer   == [accepted : BOOLEAN, run : Nat]
Rejected == [accepted |-> FALSE, run |-> 0]
Unknown  == [accepted |-> FALSE, run |-> 1]   \* no receipt: no answer looks so

Idle   == [at |-> "idle", thread |-> "loop", code |-> NoCode, state |-> NoPair]
NoCall == [at |-> "none", req |-> 0, op |-> "event", try |-> 0]

Init ==
  /\ runs = <<>> /\ approvals = <<>> /\ row = NoPair
  /\ receipts = [q \in Request |-> Unknown]
  /\ mission = "startable" /\ starts = 0 /\ hook = Idle
  /\ mem = NoPair /\ cross = FALSE /\ call = NoCall
  /\ conn \in [{"store", "state"} -> Thread]
  /\ serving = {}
  /\ pool \in [{"store", "state", "receipts"} -> Worker]
  /\ effects = [q \in Request |-> 0] /\ faults = 0 /\ overtaken = FALSE

-----------------------------------------------------------------------------
(* The office: runs, decisions and the steps of their hooks.               *)

Goto(at) == hook' = [hook EXCEPT !.at = at]
Finish   == hook' = Idle

BeginRun(t) ==
  /\ starts < MaxStarts /\ mission = "startable" /\ hook = Idle
  /\ starts' = starts + 1 /\ mission' = "running"
  /\ hook' = [Idle EXCEPT !.at = "task", !.thread = t]
  /\ UNCHANGED <<mem, cross, conn, call, service, tables, history>>

(* The canonical task is looked up, or made and registered. *)
MakeTask ==
  /\ hook.at = "task"
  /\ IF cross THEN Goto("create") /\ UNCHANGED cross
     ELSE /\ cross' = (conn["store"] = hook.thread)
          /\ Goto(IF conn["store"] = hook.thread THEN "create" ELSE "working")
  /\ UNCHANGED <<mission, starts, mem, conn, call, service, tables, history>>

(* set_canonical_state: the row if the connection allows, memory always.   *)
SetState(newRow, newMem, at) ==
  /\ row' = IF conn["state"] = hook.thread THEN newRow ELSE row
  /\ mem' = newMem
  /\ Goto(at)
  /\ UNCHANGED <<mission, starts, cross, conn, call, service, runs, approvals, history>>

SaveRun_KeepsApproval ==
  /\ hook.at = "saveRun"
  /\ SetState([row EXCEPT !.task = TRUE, !.run = hook.state.run],
              [mem EXCEPT !.task = TRUE, !.run = hook.state.run], "started")

SaveRun ==
  /\ hook.at = "saveRun"
  /\ LET state == [task |-> TRUE, run |-> hook.state.run, approval |-> 0]
     IN  SetState(state, state, "started")

(* The run ends without a question to the owner, failing or done, or with one. *)
EndRun ==
  /\ hook.at = "working"
  /\ \/ mission' \in {"startable", "closed"} /\ Finish
     \/ mission' = "waiting" /\ Goto("read")
  /\ UNCHANGED <<starts, mem, cross, conn, call, service, tables, history>>

(* get_canonical_state: the row; if it is empty, the first requested       *)
(* approval of the task, which is then saved; in every other case, and     *)
(* whenever a connection raises, memory.                                   *)
Requested == {i \in DOMAIN approvals : approvals[i].status = "requested"}
Recovered ==
  LET i == CHOOSE i \in Requested : \A j \in Requested : i <= j
  IN  [task |-> TRUE, run |-> approvals[i].run, approval |-> i]
ReadState ==
  LET readable == conn["state"] = hook.thread
      recovers == /\ readable /\ row = NoPair /\ cross
                  /\ conn["store"] = hook.thread /\ Requested # {}
      found == IF recovers THEN Recovered
               ELSE IF readable /\ row # NoPair THEN row ELSE mem
      next == IF found.run = 0 THEN "idle"
              ELSE IF hook.code = NoCode THEN IF found.task THEN "ask" ELSE "idle"
              ELSE IF found.approval # 0 THEN "resolve" ELSE "idle"
  IN
  /\ hook.at = "read"
  /\ row' = IF recovers THEN Recovered ELSE row
  /\ hook' = IF next = "idle" THEN Idle
             ELSE [hook EXCEPT !.at = next, !.state = found]
  /\ UNCHANGED <<mission, starts, mem, cross, conn, call, service, runs, approvals, history>>

(* pause_for_approval: two commits of the office's own store. *)
AskApproval ==
  /\ hook.at = "ask"
  /\ IF conn["store"] = hook.thread
     THEN /\ approvals' = Append(approvals, [run |-> hook.state.run, status |-> "requested"])
          /\ hook' = [hook EXCEPT !.at = "pause", !.state.approval = Len(approvals')]
     ELSE Finish /\ UNCHANGED approvals
  /\ UNCHANGED <<mission, starts, mem, cross, conn, call, service, runs, row, history>>

PauseRun ==
  /\ hook.at = "pause"
  /\ runs' = [runs EXCEPT ![hook.state.run] = "waiting_approval"]
  /\ Goto("saveApproval")
  /\ UNCHANGED <<mission, starts, mem, cross, conn, call, service, approvals, row, history>>

SaveApproval ==
  /\ hook.at = "saveApproval"
  /\ SetState([row EXCEPT !.approval = hook.state.approval],
              [mem EXCEPT !.approval = hook.state.approval], "asked")

(* A decision is committed, then its hook runs on the loop.  The           *)
(* background rework of the office records a decision and has no hook.     *)
Decide(code) ==
  /\ hook = Idle
  /\ IF code = "r" THEN mission \in {"waiting", "closed"} ELSE mission = "waiting"
  /\ mission' = IF code \in {"r", "c"} THEN "startable" ELSE "closed"
  /\ hook' = [Idle EXCEPT !.at = "read", !.code = code]
  /\ UNCHANGED <<starts, mem, cross, conn, call, service, tables, history>>

ReworkInBackground ==
  /\ hook = Idle /\ mission \in {"waiting", "closed"}
  /\ mission' = "startable"
  /\ UNCHANGED <<starts, hook, mem, cross, conn, call, service, tables, history>>

-----------------------------------------------------------------------------
(* The boundary, on the office's side.                                     *)

Calls == [create |-> "create", started |-> "event", asked |-> "event",
          resolve |-> "resolve", resolved |-> "event", rework |-> "rework"]

(* What a hook does with the answer; only the new run's id is ever used.   *)
After(answer) ==
  CASE hook.at = "create"   -> [hook EXCEPT
           !.at = IF answer.run # 0 /\ answer.accepted THEN "saveRun" ELSE "working",
           !.state = [@ EXCEPT !.run = answer.run]]
    [] hook.at = "started"  -> [hook EXCEPT !.at = "working"]
    [] hook.at = "resolve"  -> [hook EXCEPT !.at = "resolved"]
    [] hook.at = "resolved" -> IF hook.code = "r" /\ hook.state.task
                               THEN [hook EXCEPT !.at = "rework"] ELSE Idle
    [] OTHER -> Idle

Return(answer) == call' = NoCall /\ hook' = After(answer)

TransportError ==
  IF call.try < MaxRetries
  THEN call' = [call EXCEPT !.at = "send", !.try = @ + 1] /\ UNCHANGED hook
  ELSE Return(Rejected)

OfficeRest == UNCHANGED <<mission, starts, mem, cross, conn>>

(* One id per call, kept by its retries. *)
Free == {q \in Request : \A s \in serving : s.req # q}
Open ==
  LET q == CHOOSE q \in Free : TRUE IN
  /\ hook.at \in DOMAIN Calls /\ call = NoCall /\ Free # {}
  /\ call' = [at |-> "send", req |-> q, op |-> Calls[hook.at], try |-> 0]
  /\ receipts' = [receipts EXCEPT ![q] = Unknown]
  /\ effects' = [effects EXCEPT ![q] = 0]
  /\ OfficeRest /\ UNCHANGED <<hook, serving, pool, tables, history>>

Attempt == [req : Request, try : 0 .. MaxRetries, op : {"create", "event", "resolve", "rework"},
            code : Code \cup {NoCode}, state : Pair, at : {"queued", "work", "receipt", "answer"},
            worker : Worker \cup {"none"}, todo : Seq({"approval", "status", "event", "run", "state"}),
            answer : Answer]

Send ==
  /\ call.at = "send"
  /\ call' = [call EXCEPT !.at = "wait"]
  /\ serving' = serving \cup {[req |-> call.req, try |-> call.try, op |-> call.op,
        code |-> hook.code, state |-> hook.state, at |-> "queued", worker |-> "none",
        todo |-> <<>>, answer |-> Rejected]}
  /\ OfficeRest /\ UNCHANGED <<hook, pool, receipts, effects, tables, history>>

(* A fault (the later ones of a call that has had one are not counted),    *)
(* and whether it leaves the service an attempt nobody waits for.          *)
Fault(kind) ==
  /\ kind \in Faults
  /\ \/ kind \in {"lost", "late"} /\ call.try > 0 /\ UNCHANGED faults
     \/ faults < MaxFaults /\ faults' = faults + 1
Abandon     == overtaken' = (overtaken \/ serving # {})

LoseRequest ==
  /\ Fault("lost") /\ call.at = "send"
  /\ TransportError
  /\ OfficeRest /\ UNCHANGED <<service, tables, overtaken>>

GiveUp ==
  /\ Fault("late") /\ Abandon /\ call.at = "wait"
  /\ TransportError
  /\ OfficeRest /\ UNCHANGED <<service, tables>>

-----------------------------------------------------------------------------
(* The service: look up the receipt, do the work, store the receipt, answer. *)

Work == [create |-> <<"run">>, event |-> <<"event">>,
         resolve |-> <<"approval", "status", "event">>,
         rework |-> <<"approval", "status", "event", "run", "state">>]

Step(s, t) == serving' = (serving \ {s}) \cup {t}

Start(s, w) == Step(s, [s EXCEPT !.at = "work", !.worker = w, !.todo = Work[s.op]])

Take_NoLookup(s, w) ==
  /\ s.at = "queued" /\ \A o \in serving : o.worker # w
  /\ Start(s, w)
  /\ UNCHANGED <<office, pool, receipts, effects, tables, history>>

Take(s, w) ==
  /\ s.at = "queued" /\ \A o \in serving : o.worker # w
  /\ IF pool["receipts"] = w /\ receipts[s.req] # Unknown
     THEN Step(s, [s EXCEPT !.at = "answer", !.worker = w, !.answer = receipts[s.req]])
     ELSE Start(s, w)
  /\ UNCHANGED <<office, pool, receipts, effects, tables, history>>

(* A run resumed and one closed by its approval are not told apart. *)
Verdict(s)   == IF s.op = "resolve" /\ s.code = "a" THEN "approved" ELSE "rejected"
RunStatus(s) == IF Verdict(s) = "approved" THEN "resumed" ELSE "cancelled"

(* One commit of the work, in the table it writes; events are not kept. *)
ApprovalsAfter(s, what) ==
  IF what = "approval" THEN [approvals EXCEPT ![s.state.approval].status = Verdict(s)]
  ELSE approvals
RunsAfter_Unsaved(s, what) ==
  IF what = "status" THEN [runs EXCEPT ![s.state.run] = RunStatus(s)] ELSE runs
RunsAfter(s, what) ==
  CASE what = "run"    -> Append(runs, "created")
    [] what = "status" -> [runs EXCEPT ![s.state.run] = RunStatus(s)]
    [] OTHER -> runs
RowAfter(s, what) ==
  IF what = "state" THEN [row EXCEPT !.run = s.answer.run, !.approval = 0] ELSE row
Commit(s, what) ==
  approvals' = ApprovalsAfter(s, what) /\ runs' = RunsAfter(s, what) /\ row' = RowAfter(s, what)

(* A connection that raises, which the service answers as a refusal. *)
Refuse_Accepts(s) ==
  Step(s, [s EXCEPT !.todo = <<>>, !.at = "receipt", !.answer = [accepted |-> TRUE, run |-> 0]])
Refuse(s) == Step(s, [s EXCEPT !.todo = <<>>, !.at = "receipt", !.answer = Rejected])

DoWork(s) ==
  LET what == Head(s.todo)
      c    == IF what = "state" THEN "state" ELSE "store"
      made == IF what = "run" THEN Len(runs) + 1 ELSE s.answer.run
      last == Len(s.todo) = 1
  IN
  /\ s.at = "work"
  /\ IF pool[c] = s.worker
     THEN /\ Commit(s, what)
          /\ Step(s, [s EXCEPT !.todo = Tail(@), !.at = IF last THEN "receipt" ELSE @,
                               !.answer = [accepted |-> last, run |-> made]])
          /\ effects' = IF last THEN [effects EXCEPT ![s.req] = @ + 1] ELSE effects
     ELSE Refuse(s) /\ UNCHANGED <<effects, tables>>
  /\ UNCHANGED <<office, pool, receipts, history>>

PutReceipt(s) ==
  /\ s.at = "receipt"
  /\ receipts' = IF pool["receipts"] = s.worker
                 THEN [receipts EXCEPT ![s.req] = s.answer] ELSE receipts
  /\ Step(s, [s EXCEPT !.at = "answer"])
  /\ UNCHANGED <<office, pool, effects, tables, history>>

(* The answer reaches the attempt that waits for it, or nobody. *)
Awaited(s) == call.at = "wait" /\ call.req = s.req /\ call.try = s.try
Reply(s) ==
  /\ s.at = "answer"
  /\ serving' = serving \ {s}
  /\ \/ Awaited(s) /\ Return(s.answer) /\ UNCHANGED faults
     \/ Awaited(s) /\ Fault("lost") /\ TransportError
     \/ ~Awaited(s) /\ UNCHANGED <<call, hook, faults>>
  /\ OfficeRest /\ UNCHANGED <<pool, receipts, effects, tables, overtaken>>

-----------------------------------------------------------------------------
(* Restarts.  The threads of a process and its memory are lost.            *)

RestartOffice ==
  /\ Fault("office") /\ Abandon
  /\ hook' = Idle /\ call' = NoCall /\ mem' = NoPair /\ cross' = FALSE
  /\ conn' \in [DOMAIN conn -> Thread]
  /\ mission' = IF mission = "running" THEN "startable" ELSE mission
  /\ UNCHANGED <<starts, service, tables>>

RestartService ==
  /\ Fault("service") /\ overtaken' = TRUE
  /\ serving' = {} /\ pool' \in [DOMAIN pool -> Worker]
  /\ IF call.at = "wait" THEN TransportError ELSE UNCHANGED <<call, hook>>
  /\ OfficeRest /\ UNCHANGED <<receipts, effects, tables>>

HookStep == MakeTask \/ SaveRun \/ ReadState \/ AskApproval \/ PauseRun \/ SaveApproval
Serve    == \E s \in serving : \/ \E w \in Worker : Take(s, w)
                              \/ DoWork(s) \/ PutReceipt(s) \/ Reply(s)

Next ==
  \/ \E t \in Thread : BeginRun(t)
  \/ HookStep \/ EndRun \/ ReworkInBackground
  \/ \E code \in Code : Decide(code)
  \/ Open
  \/ Send \/ LoseRequest \/ GiveUp \/ Serve
  \/ RestartOffice \/ RestartService

Spec == Init /\ [][Next]_vars

-----------------------------------------------------------------------------
(* Properties.                                                             *)

(* The variables keep their shape, and every id that is stored names a     *)
(* row: a run or approval that was made, never one to come.                *)
TypeOK ==
  /\ runs \in Seq({"created", "waiting_approval", "resumed", "cancelled"})
  /\ approvals \in Seq([run : 1 .. Len(runs), status : {"requested", "approved", "rejected"}])
  /\ \A p \in {row, mem, hook.state} \cup {s.state : s \in serving} :
        p \in [task : BOOLEAN, run : 0 .. Len(runs), approval : 0 .. Len(approvals)]
  /\ receipts \in [Request -> [accepted : BOOLEAN, run : 0 .. Len(runs) + 1]]
  /\ mission \in {"startable", "running", "waiting", "closed"} /\ starts \in 0 .. MaxStarts
  /\ hook.at \in (DOMAIN Calls) \cup {"idle", "task", "saveRun", "working", "read", "ask",
                                    "pause", "saveApproval"}
  /\ hook.thread \in Thread /\ hook.code \in Code \cup {NoCode}
  /\ conn \in [{"store", "state"} -> Thread]
  /\ call \in [at : {"none", "send", "wait"}, req : Request \cup {0},
               op : DOMAIN Work, try : 0 .. MaxRetries]
  /\ serving \subseteq Attempt
  /\ pool \in [{"store", "state", "receipts"} -> Worker]
  /\ effects \in [Request -> Nat] /\ faults \in 0 .. MaxFaults /\ overtaken \in BOOLEAN

(* "Retry by idempotent contract": the work of one request is completed at *)
(* most once, however often the client sends it and whichever worker takes *)
(* each attempt.  It takes that no attempt is repeated while the service   *)
(* still has it, receipt, work and receipt again being three steps, and    *)
(* that the worker who can do the work can also read receipts.             *)
EffectOnce ==
  ~overtaken /\ pool["receipts"] = pool["store"] => \A q \in Request : effects[q] <= 1

(* Whoever is told that a request was accepted, by the service or by a     *)
(* receipt, is told so of work that was completed.                         *)
AcceptedIsDone ==
  /\ \A s \in serving : s.at \in {"receipt", "answer"} /\ s.answer.accepted => effects[s.req] > 0
  /\ \A q \in Request : receipts[q].accepted => effects[q] > 0

(* The run and the approval in the mission's row belong together, whoever  *)
(* wrote which half: the office, a later run of it, or the service.        *)
RowPairsMatch ==
  ~overtaken /\ row.run # 0 /\ row.approval # 0 => approvals[row.approval].run = row.run
=============================================================================
