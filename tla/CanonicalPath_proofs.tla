-------------------------- MODULE CanonicalPath_proofs --------------------------
(***************************************************************************)
(* Proofs about CanonicalPath, for any threads, workers and request ids    *)
(* and any number of runs, retries, restarts and disturbed calls.          *)
(*                                                                         *)
(* Ids are counted: TypeInv has the types and, for every pair, answer and  *)
(* receipt, that the ids it names were given out.  While no attempt was    *)
(* abandoned the service has at most the attempt the office waits for      *)
(* (AloneInv), and from that follow both that the work of a request is     *)
(* completed once (OnceInv: a completed request has its receipt, or the    *)
(* worker about to write it is the one that can) and that the halves of    *)
(* the row belong together (RowInv: nobody changes the run of the row      *)
(* between the question of a hook and its answer).                         *)
(***************************************************************************)
EXTENDS CanonicalPath, SequenceTheorems, WellFoundedInduction, TLAPS

RunStatuses == {"created", "waiting_approval", "resumed", "cancelled"}
ApprovalRow == [run : Nat, status : {"requested", "approved", "rejected"}]
HookAt      == (DOMAIN Calls) \cup {"idle", "task", "saveRun", "working", "read", "ask",
                                  "pause", "saveApproval"}
Hooks       == [at : HookAt, thread : Thread, code : Code \cup {NoCode}, state : Pair]
CallState   == [at : {"none", "send", "wait"}, req : Request \cup {0},
                op : DOMAIN Work, try : 0 .. MaxRetries]

\* A pair names a run and an approval that were made.
Names(p) == p.run <= Len(runs) /\ p.approval <= Len(approvals)

TablesOK ==
  /\ runs \in Seq(RunStatuses) /\ approvals \in Seq(ApprovalRow)
  /\ \A i \in DOMAIN approvals : approvals[i].run # 0 /\ approvals[i].run <= Len(runs)

PairsOK == row \in Pair /\ Names(row) /\ mem \in Pair /\ Names(mem)

HookOK ==
  /\ hook \in Hooks /\ Names(hook.state)
  /\ hook.at \in {"ask", "pause", "saveApproval"} => hook.state.run # 0

CallOK ==
  /\ call \in CallState
  /\ call.at # "none" => call.req \in Request /\ hook.at \in DOMAIN Calls

AttemptOK(s) ==
  /\ s \in Attempt /\ Names(s.state) /\ s.answer.run <= Len(runs)
  /\ s.at = "work" => s.todo # <<>>

ReceiptsOK ==
  /\ receipts \in [Request -> Answer]
  /\ \A q \in Request : receipts[q] = Unknown \/ receipts[q].run <= Len(runs)

RestOK ==
  /\ mission \in {"startable", "running", "waiting", "closed"} /\ starts \in 0 .. MaxStarts
  /\ cross \in BOOLEAN /\ conn \in [{"store", "state"} -> Thread]
  /\ pool \in [{"store", "state", "receipts"} -> Worker]
  /\ effects \in [Request -> Nat] /\ faults \in 0 .. MaxFaults /\ overtaken \in BOOLEAN

TypeInv ==
  /\ TablesOK /\ PairsOK /\ HookOK /\ CallOK /\ ReceiptsOK /\ RestOK
  /\ \A s \in serving : AttemptOK(s)

\* The service has nothing but the attempt the office waits for.
AloneInv ==
  ~overtaken => \A s \in serving : Awaited(s) /\ \A t \in serving : t = s

\* Where a request was completed there is its receipt, or the attempt that did
\* it is about to write it and can.
OnceInv ==
  ~overtaken /\ pool["receipts"] = pool["store"] =>
    /\ \A s \in serving :
         /\ s.at = "work" => IF s.worker = pool["store"] THEN effects[s.req] = 0
                             ELSE s.todo = Work[s.op]
         /\ s.at = "receipt" => s.answer # Unknown
    /\ \A q \in Request :
         /\ effects[q] <= 1
         /\ effects[q] # 0 =>
              \/ receipts[q] # Unknown
              \/ \E s \in serving : s.req = q /\ s.at = "receipt" /\ s.worker = pool["receipts"]

\* From the question of a hook to its end, its run is the row's, if it can
\* write the row at all.
RowInv ==
  ~overtaken =>
    /\ row.run # 0 /\ row.approval # 0 => approvals[row.approval].run = row.run
    /\ hook.at \in {"pause", "saveApproval"} =>
         hook.state.approval # 0 /\ approvals[hook.state.approval].run = hook.state.run
    /\ hook.at \in {"ask", "pause", "saveApproval"} /\ conn["state"] = hook.thread =>
         row.run \in {0, hook.state.run}

-----------------------------------------------------------------------------
(* Types.                                                                  *)

LEMMA Domains ==
  /\ DOMAIN Calls = {"create", "started", "asked", "resolve", "resolved", "rework"}
  /\ DOMAIN Work = {"create", "event", "resolve", "rework"}
  /\ \A at \in DOMAIN Calls : Calls[at] \in DOMAIN Work
BY DEF Calls, Work

Todo == {"approval", "status", "event", "run", "state"}

\* All work begins in the store.
LEMMA WorkTypes ==
  ASSUME NEW op \in DOMAIN Work
  PROVE  Work[op] \in Seq(Todo) /\ Work[op] # <<>> /\ Head(Work[op]) # "state"
<1>1. op \in {"create", "event", "resolve", "rework"}
  BY Domains
<1>2. CASE op = "create"
  BY <1>2 DEF Work, Todo
<1>3. CASE op = "event"
  BY <1>3 DEF Work, Todo
<1>4. CASE op = "resolve"
  BY <1>4 DEF Work, Todo
<1>5. CASE op = "rework"
  BY <1>5 DEF Work, Todo
<1> QED
  BY <1>1, <1>2, <1>3, <1>4, <1>5

\* The first requested approval is one of them.
LEMMA LeastOf ==
  ASSUME NEW T, T \subseteq Nat, T # {}
  PROVE  \E x \in T : \A y \in T : x <= y
<1> DEFINE R == OpToRel(<, Nat)
<1>1. IsWellFoundedOn(R, Nat)
  BY NatLessThanWellFounded
<1>2. \A x, y \in Nat : y < x => <<y, x>> \in R
  BY DEF OpToRel
<1> HIDE DEF R
<1>3. PICK x \in T : \A y \in T : ~(<<y, x>> \in R)
  BY <1>1, WFMin
<1>4. \A y \in T : y \in Nat /\ x \in Nat /\ ~(y < x)
  BY <1>2, <1>3
<1>5. \A y \in T : x <= y
  BY <1>4
<1> QED
  BY <1>5

LEMMA RecoveredTypes ==
  ASSUME TypeInv, Requested # {}
  PROVE  /\ Recovered \in Pair /\ Names(Recovered) /\ Recovered.run # 0 /\ Recovered.approval # 0
         /\ approvals[Recovered.approval].run = Recovered.run
<1>0. TablesOK
  BY DEF TypeInv
<1>1. DOMAIN approvals = 1 .. Len(approvals) /\ Len(approvals) \in Nat
  BY <1>0, LenProperties DEF TablesOK
<1>2. Requested \subseteq 1 .. Len(approvals)
  BY <1>1 DEF Requested
<1>3. \E i \in Requested : \A j \in Requested : i <= j
  <2>1. Requested \subseteq Nat
    BY <1>2
  <2> QED
    BY <2>1, LeastOf
<1> DEFINE i == CHOOSE i \in Requested : \A j \in Requested : i <= j
<1>4. i \in 1 .. Len(approvals)
  BY <1>2, <1>3
<1>5. Recovered = [task |-> TRUE, run |-> approvals[i].run, approval |-> i]
  BY DEF Recovered
<1> HIDE DEF i
<1>6. approvals[i] \in ApprovalRow /\ approvals[i].run # 0 /\ approvals[i].run <= Len(runs)
  BY <1>0, <1>1, <1>4, ElementOfSeq DEF TablesOK
<1> QED
  BY <1>1, <1>4, <1>5, <1>6 DEF Pair, Names, ApprovalRow

\* Ids that name something make the types of TypeOK.
LEMMA TypesSuffice == TypeInv => TypeOK
<1> SUFFICES ASSUME TypeInv PROVE TypeOK
  OBVIOUS
<1>0. /\ TablesOK /\ PairsOK /\ HookOK /\ CallOK /\ ReceiptsOK /\ RestOK
      /\ \A s \in serving : AttemptOK(s)
  BY DEF TypeInv
<1>1. Len(runs) \in Nat /\ Len(approvals) \in Nat /\ DOMAIN approvals = 1 .. Len(approvals)
  BY <1>0, LenProperties DEF TablesOK
<1> DEFINE A == [run : 1 .. Len(runs), status : {"requested", "approved", "rejected"}]
           P == [task : BOOLEAN, run : 0 .. Len(runs), approval : 0 .. Len(approvals)]
<1>2. approvals \in Seq(A)
  <2>1. \A i \in 1 .. Len(approvals) : approvals[i] \in A
    <3> SUFFICES ASSUME NEW i \in 1 .. Len(approvals) PROVE approvals[i] \in A
      OBVIOUS
    <3>1. approvals[i] \in ApprovalRow
      BY <1>0, ElementOfSeq DEF TablesOK
    <3> QED
      BY <1>0, <1>1, <3>1 DEF ApprovalRow, TablesOK
  <2>2. approvals \in [1 .. Len(approvals) -> ApprovalRow]
    BY <1>0, LenProperties DEF TablesOK
  <2>3. approvals \in [1 .. Len(approvals) -> A]
    BY <2>1, <2>2
  <2> QED
    BY <1>1, <2>3, SeqDef
<1>3. \A p \in Pair : Names(p) => p \in P
  BY <1>1 DEF Pair, Names
<1>4. row \in P /\ mem \in P /\ hook.state \in P /\ \A s \in serving : s.state \in P
  BY <1>0, <1>3 DEF PairsOK, HookOK, AttemptOK, Hooks, Attempt
<1>5. receipts \in [Request -> [accepted : BOOLEAN, run : 0 .. Len(runs) + 1]]
  <2> SUFFICES ASSUME NEW q \in Request
               PROVE  receipts[q] \in [accepted : BOOLEAN, run : 0 .. Len(runs) + 1]
    BY <1>0 DEF ReceiptsOK
  <2>1. receipts[q] \in Answer /\ (receipts[q] = Unknown \/ receipts[q].run <= Len(runs))
    BY <1>0 DEF ReceiptsOK
  <2> QED
    BY <1>1, <2>1 DEF Answer, Unknown
<1>6. runs \in Seq({"created", "waiting_approval", "resumed", "cancelled"})
  BY <1>0 DEF TablesOK, RunStatuses
<1>7. /\ hook.at \in (DOMAIN Calls) \cup {"idle", "task", "saveRun", "working", "read", "ask",
                                        "pause", "saveApproval"}
      /\ hook.thread \in Thread /\ hook.code \in Code \cup {NoCode}
  BY <1>0 DEF HookOK, Hooks, HookAt
<1>8. serving \subseteq Attempt
  BY <1>0 DEF AttemptOK
<1> HIDE DEF A, P
<1>9. \A p \in {row, mem, hook.state} \cup {s.state : s \in serving} : p \in P
  BY <1>4
<1> QED
  BY <1>0, <1>2, <1>5, <1>6, <1>7, <1>8, <1>9 DEF TypeOK, CallOK, CallState, RestOK, A, P

LEMMA InitTypes == Init => TypeInv
<1> SUFFICES ASSUME Init PROVE TypeInv
  OBVIOUS
<1>1. Len(runs) = 0 /\ Len(approvals) = 0 /\ runs \in Seq(RunStatuses) /\ approvals \in Seq(ApprovalRow)
  BY EmptySeq DEF Init
<1>2. DOMAIN approvals = {}
  BY <1>1, LenProperties
<1>3. NoPair \in Pair /\ Names(NoPair) /\ Unknown \in Answer
  BY <1>1 DEF NoPair, Pair, Names, Unknown, Answer
<1>4. Idle \in Hooks /\ Idle.at = "idle" /\ Idle.state = NoPair
  BY <1>3, Domains DEF Idle, Hooks, HookAt, Thread, NoCode
<1>5. NoCall \in CallState /\ NoCall.at = "none"
  BY Domains, CanonicalAssumption DEF NoCall, CallState
<1>6. TablesOK /\ PairsOK
  BY <1>1, <1>2, <1>3 DEF Init, TablesOK, PairsOK
<1>7. HookOK /\ CallOK
  BY <1>3, <1>4, <1>5 DEF Init, HookOK, CallOK
<1>8. ReceiptsOK
  BY <1>3 DEF Init, ReceiptsOK
<1>9. RestOK
  <2>1. effects \in [Request -> Nat]
    BY DEF Init
  <2>2. starts \in 0 .. MaxStarts /\ faults \in 0 .. MaxFaults
    BY CanonicalAssumption DEF Init
  <2> QED
    BY <2>1, <2>2 DEF Init, RestOK
<1> QED
  BY <1>6, <1>7, <1>8, <1>9 DEF Init, TypeInv

-----------------------------------------------------------------------------
(* What a step keeps of them.                                              *)

\* The tables only grow, so what was known stays known.
LEMMA StaysKnown ==
  ASSUME TypeInv, TablesOK', Len(runs) <= Len(runs'), Len(approvals) <= Len(approvals')
  PROVE  /\ \A p : p.run \in Nat /\ p.approval \in Nat /\ Names(p) =>
                    p.run <= Len(runs') /\ p.approval <= Len(approvals')
         /\ UNCHANGED <<row, mem>> => PairsOK'
         /\ UNCHANGED hook => HookOK'
         /\ UNCHANGED receipts => ReceiptsOK'
         /\ \A s \in serving : AttemptOK(s)'
<1>1. Len(runs) \in Nat /\ Len(runs') \in Nat /\ Len(approvals) \in Nat /\ Len(approvals') \in Nat
  BY LenProperties DEF TypeInv, TablesOK
<1>2. \A p : p.run \in Nat /\ p.approval \in Nat /\ Names(p) =>
               p.run <= Len(runs') /\ p.approval <= Len(approvals')
  BY <1>1 DEF Names
<1>3. UNCHANGED <<row, mem>> => PairsOK'
  BY <1>2 DEF TypeInv, PairsOK, Pair, Names
<1>4. UNCHANGED hook => HookOK'
  BY <1>2 DEF TypeInv, HookOK, Hooks, Pair, Names
<1>5. UNCHANGED receipts => ReceiptsOK'
  <2> SUFFICES ASSUME UNCHANGED receipts, NEW q \in Request
               PROVE  receipts[q] = Unknown \/ receipts[q].run <= Len(runs')
    BY DEF TypeInv, ReceiptsOK
  <2>1. receipts[q] \in Answer /\ (receipts[q] = Unknown \/ receipts[q].run <= Len(runs))
    BY DEF TypeInv, ReceiptsOK
  <2> QED
    BY <1>1, <2>1 DEF Answer
<1>6. ASSUME NEW s \in serving PROVE AttemptOK(s)'
  <2>1. AttemptOK(s)
    BY DEF TypeInv
  <2>2. s.state.run \in Nat /\ s.state.approval \in Nat /\ s.answer.run \in Nat
    BY <2>1 DEF AttemptOK, Attempt, Pair, Answer
  <2> QED
    BY <1>1, <1>2, <2>1, <2>2 DEF AttemptOK, Names
<1> QED
  BY <1>2, <1>3, <1>4, <1>5, <1>6

\* What a hook does with an answer, and with a transport error.
LEMMA AfterTypes ==
  ASSUME TypeInv, call.at # "none", NEW ans \in Answer, ans.run <= Len(runs)
  PROVE  /\ After(ans) \in Hooks /\ Names(After(ans).state)
         /\ After(ans).at \notin {"ask", "pause", "saveApproval"}
<1>1. /\ hook \in Hooks /\ Names(hook.state)
      /\ hook.at \in {"create", "started", "asked", "resolve", "resolved", "rework"}
  BY Domains DEF TypeInv, HookOK, CallOK
<1>2. Idle \in Hooks /\ Names(Idle.state) /\ Idle.at = "idle"
  <2>1. NoPair \in Pair /\ Names(NoPair)
    BY LenProperties DEF NoPair, Pair, Names, TypeInv, TablesOK
  <2> QED
    BY <2>1, Domains DEF Idle, Hooks, HookAt, Thread, NoCode
<1>3. CASE hook.at = "create"
  <2> DEFINE at == IF ans.run # 0 /\ ans.accepted THEN "saveRun" ELSE "working"
  <2>1. After(ans) = [hook EXCEPT !.at = at, !.state = [@ EXCEPT !.run = ans.run]]
    BY <1>3 DEF After
  <2>2. at \in HookAt /\ at \in {"saveRun", "working"}
    BY DEF HookAt
  <2> HIDE DEF at
  <2> QED
    BY <1>1, <2>1, <2>2 DEF Hooks, Pair, Answer, Names
<1>4. CASE hook.at # "create"
  <2>1. After(ans) \in {Idle, [hook EXCEPT !.at = "working"], [hook EXCEPT !.at = "resolved"],
                         [hook EXCEPT !.at = "rework"]}
    BY <1>1, <1>4 DEF After
  <2> QED
    BY <1>1, <1>2, <2>1, Domains DEF Hooks, HookAt
<1> QED
  BY <1>3, <1>4

LEMMA ReturnTypes ==
  ASSUME TypeInv, call.at # "none", NEW ans \in Answer, ans.run <= Len(runs), Return(ans),
         UNCHANGED <<runs, approvals>>
  PROVE  HookOK' /\ CallOK' /\ call' = NoCall
<1>1. NoCall \in CallState /\ NoCall.at = "none"
  BY Domains, CanonicalAssumption DEF NoCall, CallState
<1> QED
  BY <1>1, AfterTypes DEF Return, HookOK, CallOK, Names

LEMMA TransportTypes ==
  ASSUME TypeInv, call.at # "none", TransportError, UNCHANGED <<runs, approvals>>
  PROVE  HookOK' /\ CallOK' /\ call'.at \in {"none", "send"}
<1>1. CASE call.try < MaxRetries
  <2>1. call' = [call EXCEPT !.at = "send", !.try = @ + 1] /\ hook' = hook
    BY <1>1 DEF TransportError
  <2>2. call \in CallState /\ call.req \in Request /\ hook.at \in DOMAIN Calls
    BY DEF TypeInv, CallOK
  <2>3. call' \in CallState /\ call'.at = "send" /\ call'.req = call.req
    <3>1. call.try + 1 \in 0 .. MaxRetries
      BY <1>1, <2>2, CanonicalAssumption DEF CallState
    <3>2. call' = [call EXCEPT !.at = "send", !.try = call.try + 1]
      BY <2>1, <2>2 DEF CallState
    <3> QED
      BY <2>2, <3>1, <3>2 DEF CallState
  <2> QED
    BY <2>1, <2>2, <2>3 DEF TypeInv, HookOK, CallOK, Names
<1>2. CASE ~(call.try < MaxRetries)
  <2>1. Return(Rejected)
    BY <1>2 DEF TransportError
  <2>2. Rejected \in Answer /\ Rejected.run <= Len(runs)
    BY LenProperties DEF Rejected, Answer, TypeInv, TablesOK
  <2> QED
    BY <2>1, <2>2, ReturnTypes DEF NoCall
<1> QED
  BY <1>1, <1>2

LEMMA SetStateTypes ==
  ASSUME TypeInv, NEW p \in Pair, NEW m \in Pair, Names(p), Names(m), NEW at \in {"started", "asked"},
         SetState(p, m, at), call.at = "none"
  PROVE  TypeInv'
<1>1. /\ row' \in {p, row} /\ mem' = m /\ hook' = [hook EXCEPT !.at = at] /\ call' = call
      /\ UNCHANGED <<runs, approvals, serving, receipts>>
  BY DEF SetState, Goto, service
<1>2. TablesOK' /\ ReceiptsOK' /\ \A s \in serving' : AttemptOK(s)'
  BY <1>1, StaysKnown DEF TypeInv, TablesOK
<1>3. PairsOK'
  BY <1>1 DEF TypeInv, PairsOK, Names
<1>4. HookOK' /\ CallOK'
  BY <1>1, Domains DEF TypeInv, HookOK, CallOK, Hooks, HookAt, Names
<1>5. RestOK'
  BY DEF SetState, service, history, TypeInv, RestOK
<1> QED
  BY <1>2, <1>3, <1>4, <1>5 DEF TypeInv

\* The steps of the office that leave the tables and the service alone.
LEMMA QuietTypes ==
  ASSUME TypeInv, UNCHANGED <<service, runs, approvals>>, PairsOK', HookOK', CallOK',
         mission' \in {"startable", "running", "waiting", "closed"}, starts' \in 0 .. MaxStarts,
         cross' \in BOOLEAN, conn' \in [{"store", "state"} -> Thread],
         faults' \in 0 .. MaxFaults, overtaken' \in BOOLEAN
  PROVE  TypeInv'
<1>1. TablesOK' /\ UNCHANGED <<serving, receipts, pool, effects>>
  BY DEF TypeInv, TablesOK, service
<1>2. ReceiptsOK' /\ \A s \in serving' : AttemptOK(s)'
  BY <1>1, StaysKnown DEF TypeInv, TablesOK
<1>3. RestOK'
  BY <1>1 DEF TypeInv, RestOK
<1> QED
  BY <1>1, <1>2, <1>3 DEF TypeInv

LEMMA HookTypes ==
  ASSUME TypeInv,
         \/ \E t \in Thread : BeginRun(t)
         \/ HookStep \/ EndRun \/ ReworkInBackground \/ \E code \in Code : Decide(code)
  PROVE  TypeInv'
<1>0. TablesOK /\ PairsOK /\ HookOK /\ CallOK /\ ReceiptsOK /\ RestOK
  BY DEF TypeInv
<1>a. call.at = "none"
  <2>1. hook.at \notin DOMAIN Calls
    <3>1. hook = Idle \/ hook.at \in {"task", "saveRun", "working", "read", "ask", "pause", "saveApproval"}
      BY DEF BeginRun, HookStep, MakeTask, SaveRun, ReadState, AskApproval, PauseRun, SaveApproval,
         EndRun, ReworkInBackground, Decide
    <3> QED
      BY <3>1, Domains DEF Idle
  <2> QED
    BY <1>0, <2>1 DEF CallOK, CallState
<1>b. Len(runs) \in Nat /\ Len(approvals) \in Nat /\ DOMAIN approvals = 1 .. Len(approvals)
  BY <1>0, LenProperties DEF TablesOK
<1>c. Idle \in Hooks /\ Idle.at = "idle" /\ Idle.thread = "loop" /\ Idle.code = NoCode
      /\ Idle.state = NoPair /\ NoPair \in Pair /\ Names(NoPair)
  BY <1>b, Domains DEF NoPair, Pair, Names, Idle, Hooks, HookAt, Thread, NoCode
\* Steps that only move the hook on.
<1>d. ASSUME UNCHANGED <<service, tables, mem, call, conn, history>>, HookOK',
             mission' \in {"startable", "running", "waiting", "closed"},
             starts' \in 0 .. MaxStarts, cross' \in BOOLEAN
      PROVE  TypeInv'
  <2>1. PairsOK' /\ CallOK'
    BY <1>0, <1>a, <1>d DEF tables, PairsOK, CallOK, Names
  <2> QED
    BY <1>0, <1>d, <2>1, QuietTypes DEF tables, history, RestOK
<1>e. ASSUME UNCHANGED <<runs, approvals>>, NEW at \in HookAt \ {"ask", "pause", "saveApproval"},
             hook' = [hook EXCEPT !.at = at]
      PROVE  HookOK'
  BY <1>0, <1>e DEF HookOK, Hooks, Names
<1>f. ASSUME UNCHANGED <<runs, approvals>>, hook' = Idle PROVE HookOK'
  BY <1>c, <1>f DEF HookOK, Names
<1>1. ASSUME NEW t \in Thread, BeginRun(t) PROVE TypeInv'
  <2>1. hook' = [Idle EXCEPT !.at = "task", !.thread = t] /\ UNCHANGED <<runs, approvals>>
    BY <1>1 DEF BeginRun, tables
  <2>2. HookOK'
    BY <1>c, <2>1 DEF HookOK, Hooks, HookAt, Names
  <2>3. starts' \in 0 .. MaxStarts
    <3>1. starts < MaxStarts /\ starts' = starts + 1
      BY <1>1 DEF BeginRun
    <3>2. starts \in 0 .. MaxStarts
      BY <1>0 DEF RestOK
    <3> QED
      BY <3>1, <3>2, CanonicalAssumption
  <2> QED
    BY <1>0, <1>1, <1>d, <2>2, <2>3 DEF BeginRun, RestOK
<1>2. CASE MakeTask
  <2>1. /\ cross' \in BOOLEAN
        /\ hook' = [hook EXCEPT !.at = "create"] \/ hook' = [hook EXCEPT !.at = "working"]
    BY <1>0, <1>2 DEF MakeTask, Goto, RestOK
  <2>2. {"create", "working"} \subseteq HookAt \ {"ask", "pause", "saveApproval"}
    BY Domains DEF HookAt
  <2>3. HookOK'
    BY <1>2, <1>e, <2>1, <2>2 DEF MakeTask, tables
  <2> QED
    BY <1>0, <1>2, <1>d, <2>1, <2>3 DEF MakeTask, RestOK
<1>3. CASE SaveRun
  <2> DEFINE state == [task |-> TRUE, run |-> hook.state.run, approval |-> 0]
  <2>1. state \in Pair /\ Names(state)
    BY <1>0, <1>b DEF HookOK, Hooks, Pair, Names
  <2>2. SetState(state, state, "started")
    BY <1>3 DEF SaveRun
  <2> HIDE DEF state
  <2> QED
    BY <1>a, <2>1, <2>2, SetStateTypes
<1>4. CASE ReadState
  <2>1. /\ UNCHANGED <<mission, starts, mem, cross, conn, call, service, runs, approvals, history>>
        /\ row' = row \/ (Requested # {} /\ row' = Recovered)
        /\ \/ hook' = Idle
           \/ \E at \in {"ask", "resolve"}, p \in {Recovered, row, mem} :
                 /\ hook' = [hook EXCEPT !.at = at, !.state = p] /\ p.run # 0
                 /\ p = Recovered => Requested # {} \/ p \in {row, mem}
    BY <1>4 DEF ReadState
  <2>2. Requested # {} => Recovered \in Pair /\ Names(Recovered)
    BY RecoveredTypes
  <2>3. PairsOK'
    BY <1>0, <2>1, <2>2 DEF PairsOK, Names
  <2>4. HookOK'
    <3>1. CASE hook' = Idle
      BY <1>f, <2>1, <3>1
    <3>2. ASSUME NEW at \in {"ask", "resolve"}, NEW p \in Pair, Names(p), p.run # 0,
                 hook' = [hook EXCEPT !.at = at, !.state = p]
          PROVE  HookOK'
      <4>1. at \in HookAt
        BY Domains DEF HookAt
      <4> QED
        BY <1>0, <2>1, <3>2, <4>1 DEF HookOK, Hooks, Names
    <3> QED
      BY <1>0, <2>1, <2>2, <3>1, <3>2 DEF PairsOK
  <2>5. CallOK'
    BY <1>0, <1>a, <2>1 DEF CallOK
  <2> QED
    BY <1>0, <2>1, <2>3, <2>4, <2>5, QuietTypes DEF RestOK, history
<1>5. CASE AskApproval
  <2>1. hook.at = "ask" /\ hook.state.run # 0
    BY <1>0, <1>5 DEF AskApproval, HookOK
  <2>2. CASE conn["store"] = hook.thread
    <3> DEFINE new == [run |-> hook.state.run, status |-> "requested"]
    <3>1. new \in ApprovalRow /\ new.run <= Len(runs) /\ new.run # 0
      BY <1>0, <2>1 DEF HookOK, Hooks, Pair, Names, ApprovalRow
    <3>2. /\ approvals' = Append(approvals, new)
          /\ hook' = [hook EXCEPT !.at = "pause", !.state.approval = Len(approvals')]
          /\ UNCHANGED <<mission, starts, mem, cross, conn, call, service, runs, row, history>>
      BY <1>5, <2>2 DEF AskApproval
    <3> HIDE DEF new
    <3>3. /\ approvals' \in Seq(ApprovalRow) /\ Len(approvals') = Len(approvals) + 1
          /\ \A i \in 1 .. Len(approvals') :
                approvals'[i] = IF i = Len(approvals) + 1 THEN new ELSE approvals[i]
      BY <1>0, <3>1, <3>2, AppendProperties DEF TablesOK
    <3>4. TablesOK'
      BY <1>0, <1>b, <3>1, <3>2, <3>3, LenProperties DEF TablesOK
    <3>5. Len(runs) <= Len(runs') /\ Len(approvals) <= Len(approvals')
      BY <1>b, <3>2, <3>3
    <3>6. PairsOK' /\ ReceiptsOK' /\ \A s \in serving' : AttemptOK(s)'
      BY <3>2, <3>4, <3>5, StaysKnown DEF service
    <3>7. HookOK'
      <4>1. "pause" \in HookAt
        BY DEF HookAt
      <4>2. hook \in Hooks /\ hook.state \in Pair /\ Names(hook.state)
        BY <1>0 DEF HookOK, Hooks
      <4>3. Len(approvals') \in Nat /\ runs' = runs
        BY <1>b, <3>2, <3>3
      <4>4. /\ hook'.at = "pause" /\ hook'.thread = hook.thread /\ hook'.code = hook.code
            /\ hook'.state = [hook.state EXCEPT !.approval = Len(approvals')] /\ hook' \in Hooks
        BY <3>2, <4>1, <4>2, <4>3 DEF Hooks, Pair
      <4>5. hook'.state.run = hook.state.run /\ hook'.state.approval = Len(approvals')
        BY <4>2, <4>4 DEF Pair
      <4> QED
        BY <1>b, <2>1, <3>3, <4>2, <4>3, <4>4, <4>5 DEF HookOK, Names
    <3>8. CallOK' /\ RestOK'
      BY <1>0, <1>a, <3>2 DEF CallOK, RestOK, service, history
    <3> QED
      BY <3>4, <3>6, <3>7, <3>8 DEF TypeInv
  <2>3. CASE conn["store"] # hook.thread
    BY <1>0, <1>5, <1>d, <1>f, <2>3 DEF AskApproval, Finish, tables, RestOK
  <2> QED
    BY <2>2, <2>3
<1>6. CASE PauseRun
  <2>1. /\ hook.at = "pause" /\ hook' = [hook EXCEPT !.at = "saveApproval"]
        /\ runs' = [runs EXCEPT ![hook.state.run] = "waiting_approval"]
        /\ UNCHANGED <<mission, starts, mem, cross, conn, call, service, approvals, row, history>>
    BY <1>6 DEF PauseRun, Goto
  <2>2. hook.state.run \in 1 .. Len(runs)
    BY <1>0, <1>b, <2>1 DEF HookOK, Hooks, Pair, Names
  <2>3. runs' \in Seq(RunStatuses) /\ Len(runs') = Len(runs)
    BY <1>0, <2>1, <2>2, ExceptSeq DEF TablesOK, RunStatuses
  <2>4. TablesOK'
    BY <1>0, <2>1, <2>3 DEF TablesOK
  <2>5. PairsOK' /\ ReceiptsOK' /\ \A s \in serving' : AttemptOK(s)'
    BY <1>b, <2>1, <2>3, <2>4, StaysKnown DEF service
  <2>6. HookOK'
    <3>1. "saveApproval" \in HookAt
      BY DEF HookAt
    <3> QED
      BY <1>0, <1>b, <2>1, <2>2, <2>3, <3>1 DEF HookOK, Hooks, Pair, Names
  <2>7. CallOK' /\ RestOK'
    BY <1>0, <1>a, <2>1 DEF CallOK, RestOK, service, history
  <2> QED
    BY <2>4, <2>5, <2>6, <2>7 DEF TypeInv
<1>7. CASE SaveApproval
  <2> DEFINE p == [row EXCEPT !.approval = hook.state.approval]
             m == [mem EXCEPT !.approval = hook.state.approval]
  <2>1. p \in Pair /\ m \in Pair /\ Names(p) /\ Names(m)
    BY <1>0 DEF HookOK, PairsOK, Hooks, Pair, Names
  <2>2. SetState(p, m, "asked")
    BY <1>7 DEF SaveApproval
  <2> HIDE DEF p, m
  <2> QED
    BY <1>a, <2>1, <2>2, SetStateTypes
<1>8. CASE EndRun
  <2>1. hook' = Idle \/ hook' = [hook EXCEPT !.at = "read"]
    BY <1>8 DEF EndRun, Goto, Finish
  <2>2. "read" \in HookAt \ {"ask", "pause", "saveApproval"}
    BY DEF HookAt
  <2>3. HookOK'
    BY <1>8, <1>e, <1>f, <2>1, <2>2 DEF EndRun, tables
  <2> QED
    BY <1>0, <1>8, <1>d, <2>3 DEF EndRun, RestOK
<1>9. CASE ReworkInBackground
  <2>1. HookOK'
    BY <1>0, <1>9 DEF ReworkInBackground, HookOK, Names, tables
  <2> QED
    BY <1>0, <1>9, <1>d, <2>1 DEF ReworkInBackground, RestOK
<1>10. ASSUME NEW code \in Code, Decide(code) PROVE TypeInv'
  <2>1. hook' = [Idle EXCEPT !.at = "read", !.code = code] /\ UNCHANGED <<runs, approvals>>
    BY <1>10 DEF Decide, tables
  <2>2. HookOK'
    BY <1>c, <2>1 DEF HookOK, Hooks, HookAt, Names
  <2> QED
    BY <1>0, <1>10, <1>d, <2>2 DEF Decide, RestOK
<1> QED
  BY <1>1, <1>2, <1>3, <1>4, <1>5, <1>6, <1>7, <1>8, <1>9, <1>10 DEF HookStep

\* Steps of the boundary and of the service.
LEMMA BoundaryTypes ==
  ASSUME TypeInv,
         Open \/ Send \/ LoseRequest \/ GiveUp \/ RestartOffice \/ RestartService
  PROVE  TypeInv'
<1>0. /\ TablesOK /\ PairsOK /\ HookOK /\ CallOK /\ ReceiptsOK /\ RestOK
      /\ \A s \in serving : AttemptOK(s)
  BY DEF TypeInv
<1>a. Len(runs) \in Nat /\ Len(approvals) \in Nat
  BY <1>0, LenProperties DEF TablesOK
<1>b. UNCHANGED tables => TablesOK' /\ \A s \in serving : AttemptOK(s)'
  BY <1>0, <1>a, StaysKnown DEF tables, TablesOK
<1>c. UNCHANGED <<tables, mem>> => PairsOK'
  BY <1>0 DEF tables, PairsOK, Names
<1>d. UNCHANGED <<tables, hook>> => HookOK'
  BY <1>0 DEF tables, HookOK, Names
<1>e. UNCHANGED <<tables, receipts>> => ReceiptsOK'
  BY <1>0 DEF tables, ReceiptsOK
<1>f. \A kind : Fault(kind) => faults' \in 0 .. MaxFaults
  <2> SUFFICES ASSUME NEW kind, Fault(kind) PROVE faults' \in 0 .. MaxFaults
    OBVIOUS
  <2>1. faults \in 0 .. MaxFaults
    BY <1>0 DEF RestOK
  <2>2. faults' = faults \/ (faults < MaxFaults /\ faults' = faults + 1)
    BY DEF Fault
  <2> QED
    BY <2>1, <2>2, CanonicalAssumption
<1>g. UNCHANGED <<service, tables>> => \A s \in serving' : AttemptOK(s)'
  BY <1>b DEF service
<1>1. CASE Open
  <2> DEFINE q == CHOOSE q \in Free : TRUE
             c == [at |-> "send", req |-> q, op |-> Calls[hook.at], try |-> 0]
  <2>1. q \in Request
    BY <1>1 DEF Open, Free
  <2>2. /\ hook.at \in DOMAIN Calls /\ call' = c
        /\ receipts' = [receipts EXCEPT ![q] = Unknown] /\ effects' = [effects EXCEPT ![q] = 0]
        /\ UNCHANGED <<mission, starts, mem, cross, conn, hook, serving, pool, tables, history>>
    BY <1>1 DEF Open, OfficeRest
  <2>3. c \in CallState /\ c.at = "send" /\ c.req = q
    BY <2>1, <2>2, Domains, CanonicalAssumption DEF CallState
  <2> HIDE DEF q, c
  <2>4. ReceiptsOK'
    <3>1. Unknown \in Answer
      BY DEF Unknown, Answer
    <3>2. receipts' \in [Request -> Answer] /\ runs' = runs
      BY <1>0, <2>2, <3>1 DEF ReceiptsOK, tables
    <3> QED
      BY <1>0, <2>2, <3>2 DEF ReceiptsOK
  <2>5. CallOK' /\ RestOK'
    BY <1>0, <2>1, <2>2, <2>3 DEF CallOK, RestOK, history
  <2> QED
    BY <1>b, <1>c, <1>d, <2>2, <2>4, <2>5 DEF TypeInv
<1>2. CASE Send
  <2>0. PICK s : s = [req |-> call.req, try |-> call.try, op |-> call.op,
                      code |-> hook.code, state |-> hook.state, at |-> "queued", worker |-> "none",
                      todo |-> <<>>, answer |-> Rejected]
    OBVIOUS
  <2>1. /\ call.at = "send" /\ call' = [call EXCEPT !.at = "wait"] /\ serving' = serving \cup {s}
        /\ UNCHANGED <<mission, starts, mem, cross, conn, hook, pool, receipts, effects, tables, history>>
    BY <1>2, <2>0 DEF Send, OfficeRest
  <2>2. s \in Attempt
    <3>1. /\ call.req \in Request /\ call.try \in 0 .. MaxRetries
          /\ call.op \in {"create", "event", "resolve", "rework"}
      BY <1>0, <2>1, Domains DEF CallOK, CallState
    <3>2. hook.code \in Code \cup {NoCode} /\ hook.state \in Pair
      BY <1>0 DEF HookOK, Hooks
    <3>3. Rejected \in Answer /\ <<>> \in Seq({"approval", "status", "event", "run", "state"})
      BY EmptySeq DEF Rejected, Answer
    <3> QED
      BY <2>0, <3>1, <3>2, <3>3 DEF Attempt
  <2>3. s.state = hook.state /\ s.answer.run = 0 /\ s.at = "queued"
    BY <2>0 DEF Rejected
  <2>4. AttemptOK(s)'
    BY <1>0, <1>a, <2>1, <2>2, <2>3 DEF AttemptOK, HookOK, Names, tables
  <2>5. CallOK' /\ RestOK'
    BY <1>0, <2>1 DEF CallOK, CallState, RestOK, history
  <2> QED
    BY <1>b, <1>c, <1>d, <1>e, <2>1, <2>4, <2>5 DEF TypeInv
<1>3. ASSUME TransportError, call.at # "none", UNCHANGED <<tables, mission, starts, mem, cross, conn>>,
             ReceiptsOK', pool' \in [{"store", "state", "receipts"} -> Worker],
             effects' = effects, faults' \in 0 .. MaxFaults, overtaken' \in BOOLEAN,
             serving' \subseteq serving
      PROVE  TypeInv'
  <2>1. HookOK' /\ CallOK'
    BY <1>3, TransportTypes DEF tables
  <2>2. RestOK'
    BY <1>0, <1>3 DEF RestOK
  <2> QED
    BY <1>b, <1>c, <1>3, <2>1, <2>2 DEF TypeInv
<1>4. CASE LoseRequest
  <2>1. faults' \in 0 .. MaxFaults
    BY <1>4, <1>f DEF LoseRequest
  <2> QED
    BY <1>0, <1>e, <1>3, <1>4, <2>1 DEF LoseRequest, OfficeRest, service, RestOK
<1>5. CASE GiveUp
  <2>1. faults' \in 0 .. MaxFaults
    BY <1>5, <1>f DEF GiveUp
  <2>2. overtaken' \in BOOLEAN
    BY <1>0, <1>5 DEF GiveUp, Abandon, RestOK
  <2> QED
    BY <1>0, <1>e, <1>3, <1>5, <2>1, <2>2 DEF GiveUp, OfficeRest, service, RestOK
<1>6. CASE RestartService
  <2>1. /\ faults' \in 0 .. MaxFaults /\ overtaken' \in BOOLEAN /\ serving' = {}
        /\ pool' \in [{"store", "state", "receipts"} -> Worker]
        /\ UNCHANGED <<mission, starts, mem, cross, conn, receipts, effects, tables>>
    BY <1>0, <1>6, <1>f DEF RestartService, OfficeRest, RestOK
  <2>2. ReceiptsOK' /\ PairsOK' /\ TablesOK'
    BY <1>b, <1>c, <1>e, <2>1
  <2>3. CASE call.at = "wait"
    <3>1. TransportError
      BY <1>6, <2>3 DEF RestartService
    <3> QED
      BY <1>3, <2>1, <2>2, <2>3, <3>1
  <2>4. CASE call.at # "wait"
    <3>1. UNCHANGED <<call, hook>>
      BY <1>6, <2>4 DEF RestartService
    <3>2. HookOK' /\ CallOK' /\ RestOK'
      BY <1>0, <1>d, <2>1, <3>1 DEF CallOK, RestOK
    <3> QED
      BY <2>1, <2>2, <3>2 DEF TypeInv
  <2> QED
    BY <2>3, <2>4
<1>7. CASE RestartOffice
  <2>1. /\ faults' \in 0 .. MaxFaults /\ overtaken' \in BOOLEAN
        /\ hook' = Idle /\ call' = NoCall /\ mem' = NoPair /\ cross' = FALSE
        /\ conn' \in [{"store", "state"} -> Thread]
        /\ mission' \in {"startable", "running", "waiting", "closed"}
        /\ UNCHANGED <<starts, service, tables>>
    BY <1>0, <1>7, <1>f DEF RestartOffice, Abandon, RestOK
  <2>2. NoPair \in Pair /\ Names(NoPair) /\ NoPair.run = 0
    BY <1>a DEF NoPair, Pair, Names
  <2>3. /\ Idle \in Hooks /\ Idle.at = "idle" /\ Idle.state = NoPair
        /\ NoCall \in CallState /\ NoCall.at = "none"
    BY <2>2, Domains, CanonicalAssumption DEF Idle, Hooks, HookAt, Thread, NoCode, NoCall, CallState
  <2>4. PairsOK' /\ HookOK' /\ CallOK'
    BY <1>0, <2>1, <2>2, <2>3 DEF PairsOK, HookOK, CallOK, Names, tables
  <2> QED
    BY <1>0, <2>1, <2>4, QuietTypes DEF RestOK, tables
<1> QED
  BY <1>1, <1>2, <1>4, <1>5, <1>6, <1>7

LEMMA TakeTypes ==
  ASSUME TypeInv, NEW s \in serving, NEW w \in Worker, Take(s, w)
  PROVE  TypeInv' /\ \E t \in Attempt : Step(s, t) /\ AttemptOK(t)
<1>0. /\ TablesOK /\ PairsOK /\ HookOK /\ CallOK /\ ReceiptsOK /\ RestOK
      /\ \A t \in serving : AttemptOK(t)
  BY DEF TypeInv
<1>1. AttemptOK(s) /\ s \in Attempt /\ s.op \in DOMAIN Work /\ s.req \in Request
  BY <1>0, Domains DEF AttemptOK, Attempt
<1>2. UNCHANGED <<office, pool, receipts, effects, tables, history>>
  BY DEF Take
<1>3. PICK t : Step(s, t) /\ AttemptOK(t)
  <2>1. CASE receipts[s.req] # Unknown /\ Step(s, [s EXCEPT !.at = "answer", !.worker = w, !.answer = receipts[s.req]])
    <3>1. receipts[s.req] \in Answer /\ receipts[s.req].run <= Len(runs)
      BY <1>0, <1>1, <2>1 DEF ReceiptsOK
    <3>2. AttemptOK([s EXCEPT !.at = "answer", !.worker = w, !.answer = receipts[s.req]])
      BY <1>1, <3>1 DEF AttemptOK, Attempt
    <3> QED
      BY <2>1, <3>2
  <2>2. CASE Start(s, w)
    <3>1. Work[s.op] \in Seq(Todo) /\ Work[s.op] # <<>>
      BY <1>1, WorkTypes
    <3>2. AttemptOK([s EXCEPT !.at = "work", !.worker = w, !.todo = Work[s.op]])
      BY <1>1, <3>1 DEF AttemptOK, Attempt, Todo
    <3> QED
      BY <2>2, <3>2 DEF Start
  <2> QED
    BY <2>1, <2>2 DEF Take
<1>4. TablesOK' /\ PairsOK' /\ HookOK' /\ CallOK' /\ ReceiptsOK' /\ RestOK'
  BY <1>0, <1>2 DEF office, tables, history, TablesOK, PairsOK, HookOK, CallOK, ReceiptsOK, RestOK, Names
<1>5. \A u \in serving \cup {t} : AttemptOK(u)'
  BY <1>0, <1>2, <1>3 DEF tables, AttemptOK, Names
<1> QED
  BY <1>3, <1>4, <1>5 DEF TypeInv, Step, AttemptOK

\* One commit of the work keeps the tables and what is known of them.
LEMMA CommitTypes ==
  ASSUME TypeInv, NEW s \in serving, s.at = "work", NEW what \in Todo, Commit(s, what)
  PROVE  /\ TablesOK' /\ Len(runs) <= Len(runs') /\ Len(approvals') = Len(approvals)
         /\ what = "run" => Len(runs') = Len(runs) + 1
         /\ row' \in Pair /\ Names(row)'
         /\ \A i \in DOMAIN approvals : approvals'[i].run = approvals[i].run
<1>0. TablesOK /\ PairsOK /\ AttemptOK(s)
  BY DEF TypeInv
<1>1. /\ Len(runs) \in Nat /\ Len(approvals) \in Nat /\ DOMAIN approvals = 1 .. Len(approvals)
      /\ DOMAIN runs = 1 .. Len(runs)
  BY <1>0, LenProperties DEF TablesOK
<1>2. s.state \in Pair /\ s.answer \in Answer /\ s.answer.run <= Len(runs)
  BY <1>0 DEF AttemptOK, Attempt
<1>3. /\ approvals' = ApprovalsAfter(s, what) /\ runs' = RunsAfter(s, what)
      /\ row' = RowAfter(s, what)
  BY DEF Commit
<1>4. /\ approvals' \in Seq(ApprovalRow) /\ Len(approvals') = Len(approvals)
      /\ \A i \in 1 .. Len(approvals) : approvals'[i].run = approvals[i].run
  <2>1. CASE what = "approval" /\ s.state.approval \in 1 .. Len(approvals)
    <3> DEFINE i == s.state.approval
               e == [approvals[i] EXCEPT !.status = Verdict(s)]
    <3>1. approvals[i] \in ApprovalRow
      BY <1>0, <2>1, ElementOfSeq DEF TablesOK
    <3>2. Verdict(s) \in {"approved", "rejected"}
      BY DEF Verdict
    <3>3. e \in ApprovalRow /\ e.run = approvals[i].run
      BY <3>1, <3>2 DEF ApprovalRow
    <3>4. approvals' = [approvals EXCEPT ![i] = e]
      BY <1>3, <2>1 DEF ApprovalsAfter
    <3> HIDE DEF i, e
    <3>5. i \in 1 .. Len(approvals)
      BY <2>1 DEF i
    <3> QED
      BY <1>0, <3>3, <3>4, <3>5, ExceptSeq DEF TablesOK
  <2>2. CASE what = "approval" /\ s.state.approval \notin 1 .. Len(approvals)
    <3>1. approvals' = approvals
      BY <1>0, <1>1, <1>3, <2>2, LenProperties DEF ApprovalsAfter, TablesOK
    <3> QED
      BY <1>0, <3>1 DEF TablesOK
  <2>3. CASE what # "approval"
    BY <1>0, <1>3, <2>3 DEF ApprovalsAfter, TablesOK
  <2> QED
    BY <2>1, <2>2, <2>3
<1>5. runs' \in Seq(RunStatuses) /\ Len(runs) <= Len(runs') /\ (what = "run" => Len(runs') = Len(runs) + 1)
  <2>1. CASE what = "run"
    BY <1>0, <1>1, <1>3, <2>1, AppendProperties DEF RunsAfter, TablesOK, RunStatuses
  <2>2. CASE what = "status" /\ s.state.run \in 1 .. Len(runs)
    <3>1. RunStatus(s) \in RunStatuses
      BY DEF RunStatus, RunStatuses
    <3>2. runs' = [runs EXCEPT ![s.state.run] = RunStatus(s)]
      BY <1>3, <2>2 DEF RunsAfter
    <3> QED
      BY <1>0, <1>1, <2>2, <3>1, <3>2, ExceptSeq DEF TablesOK
  <2>3. CASE what = "status" /\ s.state.run \notin 1 .. Len(runs)
    <3>1. runs' = runs
      BY <1>0, <1>1, <1>3, <2>3, LenProperties DEF RunsAfter, TablesOK
    <3> QED
      BY <1>0, <1>1, <2>3, <3>1 DEF TablesOK
  <2>4. CASE what \notin {"run", "status"}
    BY <1>0, <1>1, <1>3, <2>4 DEF RunsAfter, TablesOK
  <2> QED
    BY <2>1, <2>2, <2>3, <2>4
<1>6. TablesOK'
  <2>1. DOMAIN approvals' = 1 .. Len(approvals) /\ Len(runs') \in Nat
    BY <1>4, <1>5, LenProperties
  <2>2. \A i \in 1 .. Len(approvals) : approvals[i].run \in Nat
    <3> SUFFICES ASSUME NEW i \in 1 .. Len(approvals) PROVE approvals[i].run \in Nat
      OBVIOUS
    <3>1. approvals[i] \in ApprovalRow
      BY <1>0, ElementOfSeq DEF TablesOK
    <3> QED
      BY <3>1 DEF ApprovalRow
  <2> QED
    BY <1>0, <1>1, <1>4, <1>5, <2>1, <2>2 DEF TablesOK
<1>7. row' \in Pair /\ Names(row)'
  <2>1. Len(runs') \in Nat
    BY <1>5, LenProperties
  <2>2. row \in Pair /\ row.run <= Len(runs) /\ row.approval <= Len(approvals)
    BY <1>0 DEF PairsOK, Names
  <2>3. row' = row \/ row' = [row EXCEPT !.run = s.answer.run, !.approval = 0]
    BY <1>3 DEF RowAfter
  <2>4. /\ row' \in Pair /\ row'.run \in {row.run, s.answer.run}
        /\ row'.approval \in {row.approval, 0}
    <3>1. s.answer.run \in Nat /\ row.run \in Nat /\ row.approval \in Nat /\ row.task \in BOOLEAN
      BY <1>2, <2>2 DEF Pair, Answer
    <3>2. CASE row' = [row EXCEPT !.run = s.answer.run, !.approval = 0]
      BY <2>2, <3>1, <3>2 DEF Pair
    <3> QED
      BY <2>2, <2>3, <3>2
  <2> QED
    BY <1>1, <1>2, <1>4, <1>5, <2>1, <2>2, <2>4 DEF Names, Pair, Answer
<1> QED
  BY <1>1, <1>4, <1>5, <1>6, <1>7

\* The attempt after a commit of its work.
Worked(s, at, accepted) ==
  [s EXCEPT !.todo = Tail(s.todo), !.at = at,
            !.answer = [accepted |-> accepted,
                        run |-> IF Head(s.todo) = "run" THEN Len(runs) + 1 ELSE s.answer.run]]
Refused(s) == [s EXCEPT !.todo = <<>>, !.at = "receipt", !.answer = Rejected]
Connection(s) == IF Head(s.todo) = "state" THEN "state" ELSE "store"

\* What is left of an attempt after a step of its work: it stays an attempt, has
\* more to do, or goes on to its receipt.
LEMMA WorkStep ==
  ASSUME TypeInv, NEW s \in serving, DoWork(s)
  PROVE  /\ s.at = "work" /\ s.todo \in Seq(Todo) /\ s.todo # <<>>
         /\ UNCHANGED <<office, pool, receipts, history>>
         /\ \/ pool[Connection(s)] # s.worker /\ UNCHANGED <<effects, tables>> /\ Step(s, Refused(s))
            \/ /\ pool[Connection(s)] = s.worker
               /\ Commit(s, Head(s.todo)) /\ Head(s.todo) \in Todo
               /\ \/ /\ Len(s.todo) = 1 /\ effects' = [effects EXCEPT ![s.req] = @ + 1]
                     /\ Step(s, Worked(s, "receipt", TRUE))
                  \/ /\ Len(s.todo) # 1 /\ effects' = effects
                     /\ Step(s, Worked(s, "work", FALSE))
<1>1. s \in Attempt /\ s.at = "work" /\ s.todo # <<>>
  BY DEF DoWork, TypeInv, AttemptOK
<1>2. s.todo \in Seq(Todo)
  BY <1>1 DEF Attempt, Todo
<1>3. Head(s.todo) \in Todo
  BY <1>1, <1>2, HeadTailProperties
<1>4. CASE pool[Connection(s)] # s.worker
  BY <1>1, <1>2, <1>3, <1>4 DEF DoWork, Refuse, Connection, Refused
<1>5. CASE pool[Connection(s)] = s.worker /\ Len(s.todo) = 1
  <2>1. /\ Commit(s, Head(s.todo)) /\ effects' = [effects EXCEPT ![s.req] = @ + 1]
        /\ Step(s, Worked(s, "receipt", TRUE))
    BY <1>1, <1>5 DEF DoWork, Attempt, Connection, Worked
  <2> QED
    BY <1>1, <1>2, <1>3, <1>5, <2>1 DEF DoWork
<1>6. CASE pool[Connection(s)] = s.worker /\ Len(s.todo) # 1
  <2>1. /\ Commit(s, Head(s.todo)) /\ effects' = effects /\ Step(s, Worked(s, "work", FALSE))
    BY <1>1, <1>6 DEF DoWork, Attempt, Connection, Worked
  <2> QED
    BY <1>1, <1>2, <1>3, <1>6, <2>1 DEF DoWork
<1> QED
  BY <1>4, <1>5, <1>6

LEMMA DoWorkTypes ==
  ASSUME TypeInv, NEW s \in serving, DoWork(s)
  PROVE  TypeInv'
<1>0. /\ TablesOK /\ PairsOK /\ HookOK /\ CallOK /\ ReceiptsOK /\ RestOK
      /\ \A t \in serving : AttemptOK(t)
  BY DEF TypeInv
<1>1. /\ s.at = "work" /\ s.todo \in Seq(Todo) /\ s.todo # <<>> /\ s \in Attempt
      /\ UNCHANGED <<office, pool, receipts, history>>
  BY <1>0, WorkStep DEF AttemptOK
<1>2. /\ s.req \in Request /\ s.state \in Pair /\ Names(s.state)
      /\ s.answer \in Answer /\ s.answer.run <= Len(runs)
  BY <1>0 DEF AttemptOK, Attempt
<1>3. Len(runs) \in Nat /\ Len(approvals) \in Nat
  BY <1>0, LenProperties DEF TablesOK
\* It is enough that the tables are kept and the attempt that worked is sound.
<1>4. ASSUME TablesOK', Len(runs) <= Len(runs'), Len(approvals') = Len(approvals),
             row' \in Pair, Names(row)', effects' \in [Request -> Nat],
             NEW t, Step(s, t), AttemptOK(t)'
      PROVE  TypeInv'
  <2>1. Len(approvals) <= Len(approvals')
    BY <1>3, <1>4
  <2>2. /\ ReceiptsOK' /\ HookOK' /\ \A u \in serving : AttemptOK(u)'
        /\ \A p : p.run \in Nat /\ p.approval \in Nat /\ Names(p) =>
                    p.run <= Len(runs') /\ p.approval <= Len(approvals')
    BY <1>1, <1>4, <2>1, StaysKnown DEF office
  <2>3. PairsOK'
    BY <1>0, <1>1, <1>4, <2>2 DEF PairsOK, Pair, Names, office
  <2>4. CallOK' /\ RestOK'
    BY <1>0, <1>1, <1>4 DEF CallOK, RestOK, office, history
  <2>5. \A u \in serving' : AttemptOK(u)'
    BY <1>4, <2>2 DEF Step
  <2> QED
    BY <1>4, <2>2, <2>3, <2>4, <2>5 DEF TypeInv
<1>5. CASE UNCHANGED <<effects, tables>> /\ Step(s, Refused(s))
  <2>0. PICK t : t = Refused(s)
    OBVIOUS
  <2>1. /\ t \in Attempt /\ t.state = s.state /\ t.answer.run = 0 /\ t.at = "receipt"
    <3>1. Rejected \in Answer /\ <<>> \in Seq({"approval", "status", "event", "run", "state"})
      BY EmptySeq DEF Rejected, Answer
    <3> QED
      BY <1>1, <2>0, <3>1 DEF Attempt, Rejected, Refused
  <2>2. /\ TablesOK' /\ Len(runs) <= Len(runs') /\ Len(approvals') = Len(approvals)
        /\ row' \in Pair /\ Names(row)' /\ effects' \in [Request -> Nat] /\ AttemptOK(t)'
    BY <1>0, <1>2, <1>3, <1>5, <2>1 DEF tables, TablesOK, PairsOK, Names, RestOK, AttemptOK
  <2> QED
    BY <1>4, <1>5, <2>0, <2>2
<1>6. ASSUME Commit(s, Head(s.todo)), Head(s.todo) \in Todo, NEW at \in {"work", "receipt"},
             NEW acc \in BOOLEAN, at = "work" => Len(s.todo) # 1,
             effects' \in [Request -> Nat],
             Step(s, Worked(s, at, acc))
      PROVE  TypeInv'
  <2> DEFINE made == IF Head(s.todo) = "run" THEN Len(runs) + 1 ELSE s.answer.run
  <2>0. PICK t : t = Worked(s, at, acc)
    OBVIOUS
  <2>8. t = [s EXCEPT !.todo = Tail(s.todo), !.at = at, !.answer = [accepted |-> acc, run |-> made]]
    BY <2>0 DEF Worked
  <2>1. /\ TablesOK' /\ Len(runs) <= Len(runs') /\ Len(approvals') = Len(approvals)
        /\ Head(s.todo) = "run" => Len(runs') = Len(runs) + 1
        /\ row' \in Pair /\ Names(row)'
    BY <1>1, <1>6, CommitTypes
  <2>2. made \in Nat /\ made <= Len(runs')
    <3>1. Len(runs') \in Nat
      BY <2>1, LenProperties DEF TablesOK
    <3> QED
      BY <1>2, <1>3, <2>1, <3>1 DEF Answer
  <2>3. Tail(s.todo) \in Seq(Todo) /\ (Len(s.todo) # 1 => Tail(s.todo) # <<>>)
    <3>1. Tail(s.todo) \in Seq(Todo) /\ Len(Tail(s.todo)) = Len(s.todo) - 1 /\ Len(s.todo) \in Nat
      BY <1>1, HeadTailProperties, LenProperties
    <3>2. Tail(s.todo) = <<>> => Len(Tail(s.todo)) = 0
      BY EmptySeq
    <3> QED
      BY <3>1, <3>2
  <2> HIDE DEF made
  <2>4. t \in Attempt /\ t.state = s.state /\ t.answer.run = made /\ t.at = at /\ t.todo = Tail(s.todo)
    <3>1. [accepted |-> acc, run |-> made] \in Answer
      BY <2>2 DEF Answer
    <3> QED
      BY <1>1, <2>3, <2>8, <3>1 DEF Attempt, Todo
  <2>5. Names(s.state)'
    BY <1>2, <1>3, <2>1, LenProperties DEF Names, Pair, TablesOK
  <2>6. AttemptOK(t)'
    BY <1>6, <2>2, <2>3, <2>4, <2>5 DEF AttemptOK, Names
  <2>7. Step(s, t)
    BY <1>6, <2>0
  <2> QED
    BY <1>4, <1>6, <2>1, <2>6, <2>7
<1>7. [effects EXCEPT ![s.req] = @ + 1] \in [Request -> Nat] /\ effects \in [Request -> Nat]
  <2>1. effects \in [Request -> Nat] /\ effects[s.req] + 1 \in Nat
    BY <1>0, <1>2 DEF RestOK
  <2> QED
    BY <2>1
<1>8. CASE effects' = [effects EXCEPT ![s.req] = @ + 1] /\ Commit(s, Head(s.todo))
           /\ Head(s.todo) \in Todo /\ Step(s, Worked(s, "receipt", TRUE))
  BY <1>6, <1>7, <1>8
<1>9. CASE effects' = effects /\ Commit(s, Head(s.todo)) /\ Head(s.todo) \in Todo
           /\ Len(s.todo) # 1 /\ Step(s, Worked(s, "work", FALSE))
  BY <1>6, <1>7, <1>9
<1> QED
  BY <1>5, <1>8, <1>9, WorkStep

LEMMA ReceiptTypes ==
  ASSUME TypeInv, NEW s \in serving, PutReceipt(s)
  PROVE  TypeInv'
<1>0. /\ TablesOK /\ PairsOK /\ HookOK /\ CallOK /\ ReceiptsOK /\ RestOK
      /\ \A t \in serving : AttemptOK(t)
  BY DEF TypeInv
<1>1. s \in Attempt /\ s.answer \in Answer /\ s.answer.run <= Len(runs) /\ AttemptOK(s)
  BY <1>0 DEF AttemptOK, Attempt
<1>2. /\ UNCHANGED <<office, pool, effects, tables, history>>
      /\ receipts' = receipts \/ receipts' = [receipts EXCEPT ![s.req] = s.answer]
  BY DEF PutReceipt
<1>3. PICK t : t = [s EXCEPT !.at = "answer"]
  OBVIOUS
<1>4. Step(s, t) /\ AttemptOK(t)
  BY <1>1, <1>3 DEF PutReceipt, AttemptOK, Attempt
<1>5. TablesOK' /\ PairsOK' /\ HookOK' /\ CallOK' /\ RestOK'
  BY <1>0, <1>2 DEF office, tables, history, TablesOK, PairsOK, HookOK, CallOK, RestOK, Names
<1>6. ReceiptsOK'
  BY <1>0, <1>1, <1>2 DEF ReceiptsOK, tables
<1>7. \A u \in serving \cup {t} : AttemptOK(u)'
  BY <1>0, <1>2, <1>4 DEF tables, AttemptOK, Names
<1> QED
  BY <1>4, <1>5, <1>6, <1>7 DEF TypeInv, Step

LEMMA ReplyTypes ==
  ASSUME TypeInv, NEW s \in serving, Reply(s)
  PROVE  TypeInv'
<1>0. /\ TablesOK /\ PairsOK /\ HookOK /\ CallOK /\ ReceiptsOK /\ RestOK
      /\ \A t \in serving : AttemptOK(t)
  BY DEF TypeInv
<1>1. s.answer \in Answer /\ s.answer.run <= Len(runs)
  BY <1>0 DEF AttemptOK, Attempt
<1>2. /\ UNCHANGED <<mission, starts, mem, cross, conn, pool, receipts, effects, tables, overtaken>>
      /\ serving' \subseteq serving
  BY DEF Reply, OfficeRest
<1>3. TablesOK' /\ PairsOK' /\ ReceiptsOK' /\ \A t \in serving' : AttemptOK(t)'
  BY <1>0, <1>2 DEF tables, TablesOK, PairsOK, ReceiptsOK, AttemptOK, Names
<1>4. HookOK' /\ CallOK' /\ faults' \in 0 .. MaxFaults
  <2>1. faults \in 0 .. MaxFaults /\ UNCHANGED <<runs, approvals>>
    BY <1>0, <1>2 DEF RestOK, tables
  <2>2. CASE Awaited(s) /\ Return(s.answer) /\ UNCHANGED faults
    BY <1>1, <2>1, <2>2, ReturnTypes DEF Awaited
  <2>3. CASE Awaited(s) /\ Fault("lost") /\ TransportError
    <3>1. HookOK' /\ CallOK'
      BY <2>1, <2>3, TransportTypes DEF Awaited
    <3>2. faults' = faults \/ (faults < MaxFaults /\ faults' = faults + 1)
      BY <2>3 DEF Fault
    <3> QED
      BY <2>1, <3>1, <3>2, CanonicalAssumption
  <2>4. CASE UNCHANGED <<call, hook, faults>>
    BY <1>0, <2>1, <2>4 DEF HookOK, CallOK, Names
  <2> QED
    BY <2>2, <2>3, <2>4 DEF Reply
<1>5. RestOK'
  BY <1>0, <1>2, <1>4 DEF RestOK
<1> QED
  BY <1>3, <1>4, <1>5 DEF TypeInv

LEMMA StepTypes ==
  ASSUME TypeInv, [Next]_vars
  PROVE  TypeInv'
<1>1. ASSUME NEW s \in serving, (\E w \in Worker : Take(s, w)) \/ DoWork(s) \/ PutReceipt(s) \/ Reply(s)
      PROVE  TypeInv'
  BY <1>1, TakeTypes, DoWorkTypes, ReceiptTypes, ReplyTypes
<1>2. CASE UNCHANGED vars
  BY <1>2 DEF vars, office, service, tables, history, TypeInv, TablesOK, PairsOK, HookOK, CallOK,
     ReceiptsOK, RestOK, AttemptOK, Names
<1> QED
  BY <1>1, <1>2, HookTypes, BoundaryTypes DEF Next, Serve

\* The variables keep their shape, and every id stored anywhere, in a table, in
\* memory, in a receipt or in an attempt on its way, is of a row that was made.
THEOREM CanonicalTypes == Spec => []TypeOK
<1>1. Init => TypeInv
  BY InitTypes
<1>2. TypeInv /\ [Next]_vars => TypeInv'
  BY StepTypes
<1> QED
  BY <1>1, <1>2, TypesSuffice, PTL DEF Spec

-----------------------------------------------------------------------------
(* What was accepted was done.                                             *)

LEMMA StepAccepted ==
  ASSUME TypeInv, AcceptedIsDone, [Next]_vars
  PROVE  AcceptedIsDone'
<1>0. /\ receipts \in [Request -> Answer] /\ effects \in [Request -> Nat]
      /\ \A s \in serving : s \in Attempt /\ s.req \in Request
  BY DEF TypeInv, ReceiptsOK, RestOK, AttemptOK, Attempt
<1> DEFINE Told(s) == s.at \in {"receipt", "answer"} /\ s.answer.accepted => effects[s.req] > 0
<1>a. \A s \in serving : Told(s)
  BY DEF AcceptedIsDone
<1>1. ASSUME UNCHANGED <<receipts, effects>>, serving' \subseteq serving PROVE AcceptedIsDone'
  BY <1>1 DEF AcceptedIsDone
<1>2. ASSUME UNCHANGED <<receipts, effects>>, NEW t, Told(t), serving' \subseteq serving \cup {t}
      PROVE  AcceptedIsDone'
  BY <1>2 DEF AcceptedIsDone
<1>3. CASE Open
  <2> DEFINE q == CHOOSE q \in Free : TRUE
  <2>1. q \in Free
    BY <1>3 DEF Open
  <2>2. /\ receipts' = [receipts EXCEPT ![q] = Unknown] /\ effects' = [effects EXCEPT ![q] = 0]
        /\ serving' = serving
    BY <1>3 DEF Open
  <2> HIDE DEF q
  <2>3. q \in Request /\ \A s \in serving : s.req # q
    BY <2>1 DEF Free
  <2> QED
    BY <1>0, <2>2, <2>3 DEF AcceptedIsDone, Unknown
<1>4. CASE Send
  <2>1. PICK t : /\ serving' = serving \cup {t} /\ t.at = "queued"
                 /\ UNCHANGED <<receipts, effects>>
    BY <1>4 DEF Send
  <2> QED
    BY <1>2, <2>1
<1>5. ASSUME NEW s \in serving, NEW w \in Worker, Take(s, w) PROVE AcceptedIsDone'
  <2>1. s \in Attempt /\ s.req \in Request /\ UNCHANGED <<receipts, effects>>
    BY <1>0, <1>5 DEF Take
  <2>2. CASE Step(s, [s EXCEPT !.at = "answer", !.worker = w, !.answer = receipts[s.req]])
    <3>1. PICK t : t = [s EXCEPT !.at = "answer", !.worker = w, !.answer = receipts[s.req]]
      OBVIOUS
    <3>2. t.req = s.req /\ t.answer = receipts[s.req]
      BY <2>1, <3>1 DEF Attempt
    <3>3. Told(t)
      BY <2>1, <3>2 DEF AcceptedIsDone
    <3> QED
      BY <1>2, <2>1, <2>2, <3>1, <3>3 DEF Step
  <2>3. CASE Start(s, w)
    <3>1. PICK t : t = [s EXCEPT !.at = "work", !.worker = w, !.todo = Work[s.op]]
      OBVIOUS
    <3>2. t.at = "work"
      BY <2>1, <3>1 DEF Attempt
    <3> QED
      BY <1>2, <2>1, <2>3, <3>1, <3>2 DEF Step, Start
  <2> QED
    BY <1>5, <2>2, <2>3 DEF Take
<1>6. ASSUME NEW s \in serving, DoWork(s) PROVE AcceptedIsDone'
  <2>1. s \in Attempt /\ s.req \in Request /\ receipts' = receipts
    BY <1>0, <1>6, WorkStep
  <2>2. CASE effects' = effects /\ Step(s, Refused(s))
    <3>1. PICK t : t = Refused(s)
      OBVIOUS
    <3>2. ~t.answer.accepted
      BY <2>1, <3>1 DEF Refused, Rejected, Attempt
    <3> QED
      BY <1>2, <2>1, <2>2, <3>1, <3>2 DEF Step
  <2>3. CASE effects' = effects /\ Step(s, Worked(s, "work", FALSE))
    <3>1. PICK t : t = Worked(s, "work", FALSE)
      OBVIOUS
    <3>2. t.at = "work"
      BY <2>1, <3>1 DEF Worked, Attempt
    <3> QED
      BY <1>2, <2>1, <2>3, <3>1, <3>2 DEF Step
  <2>4. CASE effects' = [effects EXCEPT ![s.req] = @ + 1] /\ Step(s, Worked(s, "receipt", TRUE))
    <3>1. PICK t : t = Worked(s, "receipt", TRUE)
      OBVIOUS
    <3>2. t.req = s.req
      BY <2>1, <3>1 DEF Worked, Attempt
    <3>3. /\ \A q \in Request : effects[q] > 0 => effects'[q] > 0
          /\ effects'[s.req] > 0
      BY <1>0, <2>1, <2>4
    <3>4. \A u \in serving \cup {t} : u.at \in {"receipt", "answer"} /\ u.answer.accepted => effects'[u.req] > 0
      BY <1>0, <1>a, <2>1, <3>2, <3>3
    <3> QED
      BY <2>1, <2>4, <3>1, <3>3, <3>4 DEF AcceptedIsDone, Step
  <2> QED
    BY <1>6, <2>2, <2>3, <2>4, WorkStep
<1>7. ASSUME NEW s \in serving, PutReceipt(s) PROVE AcceptedIsDone'
  <2>1. s \in Attempt /\ s.req \in Request /\ s.at = "receipt" /\ effects' = effects
        /\ receipts' \in {receipts, [receipts EXCEPT ![s.req] = s.answer]}
    BY <1>0, <1>7 DEF PutReceipt
  <2>2. PICK t : t = [s EXCEPT !.at = "answer"]
    OBVIOUS
  <2>3. t.req = s.req /\ t.answer = s.answer /\ serving' = (serving \ {s}) \cup {t}
    BY <1>7, <2>1, <2>2 DEF PutReceipt, Step, Attempt
  <2>4. s.answer.accepted => effects[s.req] > 0
    BY <1>a, <2>1
  <2> QED
    BY <1>0, <1>a, <2>1, <2>3, <2>4 DEF AcceptedIsDone
<1>8. ASSUME NEW s \in serving, Reply(s) PROVE AcceptedIsDone'
  BY <1>1, <1>8 DEF Reply
<1>9. CASE LoseRequest \/ GiveUp \/ RestartOffice \/ RestartService \/ UNCHANGED vars
  BY <1>1, <1>9 DEF LoseRequest, GiveUp, RestartOffice, RestartService, vars, service
<1>10. CASE (\E t \in Thread : BeginRun(t)) \/ HookStep \/ EndRun \/ ReworkInBackground
            \/ \E code \in Code : Decide(code)
  <2>1. UNCHANGED service
    BY <1>10 DEF BeginRun, HookStep, EndRun, ReworkInBackground, Decide, MakeTask, SaveRun, ReadState,
       AskApproval, PauseRun, SaveApproval, SetState
  <2> QED
    BY <1>1, <2>1 DEF service
<1> QED
  BY <1>3, <1>4, <1>5, <1>6, <1>7, <1>8, <1>9, <1>10 DEF Next, Serve

\* Whoever is told that a request was accepted, by the service or by a receipt,
\* is told so of work that was completed, whatever was lost, repeated, restarted.
THEOREM AcceptedWasDone == Spec => []AcceptedIsDone
<1>1. Init => TypeInv /\ AcceptedIsDone
  BY InitTypes DEF Init, AcceptedIsDone, Unknown
<1>2. TypeInv /\ AcceptedIsDone /\ [Next]_vars => (TypeInv /\ AcceptedIsDone)'
  BY StepTypes, StepAccepted
<1> QED
  BY <1>1, <1>2, PTL DEF Spec

-----------------------------------------------------------------------------
(* One attempt at a time, and what is done once.                           *)

\* The steps of a hook leave the boundary and the service alone.
LEMMA HookShape ==
  ASSUME \/ \E t \in Thread : BeginRun(t)
         \/ HookStep \/ EndRun \/ ReworkInBackground \/ \E code \in Code : Decide(code)
  PROVE  UNCHANGED <<service, call, history>>
BY DEF BeginRun, HookStep, EndRun, ReworkInBackground, Decide, MakeTask, SaveRun, ReadState,
   AskApproval, PauseRun, SaveApproval, SetState

\* An attempt keeps its identity while the service works on it.
LEMMA ServeShape ==
  ASSUME TypeInv, NEW s \in serving, (\E w \in Worker : Take(s, w)) \/ DoWork(s) \/ PutReceipt(s)
  PROVE  /\ UNCHANGED <<office, pool, history>>
         /\ \E t : Step(s, t) /\ t.req = s.req /\ t.try = s.try
<1>1. s \in Attempt
  BY DEF TypeInv, AttemptOK
<1> DEFINE Same(t) == t.req = s.req /\ t.try = s.try
<1>2. ASSUME NEW w \in Worker, Take(s, w) PROVE \E t : Step(s, t) /\ Same(t)
  <2>1. Same([s EXCEPT !.at = "answer", !.worker = w, !.answer = receipts[s.req]])
    BY <1>1 DEF Attempt
  <2>2. Same([s EXCEPT !.at = "work", !.worker = w, !.todo = Work[s.op]])
    BY <1>1 DEF Attempt
  <2> HIDE DEF Same
  <2> QED
    BY <1>2, <2>1, <2>2 DEF Take, Start
<1>3. ASSUME DoWork(s) PROVE \E t : Step(s, t) /\ Same(t)
  <2>1. Same(Refused(s)) /\ Same(Worked(s, "receipt", TRUE)) /\ Same(Worked(s, "work", FALSE))
    BY <1>1 DEF Refused, Worked, Attempt
  <2>2. \E t \in {Refused(s), Worked(s, "receipt", TRUE), Worked(s, "work", FALSE)} : Step(s, t)
    BY <1>3, WorkStep
  <2> HIDE DEF Same
  <2> QED
    BY <2>1, <2>2
<1>4. ASSUME PutReceipt(s) PROVE \E t : Step(s, t) /\ Same(t)
  <2>1. Same([s EXCEPT !.at = "answer"])
    BY <1>1 DEF Attempt
  <2> HIDE DEF Same
  <2> QED
    BY <1>4, <2>1 DEF PutReceipt
<1>5. UNCHANGED <<office, pool, history>>
  BY WorkStep DEF Take, PutReceipt
<1> QED
  BY <1>2, <1>3, <1>4, <1>5

LEMMA StepAlone ==
  ASSUME TypeInv, AloneInv, [Next]_vars
  PROVE  AloneInv'
<1>1. ASSUME UNCHANGED <<serving, call, overtaken>> PROVE AloneInv'
  BY <1>1 DEF AloneInv, Awaited
<1>2. ASSUME ~overtaken' => serving' = {} PROVE AloneInv'
  BY <1>2 DEF AloneInv
<1>3. ~overtaken /\ call.at # "wait" => serving = {}
  BY DEF AloneInv, Awaited
<1>4. CASE (\E t \in Thread : BeginRun(t)) \/ HookStep \/ EndRun \/ ReworkInBackground
            \/ \E code \in Code : Decide(code)
  BY <1>1, <1>4, HookShape DEF service, history
<1>5. CASE Open \/ LoseRequest
  <2>1. serving' = serving /\ overtaken' = overtaken /\ call.at # "wait"
    BY <1>5 DEF Open, NoCall, history, LoseRequest, service
  <2> QED
    BY <1>2, <1>3, <2>1
<1>6. CASE Send
  <2>0. PICK t : t = [req |-> call.req, try |-> call.try, op |-> call.op,
                      code |-> hook.code, state |-> hook.state, at |-> "queued", worker |-> "none",
                      todo |-> <<>>, answer |-> Rejected]
    OBVIOUS
  <2>1. /\ call.at = "send" /\ call' = [call EXCEPT !.at = "wait"] /\ overtaken' = overtaken
        /\ serving' = serving \cup {t}
    BY <1>6, <2>0 DEF Send, history
  <2>2. call'.at = "wait" /\ call'.req = t.req /\ call'.try = t.try
    BY <2>0, <2>1 DEF TypeInv, CallOK, CallState
  <2> QED
    BY <1>3, <2>1, <2>2 DEF AloneInv, Awaited
<1>7. CASE GiveUp \/ RestartOffice \/ RestartService
  <2>1. ~overtaken' => serving' = {}
    BY <1>7 DEF GiveUp, RestartOffice, RestartService, Abandon, service
  <2> QED
    BY <1>2, <2>1
<1>8. ASSUME NEW s \in serving, (\E w \in Worker : Take(s, w)) \/ DoWork(s) \/ PutReceipt(s)
      PROVE  AloneInv'
  <2>1. UNCHANGED <<call, overtaken>>
    BY <1>8, ServeShape DEF office, history
  <2>2. PICK t : Step(s, t) /\ t.req = s.req /\ t.try = s.try
    BY <1>8, ServeShape
  <2> QED
    BY <2>1, <2>2 DEF AloneInv, Awaited, Step
<1>9. ASSUME NEW s \in serving, Reply(s) PROVE AloneInv'
  <2>1. serving' = serving \ {s} /\ overtaken' = overtaken
    BY <1>9 DEF Reply
  <2>2. ~overtaken => serving \subseteq {s}
    BY DEF AloneInv
  <2> QED
    BY <1>2, <2>1, <2>2
<1>10. CASE UNCHANGED vars
  BY <1>1, <1>10 DEF vars, office, service, history
<1> QED
  BY <1>4, <1>5, <1>6, <1>7, <1>8, <1>9, <1>10 DEF Next, Serve

LEMMA StepOnce ==
  ASSUME TypeInv, AloneInv, OnceInv, [Next]_vars
  PROVE  OnceInv'
<1>0. /\ receipts \in [Request -> Answer] /\ effects \in [Request -> Nat]
      /\ \A s \in serving : s \in Attempt /\ s.req \in Request /\ s.op \in DOMAIN Work
  BY Domains DEF TypeInv, ReceiptsOK, RestOK, AttemptOK, Attempt
<1>a. ~overtaken /\ call.at # "wait" => serving = {}
  BY DEF AloneInv, Awaited
<1>1. ASSUME UNCHANGED service, overtaken => overtaken' PROVE OnceInv'
  BY <1>1 DEF OnceInv, service
<1>2. CASE (\E t \in Thread : BeginRun(t)) \/ HookStep \/ EndRun \/ ReworkInBackground
            \/ \E code \in Code : Decide(code)
  BY <1>1, <1>2, HookShape DEF history
<1>3. CASE Open
  <2> DEFINE q == CHOOSE q \in Free : TRUE
  <2>1. /\ receipts' = [receipts EXCEPT ![q] = Unknown] /\ effects' = [effects EXCEPT ![q] = 0]
        /\ UNCHANGED <<serving, pool, overtaken>> /\ (~overtaken => serving = {})
    BY <1>3, <1>a DEF Open, NoCall, history
  <2> HIDE DEF q
  <2> QED
    BY <1>0, <2>1 DEF OnceInv
<1>4. CASE Send
  <2>0. PICK t : t = [req |-> call.req, try |-> call.try, op |-> call.op,
                      code |-> hook.code, state |-> hook.state, at |-> "queued", worker |-> "none",
                      todo |-> <<>>, answer |-> Rejected]
    OBVIOUS
  <2>1. serving' = serving \cup {t} /\ t.at = "queued"
    BY <1>4, <2>0 DEF Send
  <2>2. UNCHANGED <<pool, receipts, effects, overtaken>> /\ (~overtaken => serving = {})
    BY <1>4, <1>a DEF Send, history
  <2> QED
    BY <2>1, <2>2 DEF OnceInv
<1>5. CASE LoseRequest \/ GiveUp \/ RestartOffice \/ UNCHANGED vars
  <2>1. UNCHANGED service
    BY <1>5 DEF LoseRequest, GiveUp, RestartOffice, vars
  <2>2. overtaken => overtaken'
    BY <1>5 DEF LoseRequest, GiveUp, RestartOffice, Abandon, vars, history
  <2> QED
    BY <1>1, <2>1, <2>2
<1>6. CASE RestartService
  BY <1>6 DEF RestartService, OnceInv
\* A step of the service on its only attempt.
<1>7. ASSUME NEW s \in serving, (\E w \in Worker : Take(s, w)) \/ DoWork(s) \/ PutReceipt(s),
             ~overtaken', pool'["receipts"] = pool'["store"]
      PROVE  /\ ~overtaken /\ pool["receipts"] = pool["store"] /\ pool' = pool
             /\ \A t : Step(s, t) => serving' = {t}
             /\ \A q \in Request :
                  /\ effects[q] <= 1
                  /\ effects[q] # 0 => \/ receipts[q] # Unknown
                                       \/ s.req = q /\ s.at = "receipt" /\ s.worker = pool["receipts"]
  <2>1. ~overtaken /\ pool' = pool
    BY <1>7, ServeShape DEF history
  <2>2. serving = {s}
    BY <2>1 DEF AloneInv
  <2> QED
    BY <1>7, <2>1, <2>2 DEF OnceInv, Step
<1>8. ASSUME NEW s \in serving, NEW w \in Worker, Take(s, w), ~overtaken',
             pool'["receipts"] = pool'["store"]
      PROVE  OnceInv'
  <2>1. /\ s.at = "queued" /\ UNCHANGED <<receipts, effects>> /\ s \in Attempt
        /\ s.req \in Request
    BY <1>0, <1>8 DEF Take
  <2>2. /\ pool["receipts"] = pool["store"] /\ pool' = pool /\ \A t : Step(s, t) => serving' = {t}
        /\ \A q \in Request : effects[q] <= 1 /\ (effects[q] # 0 => receipts[q] # Unknown)
    BY <1>7, <1>8, <2>1
  <2>3. CASE Step(s, [s EXCEPT !.at = "answer", !.worker = w, !.answer = receipts[s.req]])
    <3>1. PICK t : t = [s EXCEPT !.at = "answer", !.worker = w, !.answer = receipts[s.req]]
      OBVIOUS
    <3>2. t.at = "answer" /\ serving' = {t}
      BY <2>1, <2>2, <2>3, <3>1 DEF Attempt
    <3> QED
      BY <2>1, <2>2, <3>2 DEF OnceInv
  <2>4. CASE Start(s, w) /\ ~(pool["receipts"] = w /\ receipts[s.req] # Unknown)
    <3>1. PICK t : t = [s EXCEPT !.at = "work", !.worker = w, !.todo = Work[s.op]]
      OBVIOUS
    <3>2. /\ t.at = "work" /\ t.worker = w /\ t.todo = Work[t.op] /\ t.req = s.req
      BY <2>1, <3>1 DEF Attempt
    <3>3. serving' = {t}
      BY <2>2, <2>4, <3>1 DEF Start
    <3>4. w = pool["store"] => effects[s.req] = 0
      BY <2>1, <2>2, <2>4
    <3> QED
      BY <2>1, <2>2, <3>2, <3>3, <3>4 DEF OnceInv
  <2> QED
    BY <1>8, <2>3, <2>4 DEF Take
<1>9. ASSUME NEW s \in serving, DoWork(s), ~overtaken', pool'["receipts"] = pool'["store"]
      PROVE  OnceInv'
  <2>1. /\ s.at = "work" /\ receipts' = receipts /\ s \in Attempt /\ s.req \in Request
        /\ s.op \in DOMAIN Work
    BY <1>0, <1>9, WorkStep
  <2>2. /\ ~overtaken
        /\ pool["receipts"] = pool["store"] /\ pool' = pool /\ \A t : Step(s, t) => serving' = {t}
        /\ \A q \in Request : effects[q] <= 1 /\ (effects[q] # 0 => receipts[q] # Unknown)
    BY <1>7, <1>9, <2>1
  <2>3. CASE effects' = effects /\ Step(s, Refused(s))
    <3>1. PICK t : t = Refused(s)
      OBVIOUS
    <3>2. t.at = "receipt" /\ t.answer # Unknown /\ serving' = {t}
      BY <2>1, <2>2, <2>3, <3>1 DEF Refused, Rejected, Unknown, Attempt
    <3> QED
      BY <2>1, <2>2, <2>3, <3>2 DEF OnceInv
  <2>4. pool[Connection(s)] = s.worker => s.worker = pool["store"] /\ effects[s.req] = 0
    <3>1. s.worker # pool["store"] => Head(s.todo) # "state"
      BY <2>1, <2>2, WorkTypes DEF OnceInv
    <3>2. s.worker = pool["store"] => effects[s.req] = 0
      BY <2>1, <2>2 DEF OnceInv
    <3> QED
      BY <3>1, <3>2 DEF Connection
  <2>5. CASE pool[Connection(s)] = s.worker /\ effects' = effects /\ Step(s, Worked(s, "work", FALSE))
    <3>1. PICK t : t = Worked(s, "work", FALSE)
      OBVIOUS
    <3>2. t.at = "work" /\ t.req = s.req /\ t.worker = s.worker /\ serving' = {t}
      BY <2>1, <2>2, <2>5, <3>1 DEF Worked, Attempt
    <3> QED
      BY <2>1, <2>2, <2>4, <2>5, <3>2 DEF OnceInv
  <2>6. CASE pool[Connection(s)] = s.worker /\ effects' = [effects EXCEPT ![s.req] = @ + 1]
             /\ Step(s, Worked(s, "receipt", TRUE))
    <3>1. PICK t : t = Worked(s, "receipt", TRUE)
      OBVIOUS
    <3>2. /\ t.at = "receipt" /\ t.req = s.req /\ t.worker = s.worker /\ t.answer.accepted
      BY <2>1, <3>1 DEF Worked, Attempt
    <3>3. t.answer # Unknown /\ serving' = {t}
      <4>1. ~Unknown.accepted
        BY DEF Unknown
      <4>2. serving' = {t}
        BY <2>2, <2>6, <3>1
      <4> QED
        BY <3>2, <4>1, <4>2
    <3>4. effects'[s.req] = 1 /\ \A q \in Request \ {s.req} : effects'[q] = effects[q]
      BY <1>0, <2>1, <2>4, <2>6
    <3> QED
      BY <2>1, <2>2, <2>4, <2>6, <3>2, <3>3, <3>4 DEF OnceInv
  <2> QED
    BY <1>9, <2>3, <2>5, <2>6, WorkStep
<1>10. ASSUME NEW s \in serving, PutReceipt(s), ~overtaken', pool'["receipts"] = pool'["store"]
       PROVE  OnceInv'
  <2>1. /\ s.at = "receipt" /\ effects' = effects /\ s \in Attempt /\ s.req \in Request
        /\ receipts' = IF pool["receipts"] = s.worker
                       THEN [receipts EXCEPT ![s.req] = s.answer] ELSE receipts
    BY <1>0, <1>10 DEF PutReceipt
  <2>2. PICK t : t = [s EXCEPT !.at = "answer"]
    OBVIOUS
  <2>3. t.at = "answer" /\ Step(s, t)
    BY <1>10, <2>1, <2>2 DEF PutReceipt, Attempt
  <2>4. /\ pool["receipts"] = pool["store"] /\ pool' = pool /\ serving' = {t}
        /\ \A q \in Request :
             /\ effects[q] <= 1
             /\ effects[q] # 0 => \/ receipts[q] # Unknown
                                  \/ s.req = q /\ s.worker = pool["receipts"]
    BY <1>7, <1>10, <2>3
  <2>5. s.answer # Unknown
    BY <1>7, <1>10, <2>1 DEF OnceInv
  <2>6. \A q \in Request : effects[q] # 0 => receipts'[q] # Unknown
    BY <1>0, <2>1, <2>4, <2>5
  <2> QED
    BY <2>1, <2>3, <2>4, <2>6 DEF OnceInv
<1>11. ASSUME NEW s \in serving, Reply(s), ~overtaken', pool'["receipts"] = pool'["store"]
       PROVE  OnceInv'
  <2>1. /\ s.at = "answer" /\ serving' = serving \ {s}
        /\ UNCHANGED <<pool, receipts, effects, overtaken>>
    BY <1>11 DEF Reply
  <2>2. serving = {s}
    BY <1>11, <2>1 DEF AloneInv
  <2> QED
    BY <1>11, <2>1, <2>2 DEF OnceInv
<1>12. ~(~overtaken' /\ pool'["receipts"] = pool'["store"]) => OnceInv'
  BY DEF OnceInv
<1> QED
  BY <1>2, <1>3, <1>4, <1>5, <1>6, <1>8, <1>9, <1>10, <1>11, <1>12 DEF Next, Serve

\* The work of one request is completed at most once, however often it is sent
\* and whichever worker takes each attempt, unless an attempt was repeated while
\* the service had it, or the worker that does the work cannot read receipts.
THEOREM WorkOnce == Spec => []EffectOnce
<1> DEFINE I == TypeInv /\ AloneInv /\ OnceInv
<1>1. Init => I
  <2> SUFFICES ASSUME Init PROVE AloneInv /\ OnceInv
    BY InitTypes
  <2> QED
    BY DEF Init, AloneInv, OnceInv
<1>2. I /\ [Next]_vars => I'
  BY StepTypes, StepAlone, StepOnce
<1>3. I => EffectOnce
  BY DEF OnceInv, EffectOnce
<1> QED
  BY <1>1, <1>2, <1>3, PTL DEF Spec

-----------------------------------------------------------------------------
(* The run and the approval of the row.                                    *)

LEMMA StepRow ==
  ASSUME TypeInv, AloneInv, RowInv, [Next]_vars
  PROVE  RowInv'
<1>0. /\ TablesOK /\ HookOK /\ CallOK /\ row \in Pair /\ mem \in Pair /\ Names(row) /\ hook \in Hooks
      /\ hook.state \in Pair /\ Names(hook.state)
  BY DEF TypeInv, PairsOK, HookOK, Hooks
<1>a. Len(runs) \in Nat /\ Len(approvals) \in Nat /\ DOMAIN approvals = 1 .. Len(approvals)
  BY <1>0, LenProperties DEF TablesOK
<1> DEFINE Asks(at) == at \in {"ask", "pause", "saveApproval"}
           Pairs    == row.run # 0 /\ row.approval # 0 => approvals[row.approval].run = row.run
\* Steps that write neither row nor approvals, and ask nobody.
<1>b. ASSUME UNCHANGED <<row, approvals>>, overtaken => overtaken',
             ~Asks(hook'.at) \/ UNCHANGED <<hook, conn>>
      PROVE  RowInv'
  BY <1>b DEF RowInv
\* Steps that write the row, and ask nobody.
<1>c. ASSUME overtaken => overtaken', approvals' = approvals, ~Asks(hook'.at),
             row' = row \/ row'.approval = 0
      PROVE  RowInv'
  BY <1>c DEF RowInv
<1>1. ASSUME NEW t \in Thread, BeginRun(t) PROVE RowInv'
  <2>1. hook'.at = "task" /\ UNCHANGED <<row, approvals, overtaken>>
    BY <1>1 DEF BeginRun, Idle, tables, history
  <2> QED
    BY <1>b, <2>1
<1>2. CASE MakeTask
  <2>1. hook'.at \in {"create", "working"} /\ UNCHANGED <<row, approvals, overtaken>>
    BY <1>0, <1>2 DEF MakeTask, Goto, Hooks, tables, history
  <2> QED
    BY <1>b, <2>1
<1>3. CASE SaveRun
  <2>1. /\ hook'.at = "started" /\ UNCHANGED <<approvals, overtaken>>
        /\ row' = row \/ row' = [task |-> TRUE, run |-> hook.state.run, approval |-> 0]
    BY <1>0, <1>3 DEF SaveRun, SetState, Goto, Hooks, history
  <2> QED
    BY <1>c, <2>1
<1>4. CASE ReadState
  <2> DEFINE readable == conn["state"] = hook.thread
             recovers == /\ readable /\ row = NoPair /\ cross
                         /\ conn["store"] = hook.thread /\ Requested # {}
             found == IF recovers THEN Recovered
                      ELSE IF readable /\ row # NoPair THEN row ELSE mem
  <2>1. /\ UNCHANGED <<approvals, conn, overtaken>>
        /\ row' = IF recovers THEN Recovered ELSE row
        /\ hook' = Idle \/ \E at \in {"ask", "resolve"} : hook' = [hook EXCEPT !.at = at, !.state = found]
    BY <1>4 DEF ReadState, history
  <2>2. recovers => approvals[Recovered.approval].run = Recovered.run
    BY RecoveredTypes
  <2>3. ~overtaken => Pairs'
    BY <2>1, <2>2 DEF RowInv
  <2>4. /\ hook'.at \notin {"pause", "saveApproval"}
        /\ hook'.at = "ask" => hook'.state = found /\ hook'.thread = hook.thread
    <3>1. CASE hook' = Idle
      BY <3>1 DEF Idle
    <3>2. ASSUME NEW at \in {"ask", "resolve"}, NEW p, p = found,
                 hook' = [hook EXCEPT !.at = at, !.state = p]
          PROVE  /\ hook'.at \notin {"pause", "saveApproval"}
                 /\ hook'.at = "ask" => hook'.state = p /\ hook'.thread = hook.thread
      <4> HIDE DEF found
      <4> QED
        BY <1>0, <3>2 DEF Hooks
    <3> HIDE DEF found
    <3> QED
      BY <2>1, <3>1, <3>2
  <2>5. readable => row'.run \in {0, found.run}
    <3>1. readable /\ ~recovers /\ row = NoPair => row'.run = 0
      BY <2>1 DEF NoPair
    <3>2. readable /\ row # NoPair => row' = row /\ found = row
      BY <2>1
    <3>3. recovers => row' = Recovered /\ found = Recovered
      BY <2>1
    <3> QED
      BY <3>1, <3>2, <3>3
  <2>6. hook'.at = "ask" /\ conn'["state"] = hook'.thread => row'.run \in {0, hook'.state.run}
    BY <2>1, <2>4, <2>5
  <2> QED
    BY <2>1, <2>3, <2>4, <2>6 DEF RowInv
<1>5. CASE AskApproval
  <2>1. CASE conn["store"] = hook.thread
    <3> DEFINE new == [run |-> hook.state.run, status |-> "requested"]
    <3>1. /\ hook.at = "ask" /\ approvals' = Append(approvals, new)
          /\ hook' = [hook EXCEPT !.at = "pause", !.state.approval = Len(approvals')]
          /\ UNCHANGED <<row, conn, overtaken>>
      BY <1>5, <2>1 DEF AskApproval, history
    <3>2. /\ Len(approvals') = Len(approvals) + 1 /\ approvals'[Len(approvals) + 1] = new
          /\ \A i \in 1 .. Len(approvals) : approvals'[i] = approvals[i]
      <4>1. new \in ApprovalRow
        BY <1>0 DEF ApprovalRow, Pair
      <4> HIDE DEF new
      <4> QED
        BY <1>0, <1>a, <3>1, <4>1, AppendProperties DEF TablesOK
    <3>3. /\ hook'.at = "pause" /\ hook'.thread = hook.thread
          /\ hook'.state.run = hook.state.run /\ hook'.state.approval = Len(approvals) + 1
      <4>1. hook'.at = "pause" /\ hook'.thread = hook.thread
            /\ hook'.state = [hook.state EXCEPT !.approval = Len(approvals')]
        BY <1>0, <3>1 DEF Hooks
      <4> QED
        BY <1>0, <3>2, <4>1 DEF Pair
    <3>4. ~overtaken => Pairs'
      <4>1. row.approval # 0 => row.approval \in 1 .. Len(approvals)
        BY <1>0, <1>a DEF Pair, Names
      <4> QED
        BY <3>1, <3>2, <4>1 DEF RowInv
    <3>5. Len(approvals) + 1 # 0 /\ approvals'[Len(approvals) + 1].run = hook.state.run
      BY <1>a, <3>2
    <3> QED
      BY <3>1, <3>3, <3>4, <3>5 DEF RowInv
  <2>2. CASE conn["store"] # hook.thread
    <3>1. hook' = Idle /\ UNCHANGED <<row, approvals, overtaken>>
      BY <1>5, <2>2 DEF AskApproval, Finish, history
    <3> QED
      BY <1>b, <3>1 DEF Idle
  <2> QED
    BY <2>1, <2>2
<1>6. CASE PauseRun
  <2>1. /\ hook.at = "pause" /\ hook' = [hook EXCEPT !.at = "saveApproval"]
        /\ UNCHANGED <<approvals, row, conn, overtaken>>
    BY <1>6 DEF PauseRun, Goto, history
  <2>2. hook'.at = "saveApproval" /\ hook'.thread = hook.thread /\ hook'.state = hook.state
    BY <1>0, <2>1 DEF Hooks
  <2> QED
    BY <2>1, <2>2 DEF RowInv
<1>7. CASE SaveApproval
  <2>1. /\ hook.at = "saveApproval" /\ hook'.at = "asked" /\ UNCHANGED <<approvals, overtaken>>
        /\ row' = IF conn["state"] = hook.thread
                  THEN [row EXCEPT !.approval = hook.state.approval] ELSE row
    BY <1>0, <1>7 DEF SaveApproval, SetState, Goto, Hooks, history
  <2>2. CASE conn["state"] = hook.thread
    <3>1. row'.run = row.run /\ row'.approval = hook.state.approval
      BY <1>0, <2>1, <2>2 DEF Pair
    <3> QED
      BY <2>1, <2>2, <3>1 DEF RowInv
  <2>3. CASE conn["state"] # hook.thread
    BY <1>c, <2>1, <2>3
  <2> QED
    BY <2>2, <2>3
<1>8. CASE EndRun
  <2>1. hook'.at \in {"idle", "read"} /\ UNCHANGED <<row, approvals, overtaken>>
    BY <1>0, <1>8 DEF EndRun, Goto, Finish, Idle, Hooks, tables, history
  <2> QED
    BY <1>b, <2>1
<1>9. CASE ReworkInBackground
  BY <1>b, <1>9 DEF ReworkInBackground, tables, history
<1>10. ASSUME NEW code \in Code, Decide(code) PROVE RowInv'
  <2>1. hook'.at = "read" /\ UNCHANGED <<row, approvals, overtaken>>
    BY <1>10 DEF Decide, Idle, tables, history
  <2> QED
    BY <1>b, <2>1
<1>11. CASE Open \/ Send \/ UNCHANGED vars
  <2>1. UNCHANGED <<row, approvals, overtaken, hook, conn>>
    BY <1>11 DEF Open, Send, OfficeRest, vars, office, tables, history
  <2> QED
    BY <1>b, <2>1
\* The answer to a call, or the lack of one, asks nobody.
<1>d. ASSUME TransportError, call.at # "none", UNCHANGED <<runs, approvals>>
      PROVE  ~Asks(hook'.at)
  <2>1. hook'.at \in DOMAIN Calls \/ hook' = After(Rejected)
    BY <1>0, <1>d DEF TransportError, Return, CallOK
  <2>2. Rejected \in Answer /\ Rejected.run <= Len(runs)
    BY <1>a DEF Rejected, Answer
  <2> QED
    BY <1>d, <2>1, <2>2, AfterTypes, Domains
<1>12. CASE LoseRequest \/ GiveUp
  <2>1. /\ TransportError /\ UNCHANGED <<runs, approvals, row>>
        /\ overtaken => overtaken'
    <3>1. CASE LoseRequest
      <4>1. TransportError /\ UNCHANGED <<tables, overtaken>>
        BY <3>1 DEF LoseRequest
      <4> QED
        BY <4>1 DEF tables
    <3>2. CASE GiveUp
      <4>1. TransportError /\ UNCHANGED tables /\ Abandon
        BY <3>2 DEF GiveUp
      <4> QED
        BY <4>1 DEF tables, Abandon
    <3> QED
      BY <1>12, <3>1, <3>2
  <2>2. call.at # "none"
    BY <1>12 DEF LoseRequest, GiveUp
  <2> QED
    BY <1>b, <1>d, <2>1, <2>2
<1>13. CASE RestartOffice
  <2>1. hook' = Idle /\ UNCHANGED <<row, approvals>> /\ (overtaken => overtaken')
    BY <1>13 DEF RestartOffice, Abandon, tables
  <2> QED
    BY <1>b, <2>1 DEF Idle
<1>14. CASE RestartService
  BY <1>14 DEF RestartService, RowInv
<1>15. ASSUME NEW s \in serving, (\E w \in Worker : Take(s, w)) \/ PutReceipt(s) PROVE RowInv'
  <2>1. UNCHANGED <<row, approvals, overtaken, hook, conn>>
    BY <1>15 DEF Take, PutReceipt, office, tables, history
  <2> QED
    BY <1>b, <2>1
<1>16. ASSUME NEW s \in serving, DoWork(s) PROVE RowInv'
  <2>1. UNCHANGED <<hook, conn, overtaken>> /\ s.at = "work" /\ s.todo # <<>> /\ s.todo \in Seq(Todo)
    BY <1>16, WorkStep DEF office, history
  <2>2. ~overtaken => ~Asks(hook.at)
    BY <1>0, Domains DEF AloneInv, Awaited, CallOK
  <2>3. CASE UNCHANGED tables
    BY <1>b, <2>1, <2>3 DEF tables
  <2>4. CASE Commit(s, Head(s.todo)) /\ Head(s.todo) \in Todo
    <3>1. \A i \in DOMAIN approvals : approvals'[i].run = approvals[i].run
      BY <2>1, <2>4, CommitTypes
    <3>2. row' = row \/ row' = [row EXCEPT !.run = s.answer.run, !.approval = 0]
      BY <2>4 DEF Commit, RowAfter
    <3>3. row' = row \/ row'.approval = 0
      BY <1>0, <3>2 DEF Pair
    <3>4. row.approval # 0 => row.approval \in DOMAIN approvals
      BY <1>0, <1>a DEF Pair, Names
    <3> QED
      BY <2>1, <2>2, <3>1, <3>3, <3>4 DEF RowInv
  <2> QED
    BY <1>16, <2>3, <2>4, WorkStep
<1>17. ASSUME NEW s \in serving, Reply(s) PROVE RowInv'
  <2>1. UNCHANGED <<runs, approvals, row, conn, overtaken>>
    BY <1>17 DEF Reply, OfficeRest, tables
  <2>2. s.answer \in Answer /\ s.answer.run <= Len(runs)
    BY DEF TypeInv, AttemptOK, Attempt
  <2>3. CASE Awaited(s) /\ Return(s.answer)
    <3>1. ~Asks(hook'.at)
      BY <2>2, <2>3, AfterTypes DEF Return, Awaited
    <3> QED
      BY <1>b, <2>1, <3>1
  <2>4. CASE Awaited(s) /\ TransportError
    BY <1>b, <1>d, <2>1, <2>4 DEF Awaited
  <2>5. CASE UNCHANGED hook
    BY <1>b, <2>1, <2>5
  <2> QED
    BY <1>17, <2>3, <2>4, <2>5 DEF Reply
<1> QED
  BY <1>1, <1>2, <1>3, <1>4, <1>5, <1>6, <1>7, <1>8, <1>9, <1>10, <1>11, <1>12, <1>13, <1>14, <1>15,
     <1>16, <1>17 DEF Next, HookStep, Serve

\* The run and the approval in the mission's row belong together, whoever wrote
\* which half of it, as long as no attempt was abandoned.
THEOREM RowIsCoherent == Spec => []RowPairsMatch
<1> DEFINE I == TypeInv /\ AloneInv /\ RowInv
<1>1. Init => I
  <2> SUFFICES ASSUME Init PROVE AloneInv /\ RowInv
    BY InitTypes
  <2> QED
    BY DEF Init, AloneInv, RowInv, NoPair, Idle
<1>2. I /\ [Next]_vars => I'
  BY StepTypes, StepAlone, StepRow
<1>3. I => RowPairsMatch
  BY DEF RowInv, RowPairsMatch
<1> QED
  BY <1>1, <1>2, <1>3, PTL DEF Spec
=============================================================================
