----------------------- MODULE MissionLifecycle_proofs -----------------------
(***************************************************************************)
(* Proofs about MissionLifecycle for any number of decisions and runs.     *)
(*                                                                         *)
(* RowMatchesDecision is inductive with the fact that the Decision a       *)
(* handler is about to write into an Approval row is the one it inserted   *)
(* (HandlerOwnsDecision): decisions are only ever appended.  Without the   *)
(* bot, DecisionsWaitForRun is inductive with the fact that the bot's loop *)
(* is idle (BotIdle): the office checks and starts in one loop.  Then the  *)
(* office alone closes rows, so an approval is in the table or in its hand *)
(* (RecordInv); and without runs inside requests the background run alone  *)
(* asks, so there is one open row at most (AskInv).                        *)
(*                                                                         *)
(* On these rest the two properties of the statuses a run leaves.  A       *)
(* handler of the background target decides by the status its session      *)
(* still holds, so SeenInv says what that is; WaitInv says who is about to *)
(* write the row of a mission that waits for the owner, and ArchivedInv    *)
(* that nothing is on its way to an archived one.                          *)
(***************************************************************************)
EXTENDS MissionLifecycle, FiniteSetTheorems, TLAPS

HandlerOwnsDecision ==
  \A p \in Loop : handler[p].at \in {"lookup", "close"} =>
    /\ handler[p].dec \in DOMAIN decisions
    /\ decisions[handler[p].dec] = handler[p].code

RowInv == TypeOK /\ HandlerOwnsDecision /\ RowMatchesDecision

BotIdle == handler["bot"].at = "idle" /\ botQueue = 0

-----------------------------------------------------------------------------
(* Type correctness.                                                       *)

\* Changing one place of a sequence, if it has it, leaves a sequence.
LEMMA ExceptInSeq ==
  ASSUME NEW S, NEW s \in Seq(S), NEW k, NEW e \in S
  PROVE  [s EXCEPT ![k] = e] \in Seq(S)
<1>1. CASE k \in 1 .. Len(s)
  BY <1>1
<1>2. CASE k \notin 1 .. Len(s)
  <2>1. [s EXCEPT ![k] = e] = s
    BY <1>2
  <2> QED
    BY <2>1
<1> QED
  BY <1>1, <1>2

\* Every step of an owner decision keeps the types.
LEMMA HandlerTypes ==
  ASSUME TypeOK, NEW p \in Loop, HandlerStep(p)
  PROVE  TypeOK'
<1> USE LifecycleAssumption DEF rows
<1>t. handler[p] \in Handler
  BY DEF TypeOK
<1>1. CASE InsertDecision(p)
  <2>1. decisions' \in Seq(Code)
    BY <1>1, <1>t DEF InsertDecision, Handler, TypeOK
  <2>2. Len(decisions) + 1 \in Nat
    BY DEF TypeOK
  <2>3. [handler[p] EXCEPT !.at = "lookup", !.dec = Len(decisions) + 1] \in Handler
    BY <1>t, <2>2 DEF Handler, HandlerPc
  <2>4. handler' \in [Loop -> Handler]
    BY <1>1, <2>3 DEF InsertDecision, TypeOK
  <2> QED
    BY <1>1, <2>1, <2>4 DEF InsertDecision, TypeOK
<1>2. CASE LookupApproval(p)
  <2>1. Open(approvals) \subseteq Nat
    BY DEF Open, TypeOK
  <2>2. handler' \in [Loop -> Handler]
    <3>1. PICK i \in {0} \cup Open(approvals) :
            handler' = [handler EXCEPT ![p] = [@ EXCEPT !.at = "close", !.row = i]]
      BY <1>2 DEF LookupApproval
    <3>2. i \in Nat
      BY <2>1
    <3>3. [handler[p] EXCEPT !.at = "close", !.row = i] \in Handler
      BY <1>t, <3>2 DEF Handler, HandlerPc
    <3> QED
      BY <3>1, <3>3 DEF TypeOK
  <2> QED
    BY <1>2, <2>2 DEF LookupApproval, TypeOK
<1>3. CASE CloseApproval(p)
  <2>1. Verdict(p) \in ApprovalRow
    BY <1>t DEF Verdict, ApprovalRow, Handler
  <2>2. approvals' \in Seq(ApprovalRow)
    <3>1. \/ approvals' = [approvals EXCEPT ![handler[p].row] = Verdict(p)]
          \/ approvals' = Append(approvals, Verdict(p))
          \/ approvals' = approvals
      BY <1>3 DEF CloseApproval
    <3>2. approvals \in Seq(ApprovalRow)
      BY DEF TypeOK
    <3>3. [approvals EXCEPT ![handler[p].row] = Verdict(p)] \in Seq(ApprovalRow)
      BY <2>1, <3>2, ExceptInSeq
    <3>4. Append(approvals, Verdict(p)) \in Seq(ApprovalRow)
      BY <2>1, <3>2
    <3> QED
      BY <3>1, <3>2, <3>3, <3>4
  <2>3. handler' \in [Loop -> Handler]
    BY <1>3, <1>t DEF CloseApproval, Handler, HandlerPc, TypeOK
  <2> QED
    BY <1>3, <2>2, <2>3 DEF CloseApproval, TypeOK
<1>4. CASE WriteDecision(p)
  <2>1. status' \in Status
    BY <1>4, <1>t DEF WriteDecision, StatusAfter, Status, InWork, AfterOk, Handler,
       Code, TypeOK
  <2>2. handler' \in [Loop -> Handler]
    <3>1. Idle \in Handler /\ [Idle EXCEPT !.at = "run"] \in Handler
      BY DEF Idle, Handler, HandlerPc, Code
    <3> QED
      BY <1>4, <3>1 DEF WriteDecision, TypeOK
  <2>3. run' \in [Actor -> RunPc] /\ runs' \in 0 .. MaxRuns
    BY <1>4 DEF WriteDecision, BeginRun, RunPc, Working, Actor, Loop, TypeOK
  <2>4. stopAsked' \in BOOLEAN /\ bare' \in BOOLEAN /\ botQueue' \in Nat
    <3>1. /\ stopAsked' \in {FALSE, stopAsked} /\ bare' \in {FALSE, bare}
          /\ botQueue' \in {botQueue, botQueue + 1}
      BY <1>4, Zenon DEF WriteDecision
    <3>2. stopAsked' \in BOOLEAN /\ bare' \in BOOLEAN
      BY <3>1, Zenon DEF TypeOK
    <3> QED
      BY <3>1, <3>2 DEF TypeOK
  <2> QED
    BY <1>4, <2>1, <2>2, <2>3, <2>4 DEF WriteDecision, TypeOK
<1> QED
  BY <1>1, <1>2, <1>3, <1>4 DEF HandlerStep

\* So does every step of a run.
LEMMA RunTypes ==
  ASSUME TypeOK, NEW a \in Actor, RunStep(a) \/ ReadToSettle \/ Settle
  PROVE  TypeOK'
<1> USE DEF KeepLoops, rows, MoveRun, Load
<1>t. run[a] \in RunPc /\ \A next \in RunPc : [run EXCEPT ![a] = next] \in [Actor -> RunPc]
  BY DEF TypeOK
<1>s. InWork \subseteq Status
  BY DEF Status
<1>1. CASE ReadStatus(a)
  <2>1. run' \in [Actor -> RunPc]
    BY <1>1, <1>t DEF ReadStatus, RunPc, Working, CheckThen
  <2> QED
    BY <1>1, <2>1 DEF ReadStatus, TypeOK
<1>2. CASE PassCheck(a)
  <2>1. CheckThen[run[a]] \in RunPc
    BY <1>2 DEF PassCheck, CheckThen, RunPc, Working, PhaseStatus
  <2>2. run' \in [Actor -> RunPc]
    BY <1>2, <1>t, <2>1 DEF PassCheck, RunPc
  <2> QED
    BY <1>2, <2>2 DEF PassCheck, TypeOK
<1>3. CASE EnterPhase(a)
  <2>1. AfterPhase[run[a]] \in RunPc /\ PhaseStatus[run[a]] \in InWork
    BY <1>3 DEF EnterPhase, CheckThen, RunPc, Working, PhaseStatus, AfterPhase, InWork
  <2>2. run' \in [Actor -> RunPc]
    BY <1>3, <1>t, <2>1 DEF EnterPhase
  <2>3. status' \in Status
    BY <1>3, <1>s, <2>1 DEF EnterPhase
  <2> QED
    BY <1>3, <2>2, <2>3 DEF EnterPhase, TypeOK
<1>4. CASE Finalize(a)
  <2>1. run' \in [Actor -> RunPc]
    BY <1>4, <1>t DEF Finalize, RunPc, Working
  <2>2. status' \in Status
    BY <1>4 DEF Finalize, Status, AfterOk
  <2> QED
    BY <1>4, <2>1, <2>2 DEF Finalize, TypeOK
<1>5. CASE QueryApproval(a)
  <2>1. run' \in [Actor -> RunPc]
    BY <1>5, <1>t DEF QueryApproval, RunPc, Working
  <2> QED
    BY <1>5, <2>1 DEF QueryApproval, TypeOK
<1>6. CASE InsertApproval(a)
  <2>1. run' \in [Actor -> RunPc]
    BY <1>6, <1>t DEF InsertApproval, RunPc
  <2>2. [state |-> "REQUESTED", dec |-> 0] \in ApprovalRow
    BY DEF ApprovalRow
  <2>3. approvals' \in Seq(ApprovalRow)
    BY <1>6, <2>2 DEF InsertApproval, TypeOK
  <2> QED
    BY <1>6, <2>1, <2>3 DEF InsertApproval, TypeOK
<1>7. CASE Raise(a)
  <2>1. run' \in [Actor -> RunPc]
    BY <1>7, <1>t DEF Raise, RunPc
  <2> QED
    BY <1>7, <2>1 DEF Raise, TypeOK
<1>8. CASE EndRun(a)
  <2>1. run' \in [Actor -> RunPc]
    BY <1>8, <1>t DEF EndRun, RunPc
  <2>2. Idle \in Handler
    BY DEF Idle, Handler, HandlerPc, Code
  <2>3. handler' \in [Loop -> Handler]
    BY <1>8, <2>2 DEF EndRun, TypeOK
  <2> QED
    BY <1>8, <2>1, <2>3 DEF EndRun, TypeOK
<1>9. CASE ReadToSettle
  <2>1. run' \in [Actor -> RunPc]
    BY <1>9 DEF ReadToSettle, TypeOK, RunPc
  <2> QED
    BY <1>9, <2>1 DEF ReadToSettle, TypeOK
<1>10. CASE Settle
  <2>1. run' \in [Actor -> RunPc]
    BY <1>10 DEF Settle, TypeOK, RunPc
  <2>2. status' \in Status
    BY <1>10 DEF Settle, TypeOK, Status
  <2> QED
    BY <1>10, <2>1, <2>2 DEF Settle, TypeOK
<1> QED
  BY <1>1, <1>2, <1>3, <1>4, <1>5, <1>6, <1>7, <1>8, <1>9, <1>10 DEF RunStep

\* And every step of the loops between decisions.
LEMMA LoopTypes ==
  ASSUME TypeOK, LoopStep
  PROVE  TypeOK'
<1> USE LifecycleAssumption DEF rows
<1>b. \A a \in Actor : BeginRun(a) => run' \in [Actor -> RunPc] /\ runs' \in 0 .. MaxRuns
  BY DEF BeginRun, TypeOK, RunPc, Working
<1>l. "office" \in Loop /\ "bot" \in Loop /\ Loop \subseteq Actor /\ "thread" \in Actor
  BY DEF Loop, Actor
<1>1. CASE OfficeStart
  BY <1>1, <1>b, <1>l DEF OfficeStart, TypeOK
<1>2. CASE OfficeStop
  BY <1>2 DEF OfficeStop, TypeOK
<1>r. \A p \in Loop : [handler[p] EXCEPT !.at = "run"] \in Handler
  BY DEF TypeOK, Handler, HandlerPc
<1>3. CASE OfficeRunInline
  <2>1. handler' \in [Loop -> Handler]
    BY <1>3, <1>r, <1>l DEF OfficeRunInline, TypeOK
  <2> QED
    BY <1>3, <1>b, <1>l, <2>1 DEF OfficeRunInline, TypeOK
<1>4. CASE BotRunBegins
  <2>1. handler' \in [Loop -> Handler]
    BY <1>4, <1>r, <1>l DEF BotRunBegins, TypeOK
  <2>2. botQueue' \in Nat
    BY <1>4 DEF BotRunBegins, TypeOK
  <2> QED
    BY <1>4, <1>b, <1>l, <2>1, <2>2 DEF BotRunBegins, TypeOK
<1>5. ASSUME NEW p \in Loop, NEW code \in Code, NEW inline \in BOOLEAN,
             TakeDecision(p, code, inline)
      PROVE  TypeOK'
  <2>1. [Idle EXCEPT !.at = "insert", !.code = code, !.inline = inline] \in Handler
    BY DEF Idle, Handler, HandlerPc, Code
  <2> QED
    BY <1>5, <2>1 DEF TakeDecision, TypeOK
<1> QED
  BY <1>1, <1>2, <1>3, <1>4, <1>5, <1>l DEF LoopStep, BotDecides, OfficeDecides

\* And every step of the console.
LEMMA ConsoleTypes ==
  ASSUME TypeOK, ConsoleStep
  PROVE  TypeOK'
<1> USE LifecycleAssumption DEF rows
<1>1. handler' \in [Loop -> Handler]
  <2>1. \A at \in HandlerPc : [Idle EXCEPT !.at = at] \in Handler
    BY DEF Idle, Handler, Code
  <2>2. PICK at \in HandlerPc : handler' = [handler EXCEPT !["office"] = [Idle EXCEPT !.at = at]]
    BY DEF ConsoleStep, ConsoleRest, ConsoleResume, ConsoleCancel, Reopen, ResumeRun, Archive,
       ConsoleAt, HandlerPc, ConsolePc
  <2> QED
    BY <2>1, <2>2 DEF TypeOK
<1>2. status' \in Status
  BY DEF ConsoleStep, ConsoleRest, ConsoleResume, ConsoleCancel, Reopen, ResumeRun, Archive,
     Status, TypeOK
<1>3. run' \in [Actor -> RunPc] /\ runs' \in 0 .. MaxRuns
  BY DEF ConsoleStep, ConsoleRest, ConsoleResume, ConsoleCancel, Reopen, ResumeRun, Archive,
     BeginRun, RunPc, Working, TypeOK
<1>4. stopAsked' \in BOOLEAN /\ bare' \in BOOLEAN
  BY Zenon DEF ConsoleStep, ConsoleRest, ConsoleResume, ConsoleCancel, Reopen, ResumeRun, Archive,
     TypeOK
<1>5. UNCHANGED <<onApprove, decisions, approvals, seen, botQueue>>
  BY DEF ConsoleStep, ConsoleRest, ConsoleResume, ConsoleCancel, Reopen, ResumeRun, Archive
<1> QED
  BY <1>1, <1>2, <1>3, <1>4, <1>5 DEF TypeOK

LEMMA InitTypes == Init => TypeOK
<1>1. Idle \in Handler
  BY DEF Idle, Handler, HandlerPc, Code
<1> SUFFICES ASSUME Init PROVE TypeOK
  OBVIOUS
<1>2. decisions \in Seq(Code) /\ approvals \in Seq(ApprovalRow)
  BY DEF Init
<1>3. onApprove \in AfterOk /\ runs \in 0 .. MaxRuns /\ botQueue \in Nat
  BY LifecycleAssumption DEF Init, AfterOk
<1>4. status \in Status /\ seen \in Status \cup {"none"} /\ stopAsked \in BOOLEAN /\ bare \in BOOLEAN
  BY DEF Init, Status
<1>5. handler \in [Loop -> Handler] /\ run \in [Actor -> RunPc]
  BY <1>1 DEF Init, RunPc
<1> QED
  BY <1>2, <1>3, <1>4, <1>5 DEF TypeOK

LEMMA StepTypes == TypeOK /\ [Next]_vars => TypeOK'
<1> SUFFICES ASSUME TypeOK, [Next]_vars PROVE TypeOK'
  OBVIOUS
<1>1. CASE UNCHANGED vars
  BY <1>1 DEF vars, rows, TypeOK
<1>2. CASE LoopStep
  BY <1>2, LoopTypes
<1>6. CASE ConsoleStep
  BY <1>6, ConsoleTypes
<1>3. CASE \E p \in Loop : HandlerStep(p)
  BY <1>3, HandlerTypes
<1>4. CASE \E a \in Actor : RunStep(a)
  BY <1>4, RunTypes
<1>5. CASE ReadToSettle \/ Settle
  <2>1. "thread" \in Actor
    BY DEF Actor
  <2> QED
    BY <1>5, <2>1, RunTypes
<1> QED
  BY <1>1, <1>2, <1>3, <1>4, <1>5, <1>6 DEF Next

\* Every variable of a mission keeps its type, in every mixture of channels.
THEOREM MissionTypes == Spec => []TypeOK
BY InitTypes, StepTypes, PTL DEF Spec

-----------------------------------------------------------------------------
(* What a closed row says.                                                 *)

\* The closed rows of a table, given the decisions.
RowSound(r, ds) ==
  \/ r.state = "REQUESTED"
  \/ /\ r.dec \in DOMAIN ds
     /\ r.state = IF ds[r.dec] \in {"a", "m"} THEN "APPROVED" ELSE "REJECTED"

LEMMA RowMatchesByRow == RowMatchesDecision <=> \A i \in DOMAIN approvals : RowSound(approvals[i], decisions)
BY DEF RowMatchesDecision, RowSound

\* Appending a decision makes no row unsound and takes no handler's decision.
LEMMA InsertKeepsRows ==
  ASSUME RowInv, NEW p \in Loop, InsertDecision(p)
  PROVE  HandlerOwnsDecision' /\ RowMatchesDecision'
<1> USE DEF RowInv, TypeOK
<1>1. /\ \A d \in DOMAIN decisions : d \in DOMAIN decisions' /\ decisions'[d] = decisions[d]
      /\ Len(decisions) + 1 \in DOMAIN decisions'
      /\ decisions'[Len(decisions) + 1] = handler[p].code
  BY DEF InsertDecision, Handler
<1>2. HandlerOwnsDecision'
  BY <1>1 DEF InsertDecision, HandlerOwnsDecision, Handler
<1>3. RowMatchesDecision'
  BY <1>1 DEF InsertDecision, RowMatchesDecision
<1> QED
  BY <1>2, <1>3

\* The row a handler closes, or adds, names its own decision.
LEMMA CloseKeepsRows ==
  ASSUME RowInv, NEW p \in Loop, CloseApproval(p)
  PROVE  HandlerOwnsDecision' /\ RowMatchesDecision'
<1> USE DEF RowInv, TypeOK
<1>1. HandlerOwnsDecision'
  BY DEF CloseApproval, HandlerOwnsDecision, Handler
<1>2. RowSound(Verdict(p), decisions)
  BY DEF CloseApproval, HandlerOwnsDecision, RowSound, Verdict
<1>3. ASSUME NEW i \in DOMAIN approvals'
      PROVE  approvals'[i] = Verdict(p) \/ (i \in DOMAIN approvals /\ approvals'[i] = approvals[i])
  <2>1. Verdict(p) \in ApprovalRow
    BY DEF Verdict, ApprovalRow, Handler
  <2>2. CASE approvals' = [approvals EXCEPT ![handler[p].row] = Verdict(p)]
    BY <1>3, <2>2
  <2>3. CASE approvals' = Append(approvals, Verdict(p))
    BY <1>3, <2>1, <2>3
  <2>4. CASE approvals' = approvals
    BY <1>3, <2>4
  <2> QED
    BY <2>2, <2>3, <2>4 DEF CloseApproval
<1>4. \A i \in DOMAIN approvals' : RowSound(approvals'[i], decisions)
  BY <1>2, <1>3, RowMatchesByRow
<1>5. decisions' = decisions
  BY DEF CloseApproval
<1> QED
  BY <1>1, <1>4, <1>5 DEF RowMatchesDecision, RowSound

\* No other step touches decisions or closes a row, or brings a handler to a
\* place where it owns one.
LEMMA OthersKeepRows ==
  ASSUME RowInv, [Next]_vars, \A p \in Loop : ~InsertDecision(p) /\ ~CloseApproval(p)
  PROVE  HandlerOwnsDecision' /\ RowMatchesDecision'
<1> USE DEF RowInv, TypeOK
<1>1. decisions' = decisions
  BY DEF Next, vars, rows, LoopStep, OfficeStart, OfficeStop, OfficeRunInline, BotRunBegins,
     BotDecides, OfficeDecides, TakeDecision, HandlerStep, LookupApproval, WriteDecision,
     RunStep, KeepLoops, ReadStatus, PassCheck, EnterPhase, Finalize, QueryApproval,
     InsertApproval, Raise, EndRun, ReadToSettle, Settle, ConsoleStep, ConsoleRest,
     ConsoleResume, ConsoleCancel, Reopen, ResumeRun, Archive
<1>2. ASSUME NEW p \in Loop
      PROVE  \/ handler'[p].at \notin {"lookup", "close"}
             \/ /\ handler[p].at \in {"lookup", "close"}
                /\ handler'[p].dec = handler[p].dec /\ handler'[p].code = handler[p].code
  <2>t. handler[p] \in Handler /\ "office" \in Loop /\ "bot" \in Loop
    BY DEF Loop
  <2>1. CASE handler' = handler
    BY <2>1
  <2>2. CASE OfficeRunInline \/ BotRunBegins
    BY <2>2, <2>t DEF OfficeRunInline, BotRunBegins, Handler
  <2>3. ASSUME NEW q \in Loop, NEW code, NEW inline, TakeDecision(q, code, inline)
        PROVE  handler'[p].at = "insert" \/ handler'[p] = handler[p]
    BY <2>3, <2>t DEF TakeDecision, Idle
  <2>4. ASSUME NEW q \in Loop, LookupApproval(q)
        PROVE  \/ handler'[p] = handler[p]
               \/ /\ handler[p].at = "lookup"
                  /\ handler'[p].dec = handler[p].dec /\ handler'[p].code = handler[p].code
    BY <2>4, <2>t DEF LookupApproval, Handler
  <2>5. ASSUME NEW q \in Loop, WriteDecision(q)
        PROVE  handler'[p].at \in {"idle", "run"} \/ handler'[p] = handler[p]
    BY <2>5, <2>t DEF WriteDecision, Idle
  <2>6. ASSUME NEW a \in Actor, EndRun(a)
        PROVE  handler'[p].at = "idle" \/ handler'[p] = handler[p]
    BY <2>6, <2>t DEF EndRun, Idle
  <2>7. ASSUME NEW a \in Actor, RunStep(a), ~EndRun(a)
        PROVE  handler' = handler
    BY <2>7 DEF RunStep, KeepLoops, ReadStatus, PassCheck, EnterPhase, Finalize,
       QueryApproval, InsertApproval, Raise
  <2>8. CASE LoopStep
    BY <2>1, <2>2, <2>3, <2>8, <2>t DEF LoopStep, OfficeStart, OfficeStop, BotDecides, OfficeDecides
  <2>10. CASE ConsoleStep
    BY <2>10, <2>t DEF ConsoleStep, ConsoleRest, ConsoleResume, ConsoleCancel, Reopen, ResumeRun,
       Archive, ConsoleAt, Idle
  <2>9. CASE ReadToSettle \/ Settle \/ UNCHANGED vars
    BY <2>1, <2>9 DEF ReadToSettle, Settle, KeepLoops, vars
  <2> QED
    BY <2>1, <2>4, <2>5, <2>6, <2>7, <2>8, <2>9, <2>10 DEF Next, HandlerStep
<1>3. approvals' = approvals \/ approvals' = Append(approvals, [state |-> "REQUESTED", dec |-> 0])
  BY DEF Next, vars, rows, LoopStep, OfficeStart, OfficeStop, OfficeRunInline, BotRunBegins,
     BotDecides, OfficeDecides, TakeDecision, HandlerStep, LookupApproval, WriteDecision,
     RunStep, KeepLoops, ReadStatus, PassCheck, EnterPhase, Finalize, QueryApproval,
     InsertApproval, Raise, EndRun, ReadToSettle, Settle, ConsoleStep, ConsoleRest,
     ConsoleResume, ConsoleCancel, Reopen, ResumeRun, Archive
<1>4. HandlerOwnsDecision'
  BY <1>1, <1>2 DEF HandlerOwnsDecision
<1>5. RowMatchesDecision'
  <2>1. ASSUME NEW i \in DOMAIN approvals'
        PROVE  \/ i \in DOMAIN approvals /\ approvals'[i] = approvals[i]
               \/ approvals'[i].state = "REQUESTED"
    <3>1. approvals \in Seq(ApprovalRow)
      OBVIOUS
    <3>2. [state |-> "REQUESTED", dec |-> 0] \in ApprovalRow
      BY DEF ApprovalRow
    <3> QED
      BY <1>3, <2>1, <3>1, <3>2
  <2> QED
    BY <1>1, <2>1 DEF RowMatchesDecision
<1> QED
  BY <1>4, <1>5

\* Whichever loops decide, and in whatever order they insert, look up, close
\* and add rows, a closed Approval row says what its Decision row says.
THEOREM RowsTellTheDecision == Spec => []RowMatchesDecision
<1>1. Init => RowInv
  <2>1. Init => HandlerOwnsDecision /\ RowMatchesDecision
    BY DEF Init, HandlerOwnsDecision, RowMatchesDecision, Idle
  <2> QED
    BY <2>1, InitTypes DEF RowInv
<1>2. RowInv /\ [Next]_vars => RowInv'
  BY StepTypes, InsertKeepsRows, CloseKeepsRows, OthersKeepRows DEF RowInv
<1>3. RowInv => RowMatchesDecision
  BY DEF RowInv
<1> QED
  BY <1>1, <1>2, <1>3, PTL DEF Spec

-----------------------------------------------------------------------------
(* Decisions wait for a background run, when the office is the only channel. *)

BusyInv == TypeOK /\ BotIdle /\ DecisionsWaitForRun

\* A step of a run that is not off changes no other actor's run, and the
\* handler only when it makes its loop idle.
LEMMA RunKeepsBusy ==
  ASSUME BusyInv, NEW a \in Actor, RunStep(a)
  PROVE  BotIdle' /\ DecisionsWaitForRun'
<1> USE DEF BusyInv, TypeOK
<1>1. run[a] # "off" /\ (a # "thread" => run'["thread"] = run["thread"])
  BY DEF RunStep, MoveRun, ReadStatus, PassCheck, EnterPhase, Finalize, QueryApproval,
     InsertApproval, Raise, EndRun, CheckThen, PhaseStatus, Working, Actor
<1>2. botQueue' = botQueue /\ \A p \in Loop : handler'[p] = handler[p] \/ handler'[p] = Idle
  BY DEF RunStep, KeepLoops, ReadStatus, PassCheck, EnterPhase, Finalize, QueryApproval,
     InsertApproval, Raise, EndRun
<1>3. BotIdle'
  BY <1>2 DEF BotIdle, Idle, Loop
<1>4. DecisionsWaitForRun'
  BY <1>1, <1>2 DEF DecisionsWaitForRun, Deciding, Idle
<1> QED
  BY <1>3, <1>4

\* A handler that starts a run has finished its decision.
LEMMA HandlerKeepsBusy ==
  ASSUME BusyInv, NEW p \in Loop, HandlerStep(p)
  PROVE  BotIdle' /\ DecisionsWaitForRun'
<1> USE DEF BusyInv, TypeOK
<1>0. p = "office" /\ "office" \in Loop /\ "bot" \in Loop
  BY DEF BotIdle, HandlerStep, InsertDecision, LookupApproval, CloseApproval, WriteDecision, Loop
<1>1. handler'["bot"] = handler["bot"] /\ botQueue' = botQueue
  BY <1>0 DEF HandlerStep, InsertDecision, LookupApproval, CloseApproval, WriteDecision
<1>2. CASE InsertDecision(p) \/ LookupApproval(p) \/ CloseApproval(p)
  <2>1. run' = run /\ Deciding("office")
    BY <1>0, <1>2 DEF InsertDecision, LookupApproval, CloseApproval, Deciding, HandlerPc
  <2>2. run["thread"] = "off"
    BY <1>0, <2>1 DEF DecisionsWaitForRun
  <2> QED
    BY <1>1, <2>1, <2>2 DEF DecisionsWaitForRun, BotIdle
<1>3. CASE WriteDecision(p)
  <2>1. handler'["office"].at \in {"idle", "run"}
    BY <1>0, <1>3 DEF WriteDecision, Idle
  <2> QED
    BY <1>1, <2>1 DEF DecisionsWaitForRun, BotIdle, Deciding, Loop
<1> QED
  BY <1>2, <1>3 DEF HandlerStep

\* The office looks at the run before it takes a decision, and at nothing it
\* has in hand before it starts a run.
LEMMA LoopKeepsBusy ==
  ASSUME ~Telegram, BusyInv, LoopStep
  PROVE  BotIdle' /\ DecisionsWaitForRun'
<1> USE DEF BusyInv, TypeOK
<1>0. "office" \in Loop /\ "bot" \in Loop /\ Loop = {"office", "bot"}
  BY DEF Loop
<1>1. CASE OfficeStart
  BY <1>0, <1>1 DEF OfficeStart, BotIdle, DecisionsWaitForRun, Deciding
<1>2. CASE OfficeStop
  BY <1>2 DEF OfficeStop, BotIdle, DecisionsWaitForRun, Deciding
<1>3. CASE OfficeRunInline
  <2>1. handler'["office"].at = "run" /\ handler'["bot"] = handler["bot"]
    BY <1>0, <1>3 DEF OfficeRunInline, Handler
  <2> QED
    BY <1>0, <1>3, <2>1 DEF OfficeRunInline, BotIdle, DecisionsWaitForRun, Deciding
<1>4. ~BotRunBegins
  BY DEF BotRunBegins, BotIdle
<1>5. ASSUME NEW code \in Code, NEW inline \in BOOLEAN, OfficeDecides(code, inline)
      PROVE  BotIdle' /\ DecisionsWaitForRun'
  BY <1>0, <1>5 DEF OfficeDecides, TakeDecision, BotIdle, DecisionsWaitForRun, Deciding
<1> QED
  BY <1>1, <1>2, <1>3, <1>4, <1>5 DEF LoopStep, BotDecides

\* The console takes no decision, and its handler ends when it starts a run.
LEMMA ConsoleKeepsBusy ==
  ASSUME BusyInv, ConsoleStep
  PROVE  BotIdle' /\ DecisionsWaitForRun'
<1> USE DEF BusyInv, TypeOK
<1>1. handler'["office"].at \in ConsolePc \cup {"idle"} /\ handler'["bot"] = handler["bot"]
  BY DEF ConsoleStep, ConsoleRest, ConsoleResume, ConsoleCancel, Reopen, ResumeRun, Archive,
     ConsoleAt, ConsolePc, Idle, Loop
<1>2. botQueue' = botQueue
  BY DEF ConsoleStep, ConsoleRest, ConsoleResume, ConsoleCancel, Reopen, ResumeRun, Archive
<1> QED
  BY <1>1, <1>2 DEF BotIdle, DecisionsWaitForRun, Deciding, Loop, ConsolePc

\* So BusyInv is inductive while the bot is not used.
LEMMA StepBusy ==
  ASSUME ~Telegram, BusyInv, [Next]_vars
  PROVE  BusyInv'
<1>1. CASE LoopStep
  BY <1>1, LoopKeepsBusy, StepTypes DEF BusyInv
<1>2. CASE \E p \in Loop : HandlerStep(p)
  BY <1>2, HandlerKeepsBusy, StepTypes DEF BusyInv
<1>3. CASE ConsoleStep
  BY <1>3, ConsoleKeepsBusy, StepTypes DEF BusyInv
<1>4. CASE \E a \in Actor : RunStep(a)
  BY <1>4, RunKeepsBusy, StepTypes DEF BusyInv
<1>5. CASE ReadToSettle \/ Settle
  <2>1. BotIdle' /\ DecisionsWaitForRun'
    BY <1>5 DEF ReadToSettle, Settle, MoveRun, KeepLoops, BusyInv, TypeOK, BotIdle,
       DecisionsWaitForRun, Deciding, Actor
  <2> QED
    BY <2>1, StepTypes DEF BusyInv
<1>6. CASE UNCHANGED vars
  BY <1>6, StepTypes DEF vars, BusyInv, BotIdle, DecisionsWaitForRun, Deciding
<1> QED
  BY <1>1, <1>2, <1>3, <1>4, <1>5, <1>6 DEF Next

\* While the bot is not used, no owner decision is ever being recorded while a
\* background run works on the mission, however many of both there are and
\* whether or not the office makes runs inside its requests and the console is
\* used as well.
THEOREM OfficeDecisionsWait == ~Telegram => (Spec => []DecisionsWaitForRun)
<1> SUFFICES ASSUME ~Telegram PROVE Spec => []DecisionsWaitForRun
  OBVIOUS
<1>1. Init => BusyInv
  <2>1. Init => BotIdle /\ DecisionsWaitForRun
    BY DEF Init, BotIdle, DecisionsWaitForRun, Deciding, Idle, Loop
  <2> QED
    BY <2>1, InitTypes DEF BusyInv
<1>2. BusyInv /\ [Next]_vars => BusyInv'
  BY StepBusy
<1>3. BusyInv => DecisionsWaitForRun
  BY DEF BusyInv
<1> QED
  BY <1>1, <1>2, <1>3, PTL DEF Spec
-----------------------------------------------------------------------------
(* Approvals, when the office is the only channel.                         *)

\* Only the office handles decisions.
LEMMA OfficeHandles ==
  ASSUME BusyInv, NEW p \in Loop, HandlerStep(p)
  PROVE  p = "office"
BY DEF BusyInv, BotIdle, HandlerStep, InsertDecision, LookupApproval, CloseApproval,
   WriteDecision, Loop

\* While the office makes a run inside a request, its handler is that request.
OfficeRuns == run["office"] # "off" => handler["office"].at = "run"

LEMMA StepRuns ==
  ASSUME BusyInv, OfficeRuns, [Next]_vars
  PROVE  OfficeRuns'
<1> USE DEF BusyInv, TypeOK, OfficeRuns
<1>0. /\ "office" \in Loop /\ handler["office"] \in Handler
      /\ "office" \in Actor /\ "thread" \in Actor
  BY DEF Loop, Actor
<1>1. CASE OfficeStart \/ OfficeStop
  BY <1>0, <1>1 DEF OfficeStart, OfficeStop, BeginRun
<1>2. CASE OfficeRunInline
  BY <1>0, <1>2 DEF OfficeRunInline, Handler
<1>3. CASE BotRunBegins
  BY <1>3 DEF BotRunBegins, BotIdle
<1>4. ASSUME NEW p \in Loop, NEW code \in Code, NEW inline \in BOOLEAN, TakeDecision(p, code, inline)
      PROVE  OfficeRuns'
  BY <1>0, <1>4 DEF TakeDecision
<1>5. CASE ConsoleStep
  BY <1>0, <1>5 DEF ConsoleStep, ConsoleRest, ConsoleResume, ConsoleCancel, Reopen, ResumeRun,
     Archive, ConsoleAt, BeginRun
<1>6. ASSUME NEW p \in Loop, InsertDecision(p) \/ LookupApproval(p) \/ CloseApproval(p)
      PROVE  OfficeRuns'
  BY <1>0, <1>6 DEF InsertDecision, LookupApproval, CloseApproval
<1>7. ASSUME NEW p \in Loop, WriteDecision(p)
      PROVE  OfficeRuns'
  <2>1. p = "office"
    BY <1>7, OfficeHandles DEF HandlerStep
  <2>2. run["office"] = "off"
    BY <1>7, <2>1 DEF WriteDecision
  <2> QED
    BY <1>0, <1>7, <2>1, <2>2 DEF WriteDecision, BeginRun, Idle, Actor
<1>8. ASSUME NEW a \in Actor, RunStep(a)
      PROVE  OfficeRuns'
  <2>1. run[a] # "off" /\ (a # "office" => run'["office"] = run["office"])
    BY <1>0, <1>8 DEF RunStep, MoveRun, ReadStatus, PassCheck, EnterPhase, Finalize, QueryApproval,
       InsertApproval, Raise, EndRun, CheckThen, PhaseStatus, Working, Actor
  <2>2. CASE EndRun(a)
    BY <1>0, <2>1, <2>2 DEF EndRun, MoveRun, Actor
  <2>3. CASE ~EndRun(a)
    <3>1. handler' = handler
      BY <1>8, <2>3 DEF RunStep, KeepLoops, ReadStatus, PassCheck, EnterPhase, Finalize,
         QueryApproval, InsertApproval, Raise
    <3> QED
      BY <2>1, <3>1
  <2> QED
    BY <2>2, <2>3
<1>9. CASE ReadToSettle \/ Settle \/ UNCHANGED vars
  BY <1>0, <1>9 DEF ReadToSettle, Settle, MoveRun, KeepLoops, vars
<1> QED
  BY <1>1, <1>2, <1>3, <1>4, <1>5, <1>6, <1>7, <1>8, <1>9 DEF Next, LoopStep, HandlerStep,
     BotDecides, OfficeDecides, Loop

\* An approval the owner gave is in the table, or the office is about to put it
\* there; and the row the office has found is still open.
RecordInv ==
  /\ BusyInv /\ OfficeRuns
  /\ \A d \in DOMAIN decisions : decisions[d] \in {"a", "m"} =>
       \/ \E i \in DOMAIN approvals : approvals[i] = [state |-> "APPROVED", dec |-> d]
       \/ handler["office"].at \in {"lookup", "close"} /\ handler["office"].dec = d
  /\ handler["office"].at \in {"lookup", "close"} =>
       /\ handler["office"].dec \in DOMAIN decisions
       /\ decisions[handler["office"].dec] = handler["office"].code
  /\ handler["office"].at = "close" /\ handler["office"].row # 0 =>
       /\ handler["office"].row \in DOMAIN approvals
       /\ approvals[handler["office"].row].state = "REQUESTED"

LEMMA InsertRecords ==
  ASSUME RecordInv, BusyInv', OfficeRuns', InsertDecision("office")
  PROVE  RecordInv'
<1> USE DEF RecordInv, BusyInv, TypeOK
<1>1. "office" \in Loop /\ handler["office"] \in Handler
  BY DEF Loop
<1>2. /\ handler'["office"].at = "lookup" /\ handler'["office"].dec = Len(decisions) + 1
      /\ handler'["office"].code = handler["office"].code
  BY <1>1 DEF InsertDecision, Handler
<1>3. /\ \A d \in DOMAIN decisions' : d \in DOMAIN decisions \/ d = Len(decisions) + 1
      /\ \A d \in DOMAIN decisions : decisions'[d] = decisions[d]
      /\ Len(decisions) + 1 \in DOMAIN decisions'
      /\ decisions'[Len(decisions) + 1] = handler["office"].code
  BY <1>1 DEF InsertDecision, Handler
<1>4. approvals' = approvals /\ handler["office"].at = "insert"
  BY DEF InsertDecision
<1> QED
  BY <1>2, <1>3, <1>4

LEMMA LookupRecords ==
  ASSUME RecordInv, BusyInv', OfficeRuns', LookupApproval("office")
  PROVE  RecordInv'
<1> USE DEF RecordInv, BusyInv, TypeOK
<1>1. "office" \in Loop /\ handler["office"] \in Handler
  BY DEF Loop
<1>2. PICK i \in {0} \cup Open(approvals) :
        handler' = [handler EXCEPT !["office"] = [@ EXCEPT !.at = "close", !.row = i]]
  BY DEF LookupApproval
<1>3. /\ handler'["office"].at = "close" /\ handler'["office"].row = i
      /\ handler'["office"].dec = handler["office"].dec
      /\ handler'["office"].code = handler["office"].code
  BY <1>1, <1>2 DEF Handler
<1>4. /\ approvals' = approvals /\ decisions' = decisions
      /\ handler["office"].at = "lookup"
  BY DEF LookupApproval, rows
<1> QED
  BY <1>2, <1>3, <1>4 DEF Open

LEMMA CloseRecords ==
  ASSUME RecordInv, BusyInv', OfficeRuns', CloseApproval("office")
  PROVE  RecordInv'
<1> USE DEF RecordInv, BusyInv, TypeOK
<1> DEFINE h == handler["office"]
<1>1. /\ "office" \in Loop /\ h \in Handler /\ h.at = "close"
      /\ h.dec \in DOMAIN decisions /\ decisions[h.dec] = h.code
  BY DEF Loop, CloseApproval
<1>2. handler'["office"].at = "status" /\ decisions' = decisions
  BY <1>1 DEF CloseApproval
<1>3. Verdict("office") \in ApprovalRow
  BY <1>1 DEF Verdict, ApprovalRow, Handler
<1>4. ASSUME NEW d \in DOMAIN decisions, decisions[d] \in {"a", "m"}
      PROVE  \E i \in DOMAIN approvals' : approvals'[i] = [state |-> "APPROVED", dec |-> d]
  <2>1. CASE d = h.dec
    <3>1. Verdict("office") = [state |-> "APPROVED", dec |-> d]
      BY <1>1, <1>4, <2>1 DEF Verdict
    <3>2. CASE h.row # 0
      BY <1>1, <3>1, <3>2 DEF CloseApproval
    <3>3. CASE h.row = 0
      <4>1. approvals' = Append(approvals, Verdict("office"))
        BY <1>1, <1>4, <2>1, <3>3 DEF CloseApproval
      <4>2. /\ Len(approvals) + 1 \in DOMAIN approvals'
            /\ approvals'[Len(approvals) + 1] = Verdict("office")
        BY <1>3, <4>1
      <4> QED
        BY <3>1, <4>2
    <3> QED
      BY <3>2, <3>3
  <2>2. CASE d # h.dec
    <3>1. PICK i \in DOMAIN approvals : approvals[i] = [state |-> "APPROVED", dec |-> d]
      BY <1>4, <2>2
    <3>2. i \in DOMAIN approvals' /\ approvals'[i] = approvals[i]
      <4>1. CASE h.row # 0
        BY <1>1, <3>1, <4>1 DEF CloseApproval
      <4>2. CASE h.row = 0
        BY <1>1, <1>3, <3>1, <4>2 DEF CloseApproval
      <4> QED
        BY <4>1, <4>2
    <3> QED
      BY <3>1, <3>2
  <2> QED
    BY <2>1, <2>2
<1> HIDE DEF h
<1> QED
  BY <1>2, <1>4

\* Every other step leaves the decisions, and of the approvals at most adds an
\* open one; it brings the office's handler to no place after an insert.
LEMMA OthersRecord ==
  ASSUME RecordInv, BusyInv', OfficeRuns', [Next]_vars,
         \A p \in Loop : ~InsertDecision(p) /\ ~LookupApproval(p) /\ ~CloseApproval(p)
  PROVE  RecordInv'
<1> USE DEF RecordInv, BusyInv, TypeOK
<1>0. "office" \in Loop /\ "bot" \in Loop
  BY DEF Loop
<1>1. decisions' = decisions
  BY DEF Next, vars, rows, LoopStep, OfficeStart, OfficeStop, OfficeRunInline, BotRunBegins,
     BotDecides, OfficeDecides, TakeDecision, HandlerStep, WriteDecision, RunStep, KeepLoops,
     ReadStatus, PassCheck, EnterPhase, Finalize, QueryApproval, InsertApproval, Raise, EndRun,
     ReadToSettle, Settle, ConsoleStep, ConsoleRest, ConsoleResume, ConsoleCancel, Reopen,
     ResumeRun, Archive
<1>2. approvals' = approvals \/ approvals' = Append(approvals, [state |-> "REQUESTED", dec |-> 0])
  BY DEF Next, vars, rows, LoopStep, OfficeStart, OfficeStop, OfficeRunInline, BotRunBegins,
     BotDecides, OfficeDecides, TakeDecision, HandlerStep, WriteDecision, RunStep, KeepLoops,
     ReadStatus, PassCheck, EnterPhase, Finalize, QueryApproval, InsertApproval, Raise, EndRun,
     ReadToSettle, Settle, ConsoleStep, ConsoleRest, ConsoleResume, ConsoleCancel, Reopen,
     ResumeRun, Archive
<1>3. \A i \in DOMAIN approvals : i \in DOMAIN approvals' /\ approvals'[i] = approvals[i]
  <2>1. [state |-> "REQUESTED", dec |-> 0] \in ApprovalRow
    BY DEF ApprovalRow
  <2>2. CASE approvals' = Append(approvals, [state |-> "REQUESTED", dec |-> 0])
    BY <2>1, <2>2
  <2> QED
    BY <1>2, <2>2
<1>4. \/ handler'["office"] = handler["office"]
      \/ /\ handler'["office"].at \notin {"lookup", "close"}
         /\ handler["office"].at \notin {"lookup", "close"}
  <2>t. handler["office"] \in Handler
    BY <1>0
  <2>1. CASE LoopStep
    <3>1. CASE OfficeStart \/ OfficeStop
      BY <3>1 DEF OfficeStart, OfficeStop
    <3>2. CASE OfficeRunInline \/ BotRunBegins
      BY <1>0, <2>t, <3>2 DEF OfficeRunInline, BotRunBegins, Handler
    <3>3. ASSUME NEW p \in Loop, NEW code \in Code, NEW inline \in BOOLEAN,
                 TakeDecision(p, code, inline)
          PROVE  \/ handler'["office"] = handler["office"]
                 \/ /\ handler'["office"].at \notin {"lookup", "close"}
                    /\ handler["office"].at \notin {"lookup", "close"}
      BY <1>0, <3>3 DEF TakeDecision, Idle
    <3> QED
      BY <1>0, <2>1, <3>1, <3>2, <3>3 DEF LoopStep, BotDecides, OfficeDecides
  <2>2. CASE ConsoleStep
    BY <1>0, <2>2 DEF ConsoleStep, ConsoleRest, ConsoleResume, ConsoleCancel, Reopen, ResumeRun,
       Archive, ConsoleAt, Idle
  <2>3. ASSUME NEW p \in Loop, HandlerStep(p)
        PROVE  /\ handler'["office"].at \notin {"lookup", "close"}
               /\ handler["office"].at \notin {"lookup", "close"}
    <3>1. p = "office" /\ WriteDecision(p)
      BY <2>3, OfficeHandles DEF HandlerStep
    <3> QED
      BY <1>0, <3>1 DEF WriteDecision, Idle
  <2>4. ASSUME NEW a \in Actor, RunStep(a)
        PROVE  \/ handler'["office"] = handler["office"]
               \/ a = "office" /\ EndRun(a)
    BY <1>0, <2>4 DEF RunStep, KeepLoops, ReadStatus, PassCheck, EnterPhase, Finalize,
       QueryApproval, InsertApproval, Raise, EndRun
  <2>5. CASE ReadToSettle \/ Settle \/ UNCHANGED vars
    BY <2>5 DEF ReadToSettle, Settle, KeepLoops, vars
  <2>6. CASE EndRun("office")
    BY <1>0, <2>6 DEF EndRun, Idle, OfficeRuns
  <2> QED
    BY <2>1, <2>2, <2>3, <2>4, <2>5, <2>6 DEF Next
<1> QED
  BY <1>1, <1>3, <1>4

\* While the bot is not used, no approval or merge the owner confirmed is left
\* without an Approval row of its own, once the office has handled it, however
\* many runs and decisions there are and whatever the console does.
THEOREM OfficeApprovalsRecorded == ~Telegram => (Spec => []ApprovalsRecorded)
<1> SUFFICES ASSUME ~Telegram PROVE Spec => []ApprovalsRecorded
  OBVIOUS
<1>1. Init => RecordInv
  <2> SUFFICES ASSUME Init PROVE RecordInv
    OBVIOUS
  <2>1. BusyInv
    BY InitTypes DEF Init, BusyInv, BotIdle, DecisionsWaitForRun, Deciding, Idle, Loop
  <2>2. handler["office"].at = "idle" /\ run["office"] = "off" /\ DOMAIN decisions = {}
    BY DEF Init, Idle, Loop, Actor
  <2> QED
    BY <2>1, <2>2 DEF RecordInv, OfficeRuns
<1>2. RecordInv /\ [Next]_vars => RecordInv'
  <2> SUFFICES ASSUME RecordInv, [Next]_vars PROVE RecordInv'
    OBVIOUS
  <2>1. BusyInv' /\ OfficeRuns'
    BY StepBusy, StepRuns DEF RecordInv
  <2>2. ASSUME NEW p \in Loop, InsertDecision(p) \/ LookupApproval(p) \/ CloseApproval(p)
        PROVE  RecordInv'
    <3>1. p = "office"
      BY <2>2, OfficeHandles DEF HandlerStep, RecordInv
    <3> QED
      BY <2>1, <2>2, <3>1, InsertRecords, LookupRecords, CloseRecords
  <2> QED
    BY <2>1, <2>2, OthersRecord
<1>3. RecordInv => ApprovalsRecorded
  BY DEF RecordInv, ApprovalsRecorded, Quiet, Loop
<1> QED
  BY <1>1, <1>2, <1>3, PTL DEF Spec

\* The owner is asked at most once: only the background run asks, and it asks
\* when it has found no open row.
AskInv ==
  /\ BusyInv
  /\ run["office"] = "off" /\ run["bot"] = "off" /\ ~handler["office"].inline
  /\ run["thread"] = "insert" => Open(approvals) = {}
  /\ \A i, j \in Open(approvals) : i = j

\* What happens to the table leaves no open row but an old one, or adds the
\* only one.
LEMMA StepAsks ==
  ASSUME ~Telegram, ~SyncRuns, AskInv, [Next]_vars
  PROVE  AskInv'
<1> USE DEF AskInv, BusyInv, TypeOK
<1>0. /\ "office" \in Loop /\ "bot" \in Loop /\ handler["office"] \in Handler
      /\ "office" \in Actor /\ "bot" \in Actor /\ "thread" \in Actor
  BY DEF Loop, Actor
<1>b. BusyInv'
  BY StepBusy
<1> HIDE DEF BusyInv
<1>i. TypeOK
  BY DEF BusyInv
<1> USE <1>i
<1>1. ASSUME NEW p \in Loop, HandlerStep(p)
      PROVE  AskInv'
  <2>1. p = "office" /\ run["thread"] = "off"
    BY <1>0, <1>1, OfficeHandles DEF BusyInv, HandlerStep, InsertDecision, LookupApproval,
       CloseApproval, WriteDecision, DecisionsWaitForRun, Deciding
  <2>2. Open(approvals') \subseteq Open(approvals)
    <3>1. CASE approvals' = approvals
      BY <3>1
    <3>2. CASE CloseApproval(p)
      <4>1. Verdict(p) \in ApprovalRow /\ Verdict(p).state # "REQUESTED"
        BY <1>0, <2>1 DEF Verdict, ApprovalRow, Handler
      <4>2. CASE approvals' = [approvals EXCEPT ![handler[p].row] = Verdict(p)]
        BY <4>1, <4>2 DEF Open
      <4>3. CASE approvals' = Append(approvals, Verdict(p))
        BY <1>i, <4>1, <4>3 DEF Open
      <4> QED
        BY <3>1, <3>2, <4>2, <4>3 DEF CloseApproval
    <3> QED
      BY <1>1, <3>1, <3>2 DEF HandlerStep, InsertDecision, LookupApproval, WriteDecision, rows
  <2>3. /\ run'["office"] = "off" /\ run'["bot"] = "off" /\ run'["thread"] # "insert"
        /\ ~handler'["office"].inline
    <3>1. CASE WriteDecision(p)
      BY <1>0, <2>1, <3>1 DEF WriteDecision, BeginRun, Idle
    <3>2. CASE InsertDecision(p) \/ LookupApproval(p) \/ CloseApproval(p)
      <4>1. run' = run
        BY <3>2 DEF InsertDecision, LookupApproval, CloseApproval
      <4>2. handler'["office"].inline = handler["office"].inline
        <5>1. CASE InsertDecision("office")
          BY <1>0, <5>1 DEF InsertDecision, Handler
        <5>2. CASE LookupApproval("office")
          <6>1. PICK i : handler' = [handler EXCEPT !["office"] = [@ EXCEPT !.at = "close", !.row = i]]
            BY <5>2 DEF LookupApproval
          <6> QED
            BY <1>0, <6>1 DEF Handler
        <5>3. CASE CloseApproval("office")
          BY <1>0, <5>3 DEF CloseApproval, Handler
        <5> QED
          BY <2>1, <3>2, <5>1, <5>2, <5>3
      <4> QED
        BY <2>1, <4>1, <4>2
    <3> QED
      BY <1>1, <3>1, <3>2 DEF HandlerStep
  <2> QED
    BY <1>b, <2>2, <2>3
<1>2. ASSUME NEW a \in Actor, RunStep(a)
      PROVE  AskInv'
  <2>1. a = "thread" /\ run["thread"] # "off"
    BY <1>2 DEF RunStep, ReadStatus, PassCheck, EnterPhase, Finalize, QueryApproval,
       InsertApproval, Raise, EndRun, CheckThen, PhaseStatus, Working, Actor, Loop
  <2>2. run'["office"] = "off" /\ run'["bot"] = "off" /\ handler'["office"] = handler["office"]
    BY <1>0, <1>2, <2>1 DEF RunStep, MoveRun, KeepLoops, ReadStatus, PassCheck, EnterPhase,
       Finalize, QueryApproval, InsertApproval, Raise, EndRun
  <2>3. CASE InsertApproval(a)
    <3>1. run["thread"] = "insert" /\ run'["thread"] = "end"
      BY <1>0, <2>1, <2>3 DEF InsertApproval, MoveRun
    <3>2. [state |-> "REQUESTED", dec |-> 0] \in ApprovalRow
      BY DEF ApprovalRow
    <3>3. \A i \in Open(approvals') : i \in Open(approvals) \/ i = Len(approvals) + 1
      BY <1>i, <2>3, <3>2 DEF InsertApproval, Open
    <3> QED
      BY <1>b, <2>2, <3>1, <3>3
  <2>4. CASE QueryApproval(a)
    BY <1>0, <1>b, <2>1, <2>2, <2>4 DEF QueryApproval, MoveRun
  <2>5. CASE ~InsertApproval(a) /\ ~QueryApproval(a)
    <3>1. approvals' = approvals
      BY <1>2, <2>5 DEF RunStep, KeepLoops, ReadStatus, PassCheck, EnterPhase, Finalize, Raise,
         EndRun, rows
    <3>2. run'["thread"] # "insert"
      BY <1>0, <1>2, <2>1, <2>5 DEF RunStep, MoveRun, ReadStatus, PassCheck, EnterPhase, Finalize,
         Raise, EndRun, CheckThen, AfterPhase, PhaseStatus
    <3> QED
      BY <1>b, <2>2, <3>1, <3>2
  <2> QED
    BY <2>3, <2>4, <2>5
<1>3. CASE LoopStep
  <2>1. approvals' = approvals
    BY <1>3 DEF LoopStep, OfficeStart, OfficeStop, OfficeRunInline, BotRunBegins, BotDecides,
       OfficeDecides, TakeDecision, rows
  <2>2. CASE OfficeStart
    BY <1>0, <1>b, <2>1, <2>2 DEF OfficeStart, BeginRun
  <2>3. CASE OfficeStop
    BY <1>b, <2>1, <2>3 DEF OfficeStop
  <2>4. ~OfficeRunInline /\ ~BotRunBegins
    BY DEF OfficeRunInline, BotRunBegins, BusyInv, BotIdle
  <2>5. ASSUME NEW code \in Code, NEW inline \in BOOLEAN, OfficeDecides(code, inline)
        PROVE  AskInv'
    BY <1>0, <1>b, <2>1, <2>5 DEF OfficeDecides, TakeDecision, Idle
  <2> QED
    BY <1>3, <2>2, <2>3, <2>4, <2>5 DEF LoopStep, BotDecides
<1>4. CASE ConsoleStep
  <2>1. approvals' = approvals /\ ~handler'["office"].inline
    BY <1>0, <1>4 DEF ConsoleStep, ConsoleRest, ConsoleResume, ConsoleCancel, Reopen, ResumeRun,
       Archive, ConsoleAt, Idle, rows
  <2>2. \/ run' = run
        \/ run' = [run EXCEPT !["thread"] = "begin"]
    BY <1>4 DEF ConsoleStep, ConsoleRest, ConsoleResume, ConsoleCancel, Reopen, ResumeRun,
       Archive, BeginRun
  <2> QED
    BY <1>0, <1>b, <2>1, <2>2
<1>5. CASE ReadToSettle \/ Settle
  <2>1. approvals' = approvals /\ handler' = handler
    BY <1>5 DEF ReadToSettle, Settle, KeepLoops
  <2>2. /\ run'["office"] = "off" /\ run'["bot"] = "off" /\ run'["thread"] # "insert"
    BY <1>0, <1>5 DEF ReadToSettle, Settle, MoveRun
  <2> QED
    BY <1>b, <2>1, <2>2
<1>6. CASE UNCHANGED vars
  BY <1>6, <1>b DEF vars, rows
<1> QED
  BY <1>1, <1>2, <1>3, <1>4, <1>5, <1>6 DEF Next

\* While neither the bot nor runs inside a request are used, the owner never
\* has two open requests for approval of a mission.
THEOREM OfficeAsksOnce == ~Telegram /\ ~SyncRuns => (Spec => []OneOpenApproval)
<1> SUFFICES ASSUME ~Telegram, ~SyncRuns PROVE Spec => []OneOpenApproval
  OBVIOUS
<1>1. Init => AskInv
  <2> SUFFICES ASSUME Init PROVE AskInv
    OBVIOUS
  <2>1. BusyInv
    BY InitTypes DEF Init, BusyInv, BotIdle, DecisionsWaitForRun, Deciding, Idle, Loop
  <2>2. /\ ~handler["office"].inline /\ Open(approvals) = {}
        /\ run["office"] = "off" /\ run["bot"] = "off" /\ run["thread"] = "off"
    BY DEF Init, Idle, Loop, Actor, Open
  <2> QED
    BY <2>1, <2>2 DEF AskInv
<1>2. AskInv /\ [Next]_vars => AskInv'
  BY StepAsks
<1>3. AskInv => OneOpenApproval
  <2> SUFFICES ASSUME AskInv PROVE Cardinality(Open(approvals)) <= 1
    BY DEF OneOpenApproval
  <2>1. CASE Open(approvals) = {}
    BY <2>1, FS_EmptySet
  <2>2. CASE Open(approvals) # {}
    <3>1. PICK x : Open(approvals) = {x}
      BY <2>2 DEF AskInv
    <3> QED
      BY <3>1, FS_Singleton
  <2> QED
    BY <2>1, <2>2
<1> QED
  BY <1>1, <1>2, <1>3, PTL DEF Spec

-----------------------------------------------------------------------------
(* The statuses a background run leaves, when the office is the only       *)
(* channel and makes no run inside a request.                              *)

\* The session of a run that asks the owner holds the status it has just
\* written, and one that closed the mission knows that it did; the handlers of
\* a target are the office's own.
SeenInv ==
  /\ run["thread"] \in {"query", "insert"} => seen = "WAIT_OWNER"
  /\ run["thread"] # "off" /\ ~bare /\ status = "DONE" => seen = "DONE"
  /\ run["thread"] \in {"handling", "settling"} => ~bare

\* No decision and no reopening is on its way to an archived mission.
ArchivedInv ==
  status = "ARCHIVED" => ~Deciding("office") /\ handler["office"].at # "reopen"

\* A mission that waits for the owner has a row that asks him, or somebody is
\* about to write the row or another status.
WaitInv ==
  status = "WAIT_OWNER" /\ ~bare =>
    \/ Open(approvals) # {}
    \/ run["thread"] \in {"query", "insert"}
    \/ run["thread"] \in {"handling", "settling"} /\ seen = "WAIT_OWNER"
    \/ handler["office"].at = "status"

OfficeInv == AskInv /\ SeenInv /\ ArchivedInv /\ WaitInv

\* The steps of a decision: the thread is off, and nothing but the last step
\* writes a status.
LEMMA HandlerKeepsOffice ==
  ASSUME OfficeInv, NEW p \in Loop, HandlerStep(p)
  PROVE  SeenInv' /\ ArchivedInv' /\ WaitInv'
<1> USE LifecycleAssumption
<1>0. /\ TypeOK /\ BusyInv /\ "office" \in Loop /\ handler["office"] \in Handler
      /\ "office" \in Actor /\ "thread" \in Actor
  BY DEF Loop, Actor, OfficeInv, AskInv, BusyInv, TypeOK
<1>1. p = "office" /\ run["thread"] = "off"
  BY <1>0, OfficeHandles DEF BusyInv, HandlerStep, InsertDecision, LookupApproval,
     CloseApproval, WriteDecision, DecisionsWaitForRun, Deciding
<1>2. CASE InsertDecision("office")
  <2>1. /\ UNCHANGED <<status, approvals, run, seen, bare>>
        /\ handler["office"].at = "insert" /\ handler'["office"].at = "lookup"
    BY <1>0, <1>2 DEF InsertDecision, Handler, TypeOK
  <2> QED
    BY <2>1 DEF OfficeInv, SeenInv, ArchivedInv, WaitInv, Deciding
<1>3. CASE LookupApproval("office")
  <2>1. PICK i : handler' = [handler EXCEPT !["office"] = [@ EXCEPT !.at = "close", !.row = i]]
    BY <1>3 DEF LookupApproval
  <2>2. /\ UNCHANGED <<status, approvals, run, seen, bare>>
        /\ handler["office"].at = "lookup" /\ handler'["office"].at = "close"
    BY <1>0, <1>3, <2>1 DEF LookupApproval, Handler, TypeOK, rows
  <2> QED
    BY <2>2 DEF OfficeInv, SeenInv, ArchivedInv, WaitInv, Deciding
<1>4. CASE CloseApproval("office")
  <2>1. /\ UNCHANGED <<status, run, seen, bare>>
        /\ handler["office"].at = "close" /\ handler'["office"].at = "status"
    BY <1>0, <1>4 DEF CloseApproval, Handler, TypeOK
  <2> QED
    BY <2>1 DEF OfficeInv, SeenInv, ArchivedInv, WaitInv, Deciding
<1>5. CASE WriteDecision("office")
  <2>1. status' \notin {"WAIT_OWNER", "ARCHIVED"}
    BY <1>0, <1>5 DEF WriteDecision, StatusAfter, Handler, Code, TypeOK, AfterOk
  <2>2. \/ run' = run /\ bare' = bare
        \/ run' = [run EXCEPT !["thread"] = "begin"] /\ status' = "REWORK"
    <3>1. ~handler["office"].inline
      BY DEF OfficeInv, AskInv
    <3> QED
      BY <1>5, <3>1 DEF WriteDecision, BeginRun, StatusAfter
  <2> QED
    BY <1>0, <1>1, <2>1, <2>2 DEF SeenInv, ArchivedInv, WaitInv, TypeOK
<1> QED
  BY <1>1, <1>2, <1>3, <1>4, <1>5 DEF HandlerStep

\* The steps of the background run, the only run there is.
LEMMA RunKeepsOffice ==
  ASSUME OfficeInv, NEW a \in Actor, RunStep(a)
  PROVE  SeenInv' /\ ArchivedInv' /\ WaitInv'
<1>0. TypeOK /\ "thread" \in Actor /\ "office" \in Loop
  BY DEF Loop, Actor, OfficeInv, AskInv, BusyInv
<1>1. a = "thread" /\ run["thread"] # "off"
  BY DEF OfficeInv, AskInv, RunStep, ReadStatus, PassCheck, EnterPhase, Finalize, QueryApproval,
     InsertApproval, Raise, EndRun, CheckThen, PhaseStatus, Working, Actor, Loop
<1>2. ~Deciding("office")
  BY <1>0, <1>1 DEF OfficeInv, AskInv, BusyInv, DecisionsWaitForRun
<1>3. UNCHANGED <<handler, bare>>
  <2>1. CASE EndRun(a)
    <3>1. handler' = [p \in Loop |-> handler[p]]
      BY <1>1, <2>1 DEF EndRun, Loop
    <3> QED
      BY <1>0, <2>1, <3>1 DEF EndRun, TypeOK
  <2> QED
    BY <2>1 DEF RunStep, KeepLoops, ReadStatus, PassCheck, EnterPhase, Finalize, QueryApproval,
       InsertApproval, Raise
<1>4. \A next : MoveRun("thread", next) => run'["thread"] = next
  BY <1>0 DEF MoveRun, TypeOK
<1> USE DEF Load
<1>5. CASE ReadStatus(a)
  <2>1. /\ UNCHANGED <<status, approvals>> /\ seen' = status
        /\ run["thread"] = "begin" /\ run'["thread"] \in {"end", "triage_check"}
    BY <1>1, <1>4, <1>5 DEF ReadStatus
  <2> QED
    BY <1>2, <1>3, <2>1 DEF OfficeInv, SeenInv, ArchivedInv, WaitInv, Deciding
<1>6. CASE PassCheck(a)
  <2>1. /\ UNCHANGED <<status, approvals, seen>>
        /\ run["thread"] \in DOMAIN CheckThen
        /\ \/ run'["thread"] = "handling" /\ ~bare
           \/ run'["thread"] \in {"end", "triage", "pipeline", "roundtable", "court", "finalize"}
    BY <1>1, <1>4, <1>6 DEF PassCheck, CheckThen
  <2> QED
    BY <1>2, <1>3, <2>1 DEF OfficeInv, SeenInv, ArchivedInv, WaitInv, Deciding, CheckThen
<1>7. CASE EnterPhase(a)
  <2>1. /\ approvals' = approvals /\ seen' = status'
        /\ status' \in InWork
        /\ run'["thread"] \in {"pipeline_check", "roundtable_check", "court_check", "finalize_check"}
    BY <1>1, <1>4, <1>7 DEF EnterPhase, PhaseStatus, AfterPhase, InWork
  <2> QED
    BY <1>2, <1>3, <2>1 DEF SeenInv, ArchivedInv, WaitInv, InWork
<1>8. CASE Finalize(a)
  <2>1. /\ approvals' = approvals /\ seen' = status'
        /\ \/ status' = "WAIT_OWNER" /\ run'["thread"] = "query"
           \/ status' = "DONE" /\ run'["thread"] = "end"
    BY <1>1, <1>4, <1>8 DEF Finalize
  <2> QED
    BY <1>2, <1>3, <2>1 DEF SeenInv, ArchivedInv, WaitInv
<1>9. CASE QueryApproval(a)
  <2>1. /\ UNCHANGED <<status, approvals, seen>>
        /\ run["thread"] = "query"
        /\ run'["thread"] = IF Open(approvals) = {} THEN "insert" ELSE "end"
    BY <1>1, <1>4, <1>9 DEF QueryApproval
  <2> QED
    BY <1>2, <1>3, <2>1 DEF OfficeInv, SeenInv, ArchivedInv, WaitInv, Deciding
<1>10. CASE InsertApproval(a)
  <2>1. /\ UNCHANGED <<status, seen>>
        /\ run["thread"] = "insert" /\ run'["thread"] = "end"
        /\ approvals' = Append(approvals, [state |-> "REQUESTED", dec |-> 0])
    BY <1>1, <1>4, <1>10 DEF InsertApproval
  <2>2. Len(approvals) + 1 \in Open(approvals')
    <3>1. approvals \in Seq(ApprovalRow) /\ [state |-> "REQUESTED", dec |-> 0] \in ApprovalRow
      BY <1>0 DEF TypeOK, ApprovalRow
    <3> QED
      BY <2>1, <3>1 DEF Open
  <2> QED
    BY <1>2, <1>3, <2>1, <2>2 DEF OfficeInv, SeenInv, ArchivedInv, WaitInv, Deciding
<1>11. CASE Raise(a)
  <2>1. /\ UNCHANGED <<status, approvals, seen>>
        /\ run["thread"] \in Working \cup {"end"}
        /\ \/ run'["thread"] = "handling" /\ ~bare
           \/ run'["thread"] = "end" /\ bare
    BY <1>1, <1>4, <1>11 DEF Raise
  <2>2. run["thread"] \notin {"off", "handling", "settling"}
    BY <2>1 DEF Working, CheckThen, PhaseStatus
  <2> QED
    BY <1>2, <1>3, <2>1, <2>2 DEF OfficeInv, SeenInv, ArchivedInv, WaitInv, Deciding
<1>12. CASE EndRun(a)
  <2>1. /\ UNCHANGED <<status, approvals>>
        /\ run["thread"] = "end" /\ run'["thread"] = "off"
    BY <1>1, <1>4, <1>12 DEF EndRun, rows
  <2> QED
    BY <1>2, <1>3, <2>1 DEF OfficeInv, SeenInv, ArchivedInv, WaitInv, Deciding
<1> QED
  BY <1>5, <1>6, <1>7, <1>8, <1>9, <1>10, <1>11, <1>12 DEF RunStep

\* The handlers of the background target.
LEMMA SettleKeepsOffice ==
  ASSUME OfficeInv, ReadToSettle \/ Settle
  PROVE  SeenInv' /\ ArchivedInv' /\ WaitInv'
<1>0. TypeOK /\ "thread" \in Actor /\ "office" \in Loop
  BY DEF Loop, Actor, OfficeInv, AskInv, BusyInv
<1>1. UNCHANGED <<handler, bare, approvals>> /\ run["thread"] \in {"handling", "settling"}
  BY DEF ReadToSettle, Settle, KeepLoops
<1>2. ~Deciding("office")
  BY <1>0, <1>1 DEF OfficeInv, AskInv, BusyInv, DecisionsWaitForRun
<1>3. CASE ReadToSettle
  BY <1>0, <1>1, <1>2, <1>3 DEF OfficeInv, SeenInv, ArchivedInv, WaitInv, ReadToSettle, MoveRun,
     Deciding, TypeOK
<1>4. CASE Settle
  BY <1>0, <1>1, <1>2, <1>4 DEF OfficeInv, SeenInv, ArchivedInv, WaitInv, Settle, MoveRun,
     Deciding, TypeOK
<1> QED
  BY <1>3, <1>4

\* What the office starts, and what the console does.
LEMMA LoopKeepsOffice ==
  ASSUME ~Telegram, ~SyncRuns, OfficeInv, LoopStep \/ ConsoleStep
  PROVE  SeenInv' /\ ArchivedInv' /\ WaitInv'
<1>0. /\ TypeOK /\ BotIdle /\ "thread" \in Actor /\ "office" \in Loop
      /\ handler["office"] \in Handler
  BY DEF Loop, Actor, OfficeInv, AskInv, BusyInv, TypeOK
<1>1. CASE OfficeStart
  <2>1. /\ UNCHANGED <<status, approvals, handler, seen>>
        /\ status \in Startable /\ run["thread"] = "off" /\ run'["thread"] = "begin"
    BY <1>0, <1>1 DEF OfficeStart, BeginRun, TypeOK, rows
  <2> QED
    BY <2>1 DEF OfficeInv, SeenInv, ArchivedInv, WaitInv, Startable, Deciding
<1>2. CASE OfficeStop
  BY <1>2 DEF OfficeStop, OfficeInv, SeenInv, ArchivedInv, WaitInv, Deciding, rows
<1>3. ~OfficeRunInline /\ ~BotRunBegins
  BY <1>0 DEF OfficeRunInline, BotRunBegins, BotIdle
<1>4. ASSUME NEW code \in Code, NEW inline \in BOOLEAN, OfficeDecides(code, inline)
      PROVE  SeenInv' /\ ArchivedInv' /\ WaitInv'
  <2>1. /\ UNCHANGED <<status, approvals, run, seen, bare>>
        /\ handler["office"].at = "idle" /\ handler'["office"].at = "insert"
    BY <1>0, <1>4 DEF OfficeDecides, TakeDecision, Idle, TypeOK, rows
  <2>2. status # "ARCHIVED"
    BY <1>4 DEF OfficeDecides, Offered, Code, Reworkable
  <2> QED
    BY <2>1, <2>2 DEF OfficeInv, SeenInv, ArchivedInv, WaitInv, Deciding
<1>5. CASE ConsoleStep
  <2>1. approvals' = approvals /\ seen' = seen
    BY <1>5 DEF ConsoleStep, ConsoleRest, ConsoleResume, ConsoleCancel, Reopen, ResumeRun, Archive,
       rows
  <2>2. \A at \in HandlerPc : ConsoleAt(at) => handler'["office"].at = at
    BY <1>0 DEF ConsoleAt, Idle, TypeOK
  <2>3. CASE ConsoleResume
    <3>1. /\ UNCHANGED <<status, run, bare>>
          /\ handler["office"].at = "idle"
          /\ \/ handler'["office"].at = "resume"
             \/ handler'["office"].at = "reopen" /\ status # "ARCHIVED"
      BY <2>2, <2>3 DEF ConsoleResume, HandlerPc, ConsolePc, Startable
    <3> QED
      BY <2>1, <3>1 DEF OfficeInv, SeenInv, ArchivedInv, WaitInv, Deciding
  <2>4. CASE Reopen \/ Archive
    <3>1. /\ UNCHANGED <<run, bare>>
          /\ status' \in {"REWORK", "ARCHIVED"}
          /\ handler'["office"].at \in {"resume", "idle"}
      BY <2>2, <2>4 DEF Reopen, Archive, HandlerPc, ConsolePc
    <3> QED
      BY <2>1, <3>1 DEF OfficeInv, SeenInv, ArchivedInv, WaitInv, Deciding
  <2>5. CASE ResumeRun
    <3>1. /\ status' = status
          /\ handler["office"].at = "resume" /\ handler'["office"].at = "idle"
          /\ \/ UNCHANGED <<run, bare>>
             \/ run'["thread"] = "begin" /\ bare'
      BY <1>0, <2>2, <2>5 DEF ResumeRun, BeginRun, HandlerPc, ConsolePc, TypeOK
    <3> QED
      BY <2>1, <3>1 DEF OfficeInv, SeenInv, ArchivedInv, WaitInv, Deciding
  <2>6. CASE ConsoleCancel
    <3>1. /\ UNCHANGED <<status, run, bare>>
          /\ handler["office"].at = "idle" /\ handler'["office"].at = "archive"
      BY <2>2, <2>6 DEF ConsoleCancel, HandlerPc, ConsolePc
    <3> QED
      BY <2>1, <3>1 DEF OfficeInv, SeenInv, ArchivedInv, WaitInv, Deciding
  <2> QED
    BY <1>5, <2>3, <2>4, <2>5, <2>6 DEF ConsoleStep, ConsoleRest
<1> QED
  BY <1>1, <1>2, <1>3, <1>4, <1>5 DEF LoopStep, BotDecides

LEMMA StepOffice ==
  ASSUME ~Telegram, ~SyncRuns, OfficeInv, [Next]_vars
  PROVE  OfficeInv'
<1>1. AskInv'
  BY StepAsks DEF OfficeInv
<1>2. CASE UNCHANGED vars
  BY <1>1, <1>2 DEF vars, rows, OfficeInv, SeenInv, ArchivedInv, WaitInv, Deciding
<1>3. SeenInv' /\ ArchivedInv' /\ WaitInv'
  <2>1. CASE \E p \in Loop : HandlerStep(p)
    BY <2>1, HandlerKeepsOffice
  <2>2. CASE \E a \in Actor : RunStep(a)
    BY <2>2, RunKeepsOffice
  <2> QED
    BY <1>2, <2>1, <2>2, SettleKeepsOffice, LoopKeepsOffice DEF Next, OfficeInv
<1> QED
  BY <1>1, <1>3 DEF OfficeInv

LEMMA InitOffice == ~Telegram /\ Init => OfficeInv
<1> SUFFICES ASSUME ~Telegram, Init PROVE OfficeInv
  OBVIOUS
<1>1. BusyInv
  BY InitTypes DEF Init, BusyInv, BotIdle, DecisionsWaitForRun, Deciding, Idle, Loop
<1>2. /\ ~handler["office"].inline /\ Open(approvals) = {} /\ handler["office"].at = "idle"
      /\ run["office"] = "off" /\ run["bot"] = "off" /\ run["thread"] = "off"
  BY DEF Init, Idle, Loop, Actor, Open
<1>3. AskInv
  BY <1>1, <1>2 DEF AskInv
<1>4. status = "NEW"
  BY DEF Init
<1> QED
  BY <1>2, <1>3, <1>4 DEF OfficeInv, SeenInv, ArchivedInv, WaitInv

\* When nothing is in progress, a mission that waits for the owner has a row
\* that asks him, whatever failed, was stopped, decided or resumed before, while
\* neither the bot nor runs inside a request are used.
THEOREM OfficeWaitIsAsked == ~Telegram /\ ~SyncRuns => (Spec => []WaitOwnerHasApproval)
<1> SUFFICES ASSUME ~Telegram, ~SyncRuns PROVE Spec => []WaitOwnerHasApproval
  OBVIOUS
<1>1. Init => OfficeInv
  BY InitOffice
<1>2. OfficeInv /\ [Next]_vars => OfficeInv'
  BY StepOffice
<1>3. OfficeInv => WaitOwnerHasApproval
  BY DEF OfficeInv, WaitInv, WaitOwnerHasApproval, Quiet, Loop, Actor
<1> QED
  BY <1>1, <1>2, <1>3, PTL DEF Spec

\* A step of the office that leaves the thread where it is off, or settles.
LEMMA ClosedStep ==
  ASSUME ~Telegram, OfficeInv, Next
  PROVE  /\ status = "DONE" /\ run["thread"] = "settling" /\ run'["thread"] = "off" => status' = status
         /\ status = "ARCHIVED" /\ run["thread"] = "off" => status' = status
<1>0. TypeOK /\ BotIdle /\ "thread" \in Actor /\ "office" \in Loop
  BY DEF Loop, Actor, OfficeInv, AskInv, BusyInv
<1>1. ASSUME NEW p \in Loop, HandlerStep(p)
      PROVE  run["thread"] # "settling" /\ status # "ARCHIVED"
  BY <1>0, <1>1, OfficeHandles DEF OfficeInv, ArchivedInv, AskInv, BusyInv, DecisionsWaitForRun,
     Deciding, HandlerStep, InsertDecision, LookupApproval, CloseApproval, WriteDecision
<1>2. ASSUME NEW a \in Actor, RunStep(a)
      PROVE  run["thread"] # "off" /\ run["thread"] # "settling"
  BY <1>2 DEF OfficeInv, AskInv, RunStep, ReadStatus, PassCheck, EnterPhase, Finalize,
     QueryApproval, InsertApproval, Raise, EndRun, CheckThen, PhaseStatus, Working, Actor, Loop
<1>3. CASE ReadToSettle \/ Settle
  BY <1>3 DEF ReadToSettle, Settle, OfficeInv, SeenInv
<1>4. CASE LoopStep
  BY <1>4 DEF LoopStep, OfficeStart, OfficeStop, OfficeRunInline, BotRunBegins, BotDecides,
     OfficeDecides, TakeDecision
<1>5. CASE ConsoleStep
  <2>1. CASE Reopen \/ Archive
    BY <2>1 DEF Reopen, Archive, OfficeInv, ArchivedInv
  <2> QED
    BY <1>5, <2>1 DEF ConsoleStep, ConsoleRest, ConsoleResume, ConsoleCancel, ResumeRun
<1> QED
  BY <1>1, <1>2, <1>3, <1>4, <1>5 DEF Next

\* A background run that is stopped or fails after it closed the mission does
\* not reopen it, and an archived mission on which no run works stays archived,
\* while neither the bot nor runs inside a request are used.
THEOREM OfficeClosedStays == ~Telegram /\ ~SyncRuns => (Spec => ClosedMissionStays)
<1> SUFFICES ASSUME ~Telegram, ~SyncRuns PROVE Spec => ClosedMissionStays
  OBVIOUS
<1> DEFINE P == /\ status = "DONE" => ~(run["thread"] = "settling" /\ run'["thread"] = "off")
                /\ status = "ARCHIVED" => run["thread"] # "off"
<1>1. Init => OfficeInv
  BY InitOffice
<1>2. OfficeInv /\ [Next]_vars => OfficeInv'
  BY StepOffice
<1>3. OfficeInv /\ [Next]_vars => [P]_status
  BY ClosedStep DEF vars
<1>4. Spec => [][P]_status
  BY <1>1, <1>2, <1>3, PTL DEF Spec
<1> QED
  BY <1>4 DEF ClosedMissionStays
=============================================================================
