------------------------ MODULE MissionPayload_proofs ------------------------
(***************************************************************************)
(* Proofs about MissionPayload, for any texts, answers, scenarios and      *)
(* configuration, and any number of runs and operations.                   *)
(*                                                                         *)
(* A writer acts on what it read earlier, so every invariant says          *)
(* something of the payloads held as well as of the one stored:            *)
(*   PayloadInv  types and bounds of both;                                 *)
(*   FreshInv    who was not written over holds what is stored;            *)
(*   EntryInv    a draft published in either has its entry;                *)
(*   ReadyInv    a run about to execute has the choice it executes;        *)
(*   ReportInv   what the only run has left so far.                        *)
(* What a step of a run may do to the payload, and to the rest, is said    *)
(* once, by RunShape, and used by every argument after that.               *)
(*                                                                         *)
(* OnlyOwnerCloses and ReportIsCoherent hold because of the gates of the   *)
(* configuration, the hypothesis GatesAsk.                                 *)
(***************************************************************************)
EXTENDS MissionPayload, TLAPS

Columns == [route : Routes, crit : 0 .. 3, mode : {"PLAN", "EXECUTE"}]

Works == [kind : Kinds \cup {"none"}, arg : {Nil} \cup Options \cup {"local", "cloud"},
          tri : {Nil} \cup Triages, run : Nat]

Owing == [chosen : {Nil} \cup Options, tier : {"none", "local", "cloud"},
          draftState : {"none", "pending", "published", "rejected"}, leads : Nat]

\* From the end of its triage on a run has a result.
Triaged == RunPc \ {"tier", "check", "triage"}

-----------------------------------------------------------------------------
(* Triage and its readers.                                                 *)

\* The result of the rules, with an answer of the agents or without one, names
\* a route of the configuration.
LEMMA RunTriageTypes ==
  ASSUME NEW t \in Texts, NEW ans, ans = NoAnswer \/ ans.crit \in 0 .. 3
  PROVE  RunTriage(t, ans) \in Triages
<1> USE RoutesAssumption
<1>1. RuleTriage(t) \in Triages
  <2>1. MarketingResult(t) \in Triages /\ RevenueResult \in Triages
    BY DEF Texts, Triages, MarketingResult, RevenueResult, RuleResult, Explores
  <2>2. t.project # NoRoute => ProjectResult(t) \in Triages
    BY DEF Texts, Triages, ProjectResult, RuleResult, Explores
  <2>3. HintResult(t) \in Triages
    <3> DEFINE route == IF t.hint = NoRoute THEN DefaultRoute ELSE t.hint
               plain == RuleResult(route, "PLAN", FALSE, FALSE, Explores(t))
    <3>1. route \in Routes
      BY DEF Texts
    <3> HIDE DEF route
    <3>2. plain \in Triages
      <4>1. Explores(t) \in BOOLEAN /\ route.crit \in 0 .. 3
        BY <3>1 DEF Explores
      <4> QED
        BY <3>1, <4>1 DEF Triages, RuleResult
    <3> HIDE DEF plain
    <3>3. [plain EXCEPT !.mode = "EXECUTE", !.crit = IF t.alwaysCritical THEN CRITICAL ELSE @]
            \in Triages
      <4> DEFINE crit == IF t.alwaysCritical THEN CRITICAL ELSE plain.crit
      <4>1. crit \in 0 .. 3
        BY <3>2 DEF Triages, CRITICAL
      <4> HIDE DEF crit
      <4>2. [plain EXCEPT !.mode = "EXECUTE", !.crit = crit] \in Triages
        BY <3>2, <4>1 DEF Triages
      <4> QED
        BY <4>2 DEF crit
    <3> QED
      BY <3>2, <3>3 DEF HintResult, plain, route
  <2> QED
    BY <2>1, <2>2, <2>3 DEF RuleTriage
<1>2. ASSUME NEW res \in Triages, NEW locked PROVE Rerouted(res, ans, locked) \in Triages
  <2>1. NamedRoutes(res, ans) \subseteq Routes
    BY DEF NamedRoutes
  <2>2. CASE ~("route" \in locked \/ NamedRoutes(res, ans) = {})
    <3> DEFINE r == CHOOSE r \in NamedRoutes(res, ans) : TRUE
    <3>1. r \in Routes
      BY <2>1, <2>2
    <3> HIDE DEF r
    <3>2. [res EXCEPT !.route = r, !.crit = r.crit] \in Triages
      BY <3>1 DEF Triages
    <3> QED
      BY <2>2, <3>2 DEF Rerouted, r
  <2> QED
    BY <2>2 DEF Rerouted
<1>3. ASSUME NEW res \in Triages, NEW locked, ans.crit \in 0 .. 3
      PROVE  MergeAnswer(res, ans, locked) \in Triages
  <2> DEFINE routed == Rerouted(res, ans, locked)
  <2>1. routed \in Triages
    BY <1>2
  <2> HIDE DEF routed
  <2>2. [routed EXCEPT
           !.crit = IF ans.crit > @ THEN ans.crit ELSE @,
           !.mode = IF "mode" \notin locked /\ ans.mode = "EXECUTE" THEN "EXECUTE" ELSE @]
          \in Triages
    BY <1>3, <2>1 DEF Triages
  <2> QED
    BY <2>2 DEF MergeAnswer, routed
<1> QED
  BY <1>1, <1>3 DEF RunTriage

\* So does what the run and the court make of a stored result.
LEMMA CanonicalTypes ==
  ASSUME NEW meta \in Triages, NEW tri \in Triages, NEW t \in Texts
  PROVE  Canonical(meta, tri, t) \in Triages
BY RoutesAssumption DEF Canonical, LockRevenue, Triages, Texts, Explores

\* A text with another appended is a text.
LEMMA JoiningTypes ==
  ASSUME NEW t \in Texts, NEW more \in Texts, NEW u \in Joinings(t, more)
  PROVE  u \in Texts
BY DEF Joinings, Texts

-----------------------------------------------------------------------------
(* What is made of the payload.                                            *)

\* A write by p in place of b: the keys that are not its business are kept.
KeepsOthers(p, b, c) ==
  /\ c.chosen = b.chosen /\ c.draft = b.draft /\ c.draftState = b.draftState
  /\ c.leads = b.leads
  /\ b.tier # "none" => c.tier = b.tier
  /\ b.options => c.options
  /\ pc[p] # "meta" => c.meta = b.meta
  /\ pc[p] # "exec" => c.exec = b.exec

\* The payload with an action has the other keys it had.
LEMMA EnsuredTypes ==
  ASSUME NEW b \in Payloads, NEW p
  PROVE  Ensured(b) \in Payloads /\ KeepsOthers(p, b, Ensured(b))
BY DEF Payloads, Ensured, KeepsOthers

\* The owner's operations make payloads; none of them touches the stored triage
\* or a prepared execution, and none takes a choice back.
LEMMA EffectTypes ==
  ASSUME NEW b \in Payloads, NEW kind \in Kinds, NEW arg \in Arguments(kind),
         ops \in 1 .. MaxOps, kind = "lead" => b.leads < MaxOps
  PROVE  LET c == Effect(b, kind, arg)
         IN  /\ c \in Payloads
             /\ c.meta = b.meta /\ c.exec = b.exec /\ (b.options => c.options)
             /\ c.chosen = (IF kind = "select" THEN arg ELSE b.chosen)
             /\ c.tier = (IF kind = "tier" THEN arg ELSE b.tier)
             /\ c.leads = (IF kind = "lead" THEN b.leads + 1 ELSE b.leads)
             /\ c.draft = (IF kind = "draft" THEN ops ELSE b.draft)
             /\ c.draftState = (CASE kind = "draft" -> "pending"
                                  [] kind = "publish" -> "published"
                                  [] kind = "reject" -> "rejected"
                                  [] OTHER -> b.draftState)
<1> USE PayloadAssumption
<1> DEFINE e == Ensured(b)
<1>e. /\ e \in Payloads
      /\ e.chosen = b.chosen /\ e.draft = b.draft /\ e.draftState = b.draftState
      /\ e.leads = b.leads /\ e.options = b.options /\ e.meta = b.meta /\ e.exec = b.exec
      /\ e.tier = b.tier
  BY DEF Payloads, Ensured
<1> HIDE DEF e
<1>1. CASE kind \in {"select", "tier"}
  BY <1>1 DEF Effect, Choose, ChooseTier, Arguments, Payloads
<1>2. CASE kind \in {"draft", "publish", "reject"}
  BY <1>2 DEF Effect, CreateDraft, MarkPublished, RejectDraft, Payloads
<1>3. CASE kind = "view"
  BY <1>3, <1>e DEF Effect, e
<1>4. CASE kind = "done"
  <2>1. Effect(b, kind, arg) = [e EXCEPT !.action = "done"]
    BY <1>4 DEF Effect, ApplyFeedback, e
  <2> QED
    BY <1>4, <1>e, <2>1 DEF Payloads
<1>5. CASE kind = "lead"
  <2>1. Effect(b, kind, arg) = [e EXCEPT !.leads = @ + 1]
    BY <1>5 DEF Effect, CreateLead, e
  <2> QED
    BY <1>5, <1>e, <2>1 DEF Payloads
<1>6. CASE kind = "approve"
  BY <1>6 DEF Effect, PrepareOutreach, Payloads
<1> QED
  BY <1>1, <1>2, <1>3, <1>4, <1>5, <1>6 DEF Kinds

-----------------------------------------------------------------------------
(* Type correctness.  What a writer holds was read earlier, so its types    *)
(* and bounds are part of the invariant.                                    *)

Shapes ==
  /\ pc \in [Writer -> Pc] /\ work \in [Writer -> Works]
  /\ seen \in [Writer -> {Nil} \cup Payloads] /\ fresh \in [Writer -> BOOLEAN]
  /\ files \in [Document -> Nat] /\ lastTriaged \in Nat
  /\ knowledge \in Seq({Nil} \cup (1 .. MaxOps))

\* A draft and a lead are numbered by the operation that makes them.
WriterOK(p) ==
  /\ work[p].run <= runs
  /\ pc[p] \in Triaged => work[p].tri \in Triages
  /\ pc[p] \in OpPc => p # "office"
  /\ pc[p] \in {"read", "write"} =>
       ops > 0 /\ work[p].kind \in Kinds /\ work[p].arg \in Arguments(work[p].kind)
  /\ pc[p] = "write" => work[p].kind = "publish"
  /\ seen[p] # Nil => seen[p].leads <= ops
  /\ pc[p] = "read" /\ work[p].kind = "lead" => seen[p].leads < ops

PayloadInv ==
  /\ TypeOK /\ Shapes /\ payload.leads <= ops
  /\ \A p \in Writer : WriterOK(p)

\* How a step of a run or of a handler moves its writer.
Advances(p) ==
  \E next \in Pc \ {"tier", "read", "write"}, w \in Works :
    /\ pc' = [pc EXCEPT ![p] = next] /\ work' = [work EXCEPT ![p] = w]
    /\ w.run \in {0, work[p].run}
    /\ next \in Triaged => w.tri \in Triages
    /\ next \in OpPc => p # "office"

\* How a run's step treats the payload.
Writes(p) ==
  \/ Keep
  \/ Discard(p)
  \/ \E b \in Payloads : Save(p, b) /\ seen[p] \in Payloads /\ KeepsOthers(p, seen[p], b)

RunShape(p) ==
  /\ UNCHANGED <<text, runs, ops, queue, knowledge, owed, mixed>>
  /\ status' \in Statuses
  /\ columns' = columns \/ columns' \in Columns
  /\ lastTriaged' \in {lastTriaged, work[p].run}
  /\ files' = files \/ \E d \in Document : files' = [files EXCEPT ![d] = work[p].run]
  /\ Advances(p) /\ Writes(p)

LEMMA MoveAdvances ==
  ASSUME PayloadInv, NEW p \in Writer, NEW next \in Pc \ {"tier", "read", "write"},
         Move(p, next), next \in Triaged => pc[p] \in Triaged, next \in OpPc => p # "office"
  PROVE  Advances(p)
<1>1. work[p] \in Works /\ NoWork \in Works /\ work \in [Writer -> Works]
  BY DEF PayloadInv, Shapes, NoWork, Works
<1>2. CASE next = "idle"
  <2>1. pc' = [pc EXCEPT ![p] = next] /\ work' = [work EXCEPT ![p] = NoWork]
    BY <1>2 DEF Move, Goto
  <2>2. NoWork.run = 0 /\ next \notin Triaged
    BY <1>2 DEF NoWork, Triaged, RunPc
  <2> QED
    BY <1>1, <2>1, <2>2 DEF Advances
<1>3. CASE next # "idle"
  <2>1. pc' = [pc EXCEPT ![p] = next] /\ work' = [work EXCEPT ![p] = work[p]]
    BY <1>1, <1>3 DEF Move, Goto
  <2>2. next \in Triaged => work[p].tri \in Triages
    BY DEF PayloadInv, WriterOK
  <2> QED
    BY <1>1, <2>1, <2>2 DEF Advances
<1> QED
  BY <1>2, <1>3

LEMMA InitPayload == Init => PayloadInv
<1> SUFFICES ASSUME Init PROVE PayloadInv
  OBVIOUS
<1> USE PayloadAssumption, NilAssumption
<1>1. EmptyPayload \in Payloads
  BY DEF EmptyPayload, Payloads
<1>2. NoWork \in Works
  BY DEF NoWork, Works
<1>3. Shapes
  BY <1>2 DEF Init, Shapes, Pc
<1>4. TypeOK
  <2>1. \A p \in Writer : pc[p] = "idle" /\ seen[p] = Nil /\ work[p] = NoWork
    BY DEF Init
  <2>2. NoWork.run = 0 /\ NoWork.tri = Nil
    BY DEF NoWork
  <2> QED
    BY <1>1, <2>1, <2>2 DEF Init, TypeOK, Pc, Statuses, Startable
<1>5. payload.leads <= ops
  BY DEF Init, EmptyPayload
<1>6. ASSUME NEW p \in Writer PROVE WriterOK(p)
  <2>1. pc[p] = "idle" /\ seen[p] = Nil /\ work[p] = NoWork /\ runs = 0
    BY DEF Init
  <2> QED
    BY <2>1 DEF WriterOK, NoWork, Triaged, RunPc, OpPc
<1> QED
  BY <1>3, <1>4, <1>5, <1>6 DEF PayloadInv

\* Every step of a run has that shape.
LEMMA RunStepShape ==
  ASSUME PayloadInv, NEW p \in Writer, RunOf(p)
  PROVE  RunShape(p)
<1> USE DEF RunStep, KeepDocuments
<1>0. /\ TypeOK /\ Shapes /\ WriterOK(p)
      /\ work[p] \in Works /\ seen[p] \in {Nil} \cup Payloads
      /\ status \in Statuses
      /\ \A b : seen[p] # Nil /\ b \in Payloads /\ Save(p, b) /\ KeepsOthers(p, seen[p], b) => Writes(p)
  BY DEF PayloadInv, Shapes, TypeOK, Writes
<1>a. \A next \in Pc \ {"tier", "read", "write"} :
        Move(p, next) /\ (next \in Triaged => pc[p] \in Triaged) /\ next \notin OpPc => Advances(p)
  BY MoveAdvances
<1>b. \A tri \in Triages : ColumnsOf(tri) \in Columns
  BY DEF Triages, ColumnsOf, Columns
<1>1. CASE StoreTier(p)
  <2> DEFINE tier == ResolveTier(seen[p].tier, text, DefaultTier)
             b == [seen[p] EXCEPT !.tier = tier]
  <2>1. seen[p] \in Payloads
    BY <1>0, <1>1 DEF StoreTier, TypeOK
  <2>2. tier \in {"local", "cloud"} /\ (seen[p].tier # "none" => tier = seen[p].tier)
    BY <1>0, <2>1, PayloadAssumption DEF ResolveTier, TypeOK, Texts, Payloads
  <2> HIDE DEF tier
  <2>3. b \in Payloads /\ KeepsOthers(p, seen[p], b)
    BY <2>1, <2>2 DEF Payloads, KeepsOthers
  <2>4. Discard(p) \/ Save(p, b)
    BY <1>1 DEF StoreTier, tier
  <2>5. Writes(p)
    BY <2>1, <2>3, <2>4 DEF Writes
  <2>6. Advances(p)
    BY <1>1, <1>a DEF StoreTier, Pc, RunPc, Triaged, OpPc
  <2> QED
    BY <1>0, <1>1, <2>5, <2>6 DEF StoreTier, RunShape
<1>2. CASE CheckRepeat(p)
  <2>1. Advances(p)
    BY <1>2, <1>a DEF CheckRepeat, Pc, RunPc, Triaged, OpPc
  <2> QED
    BY <1>0, <1>2, <2>1 DEF CheckRepeat, RunShape, Writes
<1>3. CASE Triage(p)
  <2>1. PICK ans \in AgentAnswers(Answers, Engine, AllowFallback, Setup) :
          /\ work' = [work EXCEPT ![p].tri = RunTriage(text, ans)]
          /\ columns' = ColumnsOf(RunTriage(text, ans))
    BY <1>3 DEF Triage
  <2> DEFINE tri == RunTriage(text, ans)
             w == [work[p] EXCEPT !.tri = tri]
  <2>2. tri \in Triages
    <3>1. ans = NoAnswer \/ ans.crit \in 0 .. 3
      BY PayloadAssumption DEF AgentAnswers
    <3> QED
      BY <1>0, <3>1, RunTriageTypes DEF TypeOK
  <2> HIDE DEF tri
  <2>3. /\ w \in Works /\ w.run = work[p].run /\ w.tri = tri
        /\ work' = [work EXCEPT ![p] = w]
    BY <1>0, <2>1, <2>2 DEF Works, Shapes, tri
  <2> HIDE DEF w
  <2>4. pc' = [pc EXCEPT ![p] = "gm"] \/ pc' = [pc EXCEPT ![p] = "meta"]
    BY <1>3 DEF Triage, Goto
  <2>5. Advances(p)
    BY <2>2, <2>3, <2>4 DEF Advances, Pc, RunPc, OpPc
  <2>6. columns' \in Columns
    BY <1>b, <2>1, <2>2 DEF tri
  <2> QED
    BY <1>0, <1>3, <2>5, <2>6 DEF Triage, RunShape, Writes, Statuses, InWork
<1>4. CASE MarkRevenue(p)
  <2>1. [seen[p] EXCEPT !.revenue = TRUE] \in Payloads
        /\ KeepsOthers(p, seen[p], [seen[p] EXCEPT !.revenue = TRUE])
    BY <1>0, <1>4 DEF MarkRevenue, Payloads, KeepsOthers
  <2>2. Writes(p)
    BY <1>0, <1>4, <2>1 DEF MarkRevenue
  <2>3. Advances(p)
    BY <1>4, <1>a DEF MarkRevenue, Pc, RunPc, Triaged, OpPc
  <2> QED
    BY <1>0, <1>4, <2>2, <2>3 DEF MarkRevenue, RunShape
<1>5. CASE StoreTriage(p)
  <2>1. work[p].tri \in Triages
    BY <1>0, <1>5 DEF StoreTriage, WriterOK, Triaged, RunPc
  <2>2. [seen[p] EXCEPT !.meta = work[p].tri] \in Payloads
        /\ KeepsOthers(p, seen[p], [seen[p] EXCEPT !.meta = work[p].tri])
    BY <1>0, <1>5, <2>1 DEF StoreTriage, Payloads, KeepsOthers
  <2>3. Writes(p)
    BY <1>0, <1>5, <2>2 DEF StoreTriage
  <2>4. Advances(p)
    BY <1>5, <1>a DEF StoreTriage, Pc, RunPc, Triaged, OpPc
  <2> QED
    BY <1>0, <1>5, <2>3, <2>4 DEF StoreTriage, RunShape
<1>6. CASE ResyncTriage(p)
  <2> DEFINE tri == IF payload.meta = Nil THEN work[p].tri ELSE Resync(payload.meta, work[p].tri, text)
             w == [work[p] EXCEPT !.tri = tri]
  <2>1. work[p].tri \in Triages
    BY <1>0, <1>6 DEF ResyncTriage, WriterOK, Triaged, RunPc
  <2>2. tri \in Triages
    BY <1>0, <2>1, CanonicalTypes DEF TypeOK, Payloads, Resync
  <2>3. work' = [work EXCEPT ![p].tri = tri]
    BY <1>6 DEF ResyncTriage
  <2> HIDE DEF tri
  <2>4. /\ w \in Works /\ w.run = work[p].run /\ w.tri = tri
        /\ work' = [work EXCEPT ![p] = w]
    BY <1>0, <2>2, <2>3 DEF Works, Shapes
  <2> HIDE DEF w
  <2>5. pc' = [pc EXCEPT ![p] = "columns"]
    BY <1>6 DEF ResyncTriage, Goto
  <2>6. "columns" \in Pc \ {"tier", "read", "write"} /\ "columns" \notin OpPc
    BY DEF Pc, RunPc, OpPc
  <2>7. Advances(p)
    BY <2>2, <2>4, <2>5, <2>6 DEF Advances
  <2> QED
    BY <1>0, <1>6, <2>7 DEF ResyncTriage, RunShape, Writes
<1>7. CASE FillColumns(p)
  <2>1. work[p].tri \in Triages
    BY <1>0, <1>7 DEF FillColumns, WriterOK, Triaged, RunPc
  <2>2. Advances(p)
    BY <1>7, <1>a DEF FillColumns, Pc, RunPc, Triaged, OpPc
  <2> QED
    BY <1>0, <1>7, <1>b, <2>1, <2>2 DEF FillColumns, RunShape, Writes
<1>8. CASE EnsureBundle(p)
  <2>1. [seen[p] EXCEPT !.options = TRUE] \in Payloads
        /\ KeepsOthers(p, seen[p], [seen[p] EXCEPT !.options = TRUE])
    BY <1>0, <1>8 DEF EnsureBundle, Payloads, KeepsOthers
  <2>2. Writes(p)
    BY <1>0, <1>8, <2>1 DEF EnsureBundle
  <2>3. Advances(p)
    BY <1>8, <1>a DEF EnsureBundle, Pc, RunPc, Triaged, OpPc
  <2> QED
    BY <1>0, <1>8, <2>2, <2>3 DEF EnsureBundle, RunShape
<1>9. CASE LookForChoice(p)
  <2>1. Advances(p)
    BY <1>9, <1>a DEF LookForChoice, Pc, RunPc, Triaged, OpPc
  <2> QED
    BY <1>0, <1>9, <2>1 DEF LookForChoice, RunShape, Writes
<1>10. CASE WaitForOwner(p)
  <2>1. Advances(p)
    BY <1>10, <1>a DEF WaitForOwner, Pc, RunPc, Triaged, OpPc
  <2> QED
    BY <1>0, <1>10, <2>1 DEF WaitForOwner, RunShape, Writes, Statuses
<1>11. CASE PrepareExecution(p)
  <2> DEFINE b == [seen[p] EXCEPT !.exec = seen[p].chosen, !.ready = TRUE]
  <2>1. b \in Payloads /\ KeepsOthers(p, seen[p], b)
    BY <1>0, <1>11 DEF PrepareExecution, Payloads, KeepsOthers
  <2>2. Discard(p) \/ Save(p, b)
    BY <1>11 DEF PrepareExecution
  <2> HIDE DEF b
  <2>3. Writes(p)
    BY <1>0, <1>11, <2>1, <2>2 DEF PrepareExecution, Writes
  <2>4. Advances(p)
    BY <1>11, <1>a DEF PrepareExecution, Pc, RunPc, Triaged, OpPc
  <2> QED
    BY <1>0, <1>11, <2>3, <2>4 DEF PrepareExecution, RunShape
<1>12. CASE DeclareReady(p)
  <2> DEFINE b == [seen[p] EXCEPT !.ready = TRUE]
  <2>1. b \in Payloads /\ KeepsOthers(p, seen[p], b)
    BY <1>0, <1>12 DEF DeclareReady, Payloads, KeepsOthers
  <2>2. (Discard(p) \/ Save(p, b)) /\ status' \in Statuses
    BY <1>12 DEF DeclareReady, Statuses
  <2> HIDE DEF b
  <2>3. Writes(p)
    BY <1>0, <1>12, <2>1, <2>2 DEF DeclareReady, Writes
  <2>4. Advances(p)
    BY <1>12, <1>a DEF DeclareReady, Pc, RunPc, Triaged, OpPc
  <2> QED
    BY <1>0, <1>12, <2>2, <2>3, <2>4 DEF DeclareReady, RunShape
<1>13. CASE EnterPipeline(p)
  <2>1. Advances(p)
    BY <1>13, <1>a DEF EnterPipeline, Pc, RunPc, Triaged, OpPc
  <2> QED
    BY <1>0, <1>13, <2>1 DEF EnterPipeline, RunShape, Writes, Statuses, InWork
<1>14. CASE WriteStep(p)
  <2>1. pc[p] \in {"step1", "step2"} /\ StepOf[pc[p]] \in Document
    BY <1>14 DEF WriteStep, StepOf, Document, Steps
  <2>2. Pipeline[pc[p]] \in {"step2", "roundtable"}
    BY <2>1 DEF Pipeline
  <2>3. Advances(p)
    BY <1>14, <1>a, <2>1, <2>2 DEF WriteStep, Pc, RunPc, Triaged, OpPc
  <2> QED
    BY <1>0, <1>14, <2>1, <2>3 DEF WriteStep, RunShape, Writes
<1>15. CASE Roundtable(p)
  <2>1. Advances(p)
    BY <1>15, <1>a DEF Roundtable, Pc, RunPc, Triaged, OpPc
  <2> QED
    BY <1>0, <1>15, <2>1 DEF Roundtable, RunShape, Writes, Statuses, InWork
<1>16. CASE EnterCourt(p)
  <2>1. Advances(p)
    BY <1>16, <1>a DEF EnterCourt, Pc, RunPc, Triaged, OpPc
  <2> QED
    BY <1>0, <1>16, <2>1 DEF EnterCourt, RunShape, Writes, Statuses, InWork
<1>17. CASE WriteReport(p)
  <2>1. Advances(p)
    BY <1>17, <1>a DEF WriteReport, Pc, RunPc, Triaged, OpPc
  <2> QED
    BY <1>0, <1>17, <2>1 DEF WriteReport, RunShape, Writes, Document
<1>18. CASE WriteVerdict(p)
  <2>1. Advances(p)
    BY <1>18, <1>a DEF WriteVerdict, Pc, RunPc, Triaged, OpPc
  <2> QED
    BY <1>0, <1>18, <2>1 DEF WriteVerdict, RunShape, Writes, Document
<1>19. CASE BuildPack(p)
  <2> DEFINE b == [seen[p] EXCEPT !.pack = "business"]
  <2>1. b \in Payloads /\ KeepsOthers(p, seen[p], b)
    BY <1>0, <1>19 DEF BuildPack, Payloads, KeepsOthers
  <2>2. Discard(p) \/ Save(p, b)
    BY <1>19 DEF BuildPack
  <2> HIDE DEF b
  <2>3. Writes(p)
    BY <1>0, <1>19, <2>1, <2>2 DEF BuildPack, Writes
  <2>4. Advances(p)
    BY <1>19, <1>a DEF BuildPack, Pc, RunPc, Triaged, OpPc
  <2> QED
    BY <1>0, <1>19, <2>3, <2>4 DEF BuildPack, RunShape
<1>20. CASE EnsureAction(p)
  <2>1. seen[p] \in Payloads /\ (Discard(p) \/ Save(p, Ensured(seen[p])))
    BY <1>0, <1>20 DEF EnsureAction
  <2>2. Writes(p)
    BY <2>1, EnsuredTypes DEF Writes
  <2>3. Advances(p)
    BY <1>20, <1>a DEF EnsureAction, Pc, RunPc, Triaged, OpPc
  <2> QED
    BY <1>0, <1>20, <2>2, <2>3 DEF EnsureAction, RunShape
<1>21. CASE Finish(p)
  <2>1. Advances(p)
    BY <1>21, <1>a DEF Finish, Pc, RunPc, Triaged, OpPc
  <2> QED
    BY <1>0, <1>21, <2>1 DEF Finish, RunShape, Writes, Statuses
<1>22. CASE Abort(p)
  <2>1. Advances(p)
    BY <1>22, <1>a DEF Abort, Pc, RunPc, Triaged, OpPc
  <2> QED
    BY <1>0, <1>22, <2>1 DEF Abort, RunShape, Writes, Statuses, Startable
<1> QED
  BY <1>1, <1>2, <1>3, <1>4, <1>5, <1>6, <1>7, <1>8, <1>9, <1>10, <1>11, <1>12, <1>13, <1>14,
     <1>15, <1>16, <1>17, <1>18, <1>19, <1>20, <1>21, <1>22 DEF RunOf

\* What the steps of runs and handlers have in common.
Stores(p) ==
  \/ Keep
  \/ Discard(p)
  \/ \E b \in Payloads : Save(p, b) /\ b.leads <= ops

WriterStep(p) ==
  /\ UNCHANGED <<text, runs, ops>>
  /\ status' \in Statuses /\ queue' \in {0, 1}
  /\ columns' = columns \/ columns' \in Columns
  /\ lastTriaged' \in {lastTriaged, work[p].run}
  /\ files' = files \/ \E d \in Document : files' = [files EXCEPT ![d] = work[p].run]
  /\ knowledge' \in Seq({Nil} \cup (1 .. MaxOps))
  /\ Advances(p) /\ Stores(p)

LEMMA StoreTypes ==
  ASSUME PayloadInv, NEW p \in Writer, Stores(p)
  PROVE  /\ payload' \in Payloads /\ payload'.leads <= ops
         /\ seen' \in [Writer -> {Nil} \cup Payloads] /\ fresh' \in [Writer -> BOOLEAN]
         /\ \A q \in Writer : seen'[q] = seen[q] \/ (q = p /\ seen'[q] = Nil)
<1>0. /\ payload \in Payloads /\ payload.leads <= ops
      /\ seen \in [Writer -> {Nil} \cup Payloads] /\ fresh \in [Writer -> BOOLEAN]
  BY DEF PayloadInv, TypeOK, Shapes
<1>1. CASE Keep
  BY <1>0, <1>1 DEF Keep
<1>2. CASE Discard(p)
  <2>1. fresh' \in [Writer -> BOOLEAN]
    <3>1. (pc[p] = "exec" => fresh[p]) \in BOOLEAN
      OBVIOUS
    <3>2. fresh' = [fresh EXCEPT ![p] = (pc[p] = "exec" => fresh[p])]
      BY <1>2 DEF Discard
    <3> QED
      BY <1>0, <3>1, <3>2
  <2> QED
    BY <1>0, <1>2, <2>1 DEF Discard
<1>3. ASSUME NEW b \in Payloads, Save(p, b), b.leads <= ops
      PROVE  /\ payload' \in Payloads /\ payload'.leads <= ops
             /\ seen' \in [Writer -> {Nil} \cup Payloads] /\ fresh' \in [Writer -> BOOLEAN]
             /\ \A q \in Writer : seen'[q] = seen[q] \/ (q = p /\ seen'[q] = Nil)
  <2>1. fresh' \in [Writer -> BOOLEAN]
    BY <1>3 DEF Save
  <2> QED
    BY <1>0, <1>3, <2>1 DEF Save
<1> QED
  BY <1>1, <1>2, <1>3 DEF Stores

LEMMA WriterStepTypes ==
  ASSUME PayloadInv, NEW p \in Writer, WriterStep(p)
  PROVE  PayloadInv'
<1> USE PayloadAssumption, NilAssumption
<1>0. /\ TypeOK /\ Shapes /\ \A q \in Writer : WriterOK(q)
      /\ work[p] \in Works /\ work[p].run \in 0 .. runs /\ runs \in 0 .. MaxRuns
  BY DEF PayloadInv, Shapes, TypeOK, WriterOK
<1>1. /\ payload' \in Payloads /\ payload'.leads <= ops
      /\ seen' \in [Writer -> {Nil} \cup Payloads] /\ fresh' \in [Writer -> BOOLEAN]
      /\ \A q \in Writer : seen'[q] = seen[q] \/ (q = p /\ seen'[q] = Nil)
  BY StoreTypes DEF WriterStep
<1>2. PICK next \in Pc \ {"tier", "read", "write"}, w \in Works :
        /\ pc' = [pc EXCEPT ![p] = next] /\ work' = [work EXCEPT ![p] = w]
        /\ w.run \in {0, work[p].run}
        /\ next \in Triaged => w.tri \in Triages
        /\ next \in OpPc => p # "office"
  BY DEF WriterStep, Advances
<1>3. /\ pc'[p] = next /\ work'[p] = w
      /\ \A q \in Writer \ {p} : pc'[q] = pc[q] /\ work'[q] = work[q] /\ seen'[q] = seen[q]
  BY <1>0, <1>1, <1>2 DEF Shapes
<1>4. Shapes'
  <2>1. pc' \in [Writer -> Pc] /\ work' \in [Writer -> Works]
    BY <1>0, <1>2 DEF Shapes
  <2>2. files' \in [Document -> Nat] /\ lastTriaged' \in Nat
    BY <1>0 DEF WriterStep, Shapes
  <2> QED
    BY <1>1, <2>1, <2>2 DEF WriterStep, Shapes
<1>5. ASSUME NEW q \in Writer PROVE WriterOK(q)'
  <2>1. runs' = runs /\ ops' = ops /\ ops \in Nat
    BY <1>0 DEF WriterStep, TypeOK
  <2>2. CASE q = p
    <3>1. w.run <= runs
      BY <1>0, <1>2
    <3>2. seen'[p] # Nil => seen'[p].leads <= ops
      BY <1>0, <1>1 DEF WriterOK
    <3> QED
      BY <1>2, <1>3, <2>1, <2>2, <3>1, <3>2 DEF WriterOK
  <2>3. CASE q # p
    BY <1>0, <1>3, <2>1, <2>3 DEF WriterOK
  <2> QED
    BY <2>2, <2>3
<1>6. TypeOK'
  <2>1. ASSUME NEW q \in Writer
        PROVE  /\ pc'[q] \in Pc
               /\ seen'[q] = Nil \/ seen'[q] \in Payloads
               /\ pc'[q] \in {"read", "write", "tier"} => seen'[q] # Nil
               /\ work'[q].run \in 0 .. MaxRuns
               /\ work'[q].tri = Nil \/ work'[q].tri \in Triages
    <3>1. work'[q] \in Works /\ work'[q].run <= runs
      BY <1>4, <1>5 DEF Shapes, WriterOK, WriterStep
    <3>2. pc'[q] \in {"read", "write", "tier"} => seen'[q] # Nil
      BY <1>0, <1>2, <1>3 DEF TypeOK
    <3> QED
      BY <1>0, <1>1, <1>4, <3>1, <3>2 DEF Shapes, Works
  <2>2. \A d \in Document : files'[d] \in 0 .. runs
    BY <1>0 DEF TypeOK, WriterStep, Shapes
  <2>3. columns' = Nil \/ columns' \in Columns
    BY <1>0 DEF TypeOK, WriterStep, Columns
  <2> QED
    BY <1>0, <1>1, <2>1, <2>2, <2>3 DEF TypeOK, WriterStep, Columns
<1> QED
  BY <1>1, <1>4, <1>5, <1>6 DEF PayloadInv, WriterStep

LEMMA RunStepTypes ==
  ASSUME PayloadInv, NEW p \in Writer, RunOf(p)
  PROVE  PayloadInv'
<1>1. RunShape(p)
  BY RunStepShape
<1>2. Stores(p)
  <2>1. ASSUME NEW b \in Payloads, Save(p, b), seen[p] \in Payloads, KeepsOthers(p, seen[p], b)
        PROVE  b.leads <= ops
    BY <2>1, NilAssumption DEF KeepsOthers, PayloadInv, WriterOK
  <2> QED
    BY <1>1, <2>1 DEF RunShape, Writes, Stores
<1>3. WriterStep(p)
  BY <1>1, <1>2 DEF RunShape, WriterStep, PayloadInv, TypeOK, Shapes
<1> QED
  BY <1>3, WriterStepTypes

\* A commit writes what the operation makes of the payload the handler read.
LEMMA CommitEffect ==
  ASSUME PayloadInv, NEW p \in Writer, Commit(p)
  PROVE  /\ seen[p] \in Payloads /\ work[p].kind \in Kinds
         /\ work[p].arg \in Arguments(work[p].kind) /\ ops \in 1 .. MaxOps
         /\ work[p].kind = "lead" => seen[p].leads < ops /\ seen[p].leads < MaxOps
         /\ p # "office" /\ pc[p] \in {"read", "write"}
         /\ work[p].kind = "publish" => pc[p] = "write"
         /\ Effect(seen[p], work[p].kind, work[p].arg) \in Payloads
<1>1. pc[p] \in {"read", "write"} /\ (work[p].kind = "publish" => pc[p] = "write")
  BY DEF Commit, MayCommit
<1>2. pc[p] = "write" => work[p].kind = "publish"
  BY DEF PayloadInv, WriterOK
<1>3. /\ seen[p] \in Payloads /\ work[p].kind \in Kinds /\ p # "office"
      /\ work[p].arg \in Arguments(work[p].kind) /\ ops \in 1 .. MaxOps
      /\ work[p].kind = "lead" => seen[p].leads < ops
  BY <1>1, <1>2, PayloadAssumption DEF PayloadInv, TypeOK, WriterOK, OpPc
<1>4. seen[p].leads \in Nat
  BY <1>3, PayloadAssumption DEF Payloads
<1>5. work[p].kind = "lead" => seen[p].leads < MaxOps
  BY <1>3, <1>4, PayloadAssumption
<1>6. Effect(seen[p], work[p].kind, work[p].arg) \in Payloads
  BY <1>3, <1>5, EffectTypes
<1> QED
  BY <1>1, <1>3, <1>5, <1>6

LEMMA OpStepTypes ==
  ASSUME PayloadInv, NEW p \in Writer, OpOf(p)
  PROVE  PayloadInv'
<1> USE PayloadAssumption, NilAssumption DEF OpStep
<1>0. /\ TypeOK /\ Shapes /\ WriterOK(p)
      /\ work[p] \in Works /\ seen[p] \in {Nil} \cup Payloads
      /\ status \in Statuses /\ queue \in {0, 1}
      /\ knowledge \in Seq({Nil} \cup (1 .. MaxOps))
  BY DEF PayloadInv, Shapes, TypeOK
<1>a. \A next \in Pc \ {"tier", "read", "write"} :
        Move(p, next) /\ next \notin Triaged /\ p # "office" => Advances(p)
  BY MoveAdvances
<1>b. pc[p] \in OpPc /\ p # "office"
  BY <1>0 DEF OpOf, Refuse, CloseMission, AddEntry, FailToMark, Commit, MayCommit, EnsureAgain,
     WriteApproved, OpPc, WriterOK
<1>1. CASE Refuse(p) \/ CloseMission(p) \/ FailToMark(p)
  <2>1. Advances(p)
    BY <1>1, <1>a, <1>b DEF Refuse, CloseMission, FailToMark, Pc, Triaged, RunPc
  <2>2. WriterStep(p)
    BY <1>0, <1>1, <2>1 DEF Refuse, CloseMission, FailToMark, WriterStep, Stores, Statuses
  <2> QED
    BY <2>2, WriterStepTypes
<1>2. CASE AddEntry(p)
  <2>1. seen[p] \in Payloads /\ work[p].kind = "publish" /\ pc[p] = "read"
    BY <1>0, <1>2 DEF AddEntry, TypeOK
  <2>2. knowledge' \in Seq({Nil} \cup (1 .. MaxOps))
    BY <1>0, <1>2, <2>1 DEF AddEntry, Payloads
  <2>3. pc' = [pc EXCEPT ![p] = "write"] /\ work' = work
    BY <1>2 DEF AddEntry, Move, Goto
  <2>4. /\ pc'[p] = "write" /\ \A q \in Writer \ {p} : pc'[q] = pc[q]
        /\ pc' \in [Writer -> Pc]
    BY <1>0, <2>3 DEF Shapes, Pc, OpPc
  <2>5. UNCHANGED <<text, columns, files, status, seen, fresh, payload, queue, runs, ops, lastTriaged>>
    BY <1>2 DEF AddEntry, Keep
  <2>6. Shapes'
    BY <1>0, <2>2, <2>3, <2>4, <2>5 DEF Shapes
  <2>7. TypeOK'
    BY <1>0, <2>1, <2>3, <2>4, <2>5 DEF TypeOK, Pc, OpPc
  <2>8. ASSUME NEW q \in Writer PROVE WriterOK(q)'
    <3>1. CASE q = p
      BY <1>0, <1>b, <2>1, <2>3, <2>4, <2>5, <3>1 DEF WriterOK, Triaged, RunPc
    <3>2. CASE q # p
      BY <2>3, <2>4, <2>5, <3>2 DEF WriterOK, PayloadInv
    <3> QED
      BY <3>1, <3>2
  <2> QED
    BY <2>5, <2>6, <2>7, <2>8 DEF PayloadInv
<1>3. CASE Commit(p)
  <2> DEFINE b == Effect(seen[p], work[p].kind, work[p].arg)
  <2>0. /\ seen[p] \in Payloads /\ work[p].kind \in Kinds
        /\ work[p].arg \in Arguments(work[p].kind) /\ ops \in 1 .. MaxOps
        /\ work[p].kind = "lead" => seen[p].leads < ops
        /\ b \in Payloads
    BY <1>3, CommitEffect
  <2>1. b.leads <= ops
    <3>1. seen[p].leads \in 0 .. MaxOps /\ seen[p].leads <= ops
      BY <1>0, <2>0 DEF Payloads, WriterOK
    <3>2. b.leads = (IF work[p].kind = "lead" THEN seen[p].leads + 1 ELSE seen[p].leads)
      <4>1. work[p].kind = "lead" => seen[p].leads < MaxOps
        BY <2>0, <3>1
      <4> QED
        BY <2>0, <4>1, EffectTypes
    <3> HIDE DEF b
    <3> QED
      BY <2>0, <3>1, <3>2
  <2>2. Save(p, b)
    BY <1>3 DEF Commit
  <2> HIDE DEF b
  <2>3. Stores(p)
    BY <2>0, <2>1, <2>2 DEF Stores
  <2>4. Advances(p)
    BY <1>3, <1>a, <1>b DEF Commit, After, Pc, OpPc, Triaged, RunPc
  <2>5. status' \in Statuses /\ queue' \in {0, 1}
    BY <1>0, <1>3 DEF Commit, StatusAfter, QueuesRun, Statuses, Startable, InWork
  <2>6. WriterStep(p)
    BY <1>0, <1>3, <2>3, <2>4, <2>5 DEF Commit, WriterStep
  <2> QED
    BY <2>6, WriterStepTypes
<1>4. CASE EnsureAgain(p)
  <2>1. seen[p] \in Payloads /\ Save(p, Ensured(seen[p]))
    BY <1>0, <1>4 DEF EnsureAgain
  <2>2. Ensured(seen[p]) \in Payloads /\ Ensured(seen[p]).leads <= ops
    BY <1>0, <2>1, EnsuredTypes DEF WriterOK, KeepsOthers
  <2>3. Stores(p)
    BY <2>1, <2>2 DEF Stores
  <2>4. Advances(p)
    BY <1>4, <1>a, <1>b DEF EnsureAgain, Pc, Triaged, RunPc
  <2>5. WriterStep(p)
    BY <1>0, <1>4, <2>3, <2>4 DEF EnsureAgain, WriterStep
  <2> QED
    BY <2>5, WriterStepTypes
<1>5. CASE WriteApproved(p)
  <2>1. Advances(p)
    BY <1>5, <1>a, <1>b DEF WriteApproved, Pc, Triaged, RunPc
  <2>2. WriterStep(p)
    BY <1>0, <1>5, <2>1 DEF WriteApproved, WriterStep, Stores, Statuses
  <2> QED
    BY <2>2, WriterStepTypes
<1> QED
  BY <1>1, <1>2, <1>3, <1>4, <1>5 DEF OpOf

\* A run begins: it is numbered, and holds the payload it has read.
LEMMA BeginTypes ==
  ASSUME PayloadInv, NEW p \in Writer, BeginRun(p), Quiet, queue' \in {0, 1}, ops' = ops
  PROVE  PayloadInv'
<1> USE PayloadAssumption, NilAssumption
<1>0. TypeOK /\ Shapes /\ payload \in Payloads /\ payload.leads <= ops /\ runs \in Nat
  BY DEF PayloadInv, TypeOK
<1> DEFINE w == [NoWork EXCEPT !.run = runs + 1]
<1>1. /\ pc' = [pc EXCEPT ![p] = "tier"] /\ work' = [work EXCEPT ![p] = w]
      /\ seen' = [seen EXCEPT ![p] = payload]
      /\ runs < MaxRuns /\ runs' = runs + 1
      /\ UNCHANGED <<text, status, columns, payload, fresh, files, knowledge, lastTriaged>>
  BY DEF BeginRun, Goto, Hold, Quiet, task, output
<1>2. w \in Works /\ w.run = runs + 1 /\ w.tri = Nil
  BY <1>0 DEF NoWork, Works
<1> HIDE DEF w
<1>3. /\ pc' \in [Writer -> Pc] /\ work' \in [Writer -> Works]
      /\ seen' \in [Writer -> {Nil} \cup Payloads]
      /\ pc'[p] = "tier" /\ work'[p] = w /\ seen'[p] = payload
      /\ \A q \in Writer \ {p} : pc'[q] = pc[q] /\ work'[q] = work[q] /\ seen'[q] = seen[q]
  BY <1>0, <1>1, <1>2 DEF Shapes, Pc, RunPc
<1>4. Shapes'
  BY <1>0, <1>1, <1>3 DEF Shapes
<1>5. ASSUME NEW q \in Writer PROVE WriterOK(q)'
  <2>1. CASE q = p
    BY <1>0, <1>1, <1>2, <1>3, <2>1 DEF WriterOK, Triaged, OpPc
  <2>2. CASE q # p
    <3>1. WriterOK(q) /\ work[q].run \in Nat
      BY DEF PayloadInv, Shapes, Works
    <3> QED
      BY <1>0, <1>1, <1>3, <2>2, <3>1 DEF WriterOK
  <2> QED
    BY <2>1, <2>2
<1>6. TypeOK'
  <2>1. ASSUME NEW q \in Writer
        PROVE  /\ pc'[q] \in Pc
               /\ seen'[q] = Nil \/ seen'[q] \in Payloads
               /\ pc'[q] \in {"read", "write", "tier"} => seen'[q] # Nil
               /\ work'[q].run \in 0 .. MaxRuns
               /\ work'[q].tri = Nil \/ work'[q].tri \in Triages
    <3>1. work'[q] \in Works /\ work'[q].run <= runs + 1
      BY <1>1, <1>3, <1>5 DEF WriterOK
    <3>2. pc'[q] \in {"read", "write", "tier"} => seen'[q] # Nil
      BY <1>0, <1>3 DEF TypeOK
    <3> QED
      BY <1>0, <1>1, <1>3, <3>1, <3>2 DEF Works
  <2>2. \A d \in Document : files'[d] \in 0 .. runs'
    BY <1>0, <1>1 DEF TypeOK
  <2> QED
    BY <1>0, <1>1, <2>1, <2>2 DEF TypeOK
<1> QED
  BY <1>0, <1>1, <1>4, <1>5, <1>6 DEF PayloadInv

\* An operation of the owner begins.
LEMMA AskTypes ==
  ASSUME PayloadInv, NEW p \in {"desk", "bot"}, NEW kind \in Kinds, Ask(p, kind)
  PROVE  PayloadInv'
<1> USE PayloadAssumption, NilAssumption
<1>0. TypeOK /\ Shapes /\ payload \in Payloads /\ payload.leads <= ops /\ ops \in Nat
  BY DEF PayloadInv, TypeOK
<1>p. p \in Writer /\ p # "office"
  BY DEF Writer
<1>a. PICK arg \in Arguments(kind) :
        work' = [work EXCEPT ![p] = [NoWork EXCEPT !.kind = kind, !.arg = arg]]
  BY DEF Ask
<1> DEFINE w == [NoWork EXCEPT !.kind = kind, !.arg = arg]
<1>1. /\ pc' = [pc EXCEPT ![p] = "read"] /\ work' = [work EXCEPT ![p] = w]
      /\ seen' = [seen EXCEPT ![p] = payload]
      /\ ops < MaxOps /\ ops' = ops + 1
      /\ UNCHANGED <<text, status, columns, payload, fresh, files, knowledge, lastTriaged, runs, queue>>
  BY <1>a DEF Ask, Goto, Hold, Quiet, task, output
<1>2. w \in Works /\ w.run = 0 /\ w.tri = Nil /\ w.kind = kind /\ w.arg = arg
  <2>1. arg \in {Nil} \cup Options \cup {"local", "cloud"}
    BY DEF Arguments, Kinds
  <2> QED
    BY <2>1 DEF NoWork, Works
<1> HIDE DEF w
<1>3. /\ pc' \in [Writer -> Pc] /\ work' \in [Writer -> Works]
      /\ seen' \in [Writer -> {Nil} \cup Payloads]
      /\ pc'[p] = "read" /\ work'[p] = w /\ seen'[p] = payload
      /\ \A q \in Writer \ {p} : pc'[q] = pc[q] /\ work'[q] = work[q] /\ seen'[q] = seen[q]
  BY <1>0, <1>p, <1>1, <1>2 DEF Shapes, Pc, OpPc
<1>4. Shapes'
  BY <1>0, <1>1, <1>3 DEF Shapes
<1>5. ASSUME NEW q \in Writer PROVE WriterOK(q)'
  <2>l. payload.leads \in Nat
    BY <1>0 DEF Payloads
  <2>1. CASE q = p
    <3>1. runs \in Nat
      BY <1>0 DEF TypeOK
    <3> QED
      BY <1>0, <1>p, <1>1, <1>2, <1>3, <2>1, <2>l, <3>1 DEF WriterOK, Triaged, RunPc
  <2>2. CASE q # p
    <3>1. WriterOK(q) /\ (seen[q] # Nil => seen[q].leads \in Nat)
      BY DEF PayloadInv, Shapes, Payloads
    <3>2. pc[q] = "read" => seen[q] # Nil
      BY <1>0 DEF TypeOK
    <3> QED
      BY <1>0, <1>1, <1>3, <2>2, <3>1, <3>2 DEF WriterOK
  <2> QED
    BY <2>1, <2>2
<1>6. TypeOK'
  <2>1. ASSUME NEW q \in Writer
        PROVE  /\ pc'[q] \in Pc
               /\ seen'[q] = Nil \/ seen'[q] \in Payloads
               /\ pc'[q] \in {"read", "write", "tier"} => seen'[q] # Nil
               /\ work'[q].run \in 0 .. MaxRuns
               /\ work'[q].tri = Nil \/ work'[q].tri \in Triages
    BY <1>0, <1>2, <1>3 DEF TypeOK
  <2> QED
    BY <1>0, <1>1, <2>1 DEF TypeOK
<1>7. payload'.leads <= ops'
  BY <1>0, <1>1 DEF Payloads
<1> QED
  BY <1>4, <1>5, <1>6, <1>7 DEF PayloadInv

LEMMA StepPayload ==
  ASSUME PayloadInv, [Next]_vars
  PROVE  PayloadInv'
<1> USE PayloadAssumption, NilAssumption
<1>0. TypeOK /\ Shapes /\ payload \in Payloads /\ payload.leads <= ops /\ ops \in Nat
  BY DEF PayloadInv, TypeOK
<1>1. ASSUME NEW p \in Writer, Load(p) PROVE PayloadInv'
  <2>1. /\ seen' = [seen EXCEPT ![p] = payload] /\ pc[p] \notin {"read", "write", "tier"}
        /\ UNCHANGED <<text, status, columns, payload, pc, work, fresh, queue, files, knowledge,
                       runs, ops, lastTriaged>>
    BY <1>1 DEF Load, Hold, Reading, task, output, history
  <2>2. /\ seen' \in [Writer -> {Nil} \cup Payloads] /\ seen'[p] = payload
        /\ \A q \in Writer \ {p} : seen'[q] = seen[q]
    BY <1>0, <2>1 DEF Shapes
  <2>3. Shapes'
    BY <1>0, <2>1, <2>2 DEF Shapes
  <2>4. TypeOK'
    BY <1>0, <2>1, <2>2 DEF TypeOK
  <2>5. ASSUME NEW q \in Writer PROVE WriterOK(q)'
    BY <1>0, <2>1, <2>2 DEF WriterOK, PayloadInv
  <2> QED
    BY <1>0, <2>1, <2>3, <2>4, <2>5 DEF PayloadInv
<1>2. ASSUME NEW p \in Writer, BeginRun(p), Quiet, ops' = ops, queue' \in {0, 1} PROVE PayloadInv'
  BY <1>2, BeginTypes
<1>3. CASE StartOffice \/ StartInline \/ StartQueued
  BY <1>0, <1>2, <1>3 DEF StartOffice, StartInline, StartQueued, TypeOK, Writer
<1>4. CASE AttachText
  <2>1. text' \in Texts
    BY <1>0, <1>4, JoiningTypes DEF AttachText, TypeOK
  <2>2. /\ ops < MaxOps /\ ops' = ops + 1
        /\ UNCHANGED <<status, columns, payload, pc, work, seen, fresh, queue, files, knowledge,
                       runs, lastTriaged>>
    BY <1>4 DEF AttachText, writers, output
  <2>3. Shapes'
    BY <1>0, <2>2 DEF Shapes
  <2>4. TypeOK'
    BY <1>0, <2>1, <2>2 DEF TypeOK
  <2>5. ASSUME NEW q \in Writer PROVE WriterOK(q)'
    <3>1. WriterOK(q) /\ (seen[q] # Nil => seen[q].leads \in Nat)
      BY DEF PayloadInv, Shapes, Payloads
    <3>2. pc[q] = "read" => seen[q] # Nil
      BY <1>0 DEF TypeOK
    <3> QED
      BY <1>0, <2>2, <3>1, <3>2 DEF WriterOK
  <2> QED
    BY <1>0, <2>2, <2>3, <2>4, <2>5 DEF PayloadInv, Payloads
<1>5. CASE UNCHANGED vars
  BY <1>5 DEF vars, task, writers, output, history, PayloadInv, TypeOK, Shapes, WriterOK
<1> QED
  BY <1>1, <1>3, <1>4, <1>5, RunStepTypes, OpStepTypes, AskTypes DEF Next

\* The variables keep their types, whatever the agents answer and however the
\* writers interleave, and a writer that acts on the payload holds one.
THEOREM PayloadTypes == Spec => []TypeOK
<1>1. Init => PayloadInv
  BY InitPayload
<1>2. PayloadInv /\ [Next]_vars => PayloadInv'
  BY StepPayload
<1>3. PayloadInv => TypeOK
  BY DEF PayloadInv
<1> QED
  BY <1>1, <1>2, <1>3, PTL DEF Spec

-----------------------------------------------------------------------------
(* Whoever has read the payload and not been overtaken holds what is there. *)

FreshInv ==
  \A p \in Writer : /\ fresh[p] /\ seen[p] # Nil => seen[p] = payload
                    /\ seen[p] = Nil /\ pc[p] # "ready" => fresh[p]

\* A run that is about to execute a scenario has one to execute.
ReadyInv ==
  ~overtaken => \A p \in Writer :
    /\ pc[p] \in {"choose", "exec", "ready"} => payload.options
    /\ pc[p] \in {"exec", "ready"} => payload.chosen \in Options
    /\ pc[p] = "ready" /\ fresh[p] => payload.exec = payload.chosen

\* Where a published draft may still be on its way into the payload, its entry
\* is there already.
HasEntry(draft) == \E i \in DOMAIN knowledge : knowledge[i] = draft
EntryInv ==
  /\ payload.draftState = "published" => HasEntry(payload.draft)
  /\ \A p \in Writer :
       /\ seen[p] # Nil /\ seen[p].draftState = "published" => HasEntry(seen[p].draft)
       /\ pc[p] = "write" => HasEntry(seen[p].draft)

\* Every route of the configuration asks for the owner's approval: all gates of
\* routing.yaml are OWNER_APPROVAL_IF_ something or OWNER_APPROVAL_ALWAYS.
GatesAsk == \A r \in Routes : "approval" \in r.gate

\* The one run there is: its number, and what it has left so far.
BeforeVerdict == {"gm", "meta", "resync", "columns", "bundle", "choose", "wait", "exec", "ready",
                  "pipeline", "step1", "step2", "roundtable", "court", "report", "verdict"}
Filled == {"pipeline", "step1", "step2", "roundtable", "court", "report", "verdict"}

RunLeaves(p) ==
  LET r == work[p].run IN
  /\ r = runs
  /\ pc[p] \in {"tier", "check", "triage"} => lastTriaged < r /\ files["verdict"] < r
  /\ pc[p] \in Triaged => lastTriaged = r
  /\ pc[p] \in BeforeVerdict => files["verdict"] < r
  /\ pc[p] \in {"step2", "roundtable", "court", "report", "verdict"} => files["first"] = r
  /\ pc[p] \in {"roundtable", "court", "report", "verdict"} => files["second"] = r
  /\ pc[p] \in Filled => columns = ColumnsOf(work[p].tri)
  /\ pc[p] \in Filled \cup {"columns"} =>
       \/ payload.meta = Nil
       \/ ColumnsOf(Canonical(payload.meta, work[p].tri, text)) = ColumnsOf(work[p].tri)
  /\ pc[p] = "verdict" => files["report"] = r /\ judgement.columns = columns /\ judgement.owner

Judged ==
  lastTriaged # 0 /\ files["verdict"] = lastTriaged =>
    /\ \A d \in Document : files[d] = lastTriaged
    /\ judgement.columns = columns /\ judgement.owner

ReportInv ==
  /\ lastTriaged <= runs
  /\ ~mixed => \A p, q \in Writer : RunActive(p) /\ RunActive(q) => p = q
  /\ ~mixed /\ ~overtaken => Judged /\ \A p \in Writer : RunActive(p) => RunLeaves(p)

\* Where a run executes a scenario, and where it declares the mission ready.
LEMMA RunAt ==
  ASSUME NEW p \in Writer, RunOf(p)
  PROVE  /\ RunActive(p)
         /\ pc[p] = "exec" => PrepareExecution(p)
         /\ pc[p] = "ready" => DeclareReady(p)
         /\ pc[p] = "meta" => StoreTriage(p)
         /\ pc[p] = "choose" => LookForChoice(p)
         /\ pc[p] = "bundle" => EnsureBundle(p)
<1>1. ASSUME pc[p] \in {"exec", "ready", "meta", "choose", "bundle"} PROVE ~WriteStep(p) /\ ~Abort(p)
  BY <1>1 DEF WriteStep, StepOf, Abort, Failing, Checkpoints
<1>2. RunActive(p)
  BY DEF RunActive, RunPc, RunOf, StoreTier, CheckRepeat, Triage, MarkRevenue, StoreTriage,
     ResyncTriage, FillColumns, EnsureBundle, LookForChoice, WaitForOwner, PrepareExecution,
     DeclareReady, EnterPipeline, WriteStep, StepOf, Roundtable, EnterCourt, WriteReport,
     WriteVerdict, BuildPack, EnsureAction, Finish, Abort, Failing, Checkpoints
<1> QED
  BY <1>1, <1>2 DEF RunOf, StoreTier, CheckRepeat, Triage, MarkRevenue, StoreTriage, ResyncTriage,
     FillColumns, EnsureBundle, LookForChoice, WaitForOwner, PrepareExecution, DeclareReady,
     EnterPipeline, Roundtable, EnterCourt, WriteReport, WriteVerdict, BuildPack, EnsureAction,
     Finish

\* The ways a step treats the payload keep the invariant.
LEMMA WritesKeepFresh ==
  ASSUME PayloadInv, FreshInv, NEW p \in Writer, \A q \in Writer \ {p} : pc'[q] = pc[q],
         \/ Keep /\ pc[p] # "ready"
         \/ Discard(p) /\ (pc[p] = "exec" => pc'[p] = "ready")
         \/ \E b : Save(p, b)
  PROVE  FreshInv'
<1>0. seen \in [Writer -> {Nil} \cup Payloads] /\ fresh \in [Writer -> BOOLEAN]
  BY DEF PayloadInv, Shapes
<1>1. CASE Keep /\ pc[p] # "ready"
  BY <1>1 DEF Keep, FreshInv
<1>2. CASE Discard(p) /\ (pc[p] = "exec" => pc'[p] = "ready")
  <2>1. /\ seen'[p] = Nil /\ payload' = payload
        /\ pc[p] # "exec" => fresh'[p]
        /\ \A q \in Writer \ {p} : seen'[q] = seen[q] /\ fresh'[q] = fresh[q]
    BY <1>0, <1>2 DEF Discard
  <2> QED
    BY <1>2, <2>1 DEF FreshInv
<1>3. ASSUME NEW b, Save(p, b) PROVE FreshInv'
  <2>1. /\ seen'[p] = Nil /\ fresh'[p]
        /\ \A q \in Writer \ {p} :
             /\ seen'[q] = seen[q]
             /\ fresh'[q] <=> fresh[q] /\ seen[q] = Nil /\ pc[q] # "ready"
    BY <1>0, <1>3 DEF Save
  <2> QED
    BY <2>1 DEF FreshInv
<1> QED
  BY <1>1, <1>2, <1>3

LEMMA RunKeepsFresh ==
  ASSUME PayloadInv, FreshInv, NEW p \in Writer, RunOf(p)
  PROVE  FreshInv'
<1>1. RunShape(p)
  BY RunStepShape
<1>2. \A q \in Writer \ {p} : pc'[q] = pc[q]
  BY <1>1 DEF RunShape, Advances, PayloadInv, Shapes
<1>3. Keep => pc[p] # "ready"
  <2>1. DeclareReady(p) /\ Keep => FALSE
    <3> SUFFICES ASSUME DeclareReady(p), Keep PROVE FALSE
      OBVIOUS
    <3>1. seen[p] # Nil /\ seen'[p] = Nil
      BY DEF DeclareReady, Discard, Save, PayloadInv, Shapes
    <3> QED
      BY <3>1 DEF Keep
  <2> QED
    BY <2>1, RunAt
<1>4. pc[p] = "exec" => pc'[p] = "ready"
  BY RunAt DEF PrepareExecution, Move, Goto, PayloadInv, Shapes
<1> QED
  BY <1>1, <1>2, <1>3, <1>4, WritesKeepFresh DEF RunShape, Writes

LEMMA OpKeepsFresh ==
  ASSUME PayloadInv, FreshInv, NEW p \in Writer, OpOf(p)
  PROVE  FreshInv'
<1>1. pc[p] \in OpPc
  BY CommitEffect DEF OpOf, Refuse, CloseMission, AddEntry, FailToMark, EnsureAgain, WriteApproved, OpPc
<1>2. \A q \in Writer \ {p} : pc'[q] = pc[q]
  BY DEF OpOf, Refuse, CloseMission, AddEntry, FailToMark, Commit, EnsureAgain, WriteApproved,
     Move, Goto, PayloadInv, Shapes
<1>3. Keep \/ Discard(p) \/ \E b : Save(p, b)
  BY DEF OpOf, Refuse, CloseMission, AddEntry, FailToMark, Commit, EnsureAgain, WriteApproved
<1>4. pc[p] \notin {"ready", "exec"}
  BY <1>1 DEF OpPc
<1> QED
  BY <1>2, <1>3, <1>4, WritesKeepFresh

LEMMA StepFresh ==
  ASSUME PayloadInv, FreshInv, [Next]_vars
  PROVE  FreshInv'
<1>0. seen \in [Writer -> {Nil} \cup Payloads] /\ pc \in [Writer -> Pc]
  BY DEF PayloadInv, Shapes
<1>1. ASSUME NEW p \in Writer, Load(p) PROVE FreshInv'
  BY <1>0, <1>1, NilAssumption DEF Load, Hold, task, FreshInv, PayloadInv, TypeOK
<1>2. ASSUME NEW p \in Writer, NEW next \in Pc, Goto(p, next), Hold(p), Quiet
      PROVE  FreshInv'
  <2>1. /\ seen'[p] = payload /\ payload' = payload /\ fresh' = fresh
        /\ \A q \in Writer \ {p} : seen'[q] = seen[q] /\ pc'[q] = pc[q]
    BY <1>0, <1>2 DEF Goto, Hold, Quiet, task
  <2>2. payload # Nil
    BY NilAssumption DEF PayloadInv, TypeOK
  <2> QED
    BY <2>1, <2>2 DEF FreshInv
<1>3. CASE StartOffice \/ StartInline \/ StartQueued
  BY <1>2, <1>3 DEF StartOffice, StartInline, StartQueued, BeginRun, Writer, Pc, RunPc
<1>4. ASSUME NEW p \in {"desk", "bot"}, NEW kind \in Kinds, Ask(p, kind) PROVE FreshInv'
  BY <1>2, <1>4 DEF Ask, Writer, Pc, OpPc
<1>5. CASE AttachText
  BY <1>5 DEF AttachText, writers, FreshInv
<1>6. CASE UNCHANGED vars
  BY <1>6 DEF vars, task, writers, FreshInv
<1> QED
  BY <1>1, <1>3, <1>4, <1>5, <1>6, RunKeepsFresh, OpKeepsFresh DEF Next

-----------------------------------------------------------------------------
(* Publishing.                                                             *)

LEMMA StepEntry ==
  ASSUME PayloadInv, EntryInv, [Next]_vars
  PROVE  EntryInv'
<1>0. /\ seen \in [Writer -> {Nil} \cup Payloads] /\ pc \in [Writer -> Pc]
      /\ knowledge \in Seq({Nil} \cup (1 .. MaxOps))
  BY DEF PayloadInv, Shapes
<1>1. ASSUME knowledge' = knowledge,
             payload' = payload
               \/ payload'.draftState # "published"
               \/ \E b : /\ payload'.draftState = b.draftState /\ payload'.draft = b.draft
                         /\ b.draftState = "published" => HasEntry(b.draft)
               \/ HasEntry(payload'.draft),
             \A p \in Writer : \/ seen'[p] = Nil
                               \/ seen'[p] = payload
                               \/ seen'[p] = seen[p],
             \A p \in Writer : pc'[p] = "write" => pc[p] = "write" /\ seen'[p] = seen[p]
      PROVE  EntryInv'
  BY <1>1 DEF EntryInv, HasEntry
<1>2. ASSUME NEW p \in Writer, Load(p) PROVE EntryInv'
  <2>1. /\ UNCHANGED <<payload, knowledge, pc>> /\ pc[p] # "write"
        /\ seen'[p] = payload /\ \A q \in Writer \ {p} : seen'[q] = seen[q]
    BY <1>0, <1>2 DEF Load, Hold, task, output, Reading
  <2> QED
    BY <1>1, <2>1
<1>3. ASSUME NEW p \in Writer, RunOf(p) PROVE EntryInv'
  <2>1. RunShape(p)
    BY <1>3, RunStepShape
  <2>2. /\ knowledge' = knowledge
        /\ \A q \in Writer \ {p} : pc'[q] = pc[q] /\ seen'[q] = seen[q]
        /\ pc'[p] # "write" /\ seen'[p] \in {Nil, seen[p]}
    BY <1>0, <2>1 DEF RunShape, Advances, Writes, Keep, Discard, Save
  <2>3. payload' = payload \/ \E b : /\ payload'.draftState = b.draftState /\ payload'.draft = b.draft
                                     /\ b.draftState = "published" => HasEntry(b.draft)
    <3>1. ASSUME NEW b \in Payloads, Save(p, b), seen[p] \in Payloads, KeepsOthers(p, seen[p], b)
          PROVE  /\ payload'.draftState = seen[p].draftState /\ payload'.draft = seen[p].draft
                 /\ seen[p].draftState = "published" => HasEntry(seen[p].draft)
      BY <3>1, NilAssumption DEF Save, KeepsOthers, EntryInv
    <3> QED
      BY <2>1, <3>1 DEF RunShape, Writes, Keep, Discard
  <2> QED
    BY <1>1, <2>2, <2>3
<1>4. ASSUME NEW p \in Writer, OpOf(p) PROVE EntryInv'
  <2>1. CASE Refuse(p) \/ CloseMission(p) \/ FailToMark(p) \/ WriteApproved(p)
    <3>1. /\ UNCHANGED <<knowledge, payload>>
          /\ \A q \in Writer \ {p} : pc'[q] = pc[q] /\ seen'[q] = seen[q]
          /\ pc'[p] # "write" /\ seen'[p] \in {Nil, seen[p]}
      BY <1>0, <2>1 DEF Refuse, CloseMission, FailToMark, WriteApproved, Discard, Keep, Move, Goto
    <3> QED
      BY <1>1, <3>1
  <2>2. CASE AddEntry(p)
    <3>1. /\ knowledge' = Append(knowledge, seen[p].draft) /\ UNCHANGED <<payload, seen>>
          /\ \A q \in Writer \ {p} : pc'[q] = pc[q]
          /\ seen[p] \in Payloads
      BY <1>0, <2>2, NilAssumption DEF AddEntry, Keep, Move, Goto, PayloadInv, TypeOK
    <3>2. seen[p].draft \in {Nil} \cup (1 .. MaxOps)
      BY <3>1 DEF Payloads
    <3>3. \A d : HasEntry(d) => HasEntry(d)'
      BY <1>0, <3>1, <3>2 DEF HasEntry
    <3>4. HasEntry(seen[p].draft)'
      BY <1>0, <3>1, <3>2 DEF HasEntry
    <3> QED
      BY <3>1, <3>3, <3>4 DEF EntryInv
  <2>3. CASE Commit(p)
    <3> DEFINE b == Effect(seen[p], work[p].kind, work[p].arg)
    <3>1. /\ seen[p] \in Payloads /\ work[p].kind \in Kinds
          /\ work[p].arg \in Arguments(work[p].kind) /\ ops \in 1 .. MaxOps
          /\ work[p].kind = "lead" => seen[p].leads < MaxOps
          /\ work[p].kind = "publish" => pc[p] = "write"
      BY <2>3, CommitEffect
    <3>2. /\ b.draft = (IF work[p].kind = "draft" THEN ops ELSE seen[p].draft)
          /\ b.draftState = (CASE work[p].kind = "draft" -> "pending"
                               [] work[p].kind = "publish" -> "published"
                               [] work[p].kind = "reject" -> "rejected"
                               [] OTHER -> seen[p].draftState)
      BY <3>1, EffectTypes
    <3>3. /\ knowledge' = knowledge /\ payload' = b
          /\ \A q \in Writer \ {p} : pc'[q] = pc[q] /\ seen'[q] = seen[q]
          /\ pc'[p] # "write" /\ seen'[p] = Nil
      BY <1>0, <2>3 DEF Commit, Save, Move, Goto, After
    <3> HIDE DEF b
    <3>4. b.draftState = "published" => HasEntry(b.draft)
      BY <3>1, <3>2, NilAssumption DEF EntryInv
    <3> QED
      BY <1>1, <3>3, <3>4
  <2>4. CASE EnsureAgain(p)
    <3>1. /\ seen[p] \in Payloads /\ seen[p] # Nil
          /\ knowledge' = knowledge /\ payload' = Ensured(seen[p])
          /\ \A q \in Writer \ {p} : pc'[q] = pc[q] /\ seen'[q] = seen[q]
          /\ pc'[p] # "write" /\ seen'[p] = Nil
      BY <1>0, <2>4 DEF EnsureAgain, Save, Move, Goto
    <3>2. payload'.draft = seen[p].draft /\ payload'.draftState = seen[p].draftState
      BY <3>1, EnsuredTypes DEF KeepsOthers
    <3> QED
      BY <1>1, <3>1, <3>2 DEF EntryInv
  <2> QED
    BY <1>4, <2>1, <2>2, <2>3, <2>4 DEF OpOf
<1>5. ASSUME NEW p \in Writer, NEW next \in Pc \ {"write"}, Goto(p, next), Hold(p), Quiet
      PROVE  EntryInv'
  <2>1. /\ UNCHANGED <<payload, knowledge>> /\ pc'[p] # "write" /\ seen'[p] = payload
        /\ \A q \in Writer \ {p} : seen'[q] = seen[q] /\ pc'[q] = pc[q]
    BY <1>0, <1>5 DEF Goto, Hold, Quiet, task, output
  <2> QED
    BY <1>1, <2>1
<1>6. CASE StartOffice \/ StartInline \/ StartQueued
  BY <1>5, <1>6 DEF StartOffice, StartInline, StartQueued, BeginRun, Writer, Pc, RunPc
<1>7. ASSUME NEW p \in {"desk", "bot"}, NEW kind \in Kinds, Ask(p, kind) PROVE EntryInv'
  BY <1>5, <1>7 DEF Ask, Writer, Pc, OpPc
<1>8. CASE AttachText \/ UNCHANGED vars
  BY <1>1, <1>8 DEF AttachText, vars, task, writers, output
<1> QED
  BY <1>2, <1>3, <1>4, <1>6, <1>7, <1>8 DEF Next

\* A draft is marked as published only once its entry is in the knowledge base,
\* however many runs and handlers write an older payload back in between.
THEOREM PublishedIsThere == Spec => []PublishedHasEntry
<1>1. Init => PayloadInv /\ EntryInv
  <2> SUFFICES ASSUME Init PROVE EntryInv
    BY InitPayload
  <2> QED
    BY DEF Init, EntryInv, EmptyPayload
<1>2. PayloadInv /\ EntryInv /\ [Next]_vars => (PayloadInv /\ EntryInv)'
  BY StepPayload, StepEntry
<1>3. PayloadInv /\ EntryInv => PublishedHasEntry
  BY DEF EntryInv, PublishedHasEntry, HasEntry
<1> QED
  BY <1>1, <1>2, <1>3, PTL DEF Spec

-----------------------------------------------------------------------------
(* Closing.                                                                *)

\* With such gates the owner is asked after every run.
LEMMA AlwaysAsks ==
  ASSUME GatesAsk, NEW tri \in Triages, NEW n
  PROVE  OwnerInTable(RiskTable(tri, n)) /\ NeedsApproval(OwnerRules, tri, RiskTable(tri, n))
<1>1. OwnerGate(tri)
  BY DEF GatesAsk, OwnerGate, Triages
<1>2. [issue |-> "gate", owner |-> TRUE] \in RiskTable(tri, n)
  BY <1>1 DEF RiskTable
<1>3. OwnerInTable(RiskTable(tri, n))
  BY <1>2 DEF OwnerInTable
<1> QED
  BY <1>3 DEF NeedsApproval

\* While every gate asks for the owner, no run closes a mission, whatever the
\* agents answer and whatever triage is stored: only the owner's approval does.
THEOREM RunsNeverClose == GatesAsk => (Spec => OnlyOwnerCloses)
<1> SUFFICES ASSUME GatesAsk PROVE Spec => OnlyOwnerCloses
  OBVIOUS
<1> DEFINE A == status' = "DONE" /\ status # "DONE" =>
                  \E p \in Writer : pc[p] = "read" /\ work[p].kind = "approve"
<1>1. PayloadInv /\ [Next]_vars => [A]_vars
  <2> SUFFICES ASSUME PayloadInv, Next, status' = "DONE", status # "DONE"
               PROVE  \E p \in Writer : pc[p] = "read" /\ work[p].kind = "approve"
    BY DEF vars
  <2>1. ASSUME NEW p \in Writer, RunOf(p) PROVE FALSE
    <3>1. Finish(p)
      BY <2>1 DEF RunOf, StoreTier, CheckRepeat, Triage, MarkRevenue, StoreTriage, ResyncTriage,
         FillColumns, EnsureBundle, LookForChoice, WaitForOwner, PrepareExecution, DeclareReady,
         EnterPipeline, WriteStep, Roundtable, EnterCourt, WriteReport, WriteVerdict, BuildPack,
         EnsureAction, Abort
    <3>2. work[p].tri \in Triages
      BY <3>1 DEF Finish, PayloadInv, WriterOK, Triaged, RunPc
    <3> QED
      BY <3>1, <3>2, AlwaysAsks DEF Finish, RisksOf
  <2>2. ASSUME NEW p \in Writer, OpOf(p) PROVE pc[p] = "read" /\ work[p].kind = "approve"
    BY <2>2 DEF OpOf, Refuse, CloseMission, AddEntry, FailToMark, Commit, StatusAfter, EnsureAgain,
       WriteApproved
  <2> QED
    BY <2>1, <2>2 DEF Next, Load, Ask, StartOffice, StartInline, StartQueued, Quiet, AttachText, task
<1>2. Spec => []PayloadInv
  BY InitPayload, StepPayload, PTL DEF Spec
<1>3. Spec => [][A]_vars
  BY <1>1, <1>2, PTL DEF Spec
<1> QED
  BY <1>3 DEF OnlyOwnerCloses

-----------------------------------------------------------------------------
(* The owner's choices.                                                    *)

\* Whoever writes without having been overtaken puts his keys into the payload
\* that is there.
LEMMA WritesWhatIsThere ==
  ASSUME PayloadInv, FreshInv, NEW p \in Writer, NEW b, Save(p, b), seen[p] # Nil, ~overtaken'
  PROVE  ~overtaken /\ seen[p] = payload /\ payload' = b
BY DEF Save, FreshInv

LEMMA StepOwed ==
  ASSUME PayloadInv, FreshInv, owed \in Owing, OwnerChoiceKept, [Next]_vars
  PROVE  owed' \in Owing /\ OwnerChoiceKept'
<1>0. seen \in [Writer -> {Nil} \cup Payloads] /\ payload \in Payloads
  BY DEF PayloadInv, Shapes, TypeOK
<1>1. ASSUME owed' = owed,
             ~overtaken' => /\ ~overtaken
                            /\ payload'.chosen = payload.chosen
                            /\ payload.tier # "none" => payload'.tier = payload.tier
                            /\ payload'.draftState = payload.draftState
                            /\ payload'.leads = payload.leads
      PROVE  owed' \in Owing /\ OwnerChoiceKept'
  BY <1>1 DEF OwnerChoiceKept
<1>2. ASSUME NEW p \in Writer, RunOf(p) PROVE owed' \in Owing /\ OwnerChoiceKept'
  <2>1. RunShape(p)
    BY <1>2, RunStepShape
  <2>2. ASSUME NEW b \in Payloads, Save(p, b), seen[p] \in Payloads, KeepsOthers(p, seen[p], b),
               ~overtaken'
        PROVE  /\ ~overtaken
               /\ payload'.chosen = payload.chosen
               /\ payload.tier # "none" => payload'.tier = payload.tier
               /\ payload'.draftState = payload.draftState
               /\ payload'.leads = payload.leads
    BY <2>2, NilAssumption, WritesWhatIsThere DEF KeepsOthers
  <2> QED
    BY <1>1, <2>1, <2>2 DEF RunShape, Writes, Keep, Discard
<1>3. ASSUME NEW p \in Writer, Commit(p) PROVE owed' \in Owing /\ OwnerChoiceKept'
  <2> DEFINE b == Effect(seen[p], work[p].kind, work[p].arg)
  <2>1. /\ seen[p] \in Payloads /\ work[p].kind \in Kinds
        /\ work[p].arg \in Arguments(work[p].kind) /\ ops \in 1 .. MaxOps
        /\ work[p].kind = "lead" => seen[p].leads < MaxOps
    BY <1>3, CommitEffect
  <2>2. /\ b.chosen = (IF work[p].kind = "select" THEN work[p].arg ELSE seen[p].chosen)
        /\ b.tier = (IF work[p].kind = "tier" THEN work[p].arg ELSE seen[p].tier)
        /\ b.leads = (IF work[p].kind = "lead" THEN seen[p].leads + 1 ELSE seen[p].leads)
        /\ b.draftState = (CASE work[p].kind = "draft" -> "pending"
                             [] work[p].kind = "publish" -> "published"
                             [] work[p].kind = "reject" -> "rejected"
                             [] OTHER -> seen[p].draftState)
    BY <2>1, EffectTypes
  <2>3. Save(p, b) /\ owed' = Owed(p)
    BY <1>3 DEF Commit
  <2> HIDE DEF b
  <2>4. owed' \in Owing
    BY <2>1, <2>3 DEF Owed, Owing, NothingOwed, Arguments
  <2>5. ASSUME ~overtaken' PROVE OwnerChoiceKept'
    <3>1. ~overtaken /\ seen[p] = payload /\ payload' = b
      BY <2>1, <2>3, <2>5, NilAssumption, WritesWhatIsThere
    <3>2. owed.leads \in Nat /\ payload.leads = owed.leads /\ payload.chosen = owed.chosen
          /\ (owed.tier # "none" => payload.tier = owed.tier)
          /\ payload.draftState = owed.draftState
      BY <3>1 DEF OwnerChoiceKept, Owing
    <3>3. CASE work[p].kind \in {"select", "tier", "lead"}
      BY <2>1, <2>2, <2>3, <2>5, <3>1, <3>2, <3>3 DEF OwnerChoiceKept, Owed, Owing
    <3>4. CASE work[p].kind \in {"draft", "publish", "reject"}
      BY <2>1, <2>2, <2>3, <2>5, <3>1, <3>2, <3>4 DEF OwnerChoiceKept, Owed, Owing
    <3>5. CASE work[p].kind \in {"view", "done", "approve"}
      BY <2>1, <2>2, <2>3, <2>5, <3>1, <3>2, <3>5 DEF OwnerChoiceKept, Owed
    <3> QED
      BY <2>1, <3>3, <3>4, <3>5 DEF Kinds
  <2> QED
    BY <2>4, <2>5 DEF OwnerChoiceKept
<1>4. ASSUME NEW p \in Writer, EnsureAgain(p) PROVE owed' \in Owing /\ OwnerChoiceKept'
  <2>1. seen[p] \in Payloads /\ seen[p] # Nil /\ Save(p, Ensured(seen[p])) /\ owed' = owed
    BY <1>0, <1>4 DEF EnsureAgain
  <2>2. /\ Ensured(seen[p]).chosen = seen[p].chosen /\ Ensured(seen[p]).leads = seen[p].leads
        /\ Ensured(seen[p]).draftState = seen[p].draftState
        /\ seen[p].tier # "none" => Ensured(seen[p]).tier = seen[p].tier
    BY <2>1, EnsuredTypes DEF KeepsOthers
  <2> QED
    BY <1>1, <2>1, <2>2, WritesWhatIsThere
<1>5. ASSUME NEW p \in Writer,
             Refuse(p) \/ CloseMission(p) \/ AddEntry(p) \/ FailToMark(p) \/ WriteApproved(p)
      PROVE  owed' \in Owing /\ OwnerChoiceKept'
  BY <1>1, <1>5 DEF Refuse, CloseMission, AddEntry, FailToMark, WriteApproved, Keep, Discard
<1>6. ASSUME NEW p \in Writer, NEW kind, Load(p) \/ Ask(p, kind)
      PROVE  owed' \in Owing /\ OwnerChoiceKept'
  BY <1>1, <1>6 DEF Load, Ask, Quiet, task, history
<1>7. CASE StartOffice \/ StartInline \/ StartQueued \/ AttachText \/ UNCHANGED vars
  BY <1>1, <1>7 DEF StartOffice, StartInline, StartQueued, Quiet, AttachText, vars, task, history
<1> QED
  BY <1>2, <1>3, <1>4, <1>5, <1>6, <1>7 DEF Next, OpOf, Writer

\* What the owner chose last is in the payload, whatever runs and handlers write
\* their keys in between, as long as nobody writes one that he had read before.
THEOREM ChoiceSurvives == Spec => []OwnerChoiceKept
<1> DEFINE I == PayloadInv /\ FreshInv /\ owed \in Owing /\ OwnerChoiceKept
<1>1. Init => I
  <2> SUFFICES ASSUME Init PROVE FreshInv /\ owed \in Owing /\ OwnerChoiceKept
    BY InitPayload
  <2>1. FreshInv
    BY DEF Init, FreshInv
  <2> QED
    BY <2>1 DEF Init, EmptyPayload, NothingOwed, Owing, OwnerChoiceKept
<1>2. I /\ [Next]_vars => I'
  BY StepPayload, StepFresh, StepOwed
<1>3. I => OwnerChoiceKept
  OBVIOUS
<1> QED
  BY <1>1, <1>2, <1>3, PTL DEF Spec

-----------------------------------------------------------------------------
(* Execution.                                                              *)

\* How a run comes to an execution.
LEMMA RunTo ==
  ASSUME PayloadInv, NEW p \in Writer, RunOf(p)
  PROVE  /\ pc'[p] = "choose" => EnsureBundle(p)
         /\ pc'[p] = "exec" => LookForChoice(p) /\ payload.chosen # Nil
         /\ pc'[p] = "ready" => PrepareExecution(p)
<1>0. pc \in [Writer -> Pc]
  BY DEF PayloadInv, Shapes
<1>1. \A next : Goto(p, next) => pc'[p] = next
  BY <1>0 DEF Goto
<1>2. WriteStep(p) => pc'[p] \in {"step2", "roundtable"}
  BY <1>1 DEF WriteStep, StepOf, Pipeline, Move
<1> QED
  BY <1>1, <1>2 DEF RunOf, Move, StoreTier, CheckRepeat, Triage, MarkRevenue, StoreTriage, ResyncTriage,
     FillColumns, EnsureBundle, LookForChoice, WaitForOwner, PrepareExecution, DeclareReady,
     EnterPipeline, Roundtable, EnterCourt, WriteReport, WriteVerdict, BuildPack, EnsureAction,
     Finish, Abort

LEMMA StepReady ==
  ASSUME PayloadInv, FreshInv, ReadyInv, [Next]_vars
  PROVE  ReadyInv'
<1>0. /\ seen \in [Writer -> {Nil} \cup Payloads] /\ fresh \in [Writer -> BOOLEAN]
      /\ pc \in [Writer -> Pc] /\ payload \in Payloads
  BY DEF PayloadInv, Shapes, TypeOK
<1> DEFINE Safe(q) == /\ pc'[q] \in {"choose", "exec", "ready"} => payload'.options
                      /\ pc'[q] \in {"exec", "ready"} => payload'.chosen \in Options
                      /\ pc'[q] = "ready" /\ fresh'[q] => payload'.exec = payload'.chosen
<1>a. (~overtaken' => \A q \in Writer : Safe(q)) => ReadyInv'
  BY DEF ReadyInv
<1>b. ASSUME NEW p \in Writer, NEW b, Save(p, b), ~overtaken, payload.options => b.options,
             payload.chosen \in Options => b.chosen \in Options, NEW q \in Writer \ {p}, pc'[q] = pc[q]
      PROVE  Safe(q)
  BY <1>0, <1>b DEF Save, ReadyInv
<1>c. ASSUME ~overtaken, payload' = payload, NEW q \in Writer, pc'[q] = pc[q],
             fresh'[q] => fresh[q]
      PROVE  Safe(q)
  BY <1>c DEF ReadyInv
<1>d. ASSUME NEW p \in Writer, Discard(p), NEW q \in Writer \ {p} PROVE fresh'[q] = fresh[q]
  BY <1>0, <1>d DEF Discard
<1> HIDE DEF Safe
<1>1. ASSUME NEW p \in Writer, RunOf(p), ~overtaken' PROVE \A q \in Writer : Safe(q)
  <2>1. RunShape(p)
    BY <1>1, RunStepShape
  <2>2. \A q \in Writer \ {p} : pc'[q] = pc[q]
    BY <1>0, <2>1 DEF RunShape, Advances
  <2>3. ~overtaken
    BY <1>1, <2>1 DEF RunShape, Writes, Keep, Discard, Save
  <2>4. ASSUME NEW q \in Writer \ {p} PROVE Safe(q)
    <3>1. CASE Keep
      BY <1>c, <2>2, <2>3, <3>1 DEF Keep
    <3>2. CASE Discard(p)
      BY <1>c, <1>d, <2>2, <2>3, <3>2 DEF Discard
    <3>3. ASSUME NEW b \in Payloads, Save(p, b), seen[p] \in Payloads, KeepsOthers(p, seen[p], b)
          PROVE  Safe(q)
      <4>1. seen[p] = payload
        BY <1>1, <3>3, NilAssumption, WritesWhatIsThere
      <4> QED
        BY <1>b, <2>2, <2>3, <3>3, <4>1 DEF KeepsOthers
    <3> QED
      BY <2>1, <3>1, <3>2, <3>3 DEF RunShape, Writes
  <2>5. CASE EnsureBundle(p)
    <3>1. /\ pc'[p] = "choose" /\ seen[p] \in Payloads
          /\ payload' = [seen[p] EXCEPT !.options = TRUE]
      BY <1>0, <2>5 DEF EnsureBundle, Save, Move, Goto
    <3>2. Safe(p)
      BY <3>1 DEF Safe, Payloads
    <3> QED
      BY <2>4, <3>2
  <2>6. CASE LookForChoice(p) /\ payload.chosen # Nil
    <3>1. /\ pc[p] = "choose" /\ pc'[p] = "exec" /\ payload' = payload
          /\ payload.chosen \in Options
      BY <1>0, <2>6 DEF LookForChoice, Keep, Move, Goto, Payloads
    <3>2. Safe(p)
      BY <2>3, <3>1 DEF Safe, ReadyInv
    <3> QED
      BY <2>4, <3>2
  <2>7. CASE PrepareExecution(p)
    <3>1. /\ pc[p] = "exec" /\ pc'[p] = "ready" /\ seen[p] # Nil
          /\ payload.options /\ payload.chosen \in Options
      BY <1>0, <2>3, <2>7 DEF PrepareExecution, Move, Goto, ReadyInv
    <3>2. CASE seen[p].options /\ seen[p].chosen \in Options
      <4>1. Save(p, [seen[p] EXCEPT !.exec = seen[p].chosen, !.ready = TRUE])
        BY <2>7, <3>2 DEF PrepareExecution
      <4>2. payload' = [payload EXCEPT !.exec = payload.chosen, !.ready = TRUE]
        <5>1. ~overtaken /\ fresh[p]
          BY <1>1, <4>1 DEF Save
        <5>2. seen[p] = payload
          BY <3>1, <5>1 DEF FreshInv
        <5> QED
          BY <4>1, <5>2 DEF Save
      <4>3. Safe(p)
        BY <1>0, <3>1, <4>2 DEF Safe, Payloads
      <4> QED
        BY <2>4, <4>3
    <3>3. CASE ~(seen[p].options /\ seen[p].chosen \in Options)
      <4>1. ~fresh[p]
        BY <3>1, <3>3 DEF FreshInv
      <4>2. payload' = payload /\ ~fresh'[p]
        BY <1>0, <2>7, <3>1, <3>3, <4>1 DEF PrepareExecution, Discard
      <4>3. Safe(p)
        BY <3>1, <4>2 DEF Safe
      <4> QED
        BY <2>4, <4>3
    <3> QED
      BY <3>2, <3>3
  <2>8. CASE pc'[p] \notin {"choose", "exec", "ready"}
    BY <2>4, <2>8 DEF Safe
  <2> QED
    BY <1>1, <2>5, <2>6, <2>7, <2>8, RunTo
<1>2. ASSUME NEW p \in Writer, OpOf(p), ~overtaken' PROVE \A q \in Writer : Safe(q)
  <2>1. pc'[p] \notin {"choose", "exec", "ready"} /\ \A q \in Writer \ {p} : pc'[q] = pc[q]
    BY <1>0, <1>2 DEF OpOf, Refuse, CloseMission, AddEntry, FailToMark, Commit, After, EnsureAgain,
       WriteApproved, Move, Goto
  <2>2. Safe(p)
    BY <2>1 DEF Safe
  <2>3. ASSUME NEW b, Save(p, b), seen[p] # Nil, seen[p].options => b.options,
               seen[p].chosen \in Options => b.chosen \in Options, NEW q \in Writer \ {p}
        PROVE  Safe(q)
    BY <1>2, <1>b, <2>1, <2>3, WritesWhatIsThere
  <2>4. ASSUME Commit(p), NEW q \in Writer \ {p} PROVE Safe(q)
    <3> DEFINE b == Effect(seen[p], work[p].kind, work[p].arg)
    <3>1. /\ seen[p] \in Payloads /\ work[p].kind \in Kinds
          /\ work[p].arg \in Arguments(work[p].kind) /\ ops \in 1 .. MaxOps
          /\ work[p].kind = "lead" => seen[p].leads < MaxOps
      BY <2>4, CommitEffect
    <3>2. /\ seen[p].options => b.options
          /\ b.chosen = (IF work[p].kind = "select" THEN work[p].arg ELSE seen[p].chosen)
      BY <3>1, EffectTypes
    <3>3. Save(p, b) /\ seen[p] # Nil
      BY <2>4, <3>1, NilAssumption DEF Commit
    <3> HIDE DEF b
    <3>4. seen[p].chosen \in Options => b.chosen \in Options
      BY <3>1, <3>2 DEF Arguments
    <3> QED
      BY <2>3, <3>2, <3>3, <3>4
  <2>5. ASSUME EnsureAgain(p), NEW q \in Writer \ {p} PROVE Safe(q)
    <3>1. seen[p] # Nil /\ seen[p] \in Payloads /\ Save(p, Ensured(seen[p]))
      BY <1>0, <2>5 DEF EnsureAgain
    <3>2. Ensured(seen[p]).chosen = seen[p].chosen /\ (seen[p].options => Ensured(seen[p]).options)
      BY <3>1, EnsuredTypes DEF KeepsOthers
    <3> QED
      BY <2>3, <3>1, <3>2
  <2>6. ASSUME Refuse(p) \/ CloseMission(p) \/ AddEntry(p) \/ FailToMark(p) \/ WriteApproved(p),
               NEW q \in Writer \ {p}
        PROVE  Safe(q)
    <3>1. Keep \/ Discard(p)
      BY <2>6 DEF Refuse, CloseMission, AddEntry, FailToMark, WriteApproved
    <3>2. payload' = payload /\ ~overtaken /\ fresh'[q] = fresh[q]
      BY <1>2, <1>d, <3>1 DEF Keep, Discard
    <3> QED
      BY <1>c, <2>1, <3>2
  <2> QED
    BY <1>2, <2>2, <2>4, <2>5, <2>6 DEF OpOf
<1>3. ASSUME NEW p \in Writer, Goto(p, "tier") \/ Goto(p, "read"), Quiet, ~overtaken'
      PROVE  \A q \in Writer : Safe(q)
  <2>1. /\ payload' = payload /\ fresh' = fresh /\ ~overtaken
        /\ pc'[p] \in {"tier", "read"} /\ \A q \in Writer \ {p} : pc'[q] = pc[q]
    BY <1>0, <1>3 DEF Quiet, task, Goto
  <2>2. Safe(p)
    BY <2>1 DEF Safe
  <2> QED
    BY <1>c, <2>1, <2>2
<1>4. CASE StartOffice \/ StartInline \/ StartQueued
  BY <1>3, <1>4, <1>a DEF StartOffice, StartInline, StartQueued, BeginRun, Writer
<1>5. ASSUME NEW p \in {"desk", "bot"}, NEW kind \in Kinds, Ask(p, kind) PROVE ReadyInv'
  BY <1>3, <1>5, <1>a DEF Ask, Writer
<1>6. ASSUME (\E p \in Writer : Load(p)) \/ AttachText \/ UNCHANGED vars PROVE ReadyInv'
  <2>1. UNCHANGED <<payload, fresh, overtaken, pc>>
    BY <1>6 DEF Load, AttachText, vars, task, writers, history
  <2> QED
    BY <2>1 DEF ReadyInv
<1> QED
  BY <1>1, <1>2, <1>4, <1>5, <1>6, <1>a DEF Next

\* A run that declares a mission ready has prepared the scenario the owner chose
\* last, unless somebody wrote what he had read before.
THEOREM ReadyIsChosen == Spec => ReadyFollowsSelection
<1> DEFINE I == PayloadInv /\ FreshInv /\ ReadyInv
           A == \A p \in Writer :
                  /\ pc[p] = "ready" /\ pc'[p] = "idle" /\ seen[p] # Nil
                  /\ status' = "EXECUTION_READY" /\ status # "EXECUTION_READY" /\ ~overtaken'
                  => payload'.exec = payload'.chosen
<1>1. Init => I
  <2> SUFFICES ASSUME Init PROVE FreshInv /\ ReadyInv
    BY InitPayload
  <2> QED
    BY DEF Init, FreshInv, ReadyInv
<1>2. I /\ [Next]_vars => I'
  BY StepPayload, StepFresh, StepReady
<1>3. I /\ [Next]_vars => [A]_vars
  <2> SUFFICES ASSUME I, Next, NEW p \in Writer,
                      pc[p] = "ready", pc'[p] = "idle", seen[p] # Nil,
                      status' = "EXECUTION_READY", status # "EXECUTION_READY", ~overtaken'
               PROVE  payload'.exec = payload'.chosen
    BY DEF vars, writers
  <2>0. pc \in [Writer -> Pc] /\ seen \in [Writer -> {Nil} \cup Payloads]
    BY DEF PayloadInv, Shapes
  <2>1. RunOf(p)
    <3>1. ASSUME NEW q \in Writer, OpOf(q) PROVE FALSE
      <4>1. pc[q] \in OpPc
        BY <3>1, CommitEffect DEF OpOf, Refuse, CloseMission, AddEntry, FailToMark, EnsureAgain,
           WriteApproved, OpPc
      <4>2. pc'[p] = pc[p]
        BY <2>0, <3>1, <4>1 DEF OpPc, OpOf, Refuse, CloseMission, AddEntry, FailToMark, Commit,
           EnsureAgain, WriteApproved, Move, Goto
      <4> QED
        BY <4>2
    <3>2. ASSUME NEW q \in Writer \ {p}, RunOf(q) PROVE FALSE
      <4>1. RunShape(q)
        BY <3>2, RunStepShape
      <4> QED
        BY <2>0, <4>1 DEF RunShape, Advances
    <3>3. ~StartOffice /\ ~StartInline /\ ~StartQueued /\ ~AttachText
          /\ (\A q \in Writer : ~Load(q)) /\ (\A q, kind : ~Ask(q, kind))
      BY DEF StartOffice, StartInline, StartQueued, AttachText, Load, Ask, Quiet, task
    <3> QED
      BY <3>1, <3>2, <3>3 DEF Next
  <2>2. DeclareReady(p)
    BY <2>1, RunAt
  <2>3. seen[p].exec # Nil /\ Save(p, [seen[p] EXCEPT !.ready = TRUE])
    BY <2>2 DEF DeclareReady
  <2>4. /\ fresh[p] /\ ~overtaken /\ seen[p] = payload
        /\ payload' = [payload EXCEPT !.ready = TRUE]
    BY <2>3, WritesWhatIsThere DEF Save
  <2>5. payload.exec = payload.chosen /\ payload \in Payloads
    BY <2>4 DEF ReadyInv, PayloadInv, TypeOK
  <2> QED
    BY <2>4, <2>5 DEF Payloads
<1>4. Spec => [][A]_vars
  BY <1>1, <1>2, <1>3, PTL DEF Spec
<1> QED
  BY <1>4 DEF ReadyFollowsSelection

-----------------------------------------------------------------------------
(* The report.  While there is one run, the triage it goes on with, the     *)
(* columns and the stored triage agree, and its files are its own.          *)

\* Reading the stored triage a second time changes nothing of the columns.
LEMMA CanonicalStable ==
  ASSUME NEW meta \in Triages, NEW tri \in Triages, NEW t \in Texts
  PROVE  ColumnsOf(Canonical(meta, Canonical(meta, tri, t), t)) = ColumnsOf(Canonical(meta, tri, t))
<1> DEFINE c == Canonical(meta, tri, t)
<1>1. CASE RevenueLocked(meta, tri, t)
  <2>1. c = LockRevenue(tri) /\ c.revenue
    BY <1>1 DEF Canonical, LockRevenue, Triages
  <2>2. RevenueLocked(meta, c, t)
    BY <1>1, <2>1 DEF RevenueLocked
  <2>3. Canonical(meta, c, t) = LockRevenue(c)
    BY <2>2 DEF Canonical
  <2>4. ColumnsOf(LockRevenue(LockRevenue(tri))) = ColumnsOf(LockRevenue(tri))
    BY DEF ColumnsOf, LockRevenue, Triages
  <2> QED
    BY <2>1, <2>3, <2>4
<1>2. CASE ~RevenueLocked(meta, tri, t)
  <2>1. /\ c \in Triages /\ c.route = meta.route /\ c.crit = meta.crit /\ c.mode = meta.mode
        /\ c.revenue = meta.revenue
    BY <1>2, CanonicalTypes DEF Canonical, Triages
  <2>2. ~RevenueLocked(meta, c, t)
    BY <1>2, <2>1 DEF RevenueLocked
  <2> HIDE DEF c
  <2>3. /\ Canonical(meta, c, t).route = meta.route /\ Canonical(meta, c, t).crit = meta.crit
        /\ Canonical(meta, c, t).mode = meta.mode
    BY <2>1, <2>2 DEF Canonical, Triages
  <2> QED
    BY <2>1, <2>3 DEF ColumnsOf, c
<1> QED
  BY <1>1, <1>2

\* A step of the only run keeps what it leaves behind in order.
LEMMA StepLeaves ==
  ASSUME GatesAsk, PayloadInv, FreshInv, ReportInv, NEW p \in Writer, RunOf(p), ~mixed', ~overtaken'
  PROVE  Judged' /\ (RunActive(p)' => RunLeaves(p)')
<1> DEFINE r == work[p].run
           Goal == Judged' /\ (RunActive(p)' => RunLeaves(p)')
           \* what is known of a run when it comes to a place is known there
           Follows(from, to) ==
             /\ to \in {"tier", "check", "triage"} => from \in {"tier", "check", "triage"}
             /\ to \in Triaged => from \in Triaged
             /\ to \in BeforeVerdict => from \in BeforeVerdict
             /\ to \in {"step2", "roundtable", "court", "report", "verdict"} =>
                  from \in {"step2", "roundtable", "court", "report", "verdict"}
             /\ to \in {"roundtable", "court", "report", "verdict"} =>
                  from \in {"roundtable", "court", "report", "verdict"}
             /\ to \in Filled => from \in Filled
             /\ to \in Filled \cup {"columns"} => from \in Filled \cup {"columns"}
             /\ to # "verdict"
<1> SUFFICES Goal
  BY DEF Goal
<1>0. /\ pc \in [Writer -> Pc] /\ work \in [Writer -> Works]
      /\ seen \in [Writer -> {Nil} \cup Payloads] /\ files \in [Document -> Nat]
      /\ payload \in Payloads /\ text \in Texts
      /\ pc[p] \in Triaged => work[p].tri \in Triages
  BY DEF PayloadInv, Shapes, TypeOK, WriterOK
<1>1. RunShape(p)
  BY RunStepShape
<1>2. UNCHANGED <<text, runs, mixed>> /\ ~overtaken
  <2>1. UNCHANGED <<text, runs, mixed>> /\ Writes(p)
    BY <1>1 DEF RunShape
  <2>2. \A b : Save(p, b) => (overtaken => overtaken')
    BY DEF Save
  <2> QED
    BY <2>1, <2>2 DEF Writes, Keep, Discard
<1>3. RunActive(p) /\ RunLeaves(p) /\ Judged
  BY <1>2, RunAt DEF ReportInv
<1>4. ASSUME pc[p] # "meta" PROVE payload'.meta = payload.meta
  <2>1. ASSUME NEW b \in Payloads, Save(p, b), seen[p] \in Payloads, KeepsOthers(p, seen[p], b)
        PROVE  payload'.meta = payload.meta
    BY <1>4, <2>1, NilAssumption, WritesWhatIsThere DEF KeepsOthers
  <2> QED
    BY <1>1, <2>1 DEF RunShape, Writes, Keep, Discard
<1>5. \A next : Move(p, next) => pc'[p] = next /\ (next # "idle" => work' = work)
  BY <1>0 DEF Move, Goto
<1>6. ASSUME pc[p] # "meta", UNCHANGED <<columns, files, judgement, lastTriaged>>,
             pc'[p] # "idle" => Follows(pc[p], pc'[p]) /\ work' = work
      PROVE  Goal
  <2>1. Judged'
    BY <1>3, <1>6 DEF Judged
  <2>2. ASSUME RunActive(p)' PROVE RunLeaves(p)'
    <3>1. pc'[p] # "idle"
      BY <2>2 DEF RunActive, RunPc
    <3>2. payload'.meta = payload.meta
      BY <1>4, <1>6
    <3> QED
      BY <1>2, <1>3, <1>6, <3>1, <3>2 DEF RunLeaves
  <2> QED
    BY <2>1, <2>2
<1> HIDE DEF Goal
<1>7. CASE StoreTier(p) \/ CheckRepeat(p)
  <2>1. /\ UNCHANGED <<columns, files, judgement, lastTriaged>>
        /\ pc'[p] # "idle" => work' = work
        /\ <<pc[p], pc'[p]>> \in {<<"tier", "check">>, <<"check", "idle">>, <<"check", "triage">>}
    BY <1>5, <1>7 DEF StoreTier, CheckRepeat, RunStep, KeepDocuments
  <2>2. pc[p] # "meta" /\ (pc'[p] # "idle" => Follows(pc[p], pc'[p]))
    BY <2>1 DEF Triaged, RunPc, BeforeVerdict, Filled
  <2> QED
    BY <1>6, <2>1, <2>2
<1>8. CASE Triage(p)
  <2>1. /\ pc[p] = "triage" /\ pc'[p] \in {"gm", "meta"} /\ work'[p].run = r
        /\ lastTriaged' = r /\ UNCHANGED <<files, judgement>>
    BY <1>0, <1>8 DEF Triage, Goto, KeepDocuments, Works
  <2>2. files["verdict"] < r /\ r = runs
    BY <1>3, <2>1 DEF RunLeaves
  <2>3. Judged'
    BY <1>0, <2>1, <2>2 DEF Judged, Document
  <2>4. RunLeaves(p)'
    BY <1>2, <2>1, <2>2 DEF RunLeaves, Filled
  <2> QED
    BY <2>3, <2>4 DEF Goal
<1>9. CASE MarkRevenue(p) \/ EnsureBundle(p) \/ LookForChoice(p) \/ WaitForOwner(p)
           \/ PrepareExecution(p) \/ DeclareReady(p)
  <2>1. /\ UNCHANGED <<columns, files, judgement, lastTriaged>>
        /\ pc'[p] # "idle" => work' = work
        /\ <<pc[p], pc'[p]>> \in {<<"gm", "meta">>, <<"bundle", "choose">>, <<"choose", "wait">>,
              <<"choose", "exec">>, <<"wait", "idle">>, <<"exec", "ready">>, <<"ready", "idle">>}
    BY <1>5, <1>9 DEF MarkRevenue, EnsureBundle, LookForChoice, WaitForOwner,
       PrepareExecution, DeclareReady, RunStep, KeepDocuments
  <2>2. pc[p] # "meta" /\ (pc'[p] # "idle" => Follows(pc[p], pc'[p]))
    BY <2>1 DEF Triaged, RunPc, BeforeVerdict, Filled
  <2> QED
    BY <1>6, <2>1, <2>2
<1>10. CASE StoreTriage(p)
  <2>1. /\ pc[p] = "meta" /\ pc'[p] = "resync" /\ work' = work
        /\ UNCHANGED <<files, judgement, columns, lastTriaged>>
    BY <1>5, <1>10 DEF StoreTriage, RunStep, KeepDocuments
  <2>2. Judged'
    BY <1>3, <2>1 DEF Judged
  <2>3. RunLeaves(p)'
    BY <1>2, <1>3, <2>1 DEF RunLeaves, Filled, Triaged, RunPc, BeforeVerdict
  <2> QED
    BY <2>2, <2>3 DEF Goal
<1>11. CASE ResyncTriage(p)
  <2>1. /\ pc[p] = "resync" /\ pc'[p] = "columns" /\ work'[p].run = r /\ payload' = payload
        /\ work'[p].tri = (IF payload.meta = Nil THEN work[p].tri
                           ELSE Canonical(payload.meta, work[p].tri, text))
        /\ UNCHANGED <<files, judgement, columns, lastTriaged>>
    BY <1>0, <1>11 DEF ResyncTriage, Goto, Keep, KeepDocuments, Works, Resync
  <2>2. Judged'
    BY <1>3, <2>1 DEF Judged
  <2>3. payload'.meta = Nil
        \/ ColumnsOf(Canonical(payload'.meta, work'[p].tri, text')) = ColumnsOf(work'[p].tri)
    <3>1. payload.meta # Nil => payload.meta \in Triages
      BY <1>0 DEF Payloads
    <3>2. work[p].tri \in Triages
      BY <1>0, <2>1 DEF Triaged, RunPc
    <3> QED
      BY <1>0, <1>2, <2>1, <3>1, <3>2, CanonicalStable
  <2>4. RunLeaves(p)'
    BY <1>2, <1>3, <2>1, <2>3 DEF RunLeaves, Filled, Triaged, RunPc, BeforeVerdict
  <2> QED
    BY <2>2, <2>4 DEF Goal
<1>12. CASE FillColumns(p)
  <2>1. /\ pc[p] = "columns" /\ pc'[p] \in {"bundle", "pipeline"} /\ work' = work
        /\ columns' = ColumnsOf(work[p].tri) /\ payload' = payload
        /\ UNCHANGED <<files, judgement, lastTriaged>>
    BY <1>5, <1>12 DEF FillColumns, Keep, KeepDocuments
  <2>2. files["verdict"] < r /\ lastTriaged = r
    BY <1>3, <2>1 DEF RunLeaves, BeforeVerdict, Triaged, RunPc
  <2>3. Judged'
    BY <1>0, <2>1, <2>2 DEF Judged, Document
  <2>4. RunLeaves(p)'
    BY <1>2, <1>3, <2>1, <2>2 DEF RunLeaves, Filled, Triaged, RunPc, BeforeVerdict
  <2> QED
    BY <2>3, <2>4 DEF Goal
<1>13. CASE EnterPipeline(p) \/ Roundtable(p) \/ EnterCourt(p)
  <2>1. /\ UNCHANGED <<columns, files, judgement, lastTriaged>>
        /\ pc'[p] # "idle" => work' = work
        /\ <<pc[p], pc'[p]>> \in {<<"pipeline", "step1">>, <<"roundtable", "court">>, <<"court", "report">>}
    BY <1>5, <1>13 DEF EnterPipeline, Roundtable, EnterCourt, RunStep, KeepDocuments
  <2>2. pc[p] # "meta" /\ (pc'[p] # "idle" => Follows(pc[p], pc'[p]))
    BY <2>1 DEF Triaged, RunPc, BeforeVerdict, Filled
  <2> QED
    BY <1>6, <2>1, <2>2
<1>14. CASE BuildPack(p) \/ EnsureAction(p) \/ Finish(p)
  <2>1. /\ UNCHANGED <<columns, files, judgement, lastTriaged>>
        /\ pc'[p] # "idle" => work' = work
        /\ <<pc[p], pc'[p]>> \in {<<"pack", "action">>, <<"action", "final">>, <<"final", "idle">>}
    BY <1>5, <1>14 DEF BuildPack, EnsureAction, Finish, RunStep, KeepDocuments
  <2>2. pc[p] # "meta" /\ (pc'[p] # "idle" => Follows(pc[p], pc'[p]))
    BY <2>1 DEF Triaged, RunPc, BeforeVerdict, Filled
  <2> QED
    BY <1>6, <2>1, <2>2
<1>15. CASE Abort(p)
  <2>1. /\ UNCHANGED <<columns, files, judgement, lastTriaged>>
        /\ pc'[p] # "idle" => work' = work
        /\ pc[p] # "meta" /\ pc'[p] = "idle"
    BY <1>5, <1>15 DEF Abort, RunStep, KeepDocuments, Failing, Checkpoints
  <2>2. pc[p] # "meta" /\ (pc'[p] # "idle" => Follows(pc[p], pc'[p]))
    BY <2>1 DEF Triaged, RunPc, BeforeVerdict, Filled
  <2> QED
    BY <1>6, <2>1, <2>2
<1>16. CASE WriteStep(p)
  <2>1. /\ work' = work /\ payload' = payload /\ UNCHANGED <<judgement, columns, lastTriaged>>
        /\ \/ pc[p] = "step1" /\ pc'[p] = "step2" /\ files' = [files EXCEPT !["first"] = r]
           \/ pc[p] = "step2" /\ pc'[p] = "roundtable" /\ files' = [files EXCEPT !["second"] = r]
    <3>1. /\ pc[p] \in {"step1", "step2"} /\ Move(p, Pipeline[pc[p]])
          /\ files' = [files EXCEPT ![StepOf[pc[p]]] = r]
          /\ payload' = payload /\ UNCHANGED <<judgement, columns, lastTriaged>>
      BY <1>16 DEF WriteStep, StepOf, Keep
    <3>2. /\ Pipeline["step1"] = "step2" /\ Pipeline["step2"] = "roundtable"
          /\ StepOf["step1"] = "first" /\ StepOf["step2"] = "second"
      BY DEF Pipeline, StepOf
    <3> QED
      BY <1>5, <3>1, <3>2
  <2>2. /\ files["verdict"] < r /\ lastTriaged = r /\ files'["verdict"] = files["verdict"]
    BY <1>0, <1>3, <2>1 DEF RunLeaves, BeforeVerdict, Triaged, RunPc, Document, Steps
  <2>3. Judged'
    BY <1>0, <2>1, <2>2 DEF Judged, Document
  <2>4. RunLeaves(p)'
    BY <1>0, <1>2, <1>3, <2>1, <2>2 DEF RunLeaves, Filled, Triaged, RunPc, BeforeVerdict, Document,
       Steps
  <2> QED
    BY <2>3, <2>4 DEF Goal
<1>17. CASE WriteReport(p)
  <2>1. /\ pc[p] = "report" /\ pc'[p] = "verdict" /\ work' = work /\ payload' = payload
        /\ files' = [files EXCEPT !["report"] = r] /\ UNCHANGED <<columns, lastTriaged>>
        /\ judgement'.owner = OwnerInTable(RiskTable(work[p].tri, Cardinality(Steps)))
        /\ judgement'.columns = (IF payload.meta = Nil THEN ColumnsOf(work[p].tri)
                                 ELSE ColumnsOf(Canonical(payload.meta, work[p].tri, text)))
    BY <1>5, <1>17 DEF WriteReport, Keep, RisksOf, CanonicalForCourt
  <2>2. /\ files["verdict"] < r /\ lastTriaged = r /\ files'["verdict"] = files["verdict"]
        /\ files'["first"] = files["first"] /\ files'["second"] = files["second"]
        /\ files'["report"] = r
    BY <1>0, <1>3, <2>1 DEF RunLeaves, BeforeVerdict, Triaged, RunPc, Document, Steps
  <2>3. Judged'
    BY <1>0, <2>1, <2>2 DEF Judged, Document
  <2>4. judgement'.owner
    BY <1>0, <2>1, AlwaysAsks DEF Triaged, RunPc
  <2>5. judgement'.columns = columns
    BY <1>3, <2>1 DEF RunLeaves, Filled
  <2>6. RunLeaves(p)'
    BY <1>2, <1>3, <2>1, <2>2, <2>4, <2>5 DEF RunLeaves, Filled, Triaged, RunPc, BeforeVerdict
  <2> QED
    BY <2>3, <2>6 DEF Goal
<1>18. CASE WriteVerdict(p)
  <2>1. /\ pc[p] = "verdict" /\ pc'[p] = "pack" /\ work' = work
        /\ files' = [files EXCEPT !["verdict"] = r]
        /\ UNCHANGED <<judgement, columns, lastTriaged>>
    BY <1>5, <1>18 DEF WriteVerdict
  <2>2. /\ files["first"] = r /\ files["second"] = r /\ files["report"] = r /\ lastTriaged = r
        /\ judgement.columns = columns /\ judgement.owner
    BY <1>3, <2>1 DEF RunLeaves, Triaged, RunPc
  <2>3. Judged'
    BY <1>0, <2>1, <2>2 DEF Judged, Document, Steps
  <2>4. RunLeaves(p)'
    BY <1>2, <1>3, <2>1, <2>2 DEF RunLeaves, Filled, Triaged, RunPc, BeforeVerdict
  <2> QED
    BY <2>3, <2>4 DEF Goal
<1> QED
  BY <1>7, <1>8, <1>9, <1>10, <1>11, <1>12, <1>13, <1>14, <1>15, <1>16, <1>17, <1>18 DEF RunOf

\* A step that is not the run's leaves the stored triage, or a mark of what it did.
LEMMA StepReport ==
  ASSUME GatesAsk, PayloadInv, FreshInv, ReportInv, [Next]_vars
  PROVE  ReportInv'
<1>0. /\ pc \in [Writer -> Pc] /\ work \in [Writer -> Works] /\ files \in [Document -> Nat]
      /\ seen \in [Writer -> {Nil} \cup Payloads] /\ payload \in Payloads /\ runs \in Nat
      /\ lastTriaged \in Nat /\ lastTriaged <= runs /\ \A p \in Writer : work[p].run <= runs
      /\ \A d \in Document : files[d] <= runs
  BY PayloadAssumption DEF PayloadInv, Shapes, TypeOK, ReportInv, WriterOK
\* Whoever is not in a run and does not begin one.
<1>1. ASSUME UNCHANGED <<text, columns, files, judgement, lastTriaged, runs, mixed>>,
             \A q \in Writer : RunActive(q)' => pc'[q] = pc[q] /\ work'[q] = work[q],
             ~overtaken' => ~overtaken /\ payload'.meta = payload.meta
      PROVE  ReportInv'
  <2>1. \A q \in Writer : RunActive(q)' => RunActive(q)
    BY <1>1 DEF RunActive
  <2>2. ASSUME ~mixed', ~overtaken' PROVE Judged' /\ \A q \in Writer : RunActive(q)' => RunLeaves(q)'
    <3>1. Judged'
      BY <1>1, <2>2 DEF ReportInv, Judged
    <3>2. ASSUME NEW q \in Writer, RunActive(q)' PROVE RunLeaves(q)'
      <4>1. RunLeaves(q)
        BY <1>1, <2>1, <2>2, <3>2 DEF ReportInv
      <4> QED
        BY <1>1, <2>2, <3>2, <4>1 DEF RunLeaves
    <3> QED
      BY <3>1, <3>2
  <2> QED
    BY <1>0, <1>1, <2>1, <2>2 DEF ReportInv
<1>2. ASSUME NEW p \in Writer, RunOf(p) PROVE ReportInv'
  <2>1. RunShape(p) /\ RunActive(p)
    BY <1>2, RunStepShape, RunAt
  <2>2. \A q \in Writer \ {p} : pc'[q] = pc[q] /\ work'[q] = work[q]
    BY <1>0, <2>1 DEF RunShape, Advances
  <2>3. runs' = runs /\ mixed' = mixed /\ lastTriaged' \in {lastTriaged, work[p].run}
    BY <2>1 DEF RunShape
  <2>4. ~mixed' => \A q \in Writer : RunActive(q)' => q = p
    BY <2>1, <2>2, <2>3 DEF ReportInv, RunActive
  <2>5. ~mixed' /\ ~overtaken' => Judged' /\ (RunActive(p)' => RunLeaves(p)')
    BY <1>2, StepLeaves
  <2> QED
    BY <1>0, <2>3, <2>4, <2>5 DEF ReportInv
<1>3. ASSUME NEW p \in Writer, OpOf(p) PROVE ReportInv'
  <2>1. /\ UNCHANGED <<text, columns, files, judgement, lastTriaged, runs, mixed>>
    BY <1>3 DEF OpOf, Refuse, CloseMission, AddEntry, FailToMark, Commit, EnsureAgain, WriteApproved,
       OpStep
  <2>2. pc'[p] \notin RunPc /\ \A q \in Writer \ {p} : pc'[q] = pc[q] /\ work'[q] = work[q]
    BY <1>0, <1>3 DEF OpOf, Refuse, CloseMission, AddEntry, FailToMark, Commit, After, EnsureAgain,
       WriteApproved, Move, Goto, RunPc
  <2>3. ASSUME NEW b, Save(p, b), seen[p] # Nil, b.meta = seen[p].meta, ~overtaken'
        PROVE  ~overtaken /\ payload'.meta = payload.meta
    BY <2>3, WritesWhatIsThere
  <2>4. Commit(p) /\ ~overtaken' => ~overtaken /\ payload'.meta = payload.meta
    <3> SUFFICES ASSUME Commit(p), ~overtaken' PROVE ~overtaken /\ payload'.meta = payload.meta
      OBVIOUS
    <3> DEFINE b == Effect(seen[p], work[p].kind, work[p].arg)
    <3>1. /\ seen[p] \in Payloads /\ work[p].kind \in Kinds
          /\ work[p].arg \in Arguments(work[p].kind) /\ ops \in 1 .. MaxOps
          /\ work[p].kind = "lead" => seen[p].leads < MaxOps
      BY CommitEffect
    <3>2. b.meta = seen[p].meta
      BY <3>1, EffectTypes
    <3>3. Save(p, b) /\ seen[p] # Nil
      BY <3>1, NilAssumption DEF Commit
    <3> HIDE DEF b
    <3> QED
      BY <2>3, <3>2, <3>3
  <2>5. EnsureAgain(p) /\ ~overtaken' => ~overtaken /\ payload'.meta = payload.meta
    <3> SUFFICES ASSUME EnsureAgain(p), ~overtaken' PROVE ~overtaken /\ payload'.meta = payload.meta
      OBVIOUS
    <3>1. seen[p] # Nil /\ seen[p] \in Payloads /\ Save(p, Ensured(seen[p]))
      BY <1>0 DEF EnsureAgain
    <3>2. Ensured(seen[p]).meta = seen[p].meta
      BY <3>1 DEF Ensured, Payloads
    <3> QED
      BY <2>3, <3>1, <3>2
  <2>6. Refuse(p) \/ CloseMission(p) \/ AddEntry(p) \/ FailToMark(p) \/ WriteApproved(p)
        => UNCHANGED <<payload, overtaken>>
    BY DEF Refuse, CloseMission, AddEntry, FailToMark, WriteApproved, Keep, Discard
  <2> QED
    BY <1>1, <1>3, <2>1, <2>2, <2>4, <2>5, <2>6 DEF OpOf, RunActive
<1>4. ASSUME NEW p \in Writer, ~RunActive(p), BeginRun(p), Quiet PROVE ReportInv'
  <2>1. /\ UNCHANGED <<text, columns, payload, overtaken, files, judgement, lastTriaged>>
        /\ runs' = runs + 1 /\ pc'[p] = "tier" /\ work'[p].run = runs + 1
        /\ \A q \in Writer \ {p} : pc'[q] = pc[q]
        /\ mixed' = (mixed \/ \E q \in Writer \ {p} : RunActive(q))
    BY <1>0, <1>4 DEF Quiet, task, output, BeginRun, Goto, NoWork
  <2>2. ~mixed' => ~mixed /\ \A q \in Writer : RunActive(q)' => q = p
    BY <2>1 DEF RunActive
  <2>3. RunLeaves(p)'
    BY <1>0, <2>1 DEF RunLeaves, Triaged, BeforeVerdict, Filled, Document
  <2>4. ~mixed' /\ ~overtaken' => Judged'
    BY <2>1, <2>2 DEF ReportInv, Judged
  <2> QED
    BY <1>0, <2>1, <2>2, <2>3, <2>4 DEF ReportInv
<1>5. CASE StartOffice \/ StartInline \/ StartQueued
  <2>1. \A p \in Writer : pc[p] \in {"idle", "begin"} => ~RunActive(p)
    BY DEF RunActive, RunPc
  <2> QED
    BY <1>4, <1>5, <2>1 DEF StartOffice, StartInline, StartQueued, Writer
<1>6. ASSUME NEW p \in {"desk", "bot"}, NEW kind \in Kinds, Ask(p, kind) PROVE ReportInv'
  <2>1. UNCHANGED <<text, columns, payload, overtaken, files, judgement, lastTriaged, runs, mixed>>
    BY <1>6 DEF Ask, Quiet, task, output
  <2>2. pc'[p] = "read" /\ \A q \in Writer \ {p} : pc'[q] = pc[q] /\ work'[q] = work[q]
    BY <1>0, <1>6 DEF Ask, Goto, Writer
  <2> QED
    BY <1>1, <2>1, <2>2 DEF RunActive, RunPc
<1>7. CASE AttachText
  <2>1. /\ UNCHANGED <<columns, payload, overtaken, files, judgement, lastTriaged, runs, pc>>
        /\ mixed' = (mixed \/ \E p \in Writer : RunActive(p))
    BY <1>7 DEF AttachText, output, writers
  <2>2. ~mixed' => ~mixed /\ \A q \in Writer : ~RunActive(q)'
    BY <2>1 DEF RunActive
  <2> QED
    BY <1>0, <2>1, <2>2 DEF ReportInv, Judged
<1>8. ASSUME NEW p \in Writer, Load(p) PROVE ReportInv'
  BY <1>1, <1>8 DEF Load, task, output, history
<1>9. CASE UNCHANGED vars
  BY <1>1, <1>9 DEF vars, task, writers, output, history
<1> QED
  BY <1>2, <1>3, <1>5, <1>6, <1>7, <1>8, <1>9 DEF Next

\* When a run that filled the columns has judged the mission and nothing runs,
\* report, verdict and step files are that run's, and the report says what the
\* columns say, unless two runs overlapped, the text was changed under a run, or
\* somebody wrote what he had read before.
THEOREM ReportMatches == GatesAsk => (Spec => []ReportIsCoherent)
<1> SUFFICES ASSUME GatesAsk PROVE Spec => []ReportIsCoherent
  OBVIOUS
<1> DEFINE I == PayloadInv /\ FreshInv /\ ReportInv
<1>1. Init => I
  <2> SUFFICES ASSUME Init PROVE FreshInv /\ ReportInv
    BY InitPayload
  <2>1. FreshInv
    BY DEF Init, FreshInv
  <2>2. \A p \in Writer : ~RunActive(p)
    BY DEF Init, RunActive, RunPc
  <2> QED
    BY <2>1, <2>2 DEF Init, ReportInv, Judged
<1>2. I /\ [Next]_vars => I'
  BY StepPayload, StepFresh, StepReport
<1>3. I => ReportIsCoherent
  BY DEF ReportInv, Judged, ReportIsCoherent
<1> QED
  BY <1>1, <1>2, <1>3, PTL DEF Spec
=============================================================================
