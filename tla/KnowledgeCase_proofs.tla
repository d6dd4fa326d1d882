------------------------- MODULE KnowledgeCase_proofs -------------------------
(***************************************************************************)
(* Proofs about KnowledgeCase for any claims, sources, entities and        *)
(* scores.  The argument is CaseInv: what each accepted step has checked   *)
(* still holds at every later stage, because no later step touches what it *)
(* checked; the draft is a copy of it and the record is computed from the  *)
(* draft.                                                                  *)
(***************************************************************************)
EXTENDS KnowledgeCase, TLAPS

\* The stages at which the sources, the scores, the draft have been checked.
Sourced  == {"source", "confidence", "draft", "pending_owner_approval",
             "approved", "rejected", "published"}
Scoring  == Sourced \ {"source"}
Drafting == Scoring \ {"confidence"}

ClaimsDistinct == UniqueIds(claims)
FactsSourced ==
  stage \in Sourced =>
    /\ \A c \in claims : c.sources \subseteq sources
    /\ \A c \in FactsOf(claims) : c.sources # {}
FactsScored == stage \in Scoring => IdsOf(FactsOf(claims)) \subseteq Assessed(confidence)
DraftIsCopy ==
  stage \in Drafting => draft = [claims |-> claims, sources |-> sources, confidence |-> confidence]
ApprovedByOwner == stage \in {"approved", "published"} => approval # Nil
RecordIsLast ==
  record # Nil => stage = "published" /\ RecordIsGrounded

CaseInv ==
  /\ TypeOK
  /\ ClaimsDistinct /\ FactsSourced /\ FactsScored
  /\ DraftIsCopy /\ ApprovedByOwner /\ RecordIsLast

LEMMA InitCase == Init => CaseInv
BY DEF Init, CaseInv, TypeOK, ClaimsDistinct, UniqueIds, FactsSourced, FactsScored, DraftIsCopy,
   ApprovedByOwner, RecordIsLast, Stages, Sourced, Scoring, Drafting

\* A step that moves the stage before the draft keeps everything about the
\* draft, the approval and the record.
LEMMA EarlyStep ==
  ASSUME CaseInv, [Next]_vars, stage' \notin Drafting
  PROVE  DraftIsCopy' /\ ApprovedByOwner' /\ RecordIsLast'
BY DEF CaseInv, RecordIsLast, ApprovedByOwner, DraftIsCopy, Next, vars, content, Advance, Drafting,
   Scoring, Sourced, RecordExtraction, RecordClassification, RecordEntities, RecordRelations,
   RecordSources, RecordConfidence, CreateDraft, SubmitForOwnerApproval, Approve, Reject, Publish

\* The score a fact is published with is the one it was given.
LEMMA ScoreGiven ==
  ASSUME CaseInv, stage \in Drafting, NEW c \in FactsOf(claims)
  PROVE  LET a == CHOOSE a \in confidence : a.claim = c.id
         IN  a \in confidence /\ a.claim = c.id /\ a = [claim |-> c.id, score |-> a.score]
<1>1. \E a \in confidence : a.claim = c.id
  BY DEF CaseInv, FactsScored, IdsOf, Assessed, Drafting
<1>2. confidence \subseteq Scored
  BY DEF CaseInv, TypeOK
<1> QED
  BY <1>1, <1>2 DEF Scored

LEMMA PublishStep ==
  ASSUME CaseInv, Publish
  PROVE  CaseInv'
<1> DEFINE score(c) == (CHOOSE a \in confidence : a.claim = c.id).score
           row(c) == [claim |-> c.id, sources |-> c.sources, score |-> score(c)]
<1>1. stage = "approved" /\ stage' = "published" /\ approval # Nil /\ approval' = approval
      /\ UNCHANGED content /\ draft' = draft
  BY DEF Publish, Advance
<1>2. draft = [claims |-> claims, sources |-> sources, confidence |-> confidence]
  BY <1>1 DEF CaseInv, DraftIsCopy, Drafting, Scoring, Sourced
<1>3. record' = [facts |-> {row(c) : c \in FactsOf(claims)},
                 assumptions |-> IdsOf(claims \ FactsOf(claims)), by |-> approval]
  BY <1>2 DEF Publish, CanonicalFacts, LabeledAssumptions
<1>4. \A c \in FactsOf(claims) : row(c) \in Facts /\ [claim |-> c.id, score |-> score(c)] \in confidence
  <2> SUFFICES ASSUME NEW c \in FactsOf(claims)
               PROVE  row(c) \in Facts /\ [claim |-> c.id, score |-> score(c)] \in confidence
    OBVIOUS
  <2>1. c \in Claims /\ confidence \subseteq Scored
    BY DEF CaseInv, TypeOK, FactsOf
  <2>2. [claim |-> c.id, score |-> score(c)] \in confidence
    BY <1>1, ScoreGiven DEF Drafting, Scoring, Sourced
  <2>3. score(c) \in 0 .. 10
    BY <2>1, <2>2 DEF Scored
  <2> QED
    BY <2>1, <2>2, <2>3 DEF Claims, Facts
<1>5. IdsOf(claims \ FactsOf(claims)) \subseteq ClaimIds
  BY DEF IdsOf, CaseInv, TypeOK, Claims
<1>6. record' \in Records
  <2>1. approval \in Persons
    BY <1>1 DEF CaseInv, TypeOK
  <2>2. {row(c) : c \in FactsOf(claims)} \subseteq Facts
    BY <1>4
  <2> HIDE DEF row
  <2> QED
    BY <1>3, <1>5, <2>1, <2>2 DEF Records
<1>7. TypeOK'
  BY <1>1, <1>6 DEF CaseInv, TypeOK, content, Stages
<1>8. ClaimsDistinct' /\ FactsSourced' /\ FactsScored' /\ DraftIsCopy' /\ ApprovedByOwner'
  BY <1>1, <1>2 DEF CaseInv, content, ClaimsDistinct, FactsSourced, FactsScored, DraftIsCopy,
     ApprovedByOwner, Sourced, Scoring, Drafting
<1>9. IdsOf(claims \ FactsOf(claims)) = IdsOf(claims) \ IdsOf(FactsOf(claims))
  BY DEF CaseInv, ClaimsDistinct, UniqueIds, IdsOf, FactsOf
<1>10. \A f \in record'.facts : /\ f.sources # {} /\ f.sources \subseteq sources
                                /\ [claim |-> f.claim, score |-> f.score] \in confidence
  <2> SUFFICES ASSUME NEW c \in FactsOf(claims)
               PROVE  /\ row(c).sources # {} /\ row(c).sources \subseteq sources
                      /\ [claim |-> row(c).claim, score |-> row(c).score] \in confidence
    BY <1>3
  <2>1. c.sources # {} /\ c.sources \subseteq sources
    BY <1>1 DEF CaseInv, FactsSourced, Sourced, FactsOf
  <2> QED
    BY <1>4, <2>1
<1>11. {f.claim : f \in record'.facts} = IdsOf(FactsOf(claims))
  <2>1. record'.facts = {row(c) : c \in FactsOf(claims)}
    BY <1>3
  <2>2. \A c : row(c).claim = c.id
    OBVIOUS
  <2> HIDE DEF row
  <2> QED
    BY <2>1, <2>2 DEF IdsOf
<1>12. RecordIsLast'
  BY <1>1, <1>2, <1>3, <1>9, <1>10, <1>11 DEF RecordIsLast, RecordIsGrounded, content
<1> QED
  BY <1>7, <1>8, <1>12 DEF CaseInv

\* The steps before the draft.
LEMMA BuildStep ==
  ASSUME CaseInv, [Next]_vars, stage' \notin Drafting
  PROVE  CaseInv'
<1>1. TypeOK'
  <2> USE DEF CaseInv, TypeOK, Advance, content, Stages
  <2>1. ASSUME NEW cs \in Few(Claims), RecordExtraction(cs) PROVE TypeOK'
    BY <2>1 DEF RecordExtraction, Few
  <2>2. CASE RecordClassification
    BY <2>2 DEF RecordClassification
  <2>3. ASSUME NEW es \in SUBSET EntityIds, RecordEntities(es) PROVE TypeOK'
    BY <2>3 DEF RecordEntities
  <2>4. ASSUME NEW rs \in SUBSET Relations, RecordRelations(rs) PROVE TypeOK'
    BY <2>4 DEF RecordRelations
  <2>5. ASSUME NEW ss \in SUBSET SourceIds, RecordSources(ss) PROVE TypeOK'
    BY <2>5 DEF RecordSources
  <2>6. ASSUME NEW as \in SUBSET GivenScores, RecordConfidence(as) PROVE TypeOK'
    <3>1. as \subseteq Scored
      BY <2>6 DEF RecordConfidence, GivenScores, Scored
    <3> QED
      BY <2>6, <3>1 DEF RecordConfidence
  <2>7. CASE UNCHANGED vars
    BY <2>7 DEF vars
  <2> QED
    BY <2>1, <2>2, <2>3, <2>4, <2>5, <2>6, <2>7 DEF Next, Drafting, Scoring, Sourced, CreateDraft,
       SubmitForOwnerApproval, Approve, Reject, Publish
<1>2. ClaimsDistinct' /\ FactsSourced' /\ FactsScored'
  <2> USE DEF CaseInv, ClaimsDistinct, FactsSourced, FactsScored, Advance, content, Sourced,
          Scoring, Drafting
  <2>1. ASSUME NEW cs \in Few(Claims), RecordExtraction(cs)
        PROVE  ClaimsDistinct' /\ FactsSourced' /\ FactsScored'
    BY <2>1 DEF RecordExtraction
  <2>2. CASE RecordClassification
    BY <2>2 DEF RecordClassification
  <2>3. ASSUME NEW es \in SUBSET EntityIds, RecordEntities(es)
        PROVE  ClaimsDistinct' /\ FactsSourced' /\ FactsScored'
    BY <2>3 DEF RecordEntities
  <2>4. ASSUME NEW rs \in SUBSET Relations, RecordRelations(rs)
        PROVE  ClaimsDistinct' /\ FactsSourced' /\ FactsScored'
    BY <2>4 DEF RecordRelations
  <2>5. ASSUME NEW ss \in SUBSET SourceIds, RecordSources(ss)
        PROVE  ClaimsDistinct' /\ FactsSourced' /\ FactsScored'
    BY <2>5 DEF RecordSources
  <2>6. ASSUME NEW as \in SUBSET GivenScores, RecordConfidence(as)
        PROVE  ClaimsDistinct' /\ FactsSourced' /\ FactsScored'
    BY <2>6 DEF RecordConfidence
  <2>7. CASE UNCHANGED vars
    BY <2>7 DEF vars
  <2> QED
    BY <2>1, <2>2, <2>3, <2>4, <2>5, <2>6, <2>7 DEF Next, CreateDraft, SubmitForOwnerApproval,
       Approve, Reject, Publish
<1> QED
  BY <1>1, <1>2, EarlyStep DEF CaseInv

\* The draft, its submission and the owner's answer.
LEMMA DecideStep ==
  ASSUME CaseInv,
         \/ CreateDraft \/ SubmitForOwnerApproval
         \/ \E who \in Persons \cup {Blank} : Approve(who)
         \/ \E reason \in {"reason", Blank} : Reject(reason)
  PROVE  CaseInv'
<1> USE DEF CaseInv, Advance, content, Sourced, Scoring, Drafting
<1>1. record = Nil /\ record' = Nil
  BY DEF RecordIsLast, CreateDraft, SubmitForOwnerApproval, Approve, Reject
<1>2. UNCHANGED <<claims, entities, relations, sources, confidence>>
  BY DEF CreateDraft, SubmitForOwnerApproval, Approve, Reject
<1>3. TypeOK'
  <2>1. draft' \in Drafts \/ draft' = draft
    BY <1>2 DEF TypeOK, Drafts, CreateDraft, SubmitForOwnerApproval, Approve, Reject
  <2>2. approval' \in {Nil} \cup (Persons \ {Blank}) /\ stage' \in Stages
    BY DEF TypeOK, Stages, CreateDraft, SubmitForOwnerApproval, Approve, Reject
  <2> QED
    BY <1>1, <1>2, <2>1, <2>2 DEF TypeOK
<1>4. DraftIsCopy'
  BY <1>2 DEF DraftIsCopy, CreateDraft, SubmitForOwnerApproval, Approve, Reject
<1>5. ApprovedByOwner'
  BY CaseAssumption DEF TypeOK, ApprovedByOwner, CreateDraft, SubmitForOwnerApproval, Approve, Reject
<1>6. FactsSourced' /\ FactsScored' /\ ClaimsDistinct'
  BY <1>2 DEF FactsSourced, FactsScored, ClaimsDistinct, CreateDraft, SubmitForOwnerApproval,
     Approve, Reject
<1> QED
  BY <1>1, <1>3, <1>4, <1>5, <1>6 DEF RecordIsLast

LEMMA StepCase == CaseInv /\ [Next]_vars => CaseInv'
<1> SUFFICES ASSUME CaseInv, [Next]_vars PROVE CaseInv'
  OBVIOUS
<1>1. CASE stage' \notin Drafting
  BY <1>1, BuildStep
<1>2. CASE Publish
  BY <1>2, PublishStep
<1>3. CASE \/ CreateDraft \/ SubmitForOwnerApproval
           \/ \E who \in Persons \cup {Blank} : Approve(who)
           \/ \E reason \in {"reason", Blank} : Reject(reason)
  BY <1>3, DecideStep
<1>4. CASE UNCHANGED vars
  BY <1>4 DEF vars, content, CaseInv, TypeOK, ClaimsDistinct, FactsSourced, FactsScored, DraftIsCopy,
     ApprovedByOwner, RecordIsLast, RecordIsGrounded
<1> QED
  BY <1>1, <1>2, <1>3, <1>4 DEF Next, Advance, Drafting, Scoring, Sourced, RecordExtraction,
     RecordClassification, RecordEntities, RecordRelations, RecordSources, RecordConfidence

\* CaseInv holds whatever the caller tries.
THEOREM CaseInvariance == Spec => []CaseInv
BY InitCase, StepCase, PTL DEF Spec

\* Every variable of a case keeps its type: what workflow.py's dataclasses
\* check when they are built is never undone.
THEOREM CaseTypes == Spec => []TypeOK
BY CaseInvariance, PTL DEF CaseInv

\* What is published is grounded: approved, every fact with declared sources
\* and its score, nothing lost and no assumption turned into a fact.
THEOREM CaseRecordGrounded == Spec => []RecordIsGrounded
<1>1. CaseInv => RecordIsGrounded
  BY DEF CaseInv, RecordIsLast, RecordIsGrounded
<1> QED
  BY <1>1, CaseInvariance, PTL
=============================================================================
