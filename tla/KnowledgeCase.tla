----------------------------- MODULE KnowledgeCase -----------------------------
(***************************************************************************)
(* One knowledge case (app/knowledge_intake/workflow.py): material is      *)
(* taken apart into claims, classified, given entities, relations, sources *)
(* and confidence, drafted, shown to the owner, and published or rejected. *)
(*                                                                         *)
(* The caller may try any step at any time with any arguments.  A step     *)
(* that is refused raises and changes nothing, so only the steps that are  *)
(* let through are actions.  A case is an immutable value: the model       *)
(* follows the value the caller goes on with.                              *)
(***************************************************************************)
EXTENDS Integers, FiniteSets

CONSTANTS ClaimIds, SourceIds, EntityIds, RelationIds,
          Scores,     \* confidence in tenths, as the caller gives it
          Persons,    \* who may be named as the owner of an approval
          Blank,      \* a text of spaces
          MaxClaims,  \* bound on the claims of one extraction, repeated ids included
          Nil

ASSUME CaseAssumption ==
  /\ Scores \subseteq Int
  /\ Nil \notin Persons

VARIABLES
  stage,        \* IntakeStage
  claims,       \* ExtractedClaim: [id, fact, sources]
  entities,     \* ids
  relations,    \* [id, subject, object]
  sources,      \* ids
  confidence,   \* ConfidenceAssessment: [claim, score]
  draft,        \* KnowledgeDraft: what the owner is shown, Nil before
  approval,     \* who approved it
  record        \* CanonicalKnowledgeRecord: [facts, assumptions, by], Nil before

content == <<claims, entities, relations, sources, confidence>>
vars == <<stage, content, draft, approval, record>>

Stages == {"material", "extraction", "classification", "entities", "relations",
           "source", "confidence", "draft", "pending_owner_approval",
           "approved", "rejected", "published"}

Claims    == [id : ClaimIds, fact : BOOLEAN, sources : SUBSET SourceIds]
Relations == [id : RelationIds, subject : EntityIds, object : EntityIds]
Scored    == [claim : ClaimIds, score : 0 .. 10]
Drafts    == [claims : SUBSET Claims, sources : SUBSET SourceIds, confidence : SUBSET Scored]
Facts     == [claim : ClaimIds, sources : SUBSET SourceIds, score : 0 .. 10]
Records   == [facts : SUBSET Facts, assumptions : SUBSET ClaimIds, by : Persons]

Init ==
  /\ stage = "material"
  /\ claims = {} /\ entities = {} /\ relations = {} /\ sources = {} /\ confidence = {}
  /\ draft = Nil /\ approval = Nil /\ record = Nil

-----------------------------------------------------------------------------
(* The steps.                                                              *)

\* _unique_by_id of things with an id.
UniqueIds(S) == \A x, y \in S : x.id = y.id => x = y

IdsOf(S)   == {x.id : x \in S}
FactsOf(S) == {c \in S : c.fact}
Assessed(S) == {a.claim : a \in S}

Advance(from, to) == stage = from /\ stage' = to

RecordExtraction(cs) ==
  /\ Advance("material", "extraction")
  /\ cs # {} /\ UniqueIds(cs)
  /\ claims' = cs
  /\ UNCHANGED <<entities, relations, sources, confidence, draft, approval, record>>

\* What a case is classified as does not matter to any later step.
RecordClassification ==
  /\ Advance("extraction", "classification")
  /\ UNCHANGED <<content, draft, approval, record>>

RecordEntities(es) ==
  /\ Advance("classification", "entities")
  /\ entities' = es
  /\ UNCHANGED <<claims, relations, sources, confidence, draft, approval, record>>

RecordRelations(rs) ==
  /\ Advance("entities", "relations")
  /\ UniqueIds(rs)
  /\ \A r \in rs : {r.subject, r.object} \subseteq entities
  /\ relations' = rs
  /\ UNCHANGED <<claims, entities, sources, confidence, draft, approval, record>>

\* Every source a claim names is given, and a fact need not name one.
RecordSources_AnySource(ss) ==
  /\ Advance("relations", "source")
  /\ FactsOf(claims) # {}
  /\ \A c \in claims : c.sources \subseteq ss
  /\ sources' = ss
  /\ UNCHANGED <<claims, entities, relations, confidence, draft, approval, record>>

\* Every source a claim names is given, a fact names one, and assumptions
\* alone make no draft.
RecordSources(ss) ==
  /\ Advance("relations", "source")
  /\ FactsOf(claims) # {}
  /\ \A c \in claims : c.sources \subseteq ss
  /\ \A c \in FactsOf(claims) : c.sources # {}
  /\ sources' = ss
  /\ UNCHANGED <<claims, entities, relations, confidence, draft, approval, record>>

\* ConfidenceAssessment takes scores from 0 to 1, one for a claim, and every
\* fact must have one.
RecordConfidence(as) ==
  /\ Advance("source", "confidence")
  /\ \A a \in as : a.score \in 0 .. 10
  /\ \A a, b \in as : a.claim = b.claim => a = b
  /\ Assessed(as) \subseteq IdsOf(claims)
  /\ IdsOf(FactsOf(claims)) \subseteq Assessed(as)
  /\ confidence' = as
  /\ UNCHANGED <<claims, entities, relations, sources, draft, approval, record>>

\* The draft copies the case.
CreateDraft ==
  /\ Advance("confidence", "draft")
  /\ draft' = [claims |-> claims, sources |-> sources, confidence |-> confidence]
  /\ UNCHANGED <<content, approval, record>>

SubmitForOwnerApproval ==
  /\ Advance("draft", "pending_owner_approval")
  /\ UNCHANGED <<content, draft, approval, record>>

\* OwnerApproval names somebody.
Approve(who) ==
  /\ Advance("pending_owner_approval", "approved")
  /\ who # Blank
  /\ approval' = who
  /\ UNCHANGED <<content, draft, record>>

Reject(reason) ==
  /\ Advance("pending_owner_approval", "rejected")
  /\ reason # Blank
  /\ UNCHANGED <<content, draft, approval, record>>

\* _from_approved_draft: what is a fact, with its score, and what is not.
CanonicalFacts(d) ==
  {[claim |-> c.id, sources |-> c.sources,
    score |-> (CHOOSE a \in d.confidence : a.claim = c.id).score] : c \in FactsOf(d.claims)}

LabeledAssumptions(d) == IdsOf(d.claims \ FactsOf(d.claims))

\* A pending draft is published as an approved one is.
Publish_Pending ==
  /\ stage \in {"pending_owner_approval", "approved"} /\ stage' = "published"
  /\ record' = [facts |-> CanonicalFacts(draft), assumptions |-> LabeledAssumptions(draft),
                by |-> approval]
  /\ UNCHANGED <<content, draft, approval>>

Publish ==
  /\ Advance("approved", "published")
  /\ approval # Nil
  /\ record' = [facts |-> CanonicalFacts(draft), assumptions |-> LabeledAssumptions(draft),
                by |-> approval]
  /\ UNCHANGED <<content, draft, approval>>

\* Sets with at most MaxClaims elements.
Few(S) == {s \in SUBSET S : Cardinality(s) <= MaxClaims}

GivenScores == [claim : ClaimIds, score : Scores]

Next ==
  \/ \E cs \in Few(Claims) : RecordExtraction(cs)
  \/ RecordClassification
  \/ \E es \in SUBSET EntityIds : RecordEntities(es)
  \/ \E rs \in SUBSET Relations : RecordRelations(rs)
  \/ \E ss \in SUBSET SourceIds : RecordSources(ss)
  \/ \E as \in SUBSET GivenScores : RecordConfidence(as)
  \/ CreateDraft \/ SubmitForOwnerApproval
  \/ \E who \in Persons \cup {Blank} : Approve(who)
  \/ \E reason \in {"reason", Blank} : Reject(reason)
  \/ Publish

Spec == Init /\ [][Next]_vars
-----------------------------------------------------------------------------
(* Properties.                                                             *)

\* Every variable has its type.
TypeOK ==
  /\ stage \in Stages
  /\ claims \subseteq Claims /\ entities \subseteq EntityIds
  /\ relations \subseteq Relations /\ sources \subseteq SourceIds
  /\ confidence \subseteq Scored
  /\ draft = Nil \/ draft \in Drafts
  /\ approval \in {Nil} \cup (Persons \ {Blank})
  /\ record = Nil \/ record \in Records

\* Whatever the caller tries and in whatever order, a canonical record was
\* approved by somebody, every fact in it has a source that was declared and
\* the score it was given, no assumption became a fact, no claim of the draft
\* the owner was shown was lost, and the draft is what the case holds.
RecordIsGrounded ==
  record # Nil =>
    /\ approval # Nil /\ record.by = approval
    /\ \A f \in record.facts :
         /\ f.sources # {} /\ f.sources \subseteq sources
         /\ [claim |-> f.claim, score |-> f.score] \in confidence
    /\ IdsOf(FactsOf(draft.claims)) = {f.claim : f \in record.facts}
    /\ record.assumptions = IdsOf(draft.claims) \ IdsOf(FactsOf(draft.claims))
    /\ draft = [claims |-> claims, sources |-> sources, confidence |-> confidence]
=============================================================================
