-------------------------------- MODULE Routing --------------------------------
(***************************************************************************)
(* How the office reads a task: triage by rules, the part of an agent's    *)
(* answer it lets in, the lock of a commercial task, the risk table of the *)
(* roundtable and the decision whether the owner must approve.  Everything *)
(* here is a function; MissionPayload runs it.                             *)
(*                                                                         *)
(* A text is what the detectors say of it.  A route is one task type of    *)
(* app/config/routing.yaml, with the words its gate and its name contain.  *)
(***************************************************************************)
EXTENDS Integers, FiniteSets

CONSTANTS Routes,          \* records [domain, type, crit, gate, words]
          DefaultRoute,    \* PRODUCT_DEV / feature_delivery
          RevenueRoute,    \* BUSINESS / revenue_execution
          MarketingRoute,  \* MEDIA_OPS / marketing_plan
          NoRoute,
          NoAnswer         \* the agents gave no usable answer

ASSUME RoutesAssumption ==
    /\ {DefaultRoute, RevenueRoute, MarketingRoute} \subseteq Routes
    /\ \A a, b \in Routes : a.domain = b.domain /\ a.type = b.type => a = b
    /\ \A r \in Routes : r.crit \in 0 .. 3
    /\ NoRoute \notin Routes

Texts == [project : Routes \cup {NoRoute}, hint : Routes \cup {NoRoute},
          revenue : BOOLEAN,
          marketing : BOOLEAN, plan : BOOLEAN,  \* both ask for a marketing plan
          idea : BOOLEAN,  \* words of an idea or a hypothesis
          now : BOOLEAN,   \* words that ask for the result at once
          acts : BOOLEAN, alwaysCritical : BOOLEAN, tag : {"none", "local", "cloud"}]

Triages == [route : Routes, crit : 0 .. 3, mode : {"PLAN", "EXECUTE"},
            revenue : BOOLEAN, marketing : BOOLEAN, explore : BOOLEAN]

CRITICAL == 3
HIGH == 2

\* An idea is explored unless the same text asks to do it now.
Explores(t) == t.idea /\ ~t.now

AsksMarketing(t) == t.marketing /\ t.plan

\* A text with another appended to it.  Of two names or hints the one that
\* stands first in the list of the detector counts, of two tags the cloud's.
Joinings(t, more) ==
    LET either(a, b) == IF {a, b} = {NoRoute} THEN {NoRoute} ELSE {a, b} \ {NoRoute}
        tags == {t.tag, more.tag}
        tag == IF "cloud" \in tags THEN "cloud" ELSE IF "local" \in tags THEN "local" ELSE "none"
    IN  {[project |-> p, hint |-> h, tag |-> tag,
          revenue |-> t.revenue \/ more.revenue,
          marketing |-> t.marketing \/ more.marketing, plan |-> t.plan \/ more.plan,
          idea |-> t.idea \/ more.idea, now |-> t.now \/ more.now,
          acts |-> t.acts \/ more.acts,
          alwaysCritical |-> t.alwaysCritical \/ more.alwaysCritical] :
            p \in either(t.project, more.project), h \in either(t.hint, more.hint)}

-----------------------------------------------------------------------------
(* Triage.                                                                 *)

\* A result before any agent is asked.
RuleResult(route, mode, revenue, marketing, explore) ==
    [route |-> route, crit |-> route.crit, mode |-> mode,
     revenue |-> revenue, marketing |-> marketing, explore |-> explore]

RevenueResult == RuleResult(RevenueRoute, "EXECUTE", TRUE, FALSE, FALSE)
MarketingResult(t) == RuleResult(MarketingRoute, "PLAN", FALSE, TRUE, Explores(t))
ProjectResult(t) == RuleResult(t.project, "PLAN", FALSE, FALSE, Explores(t))

\* Words of action make the task EXECUTE, and CRITICAL if its type always is.
HintResult(t) ==
    LET route == IF t.hint = NoRoute THEN DefaultRoute ELSE t.hint
        plain == RuleResult(route, "PLAN", FALSE, FALSE, Explores(t))
    IN  IF ~t.acts THEN plain
        ELSE [plain EXCEPT !.mode = "EXECUTE",
                           !.crit = IF t.alwaysCritical THEN CRITICAL ELSE @]

RuleTriage(t) ==
    CASE t.project # NoRoute -> ProjectResult(t)
      [] t.project = NoRoute /\ t.revenue -> RevenueResult
      [] t.project = NoRoute /\ ~t.revenue /\ AsksMarketing(t) -> MarketingResult(t)
      [] OTHER -> HintResult(t)

\* What the agents may not change: the route of a task the owner or the rules
\* named, and the mode of a commercial or a marketing one.
LockedKeys(t) ==
    (IF t.project # NoRoute \/ t.revenue \/ AsksMarketing(t) THEN {"route"} ELSE {})
    \cup (IF t.project = NoRoute /\ (t.revenue \/ AsksMarketing(t)) THEN {"mode"} ELSE {})

Domains == {r.domain : r \in Routes}

\* The route an answer names: in the domain it names if that is a domain, and
\* in the domain of the result otherwise.
NamedRoutes(res, ans) ==
    LET domain == IF ans.domain \in Domains THEN ans.domain ELSE res.route.domain
    IN  {r \in Routes : r.domain = domain /\ r.type = ans.type}

Rerouted(res, ans, locked) ==
    IF "route" \in locked \/ NamedRoutes(res, ans) = {} THEN res
    ELSE LET r == CHOOSE r \in NamedRoutes(res, ans) : TRUE
         IN  [res EXCEPT !.route = r, !.crit = r.crit]

\* The criticality of an answer added to that of the rules.
MergeAnswer_Adds(res, ans, locked) ==
    LET routed == Rerouted(res, ans, locked)
    IN  [routed EXCEPT !.crit = @ + ans.crit]

\* An answer raises the criticality, and turns PLAN to EXECUTE, never back.
MergeAnswer(res, ans, locked) ==
    LET routed == Rerouted(res, ans, locked)
    IN  [routed EXCEPT
           !.crit = IF ans.crit > @ THEN ans.crit ELSE @,
           !.mode = IF "mode" \notin locked /\ ans.mode = "EXECUTE"
                      THEN "EXECUTE" ELSE @]

RunTriage(t, ans) ==
    IF ans = NoAnswer THEN RuleTriage(t)
    ELSE MergeAnswer(RuleTriage(t), ans, LockedKeys(t))

-----------------------------------------------------------------------------
(* The stored triage, and what a reader makes of it.                       *)

RevenueLocked(meta, tri, t) ==
    /\ t.project = NoRoute
    /\ tri.revenue \/ meta.revenue \/ t.revenue

\* The lock takes everything but the markers from the configured route.
LockRevenue(tri) ==
    [tri EXCEPT !.route = RevenueRoute, !.crit = RevenueRoute.crit,
                !.mode = "EXECUTE", !.revenue = TRUE]

\* Both readers, the run and the court, prefer what is stored to what they
\* hold, and the lock to both.
Canonical(meta, tri, t) ==
    IF RevenueLocked(meta, tri, t) THEN LockRevenue(tri)
    ELSE [tri EXCEPT !.route = meta.route, !.crit = meta.crit, !.mode = meta.mode,
                     !.revenue = meta.revenue, !.explore = @ \/ Explores(t)]

\* A run that goes on with the triage it has.
Resync_KeepsAnswer(meta, tri, t) == tri

Resync(meta, tri, t) == Canonical(meta, tri, t)
CanonicalForCourt(meta, tri, t) == Canonical(meta, tri, t)

-----------------------------------------------------------------------------
(* Roundtable, flags, owner rules.                                         *)

\* Approval is only asked for what the triage calls EXECUTE.
OwnerGate_ExecuteOnly(tri) == tri.mode = "EXECUTE"

OwnerGate(tri) == tri.mode = "EXECUTE" \/ "approval" \in tri.route.gate

HasWord(tri, words) == tri.route.gate \cap words # {}

\* The rows of the risk table: what is at stake and whether the owner decides.
RiskTable(tri, handoffs) ==
    LET row(issue, present, owner) ==
            IF present THEN {[issue |-> issue, owner |-> owner]} ELSE {}
        rows == row("gate", OwnerGate(tri), TRUE)
                \cup row("impact", tri.crit >= HIGH, OwnerGate(tri))
                \cup row("thin", handoffs < 2, FALSE)
                \cup row("production", HasWord(tri, {"prod"}) \/ tri.route.type = "deploy_prod",
                         OwnerGate(tri))
                \cup row("public", HasWord(tri, {"publish", "public"}), OwnerGate(tri))
                \cup row("legal", HasWord(tri, {"money", "contract", "legal"}), TRUE)
                \cup row("sensitive", HasWord(tri, {"pii", "sensitive", "video"}), TRUE)
    IN  IF rows = {} THEN {[issue |-> "none", owner |-> FALSE]} ELSE rows

OwnerInTable(table) == \E row \in table : row.owner

\* The flags of a critical step; a PLAN raises none.
Flags(tri) ==
    LET gate(words) == HasWord(tri, words)
        name(words) == tri.route.words \cap words # {}
    IN  IF tri.mode # "EXECUTE" THEN {}
        ELSE {f \in {"prod_deploy", "public_publish", "money_or_pricing",
                     "pii_or_sensitive", "legal_commitment"} :
                \/ f = "prod_deploy" /\ (gate({"prod"}) \/ name({"deploy"}))
                \/ f = "public_publish" /\ (gate({"publish"}) \/ name({"publish"}))
                \/ f = "money_or_pricing" /\ (gate({"money", "contract"}) \/ name({"pricing"}))
                \/ f = "pii_or_sensitive" /\ (gate({"pii", "sensitive"}) \/ name({"pii"}))
                \/ f = "legal_commitment" /\ gate({"legal", "contract"})}

\* The owner's stored rules can only add to what already asks for approval.
OwnerRulesAsk(rules, tri) ==
    \/ "critical_execution_requires_owner" \in rules /\ Flags(tri) # {}
    \/ /\ "public_publish_requires_owner" \in rules
       /\ \/ "public_publish" \in Flags(tri)
          \/ "publish" \in tri.route.words \cup tri.route.gate
    \/ /\ "security_requires_owner_approval" \in rules
       /\ "security" \in tri.route.words \/ HasWord(tri, {"secret", "credential"})
    \/ "strategy_change_requires_owner" \in rules /\ "strategy" \in tri.route.words
    \/ /\ "idea_scenario_change_requires_owner" \in rules
       /\ tri.route.words \cap {"scenario", "product_vision", "vision"} # {}

NeedsApproval(rules, tri, table) ==
    Flags(tri) # {} \/ OwnerInTable(table) \/ OwnerRulesAsk(rules, tri)

-----------------------------------------------------------------------------
(* Which model serves the run: the choice stored with the task, the tags   *)
(* of its text, the configured default.                                    *)

ResolveTier(stored, t, default) ==
    CASE stored # "none" -> stored
      [] stored = "none" /\ t.tag # "none" -> t.tag
      [] OTHER -> default

\* Whether the cloud or the local server can be reached with this setup.
TierCredentialsOk(tier, setup) ==
    IF tier = "cloud" THEN {"cloud_url", "cloud_key"} \cap setup # {}
    ELSE "local_url" \in setup

StrictRequired(engine, fallback) == ~fallback /\ engine \in {"crewai", "auto"}

\* Agents are asked when the engine is theirs, or in "auto" with credentials
\* or without a permitted fallback.
AgentsEnabled(engine, fallback, setup) ==
    \/ engine = "crewai"
    \/ /\ engine = "auto"
       /\ \/ StrictRequired(engine, fallback)
          \/ \E tier \in {"local", "cloud"} : TierCredentialsOk(tier, setup)

\* What run_triage may get from them; without an answer a strict one fails.
AgentAnswers(answers, engine, fallback, setup) ==
    (IF AgentsEnabled(engine, fallback, setup) THEN answers ELSE {})
    \cup (IF StrictRequired(engine, fallback) THEN {} ELSE {NoAnswer})
=============================================================================
