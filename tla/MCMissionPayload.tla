---------------------------- MODULE MCMissionPayload ----------------------------
(* Four routes of app/config/routing.yaml, the texts that reach the branches *)
(* of the triage, and an answer that escalates and reroutes.                 *)
EXTENDS MissionPayload, TLC

CONSTANTS NilRoute, fast, deep

Feature   == [domain |-> "PRODUCT_DEV", type |-> "feature_delivery", crit |-> 2,
              gate |-> {"approval", "prod", "pii"}, words |-> {}]
Deploy    == [domain |-> "PRODUCT_DEV", type |-> "deploy_prod", crit |-> 3,
              gate |-> {"approval"}, words |-> {"deploy"}]
Revenue   == [domain |-> "BUSINESS", type |-> "revenue_execution", crit |-> 2,
              gate |-> {"approval", "contract", "money"}, words |-> {}]
Marketing == [domain |-> "MEDIA_OPS", type |-> "marketing_plan", crit |-> 1,
              gate |-> {"approval", "publish"}, words |-> {}]

Alike == Permutations(Options)

MCRoutes == {Feature, Deploy, Revenue, Marketing}

Plain == [project |-> NilRoute, hint |-> NilRoute, revenue |-> FALSE, marketing |-> FALSE, plan |-> FALSE,
          idea |-> FALSE, now |-> FALSE, acts |-> FALSE, alwaysCritical |-> FALSE, tag |-> "none"]

MCTexts == {[Plain EXCEPT !.idea = TRUE, !.hint = Deploy, !.acts = TRUE, !.alwaysCritical = TRUE],
            [Plain EXCEPT !.revenue = TRUE, !.tag = "cloud"],
            [Plain EXCEPT !.marketing = TRUE, !.plan = TRUE]}

MCAdditions == {[Plain EXCEPT !.revenue = TRUE, !.now = TRUE]}

MCAnswers == {[domain |-> "MEDIA_OPS", type |-> "marketing_plan", crit |-> 3, mode |-> "EXECUTE"]}
=============================================================================
