--------------------------------- MODULE Intake --------------------------------
(***************************************************************************)
(* Smart intake: what the owner writes in the chat becomes an answer, a    *)
(* question, or a draft with buttons; a pressed button makes a mission of  *)
(* the draft or adds it to one; the outcomes of the missions decide which  *)
(* pack the next run builds.                                               *)
(*                                                                         *)
(* One process, the bot, handles the updates in one event loop: an action  *)
(* is what a handler does between two awaits.  Drafts, missions and memory *)
(* are rows of the database; the context of a question lives in the bot.   *)
(***************************************************************************)
EXTENDS Packs, Sequences

CONSTANTS Texts,          \* what the owner may write, see TextsAssumption
          Projects, DefaultProject,
          Rules,          \* item keys of the owner's active rules at intake
          Preferences,    \* and of the preferences
          Answers,        \* what the classifying model may answer
          Pasts,          \* tallies the office may start with
          MaxHeard, MaxMissions, MaxDrafts, MaxDeals, MaxAmount,  \* bounds
          Nil, NoReply, OffTopic

\* "acts" are the classifier's words of action, "verbs" the director's.
Conditions == {"noise", "short", "question", "acts", "verbs", "diagnostic", "risky",
               "wakesafari", "strategic"}
Types == {"none", "marketing", "product", "revenue", "ops"}
PackWords == Pack \ {"generic"}

\* A text: what the patterns find in it, its length (past the limits 3000,
\* 3500 and 4000 or not), and the projects it names.
ASSUME TextsAssumption ==
    Texts \subseteq [has : SUBSET Conditions, words : SUBSET PackWords, type : Types,
                     length : Nat, names : SUBSET Projects]

ASSUME IntakeAssumption ==
    /\ DefaultProject \in Projects
    /\ Answers \subseteq [intent : {"task", "question", "analysis", "clarify", "noise"},
                          decision : {"create", "clarify", "attach", "reject"},
                          conf : 0 .. 100, asks : BOOLEAN, omits : SUBSET Conditions] \cup {Nil}
    /\ \A past \in Pasts : past \in [Pack -> SoundTallies]

ASSUME BoundsAssumption ==
    /\ MaxHeard \in Nat /\ MaxMissions \in Nat /\ MaxDrafts \in Nat
    /\ MaxDeals \in Nat /\ MaxAmount \in Nat

\* No id is the mark of a missing one.
ASSUME NilAssumption == Nil \notin Nat

VARIABLES
    missions,    \* the sequence of mission rows
    memory,      \* per project, what the finished runs left of their missions
    drafts,      \* the sequence of drafts ever put; a row is there while live
    question,    \* _CLARIFY_REPLY_CTX: the reply context kept for the answer
    asking,      \* reply contexts of questions that are being sent
    confirming,  \* drafts taken out of the table, their missions not yet made
    heard,       \* number of messages, a bound
    past         \* tallies of the missions not modelled one by one
vars == <<missions, memory, drafts, question, asking, confirming, heard, past>>

MissionIds == 1 .. MaxMissions
DraftIds == 1 .. MaxDrafts
\* The message answered names a mission (that may not exist), something else,
\* or there is none.
Replies == 1 .. MaxMissions + 1 \cup {NoReply, OffTopic}

Directions == [mode : {"quick", "light", "full"},
               action : {"answer", "create_task", "attach", "clarify", "reject"},
               approval : BOOLEAN, risk : {"low", "medium", "high"}]

NoAction == [status |-> "pending", word |-> "none", signal |-> FALSE]

Exists(m) == m \in 1 .. Len(missions)
Open == {m \in 1 .. Len(missions) : missions[m].open}
Live == {d \in 1 .. Len(drafts) : drafts[d].live}

-----------------------------------------------------------------------------
(* Reading a message: classifier, context, owner's rules, director.        *)

\* "asks" is needs_clarification, "blocked" owner_hard_block_intake.
Reading(intent, decision, conf, asks) ==
    [intent |-> intent, decision |-> decision, conf |-> conf, asks |-> asks, blocked |-> FALSE,
     project |-> Nil, related |-> Nil, seen |-> {}]

ByRules(t, target) ==
    CASE "noise" \in t.has -> Reading("noise", "reject", 95, FALSE)
      [] "noise" \notin t.has /\ target # Nil /\ "short" \notin t.has ->
            Reading("task", "attach", 78, FALSE)
      [] "noise" \notin t.has /\ (target = Nil \/ "short" \in t.has)
            /\ "question" \in t.has /\ "acts" \notin t.has -> Reading("question", "clarify", 62, TRUE)
      [] OTHER -> Reading("task", "create", IF "acts" \in t.has THEN 72 ELSE 55, FALSE)

\* The text the director reads: the model's summary may omit what the owner
\* wrote, unless the owner replied to a mission.
Told(t, target, ans) ==
    IF ans = Nil \/ (target # Nil /\ "short" \notin t.has) THEN t
    ELSE [t EXCEPT !.has = @ \ ans.omits]

\* The model's answer is taken as it is, unless the owner replied to a mission:
\* then anything but noise is added to it.
Classified(t, target, ans) ==
    IF ans = Nil THEN ByRules(t, target)
    ELSE IF target # Nil /\ "short" \notin t.has
            /\ ~(ans.decision = "reject" /\ "noise" \in t.has)
           THEN Reading("task", "attach", Max({ans.conf, 78}), FALSE)
    ELSE Reading(ans.intent, ans.decision, ans.conf, ans.asks)

\* The project of a message: the one of the mission replied to, the only one
\* it names, or the default one; none when the mission does not exist.
ProjectOf(t, target) ==
    IF target # Nil THEN (IF Exists(target) THEN missions[target].project ELSE Nil)
    ELSE IF t.names # {} THEN CHOOSE p \in t.names : TRUE
    ELSE DefaultProject

\* The missions a text may be found similar to: the open ones of its project,
\* or of any project when that one has none open.
Comparable(project) ==
    LET own == {m \in Open : missions[m].project = project}
    IN  IF own = {} THEN Open ELSE own

\* What the memory of a project may contribute: the closest of its entries.
Snippets(project) ==
    IF project = Nil \/ memory[project] = {} THEN {{}}
    ELSE {s \in SUBSET memory[project] : s # {} /\ Cardinality(s) <= 3}

\* What the context makes of a reading.  "like" is the mission the text was
\* found similar to, if any.
InContext(r, t, target, like, seen) ==
    IF r.decision = "reject" THEN r
    ELSE IF target = Nil /\ Cardinality(t.names) > 1
      THEN [r EXCEPT !.decision = "clarify", !.conf = Min({@, 55})]
    ELSE LET found == IF target # Nil /\ Exists(target) THEN target ELSE like
             joins == r.decision = "create" /\ found # Nil /\ target = Nil
             to == CASE joins -> found
                     [] ~joins /\ r.decision = "attach" -> IF target # Nil THEN target ELSE found
                     [] OTHER -> Nil
         IN  [r EXCEPT
                !.decision = IF joins THEN "attach" ELSE @,
                !.asks = @ /\ ~joins,
                !.conf = IF joins THEN Max({@, 55}) ELSE @,
                !.related = IF to # Nil THEN to ELSE found,
                !.project = IF to # Nil /\ Exists(to) THEN missions[to].project
                            ELSE ProjectOf(t, target),
                !.seen = seen]

PrefersClarify == "prefer_clarify_over_wrong_autocreate" \in Rules

\* The rule of the owner looked up before the director is asked; it changes
\* nothing when the classifier asks a question already.
ByOwnerRules(r) ==
    IF PrefersClarify /\ r.decision = "create" /\ ~r.asks /\ r.conf < 48
      THEN [r EXCEPT !.decision = "clarify", !.conf = Min({@, 55}), !.blocked = TRUE]
    ELSE r

ApprovalKeys == {"security_requires_owner_approval", "strategy_change_requires_owner",
                 "idea_scenario_change_requires_owner", "critical_execution_requires_owner",
                 "public_publish_requires_owner", "no_auto_merge"}

\* Of the rules only the one applied is among the keys the director gets.
OwnerSignal ==
    ApprovalKeys \cap (Preferences \cup (IF PrefersClarify
                                           THEN {"prefer_clarify_over_wrong_autocreate"} ELSE {})) # {}

\* The risk is read off the text together with the memory shown beside it.
RiskOf(r, t) ==
    CASE "risky" \in t.has \/ (\E e \in r.seen : e.risky) -> "high"
      [] ~("risky" \in t.has \/ \E e \in r.seen : e.risky)
           /\ (("verbs" \in t.has /\ t.length > 200) \/ (r.seen # {} /\ t.length > 3000)
               \/ t.type = "revenue") -> "medium"
      [] OTHER -> "low"

Asks(risk, approval) == [mode |-> "quick", action |-> "clarify", approval |-> approval, risk |-> risk]

Direction(r, t) ==
    LET risk == RiskOf(r, t)
        approval == OwnerSignal \/ risk = "high" \/ t.type \in {"revenue", "ops"}
        makes(mode, action) == [mode |-> mode, action |-> action,
                                approval |-> approval, risk |-> risk]
        aboutNothing == [mode |-> "quick", action |-> "answer", approval |-> FALSE, risk |-> "low"]
    IN  IF r.blocked THEN Asks(IF risk = "high" THEN "high" ELSE "medium", TRUE)
        ELSE IF r.conf < 42 /\ r.decision \in {"create", "attach"}
          THEN Asks(IF risk = "high" THEN "medium" ELSE risk, FALSE)
        ELSE CASE r.decision = "reject" -> [aboutNothing EXCEPT !.action = "reject"]
               [] r.decision = "attach" ->
                    makes(IF risk = "high" \/ t.length > 4000 THEN "full" ELSE "light", "attach")
               [] r.decision = "clarify" ->
                    IF r.intent \in {"question", "analysis"} /\ r.conf >= 48
                         /\ "question" \in t.has
                         /\ ("verbs" \notin t.has \/ "diagnostic" \in t.has)
                      THEN aboutNothing ELSE Asks(risk, FALSE)
               [] OTHER -> makes(IF t.length > 3500 \/ risk = "high" \/ OwnerSignal
                                   THEN "full" ELSE "light", "create_task")

\* The words of the next business step the director proposes.
StepWords(t) ==
    CASE "wakesafari" \in t.has \/ "strategic" \in t.has -> {"offer", "outreach"}
      [] t.has \cap {"wakesafari", "strategic"} = {} /\ t.type = "revenue" -> {"outreach"}
      [] t.has \cap {"wakesafari", "strategic"} = {} /\ t.type = "marketing" -> {"content"}
      [] OTHER -> {}

-----------------------------------------------------------------------------
Init ==
    /\ missions = <<>> /\ drafts = <<>>
    /\ memory = [p \in Projects |-> {}]
    /\ question = NoReply
    /\ asking = {} /\ confirming = {}
    /\ heard = 0
    /\ past \in Pasts

\* The text of a mission: the owner's, with the memory shown beside it.
OwnerText(text, seen) ==
    [words |-> text.words \cup UNION {e.words : e \in seen},
     risky |-> "risky" \in text.has \/ \E e \in seen : e.risky]

\* The pack made at intake, when the director proposed a step: no outcomes are
\* looked at.
IntakePack(text, review) ==
    IF review.step = Nil THEN "none" ELSE PackOf(review.step \cup text.words)

\* A mission without a project keeps none.
Mission_NoDefault(place, text, review, from) ==
    [project |-> place.project,
     words |-> OwnerText(text, place.seen).words, risky |-> OwnerText(text, place.seen).risky,
     step |-> review.step, approval |-> review.approval, pack |-> IntakePack(text, review),
     act |-> NoAction, deals |-> <<>>, open |-> TRUE, from |-> from, blocks |-> <<>>]

\* A new mission.  "step" holds the words of the director's next step.
Mission(place, text, review, from) ==
    [project |-> IF place.project = Nil THEN DefaultProject ELSE place.project,
     words |-> OwnerText(text, place.seen).words, risky |-> OwnerText(text, place.seen).risky,
     step |-> review.step, approval |-> review.approval, pack |-> IntakePack(text, review),
     act |-> NoAction, deals |-> <<>>, open |-> TRUE, from |-> from, blocks |-> <<>>]

Nowhere == [project |-> Nil, seen |-> {}]
Unreviewed == [step |-> Nil, approval |-> FALSE]

\* normalize_intake up to the director: the classifier, the context, the rules.
Normalized(t, target, like, seen, ans) ==
    ByOwnerRules(InContext(Classified(t, target, ans), t, target, like, seen))

\* put_intake_draft; "of" is the draft it was made of.
Draft(kind, text, to, place, review, context, of) ==
    [of |-> of, kind |-> kind, text |-> text, to |-> to, project |-> place.project, seen |-> place.seen,
     review |-> review, context |-> context, live |-> TRUE]

Put(d) == /\ Len(drafts) < MaxDrafts
          /\ drafts' = Append(drafts, d)

\* The context a message is read in: the one kept for the answer to a question
\* if the message itself replies to nothing.
ContextOf(reply) == IF reply = NoReply THEN question ELSE reply

TargetOf(context) == IF context \in {NoReply, OffTopic} THEN Nil ELSE context

\* _process_smart_normalize up to its first await.
Receive(t, reply, like, seen, ans) ==
    LET context == ContextOf(reply)
        target == TargetOf(context)
        told == Told(t, target, ans)
        r == Normalized(t, target, like, seen, ans)
        gm == Direction(r, told)
        place == [project |-> r.project, seen |-> r.seen]
        tid == IF target # Nil THEN target ELSE r.related
    IN  /\ heard < MaxHeard /\ heard' = heard + 1
        /\ like \in Comparable(ProjectOf(t, target)) \cup {Nil}
        /\ seen \in Snippets(ProjectOf(t, target))
        /\ question' = NoReply
        /\ UNCHANGED <<missions, memory, confirming, past>>
        /\ \/ /\ r.decision = "reject" \/ gm.action = "answer"
                 \/ (r.decision = "attach" /\ gm.action # "clarify" /\ tid = Nil)
              /\ UNCHANGED <<drafts, asking>>
           \/ /\ r.decision # "reject" /\ gm.action # "answer"
              /\ r.decision = "clarify" \/ gm.action = "clarify"
              /\ asking' = asking \cup {context}
              /\ UNCHANGED drafts
           \/ /\ r.decision = "attach" /\ gm.action # "clarify" /\ tid # Nil
              /\ Put(Draft("attach", t, tid, place, Unreviewed, context, Nil))
              /\ UNCHANGED asking
           \/ /\ r.decision = "create" /\ gm.action # "clarify"
              /\ Put(Draft("create", t, Nil, place,
                           [step |-> StepWords(told), approval |-> gm.approval], context, Nil))
              /\ UNCHANGED asking

\* The question is out: the next message is its answer.
QuestionSent(context) ==
    /\ context \in asking
    /\ asking' = asking \ {context}
    /\ question' = context
    /\ UNCHANGED <<missions, memory, drafts, confirming, heard, past>>

SendFails(context) ==
    /\ context \in asking
    /\ asking' = asking \ {context}
    /\ UNCHANGED <<missions, memory, drafts, question, confirming, heard, past>>

\* PENDING_TTL_SEC later the context is no longer used, and a draft is deleted
\* when it is looked for.
ForgetQuestion ==
    /\ question # NoReply
    /\ question' = NoReply
    /\ UNCHANGED <<missions, memory, drafts, asking, confirming, heard, past>>

Expire(d) ==
    /\ d \in Live
    /\ drafts' = [drafts EXCEPT ![d].live = FALSE]
    /\ UNCHANGED <<missions, memory, question, asking, confirming, heard, past>>

\* A message that starts with #TASK is a mission, whatever it says.
TaskCommand(t) ==
    /\ heard < MaxHeard /\ heard' = heard + 1
    /\ Len(missions) < MaxMissions
    /\ missions' = Append(missions, Mission(Nowhere, t, Unreviewed, Nil))
    /\ UNCHANGED <<memory, drafts, question, asking, confirming, past>>

-----------------------------------------------------------------------------
(* The buttons.  A press may be delivered twice, or late: it counts while  *)
(* the row of the draft is there.                                          *)

Taken(d) == [drafts EXCEPT ![d].live = FALSE]

\* The draft is read and left in its row.
PressCreate_Peeks(d) ==
    /\ d \in Live /\ drafts[d].kind = "create"
    /\ confirming' = confirming \cup {d}
    /\ UNCHANGED <<missions, memory, drafts, question, asking, heard, past>>

\* The draft is taken out of the table before the mission is made of it.
PressCreate(d) ==
    /\ d \in Live /\ drafts[d].kind = "create"
    /\ drafts' = Taken(d)
    /\ confirming' = confirming \cup {d}
    /\ UNCHANGED <<missions, memory, question, asking, heard, past>>

\* create_mission_and_run, after the callback has been answered.
MakeMission(d) ==
    /\ d \in confirming
    /\ Len(missions) < MaxMissions
    /\ confirming' = confirming \ {d}
    /\ missions' = Append(missions, Mission([project |-> drafts[d].project, seen |-> drafts[d].seen],
                                           drafts[d].text, drafts[d].review, d))
    /\ UNCHANGED <<memory, drafts, question, asking, heard, past>>

\* The answer to the callback fails: the handler ends, the draft is gone.
LoseDraft(d) ==
    /\ d \in confirming
    /\ confirming' = confirming \ {d}
    /\ UNCHANGED <<missions, memory, drafts, question, asking, heard, past>>

\* Added to the mission the draft names, if there is such a mission.
PressAttach(d) ==
    LET to == drafts[d].to
    IN  /\ d \in Live /\ drafts[d].kind = "attach"
        /\ drafts' = Taken(d)
        /\ missions' = IF ~Exists(to) THEN missions
                       ELSE [missions EXCEPT
                               ![to].words = @ \cup drafts[d].text.words,
                               ![to].risky = @ \/ "risky" \in drafts[d].text.has,
                               ![to].blocks = Append(@, d)]
        /\ UNCHANGED <<memory, question, asking, confirming, heard, past>>

\* A new mission instead: a draft that neither the owner's rules nor the
\* director have seen.
PressNew(d) ==
    /\ d \in Live /\ drafts[d].kind = "attach"
    /\ Len(drafts) < MaxDrafts
    /\ drafts' = Append(Taken(d), Draft("create", drafts[d].text, Nil, Nowhere, Unreviewed,
                                        NoReply, d))
    /\ UNCHANGED <<missions, memory, question, asking, confirming, heard, past>>

\* The owner wants to refine a draft: it stays, and its context is kept.
PressRefine(d) ==
    /\ d \in Live /\ drafts[d].kind = "create"
    /\ question' = drafts[d].context
    /\ UNCHANGED <<missions, memory, drafts, asking, confirming, heard, past>>

PressCancel(d) ==
    /\ d \in Live /\ drafts[d].kind = "create"
    /\ drafts' = Taken(d)
    /\ UNCHANGED <<missions, memory, question, asking, confirming, heard, past>>

\* The bot is restarted: what it had not written is forgotten.
Restart ==
    /\ question' = NoReply /\ asking' = {} /\ confirming' = {}
    /\ UNCHANGED <<missions, memory, drafts, heard, past>>

-----------------------------------------------------------------------------
(* The missions and what is learned of them.                               *)

Counted(m) == IF missions[m].pack = "none" THEN "generic" ELSE missions[m].pack

\* Sales of the mission, those booked while it held the pack it holds.
SalesOf(m) == {i \in 1 .. Len(missions[m].deals) : missions[m].deals[i].pack = Counted(m)}

\* Sales are counted one by one, and revenue unit by unit.
TallyOf(p) ==
    LET counted == {m \in 1 .. Len(missions) : Counted(m) = p}
        rows == {m \in counted : missions[m].pack = p}
        sold == {s \in counted \X (1 .. MaxDeals) : s[2] \in SalesOf(s[1])}
        units == {u \in sold \X (1 .. MaxAmount) :
                    u[2] <= missions[u[1][1]].deals[u[1][2]].amount}
    IN  [rows |-> past[p].rows + Cardinality(rows),
         success |-> past[p].success + Cardinality({m \in rows : IsSuccess(missions[m].act)}),
         failure |-> past[p].failure + Cardinality({m \in rows : IsFailure(missions[m].act, p)}),
         generated |-> past[p].generated + Cardinality(counted),
         completed |-> past[p].completed
                         + Cardinality({m \in counted : IsCompleted(missions[m].act)}),
         sales |-> past[p].sales + Cardinality(sold),
         revenue |-> past[p].revenue + Cardinality(units)]

Tally == [offer |-> TallyOf("offer"), outreach |-> TallyOf("outreach"),
          content |-> TallyOf("content"), landing |-> TallyOf("landing"),
          launch |-> TallyOf("launch"), generic |-> TallyOf("generic")]

\* The pack the words of a mission ask for.
Asked(m) == PackOf(missions[m].step \cup missions[m].words)

\* What the memory keeps of a mission.
Remembered(m) == [words |-> missions[m].words, risky |-> missions[m].risky]

\* A run has ended: the pack is built anew from all missions, and the mission
\* is written to the memory of its project.
RunEnds(m, tie) ==
    /\ m \in Open
    /\ missions' = IF missions[m].step = Nil THEN missions
                   ELSE [missions EXCEPT ![m].pack = LearnedPack(Tally, Asked(m), tie)]
    /\ memory' = [memory EXCEPT ![missions[m].project] = @ \cup {Remembered(m)}]
    /\ UNCHANGED <<drafts, question, asking, confirming, heard, past>>

Close(m) ==
    /\ m \in Open
    /\ missions' = [missions EXCEPT ![m].open = FALSE]
    /\ UNCHANGED <<memory, drafts, question, asking, confirming, heard, past>>

\* Buttons "yes" and "no" under the report.
Verdicts == {[status |-> "done", word |-> "worked", signal |-> TRUE],
             [status |-> "skipped", word |-> "failed", signal |-> TRUE]}

GiveFeedback(m, verdict) ==
    /\ Exists(m) /\ missions[m].pack # "none"
    /\ missions' = [missions EXCEPT ![m].act = verdict]
    /\ UNCHANGED <<memory, drafts, question, asking, confirming, heard, past>>

BookSale(m, amount) ==
    /\ Exists(m) /\ missions[m].pack # "none"
    /\ Len(missions[m].deals) < MaxDeals
    /\ missions' = [missions EXCEPT
                      ![m].deals = Append(@, [pack |-> missions[m].pack, amount |-> amount])]
    /\ UNCHANGED <<memory, drafts, question, asking, confirming, heard, past>>

Next ==
    \/ \E t \in Texts, reply \in Replies, like \in MissionIds \cup {Nil}, ans \in Answers :
         \E seen \in UNION {Snippets(p) : p \in Projects \cup {Nil}} :
            Receive(t, reply, like, seen, ans)
    \/ \E context \in asking : QuestionSent(context) \/ SendFails(context)
    \/ ForgetQuestion
    \/ \E t \in Texts : TaskCommand(t)
    \/ \E d \in Live : \/ Expire(d) \/ PressCreate(d) \/ PressAttach(d) \/ PressNew(d)
                        \/ PressRefine(d) \/ PressCancel(d)
    \/ \E d \in confirming : MakeMission(d) \/ LoseDraft(d)
    \/ Restart
    \/ \E m \in Open : Close(m) \/ \E tie \in BOOLEAN : RunEnds(m, tie)
    \/ \E m \in 1 .. Len(missions) : \/ \E v \in Verdicts : GiveFeedback(m, v)
                                     \/ \E a \in 0 .. MaxAmount : BookSale(m, a)

Spec == Init /\ [][Next]_vars

-----------------------------------------------------------------------------
(* Properties.                                                             *)

\* Types: a draft names the draft it came of, and a mission the draft it was
\* made of, only of those put before.
TypeOK ==
    /\ Len(missions) <= MaxMissions
    /\ \A m \in 1 .. Len(missions) :
         /\ missions[m].project \in Projects
         /\ missions[m].pack \in Pack \cup {"none"}
         /\ missions[m].words \subseteq PackWords
         /\ missions[m].from \in 1 .. Len(drafts) \cup {Nil}
         /\ missions[m].act \in Actions
    /\ Len(drafts) <= MaxDrafts
    /\ \A d \in 1 .. Len(drafts) : drafts[d].of \in 1 .. (d - 1) \cup {Nil}
    /\ question \in Replies /\ asking \subseteq Replies
    /\ confirming \subseteq 1 .. Len(drafts)
    /\ \A p \in Projects : \A e \in memory[p] : e.words \subseteq PackWords

\* What was made of a draft: missions, additions to missions, other drafts.
UsesOf(d) ==
    {<<"mission", m, 0>> : m \in {m \in 1 .. Len(missions) : missions[m].from = d}}
    \cup (UNION {{<<"block", m, i>> : i \in {i \in 1 .. Len(missions[m].blocks) :
                                              missions[m].blocks[i] = d}} :
                m \in 1 .. Len(missions)})
    \cup {<<"draft", e, 0>> : e \in {e \in 1 .. Len(drafts) : drafts[e].of = d}}
    \cup (IF d \in confirming THEN {<<"pending", d, 0>>} ELSE {})

\* However often its buttons are pressed, and whatever fails in between, one
\* draft becomes at most one mission, one addition or one other draft; while
\* its row is there nothing has been made of it.  (pop_intake_draft runs
\* before the first await of the handler.)
DraftUsedOnce ==
    \A d \in 1 .. Len(drafts) :
        /\ drafts[d].live => UsesOf(d) = {}
        /\ \A u, v \in UsesOf(d) : u = v

\* The pack of a mission stays, is the one its words ask for, or is better.
MovesWell(m) ==
    LET pack == missions'[m].pack
        asked == PackOf(missions[m].step \cup missions[m].words)
    IN  \/ pack = missions[m].pack
        \/ pack = asked
        \/ /\ pack = "generic"
           /\ Tally[asked].rows >= 3
           /\ 200 * Tally[asked].failure >= 99 * Tally[asked].rows
        \/ Tally[pack].sales > 0

\* A run moves a mission away from the pack its words ask for only to the
\* generic one, when at least half, rounded to a hundredth, of three or more
\* missions with that pack failed, or to a pack that has sold.  (The weights of
\* the priority and the thresholds of the override make it so: no single line
\* says it.)
MovedPackHasSold == [][\A m \in 1 .. Len(missions) : MovesWell(m)]_vars

=============================================================================
