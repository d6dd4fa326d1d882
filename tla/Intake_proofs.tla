------------------------------ MODULE Intake_proofs ------------------------------
(***************************************************************************)
(* Proofs about Intake, for any texts, answers of the classifier, projects *)
(* and histories, and any number of messages, drafts, missions and sales.  *)
(*                                                                         *)
(* TypeInv types the rows of the missions and drafts and the memory, and   *)
(* says that every draft named anywhere has been put.  It makes the        *)
(* tallies books that add up (TallyType), on which what a run chooses is a *)
(* pack (BestType) and, if not the one asked for, one that has sold or the *)
(* generic one (Learned: from what the rates can be, Rates, and what the   *)
(* priority is without a sale, Priorities).  DraftUsedOnce is inductive    *)
(* with TypeInv: a step adds at most one use to one draft, that it takes   *)
(* or that was being confirmed (UsesGrow), and a draft that was not put    *)
(* has none (Unput).                                                       *)
(***************************************************************************)
EXTENDS Intake, FiniteSetTheorems, SequenceTheorems, TLAPS

-----------------------------------------------------------------------------
(* Packs.                                                                  *)

LEMMA PackIs == Pack = {"offer", "outreach", "content", "landing", "launch", "generic"}
BY DEF Pack, Place

LEMMA Places == \A p \in Pack : Place[p] \in 1 .. 6
BY DEF Pack, Place

\* A text always asks for a pack.
LEMMA PackOfType ==
  ASSUME NEW words \in SUBSET Pack
  PROVE  PackOf(words) \in Pack
<1> DEFINE some == words \cup {"generic"}
<1>1. \E p \in some : \A q \in some : Place[p] <= Place[q]
  <2>1. "generic" \in some
    OBVIOUS
  <2> HIDE DEF some
  <2>2. CASE "offer" \in some
    BY <2>2, Places, PackIs DEF Place, some
  <2> QED
    BY <2>1, <2>2, PackIs DEF Place, some
<1> QED
  BY <1>1, PackIs DEF PackOf

\* Division, as far as it is needed.
LEMMA Division ==
  ASSUME NEW a \in Nat, NEW b \in Nat, b # 0
  PROVE  /\ a \div b \in Nat /\ a % b \in 0 .. (b - 1)
         /\ a = b * (a \div b) + (a % b)
OBVIOUS

\* A rate is a number of hundredths: zero of nothing, at most all of it; it
\* reaches a half only from 49.5 hundredths on.
LEMMA Rates ==
  ASSUME NEW part \in Nat, NEW whole \in Nat
  PROVE  /\ Hundredths(part, whole) \in Nat
         /\ part = 0 => Hundredths(part, whole) = 0
         /\ part <= whole => Hundredths(part, whole) <= 100
         /\ whole # 0 /\ Hundredths(part, whole) >= 50 => 200 * part >= 99 * whole
<1>1. CASE whole = 0
  BY <1>1 DEF Hundredths
<1>2. CASE whole # 0
  <2> DEFINE q == (100 * part) \div whole
             r == (100 * part) % whole
  <2>1. /\ q \in Nat /\ r \in 0 .. (whole - 1)
        /\ 100 * part = whole * q + r
    <3> DEFINE a == 100 * part
    <3>1. a \in Nat
      OBVIOUS
    <3> HIDE DEF a
    <3>2. a \div whole \in Nat /\ a % whole \in 0 .. (whole - 1)
          /\ a = whole * (a \div whole) + (a % whole)
      BY <1>2, <3>1, Division
    <3> QED
      BY <3>2 DEF a
  <2>2. Hundredths(part, whole) = IF 2 * r > whole \/ (2 * r = whole /\ q % 2 = 1) THEN q + 1 ELSE q
    BY <1>2 DEF Hundredths, Rounded
  <2> HIDE DEF q, r
  <2>3. Hundredths(part, whole) \in {q, q + 1}
        /\ (Hundredths(part, whole) = q + 1 => 2 * r >= whole)
    BY <1>2, <2>1, <2>2
  <2>4. part = 0 => q = 0 /\ r = 0
    BY <1>2, <2>1
  <2>5. part <= whole => q < 100 \/ (q = 100 /\ r = 0)
    BY <1>2, <2>1
  <2>6. q >= 50 => whole * q >= 50 * whole
    BY <1>2, <2>1
  <2>7. q = 49 => whole * q = 49 * whole
    OBVIOUS
  <2>8. CASE q >= 50
    BY <1>2, <2>1, <2>3, <2>4, <2>5, <2>6, <2>8
  <2>9. CASE q = 49
    BY <1>2, <2>1, <2>3, <2>4, <2>5, <2>7, <2>9
  <2>10. CASE q < 49
    BY <1>2, <2>1, <2>3, <2>4, <2>5, <2>10
  <2> QED
    BY <2>1, <2>8, <2>9, <2>10
<1> QED
  BY <1>1, <1>2

\* What a whole tally looks like.
Books == [Pack -> SoundTallies]

LEMMA TotalType ==
  ASSUME NEW tally \in Books
  PROVE  TotalRevenue(tally) \in Nat
<1>1. \A p \in Pack : tally[p] \in Tallies
  BY DEF Books, SoundTallies
<1>2. \A p \in Pack : tally[p].revenue \in Nat
  BY <1>1 DEF Tallies
<1> QED
  BY <1>2, PackIs DEF TotalRevenue

\* Without a sale a pack has at most the fifth that its completed missions give.
LEMMA Priorities ==
  ASSUME NEW tally \in Books, NEW p \in Pack
  PROVE  /\ Priority(tally, p) \in Nat
         /\ tally[p].sales = 0 => Priority(tally, p) <= 200
<1> DEFINE n == AtLeastOne(tally[p].generated)
           S == Hundredths(tally[p].sales, n)
           R == Hundredths(tally[p].revenue, TotalRevenue(tally))
           C == Hundredths(tally[p].completed, n)
<1>1. /\ tally[p].sales \in Nat /\ tally[p].revenue \in Nat /\ tally[p].completed \in Nat
      /\ tally[p].generated \in Nat /\ tally[p].completed <= tally[p].generated
      /\ tally[p].sales = 0 => tally[p].revenue = 0
  BY DEF Books, SoundTallies, Tallies
<1>2. n \in Nat /\ tally[p].completed <= n
  BY <1>1 DEF AtLeastOne
<1> HIDE DEF n
<1>3. S \in Nat /\ (tally[p].sales = 0 => S = 0)
  BY <1>1, <1>2, Rates
<1>4. R \in Nat /\ (tally[p].revenue = 0 => R = 0)
  BY <1>1, TotalType, Rates
<1>5. C \in Nat /\ C <= 100
  BY <1>1, <1>2, Rates
<1>6. Priority(tally, p) = 5 * S + 3 * R + 2 * C
  BY DEF Priority, n
<1> HIDE DEF S, R, C
<1> QED
  BY <1>1, <1>3, <1>4, <1>5, <1>6

\* There is a best pack.
LEMMA BestType ==
  ASSUME NEW tally \in Books
  PROVE  Best(tally) \in Pack
<1> DEFINE val(p) == Priority(tally, p)
           leads(p) == \A q \in Pack : \/ val(p) > val(q)
                                       \/ /\ val(p) = val(q)
                                          /\ Place[p] <= Place[q]
<1>1. \A p \in Pack : val(p) \in Nat
  BY Priorities
<1>2. \E p \in Pack : leads(p)
  <2> HIDE DEF val
  <2>1. PICK p \in Pack : \A q \in Pack : val(p) >= val(q)
    BY <1>1, PackIs
  <2> DEFINE top == {q \in Pack : val(q) = val(p)}
  <2>2. PICK q \in top : \A r \in top : Place[q] <= Place[r]
    <3>1. p \in top /\ top \subseteq Pack
      OBVIOUS
    <3> HIDE DEF top
    <3> QED
      BY <3>1, PackIs DEF Place
  <2>3. leads(q)
    <3> SUFFICES ASSUME NEW r \in Pack
                 PROVE  val(q) > val(r) \/ (val(q) = val(r) /\ Place[q] <= Place[r])
      OBVIOUS
    <3> QED
      BY <1>1, <2>1, <2>2
  <2> QED
    BY <2>2, <2>3
<1>3. Best(tally) = CHOOSE p \in Pack : leads(p)
  BY DEF Best
<1> HIDE DEF leads
<1> QED
  BY <1>2, <1>3

\* A run gives a mission the pack its words ask for; the generic one when that
\* pack failed; or one that has sold.
LEMMA Learned ==
  ASSUME NEW tally \in Books, NEW base \in Pack, NEW tie \in BOOLEAN
  PROVE  LET pack == LearnedPack(tally, base, tie)
         IN  /\ pack \in Pack
             /\ \/ pack = base
                \/ /\ pack = "generic" /\ tally[base].rows >= 3
                   /\ 200 * tally[base].failure >= 99 * tally[base].rows
                \/ tally[pack].sales > 0
<1>0. tally[base].rows \in Nat /\ tally[base].failure \in Nat
  BY DEF Books, SoundTallies, Tallies
<1>1. CASE Mode(tally[base]) = "clarify"
  <2>1. tally[base].rows >= 3 /\ Hundredths(tally[base].failure, tally[base].rows) >= 50
    BY <1>1 DEF Mode
  <2>2. 200 * tally[base].failure >= 99 * tally[base].rows
    <3> DEFINE f == tally[base].failure
               r == tally[base].rows
    <3>1. f \in Nat /\ r \in Nat /\ r # 0 /\ Hundredths(f, r) >= 50
      BY <1>0, <2>1
    <3> HIDE DEF f, r
    <3>2. 200 * f >= 99 * r
      BY <3>1, Rates
    <3> QED
      BY <3>2 DEF f, r
  <2> QED
    BY <1>1, <2>1, <2>2, PackIs DEF LearnedPack
<1>2. CASE Mode(tally[base]) # "clarify"
  <2> DEFINE best == Best(tally)
  <2>1. best \in Pack /\ tally[best].sales \in Nat
    BY BestType DEF Books, SoundTallies, Tallies
  <2>2. OverrideAllowed(tally, base, best, tie) => Priority(tally, best) >= 350
    BY DEF OverrideAllowed
  <2> HIDE DEF best
  <2>3. OverrideAllowed(tally, base, best, tie) => tally[best].sales > 0
    BY <2>1, <2>2, Priorities
  <2>4. LearnedPack(tally, base, tie) =
          IF best # base /\ OverrideAllowed(tally, base, best, tie) THEN best ELSE base
    BY <1>2 DEF LearnedPack, best
  <2> QED
    BY <2>1, <2>3, <2>4
<1> QED
  BY <1>1, <1>2

-----------------------------------------------------------------------------
(* Types.                                                                  *)

Memo   == [words : SUBSET PackWords, risky : BOOLEAN]
Review == [step : (SUBSET Pack) \cup {Nil}, approval : BOOLEAN]
Deal   == [pack : Pack, amount : 0 .. MaxAmount]

MissionRow == [project : Projects, words : SUBSET PackWords, risky : BOOLEAN,
               step : (SUBSET Pack) \cup {Nil}, approval : BOOLEAN, pack : Pack \cup {"none"},
               act : Actions, deals : Seq(Deal), open : BOOLEAN,
               from : Nat \cup {Nil}, blocks : Seq(Nat)]

DraftRow == [of : Nat \cup {Nil}, kind : {"create", "attach"}, text : Texts,
             to : Nat \cup {Nil}, project : Projects \cup {Nil}, seen : SUBSET Memo,
             review : Review, context : Replies, live : BOOLEAN]

\* Every draft a mission names has been put.
NamesPut(row) ==
  /\ row.from \in 1 .. Len(drafts) \cup {Nil}
  /\ \A i \in 1 .. Len(row.blocks) : row.blocks[i] \in 1 .. Len(drafts)

MissionsOK ==
  /\ missions \in Seq(MissionRow) /\ Len(missions) <= MaxMissions
  /\ \A m \in 1 .. Len(missions) : NamesPut(missions[m])

\* A draft made of another one was put after it.
DraftsOK ==
  /\ drafts \in Seq(DraftRow) /\ Len(drafts) <= MaxDrafts
  /\ \A d \in 1 .. Len(drafts) : drafts[d].of \in 1 .. (d - 1) \cup {Nil}

RestOK ==
  /\ memory \in [Projects -> SUBSET Memo]
  /\ question \in Replies /\ asking \subseteq Replies
  /\ confirming \subseteq 1 .. Len(drafts)
  /\ heard \in Nat /\ past \in Books

TypeInv == MissionsOK /\ DraftsOK /\ RestOK

\* The rows of a sequence.
LEMMA Rows ==
  ASSUME TypeInv
  PROVE  /\ Len(missions) \in Nat /\ Len(drafts) \in Nat
         /\ \A m \in 1 .. Len(missions) : missions[m] \in MissionRow
         /\ \A d \in 1 .. Len(drafts) : drafts[d] \in DraftRow
BY DEF TypeInv, MissionsOK, DraftsOK

LEMMA TypesShown ==
  ASSUME TypeInv
  PROVE  TypeOK
<1>1. ASSUME NEW m \in 1 .. Len(missions)
      PROVE  /\ missions[m].project \in Projects
             /\ missions[m].pack \in Pack \cup {"none"}
             /\ missions[m].words \subseteq PackWords
             /\ missions[m].act \in Actions
  BY Rows DEF MissionRow
<1>2. ASSUME NEW p \in Projects, NEW e \in memory[p] PROVE e.words \subseteq PackWords
  <2>1. e \in Memo
    BY <1>2 DEF TypeInv, RestOK
  <2> QED
    BY <2>1 DEF Memo
<1> QED
  BY <1>1, <1>2 DEF TypeInv, MissionsOK, NamesPut, DraftsOK, RestOK, TypeOK

LEMMA FiniteSubsets ==
  ASSUME NEW S, IsFiniteSet(S), NEW T \in SUBSET S
  PROVE  /\ IsFiniteSet(T) /\ Cardinality(T) \in Nat /\ Cardinality(T) <= Cardinality(S)
BY FS_Subset, FS_CardinalityType

\* The tallies of the missions are books that add up.
LEMMA TallyType ==
  ASSUME TypeInv
  PROVE  Tally \in Books
<1>1. ASSUME NEW p \in Pack PROVE TallyOf(p) \in SoundTallies
  <2> DEFINE all == 1 .. Len(missions)
             counted == {m \in all : Counted(m) = p}
             rows == {m \in counted : missions[m].pack = p}
             sold == {s \in counted \X (1 .. MaxDeals) : s[2] \in SalesOf(s[1])}
             units == {u \in sold \X (1 .. MaxAmount) :
                         u[2] <= missions[u[1][1]].deals[u[1][2]].amount}
             success == {m \in rows : IsSuccess(missions[m].act)}
             failure == {m \in rows : IsFailure(missions[m].act, p)}
             completed == {m \in counted : IsCompleted(missions[m].act)}
  <2>1. past[p] \in SoundTallies
    BY DEF TypeInv, RestOK, Books
  <2>2. IsFiniteSet(all) /\ IsFiniteSet(1 .. MaxDeals) /\ IsFiniteSet(1 .. MaxAmount)
    <3>1. \A n \in Nat : IsFiniteSet(1 .. n)
      BY FS_Interval
    <3> QED
      BY <3>1, Rows, BoundsAssumption
  <2>3. /\ counted \in SUBSET all /\ rows \in SUBSET all /\ success \in SUBSET all
        /\ failure \in SUBSET all /\ completed \in SUBSET counted
    OBVIOUS
  <2>4. sold \in SUBSET (counted \X (1 .. MaxDeals)) /\ units \in SUBSET (sold \X (1 .. MaxAmount))
    OBVIOUS
  <2>5. sold = {} => units = {}
    OBVIOUS
  <2>6. TallyOf(p) = [rows |-> past[p].rows + Cardinality(rows),
                      success |-> past[p].success + Cardinality(success),
                      failure |-> past[p].failure + Cardinality(failure),
                      generated |-> past[p].generated + Cardinality(counted),
                      completed |-> past[p].completed + Cardinality(completed),
                      sales |-> past[p].sales + Cardinality(sold),
                      revenue |-> past[p].revenue + Cardinality(units)]
    BY DEF TallyOf
  <2> HIDE DEF all, counted, rows, sold, units, success, failure, completed
  <2>7. /\ Cardinality(rows) \in Nat /\ Cardinality(success) \in Nat /\ Cardinality(failure) \in Nat
        /\ IsFiniteSet(counted) /\ Cardinality(counted) \in Nat
    BY <2>2, <2>3, FiniteSubsets
  <2>8. Cardinality(completed) \in Nat /\ Cardinality(completed) <= Cardinality(counted)
    BY <2>3, <2>7, FiniteSubsets
  <2>9. IsFiniteSet(sold) /\ Cardinality(sold) \in Nat
    BY <2>2, <2>4, <2>7, FS_Product, FiniteSubsets
  <2>10. IsFiniteSet(units) /\ Cardinality(units) \in Nat
    BY <2>2, <2>4, <2>9, FS_Product, FiniteSubsets
  <2>11. Cardinality(sold) = 0 => Cardinality(units) = 0
    BY <2>5, <2>9, FS_EmptySet
  <2> QED
    BY <2>1, <2>6, <2>7, <2>8, <2>9, <2>10, <2>11 DEF SoundTallies, Tallies
<1> QED
  BY <1>1, PackIs DEF Tally, Books

-----------------------------------------------------------------------------
(* Reading a message.                                                      *)

Intents   == {"task", "question", "analysis", "clarify", "noise"}
Decisions == {"create", "clarify", "attach", "reject"}
Readings  == [intent : Intents, decision : Decisions, conf : Int, asks : BOOLEAN,
              blocked : BOOLEAN, project : Projects \cup {Nil}, related : Nat \cup {Nil},
              seen : SUBSET Memo]

LEMMA MinMax ==
  ASSUME NEW a \in Int, NEW b \in Int
  PROVE  Max({a, b}) \in Int /\ Min({a, b}) \in Int
<1>1. \E x \in {a, b} : \A y \in {a, b} : x >= y
  OBVIOUS
<1>2. \E x \in {a, b} : \A y \in {a, b} : x =< y
  OBVIOUS
<1>3. Max({a, b}) \in {a, b}
  BY <1>1 DEF Max
<1>4. Min({a, b}) \in {a, b}
  BY <1>2 DEF Min
<1> QED
  BY <1>3, <1>4

LEMMA ReadingType ==
  ASSUME NEW i \in Intents, NEW d \in Decisions, NEW c \in Int, NEW a \in BOOLEAN
  PROVE  Reading(i, d, c, a) \in Readings
BY DEF Reading, Readings

LEMMA ClassifiedType ==
  ASSUME NEW t \in Texts, NEW target, NEW ans \in Answers
  PROVE  Classified(t, target, ans) \in Readings
<1>1. ByRules(t, target) \in Readings
  <2> DEFINE noise == "noise" \in t.has
             short == "short" \in t.has
             asks == "question" \in t.has /\ "acts" \notin t.has
             conf == IF "acts" \in t.has THEN 72 ELSE 55
  <2>1. ByRules(t, target) \in {Reading("noise", "reject", 95, FALSE), Reading("task", "attach", 78, FALSE),
                                Reading("question", "clarify", 62, TRUE),
                                Reading("task", "create", conf, FALSE)}
    BY DEF ByRules
  <2>2. conf \in Int
    OBVIOUS
  <2> HIDE DEF conf
  <2>3. /\ Reading("noise", "reject", 95, FALSE) \in Readings
        /\ Reading("task", "attach", 78, FALSE) \in Readings
        /\ Reading("question", "clarify", 62, TRUE) \in Readings
    <3>1. /\ "noise" \in Intents /\ "task" \in Intents /\ "question" \in Intents
          /\ "reject" \in Decisions /\ "attach" \in Decisions /\ "clarify" \in Decisions
          /\ 95 \in Int /\ 78 \in Int /\ 62 \in Int /\ TRUE \in BOOLEAN /\ FALSE \in BOOLEAN
      BY DEF Intents, Decisions
    <3> QED
      BY <3>1, ReadingType
  <2>4. Reading("task", "create", conf, FALSE) \in Readings
    BY <2>2, ReadingType DEF Intents, Decisions
  <2> QED
    BY <2>1, <2>3, <2>4
<1>2. CASE ans = Nil
  BY <1>1, <1>2 DEF Classified
<1>3. CASE ans # Nil
  <2>1. /\ ans.intent \in Intents /\ ans.decision \in Decisions
        /\ ans.conf \in Int /\ ans.asks \in BOOLEAN
    BY <1>3, IntakeAssumption DEF Intents, Decisions
  <2>2. Classified(t, target, ans) \in {Reading("task", "attach", Max({ans.conf, 78}), FALSE),
                                        Reading(ans.intent, ans.decision, ans.conf, ans.asks)}
    BY <1>3 DEF Classified
  <2>3. Max({ans.conf, 78}) \in Int
    BY <2>1, MinMax
  <2>4. Reading("task", "attach", Max({ans.conf, 78}), FALSE) \in Readings
    BY <2>3, ReadingType DEF Intents, Decisions
  <2>5. Reading(ans.intent, ans.decision, ans.conf, ans.asks) \in Readings
    BY <2>1, ReadingType
  <2> QED
    BY <2>2, <2>4, <2>5
<1> QED
  BY <1>2, <1>3

LEMMA ProjectType ==
  ASSUME TypeInv, NEW t \in Texts, NEW target
  PROVE  ProjectOf(t, target) \in Projects \cup {Nil}
<1>1. ASSUME Exists(target) PROVE missions[target].project \in Projects
  BY <1>1, Rows DEF Exists, MissionRow
<1>2. t.names \in SUBSET Projects
  BY TextsAssumption
<1>3. t.names # {} => (CHOOSE p \in t.names : TRUE) \in Projects
  BY <1>2
<1>4. DefaultProject \in Projects
  BY IntakeAssumption
<1> QED
  BY <1>1, <1>3, <1>4 DEF ProjectOf

LEMMA InContextType ==
  ASSUME TypeInv, NEW r \in Readings, NEW t \in Texts, NEW target \in Nat \cup {Nil},
         NEW like \in Nat \cup {Nil}, NEW seen \in SUBSET Memo
  PROVE  InContext(r, t, target, like, seen) \in Readings
<1> DEFINE found == IF target # Nil /\ Exists(target) THEN target ELSE like
           joins == r.decision = "create" /\ found # Nil /\ target = Nil
           to == CASE joins -> found
                   [] ~joins /\ r.decision = "attach" -> IF target # Nil THEN target ELSE found
                   [] OTHER -> Nil
           project == IF to # Nil /\ Exists(to) THEN missions[to].project ELSE ProjectOf(t, target)
           conf == IF joins THEN Max({r.conf, 55}) ELSE r.conf
<1>1. CASE r.decision = "reject"
  BY <1>1 DEF InContext
<1>2. CASE r.decision # "reject" /\ target = Nil /\ Cardinality(t.names) > 1
  <2>1. Min({r.conf, 55}) \in Int
    <3>1. PICK c \in Int : c = r.conf
      BY DEF Readings
    <3>2. Min({c, 55}) \in Int
      BY MinMax
    <3> QED
      BY <3>1, <3>2
  <2>2. InContext(r, t, target, like, seen) = [r EXCEPT !.decision = "clarify", !.conf = Min({r.conf, 55})]
    BY <1>2 DEF InContext
  <2> QED
    BY <2>1, <2>2 DEF Readings, Decisions
<1>3. CASE r.decision # "reject" /\ ~(target = Nil /\ Cardinality(t.names) > 1)
  <2>1. InContext(r, t, target, like, seen) =
          [r EXCEPT !.decision = IF joins THEN "attach" ELSE r.decision,
                    !.asks = r.asks /\ ~joins,
                    !.conf = conf,
                    !.related = IF to # Nil THEN to ELSE found,
                    !.project = project,
                    !.seen = seen]
    BY <1>3 DEF InContext
  <2>2. found \in Nat \cup {Nil}
    OBVIOUS
  <2>3. to \in Nat \cup {Nil}
    <3> HIDE DEF found, joins
    <3> QED
      BY <2>2
  <2>4. project \in Projects \cup {Nil}
    <3>1. Exists(to) => missions[to].project \in Projects
      BY Rows DEF Exists, MissionRow
    <3> HIDE DEF to
    <3> QED
      BY <3>1, ProjectType
  <2>5. conf \in Int
    <3>1. r.conf \in Int
      BY DEF Readings
    <3>2. Max({r.conf, 55}) \in Int
      BY <3>1, MinMax
    <3> HIDE DEF joins
    <3> QED
      BY <3>1, <3>2
  <2>6. joins \in BOOLEAN
    OBVIOUS
  <2> HIDE DEF found, joins, to, project, conf
  <2>7. /\ (IF joins THEN "attach" ELSE r.decision) \in Decisions /\ (r.asks /\ ~joins) \in BOOLEAN
        /\ (IF to # Nil THEN to ELSE found) \in Nat \cup {Nil}
    BY <2>2, <2>3, <2>6 DEF Readings, Decisions
  <2> QED
    BY <2>1, <2>4, <2>5, <2>7 DEF Readings
<1> QED
  BY <1>1, <1>2, <1>3

LEMMA NormalizedType ==
  ASSUME TypeInv, NEW t \in Texts, NEW target \in Nat \cup {Nil}, NEW like \in Nat \cup {Nil},
         NEW seen \in SUBSET Memo, NEW ans \in Answers
  PROVE  Normalized(t, target, like, seen, ans) \in Readings
<1>1. PICK r \in Readings : r = InContext(Classified(t, target, ans), t, target, like, seen)
  BY ClassifiedType, InContextType
<1>2. Normalized(t, target, like, seen, ans) = ByOwnerRules(r)
  BY <1>1 DEF Normalized
<1>3. Min({r.conf, 55}) \in Int
  <2>1. PICK c \in Int : c = r.conf
    BY DEF Readings
  <2>2. Min({c, 55}) \in Int
    <3>1. c \in Int /\ 55 \in Int
      OBVIOUS
    <3> QED
      BY ONLY <3>1, MinMax
  <2> QED
    BY <2>1, <2>2
<1>4. ByOwnerRules(r) \in {r, [r EXCEPT !.decision = "clarify", !.conf = Min({r.conf, 55}),
                                        !.blocked = TRUE]}
  BY DEF ByOwnerRules
<1>5. [r EXCEPT !.decision = "clarify", !.conf = Min({r.conf, 55}), !.blocked = TRUE] \in Readings
  BY <1>3 DEF Readings, Decisions
<1> QED
  BY <1>2, <1>4, <1>5

\* The director always comes to one of its decisions.
LEMMA DirectionType ==
  ASSUME NEW r \in Readings, NEW t
  PROVE  Direction(r, t) \in Directions
<1> DEFINE risk == RiskOf(r, t)
           approval == OwnerSignal \/ risk = "high" \/ t.type \in {"revenue", "ops"}
<1>1. risk \in {"low", "medium", "high"}
  BY DEF RiskOf
<1>2. approval \in BOOLEAN
  OBVIOUS
<1>3. ASSUME NEW k \in {"low", "medium", "high"}, NEW a \in BOOLEAN,
             NEW mode \in {"quick", "light", "full"},
             NEW act \in {"answer", "create_task", "attach", "clarify", "reject"}
      PROVE  [mode |-> mode, action |-> act, approval |-> a, risk |-> k] \in Directions
  BY <1>3 DEF Directions
<1>4. ASSUME NEW k \in {"low", "medium", "high"}, NEW a \in BOOLEAN PROVE Asks(k, a) \in Directions
  BY <1>3, <1>4 DEF Asks
<1>5. ASSUME NEW n \in Directions PROVE [n EXCEPT !.action = "reject"] \in Directions
  BY <1>5 DEF Directions
<1> HIDE DEF risk, approval
<1>6. CASE r.blocked
  <2>1. Direction(r, t) = Asks(IF risk = "high" THEN "high" ELSE "medium", TRUE)
    BY <1>6 DEF Direction, risk
  <2> QED
    BY <2>1, <1>4
<1>7. CASE ~r.blocked /\ r.conf < 42 /\ r.decision \in {"create", "attach"}
  <2>1. Direction(r, t) = Asks(IF risk = "high" THEN "medium" ELSE risk, FALSE)
    BY <1>7 DEF Direction, risk
  <2> QED
    BY <2>1, <1>1, <1>4
<1>8. CASE ~r.blocked /\ ~(r.conf < 42 /\ r.decision \in {"create", "attach"})
  <2> DEFINE makes(mode, act) == [mode |-> mode, action |-> act, approval |-> approval, risk |-> risk]
             nothing == [mode |-> "quick", action |-> "answer", approval |-> FALSE, risk |-> "low"]
  <2>0. /\ nothing \in Directions /\ Asks(risk, FALSE) \in Directions
        /\ [nothing EXCEPT !.action = "reject"] \in Directions
    <3>1. nothing \in Directions
      BY <1>3
    <3> HIDE DEF nothing
    <3> QED
      BY <1>1, <1>4, <1>5, <3>1
  <2>1. CASE r.decision = "reject"
    <3>1. Direction(r, t) = [nothing EXCEPT !.action = "reject"]
      BY <1>8, <2>1 DEF Direction
    <3> QED
      BY <2>0, <3>1
  <2>2. CASE r.decision = "attach"
    <3>1. Direction(r, t) = makes(IF risk = "high" \/ t.length > 4000 THEN "full" ELSE "light", "attach")
      BY <1>8, <2>2 DEF Direction, risk, approval
    <3>2. ASSUME NEW mode \in {"quick", "light", "full"} PROVE makes(mode, "attach") \in Directions
      BY <1>1, <1>2, <1>3
    <3> HIDE DEF makes
    <3> QED
      BY <1>1, <1>2, <1>3, <3>1, <3>2
  <2>3. CASE r.decision = "clarify"
    <3>1. Direction(r, t) = nothing \/ Direction(r, t) = Asks(risk, FALSE)
      BY <1>8, <2>3 DEF Direction, risk
    <3> QED
      BY <2>0, <3>1
  <2>4. CASE r.decision = "create"
    <3>1. Direction(r, t) = makes(IF t.length > 3500 \/ risk = "high" \/ OwnerSignal
                                  THEN "full" ELSE "light", "create_task")
      BY <1>8, <2>4 DEF Direction, risk, approval
    <3>2. ASSUME NEW mode \in {"quick", "light", "full"} PROVE makes(mode, "create_task") \in Directions
      BY <1>1, <1>2, <1>3
    <3> HIDE DEF makes
    <3> QED
      BY <1>1, <1>2, <1>3, <3>1, <3>2
  <2> QED
    BY <2>1, <2>2, <2>3, <2>4 DEF Readings, Decisions
<1> QED
  BY <1>6, <1>7, <1>8

-----------------------------------------------------------------------------
(* Types: the steps.                                                       *)

LEMMA InitTypes == Init => TypeInv
<1> SUFFICES ASSUME Init PROVE TypeInv
  OBVIOUS
<1>1. past \in Books
  BY IntakeAssumption DEF Init, Books
<1>2. missions = <<>> /\ drafts = <<>> /\ Len(<<>>) = 0
  BY DEF Init
<1> QED
  BY <1>1, <1>2, BoundsAssumption
  DEF Init, TypeInv, MissionsOK, DraftsOK, RestOK, Replies

\* What a mission names stays put.
LEMMA MissionsKept ==
  ASSUME TypeInv, UNCHANGED missions, Len(drafts') \in Nat, Len(drafts') >= Len(drafts)
  PROVE  MissionsOK'
BY Rows DEF TypeInv, MissionsOK, NamesPut

LEMMA MissionAdded ==
  ASSUME TypeInv, NEW row \in MissionRow, NamesPut(row), Len(missions) < MaxMissions,
         missions' = Append(missions, row), UNCHANGED drafts
  PROVE  MissionsOK'
<1>1. /\ missions' \in Seq(MissionRow) /\ Len(missions') = Len(missions) + 1
      /\ missions'[Len(missions) + 1] = row
      /\ \A m \in 1 .. Len(missions) : missions'[m] = missions[m]
  BY AppendProperties DEF TypeInv, MissionsOK
<1>2. \A m \in 1 .. Len(missions') : m \in 1 .. Len(missions) \/ m = Len(missions) + 1
  BY <1>1, Rows
<1> QED
  BY <1>1, <1>2, Rows, BoundsAssumption DEF TypeInv, MissionsOK, NamesPut

LEMMA MissionChanged ==
  ASSUME TypeInv, NEW m \in 1 .. Len(missions), NEW row \in MissionRow, NamesPut(row),
         missions' = [missions EXCEPT ![m] = row],
         Len(drafts') = Len(drafts)
  PROVE  MissionsOK'
<1>1. /\ missions' \in Seq(MissionRow) /\ Len(missions') = Len(missions)
      /\ missions'[m] = row
      /\ \A k \in 1 .. Len(missions) : k # m => missions'[k] = missions[k]
  BY DEF TypeInv, MissionsOK
<1> QED
  BY <1>1 DEF TypeInv, MissionsOK, NamesPut

LEMMA DraftTaken ==
  ASSUME TypeInv, NEW d \in 1 .. Len(drafts)
  PROVE  /\ Taken(d) \in Seq(DraftRow) /\ Len(Taken(d)) = Len(drafts)
         /\ \A e \in 1 .. Len(drafts) : Taken(d)[e].of = drafts[e].of
         /\ \A e \in 1 .. Len(drafts) : e # d => Taken(d)[e] = drafts[e]
         /\ ~Taken(d)[d].live
<1>1. drafts[d] \in DraftRow
  BY Rows
<1>2. [drafts[d] EXCEPT !.live = FALSE] \in DraftRow
      /\ [drafts[d] EXCEPT !.live = FALSE].of = drafts[d].of
      /\ ~[drafts[d] EXCEPT !.live = FALSE].live
  BY <1>1 DEF DraftRow
<1>3. Taken(d) = [drafts EXCEPT ![d] = [drafts[d] EXCEPT !.live = FALSE]]
  BY DEF Taken
<1> QED
  BY <1>2, <1>3 DEF TypeInv, DraftsOK

LEMMA DraftAdded ==
  ASSUME NEW old \in Seq(DraftRow), NEW row \in DraftRow, Len(old) < MaxDrafts,
         \A e \in 1 .. Len(old) : old[e].of \in 1 .. (e - 1) \cup {Nil},
         row.of \in 1 .. Len(old) \cup {Nil}, drafts' = Append(old, row)
  PROVE  /\ DraftsOK' /\ Len(drafts') = Len(old) + 1 /\ Len(old) \in Nat
         /\ drafts'[Len(old) + 1] = row
         /\ \A e \in 1 .. Len(old) : drafts'[e] = old[e]
<1>1. /\ drafts' \in Seq(DraftRow) /\ Len(drafts') = Len(old) + 1 /\ Len(old) \in Nat
      /\ drafts'[Len(old) + 1] = row
      /\ \A e \in 1 .. Len(old) : drafts'[e] = old[e]
  BY AppendProperties
<1>2. \A e \in 1 .. Len(drafts') : e \in 1 .. Len(old) \/ e = Len(old) + 1
  BY <1>1
<1> QED
  BY <1>1, <1>2, BoundsAssumption DEF DraftsOK

LEMMA SnippetsType ==
  ASSUME TypeInv, NEW project \in Projects \cup {Nil}, NEW seen \in Snippets(project)
  PROVE  seen \in SUBSET Memo
<1>1. CASE project = Nil \/ memory[project] = {}
  BY <1>1 DEF Snippets
<1>2. CASE ~(project = Nil \/ memory[project] = {})
  <2>1. memory[project] \in SUBSET Memo
    BY <1>2 DEF TypeInv, RestOK
  <2> QED
    BY <1>2, <2>1 DEF Snippets
<1> QED
  BY <1>1, <1>2

LEMMA DraftType ==
  ASSUME NEW kind \in {"create", "attach"}, NEW text \in Texts, NEW to \in Nat \cup {Nil},
         NEW place, place.project \in Projects \cup {Nil}, place.seen \in SUBSET Memo,
         NEW review \in Review, NEW context \in Replies, NEW of \in Nat \cup {Nil}
  PROVE  LET d == Draft(kind, text, to, place, review, context, of)
         IN  d \in DraftRow /\ d.of = of /\ d.live
BY DEF Draft, DraftRow

\* A mission made of a text is a row.
LEMMA MissionType ==
  ASSUME NEW place, place.project \in Projects \cup {Nil}, place.seen \in SUBSET Memo,
         NEW text \in Texts, NEW review \in Review, NEW from \in Nat \cup {Nil}
  PROVE  LET row == Mission(place, text, review, from)
         IN  row \in MissionRow /\ row.from = from /\ row.blocks = <<>>
<1> DEFINE owner == OwnerText(text, place.seen)
           pack == IntakePack(text, review)
           project == IF place.project = Nil THEN DefaultProject ELSE place.project
           row == Mission(place, text, review, from)
<1>1. text.words \in SUBSET PackWords
  BY TextsAssumption
<1>2. owner.words \in SUBSET PackWords /\ owner.risky \in BOOLEAN
  <2>1. \A e \in place.seen : e.words \subseteq PackWords
    BY DEF Memo
  <2>2. UNION {e.words : e \in place.seen} \subseteq PackWords
    BY <2>1
  <2>3. owner = [words |-> text.words \cup UNION {e.words : e \in place.seen},
                 risky |-> "risky" \in text.has \/ \E e \in place.seen : e.risky]
    BY DEF OwnerText
  <2> QED
    BY <1>1, <2>2, <2>3
<1>3. pack \in Pack \cup {"none"}
  <2>1. review.step # Nil => review.step \cup text.words \in SUBSET Pack
    <3>1. review.step \in (SUBSET Pack) \cup {Nil}
      BY DEF Review
    <3>2. text.words \subseteq Pack
      BY <1>1 DEF PackWords
    <3> QED
      BY ONLY <3>1, <3>2
  <2> QED
    BY <2>1, PackOfType DEF IntakePack
<1>4. project \in Projects
  BY IntakeAssumption
<1>5. NoAction \in Actions
  BY DEF NoAction, Actions, Words
<1>6. row = [project |-> project, words |-> owner.words, risky |-> owner.risky,
             step |-> review.step, approval |-> review.approval, pack |-> pack,
             act |-> NoAction, deals |-> <<>>, open |-> TRUE, from |-> from, blocks |-> <<>>]
  BY DEF Mission
<1>7. review.step \in (SUBSET Pack) \cup {Nil} /\ review.approval \in BOOLEAN
  BY DEF Review
<1> HIDE DEF owner, pack, project, row
<1>8. row.from = from /\ row.blocks = <<>>
  BY <1>6
<1>9. row \in MissionRow
  BY <1>2, <1>3, <1>4, <1>5, <1>6, <1>7, EmptySeq DEF MissionRow
<1> QED
  BY <1>8, <1>9 DEF row

\* A message: nothing, a question, or a draft made of nothing but the text.
LEMMA ReceiveTypes ==
  ASSUME TypeInv, NEW t \in Texts, NEW reply \in Replies, NEW like, NEW seen, NEW ans \in Answers,
         Receive(t, reply, like, seen, ans)
  PROVE  /\ UNCHANGED <<missions, memory, confirming, past>>
         /\ heard' = heard + 1 /\ question' = NoReply /\ asking' \subseteq Replies
         /\ \/ UNCHANGED drafts
            \/ /\ Len(drafts) < MaxDrafts
               /\ \E d \in DraftRow : d.of = Nil /\ drafts' = Append(drafts, d)
<1> DEFINE context == ContextOf(reply)
           target == TargetOf(context)
           told == Told(t, target, ans)
           r == Normalized(t, target, like, seen, ans)
           gm == Direction(r, told)
           place == [project |-> r.project, seen |-> r.seen]
           tid == IF target # Nil THEN target ELSE r.related
           review == [step |-> StepWords(told), approval |-> gm.approval]
<1>1. context \in Replies
  BY DEF ContextOf, TypeInv, RestOK
<1>2. target \in Nat \cup {Nil}
  <2> HIDE DEF context
  <2> QED
    BY <1>1, BoundsAssumption DEF TargetOf, Replies
<1>3. like \in Comparable(ProjectOf(t, target)) \cup {Nil} /\ seen \in Snippets(ProjectOf(t, target))
  BY DEF Receive
<1>4. like \in Nat \cup {Nil}
  BY <1>3, Rows DEF Comparable, Open
<1>5. seen \in SUBSET Memo
  <2> HIDE DEF target
  <2> QED
    BY <1>3, ProjectType, SnippetsType
<1>6. r \in Readings
  <2> HIDE DEF target
  <2> QED
    BY <1>2, <1>4, <1>5, NormalizedType
<1>7. gm \in Directions
  <2> HIDE DEF r, told
  <2> QED
    BY <1>6, DirectionType
<1>8. place.project \in Projects \cup {Nil} /\ place.seen \in SUBSET Memo /\ tid \in Nat \cup {Nil}
  <2> HIDE DEF r, target
  <2> QED
    BY <1>2, <1>6 DEF Readings
<1>9. review \in Review /\ Unreviewed \in Review
  <2>1. StepWords(told) \in SUBSET Pack
    BY PackIs DEF StepWords
  <2>2. gm.approval \in BOOLEAN
    BY <1>7 DEF Directions
  <2>3. ASSUME NEW s \in (SUBSET Pack) \cup {Nil}, NEW a \in BOOLEAN
        PROVE  [step |-> s, approval |-> a] \in Review
    BY <2>3 DEF Review
  <2>4. [step |-> StepWords(told), approval |-> gm.approval] \in Review
    BY ONLY <2>1, <2>2, <2>3
  <2>5. [step |-> Nil, approval |-> FALSE] \in Review
    BY ONLY <2>3
  <2> QED
    BY <2>4, <2>5 DEF Unreviewed
<1>10. /\ UNCHANGED <<missions, memory, confirming, past>>
       /\ heard' = heard + 1 /\ question' = NoReply
       /\ asking' = asking \/ asking' = asking \cup {context}
       /\ \/ UNCHANGED drafts
          \/ Put(Draft("attach", t, tid, place, Unreviewed, context, Nil))
          \/ Put(Draft("create", t, Nil, place, review, context, Nil))
  BY DEF Receive
<1> HIDE DEF context, target, told, r, gm, place, tid, review
<1>11. /\ Draft("attach", t, tid, place, Unreviewed, context, Nil) \in DraftRow
       /\ Draft("attach", t, tid, place, Unreviewed, context, Nil).of = Nil
  BY <1>1, <1>8, <1>9, DraftType
<1>12. /\ Draft("create", t, Nil, place, review, context, Nil) \in DraftRow
       /\ Draft("create", t, Nil, place, review, context, Nil).of = Nil
  <2>1. PICK none \in Nat \cup {Nil} : none = Nil
    OBVIOUS
  <2>2. /\ Draft("create", t, none, place, review, context, none) \in DraftRow
        /\ Draft("create", t, none, place, review, context, none).of = none
    BY <1>1, <1>8, <1>9, DraftType
  <2> QED
    BY <2>1, <2>2
<1> QED
  BY <1>1, <1>10, <1>11, <1>12 DEF Put, TypeInv, RestOK

\* The parts of the invariant that a step leaves alone.
LEMMA DraftsKept ==
  ASSUME TypeInv, UNCHANGED drafts
  PROVE  DraftsOK'
BY DEF TypeInv, DraftsOK

LEMMA RestKept ==
  ASSUME TypeInv, UNCHANGED <<memory, past>>, heard' \in {heard, heard + 1},
         question' \in Replies, asking' \subseteq Replies,
         confirming' \subseteq 1 .. Len(drafts'), Len(drafts') >= Len(drafts)
  PROVE  RestOK'
BY DEF TypeInv, RestOK, Replies

\* A mission that keeps its project and what it came of.
LEMMA MissionEdited ==
  ASSUME TypeInv, NEW m \in 1 .. Len(missions), NEW row \in MissionRow,
         row.from = missions[m].from, row.blocks = missions[m].blocks,
         missions' = [missions EXCEPT ![m] = row], UNCHANGED drafts
  PROVE  MissionsOK'
<1>1. NamesPut(row)
  BY DEF TypeInv, MissionsOK, NamesPut
<1> QED
  BY <1>1, MissionChanged

LEMMA TypeStep ==
  ASSUME TypeInv, [Next]_vars
  PROVE  TypeInv'
<1>0. /\ Len(drafts) \in Nat /\ Len(missions) \in Nat
      /\ question \in Replies /\ asking \subseteq Replies /\ confirming \subseteq 1 .. Len(drafts)
      /\ heard \in Nat /\ NoReply \in Replies
  BY Rows DEF TypeInv, RestOK, Replies
\* Steps of the chat: no mission, and no draft, changes.
<1>a. ASSUME UNCHANGED <<missions, memory, drafts, past>>, heard' \in {heard, heard + 1},
             question' \in Replies, asking' \subseteq Replies, confirming' \subseteq 1 .. Len(drafts)
      PROVE  TypeInv'
  BY <1>0, <1>a, MissionsKept, DraftsKept, RestKept DEF TypeInv
\* Steps of a mission.
<1>b. ASSUME MissionsOK', UNCHANGED <<memory, drafts, question, asking, past>>,
             heard' \in {heard, heard + 1}, confirming' \subseteq confirming
      PROVE  TypeInv'
  BY <1>0, <1>b, DraftsKept, RestKept DEF TypeInv
\* Steps that take a draft.
<1>c. ASSUME NEW d \in 1 .. Len(drafts), drafts' = Taken(d),
             UNCHANGED <<memory, question, asking, heard, past>>,
             confirming' \subseteq confirming \cup {d}
      PROVE  DraftsOK' /\ RestOK' /\ Len(drafts') = Len(drafts)
  <2>1. /\ drafts' \in Seq(DraftRow) /\ Len(drafts') = Len(drafts)
        /\ \A e \in 1 .. Len(drafts) : drafts'[e].of = drafts[e].of
    BY <1>c, DraftTaken
  <2>2. DraftsOK'
    BY <2>1 DEF TypeInv, DraftsOK
  <2>3. RestOK'
    BY <1>0, <1>c, <2>1, RestKept
  <2> QED
    BY <2>1, <2>2, <2>3
<1>1. ASSUME NEW t \in Texts, NEW reply \in Replies, NEW like, NEW ans \in Answers, NEW seen,
             Receive(t, reply, like, seen, ans)
      PROVE  TypeInv'
  <2>1. /\ UNCHANGED <<missions, memory, confirming, past>>
        /\ heard' = heard + 1 /\ question' = NoReply /\ asking' \subseteq Replies
    BY <1>1, ReceiveTypes
  <2>2. CASE UNCHANGED drafts
    BY <1>0, <1>a, <2>1, <2>2
  <2>3. ASSUME NEW d \in DraftRow, Len(drafts) < MaxDrafts, d.of = Nil, drafts' = Append(drafts, d)
        PROVE  TypeInv'
    <3>1. DraftsOK' /\ Len(drafts') = Len(drafts) + 1
      BY <2>3, DraftAdded DEF TypeInv, DraftsOK
    <3>2. MissionsOK' /\ RestOK'
      BY <1>0, <2>1, <3>1, MissionsKept, RestKept
    <3> QED
      BY <3>1, <3>2 DEF TypeInv
  <2> QED
    BY <1>1, <2>2, <2>3, ReceiveTypes
<1>2. ASSUME NEW context \in asking, QuestionSent(context) \/ SendFails(context) PROVE TypeInv'
  BY <1>0, <1>a, <1>2 DEF QuestionSent, SendFails
<1>3. CASE ForgetQuestion \/ Restart
  BY <1>0, <1>a, <1>3 DEF ForgetQuestion, Restart
<1>4. ASSUME NEW t \in Texts, TaskCommand(t) PROVE TypeInv'
  <2> DEFINE row == Mission(Nowhere, t, Unreviewed, Nil)
  <2>1. Nowhere.project \in Projects \cup {Nil} /\ Nowhere.seen \in SUBSET Memo /\ Unreviewed \in Review
    BY DEF Nowhere, Unreviewed, Review
  <2>2. row \in MissionRow /\ row.from = Nil /\ row.blocks = <<>>
    <3>1. PICK none \in Nat \cup {Nil} : none = Nil
      OBVIOUS
    <3>2. LET new == Mission(Nowhere, t, Unreviewed, none)
          IN  new \in MissionRow /\ new.from = none /\ new.blocks = <<>>
      BY <2>1, MissionType
    <3> QED
      BY <3>1, <3>2
  <2>3. missions' = Append(missions, row) /\ Len(missions) < MaxMissions
        /\ heard' = heard + 1 /\ UNCHANGED <<memory, drafts, question, asking, confirming, past>>
    BY <1>4 DEF TaskCommand
  <2> HIDE DEF row
  <2>4. NamesPut(row)
    BY <2>2 DEF NamesPut
  <2> QED
    BY <1>b, <2>2, <2>3, <2>4, MissionAdded
<1>5. ASSUME NEW d \in Live, Expire(d) \/ PressCreate(d) \/ PressCancel(d) PROVE TypeInv'
  <2>1. /\ drafts' = Taken(d) /\ UNCHANGED <<missions, memory, question, asking, heard, past>>
        /\ confirming' \subseteq confirming \cup {d} /\ d \in 1 .. Len(drafts)
    BY <1>5 DEF Expire, PressCreate, PressCancel, Taken, Live
  <2>2. DraftsOK' /\ RestOK' /\ Len(drafts') = Len(drafts)
    BY <1>c, <2>1
  <2> QED
    BY <1>0, <2>1, <2>2, MissionsKept DEF TypeInv
<1>6. ASSUME NEW d \in Live, PressAttach(d) PROVE TypeInv'
  <2> DEFINE to == drafts[d].to
             row == [missions[to] EXCEPT !.words = @ \cup drafts[d].text.words,
                                         !.risky = @ \/ "risky" \in drafts[d].text.has,
                                         !.blocks = Append(@, d)]
  <2>1. /\ drafts' = Taken(d) /\ UNCHANGED <<memory, question, asking, confirming, heard, past>>
        /\ d \in 1 .. Len(drafts)
        /\ missions' = IF ~Exists(to) THEN missions ELSE [missions EXCEPT ![to] = row]
    BY <1>6 DEF PressAttach, Live
  <2>2. DraftsOK' /\ RestOK' /\ Len(drafts') = Len(drafts)
    BY <1>c, <2>1
  <2>3. CASE ~Exists(to)
    BY <1>0, <2>1, <2>2, <2>3, MissionsKept DEF TypeInv
  <2>4. CASE Exists(to)
    <3>1. to \in 1 .. Len(missions) /\ missions[to] \in MissionRow /\ NamesPut(missions[to])
      BY <2>4, Rows DEF Exists, TypeInv, MissionsOK
    <3>2. drafts[d].text.words \in SUBSET PackWords /\ ("risky" \in drafts[d].text.has) \in BOOLEAN
      BY <2>1, Rows, TextsAssumption DEF DraftRow
    <3>3. missions[to].blocks \in Seq(Nat) /\ d \in Nat
      BY <2>1, <3>1 DEF MissionRow
    <3>4. /\ Append(missions[to].blocks, d) \in Seq(Nat)
          /\ Len(Append(missions[to].blocks, d)) = Len(missions[to].blocks) + 1
          /\ \A i \in 1 .. Len(missions[to].blocks) :
               Append(missions[to].blocks, d)[i] = missions[to].blocks[i]
          /\ Append(missions[to].blocks, d)[Len(missions[to].blocks) + 1] = d
      BY <3>3, AppendProperties
    <3>5. row \in MissionRow /\ row.from = missions[to].from
          /\ row.blocks = Append(missions[to].blocks, d)
      <4>1. PICK w \in SUBSET PackWords : w = missions[to].words \cup drafts[d].text.words
        BY <3>1, <3>2 DEF MissionRow
      <4>2. PICK k \in BOOLEAN : k = (missions[to].risky \/ "risky" \in drafts[d].text.has)
        BY <3>1 DEF MissionRow
      <4>3. PICK b \in Seq(Nat) : b = Append(missions[to].blocks, d)
        BY <3>4
      <4>4. row = [missions[to] EXCEPT !.words = w, !.risky = k, !.blocks = b]
        BY <4>1, <4>2, <4>3
      <4> HIDE DEF row
      <4>5. row \in MissionRow /\ row.from = missions[to].from /\ row.blocks = b
        BY <3>1, <4>4 DEF MissionRow
      <4> QED
        BY <4>3, <4>5
    <3> HIDE DEF row
    <3>6. NamesPut(row)
      <4> DEFINE old == missions[to].blocks
      <4>1. Len(old) \in Nat
        BY <3>3
      <4>2. \A i \in 1 .. Len(old) + 1 : i \in 1 .. Len(old) \/ i = Len(old) + 1
        BY <4>1
      <4> QED
        BY <2>1, <3>1, <3>4, <3>5, <4>1, <4>2 DEF NamesPut
    <3> HIDE DEF to
    <3>7. MissionsOK'
      BY <2>1, <2>2, <2>4, <3>1, <3>5, <3>6, MissionChanged
    <3> QED
      BY <2>2, <3>7 DEF TypeInv
  <2> QED
    BY <2>3, <2>4
<1>7. ASSUME NEW d \in Live, PressNew(d) PROVE TypeInv'
  <2> DEFINE row == Draft("create", drafts[d].text, Nil, Nowhere, Unreviewed, NoReply, d)
  <2>1. /\ drafts' = Append(Taken(d), row) /\ Len(drafts) < MaxDrafts /\ d \in 1 .. Len(drafts)
        /\ UNCHANGED <<missions, memory, question, asking, confirming, heard, past>>
    BY <1>7 DEF PressNew, Live
  <2>2. /\ Taken(d) \in Seq(DraftRow) /\ Len(Taken(d)) = Len(drafts)
        /\ \A e \in 1 .. Len(drafts) : Taken(d)[e].of = drafts[e].of
    BY <2>1, DraftTaken
  <2>3. row \in DraftRow /\ row.of = d
    <3>1. Nowhere.project \in Projects \cup {Nil} /\ Nowhere.seen \in SUBSET Memo /\ Unreviewed \in Review
      BY DEF Nowhere, Unreviewed, Review
    <3>2. PICK none \in Nat \cup {Nil} : none = Nil
      OBVIOUS
    <3>3. PICK text \in Texts : text = drafts[d].text
      BY <2>1, Rows DEF DraftRow
    <3>4. LET new == Draft("create", text, none, Nowhere, Unreviewed, NoReply, d)
          IN  new \in DraftRow /\ new.of = d
      <4>1. "create" \in {"create", "attach"} /\ d \in Nat \cup {Nil} /\ NoReply \in Replies
        BY <1>0, <2>1
      <4> QED
        BY <4>1, <3>1, DraftType
    <3> QED
      BY <3>2, <3>3, <3>4
  <2> HIDE DEF row
  <2>4. DraftsOK' /\ Len(drafts') = Len(drafts) + 1
    BY <2>1, <2>2, <2>3, DraftAdded DEF TypeInv, DraftsOK
  <2>5. MissionsOK' /\ RestOK'
    BY <1>0, <2>1, <2>4, MissionsKept, RestKept
  <2> QED
    BY <2>4, <2>5 DEF TypeInv
<1>8. ASSUME NEW d \in Live, PressRefine(d) PROVE TypeInv'
  <2>1. drafts[d].context \in Replies
    BY Rows DEF Live, DraftRow
  <2> QED
    BY <1>0, <1>a, <1>8, <2>1 DEF PressRefine
<1>9. ASSUME NEW d \in confirming, MakeMission(d) PROVE TypeInv'
  <2> DEFINE place == [project |-> drafts[d].project, seen |-> drafts[d].seen]
             row == Mission(place, drafts[d].text, drafts[d].review, d)
  <2>1. /\ missions' = Append(missions, row) /\ Len(missions) < MaxMissions
        /\ confirming' = confirming \ {d} /\ UNCHANGED <<memory, drafts, question, asking, heard, past>>
    BY <1>9 DEF MakeMission
  <2>2. d \in 1 .. Len(drafts) /\ drafts[d] \in DraftRow
    BY <1>0, Rows
  <2>3. /\ place.project \in Projects \cup {Nil} /\ place.seen \in SUBSET Memo
        /\ drafts[d].text \in Texts /\ drafts[d].review \in Review /\ d \in Nat \cup {Nil}
    BY <2>2 DEF DraftRow
  <2> HIDE DEF place
  <2>4. row \in MissionRow /\ row.from = d /\ row.blocks = <<>>
    BY <2>3, MissionType
  <2> HIDE DEF row
  <2>5. NamesPut(row)
    BY <2>2, <2>4 DEF NamesPut
  <2> QED
    BY <1>b, <2>1, <2>4, <2>5, MissionAdded
<1>10. ASSUME NEW d \in confirming, LoseDraft(d) PROVE TypeInv'
  BY <1>0, <1>a, <1>10 DEF LoseDraft
<1>11. ASSUME NEW m \in Open, Close(m) PROVE TypeInv'
  <2>1. m \in 1 .. Len(missions) /\ missions[m] \in MissionRow
    BY Rows DEF Open
  <2>2. PICK row : row = [missions[m] EXCEPT !.open = FALSE]
    OBVIOUS
  <2>3. row \in MissionRow /\ row.from = missions[m].from /\ row.blocks = missions[m].blocks
    BY <2>1, <2>2 DEF MissionRow
  <2>4. missions' = [missions EXCEPT ![m] = row]
        /\ UNCHANGED <<memory, drafts, question, asking, confirming, heard, past>>
    BY <1>11, <2>2 DEF Close
  <2> QED
    BY <1>b, <2>1, <2>3, <2>4, MissionEdited
<1>12. ASSUME NEW m \in Open, NEW tie \in BOOLEAN, RunEnds(m, tie) PROVE TypeInv'
  <2>1. m \in 1 .. Len(missions) /\ missions[m] \in MissionRow
    BY Rows DEF Open
  <2>2. /\ missions' = IF missions[m].step = Nil THEN missions
                       ELSE [missions EXCEPT ![m].pack = LearnedPack(Tally, Asked(m), tie)]
        /\ memory' = [memory EXCEPT ![missions[m].project] = @ \cup {Remembered(m)}]
        /\ UNCHANGED <<drafts, question, asking, confirming, heard, past>>
    BY <1>12 DEF RunEnds
  <2>3. MissionsOK'
    <3>1. CASE missions[m].step = Nil
      BY <1>0, <2>2, <3>1, MissionsKept
    <3>2. CASE missions[m].step # Nil
      <4>1. Asked(m) \in Pack
        <5>1. missions[m].step \in SUBSET Pack /\ missions[m].words \in SUBSET Pack
          BY <2>1, <3>2 DEF MissionRow, PackWords
        <5>2. missions[m].step \cup missions[m].words \in SUBSET Pack
          BY <5>1
        <5> QED
          BY <5>2, PackOfType DEF Asked
      <4>2. PICK pack \in Pack : pack = LearnedPack(Tally, Asked(m), tie)
        BY <4>1, TallyType, Learned
      <4>3. PICK row : row = [missions[m] EXCEPT !.pack = pack]
        OBVIOUS
      <4>4. row \in MissionRow /\ row.from = missions[m].from /\ row.blocks = missions[m].blocks
        BY <2>1, <4>3 DEF MissionRow
      <4>5. missions' = [missions EXCEPT ![m] = row]
        BY <2>2, <3>2, <4>2, <4>3
      <4> QED
        BY <2>1, <2>2, <4>4, <4>5, MissionEdited
    <3> QED
      BY <3>1, <3>2
  <2>4. RestOK'
    <3>1. Remembered(m) \in Memo /\ missions[m].project \in Projects
      BY <2>1 DEF Remembered, Memo, MissionRow
    <3>2. memory' \in [Projects -> SUBSET Memo]
      BY <2>2, <3>1 DEF TypeInv, RestOK
    <3> QED
      BY <2>2, <3>2 DEF TypeInv, RestOK, Replies
  <2> QED
    BY <2>2, <2>3, <2>4, DraftsKept DEF TypeInv
<1>13. ASSUME NEW m \in 1 .. Len(missions), NEW verdict \in Verdicts, GiveFeedback(m, verdict) PROVE TypeInv'
  <2>1. missions[m] \in MissionRow /\ verdict \in Actions
    <3>1. Verdicts \subseteq Actions
      BY DEF Verdicts, Actions, Words
    <3> QED
      BY <3>1, Rows
  <2>2. PICK row : row = [missions[m] EXCEPT !.act = verdict]
    OBVIOUS
  <2>3. row \in MissionRow /\ row.from = missions[m].from /\ row.blocks = missions[m].blocks
    BY <2>1, <2>2 DEF MissionRow
  <2>4. missions' = [missions EXCEPT ![m] = row]
        /\ UNCHANGED <<memory, drafts, question, asking, confirming, heard, past>>
    BY <1>13, <2>2 DEF GiveFeedback
  <2> QED
    BY <1>b, <2>3, <2>4, MissionEdited
<1>14. ASSUME NEW m \in 1 .. Len(missions), NEW amount \in 0 .. MaxAmount, BookSale(m, amount) PROVE TypeInv'
  <2>1. missions[m] \in MissionRow /\ missions[m].pack # "none"
    BY <1>14, Rows DEF BookSale
  <2>2. PICK deals : deals = Append(missions[m].deals, [pack |-> missions[m].pack, amount |-> amount])
    OBVIOUS
  <2>3. deals \in Seq(Deal)
    <3>1. [pack |-> missions[m].pack, amount |-> amount] \in Deal /\ missions[m].deals \in Seq(Deal)
      BY <2>1 DEF Deal, MissionRow
    <3> QED
      BY <2>2, <3>1, AppendProperties
  <2>4. PICK row : row = [missions[m] EXCEPT !.deals = deals]
    OBVIOUS
  <2>5. row \in MissionRow /\ row.from = missions[m].from /\ row.blocks = missions[m].blocks
    BY <2>1, <2>3, <2>4 DEF MissionRow
  <2>6. missions' = [missions EXCEPT ![m] = row]
        /\ UNCHANGED <<memory, drafts, question, asking, confirming, heard, past>>
    BY <1>14, <2>2, <2>4 DEF BookSale
  <2> QED
    BY <1>b, <2>5, <2>6, MissionEdited
<1>15. CASE UNCHANGED vars
  BY <1>0, <1>a, <1>15 DEF vars
<1> QED
  BY <1>1, <1>2, <1>3, <1>4, <1>5, <1>6, <1>7, <1>8, <1>9, <1>10, <1>11, <1>12, <1>13, <1>14, <1>15
  DEF Next

\* Every row, draft and mission is what the actions take it for; a mission
\* always has a project and its pack is one of the list.
THEOREM IntakeTypes == Spec => []TypeOK
<1>1. TypeInv /\ [Next]_vars => TypeInv'
  BY TypeStep
<1> QED
  BY InitTypes, <1>1, TypesShown, PTL DEF Spec

-----------------------------------------------------------------------------
(* What is made of a draft.                                                *)

Once(d) == /\ drafts[d].live => UsesOf(d) = {}
           /\ \A u, v \in UsesOf(d) : u = v

\* The uses of d among some missions, drafts and drafts being confirmed.
UsesIn(d, ms, ds, cs) ==
    {<<"mission", m, 0>> : m \in {m \in 1 .. Len(ms) : ms[m].from = d}}
    \cup (UNION {{<<"block", m, i>> : i \in {i \in 1 .. Len(ms[m].blocks) : ms[m].blocks[i] = d}} :
                m \in 1 .. Len(ms)})
    \cup {<<"draft", e, 0>> : e \in {e \in 1 .. Len(ds) : ds[e].of = d}}
    \cup (IF d \in cs THEN {<<"pending", d, 0>>} ELSE {})

LEMMA UseIs ==
  ASSUME NEW d, NEW ms, NEW ds, NEW cs, NEW u
  PROVE  u \in UsesIn(d, ms, ds, cs) <=>
           \/ \E m \in 1 .. Len(ms) : ms[m].from = d /\ u = <<"mission", m, 0>>
           \/ \E m \in 1 .. Len(ms) : \E i \in 1 .. Len(ms[m].blocks) :
                ms[m].blocks[i] = d /\ u = <<"block", m, i>>
           \/ \E e \in 1 .. Len(ds) : ds[e].of = d /\ u = <<"draft", e, 0>>
           \/ d \in cs /\ u = <<"pending", d, 0>>
<1> DEFINE A == {<<"mission", m, 0>> : m \in {m \in 1 .. Len(ms) : ms[m].from = d}}
           B(m) == {<<"block", m, i>> : i \in {i \in 1 .. Len(ms[m].blocks) : ms[m].blocks[i] = d}}
           BB == UNION {B(m) : m \in 1 .. Len(ms)}
           C == {<<"draft", e, 0>> : e \in {e \in 1 .. Len(ds) : ds[e].of = d}}
           D == IF d \in cs THEN {<<"pending", d, 0>>} ELSE {}
<1>1. u \in A <=> \E m \in 1 .. Len(ms) : ms[m].from = d /\ u = <<"mission", m, 0>>
  OBVIOUS
<1>2. u \in BB <=> \E m \in 1 .. Len(ms) : u \in B(m)
  <2> HIDE DEF B
  <2> QED
    OBVIOUS
<1>3. \A m : u \in B(m) <=> \E i \in 1 .. Len(ms[m].blocks) :
                               ms[m].blocks[i] = d /\ u = <<"block", m, i>>
  OBVIOUS
<1>4. u \in C <=> \E e \in 1 .. Len(ds) : ds[e].of = d /\ u = <<"draft", e, 0>>
  OBVIOUS
<1>5. u \in D <=> d \in cs /\ u = <<"pending", d, 0>>
  OBVIOUS
<1>6. UsesIn(d, ms, ds, cs) = A \cup BB \cup C \cup D
  BY DEF UsesIn
<1> HIDE DEF A, B, BB, C, D
<1> QED
  BY <1>1, <1>2, <1>3, <1>4, <1>5, <1>6

LEMMA UsesNow ==
  ASSUME NEW d
  PROVE  /\ UsesOf(d) = UsesIn(d, missions, drafts, confirming)
         /\ UsesOf(d)' = UsesIn(d, missions', drafts', confirming')
BY DEF UsesOf, UsesIn

\* A step adds at most the uses in "more" to those of a draft.
LEMMA UsesGrow ==
  ASSUME NEW d, NEW more,
         \A m \in 1 .. Len(missions') : missions'[m].from = d =>
           \/ m \in 1 .. Len(missions) /\ missions[m].from = d
           \/ <<"mission", m, 0>> \in more,
         \A m \in 1 .. Len(missions') : \A i \in 1 .. Len(missions'[m].blocks) :
           missions'[m].blocks[i] = d =>
             \/ /\ m \in 1 .. Len(missions) /\ i \in 1 .. Len(missions[m].blocks)
                /\ missions[m].blocks[i] = d
             \/ <<"block", m, i>> \in more,
         \A e \in 1 .. Len(drafts') : drafts'[e].of = d =>
           \/ e \in 1 .. Len(drafts) /\ drafts[e].of = d
           \/ <<"draft", e, 0>> \in more,
         d \in confirming' => d \in confirming \/ <<"pending", d, 0>> \in more
  PROVE  UsesOf(d)' \subseteq UsesOf(d) \cup more
<1> SUFFICES ASSUME NEW u \in UsesOf(d)' PROVE u \in UsesOf(d) \cup more
  OBVIOUS
<1>1. \/ \E m \in 1 .. Len(missions') : missions'[m].from = d /\ u = <<"mission", m, 0>>
      \/ \E m \in 1 .. Len(missions') : \E i \in 1 .. Len(missions'[m].blocks) :
           missions'[m].blocks[i] = d /\ u = <<"block", m, i>>
      \/ \E e \in 1 .. Len(drafts') : drafts'[e].of = d /\ u = <<"draft", e, 0>>
      \/ d \in confirming' /\ u = <<"pending", d, 0>>
  BY UsesNow, UseIs
<1>2. \/ u \in more
      \/ \E m \in 1 .. Len(missions) : missions[m].from = d /\ u = <<"mission", m, 0>>
      \/ \E m \in 1 .. Len(missions) : \E i \in 1 .. Len(missions[m].blocks) :
           missions[m].blocks[i] = d /\ u = <<"block", m, i>>
      \/ \E e \in 1 .. Len(drafts) : drafts[e].of = d /\ u = <<"draft", e, 0>>
      \/ d \in confirming /\ u = <<"pending", d, 0>>
  BY <1>1
<1> QED
  BY <1>2, UsesNow, UseIs

\* Nothing is made of a draft that was not put yet.
LEMMA Unput ==
  ASSUME TypeInv, NEW d \in Nat, d \notin 1 .. Len(drafts)
  PROVE  UsesOf(d) = {}
<1>1. \A m \in 1 .. Len(missions) :
        /\ missions[m].from # d
        /\ \A i \in 1 .. Len(missions[m].blocks) : missions[m].blocks[i] # d
  BY NilAssumption DEF TypeInv, MissionsOK, NamesPut
<1>2. \A e \in 1 .. Len(drafts) : drafts[e].of # d
  BY Rows, NilAssumption DEF TypeInv, DraftsOK
<1>3. d \notin confirming
  BY DEF TypeInv, RestOK
<1> QED
  BY <1>1, <1>2, <1>3, UsesNow, UseIs

\* The missions name the drafts they named, and the drafts the ones they did.
SameNames ==
  /\ Len(missions') = Len(missions)
  /\ \A m \in 1 .. Len(missions) :
       missions'[m].from = missions[m].from /\ missions'[m].blocks = missions[m].blocks

SameDrafts ==
  /\ Len(drafts') = Len(drafts)
  /\ \A e \in 1 .. Len(drafts) : drafts'[e].of = drafts[e].of

LEMMA NoNewUse ==
  ASSUME SameNames, SameDrafts, NEW d, d \in confirming' => d \in confirming
  PROVE  UsesOf(d)' \subseteq UsesOf(d)
<1>1. UsesOf(d)' \subseteq UsesOf(d) \cup {}
  BY UsesGrow DEF SameNames, SameDrafts
<1> QED
  BY <1>1

\* Of these drafts nothing new is made.
LEMMA OnceKept ==
  ASSUME DraftUsedOnce, NEW d \in 1 .. Len(drafts), UsesOf(d)' \subseteq UsesOf(d),
         drafts'[d].live => drafts[d].live
  PROVE  Once(d)'
BY DEF DraftUsedOnce, Once

LEMMA Quiet ==
  ASSUME DraftUsedOnce, SameNames, SameDrafts, confirming' \subseteq confirming,
         \A d \in 1 .. Len(drafts) : drafts'[d].live => drafts[d].live
  PROVE  DraftUsedOnce'
<1>1. ASSUME NEW d \in 1 .. Len(drafts) PROVE Once(d)'
  <2>1. UsesOf(d)' \subseteq UsesOf(d)
    BY NoNewUse
  <2> QED
    BY <2>1, OnceKept
<1> QED
  BY <1>1 DEF SameDrafts, DraftUsedOnce, Once

LEMMA NamesEdited ==
  ASSUME TypeInv, NEW m \in 1 .. Len(missions), NEW row,
         row.from = missions[m].from, row.blocks = missions[m].blocks,
         missions' = [missions EXCEPT ![m] = row]
  PROVE  SameNames
<1>1. missions \in Seq(MissionRow)
  BY DEF TypeInv, MissionsOK
<1>2. Len(missions') = Len(missions)
  BY <1>1
<1>3. \A k \in 1 .. Len(missions) : missions'[k] = IF k = m THEN row ELSE missions[k]
  BY <1>1
<1> QED
  BY <1>2, <1>3 DEF SameNames

\* What a used draft, or one that is taken, allows.
LEMMA OnceTaken ==
  ASSUME NEW d, NEW use, UsesOf(d)' \subseteq {use}, ~drafts'[d].live
  PROVE  Once(d)'
BY DEF Once

\* What the draft rows say after a press.
LEMMA TakenDrafts ==
  ASSUME TypeInv, NEW d \in 1 .. Len(drafts), drafts' = Taken(d)
  PROVE  /\ SameDrafts /\ ~drafts'[d].live
         /\ \A e \in 1 .. Len(drafts) : e # d => drafts'[e] = drafts[e]
         /\ \A e \in 1 .. Len(drafts) : drafts'[e].live => drafts[e].live
<1>1. /\ Len(drafts') = Len(drafts) /\ ~drafts'[d].live
      /\ \A e \in 1 .. Len(drafts) : drafts'[e].of = drafts[e].of
      /\ \A e \in 1 .. Len(drafts) : e # d => drafts'[e] = drafts[e]
  BY DraftTaken
<1> QED
  BY <1>1 DEF SameDrafts

LEMMA UseStep ==
  ASSUME TypeInv, DraftUsedOnce, [Next]_vars
  PROVE  DraftUsedOnce'
<1>0. /\ Len(drafts) \in Nat /\ Len(missions) \in Nat /\ confirming \subseteq 1 .. Len(drafts)
      /\ Nil \notin Nat /\ TypeInv'
  BY Rows, NilAssumption, TypeStep DEF TypeInv, RestOK
\* Steps that leave the names alone.
<1>b. ASSUME UNCHANGED <<missions, drafts>>, confirming' \subseteq confirming
      PROVE  DraftUsedOnce'
  BY <1>b, Quiet DEF SameNames, SameDrafts
<1>c. ASSUME SameNames, UNCHANGED <<drafts, confirming>>
      PROVE  DraftUsedOnce'
  BY <1>c, Quiet DEF SameDrafts
<1>1. ASSUME NEW t \in Texts, NEW reply \in Replies, NEW like, NEW ans \in Answers, NEW seen,
             Receive(t, reply, like, seen, ans)
      PROVE  DraftUsedOnce'
  <2>1. UNCHANGED <<missions, confirming>>
    BY <1>1, ReceiveTypes
  <2>2. CASE UNCHANGED drafts
    BY <1>b, <2>1, <2>2
  <2>3. ASSUME NEW row \in DraftRow, Len(drafts) < MaxDrafts, row.of = Nil, drafts' = Append(drafts, row)
        PROVE  DraftUsedOnce'
    <3>1. /\ Len(drafts') = Len(drafts) + 1 /\ drafts'[Len(drafts) + 1] = row
          /\ \A e \in 1 .. Len(drafts) : drafts'[e] = drafts[e]
      BY <2>3, DraftAdded DEF TypeInv, DraftsOK
    <3>2. \A d \in 1 .. Len(drafts') : d \in 1 .. Len(drafts) \/ d = Len(drafts) + 1
      BY <1>0, <3>1
    <3>3. ASSUME NEW d \in Nat PROVE UsesOf(d)' \subseteq UsesOf(d)
      <4>1. \A e \in 1 .. Len(drafts') : drafts'[e].of = d => e \in 1 .. Len(drafts) /\ drafts[e].of = d
        BY <1>0, <2>3, <3>1, <3>2
      <4>2. UsesOf(d)' \subseteq UsesOf(d) \cup {}
        BY <2>1, <4>1, UsesGrow
      <4> QED
        BY <4>2
    <3>4. ASSUME NEW d \in 1 .. Len(drafts) PROVE Once(d)'
      BY <3>1, <3>3, OnceKept
    <3>5. PICK n \in Nat : n = Len(drafts) + 1
      BY <1>0
    <3>6. UsesOf(n) = {}
      BY <3>5, Unput
    <3>7. UsesOf(n)' = {}
      BY <3>3, <3>6
    <3> QED
      BY <3>2, <3>4, <3>5, <3>7 DEF DraftUsedOnce, Once
  <2> QED
    BY <1>1, <2>2, <2>3, ReceiveTypes
<1>2. ASSUME NEW context \in asking, QuestionSent(context) \/ SendFails(context) PROVE DraftUsedOnce'
  BY <1>b, <1>2 DEF QuestionSent, SendFails
<1>3. CASE ForgetQuestion \/ Restart
  BY <1>b, <1>3 DEF ForgetQuestion, Restart
<1>4. ASSUME NEW t \in Texts, TaskCommand(t) PROVE DraftUsedOnce'
  <2> DEFINE row == Mission(Nowhere, t, Unreviewed, Nil)
             n == Len(missions) + 1
  <2>1. missions' = Append(missions, row) /\ UNCHANGED <<drafts, confirming>>
    BY <1>4 DEF TaskCommand
  <2>2. row.from = Nil /\ row.blocks = <<>>
    BY DEF Mission
  <2> HIDE DEF row
  <2>3. /\ Len(missions') = n /\ missions'[n] = row
        /\ \A m \in 1 .. Len(missions) : missions'[m] = missions[m]
    BY <2>1 DEF TypeInv, MissionsOK
  <2>4. \A m \in 1 .. Len(missions') : m \in 1 .. Len(missions) \/ m = n
    BY <1>0, <2>3
  <2>5. ASSUME NEW d \in 1 .. Len(drafts) PROVE Once(d)'
    <3>1. d # Nil /\ Len(missions'[n].blocks) = 0
      BY <1>0, <2>2, <2>3
    <3>2. \A m \in 1 .. Len(missions') : missions'[m].from = d =>
            m \in 1 .. Len(missions) /\ missions[m].from = d
      BY <2>2, <2>3, <2>4, <3>1
    <3>3. \A m \in 1 .. Len(missions') : \A i \in 1 .. Len(missions'[m].blocks) :
            m \in 1 .. Len(missions) /\ missions'[m].blocks = missions[m].blocks
      BY <2>3, <2>4, <3>1
    <3>4. UsesOf(d)' \subseteq UsesOf(d) \cup {}
      BY <2>1, <3>2, <3>3, UsesGrow
    <3> QED
      BY <2>1, <3>4, OnceKept
  <2> QED
    BY <2>1, <2>5 DEF DraftUsedOnce, Once
<1>5. ASSUME NEW d \in Live, Expire(d) \/ PressCancel(d) PROVE DraftUsedOnce'
  <2>1. drafts' = Taken(d) /\ UNCHANGED <<missions, confirming>> /\ d \in 1 .. Len(drafts)
    BY <1>5 DEF Expire, PressCancel, Taken, Live
  <2>2. SameDrafts /\ \A e \in 1 .. Len(drafts) : drafts'[e].live => drafts[e].live
    BY <2>1, TakenDrafts
  <2> QED
    BY <2>1, <2>2, Quiet DEF SameNames
\* The draft that is taken had no use.
<1>d. ASSUME NEW d \in Live, drafts' = Taken(d), NEW use, UsesOf(d)' \subseteq UsesOf(d) \cup {use},
             \A e \in 1 .. Len(drafts) : e # d => UsesOf(e)' \subseteq UsesOf(e)
      PROVE  DraftUsedOnce'
  <2>1. d \in 1 .. Len(drafts) /\ UsesOf(d) = {}
    BY DEF Live, DraftUsedOnce
  <2>2. /\ SameDrafts /\ ~drafts'[d].live
        /\ \A e \in 1 .. Len(drafts) : drafts'[e].live => drafts[e].live
    BY <1>d, <2>1, TakenDrafts
  <2>3. UsesOf(d)' \subseteq {use}
    BY <1>d, <2>1
  <2>4. Once(d)'
    BY <2>2, <2>3, OnceTaken
  <2>5. ASSUME NEW e \in 1 .. Len(drafts), e # d PROVE Once(e)'
    BY <1>d, <2>2, <2>5, OnceKept
  <2> QED
    BY <2>2, <2>4, <2>5 DEF SameDrafts, DraftUsedOnce, Once
<1>6. ASSUME NEW d \in Live, PressCreate(d) PROVE DraftUsedOnce'
  <2>1. drafts' = Taken(d) /\ UNCHANGED missions /\ confirming' = confirming \cup {d}
        /\ d \in 1 .. Len(drafts)
    BY <1>6 DEF PressCreate, Live
  <2>2. SameDrafts
    BY <2>1, TakenDrafts
  <2>3. UsesOf(d)' \subseteq UsesOf(d) \cup {<<"pending", d, 0>>}
    BY <2>1, <2>2, UsesGrow DEF SameDrafts
  <2>4. ASSUME NEW e \in 1 .. Len(drafts), e # d PROVE UsesOf(e)' \subseteq UsesOf(e)
    BY <2>1, <2>2, <2>4, NoNewUse DEF SameNames
  <2> QED
    BY <1>d, <2>1, <2>3, <2>4
<1>7. ASSUME NEW d \in Live, PressAttach(d) PROVE DraftUsedOnce'
  <2> DEFINE to == drafts[d].to
             row == [missions[to] EXCEPT !.words = @ \cup drafts[d].text.words,
                                         !.risky = @ \/ "risky" \in drafts[d].text.has,
                                         !.blocks = Append(@, d)]
             n == Len(missions[to].blocks) + 1
  <2>1. /\ drafts' = Taken(d) /\ UNCHANGED confirming /\ d \in 1 .. Len(drafts)
        /\ missions' = IF ~Exists(to) THEN missions ELSE [missions EXCEPT ![to] = row]
    BY <1>7 DEF PressAttach, Live
  <2>2. SameDrafts /\ \A e \in 1 .. Len(drafts) : drafts'[e].live => drafts[e].live
    BY <2>1, TakenDrafts
  <2>3. CASE ~Exists(to)
    BY <2>1, <2>2, <2>3, Quiet DEF SameNames
  <2>4. CASE Exists(to)
    <3>1. to \in 1 .. Len(missions) /\ missions[to] \in MissionRow
      BY <2>4, Rows DEF Exists
    <3>2. row.from = missions[to].from /\ row.blocks = Append(missions[to].blocks, d)
      BY <3>1 DEF MissionRow
    <3>3. /\ Len(Append(missions[to].blocks, d)) = n /\ n - 1 \in Nat
          /\ \A i \in 1 .. n : i \in 1 .. Len(missions[to].blocks) \/ i = n
          /\ \A i \in 1 .. Len(missions[to].blocks) :
               Append(missions[to].blocks, d)[i] = missions[to].blocks[i]
          /\ Append(missions[to].blocks, d)[n] = d
      <4>1. missions[to].blocks \in Seq(Nat) /\ d \in Nat
        BY <1>0, <2>1, <3>1 DEF MissionRow
      <4>2. Len(missions[to].blocks) \in Nat
        BY <4>1
      <4>3. /\ Len(Append(missions[to].blocks, d)) = Len(missions[to].blocks) + 1
            /\ \A i \in 1 .. Len(missions[to].blocks) :
                 Append(missions[to].blocks, d)[i] = missions[to].blocks[i]
            /\ Append(missions[to].blocks, d)[Len(missions[to].blocks) + 1] = d
        BY <4>1, AppendProperties
      <4> HIDE DEF to, row
      <4> QED
        BY <4>2, <4>3
    <3>4. /\ Len(missions') = Len(missions) /\ missions'[to] = row
          /\ \A m \in 1 .. Len(missions) : m # to => missions'[m] = missions[m]
      <4>1. missions' = [missions EXCEPT ![to] = row]
        BY <2>1, <2>4
      <4> HIDE DEF row, to
      <4> QED
        BY <3>1, <4>1 DEF TypeInv, MissionsOK
    <3> HIDE DEF row, to, n
    <3>5. ASSUME NEW e, NEW more, e # d \/ <<"block", to, n>> \in more
          PROVE  UsesOf(e)' \subseteq UsesOf(e) \cup more
      <4>1. \A m \in 1 .. Len(missions') : missions'[m].from = missions[m].from
        BY <3>2, <3>4
      <4>2. ASSUME NEW m \in 1 .. Len(missions'), NEW i \in 1 .. Len(missions'[m].blocks),
                   missions'[m].blocks[i] = e
            PROVE  \/ i \in 1 .. Len(missions[m].blocks) /\ missions[m].blocks[i] = e
                   \/ <<"block", m, i>> \in more
        <5>1. CASE m # to
          BY <3>4, <4>2, <5>1
        <5>2. CASE m = to
          BY <3>2, <3>3, <3>4, <3>5, <4>2, <5>2
        <5> QED
          BY <5>1, <5>2
      <4> QED
        BY <2>1, <2>2, <3>4, <4>1, <4>2, UsesGrow DEF SameDrafts
    <3>6. UsesOf(d)' \subseteq UsesOf(d) \cup {<<"block", to, n>>}
      BY <3>5
    <3>7. ASSUME NEW e \in 1 .. Len(drafts), e # d PROVE UsesOf(e)' \subseteq UsesOf(e)
      <4>1. UsesOf(e)' \subseteq UsesOf(e) \cup {}
        BY <3>5, <3>7
      <4> QED
        BY <4>1
    <3> QED
      BY <1>d, <2>1, <3>6, <3>7
  <2> QED
    BY <2>3, <2>4
<1>8. ASSUME NEW d \in Live, PressNew(d) PROVE DraftUsedOnce'
  <2> DEFINE row == Draft("create", drafts[d].text, Nil, Nowhere, Unreviewed, NoReply, d)
  <2>0. PICK n \in Nat : n = Len(drafts) + 1
    BY <1>0
  <2>1. drafts' = Append(Taken(d), row) /\ UNCHANGED <<missions, confirming>> /\ d \in 1 .. Len(drafts)
    BY <1>8 DEF PressNew, Live
  <2>2. row.of = d
    BY DEF Draft
  <2> HIDE DEF row
  <2>3. /\ Taken(d) \in Seq(DraftRow) /\ Len(Taken(d)) = Len(drafts) /\ ~Taken(d)[d].live
        /\ \A e \in 1 .. Len(drafts) : Taken(d)[e].of = drafts[e].of
        /\ \A e \in 1 .. Len(drafts) : e # d => Taken(d)[e] = drafts[e]
    BY <2>1, DraftTaken
  <2>4. /\ Len(drafts') = n /\ drafts'[n] = row
        /\ \A e \in 1 .. Len(drafts) : drafts'[e] = Taken(d)[e]
    BY <2>0, <2>1, <2>3
  <2>5. \A e \in 1 .. Len(drafts') : e \in 1 .. Len(drafts) \/ e = n
    BY <1>0, <2>0, <2>4
  <2>6. ASSUME NEW e, NEW more, e # d \/ <<"draft", n, 0>> \in more
        PROVE  UsesOf(e)' \subseteq UsesOf(e) \cup more
    <3>1. \A x \in 1 .. Len(drafts') : drafts'[x].of = e =>
            \/ x \in 1 .. Len(drafts) /\ drafts[x].of = e
            \/ <<"draft", x, 0>> \in more
      BY <2>2, <2>3, <2>4, <2>5, <2>6
    <3> QED
      BY <2>1, <3>1, UsesGrow
  <2>7. Once(d)'
    <3>1. UsesOf(d) = {}
      BY DEF Live, DraftUsedOnce
    <3>2. UsesOf(d)' \subseteq UsesOf(d) \cup {<<"draft", n, 0>>}
      BY <2>6
    <3>3. ~drafts'[d].live
      BY <2>1, <2>3, <2>4
    <3> QED
      BY <3>1, <3>2, <3>3, OnceTaken
  <2>8. ASSUME NEW e \in Nat, e # d PROVE UsesOf(e)' \subseteq UsesOf(e)
    <3>1. UsesOf(e)' \subseteq UsesOf(e) \cup {}
      BY <2>6, <2>8
    <3> QED
      BY <3>1
  <2>9. ASSUME NEW e \in 1 .. Len(drafts), e # d PROVE Once(e)'
    BY <1>0, <2>3, <2>4, <2>8, <2>9, OnceKept
  <2>10. Once(n)'
    <3>1. UsesOf(n) = {} /\ n # d /\ n \in Nat
      BY <1>0, <2>0, <2>1, Unput
    <3>2. UsesOf(n)' = {}
      BY <2>8, <3>1
    <3> QED
      BY <3>2 DEF Once
  <2> QED
    BY <2>5, <2>7, <2>9, <2>10 DEF DraftUsedOnce, Once
<1>9. ASSUME NEW d \in Live, PressRefine(d) PROVE DraftUsedOnce'
  BY <1>b, <1>9 DEF PressRefine
\* The draft being confirmed becomes the mission.
<1>10. ASSUME NEW d \in confirming, MakeMission(d) PROVE DraftUsedOnce'
  <2> DEFINE row == Mission([project |-> drafts[d].project, seen |-> drafts[d].seen],
                            drafts[d].text, drafts[d].review, d)
  <2>0. PICK n \in Nat : n = Len(missions) + 1
    BY <1>0
  <2>1. /\ missions' = Append(missions, row) /\ confirming' = confirming \ {d}
        /\ UNCHANGED drafts /\ d \in 1 .. Len(drafts)
    BY <1>0, <1>10 DEF MakeMission
  <2>2. row.from = d /\ row.blocks = <<>>
    BY DEF Mission
  <2> HIDE DEF row
  <2>3. /\ Len(missions') = n /\ missions'[n] = row /\ Len(missions'[n].blocks) = 0
        /\ \A m \in 1 .. Len(missions) : missions'[m] = missions[m]
    BY <2>0, <2>1, <2>2 DEF TypeInv, MissionsOK
  <2>4. \A m \in 1 .. Len(missions') : m \in 1 .. Len(missions) \/ m = n
    BY <1>0, <2>0, <2>3
  <2>5. ASSUME NEW e, NEW more, e # d \/ <<"mission", n, 0>> \in more
        PROVE  UsesOf(e)' \subseteq UsesOf(e) \cup more
    <3>1. \A m \in 1 .. Len(missions') : missions'[m].from = e =>
            \/ m \in 1 .. Len(missions) /\ missions[m].from = e
            \/ <<"mission", m, 0>> \in more
      BY <2>2, <2>3, <2>4, <2>5
    <3>2. \A m \in 1 .. Len(missions') : \A i \in 1 .. Len(missions'[m].blocks) :
            m \in 1 .. Len(missions) /\ missions'[m].blocks = missions[m].blocks
      BY <2>3, <2>4
    <3> QED
      BY <2>1, <3>1, <3>2, UsesGrow
  <2>6. Once(d)'
    <3>1. <<"pending", d, 0>> \in UsesOf(d)
      BY UsesNow, UseIs
    <3>2. ~drafts[d].live /\ UsesOf(d) \subseteq {<<"pending", d, 0>>}
      BY <2>1, <3>1 DEF DraftUsedOnce
    <3>3. <<"pending", d, 0>> \notin UsesOf(d)'
      BY <2>1, UsesNow, UseIs
    <3>4. UsesOf(d)' \subseteq UsesOf(d) \cup {<<"mission", n, 0>>}
      BY <2>5
    <3>5. UsesOf(d)' \subseteq {<<"mission", n, 0>>}
      BY <3>2, <3>3, <3>4
    <3>6. ~drafts'[d].live
      BY <2>1, <3>2
    <3> QED
      BY <3>5, <3>6, OnceTaken
  <2>7. ASSUME NEW e \in 1 .. Len(drafts), e # d PROVE Once(e)'
    <3>1. UsesOf(e)' \subseteq UsesOf(e) \cup {}
      BY <2>5, <2>7
    <3> QED
      BY <2>1, <3>1, OnceKept
  <2> QED
    BY <2>1, <2>6, <2>7 DEF DraftUsedOnce, Once
<1>11. ASSUME NEW d \in confirming, LoseDraft(d) PROVE DraftUsedOnce'
  BY <1>b, <1>11 DEF LoseDraft
<1>12. ASSUME NEW m \in Open, Close(m) PROVE DraftUsedOnce'
  <2>1. m \in 1 .. Len(missions) /\ missions[m] \in MissionRow
    BY Rows DEF Open
  <2>2. PICK row : row = [missions[m] EXCEPT !.open = FALSE]
    OBVIOUS
  <2>3. /\ row.from = missions[m].from /\ row.blocks = missions[m].blocks
        /\ missions' = [missions EXCEPT ![m] = row] /\ UNCHANGED <<drafts, confirming>>
    BY <1>12, <2>1, <2>2 DEF Close, MissionRow
  <2> QED
    BY <1>c, <2>1, <2>3, NamesEdited
<1>13. ASSUME NEW m \in Open, NEW tie \in BOOLEAN, RunEnds(m, tie) PROVE DraftUsedOnce'
  <2>1. m \in 1 .. Len(missions) /\ missions[m] \in MissionRow
    BY Rows DEF Open
  <2>2. PICK pack : pack = LearnedPack(Tally, Asked(m), tie)
    OBVIOUS
  <2>3. PICK row : row = [missions[m] EXCEPT !.pack = pack]
    OBVIOUS
  <2>4. /\ missions' = missions \/ missions' = [missions EXCEPT ![m].pack = pack]
        /\ UNCHANGED <<drafts, confirming>>
    BY <1>13, <2>2 DEF RunEnds
  <2>5. row.from = missions[m].from /\ row.blocks = missions[m].blocks
    BY <2>1, <2>3 DEF MissionRow
  <2>6. missions' = missions \/ missions' = [missions EXCEPT ![m] = row]
    BY <2>3, <2>4
  <2>7. SameNames
    BY <2>1, <2>5, <2>6, NamesEdited DEF SameNames
  <2> QED
    BY <1>c, <2>4, <2>7
<1>14. ASSUME NEW m \in 1 .. Len(missions), NEW verdict \in Verdicts, GiveFeedback(m, verdict)
       PROVE  DraftUsedOnce'
  <2>1. missions[m] \in MissionRow
    BY Rows
  <2>2. PICK row : row = [missions[m] EXCEPT !.act = verdict]
    OBVIOUS
  <2>3. /\ row.from = missions[m].from /\ row.blocks = missions[m].blocks
        /\ missions' = [missions EXCEPT ![m] = row] /\ UNCHANGED <<drafts, confirming>>
    BY <1>14, <2>1, <2>2 DEF GiveFeedback, MissionRow
  <2> QED
    BY <1>c, <2>3, NamesEdited
<1>15. ASSUME NEW m \in 1 .. Len(missions), NEW amount \in 0 .. MaxAmount, BookSale(m, amount)
       PROVE  DraftUsedOnce'
  <2>1. missions[m] \in MissionRow
    BY Rows
  <2>2. PICK deals : deals = Append(missions[m].deals, [pack |-> missions[m].pack, amount |-> amount])
    OBVIOUS
  <2>3. PICK row : row = [missions[m] EXCEPT !.deals = deals]
    OBVIOUS
  <2>4. /\ row.from = missions[m].from /\ row.blocks = missions[m].blocks
        /\ missions' = [missions EXCEPT ![m] = row] /\ UNCHANGED <<drafts, confirming>>
    BY <1>15, <2>1, <2>2, <2>3 DEF BookSale, MissionRow
  <2> QED
    BY <1>c, <2>4, NamesEdited
<1>16. CASE UNCHANGED vars
  BY <1>b, <1>16 DEF vars
<1> QED
  BY <1>1, <1>2, <1>3, <1>4, <1>5, <1>6, <1>7, <1>8, <1>9, <1>10, <1>11, <1>12, <1>13, <1>14, <1>15,
     <1>16 DEF Next

\* However often its buttons are pressed, a draft becomes at most one thing,
\* and while its row is there it has become nothing.
THEOREM DraftOnce == Spec => []DraftUsedOnce
<1> DEFINE I == TypeInv /\ DraftUsedOnce
<1>1. Init => I
  <2>1. Init => Len(drafts) = 0
    BY DEF Init
  <2> QED
    BY <2>1, InitTypes DEF DraftUsedOnce
<1>2. I /\ [Next]_vars => I'
  BY TypeStep, UseStep
<1> QED
  BY <1>1, <1>2, PTL DEF Spec

-----------------------------------------------------------------------------
(* What the outcomes change about a mission.                               *)

\* Every other step leaves the packs alone, or gives one to a new mission.
LEMMA PackKept ==
  ASSUME NEW m \in 1 .. Len(missions), missions'[m].pack = missions[m].pack
  PROVE  MovesWell(m)
BY DEF MovesWell

LEMMA MoveStep ==
  ASSUME TypeInv, Next
  PROVE  \A m \in 1 .. Len(missions) : MovesWell(m)
<1>0. /\ \A m \in 1 .. Len(missions) : missions[m] \in MissionRow
      /\ missions \in Seq(MissionRow) /\ Len(missions) \in Nat
  BY Rows DEF TypeInv, MissionsOK
<1>a. ASSUME UNCHANGED missions PROVE \A m \in 1 .. Len(missions) : MovesWell(m)
  BY <1>a, PackKept
<1>b. ASSUME NEW row, missions' = Append(missions, row) PROVE \A m \in 1 .. Len(missions) : MovesWell(m)
  <2>1. \A m \in 1 .. Len(missions) : missions'[m] = missions[m]
    BY <1>0, <1>b
  <2> QED
    BY <2>1, PackKept
<1>c. ASSUME NEW k \in 1 .. Len(missions), NEW row, row.pack = missions[k].pack,
             missions' = [missions EXCEPT ![k] = row]
      PROVE  \A m \in 1 .. Len(missions) : MovesWell(m)
  <2>1. \A m \in 1 .. Len(missions) : missions'[m].pack = missions[m].pack
    BY <1>0, <1>c
  <2> QED
    BY <2>1, PackKept
<1>1. ASSUME NEW k \in Open, NEW tie \in BOOLEAN, RunEnds(k, tie)
      PROVE  \A m \in 1 .. Len(missions) : MovesWell(m)
  <2>1. k \in 1 .. Len(missions) /\ missions[k] \in MissionRow
    BY <1>0 DEF Open
  <2>2. CASE missions[k].step = Nil
    BY <1>1, <1>a, <2>2 DEF RunEnds
  <2>3. CASE missions[k].step # Nil
    <3>1. PICK asked \in Pack : asked = Asked(k)
      <4>1. missions[k].step \in SUBSET Pack /\ missions[k].words \in SUBSET Pack
        BY <2>1, <2>3 DEF MissionRow, PackWords
      <4>2. missions[k].step \cup missions[k].words \in SUBSET Pack
        BY <4>1
      <4> QED
        BY <4>2, PackOfType DEF Asked
    <3>2. PICK tally \in Books : tally = Tally
      BY TallyType
    <3>3. PICK pack : pack = LearnedPack(tally, asked, tie)
      OBVIOUS
    <3>4. \/ pack = asked
          \/ /\ pack = "generic" /\ tally[asked].rows >= 3
             /\ 200 * tally[asked].failure >= 99 * tally[asked].rows
          \/ tally[pack].sales > 0
      BY <3>3, Learned
    <3>5. PICK row : row = [missions[k] EXCEPT !.pack = pack]
      OBVIOUS
    <3>6. row.pack = pack
      BY <2>1, <3>5 DEF MissionRow
    <3>7. missions' = [missions EXCEPT ![k] = row]
      BY <1>1, <2>3, <3>1, <3>2, <3>3, <3>5 DEF RunEnds
    <3>8. \A m \in 1 .. Len(missions) : missions'[m] = IF m = k THEN row ELSE missions[m]
      BY <1>0, <3>7
    <3>9. MovesWell(k)
      <4>1. missions'[k].pack = pack
        BY <2>1, <3>6, <3>8
      <4> QED
        BY <3>1, <3>2, <3>4, <4>1 DEF MovesWell, Asked
    <3>10. ASSUME NEW m \in 1 .. Len(missions), m # k PROVE MovesWell(m)
      BY <3>8, <3>10, PackKept
    <3> QED
      BY <3>9, <3>10
  <2> QED
    BY <2>2, <2>3
<1>2. ASSUME NEW k \in 1 .. Len(missions),
             \/ Close(k)
             \/ \E v \in Verdicts : GiveFeedback(k, v)
             \/ \E a \in 0 .. MaxAmount : BookSale(k, a)
      PROVE  \A m \in 1 .. Len(missions) : MovesWell(m)
  <2>1. missions[k] \in MissionRow
    BY <1>0
  <2>2. ASSUME Close(k) PROVE \A m \in 1 .. Len(missions) : MovesWell(m)
    <3>1. PICK row : row = [missions[k] EXCEPT !.open = FALSE]
      OBVIOUS
    <3>2. row.pack = missions[k].pack /\ missions' = [missions EXCEPT ![k] = row]
      BY <2>1, <2>2, <3>1 DEF Close, MissionRow
    <3> QED
      BY <1>c, <3>2
  <2>3. ASSUME NEW v \in Verdicts, GiveFeedback(k, v) PROVE \A m \in 1 .. Len(missions) : MovesWell(m)
    <3>1. PICK row : row = [missions[k] EXCEPT !.act = v]
      OBVIOUS
    <3>2. row.pack = missions[k].pack /\ missions' = [missions EXCEPT ![k] = row]
      BY <2>1, <2>3, <3>1 DEF GiveFeedback, MissionRow
    <3> QED
      BY <1>c, <3>2
  <2>4. ASSUME NEW a \in 0 .. MaxAmount, BookSale(k, a)
        PROVE  \A m \in 1 .. Len(missions) : MovesWell(m)
    <3>1. PICK deals : deals = Append(missions[k].deals, [pack |-> missions[k].pack, amount |-> a])
      OBVIOUS
    <3>2. PICK row : row = [missions[k] EXCEPT !.deals = deals]
      OBVIOUS
    <3>3. row.pack = missions[k].pack /\ missions' = [missions EXCEPT ![k] = row]
      BY <2>1, <2>4, <3>1, <3>2 DEF BookSale, MissionRow
    <3> QED
      BY <1>c, <3>3
  <2> QED
    BY <1>2, <2>2, <2>3, <2>4
<1>3. ASSUME NEW d \in Live, PressAttach(d) PROVE \A m \in 1 .. Len(missions) : MovesWell(m)
  <2> DEFINE to == drafts[d].to
             new == [missions[to] EXCEPT !.words = @ \cup drafts[d].text.words,
                                         !.risky = @ \/ "risky" \in drafts[d].text.has,
                                         !.blocks = Append(@, d)]
  <2>1. CASE ~Exists(to)
    BY <1>3, <1>a, <2>1 DEF PressAttach
  <2>2. CASE Exists(to)
    <3>1. to \in 1 .. Len(missions) /\ missions[to] \in MissionRow
      BY <1>0, <2>2 DEF Exists
    <3>2. new.pack = missions[to].pack /\ missions' = [missions EXCEPT ![to] = new]
      BY <1>3, <2>2, <3>1 DEF PressAttach, MissionRow
    <3> HIDE DEF new, to
    <3> QED
      BY <1>c, <3>1, <3>2
  <2> QED
    BY <2>1, <2>2
<1>4. ASSUME (\E t \in Texts : TaskCommand(t)) \/ (\E d \in confirming : MakeMission(d))
      PROVE  \A m \in 1 .. Len(missions) : MovesWell(m)
  BY <1>4, <1>b DEF TaskCommand, MakeMission
<1>5. ASSUME NEW t \in Texts, NEW reply \in Replies, NEW like, NEW ans \in Answers, NEW seen,
             Receive(t, reply, like, seen, ans)
      PROVE  \A m \in 1 .. Len(missions) : MovesWell(m)
  BY <1>a, <1>5, ReceiveTypes
<1>6. ASSUME NEW d, \/ Expire(d) \/ PressCreate(d) \/ PressNew(d) \/ PressRefine(d) \/ PressCancel(d)
                    \/ LoseDraft(d) \/ QuestionSent(d) \/ SendFails(d)
      PROVE  \A m \in 1 .. Len(missions) : MovesWell(m)
  BY <1>a, <1>6
  DEF Expire, PressCreate, PressNew, PressRefine, PressCancel, LoseDraft, QuestionSent, SendFails
<1>7. CASE ForgetQuestion \/ Restart
  BY <1>a, <1>7 DEF ForgetQuestion, Restart
<1>8. Open \subseteq 1 .. Len(missions)
  BY DEF Open
<1> QED
  BY <1>1, <1>2, <1>3, <1>4, <1>5, <1>6, <1>7, <1>8 DEF Next

\* The outcomes of the office move a mission only to a pack that has sold, or
\* to the generic one because the pack its words ask for failed.
THEOREM MovesAreEarned == Spec => MovedPackHasSold
<1> DEFINE P == \A m \in 1 .. Len(missions) : MovesWell(m)
<1>1. TypeInv /\ [Next]_vars => TypeInv'
  BY TypeStep
<1>2. TypeInv /\ [Next]_vars => [P]_vars
  BY MoveStep
<1>3. Spec => [][P]_vars
  BY <1>1, <1>2, InitTypes, PTL DEF Spec
<1> QED
  BY <1>3 DEF MovedPackHasSold
=============================================================================
