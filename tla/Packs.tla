--------------------------------- MODULE Packs ---------------------------------
(***************************************************************************)
(* Which execution pack a mission gets: the pack its words ask for, and    *)
(* what the outcomes of earlier missions change about it.  Everything here *)
(* is a function of the tallies of the missions; Intake runs it.           *)
(*                                                                         *)
(* The code computes with decimals rounded to two places: a rate is here a *)
(* number of hundredths, a priority a number of thousandths.               *)
(***************************************************************************)
EXTENDS Integers, FiniteSets, FiniteSetsExt

\* The packs, each with its place in the list the code goes through.
Place == [offer |-> 1, outreach |-> 2, content |-> 3, landing |-> 4, launch |-> 5, generic |-> 6]

Pack == DOMAIN Place

\* The pack a text asks for: the first in the list whose words are in it.
PackOf(words) ==
    CHOOSE p \in words \cup {"generic"} :
        \A q \in words \cup {"generic"} : Place[p] <= Place[q]

\* What is known of a pack.  "rows" are the missions that hold such a pack;
\* "generated" counts those that hold none as generic too.
Tallies == [rows : Nat, success : Nat, failure : Nat,
            generated : Nat, completed : Nat, sales : Nat, revenue : Nat]

\* Those that missions add up to: revenue comes of sales, and what is completed
\* was generated.
SoundTallies == {t \in Tallies : /\ t.sales = 0 => t.revenue = 0
                                 /\ t.completed <= t.generated}

\* A quotient to the nearest integer, a tie to the even one.
Rounded(num, den) ==
    LET q == num \div den
        twice == 2 * (num % den)
    IN  IF twice > den \/ (twice = den /\ q % 2 = 1) THEN q + 1 ELSE q

Hundredths(part, whole) == IF whole = 0 THEN 0 ELSE Rounded(100 * part, whole)

AtLeastOne(n) == IF n = 0 THEN 1 ELSE n

-----------------------------------------------------------------------------
(* How a mission's action counts.  An action is [status, word, signal]:    *)
(* what the owner said of it, and whether a result was written down.       *)

Words == {"none", "worked", "failed", "idle"}
Actions == [status : {"pending", "in_progress", "done", "skipped"},
            word : Words, signal : BOOLEAN]

\* "failed" contains the letters of "worked": it counts as a success as well.
IsSuccess(a) == a.status = "done" \/ a.word \in {"worked", "failed"} \/ a.signal

IsFailure(a, pack) ==
    \/ a.word = "failed"
    \/ a.status = "skipped" /\ (a.word = "idle" \/ pack # "generic")
    \/ a.status \in {"done", "skipped"} /\ ~a.signal

IsCompleted(a) == a.status \in {"done", "skipped"}

-----------------------------------------------------------------------------
(* What the tallies say.                                                   *)

SignalMin == 4      \* MIN_SAMPLES_FOR_SIGNAL
ConfidenceMin == 8  \* MIN_SAMPLES_FOR_CONFIDENCE

TotalRevenue(tally) ==
    tally["offer"].revenue + tally["outreach"].revenue + tally["content"].revenue
    + tally["landing"].revenue + tally["launch"].revenue + tally["generic"].revenue

\* Completed missions outweigh sales: the two weights are exchanged.
Priority_Busy(tally, p) ==
    LET n == AtLeastOne(tally[p].generated)
    IN  2 * Hundredths(tally[p].sales, n)
        + 3 * Hundredths(tally[p].revenue, TotalRevenue(tally))
        + 5 * Hundredths(tally[p].completed, n)

\* Half for the sales, three tenths for the share of the revenue, two tenths
\* for the missions brought to an end.
Priority(tally, p) ==
    LET n == AtLeastOne(tally[p].generated)
    IN  5 * Hundredths(tally[p].sales, n)
        + 3 * Hundredths(tally[p].revenue, TotalRevenue(tally))
        + 2 * Hundredths(tally[p].completed, n)

Mode(t) ==
    IF t.rows >= 3 /\ Hundredths(t.failure, t.rows) >= 50 THEN "clarify"
    ELSE IF t.rows >= 3 /\ Hundredths(t.success, t.rows) >= 60 THEN "preferred"
    ELSE "normal"

\* The best pack: of those with the highest priority the first in the list.
Best(tally) ==
    CHOOSE p \in Pack :
        \A q \in Pack : \/ Priority(tally, p) > Priority(tally, q)
                       \/ /\ Priority(tally, p) = Priority(tally, q)
                          /\ Place[p] <= Place[q]

\* How far ahead the other pack must be, by the smaller number of samples.
NeededDelta(n) == IF n >= ConfidenceMin THEN 220 ELSE 360

\* Whether the best pack may replace the one asked for.  The code adds two
\* decimals: whether a tie is reached depends on their representation, and
\* "tie" says that it is.
OverrideAllowed(tally, base, best, tie) ==
    LET n == Min({tally[base].generated, tally[best].generated})
        ahead == Priority(tally, best) - Priority(tally, base)
    IN  /\ n >= SignalMin
        /\ Priority(tally, best) >= 350
        /\ ahead > NeededDelta(n) \/ (ahead = NeededDelta(n) /\ tie)

\* The pack a run gives a mission whose words ask for base.
LearnedPack(tally, base, tie) ==
    IF Mode(tally[base]) = "clarify" THEN "generic"
    ELSE LET best == Best(tally)
         IN  IF best # base /\ OverrideAllowed(tally, base, best, tie) THEN best ELSE base

=============================================================================
