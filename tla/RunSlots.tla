------------------------------ MODULE RunSlots ------------------------------
(***************************************************************************)
(* What the background run manager promises, without threads, events or    *)
(* tables: a mission has one slot, at most one run holds it, a run holds   *)
(* at most one slot in its life, and what became of the run is decided     *)
(* once, by the holder, when it gives the slot up.  A restart of the       *)
(* process loses the runs that hold a slot.                                *)
(***************************************************************************)
CONSTANTS Task, RunId, NoRun

VARIABLES
  holder,  \* [Task -> RunId \cup {NoRun}]
  verdict  \* [RunId -> Verdict]

slots == <<holder, verdict>>

Decided == {"completed", "failed", "cancelled"}
Verdict == {"none", "live", "lost"} \cup Decided

Init ==
  /\ holder = [t \in Task |-> NoRun]
  /\ verdict = [r \in RunId |-> "none"]

Admit(t, r) ==
  /\ holder[t] = NoRun
  /\ verdict[r] = "none"
  /\ holder' = [holder EXCEPT ![t] = r]
  /\ verdict' = [verdict EXCEPT ![r] = "live"]

Decide(t, v) ==
  /\ holder[t] # NoRun
  /\ holder' = [holder EXCEPT ![t] = NoRun]
  /\ verdict' = [verdict EXCEPT ![holder[t]] = v]

Restart ==
  /\ holder' = [t \in Task |-> NoRun]
  /\ verdict' = [r \in RunId |-> IF verdict[r] = "live" THEN "lost" ELSE verdict[r]]

Next ==
  \/ \E t \in Task, r \in RunId : Admit(t, r)
  \/ \E t \in Task, v \in Decided : Decide(t, v)
  \/ Restart

Spec == Init /\ [][Next]_slots
=============================================================================
