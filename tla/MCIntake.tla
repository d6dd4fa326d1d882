-------------------------------- MODULE MCIntake --------------------------------
(* Intake for model checking: four texts and two histories of the office. *)
(* In one the pack of the second text sells; in the other that of the third
   text fails, and another is busy without selling. *)
EXTENDS Intake

Text(has, words, type) == [has |-> has, words |-> words, type |-> type, length |-> 300, names |-> {}]

MCTexts == {Text({"noise"}, {}, "none"),
            Text({"acts", "verbs", "risky"}, {"landing"}, "product"),
            Text({"acts"}, {"content"}, "marketing"),
            Text({"question"}, {}, "none")}

MCAnswers == {Nil, [intent |-> "task", decision |-> "create", conf |-> 45, asks |-> FALSE, omits |-> {}],
              [intent |-> "task", decision |-> "attach", conf |-> 30, asks |-> TRUE, omits |-> {"risky"}]}

Unknown == [rows |-> 0, success |-> 0, failure |-> 0,
            generated |-> 0, completed |-> 0, sales |-> 0, revenue |-> 0]
Idle == [Unknown EXCEPT !.rows = 4, !.generated = 4]
Selling == [Idle EXCEPT !.success = 3, !.completed = 3, !.sales = 1]
Busy == [Idle EXCEPT !.success = 4, !.completed = 4]
Failing == [Idle EXCEPT !.rows = 2, !.failure = 1]

MCPasts == {[[p \in Pack |-> Unknown] EXCEPT !.content = Idle, !.landing = Selling],
            [[p \in Pack |-> Unknown] EXCEPT !.content = Failing, !.landing = Idle, !.offer = Busy]}
=============================================================================
