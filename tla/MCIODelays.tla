----------------------------- MODULE MCIODelays -----------------------------
(***************************************************************************)
(* An input a, an inout b, a clock port ck that carries the clock c, and a *)
(* virtual clock v.                                                        *)
(***************************************************************************)
EXTENDS IODelays

SomePorts == {"a", "b", "ck"}
PortDirection == [p \in SomePorts |-> IF p = "b" THEN Kinds ELSE {"input"}]
OnlyCk == {"ck"}
TwoClocks == {"c", "v"}
TargetsOf == [c \in TwoClocks |-> IF c = "c" THEN {"ck"} ELSE {}]
OnePin == {"a"}

Plain ==
  [ kind |-> "input", targets |-> {"a"}, value |-> 1, clocks |-> {"c"}, clocksValid |-> TRUE,
    edge |-> "rise", pin |-> NoPin, pinValid |-> TRUE, senses |-> Senses,
    transitions |-> Transitions, additive |-> FALSE, malformed |-> FALSE ]

(* Values that cross each other in one relationship.                       *)
Crossing ==
  {[Plain EXCEPT !.value = v, !.senses = s, !.additive = add] :
     v \in {1, 2}, s \in {{"min"}, {"max"}, Senses}, add \in BOOLEAN}

(* Other relationships of the same port, and slots of a single transition. *)
Others ==
  {[Plain EXCEPT !.clocks = r[1], !.edge = r[2], !.additive = add] :
     r \in {<<{"v"}, "rise">>, <<{"c"}, "fall">>, <<{}, "rise">>, <<{}, "fall">>},
     add \in BOOLEAN}
  \cup {[Plain EXCEPT !.transitions = {"rise"}, !.senses = {"max"}, !.value = v] : v \in {1, 2}}

Wide ==
  {[Plain EXCEPT !.targets = {"a", "b"}, !.kind = k, !.pin = pin] :
     k \in Kinds, pin \in {NoPin, "a"}}
  \cup {[Plain EXCEPT !.targets = {"a", "b", "ck"}]}

Rejected ==
  { [Plain EXCEPT !.value = NoValue], [Plain EXCEPT !.targets = {"ck"}],
    [Plain EXCEPT !.clocks = {"c", "v"}, !.clocksValid = FALSE],
    [Plain EXCEPT !.pinValid = FALSE, !.targets = {"b"}],
    [Plain EXCEPT !.malformed = TRUE] }

SomeCommands == Crossing \cup Others \cup Wide \cup Rejected
=============================================================================
