------------------------ MODULE MCExceptionHistory --------------------------
(***************************************************************************)
(* Two objects (clocks, so that groups, sides and scopes can all name      *)
(* them).  A side is absent, given and empty, one object or both.          *)
(***************************************************************************)
EXTENDS ExceptionHistory

TwoClocks == {"c", "d"}

Command(kind, from, to, edge, senses, multiplier, reset) ==
  [ kind |-> kind, from |-> from[1], fromGiven |-> from[2], to |-> to[1], toGiven |-> to[2],
    edge |-> edge, senses |-> senses, multiplier |-> multiplier,
    startEnd |-> "default", reset |-> reset, problems |-> FALSE ]

Absent == <<{}, FALSE>>
Empty  == <<{}, TRUE>>
Only(S) == <<S, TRUE>>

Multicycles ==
  {Command("multicycle_path", f, Only({"d"}), "rise_fall", s, m, FALSE) :
     f \in {Absent, Empty, Only({"c"}), Only({"c", "d"})},
     s \in {{"setup"}, {"hold"}, AnalysisSenses}, m \in {1, 2}}
  \cup
  {Command("multicycle_path", f, Only({"d"}), "rise_fall", s, 2, TRUE) :
     f \in {Empty, Only({"c"})}, s \in {{"setup"}, AnalysisSenses}}

OddMulticycles ==
  {[Command("multicycle_path", Only({"c"}), Only({"d"}), "rise_fall", {"setup"}, p[1], TRUE)
      EXCEPT !.startEnd = p[2]] :
     p \in {<<0, "default">>, <<NoMultiplier, "default">>, <<2, "both">>, <<1, "start">>}}

FalsePaths ==
  {Command("false_path", f, t, "rise_fall", AnalysisSenses, NoMultiplier, r) :
     f \in {Absent, Only({"c"})}, t \in {Absent, Only({"d"})}, r \in BOOLEAN}
  \cup
  {Command("false_path", Only({"c"}), Only({"d"}), "rise", AnalysisSenses, NoMultiplier, r) :
     r \in BOOLEAN}
  \cup
  {Command("false_path", Only({"d"}), t, "rise_fall", AnalysisSenses, NoMultiplier, FALSE) :
     t \in {Absent, Only({"c"})}}

Delays ==
  {Command(IF s = "setup" THEN "max_delay" ELSE "min_delay", Only({"c"}), Only({"d"}),
           "rise_fall", {s}, NoMultiplier, r) : s \in AnalysisSenses, r \in BOOLEAN}

Broken == {[Command("false_path", Only({"c"}), Only({"d"}), "rise_fall", AnalysisSenses, NoMultiplier, TRUE)
              EXCEPT !.problems = TRUE]}

SomePaths == Multicycles \cup OddMulticycles \cup FalsePaths \cup Delays \cup Broken

SomeGroups == [groups : {{{"c"}, {"d"}}}, allowPaths : BOOLEAN]
=============================================================================
