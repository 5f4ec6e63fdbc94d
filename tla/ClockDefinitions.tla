-------------------------- MODULE ClockDefinitions --------------------------
(***************************************************************************)
(* How one mode's clocks come to be: engine._build_clocks replays the      *)
(* create_clock commands in one pass and the create_generated_clock        *)
(* commands in a second, then engine._audit_clocks walks the resulting     *)
(* dict once and decides which clocks downstream analysis may use.         *)
(*                                                                         *)
(* A command is a record of what its selectors and options resolved to;    *)
(* each pass takes the next one from a set, which yields every program up  *)
(* to MaxCommands (a command with parse errors or opaque substitutions     *)
(* defines nothing and is not represented).  A clock's waveform is         *)
(* abstracted to its period and a generated transform to a divisor.        *)
(* Clock objects are shared and mutated in the code, so the dict maps a    *)
(* name to an index of `objects' and not to a record.                      *)
(***************************************************************************)
EXTENDS ClockGraph, Integers, Sequences, FiniteSets

CONSTANTS
  Design,             \* the mode's structural index
  ClockNames,         \* names a -name option may give
  NoName,             \* -name / -master_clock not given
  PointRank,          \* string order on Ports \cup Pins, for default names
  Periods,            \* what -period may decode to
  NoPeriod,           \* the None of an absent or undecodable period
  PrimaryCommands,    \* create_clock commands
  GeneratedCommands,  \* create_generated_clock commands
  MaxCommands         \* bound on the length of the program

Points == Ports \cup Pins

Names == ClockNames \cup Points

ASSUME ClockConstants ==
  /\ Design \in DesignIndex
  /\ PointRank \in [Points -> Nat]
  /\ Periods \subseteq Int /\ NoPeriod \notin Int
  /\ NoName \notin Names
  /\ PrimaryCommands \subseteq
       [name : ClockNames \cup {NoName}, targets : SUBSET Points,
        period : Periods \cup {NoPeriod}, add : BOOLEAN, malformed : BOOLEAN]
  /\ GeneratedCommands \subseteq
       [name : ClockNames \cup {NoName}, targets : SUBSET Points,
        source : SUBSET Points, master : Names \cup {NoName},
        divide : Nat \ {0}, add : BOOLEAN, malformed : BOOLEAN]
  /\ \A cmd \in PrimaryCommands \cup GeneratedCommands :
       cmd.name = NoName => cmd.targets # {}
  /\ MaxCommands \in Nat

VARIABLES
  pass,              \* "primary", "generated", "audit", "report", "done"
  objects,           \* every Clock built, in program order
  accepted,          \* history: definitions without a problem, as written
  order,             \* the keys of state.clocks in dict order
  clocks,            \* state.clocks: name -> index of objects
  invalid_clocks,
  duplicate_clocks,  \* pairs of indices of objects
  clock_reach,       \* names audited so far -> names and paths reached
  valid_clocks,
  findings           \* pairs <<rule, index of the clock object>>

vars == <<pass, objects, accepted, order, clocks, invalid_clocks,
          duplicate_clocks, clock_reach, valid_clocks, findings>>

buildVars == <<objects, accepted, order, clocks, invalid_clocks, duplicate_clocks>>
auditVars == <<clock_reach, valid_clocks>>

Init ==
  /\ pass = "primary"
  /\ objects = <<>> /\ accepted = {}
  /\ order = <<>> /\ clocks = [n \in {} |-> 0]
  /\ invalid_clocks = {} /\ duplicate_clocks = {}
  /\ clock_reach = [n \in {} |-> {}]
  /\ valid_clocks = {} /\ findings = {}

-----------------------------------------------------------------------------
Defined == DOMAIN clocks

ClockOf(name) == objects[clocks[name]]

ReachedObjects(targets) ==
  targets \cup Reach(Design, targets) \cup ReachPins(Design, targets)

(* The first target in string order names a clock defined without -name.   *)
(* (With no target either, the code makes up a name no other command has,  *)
(* for an invalid definition; such commands are left out.)                 *)
ClockName(cmd) ==
  IF cmd.name # NoName THEN cmd.name
  ELSE CHOOSE t \in cmd.targets :
         \A u \in cmd.targets : PointRank[t] <= PointRank[u]

(* _derive_generated_clock_timing, for -divide_by.                         *)
DerivedPeriod(period, divide) ==
  IF period = NoPeriod \/ period <= 0 THEN NoPeriod ELSE period * divide

(* _clock_signature; the targets are compared only for OC2003's severity.  *)
SameDefinition(a, b) ==
  /\ a.period = b.period /\ a.generated = b.generated
  /\ a.source = b.source /\ a.master = b.master /\ a.divide = b.divide

(* A redefined name keeps its place in the dict.                           *)
OrderWith(name) == IF name \in Defined THEN order ELSE Append(order, name)

(* An additive merge; the faulty variant replaces the targets.             *)
TargetsReplaced(old, new) == new

TargetsMerged(old, new) == old \cup new

(* What a definition replaces is kept beside it for OC2003; the faulty     *)
(* variant overlooks a generated clock that takes a primary clock's name.  *)
RedefinitionOfItsKind(name, this) ==
  IF name \in Defined /\ ClockOf(name).generated THEN {<<clocks[name], this>>} ELSE {}

Redefinition(name, this) == IF name \in Defined THEN {<<clocks[name], this>>} ELSE {}

(* The tail both passes share: merge an additive redefinition, or store    *)
(* the clock under its name, in place if the name is already a key.        *)
Record(name, clock, add, invalid) ==
  LET this  == Len(objects) + 1
      known == name \in Defined
      merge == known /\ add /\ SameDefinition(ClockOf(name), clock)
      built == Append(objects, clock)
  IN  /\ accepted' = accepted \cup IF invalid THEN {} ELSE {[at |-> this, clock |-> clock]}
      /\ \/ /\ merge /\ invalid
            /\ objects' = built
            /\ invalid_clocks' = invalid_clocks \cup {name}
            /\ UNCHANGED <<order, clocks, duplicate_clocks>>
         \/ /\ merge /\ ~invalid
            /\ objects' = [built EXCEPT ![clocks[name]].targets = TargetsMerged(@, clock.targets)]
            /\ UNCHANGED <<order, clocks, invalid_clocks, duplicate_clocks>>
         \/ /\ ~merge
            /\ objects' = built
            /\ order' = OrderWith(name)
            /\ clocks' = [n \in Defined \cup {name} |-> IF n = name THEN this ELSE clocks[n]]
            /\ duplicate_clocks' = duplicate_clocks \cup Redefinition(name, this)
            /\ invalid_clocks' =
                 IF invalid THEN invalid_clocks \cup {name} ELSE invalid_clocks \ {name}

(* create_clock.  `malformed' stands for a literal, waveform, selector     *)
(* kind or positional problem; one finding stands for OC2006 and, for a    *)
(* bad waveform, OC2005.  An absent period is no problem here: the audit   *)
(* reports it.                                                             *)
DefinePrimary(cmd) ==
  LET invalid == \/ cmd.malformed
                 \/ cmd.name = NoName /\ (cmd.targets = {} \/ cmd.add)
      clock   == [name |-> ClockName(cmd), targets |-> cmd.targets,
                  period |-> cmd.period, generated |-> FALSE, source |-> {},
                  master |-> NoName, divide |-> 1]
  IN  /\ pass = "primary" /\ Len(objects) < MaxCommands
      /\ Record(ClockName(cmd), clock, cmd.add, invalid)
      /\ findings' = findings \cup
           IF invalid THEN {<<"OC2006", Len(objects) + 1>>} ELSE {}
      /\ UNCHANGED <<pass, clock_reach, valid_clocks>>

EndPrimaryPass ==
  /\ pass = "primary" /\ pass' = "generated"
  /\ UNCHANGED <<buildVars, auditVars, findings>>

(* create_generated_clock.  The master is the -master_clock named, if it   *)
(* is one defined and not invalid, or else the single clock that reaches   *)
(* the source, recorded even if it has no period to derive one from; the   *)
(* period is copied from it now, as a number.                              *)
SourceCandidates(cmd, name) ==
  {n \in Defined \ invalid_clocks :
     n # name /\ cmd.source \cap ReachedObjects(ClockOf(n).targets) # {}}

DefineGenerated(cmd) ==
  LET name       == ClockName(cmd)
      malformed  == \/ cmd.malformed \/ cmd.targets = {}
                    \/ Cardinality(cmd.source) # 1
                    \/ cmd.add /\ (cmd.name = NoName \/ cmd.master = NoName)
      badMaster  == cmd.master # NoName /\ cmd.master \notin Defined \ invalid_clocks
      reaching   == SourceCandidates(cmd, name)
      ambiguous  == cmd.master = NoName /\ Cardinality(reaching) > 1
      candidates == CASE badMaster             -> {}
                      [] cmd.master = NoName   -> reaching
                      [] OTHER                 -> reaching \cap {cmd.master}
      invalid    == malformed \/ badMaster \/ ambiguous
      sources    == IF invalid \/ Cardinality(candidates) # 1 THEN {} ELSE candidates
      period     == IF sources = {} THEN NoPeriod
                    ELSE LET s == CHOOSE n \in sources : TRUE
                         IN  DerivedPeriod(ClockOf(s).period, cmd.divide)
      master     == IF cmd.master # NoName THEN IF badMaster THEN NoName ELSE cmd.master
                    ELSE IF sources # {} THEN CHOOSE n \in sources : TRUE ELSE NoName
      clock      == [name |-> name, targets |-> cmd.targets, period |-> period,
                     generated |-> TRUE, source |-> cmd.source,
                     master |-> master, divide |-> cmd.divide]
  IN  /\ pass = "generated" /\ Len(objects) < MaxCommands
      /\ Record(name, clock, cmd.add, invalid)
      /\ findings' = findings \cup
           IF invalid THEN {<<"OC2012", Len(objects) + 1>>} ELSE {}
      /\ UNCHANGED <<pass, clock_reach, valid_clocks>>

EndGeneratedPass ==
  /\ pass = "generated" /\ pass' = "audit"
  /\ UNCHANGED <<buildVars, auditVars, findings>>

-----------------------------------------------------------------------------
(* A generated clock's master must be found among the reaches recorded so  *)
(* far.  Faulty variants: only nets count, or all clocks are looked at.    *)
MastersByNet(clock, name, reach) ==
  {m \in DOMAIN reach \ {name} : /\ clock.source \cap reach[m] \cap Nets # {}
                                 /\ clock.master # NoName => m = clock.master}

MastersAnywhere(clock, name, reach) ==
  {m \in Defined \ {name} : /\ clock.source \cap ReachedObjects(ClockOf(m).targets) # {}
                            /\ clock.master # NoName => m = clock.master}

Masters(clock, name, reach) ==
  {m \in DOMAIN reach \ {name} : /\ clock.source \cap reach[m] # {}
                                 /\ clock.master # NoName => m = clock.master}

(* One iteration of _audit_clocks, which visits the dict once.             *)
AuditClock ==
  LET name    == order[Cardinality(DOMAIN clock_reach) + 1]
      clock   == ClockOf(name)
      reach   == [n \in DOMAIN clock_reach \cup {name} |->
                    IF n = name THEN ReachedObjects(clock.targets) ELSE clock_reach[n]]
      broken  == {rule \in {"OC2001", "OC2010", "OC2011"} :
                    CASE rule = "OC2001" -> clock.period = NoPeriod \/ clock.period <= 0
                      [] rule = "OC2010" -> clock.generated /\ clock.source = {}
                      [] rule = "OC2011" -> clock.generated /\ Masters(clock, name, reach) = {}}
  IN  /\ pass = "audit" /\ Cardinality(DOMAIN clock_reach) < Len(order)
      /\ clock_reach' = reach
      /\ findings' = findings \cup {<<rule, clocks[name]>> : rule \in broken}
      /\ valid_clocks' = IF broken = {} /\ name \notin invalid_clocks
                         THEN valid_clocks \cup {name} ELSE valid_clocks
      /\ UNCHANGED <<pass, buildVars>>

EndAudit ==
  /\ pass = "audit" /\ Cardinality(DOMAIN clock_reach) = Len(order)
  /\ pass' = "report"
  /\ UNCHANGED <<buildVars, auditVars, findings>>

(* OC2003 for every redefinition; its severity compares the two objects as *)
(* they are by now, with the targets later -add commands gave them.        *)
ReportDuplicates ==
  /\ pass = "report" /\ pass' = "done"
  /\ findings' = findings \cup
       {<<IF SameDefinition(objects[d[1]], objects[d[2]])
              /\ objects[d[1]].targets = objects[d[2]].targets
          THEN "OC2003 warning" ELSE "OC2003 error", d[2]>> : d \in duplicate_clocks}
  /\ UNCHANGED <<buildVars, auditVars>>

Next ==
  \/ \E cmd \in PrimaryCommands : DefinePrimary(cmd)
  \/ EndPrimaryPass
  \/ \E cmd \in GeneratedCommands : DefineGenerated(cmd)
  \/ EndGeneratedPass
  \/ AuditClock
  \/ EndAudit
  \/ ReportDuplicates

Spec == Init /\ [][Next]_vars

-----------------------------------------------------------------------------
(* No accepted definition disappears without a trace: its targets and      *)
(* timing are those of the clock the name stands for now, or a later       *)
(* command redefined that name and the pair is kept for OC2003.  The merge *)
(* of `-add' and the in-place replacement of the dict entry both threaten  *)
(* it.                                                                     *)
NoSilentLoss ==
  \A a \in accepted :
    LET now == ClockOf(a.clock.name)
    IN  \/ /\ a.clock.targets \subseteq now.targets
           /\ \A field \in {"period", "generated", "source", "master", "divide"} :
                a.clock[field] = now[field]
        \/ \E d \in duplicate_clocks : d[2] > a.at /\ objects[d[2]].name = a.clock.name

(* OC2003 told of a redefinition of the name, by the object from or later. *)
ToldRedefined(name, from) ==
  \E f \in findings : /\ f[1] \in {"OC2003 warning", "OC2003 error"}
                      /\ f[2] >= from /\ objects[f[2]].name = name

(* Building and auditing are two judgements of one relationship, made at   *)
(* different times from different state: a generated clock whose period    *)
(* could be derived from a master is told by OC2011 that its master does   *)
(* not reach it only if OC2003 says why, a redefinition of the clock       *)
(* itself, which keeps the old place in the order of the audit, or a later *)
(* one of its master, which may reach something else.                      *)
BuildAndAuditAgree ==
  pass = "done" =>
    \A n \in Defined \ invalid_clocks :
      ClockOf(n).generated /\ ClockOf(n).period # NoPeriod =>
        \/ n \in valid_clocks
        \/ ToldRedefined(n, clocks[n])
        \/ ToldRedefined(ClockOf(n).master, clocks[n])

(* A generated period is a number copied from the master when the command  *)
(* is processed.  For a valid clock it is at the end still the period of   *)
(* the clock its master's name stands for, times the divisor; if it is a   *)
(* stale copy, OC2003 reports a later redefinition of that master.         *)
DerivedPeriodCurrent ==
  pass = "done" =>
    \A n \in valid_clocks : ClockOf(n).generated =>
      LET master == ClockOf(n).master
      IN  /\ master \in Defined
          /\ \/ /\ ClockOf(master).period # NoPeriod
                /\ ClockOf(n).period = ClockOf(master).period * ClockOf(n).divide
             \/ ToldRedefined(master, clocks[n])

(* Redefinitions can make two generated clocks each other's master; the    *)
(* order of the audit must keep such a ring from being valid, or every     *)
(* clock in it would rest on no primary clock at all.                      *)
NoValidMasterRing ==
  \A S \in (SUBSET valid_clocks) \ {{}} :
    \E n \in S : ~ClockOf(n).generated \/ ClockOf(n).master \notin S

=============================================================================
