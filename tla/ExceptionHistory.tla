-------------------------- MODULE ExceptionHistory --------------------------
(***************************************************************************)
(* The timing exceptions of one mode: engine._collect_nonclock_constraints *)
(* replays set_false_path, set_multicycle_path, set_max_delay,             *)
(* set_min_delay and set_clock_groups in file order, with -reset_path      *)
(* removing earlier ones, and _audit_exceptions and _audit_multicycles     *)
(* judge what is left.                                                     *)
(*                                                                         *)
(* state.exceptions and state.multicycles are lists that are only appended *)
(* to and filtered.  They are kept here as sets of records that carry the  *)
(* position `at' of the command they come from.  A diagnostic location is  *)
(* the line only: parse_tcl gives every command column 1, so commands that *)
(* a semicolon separates share a location.  A scope is the resolved from   *)
(* and to objects and the end transition (-rise, -fall); the edges of the  *)
(* two sides and the through lists are left out.                           *)
(***************************************************************************)
EXTENDS Integers, FiniteSets

CONSTANTS
  Objects,       \* cells, ports, pins and clocks
  NoMultiplier,  \* the None of an undecodable multiplier
  PathCommands,  \* exception commands, see PathCommand
  GroupCommands, \* well-formed set_clock_groups commands, see GroupCommand
  MaxProgram,    \* bound on the length of the program
  SharedLines    \* whether a semicolon may put two commands on a line

Edges == {"rise", "fall", "rise_fall"}
AnalysisSenses == {"setup", "hold"}

(* A side that is not given resolves to no object; so does one whose       *)
(* selector matches nothing.  `problems' stands for the other definition   *)
(* problems of _exception_from_command.                                    *)
PathCommand ==
  [ kind : {"false_path", "multicycle_path", "max_delay", "min_delay"},
    from : SUBSET Objects, fromGiven : BOOLEAN,
    to : SUBSET Objects, toGiven : BOOLEAN,
    edge : Edges, senses : (SUBSET AnalysisSenses) \ {{}},
    multiplier : Int \cup {NoMultiplier},
    startEnd : {"default", "start", "end", "both"},
    reset : BOOLEAN, problems : BOOLEAN ]

(* At least two non-empty disjoint groups; any other command adds nothing. *)
GroupCommand ==
  {c \in [groups : SUBSET (SUBSET Objects), allowPaths : BOOLEAN] :
     /\ \E g, h \in c.groups : g # h
     /\ \A g \in c.groups : g # {}
     /\ \A g, h \in c.groups : g # h => g \cap h = {}}

ASSUME ExceptionConstants ==
  /\ NoMultiplier \notin Int
  /\ PathCommands \subseteq PathCommand
  /\ \A c \in PathCommands : /\ c.from # {} => c.fromGiven
                             /\ c.to # {} => c.toGiven
                             /\ c.kind = "max_delay" => c.senses = {"setup"}
                             /\ c.kind = "min_delay" => c.senses = {"hold"}
                             /\ c.kind # "multicycle_path" => c.multiplier = NoMultiplier
  /\ GroupCommands \subseteq GroupCommand
  /\ MaxProgram \in Nat /\ SharedLines \in BOOLEAN

VARIABLES
  exceptions,   \* state.exceptions
  multicycles,  \* state.multicycles
  program,      \* history: every exception ever appended
  line,         \* line of the last command
  count,        \* number of commands replayed
  reported      \* <<rule, ...>>, filled by the audit; NotAudited before

exceptionVars == <<exceptions, multicycles, program, line, count, reported>>

NotAudited == {<<"not audited">>}

Unconstrained ==
  /\ exceptions = {} /\ multicycles = {} /\ program = {}
  /\ line = 0 /\ count = 0 /\ reported = NotAudited

-----------------------------------------------------------------------------
(* _collect_multicycle rejects the value or the -start/-end pair.          *)
BadReferenceOnly(cmd) ==   \* faulty variant
  cmd.kind = "multicycle_path" /\ cmd.startEnd = "both"

BadMulticycle(cmd) ==
  /\ cmd.kind = "multicycle_path"
  /\ \/ cmd.multiplier = NoMultiplier
     \/ "setup" \in cmd.senses /\ cmd.multiplier < 1
     \/ "hold" \in cmd.senses /\ cmd.multiplier < 0
     \/ cmd.startEnd = "both"

DefinitionValid(cmd) ==
  /\ ~cmd.problems /\ ~BadMulticycle(cmd)
  /\ cmd.fromGiven \/ cmd.toGiven \/ cmd.edge # "rise_fall"

ScopeResolvable(cmd) ==
  /\ DefinitionValid(cmd)
  /\ cmd.fromGiven => cmd.from # {}
  /\ cmd.toGiven => cmd.to # {}

(* The signature _reset_prior_exceptions compares: not whether a side was  *)
(* given, only what it resolved to.                                        *)
Signature(e) == <<e.from, e.to, e.edge>>

Resets(reset, e) ==
  /\ e.kind # "clock_group"
  /\ Signature(e) = Signature(reset)
  /\ e.senses \cap reset.senses # {}

(* _Multicycle.effective_reference.                                        *)
Reference(m) ==
  IF m.startEnd # "default" THEN m.startEnd
  ELSE IF m.senses = {"hold"} THEN "start" ELSE "end"

(* The lines a command may start on: its own, or after a semicolon.        *)
NextLines == {line + 1} \cup IF SharedLines /\ count > 0 THEN {line} ELSE {}

(* What _exception_from_command and _collect_multicycle make of a command. *)
ExceptionAt(cmd, l) ==
  [ kind |-> cmd.kind, from |-> cmd.from, to |-> cmd.to,
    fromGiven |-> cmd.fromGiven, toGiven |-> cmd.toGiven,
    edge |-> cmd.edge, senses |-> cmd.senses,
    multiplier |-> IF BadMulticycle(cmd) THEN NoMultiplier ELSE cmd.multiplier,
    startEnd |-> cmd.startEnd, resets |-> cmd.reset /\ DefinitionValid(cmd),
    resolvable |-> ScopeResolvable(cmd), at |-> count + 1, line |-> l ]

RemovedOfKind(e) ==   \* faulty variant: only exceptions of its own kind
  IF e.resets THEN {p \in exceptions : Resets(e, p) /\ p.kind = e.kind} ELSE {}

Removed(e) == IF e.resets THEN {p \in exceptions : Resets(e, p)} ELSE {}

(* Multicycles are filtered by the location of what was removed.  The      *)
(* faulty variant forgets them.                                            *)
RetainedAlways(m, removed) == TRUE

Retained(m, removed) == ~ \E p \in removed : p.line = m.line

(* A path exception command: the multicycle record is appended first, then *)
(* -reset_path filters both lists, and the exception is appended last.     *)
AddPath(cmd) ==
  /\ reported = NotAudited /\ count < MaxProgram
  /\ \E l \in NextLines :
       LET e         == ExceptionAt(cmd, l)
           collected == multicycles \cup
                          IF cmd.kind = "multicycle_path" /\ ~BadMulticycle(cmd) THEN {e} ELSE {}
       IN  /\ exceptions' = (exceptions \ Removed(e)) \cup {e}
           /\ multicycles' = {m \in collected : Retained(m, Removed(e))}
           /\ program' = program \cup {e}
           /\ line' = l
  /\ count' = count + 1 /\ UNCHANGED reported

(* set_clock_groups cuts every ordered pair of its groups; _exception_     *)
(* scope_resolvable leaves the pairs of -allow_paths out of the audit.     *)
CutAt(g, h, cmd, l) ==
  [ kind |-> "clock_group", from |-> g, to |-> h, fromGiven |-> TRUE, toGiven |-> TRUE,
    edge |-> "rise_fall", senses |-> AnalysisSenses, multiplier |-> NoMultiplier,
    startEnd |-> "default", resets |-> FALSE, resolvable |-> ~cmd.allowPaths,
    at |-> count + 1, line |-> l ]

AddGroups(cmd) ==
  /\ reported = NotAudited /\ count < MaxProgram
  /\ \E l \in NextLines :
       LET pairs == {p \in cmd.groups \X cmd.groups : p[1] # p[2]}
           cuts  == {CutAt(p[1], p[2], cmd, l) : p \in pairs}
       IN  /\ exceptions' = exceptions \cup cuts
           /\ program' = program \cup cuts
           /\ line' = l
  /\ count' = count + 1 /\ UNCHANGED <<multicycles, reported>>

-----------------------------------------------------------------------------
(* _audit_exceptions: an empty side is unrestricted; not in the faulty     *)
(* variant.                                                                *)
SidesIntersect(S, T) == S \cap T # {}

SidesOverlap(S, T) == S = {} \/ T = {} \/ S \cap T # {}

EdgesOverlap(e, f) == e = f \/ "rise_fall" \in {e, f}

ScopesOverlap(a, b) ==
  /\ a.resolvable /\ b.resolvable
  /\ SidesOverlap(a.from, b.from) /\ SidesOverlap(a.to, b.to)
  /\ a.senses \cap b.senses # {}
  /\ EdgesOverlap(a.edge, b.edge)

Judged(a, b) ==
  \/ a.kind = b.kind
  \/ {a.kind, b.kind} \in {{"false_path", "multicycle_path"},
                           {"clock_group", "multicycle_path"},
                           {"clock_group", "false_path"}}

Overlaps ==
  {<<"OC4001", p[1], p[2]>> : p \in
     {p \in exceptions \X exceptions :
        /\ p[1].at < p[2].at
        /\ ~(p[1].line = p[2].line /\ p[1].kind = "clock_group" /\ p[2].kind = "clock_group")
        /\ ScopesOverlap(p[1], p[2]) /\ Judged(p[1], p[2])}}

(* _audit_multicycles: each multiplier is compared with the last one seen  *)
(* for its scope, reference and phase.                                     *)
SameSenses(a, b, phase) ==   \* faulty variant: setup-only is not setup of both
  /\ Signature(a) = Signature(b) /\ Reference(a) = Reference(b)
  /\ a.senses = b.senses /\ phase \in a.senses

SamePhase(a, b, phase) ==
  /\ Signature(a) = Signature(b) /\ Reference(a) = Reference(b)
  /\ phase \in a.senses \cap b.senses

Conflicts ==
  {<<"OC4012", t[1], t[2], t[3]>> : t \in
     {u \in multicycles \X multicycles \X AnalysisSenses :
        LET prev == u[1] item == u[2] phase == u[3]
        IN  /\ prev.at < item.at /\ prev.resolvable /\ item.resolvable
            /\ SamePhase(prev, item, phase) /\ prev.multiplier # item.multiplier
            /\ ~ \E m \in multicycles : /\ prev.at < m.at /\ m.at < item.at
                                        /\ m.resolvable /\ SamePhase(m, item, phase)}}

Unpaired ==
  {<<"OC4011", s>> : s \in
     {m \in multicycles :
        /\ m.resolvable /\ "setup" \in m.senses /\ m.multiplier > 1
        /\ \/ m.senses = AnalysisSenses
           \/ ~ \E h \in multicycles : /\ h.resolvable /\ h.senses = {"hold"}
                                       /\ Signature(h) = Signature(m)
                                       /\ h.multiplier = m.multiplier - 1}}

Audit ==
  /\ reported = NotAudited
  /\ reported' = Overlaps \cup Conflicts \cup Unpaired
  /\ UNCHANGED <<exceptions, multicycles, program, line, count>>

HistoryStep ==
  \/ \E cmd \in PathCommands : AddPath(cmd)
  \/ \E cmd \in GroupCommands : AddGroups(cmd)
  \/ Audit

ExceptionReplay == Unconstrained /\ [][HistoryStep]_exceptionVars

-----------------------------------------------------------------------------
ExceptionRecord ==
  [ kind : {"false_path", "multicycle_path", "max_delay", "min_delay", "clock_group"},
    from : SUBSET Objects, fromGiven : BOOLEAN,
    to : SUBSET Objects, toGiven : BOOLEAN,
    edge : Edges, senses : (SUBSET AnalysisSenses) \ {{}},
    multiplier : Int \cup {NoMultiplier},
    startEnd : {"default", "start", "end", "both"},
    resets : BOOLEAN, resolvable : BOOLEAN, at : Nat, line : Nat ]

(* Both lists hold well-formed records of commands that were replayed, and *)
(* the multicycle list only decoded multipliers.                           *)
TypeOK ==
  /\ exceptions \subseteq ExceptionRecord /\ program \subseteq ExceptionRecord
  /\ multicycles \subseteq {e \in program : e.kind = "multicycle_path" /\ e.multiplier \in Int}
  /\ line \in Nat /\ count \in 0..MaxProgram

(* The two lists tell one story: while no two commands share a line, the   *)
(* multicycles that _audit_multicycles judges are exactly those among the  *)
(* exceptions that _audit_exceptions judges.  The code keeps them in step  *)
(* by location although it never compares a multicycle with a reset.       *)
MulticyclesFollowExceptions ==
  ~SharedLines =>
    multicycles = {e \in exceptions : e.kind = "multicycle_path" /\ e.multiplier # NoMultiplier}

(* What the whole history says of an exception: it stands unless a later   *)
(* valid -reset_path command of any path kind covers its scope in a common *)
(* sense.  No reset reaches a clock-group cut, one that comes after it, or *)
(* the exception that carries it.                                          *)
Stands(e) ==
  \/ e.kind = "clock_group"
  \/ ~ \E r \in program :
         /\ r.resets /\ e.at < r.at
         /\ r.from = e.from /\ r.to = e.to /\ r.edge = e.edge
         /\ r.senses \cap e.senses # {}

(* Replaying in place gives what the whole history says.                   *)
ResetHistoryExact == exceptions = {e \in program : Stands(e)}

(* An end of a path is all the objects by which an exception can name it:  *)
(* its launch clock, its start pin and the cell of that pin, for example.  *)
Paths == [from : SUBSET Objects, to : SUBSET Objects, edge : {"rise", "fall"},
          sense : AnalysisSenses]

Covers(e, path) ==
  /\ e.resolvable
  /\ e.fromGiven => e.from \cap path.from # {}
  /\ e.toGiven => e.to \cap path.to # {}
  /\ e.edge \in {path.edge, "rise_fall"}
  /\ path.sense \in e.senses

(* Two exceptions that both give an end of the path name it by the same    *)
(* object.                                                                 *)
NamedAlike(a, b, path) ==
  /\ a.fromGiven /\ b.fromGiven => a.from \cap b.from \cap path.from # {}
  /\ a.toGiven /\ b.toGiven => a.to \cap b.to \cap path.to # {}

(* docs/rules/OC4001.md:9-12, 32-36: OC4001 names two exceptions, of kinds *)
(* that it compares, exactly if by the whole history both still stand and  *)
(* there is a path that both apply to and name alike.  The pairwise set    *)
(* tests of _audit_exceptions so miss no such path and invent none; that   *)
(* exceptions which name one end by different objects, such as a clock and *)
(* a pin it launches from, are not compared is the approximation the page  *)
(* speaks of.                                                              *)
OverlapsReported ==
  ~SharedLines /\ reported # NotAudited =>
    \A a, b \in program : a.at < b.at /\ Judged(a, b) =>
      (<<"OC4001", a, b>> \in reported <=>
         /\ Stands(a) /\ Stands(b)
         /\ \E path \in Paths : Covers(a, path) /\ Covers(b, path) /\ NamedAlike(a, b, path))

(* docs/rules/OC4012.md: the active multicycles of one scope, reference    *)
(* and phase have one multiplier, or an OC4012 says so, although each is   *)
(* compared with a single predecessor only.                                *)
ConflictsReported ==
  reported # NotAudited =>
    \A a, b \in {e \in exceptions : e.kind = "multicycle_path" /\ e.resolvable} :
      \A phase \in a.senses \cap b.senses :
        (Signature(a) = Signature(b) /\ Reference(a) = Reference(b) /\ a.multiplier # b.multiplier)
          => \E f \in reported : /\ f[1] = "OC4012" /\ f[4] = phase
                                 /\ Signature(f[2]) = Signature(a)
                                 /\ Reference(f[2]) = Reference(a)

=============================================================================
