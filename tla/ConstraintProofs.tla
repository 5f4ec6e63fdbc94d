-------------------------- MODULE ConstraintProofs --------------------------
(***************************************************************************)
(* The path exceptions and the I/O delays of a mode, for any commands and  *)
(* any number of them.                                                     *)
(*                                                                         *)
(* Exceptions: the two lists that are kept and filtered in place say what  *)
(* the whole history says, and the audit of pairs finds exactly the pairs  *)
(* with a common path that both name alike.                                *)
(*                                                                         *)
(* I/O delays: the two replays of the delay commands, the audit's and the  *)
(* one coverage is computed from, both compute the storage rule; hence     *)
(* they agree, and what the audit reports as overwritten is what the rule  *)
(* says was lost.                                                          *)
(***************************************************************************)
EXTENDS ExceptionHistory, IODelays, FiniteSetTheorems, WellFoundedInduction, TLAPS

-----------------------------------------------------------------------------
(* What the two collectors build is a well-typed exception.                *)
LEMMA ExceptionAtType ==
  ASSUME NEW cmd \in PathCommands, NEW l \in Nat, count \in Nat
  PROVE  ExceptionAt(cmd, l) \in ExceptionRecord
BY ExceptionConstants DEF ExceptionAt, ExceptionRecord, PathCommand, Edges,
   DefinitionValid, ScopeResolvable, BadMulticycle

LEMMA CutAtType ==
  ASSUME NEW cmd \in GroupCommands, NEW g \in cmd.groups, NEW h \in cmd.groups,
         NEW l \in Nat, count \in Nat
  PROVE  CutAt(g, h, cmd, l) \in ExceptionRecord
<1>1. cmd \in [groups : SUBSET (SUBSET Objects), allowPaths : BOOLEAN]
  BY ExceptionConstants DEF GroupCommand
<1>2. g \subseteq Objects /\ h \subseteq Objects /\ (~cmd.allowPaths) \in BOOLEAN
  BY <1>1
<1>3. AnalysisSenses \in (SUBSET AnalysisSenses) \ {{}}
  BY DEF AnalysisSenses
<1>4. NoMultiplier \in Int \cup {NoMultiplier} /\ "rise_fall" \in Edges
  BY DEF Edges
<1> QED  BY <1>2, <1>3, <1>4 DEF CutAt, ExceptionRecord

LEMMA NextLinesType ==
  ASSUME line \in Nat
  PROVE  NextLines \subseteq Nat
BY DEF NextLines

-----------------------------------------------------------------------------
(* Type correctness.                                                       *)
LEMMA TypeStep ==
  ASSUME TypeOK, [HistoryStep]_exceptionVars
  PROVE  TypeOK'
<1> USE ExceptionConstants DEF TypeOK
<1>0. count \in Nat /\ line \in Nat /\ NextLines \subseteq Nat
  BY NextLinesType
<1>1. ASSUME NEW cmd \in PathCommands, AddPath(cmd)
      PROVE  TypeOK'
  <2>1. PICK l \in NextLines :
          /\ exceptions' = (exceptions \ Removed(ExceptionAt(cmd, l))) \cup {ExceptionAt(cmd, l)}
          /\ multicycles' = {m \in multicycles \cup
                               IF cmd.kind = "multicycle_path" /\ ~BadMulticycle(cmd)
                               THEN {ExceptionAt(cmd, l)} ELSE {} :
                               Retained(m, Removed(ExceptionAt(cmd, l)))}
          /\ program' = program \cup {ExceptionAt(cmd, l)}
          /\ line' = l
    BY <1>1 DEF AddPath
  <2>2. ExceptionAt(cmd, l) \in ExceptionRecord
    BY <1>0, ExceptionAtType
  <2>3. exceptions' \subseteq ExceptionRecord /\ program' \subseteq ExceptionRecord
    BY <2>1, <2>2
  <2>4. cmd.kind = "multicycle_path" /\ ~BadMulticycle(cmd) =>
          /\ ExceptionAt(cmd, l).kind = "multicycle_path"
          /\ ExceptionAt(cmd, l).multiplier \in Int
    BY DEF ExceptionAt, BadMulticycle, PathCommand
  <2>5. multicycles' \subseteq
          {e \in program' : e.kind = "multicycle_path" /\ e.multiplier \in Int}
    BY <2>1, <2>4
  <2>6. line' \in Nat /\ count' \in 0..MaxProgram
    BY <1>0, <1>1, <2>1 DEF AddPath
  <2> QED  BY <2>3, <2>5, <2>6
<1>2. ASSUME NEW cmd \in GroupCommands, AddGroups(cmd)
      PROVE  TypeOK'
  <2>1. PICK l \in NextLines :
          /\ exceptions' = exceptions \cup
               {CutAt(p[1], p[2], cmd, l) : p \in {q \in cmd.groups \X cmd.groups : q[1] # q[2]}}
          /\ program' = program \cup
               {CutAt(p[1], p[2], cmd, l) : p \in {q \in cmd.groups \X cmd.groups : q[1] # q[2]}}
          /\ line' = l
    BY <1>2 DEF AddGroups
  <2>2. {CutAt(p[1], p[2], cmd, l) : p \in {q \in cmd.groups \X cmd.groups : q[1] # q[2]}}
          \subseteq ExceptionRecord
    BY <1>0, CutAtType
  <2>3. exceptions' \subseteq ExceptionRecord /\ program' \subseteq ExceptionRecord
    BY <2>1, <2>2
  <2>4. line' \in Nat /\ count' \in 0..MaxProgram /\ multicycles' = multicycles
    BY <1>0, <1>2, <2>1 DEF AddGroups
  <2> QED  BY <2>1, <2>3, <2>4
<1>3. CASE Audit
  BY <1>3 DEF Audit
<1>4. CASE UNCHANGED exceptionVars
  BY <1>4 DEF exceptionVars
<1> QED  BY <1>1, <1>2, <1>3, <1>4 DEF HistoryStep

(* Every exception and multicycle the replay keeps is well typed, and the  *)
(* multicycles all carry a decoded multiplier.                             *)
THEOREM TypeCorrect == ExceptionReplay => []TypeOK
<1>1. Unconstrained => TypeOK
  BY ExceptionConstants DEF Unconstrained, TypeOK
<1>2. TypeOK /\ [HistoryStep]_exceptionVars => TypeOK'
  BY TypeStep
<1> QED  BY <1>1, <1>2, PTL DEF ExceptionReplay

-----------------------------------------------------------------------------
(* Positions order the history: nothing is as late as the next command,    *)
(* only the cuts of one set_clock_groups share a position, and without     *)
(* shared lines a position and a line are one number.                      *)
Positions ==
  /\ \A e \in program : e.at <= count
  /\ \A e, f \in program : e.at = f.at /\ e.kind # "clock_group" => e = f
  /\ \A e \in program : e.kind = "clock_group" => ~e.resets
  /\ ~SharedLines => line = count /\ \A e \in program : e.line = e.at

IInv == Positions /\ MulticyclesFollowExceptions /\ ResetHistoryExact

LEMMA PathStep ==
  ASSUME TypeOK, IInv, NEW cmd \in PathCommands, AddPath(cmd)
  PROVE  IInv'
<1>1. PICK l \in NextLines :
        /\ exceptions' = (exceptions \ Removed(ExceptionAt(cmd, l))) \cup {ExceptionAt(cmd, l)}
        /\ multicycles' = {m \in multicycles \cup
                             IF cmd.kind = "multicycle_path" /\ ~BadMulticycle(cmd)
                             THEN {ExceptionAt(cmd, l)} ELSE {} :
                             Retained(m, Removed(ExceptionAt(cmd, l)))}
        /\ program' = program \cup {ExceptionAt(cmd, l)}
        /\ line' = l
  BY DEF AddPath
<1> DEFINE e == ExceptionAt(cmd, l)
<1>2. /\ e.at = count + 1 /\ e.line = l /\ e.kind = cmd.kind
      /\ e.multiplier = (IF BadMulticycle(cmd) THEN NoMultiplier ELSE cmd.multiplier)
  BY DEF ExceptionAt
<1>3. count \in Nat /\ line \in Nat /\ count' = count + 1 /\ l \in Nat
  BY NextLinesType, ExceptionConstants DEF TypeOK, AddPath
<1>4. cmd.kind # "clock_group" /\ (cmd.kind = "multicycle_path" /\ ~BadMulticycle(cmd)
                                     => cmd.multiplier # NoMultiplier)
  BY ExceptionConstants DEF PathCommand, BadMulticycle
<1>5. \A f \in program : f.at \in Nat /\ f.at < e.at
  BY <1>2, <1>3 DEF IInv, Positions, TypeOK, ExceptionRecord
<1>6. Removed(e) \subseteq exceptions /\ exceptions \subseteq program
  BY DEF Removed, IInv, ResetHistoryExact
<1> HIDE DEF e
<1>7. Positions'
  <2>1. /\ \A f \in program' : f.at <= count'
        /\ \A f, g \in program' : f.at = g.at /\ f.kind # "clock_group" => f = g
        /\ \A f \in program' : f.kind = "clock_group" => ~f.resets
    BY <1>1, <1>2, <1>3, <1>4, <1>5 DEF IInv, Positions, e
  <2>2. ~SharedLines => line' = count' /\ \A f \in program' : f.line = f.at
    BY <1>1, <1>2, <1>3 DEF IInv, Positions, NextLines, e
  <2> QED  BY <2>1, <2>2 DEF Positions
<1>8. MulticyclesFollowExceptions'
  <2> SUFFICES ASSUME ~SharedLines
               PROVE  multicycles' = {f \in exceptions' : f.kind = "multicycle_path"
                                                           /\ f.multiplier # NoMultiplier}
    BY DEF MulticyclesFollowExceptions
  <2>1. multicycles = {f \in exceptions : f.kind = "multicycle_path" /\ f.multiplier # NoMultiplier}
    BY DEF IInv, MulticyclesFollowExceptions
  <2>2. \A f \in program : f.line = f.at
    BY DEF IInv, Positions
  <2>3. \A p \in Removed(e) : p.kind # "clock_group"
    BY DEF Removed, Resets
  <2>4. ASSUME NEW m \in multicycles
        PROVE  Retained(m, Removed(e)) <=> m \notin Removed(e)
    BY <1>6, <2>1, <2>2, <2>3 DEF Retained, IInv, Positions
  <2>5. l = e.at
    BY <1>2, <1>3 DEF IInv, Positions, NextLines
  <2>6. Retained(e, Removed(e))
    BY <1>2, <1>5, <1>6, <2>2, <2>5 DEF Retained
  <2>7. e \notin exceptions
    BY <1>5, <1>6, <1>2, <1>3
  <2> QED  BY <1>1, <1>2, <1>4, <2>1, <2>4, <2>6, <2>7 DEF e
<1>9. ResetHistoryExact'
  <2>1. \A f \in exceptions : f \in Removed(e) <=>
          /\ e.resets /\ f.kind # "clock_group"
          /\ e.from = f.from /\ e.to = f.to /\ e.edge = f.edge
          /\ e.senses \cap f.senses # {}
    BY DEF Removed, Resets, Signature
  <2>2. \A r \in program' : ~(e.at < r.at)
    BY <1>1, <1>2, <1>3, <1>5 DEF e
  <2>3. exceptions' = (exceptions \ Removed(e)) \cup {e} /\ program' = program \cup {e}
    BY <1>1 DEF e
  <2>4. e \notin exceptions
    BY <1>5, <1>6, <1>2, <1>3
  <2> QED  BY <1>5, <2>1, <2>2, <2>3, <2>4 DEF IInv, ResetHistoryExact, Stands
<1> QED  BY <1>7, <1>8, <1>9 DEF IInv

LEMMA GroupsStep ==
  ASSUME TypeOK, IInv, NEW cmd \in GroupCommands, AddGroups(cmd)
  PROVE  IInv'
<1>1. PICK l \in NextLines :
        /\ exceptions' = exceptions \cup
             {CutAt(p[1], p[2], cmd, l) : p \in {q \in cmd.groups \X cmd.groups : q[1] # q[2]}}
        /\ program' = program \cup
             {CutAt(p[1], p[2], cmd, l) : p \in {q \in cmd.groups \X cmd.groups : q[1] # q[2]}}
        /\ line' = l
  BY DEF AddGroups
<1> DEFINE cuts ==
      {CutAt(p[1], p[2], cmd, l) : p \in {q \in cmd.groups \X cmd.groups : q[1] # q[2]}}
<1>2. exceptions' = exceptions \cup cuts /\ program' = program \cup cuts
  BY <1>1
<1>3. \A c \in cuts : /\ c.at = count + 1 /\ c.line = l
                      /\ c.kind = "clock_group" /\ c.resets = FALSE
  BY DEF CutAt
<1>4. count \in Nat /\ line \in Nat /\ count' = count + 1 /\ multicycles' = multicycles
  BY ExceptionConstants DEF TypeOK, AddGroups
<1>5. \A f \in program : f.at \in Nat /\ f.at < count + 1
  BY <1>4 DEF IInv, Positions, TypeOK, ExceptionRecord
<1> HIDE DEF cuts
<1>6. Positions'
  <2>1. /\ \A f \in program' : f.at <= count'
        /\ \A f, g \in program' : f.at = g.at /\ f.kind # "clock_group" => f = g
        /\ \A f \in program' : f.kind = "clock_group" => ~f.resets
    BY <1>2, <1>3, <1>4, <1>5 DEF IInv, Positions
  <2>2. ~SharedLines => line' = count' /\ \A f \in program' : f.line = f.at
    BY <1>1, <1>2, <1>3, <1>4 DEF IInv, Positions, NextLines
  <2> QED  BY <2>1, <2>2 DEF Positions
<1>7. MulticyclesFollowExceptions'
  BY <1>2, <1>3, <1>4 DEF IInv, MulticyclesFollowExceptions
<1>8. ResetHistoryExact'
  BY <1>2, <1>3, <1>5 DEF IInv, ResetHistoryExact, Stands
<1> QED  BY <1>6, <1>7, <1>8 DEF IInv

LEMMA ReplayInvariant == ExceptionReplay => []IInv
<1>1. Unconstrained => IInv
  BY DEF Unconstrained, IInv, Positions, MulticyclesFollowExceptions, ResetHistoryExact
<1>2. TypeOK /\ IInv /\ [HistoryStep]_exceptionVars => IInv'
  <2> SUFFICES ASSUME TypeOK, IInv, [HistoryStep]_exceptionVars
               PROVE  IInv'
    OBVIOUS
  <2>1. CASE Audit
    BY <2>1 DEF Audit, IInv, Positions, MulticyclesFollowExceptions, ResetHistoryExact, Stands
  <2>2. CASE UNCHANGED exceptionVars
    BY <2>2 DEF exceptionVars, IInv, Positions, MulticyclesFollowExceptions, ResetHistoryExact, Stands
  <2> QED  BY <2>1, <2>2, PathStep, GroupsStep DEF HistoryStep
<1> QED  BY <1>1, <1>2, TypeCorrect, PTL DEF ExceptionReplay

(* While no two commands share a line, the multicycle list is the          *)
(* multicycle part of the exception list after every replay.               *)
THEOREM ListsStayInStep == ExceptionReplay => []MulticyclesFollowExceptions
BY ReplayInvariant, PTL DEF IInv

(* -reset_path removes exactly the earlier exceptions of its scope.        *)
THEOREM ResetsAreExact == ExceptionReplay => []ResetHistoryExact
BY ReplayInvariant, PTL DEF IInv

-----------------------------------------------------------------------------
(* What OC4001 finds.  Only a given side has objects, and it has some if   *)
(* the scope resolves; the reported are what the audit computes from the   *)
(* lists as they are.                                                      *)
GivenSides ==
  \A e \in program :
    /\ (e.from # {} => e.fromGiven) /\ (e.to # {} => e.toGiven)
    /\ e.resolvable => (e.fromGiven => e.from # {}) /\ (e.toGiven => e.to # {})

OverlapsKept == reported # NotAudited => reported = Overlaps \cup Conflicts \cup Unpaired

LEMMA GivenSidesStep ==
  ASSUME GivenSides, [HistoryStep]_exceptionVars
  PROVE  GivenSides'
<1>1. ASSUME NEW cmd \in PathCommands, AddPath(cmd)
      PROVE  GivenSides'
  <2>1. PICK l \in NextLines : program' = program \cup {ExceptionAt(cmd, l)}
    BY <1>1 DEF AddPath
  <2> QED  BY <2>1, ExceptionConstants DEF GivenSides, ExceptionAt, ScopeResolvable
<1>2. ASSUME NEW cmd \in GroupCommands, AddGroups(cmd)
      PROVE  GivenSides'
  <2>1. PICK l \in NextLines : program' = program \cup
          {CutAt(p[1], p[2], cmd, l) : p \in {q \in cmd.groups \X cmd.groups : q[1] # q[2]}}
    BY <1>2 DEF AddGroups
  <2>2. cmd \in GroupCommand
    BY ExceptionConstants
  <2>3. \A p \in {q \in cmd.groups \X cmd.groups : q[1] # q[2]} : p[1] # {} /\ p[2] # {}
    BY <2>2 DEF GroupCommand
  <2> QED  BY <2>1, <2>3 DEF GivenSides, CutAt
<1>3. CASE Audit
  BY <1>3 DEF Audit, GivenSides
<1>4. CASE UNCHANGED exceptionVars
  BY <1>4 DEF exceptionVars, GivenSides
<1> QED  BY <1>1, <1>2, <1>3, <1>4 DEF HistoryStep

LEMMA OverlapsKeptStep ==
  ASSUME OverlapsKept, [HistoryStep]_exceptionVars
  PROVE  OverlapsKept'
<1>1. ASSUME NEW cmd \in PathCommands, AddPath(cmd)
      PROVE  OverlapsKept'
  BY <1>1 DEF AddPath, OverlapsKept, NotAudited
<1>2. ASSUME NEW cmd \in GroupCommands, AddGroups(cmd)
      PROVE  OverlapsKept'
  BY <1>2 DEF AddGroups, OverlapsKept, NotAudited
<1>3. ASSUME exceptions' = exceptions, multicycles' = multicycles
      PROVE  Overlaps' = Overlaps /\ Conflicts' = Conflicts /\ Unpaired' = Unpaired
  BY <1>3 DEF Overlaps, Conflicts, Unpaired
<1>4. CASE Audit
  BY <1>3, <1>4 DEF Audit, OverlapsKept
<1>5. CASE UNCHANGED exceptionVars
  BY <1>3, <1>5 DEF exceptionVars, OverlapsKept, NotAudited
<1> QED  BY <1>1, <1>2, <1>4, <1>5 DEF HistoryStep

(* Two exceptions pass every test of a pair in _audit_exceptions exactly   *)
(* if there is a path that both apply to and name alike.                   *)
LEMMA OverlapIsCommonPath ==
  ASSUME TypeOK, GivenSides, NEW a \in program, NEW b \in program
  PROVE  ScopesOverlap(a, b) <=>
           \E path \in Paths : Covers(a, path) /\ Covers(b, path) /\ NamedAlike(a, b, path)
<1>1. /\ a \in ExceptionRecord /\ b \in ExceptionRecord
      /\ a.from \subseteq Objects /\ b.from \subseteq Objects
      /\ a.to \subseteq Objects /\ b.to \subseteq Objects
      /\ a.senses \subseteq AnalysisSenses /\ a.edge \in Edges /\ b.edge \in Edges
  BY DEF TypeOK, ExceptionRecord
<1>2. ASSUME NEW path \in Paths, Covers(a, path), Covers(b, path), NamedAlike(a, b, path)
      PROVE  ScopesOverlap(a, b)
  <2>1. SidesOverlap(a.from, b.from)
    BY <1>2 DEF NamedAlike, GivenSides, SidesOverlap
  <2>2. SidesOverlap(a.to, b.to)
    BY <1>2 DEF NamedAlike, GivenSides, SidesOverlap
  <2>3. EdgesOverlap(a.edge, b.edge)
    BY <1>2 DEF Covers, EdgesOverlap
  <2>4. a.resolvable /\ b.resolvable /\ a.senses \cap b.senses # {}
    BY <1>2 DEF Covers
  <2> QED  BY <2>1, <2>2, <2>3, <2>4 DEF ScopesOverlap
<1>3. ASSUME ScopesOverlap(a, b)
      PROVE  \E path \in Paths :
               Covers(a, path) /\ Covers(b, path) /\ NamedAlike(a, b, path)
  <2>1. /\ a.resolvable /\ b.resolvable
        /\ a.from = {} \/ b.from = {} \/ a.from \cap b.from # {}
        /\ a.to = {} \/ b.to = {} \/ a.to \cap b.to # {}
        /\ a.edge = b.edge \/ a.edge = "rise_fall" \/ b.edge = "rise_fall"
    BY <1>3 DEF ScopesOverlap, SidesOverlap, EdgesOverlap
  <2>2. PICK s \in AnalysisSenses : s \in a.senses /\ s \in b.senses
    BY <1>1, <1>3 DEF ScopesOverlap
  <2>3. PICK edge \in {"rise", "fall"} :
          a.edge \in {edge, "rise_fall"} /\ b.edge \in {edge, "rise_fall"}
    BY <1>1, <2>1 DEF Edges
  <2> DEFINE path == [from |-> a.from \cup b.from, to |-> a.to \cup b.to,
                      edge |-> edge, sense |-> s]
  <2>4. path \in Paths
    BY <1>1, <2>2, <2>3 DEF Paths
  <2>5. /\ path.from = a.from \cup b.from /\ path.to = a.to \cup b.to
        /\ path.edge = edge /\ path.sense = s
    OBVIOUS
  <2> HIDE DEF path
  <2>6. /\ (a.fromGiven => a.from # {}) /\ (a.toGiven => a.to # {})
        /\ (b.fromGiven => b.from # {}) /\ (b.toGiven => b.to # {})
    BY <2>1 DEF GivenSides
  <2>7. Covers(a, path) /\ Covers(b, path)
    <3>1. /\ a.from \cap path.from = a.from /\ a.to \cap path.to = a.to
          /\ b.from \cap path.from = b.from /\ b.to \cap path.to = b.to
      BY <2>5
    <3> QED  BY <2>1, <2>2, <2>3, <2>5, <2>6, <3>1 DEF Covers
  <2>8. NamedAlike(a, b, path)
    <3>1. /\ a.from \cap b.from \cap path.from = a.from \cap b.from
          /\ a.to \cap b.to \cap path.to = a.to \cap b.to
      BY <2>5
    <3> QED  BY <2>1, <2>6, <3>1 DEF NamedAlike
  <2> QED  BY <2>4, <2>7, <2>8
<1> QED  BY <1>2, <1>3

(* While no two commands share a line, OC4001 names two exceptions of      *)
(* comparable kinds exactly if the whole history leaves both standing and  *)
(* a path is claimed by both under one name at each end that both give     *)
(* (OverlapsReported).                                                     *)
THEOREM OverlapsMatchHistory == ExceptionReplay => []OverlapsReported
<1>1. Unconstrained => GivenSides /\ OverlapsKept
  BY DEF Unconstrained, GivenSides, OverlapsKept
<1>2. GivenSides /\ OverlapsKept /\ [HistoryStep]_exceptionVars => (GivenSides /\ OverlapsKept)'
  BY GivenSidesStep, OverlapsKeptStep
<1>3. TypeOK /\ IInv /\ GivenSides /\ OverlapsKept => OverlapsReported
  <2> SUFFICES ASSUME TypeOK, IInv, GivenSides, OverlapsKept,
                      ~SharedLines, reported # NotAudited,
                      NEW a \in program, NEW b \in program, a.at < b.at, Judged(a, b)
               PROVE  <<"OC4001", a, b>> \in reported <=>
                        /\ Stands(a) /\ Stands(b)
                        /\ \E path \in Paths :
                             Covers(a, path) /\ Covers(b, path) /\ NamedAlike(a, b, path)
    BY DEF OverlapsReported
  <2>1. /\ a \in exceptions <=> Stands(a)
        /\ b \in exceptions <=> Stands(b)
    BY DEF IInv, ResetHistoryExact
  <2>2. a.line # b.line
    BY DEF IInv, Positions, TypeOK, ExceptionRecord
  <2>3. ScopesOverlap(a, b) <=>
          \E path \in Paths : Covers(a, path) /\ Covers(b, path) /\ NamedAlike(a, b, path)
    BY OverlapIsCommonPath
  <2> DEFINE found == <<"OC4001", a, b>>
  <2>4. found \in reported <=> found \in Overlaps
    <3>1. \A f \in Conflicts \cup Unpaired : f[1] # "OC4001"
      BY DEF Conflicts, Unpaired
    <3>2. found[1] = "OC4001"
      OBVIOUS
    <3> HIDE DEF found
    <3> QED  BY <3>1, <3>2 DEF OverlapsKept
  <2>5. found \in Overlaps <=> a \in exceptions /\ b \in exceptions /\ ScopesOverlap(a, b)
    <3>1. ASSUME found \in Overlaps
          PROVE  a \in exceptions /\ b \in exceptions /\ ScopesOverlap(a, b)
      <4>1. PICK p \in exceptions \X exceptions :
              ScopesOverlap(p[1], p[2]) /\ found = <<"OC4001", p[1], p[2]>>
        BY <3>1 DEF Overlaps
      <4>2. p[1] = a /\ p[2] = b
        BY <4>1
      <4> QED  BY <4>1, <4>2
    <3>2. ASSUME a \in exceptions, b \in exceptions, ScopesOverlap(a, b)
          PROVE  found \in Overlaps
      <4> DEFINE p == <<a, b>>
      <4>1. p \in exceptions \X exceptions /\ p[1] = a /\ p[2] = b
        BY <3>2
      <4> QED  BY <2>2, <3>2, <4>1 DEF Overlaps
    <3> QED  BY <3>1, <3>2
  <2> HIDE DEF found
  <2> QED  BY <2>1, <2>3, <2>4, <2>5 DEF found
<1> QED  BY <1>1, <1>2, <1>3, TypeCorrect, ReplayInvariant, PTL DEF ExceptionReplay

-----------------------------------------------------------------------------
(* The completeness of OC4012.  The reported hold every conflict of the    *)
(* list they were computed from, and an exception whose scope resolves has *)
(* a multiplier if it is a multicycle.                                     *)
ConflictsKept == reported # NotAudited => Conflicts \subseteq reported

Decoded ==
  \A e \in program : e.kind = "multicycle_path" /\ e.resolvable => e.multiplier # NoMultiplier

LEMMA ConflictsKeptStep ==
  ASSUME ConflictsKept, [HistoryStep]_exceptionVars
  PROVE  ConflictsKept'
<1>1. ASSUME NEW cmd \in PathCommands, AddPath(cmd)
      PROVE  ConflictsKept'
  BY <1>1 DEF AddPath, ConflictsKept, NotAudited
<1>2. ASSUME NEW cmd \in GroupCommands, AddGroups(cmd)
      PROVE  ConflictsKept'
  BY <1>2 DEF AddGroups, ConflictsKept, NotAudited
<1>3. CASE Audit
  <2>1. Conflicts' = Conflicts
    BY <1>3 DEF Audit, Conflicts
  <2> QED  BY <1>3, <2>1 DEF Audit, ConflictsKept
<1>4. CASE UNCHANGED exceptionVars
  <2>1. Conflicts' = Conflicts
    BY <1>4 DEF exceptionVars, Conflicts
  <2> QED  BY <1>4, <2>1 DEF exceptionVars, ConflictsKept, NotAudited
<1> QED  BY <1>1, <1>2, <1>3, <1>4 DEF HistoryStep

LEMMA DecodedStep ==
  ASSUME Decoded, [HistoryStep]_exceptionVars
  PROVE  Decoded'
<1>1. ASSUME NEW cmd \in PathCommands, AddPath(cmd)
      PROVE  Decoded'
  <2>1. PICK l \in NextLines : program' = program \cup {ExceptionAt(cmd, l)}
    BY <1>1 DEF AddPath
  <2> DEFINE e == ExceptionAt(cmd, l)
  <2>2. e.kind = "multicycle_path" /\ e.resolvable => e.multiplier # NoMultiplier
    BY DEF ExceptionAt, ScopeResolvable, DefinitionValid, BadMulticycle
  <2> HIDE DEF e
  <2> QED  BY <2>1, <2>2 DEF Decoded, e
<1>2. ASSUME NEW cmd \in GroupCommands, AddGroups(cmd)
      PROVE  Decoded'
  <2>1. PICK l \in NextLines : program' = program \cup
          {CutAt(p[1], p[2], cmd, l) : p \in {q \in cmd.groups \X cmd.groups : q[1] # q[2]}}
    BY <1>2 DEF AddGroups
  <2> QED  BY <2>1 DEF Decoded, CutAt
<1>3. CASE Audit
  BY <1>3 DEF Audit, Decoded
<1>4. CASE UNCHANGED exceptionVars
  BY <1>4 DEF exceptionVars, Decoded
<1> QED  BY <1>1, <1>2, <1>3, <1>4 DEF HistoryStep

LEMMA LeastNatural ==
  ASSUME NEW T \in SUBSET Nat, T # {}
  PROVE  \E x \in T : \A y \in T : x <= y
<1> DEFINE R == OpToRel(<, Nat)
<1>1. IsWellFoundedOn(R, Nat)
  BY NatLessThanWellFounded
<1>2. \A x, y \in Nat : <<y, x>> \in R <=> y < x
  BY DEF OpToRel
<1> HIDE DEF R
<1>3. PICK x \in T : \A y \in T : ~(<<y, x>> \in R)
  BY <1>1, WFMin
<1>4. ASSUME NEW y \in T PROVE x <= y
  <2>1. x \in Nat /\ y \in Nat /\ ~(y < x)
    BY <1>2, <1>3
  <2> QED  BY <2>1
<1> QED  BY <1>3, <1>4

(* In a set of exceptions of distinct positions, two that differ in the    *)
(* multiplier have two neighbours between them that do.                    *)
LEMMA NeighboursDiffer ==
  ASSUME NEW C, \A e \in C : e.at \in Nat, \A e, f \in C : e.at = f.at => e = f,
         NEW a \in C, NEW b \in C, a.at < b.at, a.multiplier # b.multiplier
  PROVE  \E p, q \in C : /\ p.at < q.at /\ p.multiplier # q.multiplier
                         /\ ~ \E m \in C : p.at < m.at /\ m.at < q.at
<1> DEFINE T == {n \in Nat : \E q \in C : q.at = n /\ a.at < n /\ q.multiplier # a.multiplier}
<1>1. b.at \in T
  OBVIOUS
<1>2. PICK n \in T : \A y \in T : n <= y
  <2>1. T \in SUBSET Nat /\ T # {}
    BY <1>1
  <2> QED  BY <2>1, LeastNatural
<1>3. PICK q \in C : q.at = n /\ a.at < n /\ q.multiplier # a.multiplier
  OBVIOUS
<1>4. n \in Nat
  OBVIOUS
<1>5. \A m \in C : a.at < m.at /\ m.at < n => m.multiplier = a.multiplier
  <2> SUFFICES ASSUME NEW m \in C, a.at < m.at, m.at < n, m.multiplier # a.multiplier
               PROVE  FALSE
    OBVIOUS
  <2>1. m.at \in T
    OBVIOUS
  <2> QED  BY <1>2, <1>4, <2>1
<1> DEFINE U == {k \in Nat : \E p \in C : p.at + k = n /\ k > 0 /\ a.at <= p.at}
<1>6. n - a.at \in U
  <2>1. n - a.at \in Nat /\ a.at + (n - a.at) = n /\ n - a.at > 0 /\ a.at <= a.at
    BY <1>3, <1>4
  <2> QED  BY <2>1
<1>7. PICK k \in U : \A y \in U : k <= y
  <2>1. U \in SUBSET Nat /\ U # {}
    BY <1>6
  <2> QED  BY <2>1, LeastNatural
<1>8. PICK p \in C : p.at + k = n /\ k > 0 /\ a.at <= p.at
  OBVIOUS
<1>9. k \in Nat /\ p.at \in Nat /\ a.at \in Nat
  OBVIOUS
<1>10. p.at < q.at
  BY <1>3, <1>4, <1>8, <1>9
<1>11. p.multiplier = a.multiplier
  <2>1. CASE p.at = a.at
    BY <2>1
  <2>2. CASE p.at # a.at
    BY <1>3, <1>5, <1>8, <1>9, <1>10, <2>2
  <2> QED  BY <2>1, <2>2
<1>12. ASSUME NEW m \in C, p.at < m.at, m.at < q.at
       PROVE  FALSE
  <2>1. m.at \in Nat /\ n - m.at \in Nat /\ m.at + (n - m.at) = n /\ n - m.at > 0 /\ a.at <= m.at
    BY <1>3, <1>4, <1>8, <1>9, <1>12
  <2>2. n - m.at \in U
    BY <2>1
  <2>3. n - m.at < k
    BY <1>4, <1>8, <1>9, <1>12, <2>1
  <2> HIDE DEF U
  <2>4. k <= n - m.at
    BY <1>7, <2>2
  <2> QED  BY <1>9, <2>1, <2>3, <2>4
<1> HIDE DEF T, U
<1>13. p.multiplier # q.multiplier
  BY <1>3, <1>11
<1> QED  BY <1>10, <1>12, <1>13

(* While no two commands share a line, the active multicycles of a scope,  *)
(* reference and phase have one multiplier or an OC4012 of that scope and  *)
(* phase, although each is compared only with the one before it.           *)
THEOREM ConflictsAreComplete ==
  ASSUME ~SharedLines
  PROVE  ExceptionReplay => []ConflictsReported
<1>1. Unconstrained => Decoded /\ ConflictsKept
  BY DEF Unconstrained, Decoded, ConflictsKept
<1>2. Decoded /\ ConflictsKept /\ [HistoryStep]_exceptionVars => (Decoded /\ ConflictsKept)'
  BY DecodedStep, ConflictsKeptStep
<1>3. TypeOK /\ IInv /\ Decoded /\ ConflictsKept => ConflictsReported
  <2> SUFFICES ASSUME TypeOK, IInv, Decoded, ConflictsKept, reported # NotAudited,
                      NEW a \in exceptions, NEW b \in exceptions,
                      a.kind = "multicycle_path", a.resolvable,
                      b.kind = "multicycle_path", b.resolvable,
                      NEW phase \in a.senses \cap b.senses,
                      Signature(a) = Signature(b), Reference(a) = Reference(b),
                      a.multiplier # b.multiplier
               PROVE  \E f \in reported : /\ f[1] = "OC4012" /\ f[4] = phase
                                          /\ Signature(f[2]) = Signature(a)
                                          /\ Reference(f[2]) = Reference(a)
    BY DEF ConflictsReported
  <2> DEFINE C == {m \in multicycles : m.resolvable /\ SamePhase(m, a, phase)}
  <2>1. /\ exceptions \subseteq program
        /\ multicycles = {e \in exceptions : e.kind = "multicycle_path" /\ e.multiplier # NoMultiplier}
    BY DEF IInv, ResetHistoryExact, MulticyclesFollowExceptions
  <2>2. \A m \in C : /\ m \in multicycles /\ m.resolvable /\ phase \in m.senses
                     /\ Signature(m) = Signature(a) /\ Reference(m) = Reference(a)
    BY DEF SamePhase
  <2>3. a \in C /\ b \in C
    BY <2>1 DEF Decoded, SamePhase
  <2>4. C \subseteq multicycles /\ \A e \in C : e \in program /\ e.kind = "multicycle_path"
    BY <2>1
  <2>5. (\A e \in C : e.at \in Nat) /\ \A e, f \in C : e.at = f.at => e = f
    <3> HIDE DEF C
    <3> QED  BY <2>4 DEF TypeOK, ExceptionRecord, IInv, Positions
  <2>6. a.at < b.at \/ b.at < a.at
    <3> HIDE DEF C
    <3>1. a.at \in Nat /\ b.at \in Nat /\ a.at # b.at
      BY <2>3, <2>5
    <3> QED  BY <3>1
  <2>7. PICK p, q \in C : /\ p.at < q.at /\ p.multiplier # q.multiplier
                         /\ ~ \E m \in C : p.at < m.at /\ m.at < q.at
    <3> HIDE DEF C
    <3>1. CASE a.at < b.at
      BY <2>3, <2>5, <3>1, NeighboursDiffer
    <3>2. CASE b.at < a.at
      BY <2>3, <2>5, <3>2, NeighboursDiffer
    <3> QED  BY <2>6, <3>1, <3>2
  <2>8. phase \in AnalysisSenses
    BY <2>1 DEF TypeOK, ExceptionRecord
  <2> DEFINE u == <<p, q, phase>>
  <2>9. /\ u \in multicycles \X multicycles \X AnalysisSenses
        /\ u[1] = p /\ u[2] = q /\ u[3] = phase
    BY <2>4, <2>8
  <2>10. SamePhase(p, q, phase)
    BY <2>2 DEF SamePhase
  <2>11. \A m \in multicycles : m.resolvable /\ SamePhase(m, q, phase) => m \in C
    BY <2>2 DEF SamePhase
  <2> HIDE DEF u
  <2>12. <<"OC4012", u[1], u[2], u[3]>> \in Conflicts
    <3>1. p.resolvable /\ q.resolvable
      BY <2>2
    <3> HIDE DEF C
    <3> QED  BY <2>7, <2>9, <2>10, <2>11, <3>1 DEF Conflicts
  <2> DEFINE f == <<"OC4012", u[1], u[2], u[3]>>
  <2>13. f[1] = "OC4012" /\ f[2] = p /\ f[4] = phase
    BY <2>9
  <2>14. f \in reported
    BY <2>12 DEF ConflictsKept
  <2> HIDE DEF f, C
  <2> QED  BY <2>2, <2>13, <2>14
<1> QED  BY <1>1, <1>2, <1>3, TypeCorrect, ReplayInvariant, PTL DEF ExceptionReplay

-----------------------------------------------------------------------------
(* I/O delays.                                                             *)
Delay ==
  [ kind : Kinds, ports : SUBSET Ports, value : Int \cup {NoValue},
    clocks : SUBSET Clocks, edge : Transitions, pin : Pins \cup {NoPin},
    senses : (SUBSET Senses) \ {{}}, transitions : (SUBSET Transitions) \ {{}},
    additive : BOOLEAN, valid : BOOLEAN ]

Relationships == [kind : Kinds, port : Ports, clocks : SUBSET Clocks, edge : Transitions]

Typed ==
  /\ pass \in {"collect", "audit", "replay", "done"}
  /\ io_delays \in Seq(Delay)
  /\ cursor \in 0..Len(io_delays)
  /\ \A i \in DOMAIN io_delays : io_delays[i].valid =>
       io_delays[i].value \in Int /\ \A x, y \in io_delays[i].clocks : x = y

(* v is the value of a command that speaks for the slot after n commands,  *)
(* and none that does is stricter.                                         *)
AtLeastAsStrict(slot, v, w) == IF slot[2] = "min" THEN v <= w ELSE v >= w

Strictest(v, key, slot, n) ==
  /\ \E i \in Speaking(key, slot, n) : v = io_delays[i].value
  /\ \A i \in Speaking(key, slot, n) : AtLeastAsStrict(slot, v, io_delays[i].value)

(* A state of the audit that is the ledger after n commands, and an active *)
(* state of the other replay after n commands.                             *)
LedgerHistory(state, n) ==
  /\ DOMAIN state \subseteq Relationships
  /\ \A k \in DOMAIN state :
       /\ DOMAIN state[k] # {} /\ DOMAIN state[k] \subseteq AllSlots
       /\ \A s \in DOMAIN state[k] :
            /\ state[k][s] \in Speaking(k, s, n)
            /\ Strictest(io_delays[state[k][s]].value, k, s, n)
  /\ \A k \in Relationships : \A s \in AllSlots :
       Speaking(k, s, n) # {} => k \in DOMAIN state /\ s \in DOMAIN state[k]

ReplayHistory(state, n) ==
  /\ DOMAIN state \subseteq Relationships
  /\ \A k \in DOMAIN state :
       /\ DOMAIN state[k].values # {} /\ DOMAIN state[k].values \subseteq AllSlots
       /\ \A s \in DOMAIN state[k].values : Strictest(state[k].values[s], k, s, n)
  /\ \A k \in Relationships : \A s \in AllSlots :
       Speaking(k, s, n) # {} => k \in DOMAIN state /\ s \in DOMAIN state[k].values

(* What the audit has reported after n commands.                           *)
Lost(j, p) ==
  \E k \in AllKeys : \E s \in AllSlots :
    k.port = p /\ Overrules(j, k, s) /\ Speaking(k, s, j - 1) # {}

ReportsAreHistory(n) ==
  \A j \in DOMAIN io_delays : \A p \in io_delays[j].ports :
    <<"OC3014", j, p>> \in findings <=> j <= n /\ Lost(j, p)

Audited == IF pass = "collect" THEN 0 ELSE IF pass = "audit" THEN cursor ELSE Len(io_delays)

Replayed == IF pass = "replay" THEN cursor ELSE IF pass = "done" THEN Len(io_delays) ELSE 0

Inv ==
  /\ Typed
  /\ pass = "collect" => findings = {} /\ cursor = 0
  /\ LedgerHistory(ledger, Audited) /\ ReplayHistory(active, Replayed)
  /\ ReportsAreHistory(Audited)
-----------------------------------------------------------------------------
LEMMA ItemTyped ==
  ASSUME NEW cmd \in Commands
  PROVE  /\ DelayOf(cmd) \in Delay
         /\ DelayOf(cmd).valid =>
              DelayOf(cmd).value \in Int /\ \A x, y \in DelayOf(cmd).clocks : x = y
<1>1. cmd \in Command /\ (cmd.clocksValid => \A x, y \in cmd.clocks : x = y)
  BY IODelayConstants
<1>2. ValidPorts(cmd) \in SUBSET Ports
  BY <1>1 DEF ValidPorts, Command
<1> QED
  BY <1>1, <1>2 DEF DelayOf, Delay, Command, WellDefined

(* The relationships of a command, and those that a further command leaves.*)
LEMMA KeysOf ==
  ASSUME NEW item \in Delay, NEW k \in Relationships
  PROVE  /\ Keys(item) \subseteq Relationships
         /\ k \in Keys(item) <=>
              k.kind = item.kind /\ k.port \in item.ports /\ k = Key(item, k.port)
BY DEF Keys, Key, Delay, Relationships, Transitions

LEMMA SlotsOfItem ==
  ASSUME NEW item \in Delay
  PROVE  Slots(item) \subseteq AllSlots /\ Slots(item) # {}
<1>1. /\ item.senses \subseteq Senses /\ item.senses # {}
      /\ item.transitions \subseteq Transitions /\ item.transitions # {}
  BY DEF Delay
<1>2. PICK t \in item.transitions, e \in item.senses : TRUE
  BY <1>1
<1>3. <<t, e>> \in Slots(item)
  BY DEF Slots
<1> QED
  BY <1>1, <1>3 DEF Slots, AllSlots

LEMMA KeysTyped == Typed => AllKeys \subseteq Relationships
<1> SUFFICES ASSUME Typed PROVE AllKeys \subseteq Relationships
  OBVIOUS
<1>1. \A i \in DOMAIN io_delays : io_delays[i] \in Delay
  BY DEF Typed
<1>2. \A i \in DOMAIN io_delays : \A k \in Keys(io_delays[i]) : k \in Relationships
  BY <1>1 DEF Keys, Key, Delay, Relationships, Transitions
<1> QED
  BY <1>2 DEF AllKeys

LEMMA NobodySpeaksFirst ==
  ASSUME NEW k, NEW s PROVE Speaking(k, s, 0) = {}
BY DEF Speaking

(* One more command: it silences what it overrules and speaks for what it  *)
(* touches.                                                                *)
LEMMA SpeakingNext ==
  ASSUME NEW n \in Nat, NEW k, NEW s
  PROVE  Speaking(k, s, n + 1) =
           (IF Overrules(n + 1, k, s) THEN {} ELSE Speaking(k, s, n))
             \cup IF Touches(n + 1, k, s) THEN {n + 1} ELSE {}
<1>1. ASSUME NEW i \in 1..n
      PROVE  i \in Speaking(k, s, n + 1) <=> i \in Speaking(k, s, n) /\ ~Overrules(n + 1, k, s)
  <2>1. (i + 1)..(n + 1) = ((i + 1)..n) \cup {n + 1}
    OBVIOUS
  <2> QED
    BY <2>1 DEF Speaking
<1>2. n + 1 \in Speaking(k, s, n + 1) <=> Touches(n + 1, k, s)
  BY DEF Speaking
<1>3. Speaking(k, s, n) \subseteq 1..n /\ Speaking(k, s, n + 1) \subseteq (1..n) \cup {n + 1}
  BY DEF Speaking
<1>4. n + 1 \notin 1..n
  OBVIOUS
<1> QED
  BY <1>1, <1>2, <1>3, <1>4

(* What one more valid command does to who speaks, in the terms in which   *)
(* both replays decide it.                                                 *)
LEMMA SpeakingAfterItem ==
  ASSUME NEW n \in Nat, io_delays[n + 1] \in Delay, NEW k \in Relationships, NEW s \in AllSlots
  PROVE  LET item == io_delays[n + 1] IN
         /\ ~item.valid => Speaking(k, s, n + 1) = Speaking(k, s, n)
         /\ item.valid /\ k \in Keys(item) =>
              Speaking(k, s, n + 1) = IF s \notin Slots(item) THEN Speaking(k, s, n)
                                      ELSE IF item.additive THEN Speaking(k, s, n) \cup {n + 1}
                                      ELSE {n + 1}
         /\ item.valid /\ k \notin Keys(item) =>
              Speaking(k, s, n + 1) = IF ~item.additive /\ k \in Competing(item, {k}) THEN {}
                                      ELSE Speaking(k, s, n)
<1> DEFINE item == io_delays[n + 1]
<1>1. /\ Touches(n + 1, k, s) <=> item.valid /\ k \in Keys(item) /\ s \in Slots(item)
      /\ Overrules(n + 1, k, s) <=>
           /\ item.valid /\ ~item.additive /\ k.kind = item.kind /\ k.port \in item.ports
           /\ k \in Keys(item) => s \in Slots(item)
  BY DEF Touches, Overrules
<1>2. k \in Keys(item) <=>
        k.kind = item.kind /\ k.port \in item.ports /\ k = Key(item, k.port)
  BY KeysOf
<1>3. k \in Competing(item, {k}) <=>
        k.kind = item.kind /\ k.port \in item.ports /\ k # Key(item, k.port)
  BY DEF Competing
<1> HIDE DEF item
<1>4. Speaking(k, s, n + 1) =
        (IF Overrules(n + 1, k, s) THEN {} ELSE Speaking(k, s, n))
          \cup IF Touches(n + 1, k, s) THEN {n + 1} ELSE {}
  BY SpeakingNext
<1>5. item.additive \in BOOLEAN /\ item.valid \in BOOLEAN
  BY DEF Delay, item
<1>6. CASE ~item.valid
  BY <1>1, <1>4, <1>6 DEF item
<1>7. CASE item.valid /\ k \in Keys(item)
  BY <1>1, <1>2, <1>4, <1>7 DEF item
<1>8. CASE item.valid /\ k \notin Keys(item)
  BY <1>1, <1>2, <1>3, <1>4, <1>8 DEF item
<1> QED
  BY <1>5, <1>6, <1>7, <1>8

(* Who speaks is a command of the list with a value.                       *)
LEMMA SpeakersAreValid ==
  ASSUME Typed, NEW n \in 0..Len(io_delays), NEW k, NEW s, NEW i \in Speaking(k, s, n)
  PROVE  i \in 1..n /\ i \in DOMAIN io_delays /\ io_delays[i].valid /\ io_delays[i].value \in Int
<1>1. i \in 1..n /\ io_delays[i].valid
  BY DEF Speaking, Touches
<1>2. Len(io_delays) \in Nat /\ DOMAIN io_delays = 1..Len(io_delays)
  BY DEF Typed
<1>3. i \in DOMAIN io_delays
  BY <1>1, <1>2
<1> QED
  BY <1>1, <1>3 DEF Typed

(* How the strictest value of a slot changes with one more command.        *)
LEMMA StrictestNext ==
  ASSUME Typed, NEW n \in 0..(Len(io_delays) - 1), NEW k, NEW s
  PROVE  LET w == io_delays[n + 1].value IN
         /\ \A v : Strictest(v, k, s, n) /\ Speaking(k, s, n + 1) = Speaking(k, s, n) =>
              Strictest(v, k, s, n + 1)
         /\ Speaking(k, s, n + 1) = {n + 1} => Strictest(w, k, s, n + 1)
         /\ \A v : Strictest(v, k, s, n) /\ Speaking(k, s, n + 1) = Speaking(k, s, n) \cup {n + 1} =>
              /\ v \in Int /\ w \in Int
              /\ AtLeastAsStrict(s, v, w) => Strictest(v, k, s, n + 1)
              /\ AtLeastAsStrict(s, w, v) => Strictest(w, k, s, n + 1)
<1> DEFINE w == io_delays[n + 1].value
<1>0. Len(io_delays) \in Nat /\ n \in Nat /\ n \in 0..Len(io_delays) /\ n + 1 \in 0..Len(io_delays)
  BY DEF Typed
<1>1. ASSUME NEW v, Strictest(v, k, s, n), Speaking(k, s, n + 1) = Speaking(k, s, n)
      PROVE  Strictest(v, k, s, n + 1)
  BY <1>1 DEF Strictest
<1>2. ASSUME Speaking(k, s, n + 1) = {n + 1}
      PROVE  Strictest(w, k, s, n + 1)
  <2>1. w \in Int
    BY <1>0, <1>2, SpeakersAreValid
  <2>2. AtLeastAsStrict(s, w, w)
    BY <2>1 DEF AtLeastAsStrict
  <2> QED
    BY <1>2, <2>2 DEF Strictest
<1>3. ASSUME NEW v, Strictest(v, k, s, n), Speaking(k, s, n + 1) = Speaking(k, s, n) \cup {n + 1}
      PROVE  /\ v \in Int /\ w \in Int
             /\ AtLeastAsStrict(s, v, w) => Strictest(v, k, s, n + 1)
             /\ AtLeastAsStrict(s, w, v) => Strictest(w, k, s, n + 1)
  <2>1. v \in Int
    BY <1>0, <1>3, SpeakersAreValid DEF Strictest
  <2>2. w \in Int
    BY <1>0, <1>3, SpeakersAreValid
  <2>3. \A i \in Speaking(k, s, n) : io_delays[i].value \in Int
    BY <1>0, SpeakersAreValid
  <2> HIDE DEF w
  <2>4. ASSUME AtLeastAsStrict(s, v, w) PROVE Strictest(v, k, s, n + 1)
    BY <1>3, <2>4 DEF Strictest, w
  <2>5. ASSUME AtLeastAsStrict(s, w, v) PROVE Strictest(w, k, s, n + 1)
    <3>1. ASSUME NEW i \in Speaking(k, s, n) PROVE AtLeastAsStrict(s, w, io_delays[i].value)
      <4>1. AtLeastAsStrict(s, v, io_delays[i].value) /\ io_delays[i].value \in Int
        BY <1>3, <2>3, <3>1 DEF Strictest
      <4> QED
        BY <4>1, <2>1, <2>2, <2>5 DEF AtLeastAsStrict
    <3>2. AtLeastAsStrict(s, w, w)
      BY <2>2 DEF AtLeastAsStrict
    <3> QED
      BY <1>3, <3>1, <3>2 DEF Strictest, w
  <2> QED
    BY <2>1, <2>2, <2>4, <2>5
<1> QED
  BY <1>1, <1>2, <1>3

-----------------------------------------------------------------------------
(* The audit's step: after one more command the ledger is the history of   *)
(* one more command.                                                       *)
LEMMA AuditStep ==
  ASSUME Typed, LedgerHistory(ledger, cursor), AuditItem
  PROVE  LedgerHistory(ledger', cursor + 1)
<1> DEFINE n == cursor
           item == io_delays[n + 1]
<1>1. n \in Nat /\ n + 1 \in DOMAIN io_delays /\ n \in 0..(Len(io_delays) - 1) /\ item \in Delay
  <2>1. Len(io_delays) \in Nat /\ cursor \in 0..Len(io_delays) /\ cursor < Len(io_delays)
    BY DEF Typed, AuditItem
  <2> QED
    BY <2>1 DEF Typed
<1>2. /\ item.valid \in BOOLEAN /\ item.additive \in BOOLEAN
      /\ Slots(item) \subseteq AllSlots /\ Slots(item) # {}
  BY <1>1, SlotsOfItem DEF Delay
<1>3. Keys(item) \subseteq Relationships
  <2>1. \A p \in item.ports : Key(item, p) \in Relationships
    BY <1>1 DEF Delay, Key, Relationships, Transitions
  <2> QED
    BY <2>1 DEF Keys
<1>4. CASE ~item.valid
  <2>1. ledger' = ledger
    BY <1>4 DEF AuditItem
  <2>2. \A k \in Relationships, s \in AllSlots : Speaking(k, s, n + 1) = Speaking(k, s, n)
    BY <1>1, <1>4, SpeakingAfterItem
  <2> QED
    BY <2>1, <2>2 DEF LedgerHistory, Strictest
<1>5. CASE item.valid
  <2> DEFINE Assigned(k) ==
        [s \in SlotsOf(ledger, k) \cup Slots(item) |->
           IF s \in Slots(item) /\ TakesOver(item, s, k) THEN n + 1 ELSE ledger[k][s]]
  <2>1. ledger' = [k \in Surviving(item, DOMAIN ledger) \cup Keys(item) |->
                     IF k \in Keys(item) THEN Assigned(k) ELSE ledger[k]]
    BY <1>5 DEF AuditItem
  <2>2. DOMAIN ledger' = Surviving(item, DOMAIN ledger) \cup Keys(item)
        /\ (\A k \in Keys(item) : ledger'[k] = Assigned(k))
        /\ \A k \in Surviving(item, DOMAIN ledger) : k \notin Keys(item) => ledger'[k] = ledger[k]
    BY <2>1
  <2>3. Surviving(item, DOMAIN ledger) \subseteq DOMAIN ledger
    BY DEF Surviving
  <2>4. DOMAIN ledger' \subseteq Relationships
    BY <1>3, <2>2, <2>3 DEF LedgerHistory
  <2> HIDE DEF n, item
  (* One slot of a relationship of the command.                            *)
  <2>5. ASSUME NEW k \in Keys(item), NEW s \in AllSlots
        PROVE  /\ s \in DOMAIN ledger'[k] =>
                    /\ ledger'[k][s] \in Speaking(k, s, n + 1)
                    /\ Strictest(io_delays[ledger'[k][s]].value, k, s, n + 1)
               /\ Speaking(k, s, n + 1) # {} => s \in DOMAIN ledger'[k]
    <3>1. k \in Relationships
      BY <1>3
    <3>2. Speaking(k, s, n + 1) = IF s \notin Slots(item) THEN Speaking(k, s, n)
                                  ELSE IF item.additive THEN Speaking(k, s, n) \cup {n + 1}
                                  ELSE {n + 1}
      BY <1>1, <1>5, <3>1, SpeakingAfterItem DEF item
    <3>3. /\ DOMAIN ledger'[k] = SlotsOf(ledger, k) \cup Slots(item)
          /\ \A t \in SlotsOf(ledger, k) \cup Slots(item) :
               ledger'[k][t] = IF t \in Slots(item) /\ TakesOver(item, t, k) THEN n + 1
                               ELSE ledger[k][t]
      BY <2>2
    <3>4. /\ s \in SlotsOf(ledger, k) => /\ ledger[k][s] \in Speaking(k, s, n)
                                         /\ Strictest(io_delays[ledger[k][s]].value, k, s, n)
          /\ Speaking(k, s, n) # {} => s \in SlotsOf(ledger, k)
      BY <3>1 DEF LedgerHistory, SlotsOf, n
    <3>5. /\ \A v : Strictest(v, k, s, n) /\ Speaking(k, s, n + 1) = Speaking(k, s, n) =>
               Strictest(v, k, s, n + 1)
          /\ Speaking(k, s, n + 1) = {n + 1} => Strictest(item.value, k, s, n + 1)
          /\ \A v : Strictest(v, k, s, n) /\ Speaking(k, s, n + 1) = Speaking(k, s, n) \cup {n + 1} =>
               /\ v \in Int /\ item.value \in Int
               /\ AtLeastAsStrict(s, v, item.value) => Strictest(v, k, s, n + 1)
               /\ AtLeastAsStrict(s, item.value, v) => Strictest(item.value, k, s, n + 1)
      BY <1>1, StrictestNext DEF item
    <3>6. CASE s \notin Slots(item)
      BY <3>2, <3>3, <3>4, <3>5, <3>6
    <3>7. CASE s \in Slots(item) /\ ~item.additive
      <4>1. ledger'[k][s] = n + 1 /\ s \in DOMAIN ledger'[k]
        BY <3>3, <3>7 DEF TakesOver
      <4> QED
        BY <4>1, <3>2, <3>5, <3>7 DEF item
    <3>8. CASE s \in Slots(item) /\ item.additive /\ s \notin SlotsOf(ledger, k)
      <4>1. ledger'[k][s] = n + 1 /\ s \in DOMAIN ledger'[k]
        BY <3>3, <3>8 DEF TakesOver
      <4>2. Speaking(k, s, n + 1) = {n + 1}
        BY <3>2, <3>4, <3>8
      <4> QED
        BY <4>1, <4>2, <3>5 DEF item
    <3>9. CASE s \in Slots(item) /\ item.additive /\ s \in SlotsOf(ledger, k)
      <4> DEFINE v == io_delays[ledger[k][s]].value
      <4>1. Speaking(k, s, n + 1) = Speaking(k, s, n) \cup {n + 1} /\ Strictest(v, k, s, n)
        BY <3>2, <3>4, <3>9
      <4>2. v \in Int /\ item.value \in Int
        BY <4>1, <3>5
      <4>3. TakesOver(item, s, k) <=> IF s[2] = "min" THEN item.value < v ELSE item.value > v
        BY <3>9 DEF TakesOver
      <4>4. CASE TakesOver(item, s, k)
        <5>1. AtLeastAsStrict(s, item.value, v)
          BY <4>2, <4>3, <4>4 DEF AtLeastAsStrict
        <5>2. ledger'[k][s] = n + 1 /\ s \in DOMAIN ledger'[k]
          BY <3>3, <3>9, <4>4
        <5> HIDE DEF v
        <5> QED
          BY <5>1, <5>2, <4>1, <3>5 DEF item
      <4>5. CASE ~TakesOver(item, s, k)
        <5>1. AtLeastAsStrict(s, v, item.value)
          BY <4>2, <4>3, <4>5 DEF AtLeastAsStrict
        <5>2. ledger'[k][s] = ledger[k][s] /\ s \in DOMAIN ledger'[k]
          BY <3>3, <3>9, <4>5
        <5>3. Strictest(v, k, s, n + 1)
          BY <5>1, <4>1, <3>5
        <5> QED
          BY <5>2, <5>3, <4>1, <3>4, <3>9
      <4> QED
        BY <4>4, <4>5
    <3> QED
      BY <1>2, <3>6, <3>7, <3>8, <3>9
  (* One slot of any other relationship.                                   *)
  <2>6. ASSUME NEW k \in Relationships, k \notin Keys(item), NEW s \in AllSlots
        PROVE  /\ k \in DOMAIN ledger' => /\ k \in DOMAIN ledger /\ ledger'[k] = ledger[k]
                                          /\ Speaking(k, s, n + 1) = Speaking(k, s, n)
               /\ Speaking(k, s, n + 1) # {} =>
                    /\ Speaking(k, s, n + 1) = Speaking(k, s, n)
                    /\ k \in DOMAIN ledger => k \in DOMAIN ledger'
    <3>1. Speaking(k, s, n + 1) = IF ~item.additive /\ k \in Competing(item, {k}) THEN {}
                                  ELSE Speaking(k, s, n)
      BY <1>1, <1>5, <2>6, SpeakingAfterItem DEF item
    <3>2. k \in Surviving(item, DOMAIN ledger) <=>
            k \in DOMAIN ledger /\ ~(~item.additive /\ k \in Competing(item, {k}))
      BY DEF Surviving, Competing
    <3> QED
      BY <3>1, <3>2, <2>2, <2>6
  <2>7. ASSUME NEW k \in DOMAIN ledger'
        PROVE  /\ DOMAIN ledger'[k] # {} /\ DOMAIN ledger'[k] \subseteq AllSlots
               /\ \A s \in DOMAIN ledger'[k] :
                    /\ ledger'[k][s] \in Speaking(k, s, n + 1)
                    /\ Strictest(io_delays[ledger'[k][s]].value, k, s, n + 1)
    <3>1. CASE k \in Keys(item)
      <4>1. DOMAIN ledger'[k] = SlotsOf(ledger, k) \cup Slots(item)
        BY <3>1, <2>2
      <4>2. SlotsOf(ledger, k) \subseteq AllSlots
        BY DEF SlotsOf, LedgerHistory
      <4> QED
        BY <4>1, <4>2, <3>1, <1>2, <2>5
    <3>2. CASE k \notin Keys(item)
      <4>1. k \in Relationships
        BY <2>4
      <4>2. k \in DOMAIN ledger /\ ledger'[k] = ledger[k]
        BY <3>2, <2>2, <2>3
      <4>3. /\ DOMAIN ledger[k] # {} /\ DOMAIN ledger[k] \subseteq AllSlots
            /\ \A s \in DOMAIN ledger[k] :
                 /\ ledger[k][s] \in Speaking(k, s, n)
                 /\ Strictest(io_delays[ledger[k][s]].value, k, s, n)
        BY <4>2 DEF LedgerHistory, n
      <4>4. \A s \in AllSlots : Speaking(k, s, n + 1) = Speaking(k, s, n)
        BY <3>2, <4>1, <2>6
      <4> QED
        BY <4>2, <4>3, <4>4 DEF Strictest
    <3> QED
      BY <3>1, <3>2
  <2>8. ASSUME NEW k \in Relationships, NEW s \in AllSlots, Speaking(k, s, n + 1) # {}
        PROVE  k \in DOMAIN ledger' /\ s \in DOMAIN ledger'[k]
    <3>1. CASE k \in Keys(item)
      BY <3>1, <2>2, <2>5, <2>8
    <3>2. CASE k \notin Keys(item)
      <4>1. Speaking(k, s, n) # {}
        BY <3>2, <2>6, <2>8
      <4>2. k \in DOMAIN ledger /\ s \in DOMAIN ledger[k]
        BY <4>1 DEF LedgerHistory, n
      <4> QED
        BY <3>2, <4>2, <2>6, <2>8
    <3> QED
      BY <3>1, <3>2
  <2> QED
    BY <2>4, <2>7, <2>8 DEF LedgerHistory, n
<1> QED
  BY <1>2, <1>4, <1>5

(* The command is reported for a port exactly if the rule says that        *)
(* something is lost there.                                                *)
LEMMA OverwritesIsLost ==
  ASSUME Typed, NEW n \in 0..(Len(io_delays) - 1), LedgerHistory(ledger, n),
         io_delays[n + 1].valid, NEW p \in io_delays[n + 1].ports
  PROVE  Overwrites(io_delays[n + 1], p) <=> Lost(n + 1, p)
<1> DEFINE item == io_delays[n + 1]
<1>1. item \in Delay /\ n \in 0..Len(io_delays) /\ n + 1 - 1 = n /\ p \in Ports
  <2>1. Len(io_delays) \in Nat /\ io_delays \in Seq(Delay)
    BY DEF Typed
  <2>2. n + 1 \in 1..Len(io_delays) /\ n \in 0..Len(io_delays) /\ n + 1 - 1 = n
    BY <2>1
  <2>3. item \in Delay
    BY <2>1, <2>2
  <2> QED
    BY <2>2, <2>3 DEF Delay
<1>2. \A k \in AllKeys : k \in Relationships
  BY KeysTyped
<1>3. Keys(item) \subseteq Relationships /\ Key(item, p) \in Keys(item) /\ Key(item, p).port = p
      /\ Key(item, p).kind = item.kind
  BY <1>1 DEF Keys, Key, Delay, Relationships, Transitions
<1>4. ASSUME NEW k, NEW s, NEW i \in Speaking(k, s, n) PROVE k \in AllKeys
  <2>1. i \in DOMAIN io_delays
    BY <1>1, SpeakersAreValid
  <2>2. k \in Keys(io_delays[i])
    BY DEF Speaking, Touches
  <2> QED
    BY <2>1, <2>2 DEF AllKeys
<1>5. \A k \in Relationships : k \in Keys(item) <=>
        k.kind = item.kind /\ k.port \in item.ports /\ k = Key(item, k.port)
  BY <1>1, KeysOf
<1>6. ASSUME Lost(n + 1, p) PROVE Overwrites(item, p)
  <2>1. PICK k \in AllKeys, s \in AllSlots :
          k.port = p /\ Overrules(n + 1, k, s) /\ Speaking(k, s, n) # {}
    BY <1>1, <1>6 DEF Lost
  <2>2. k \in DOMAIN ledger /\ s \in DOMAIN ledger[k]
    BY <1>2, <2>1 DEF LedgerHistory
  <2>3. /\ ~item.additive /\ k.kind = item.kind /\ k.port \in item.ports
        /\ k \in Keys(item) => s \in Slots(item)
    BY <2>1 DEF Overrules
  <2>4. CASE k = Key(item, p)
    BY <2>2, <2>3, <2>4, <1>3 DEF Overwrites, SlotsOf
  <2>5. CASE k # Key(item, p)
    BY <2>1, <2>2, <2>3, <2>5 DEF Overwrites, Competing
  <2> QED
    BY <2>4, <2>5
<1>7. ASSUME Overwrites(item, p) PROVE Lost(n + 1, p)
  <2>1. ASSUME NEW k \in DOMAIN ledger, NEW s \in DOMAIN ledger[k], k.port = p,
               Overrules(n + 1, k, s)
        PROVE  Lost(n + 1, p)
    <3>1. ledger[k][s] \in Speaking(k, s, n) /\ s \in AllSlots
      BY DEF LedgerHistory
    <3>2. k \in AllKeys
      BY <3>1, <1>4
    <3> QED
      BY <2>1, <3>1, <3>2, <1>1 DEF Lost
  <2>2. CASE \E k \in Competing(item, DOMAIN ledger) : k.port = p
    <3>1. PICK k \in Competing(item, DOMAIN ledger) : k.port = p
      BY <2>2
    <3>2. k \in DOMAIN ledger /\ k \in Relationships /\ DOMAIN ledger[k] # {}
          /\ k.kind = item.kind /\ k.port \in item.ports /\ k # Key(item, k.port)
      BY DEF Competing, LedgerHistory
    <3>3. PICK s \in DOMAIN ledger[k] : TRUE
      BY <3>2
    <3>4. Overrules(n + 1, k, s)
      BY <1>5, <1>7, <3>2 DEF Overrules, Overwrites
    <3> QED
      BY <2>1, <3>1, <3>2, <3>4
  <2>3. CASE Slots(item) \cap SlotsOf(ledger, Key(item, p)) # {}
    <3>1. PICK s \in Slots(item) : s \in SlotsOf(ledger, Key(item, p))
      BY <2>3
    <3>2. Key(item, p) \in DOMAIN ledger /\ s \in DOMAIN ledger[Key(item, p)]
      BY <3>1 DEF SlotsOf
    <3>3. Overrules(n + 1, Key(item, p), s)
      BY <1>3, <1>7, <3>1 DEF Overrules, Overwrites
    <3> QED
      BY <1>3, <2>1, <3>2, <3>3
  <2> QED
    BY <1>7, <2>2, <2>3 DEF Overwrites
<1> QED
  BY <1>6, <1>7

LEMMA AuditReports ==
  ASSUME Typed, LedgerHistory(ledger, cursor), ReportsAreHistory(cursor), AuditItem
  PROVE  \A j \in DOMAIN io_delays : \A p \in io_delays[j].ports :
           <<"OC3014", j, p>> \in findings' <=> j <= cursor + 1 /\ Lost(j, p)
<1> DEFINE n == cursor
           item == io_delays[n + 1]
<1>1. n \in Nat /\ n + 1 \in DOMAIN io_delays /\ n \in 0..(Len(io_delays) - 1) /\ item \in Delay
      /\ DOMAIN io_delays \subseteq Nat
  <2>1. Len(io_delays) \in Nat /\ cursor \in 0..Len(io_delays) /\ cursor < Len(io_delays)
    BY DEF Typed, AuditItem
  <2> QED
    BY <2>1 DEF Typed
<1>2. CASE ~item.valid
  <2>1. findings' = findings
    BY <1>2 DEF AuditItem
  <2>2. \A p : ~Lost(n + 1, p)
    BY <1>2 DEF Lost, Overrules
  <2>3. \A j \in Nat : j <= n + 1 <=> j <= n \/ j = n + 1
    BY <1>1
  <2> QED
    BY <2>1, <2>2, <2>3, <1>1 DEF ReportsAreHistory
<1>3. CASE item.valid
  <2>1. findings' = findings \cup
          {<<"OC3014", n + 1, p>> : p \in {q \in item.ports : Overwrites(item, q)}}
    BY <1>3 DEF AuditItem
  <2>2. \A p \in item.ports : Overwrites(item, p) <=> Lost(n + 1, p)
    BY <1>1, <1>3, OverwritesIsLost
  <2>3. \A j \in Nat : (j <= n + 1 <=> j <= n \/ j = n + 1) /\ (j = n + 1 => ~(j <= n))
    BY <1>1
  <2> SUFFICES ASSUME NEW j \in DOMAIN io_delays, NEW p \in io_delays[j].ports
               PROVE  <<"OC3014", j, p>> \in findings' <=> j <= n + 1 /\ Lost(j, p)
    OBVIOUS
  <2>4. <<"OC3014", j, p>> \in findings' <=>
          \/ <<"OC3014", j, p>> \in findings
          \/ j = n + 1 /\ Overwrites(item, p)
    BY <2>1
  <2>5. <<"OC3014", j, p>> \in findings <=> j <= n /\ Lost(j, p)
    BY DEF ReportsAreHistory
  <2> QED
    BY <1>1, <2>2, <2>3, <2>4, <2>5
<1> QED
  BY <1>2, <1>3

-----------------------------------------------------------------------------
(* The same for the other replay, which stores values instead of commands. *)
LEMMA ReplayStep ==
  ASSUME Typed, ReplayHistory(active, cursor), ReplayItem
  PROVE  ReplayHistory(active', cursor + 1)
<1> DEFINE n == cursor
           item == io_delays[n + 1]
           Old(k) == IF k \in DOMAIN active THEN active[k].values ELSE Nothing
           Values(k, state) == IF k \in DOMAIN state THEN DOMAIN state[k].values ELSE {}
<1>1. n \in Nat /\ n + 1 \in DOMAIN io_delays /\ n \in 0..(Len(io_delays) - 1) /\ item \in Delay
  <2>1. Len(io_delays) \in Nat /\ cursor \in 0..Len(io_delays) /\ cursor < Len(io_delays)
    BY DEF Typed, ReplayItem
  <2> QED
    BY <2>1 DEF Typed
<1>2. /\ item.valid \in BOOLEAN /\ item.additive \in BOOLEAN
      /\ Slots(item) \subseteq AllSlots /\ Slots(item) # {}
  BY <1>1, SlotsOfItem DEF Delay
<1>3. Keys(item) \subseteq Relationships
  <2>1. \A p \in item.ports : Key(item, p) \in Relationships
    BY <1>1 DEF Delay, Key, Relationships, Transitions
  <2> QED
    BY <2>1 DEF Keys
<1>4. item.valid => Cardinality(item.clocks) <= 1
  <2>1. item.valid => \A x, y \in item.clocks : x = y
    BY <1>1 DEF Typed
  <2>2. CASE item.clocks = {}
    <3>1. Cardinality(item.clocks) = 0
      BY <2>2, FS_EmptySet
    <3> QED
      BY <3>1
  <2>3. CASE item.valid /\ item.clocks # {}
    <3>1. PICK c \in item.clocks : TRUE
      BY <2>3
    <3>2. item.clocks = {c}
      BY <2>1, <2>3, <3>1
    <3>3. Cardinality(item.clocks) = 1
      BY <3>2, FS_Singleton
    <3> QED
      BY <3>3
  <2> QED
    BY <2>2, <2>3
<1>5. CASE ~item.valid
  <2>1. active' = active
    BY <1>5 DEF ReplayItem
  <2>2. \A k \in Relationships, s \in AllSlots : Speaking(k, s, n + 1) = Speaking(k, s, n)
    BY <1>1, <1>5, SpeakingAfterItem
  <2> QED
    BY <2>1, <2>2 DEF ReplayHistory, Strictest
<1>6. CASE item.valid
  <2>1. active' = [k \in Surviving(item, DOMAIN active) \cup Keys(item) |->
                     IF k \in Keys(item)
                     THEN [values |-> Updated(item, Old(k)), pin |-> item.pin]
                     ELSE active[k]]
    BY <1>4, <1>6 DEF ReplayItem
  <2>2. DOMAIN active' = Surviving(item, DOMAIN active) \cup Keys(item)
        /\ (\A k \in Keys(item) : active'[k].values = Updated(item, Old(k)))
        /\ \A k \in Surviving(item, DOMAIN active) : k \notin Keys(item) => active'[k] = active[k]
    BY <2>1
  <2>3. Surviving(item, DOMAIN active) \subseteq DOMAIN active
    BY DEF Surviving
  <2>4. DOMAIN active' \subseteq Relationships
    BY <1>3, <2>2, <2>3 DEF ReplayHistory
  <2>a. \A k : DOMAIN Old(k) = Values(k, active) /\ \A s \in Values(k, active) : Old(k)[s] = active[k].values[s]
    BY DEF Nothing
  <2> HIDE DEF n, item, Old
  <2>b. ASSUME NEW k \in Keys(item)
        PROVE  /\ DOMAIN active'[k].values = Values(k, active) \cup Slots(item)
               /\ \A s \in Values(k, active) \cup Slots(item) :
                    active'[k].values[s] = IF s \in Slots(item) THEN Merge(item, s, Old(k))
                                           ELSE active[k].values[s]
    <3>1. active'[k].values = Updated(item, Old(k))
      BY <2>2
    <3>2. /\ DOMAIN Updated(item, Old(k)) = DOMAIN Old(k) \cup Slots(item)
          /\ \A s \in DOMAIN Old(k) \cup Slots(item) :
               Updated(item, Old(k))[s] = IF s \in Slots(item) THEN Merge(item, s, Old(k))
                                          ELSE Old(k)[s]
      BY DEF Updated
    <3> QED
      BY <3>1, <3>2, <2>a
  (* One slot of a relationship of the command.                            *)
  <2>5. ASSUME NEW k \in Keys(item), NEW s \in AllSlots
        PROVE  /\ s \in DOMAIN active'[k].values =>
                    Strictest(active'[k].values[s], k, s, n + 1)
               /\ Speaking(k, s, n + 1) # {} => s \in DOMAIN active'[k].values
    <3>1. k \in Relationships
      BY <1>3
    <3>2. Speaking(k, s, n + 1) = IF s \notin Slots(item) THEN Speaking(k, s, n)
                                  ELSE IF item.additive THEN Speaking(k, s, n) \cup {n + 1}
                                  ELSE {n + 1}
      BY <1>1, <1>6, <3>1, SpeakingAfterItem DEF item
    <3>3. /\ DOMAIN active'[k].values = Values(k, active) \cup Slots(item)
          /\ \A t \in Values(k, active) \cup Slots(item) :
               active'[k].values[t] = IF t \in Slots(item) THEN Merge(item, t, Old(k))
                                      ELSE active[k].values[t]
      BY <2>b
    <3>4. /\ s \in Values(k, active) => Strictest(active[k].values[s], k, s, n)
          /\ Speaking(k, s, n) # {} => s \in Values(k, active)
      BY <3>1 DEF ReplayHistory, n
    <3>5. /\ \A v : Strictest(v, k, s, n) /\ Speaking(k, s, n + 1) = Speaking(k, s, n) =>
               Strictest(v, k, s, n + 1)
          /\ Speaking(k, s, n + 1) = {n + 1} => Strictest(item.value, k, s, n + 1)
          /\ \A v : Strictest(v, k, s, n) /\ Speaking(k, s, n + 1) = Speaking(k, s, n) \cup {n + 1} =>
               /\ v \in Int /\ item.value \in Int
               /\ AtLeastAsStrict(s, v, item.value) => Strictest(v, k, s, n + 1)
               /\ AtLeastAsStrict(s, item.value, v) => Strictest(item.value, k, s, n + 1)
      BY <1>1, StrictestNext DEF item
    <3>6. CASE s \notin Slots(item)
      BY <3>2, <3>3, <3>4, <3>5, <3>6
    <3>7. CASE s \in Slots(item) /\ (~item.additive \/ s \notin Values(k, active))
      <4>1. Merge(item, s, Old(k)) = item.value
        BY <3>7, <2>a DEF Merge
      <4>2. active'[k].values[s] = item.value /\ s \in DOMAIN active'[k].values
        BY <3>3, <3>7, <4>1
      <4>3. Speaking(k, s, n + 1) = {n + 1}
        BY <3>2, <3>4, <3>7
      <4> QED
        BY <4>2, <4>3, <3>5
    <3>8. CASE s \in Slots(item) /\ item.additive /\ s \in Values(k, active)
      <4> DEFINE v == active[k].values[s]
      <4>1. Speaking(k, s, n + 1) = Speaking(k, s, n) \cup {n + 1} /\ Strictest(v, k, s, n)
        BY <3>2, <3>4, <3>8
      <4>2. v \in Int /\ item.value \in Int
        BY <4>1, <3>5
      <4>3. Old(k)[s] = v /\ s \in DOMAIN Old(k)
        BY <2>a, <3>8
      <4>4. s \in DOMAIN active'[k].values /\ active'[k].values[s] = Merge(item, s, Old(k))
        BY <3>3, <3>8
      <4> HIDE DEF v
      <4>5. Merge(item, s, Old(k)) =
              IF IF s[2] = "min" THEN item.value < v ELSE item.value > v THEN item.value ELSE v
        BY <4>3, <3>8 DEF Merge
      <4>6. \/ active'[k].values[s] = item.value /\ AtLeastAsStrict(s, item.value, v)
            \/ active'[k].values[s] = v /\ AtLeastAsStrict(s, v, item.value)
        BY <4>2, <4>4, <4>5 DEF AtLeastAsStrict
      <4> QED
        BY <4>1, <4>4, <4>6, <3>5
    <3> QED
      BY <1>2, <3>6, <3>7, <3>8
  (* One slot of any other relationship.                                   *)
  <2>6. ASSUME NEW k \in Relationships, k \notin Keys(item), NEW s \in AllSlots
        PROVE  /\ k \in DOMAIN active' => /\ k \in DOMAIN active /\ active'[k] = active[k]
                                          /\ Speaking(k, s, n + 1) = Speaking(k, s, n)
               /\ Speaking(k, s, n + 1) # {} =>
                    /\ Speaking(k, s, n + 1) = Speaking(k, s, n)
                    /\ k \in DOMAIN active => k \in DOMAIN active'
    <3>1. Speaking(k, s, n + 1) = IF ~item.additive /\ k \in Competing(item, {k}) THEN {}
                                  ELSE Speaking(k, s, n)
      BY <1>1, <1>6, <2>6, SpeakingAfterItem DEF item
    <3>2. k \in Surviving(item, DOMAIN active) <=>
            k \in DOMAIN active /\ ~(~item.additive /\ k \in Competing(item, {k}))
      BY DEF Surviving, Competing
    <3> QED
      BY <3>1, <3>2, <2>2, <2>6
  <2>7. ASSUME NEW k \in DOMAIN active'
        PROVE  /\ DOMAIN active'[k].values # {} /\ DOMAIN active'[k].values \subseteq AllSlots
               /\ \A s \in DOMAIN active'[k].values : Strictest(active'[k].values[s], k, s, n + 1)
    <3>1. CASE k \in Keys(item)
      <4>1. DOMAIN active'[k].values = Values(k, active) \cup Slots(item)
        BY <3>1, <2>b
      <4>2. Values(k, active) \subseteq AllSlots
        BY DEF ReplayHistory
      <4> QED
        BY <4>1, <4>2, <3>1, <1>2, <2>5
    <3>2. CASE k \notin Keys(item)
      <4>1. k \in Relationships
        BY <2>4
      <4>2. k \in DOMAIN active /\ active'[k] = active[k]
        BY <3>2, <2>2, <2>3
      <4>3. /\ DOMAIN active[k].values # {} /\ DOMAIN active[k].values \subseteq AllSlots
            /\ \A s \in DOMAIN active[k].values : Strictest(active[k].values[s], k, s, n)
        BY <4>2 DEF ReplayHistory, n
      <4>4. \A s \in AllSlots : Speaking(k, s, n + 1) = Speaking(k, s, n)
        BY <3>2, <4>1, <2>6
      <4> QED
        BY <4>2, <4>3, <4>4 DEF Strictest
    <3> QED
      BY <3>1, <3>2
  <2>8. ASSUME NEW k \in Relationships, NEW s \in AllSlots, Speaking(k, s, n + 1) # {}
        PROVE  k \in DOMAIN active' /\ s \in DOMAIN active'[k].values
    <3>1. CASE k \in Keys(item)
      BY <3>1, <2>2, <2>5, <2>8
    <3>2. CASE k \notin Keys(item)
      <4>1. Speaking(k, s, n) # {}
        BY <3>2, <2>6, <2>8
      <4>2. k \in DOMAIN active /\ s \in DOMAIN active[k].values
        BY <4>1 DEF ReplayHistory, n
      <4> QED
        BY <3>2, <4>2, <2>6, <2>8
    <3> QED
      BY <3>1, <3>2
  <2> QED
    BY <2>4, <2>7, <2>8 DEF ReplayHistory, n
<1> QED
  BY <1>2, <1>5, <1>6

-----------------------------------------------------------------------------
(* While the commands stay the same, so does what the rule says of them.   *)
LEMMA RuleFrame ==
  ASSUME io_delays' = io_delays
  PROVE  /\ \A k, s, n : Speaking(k, s, n)' = Speaking(k, s, n)
         /\ \A v, k, s, n : Strictest(v, k, s, n)' <=> Strictest(v, k, s, n)
         /\ \A j, p : Lost(j, p)' <=> Lost(j, p)
<1>1. ASSUME NEW k, NEW s, NEW n PROVE Speaking(k, s, n)' = Speaking(k, s, n)
  BY DEF Speaking, Touches, Overrules, Keys, Key, Slots
<1>2. ASSUME NEW v, NEW k, NEW s, NEW n PROVE Strictest(v, k, s, n)' <=> Strictest(v, k, s, n)
  BY <1>1 DEF Strictest
<1>3. AllKeys' = AllKeys
  BY DEF AllKeys, Keys, Key
<1>4. ASSUME NEW j, NEW k, NEW s PROVE Overrules(j, k, s)' <=> Overrules(j, k, s)
  BY DEF Overrules, Keys, Key, Slots
<1>5. ASSUME NEW j, NEW p PROVE Lost(j, p)' <=> Lost(j, p)
  BY <1>1, <1>3, <1>4 DEF Lost
<1> QED
  BY <1>1, <1>2, <1>5

LEMMA HistoryFrame ==
  ASSUME io_delays' = io_delays
  PROVE  /\ \A n : LedgerHistory(ledger', n) /\ Audited' = n => LedgerHistory(ledger, Audited)'
         /\ \A n : ReplayHistory(active', n) /\ Replayed' = n => ReplayHistory(active, Replayed)'
<1>1. ASSUME NEW n, LedgerHistory(ledger', n), Audited' = n PROVE LedgerHistory(ledger, Audited)'
  BY <1>1, RuleFrame DEF LedgerHistory
<1>2. ASSUME NEW n, ReplayHistory(active', n), Replayed' = n PROVE ReplayHistory(active, Replayed)'
  BY <1>2, RuleFrame DEF ReplayHistory
<1> QED
  BY <1>1, <1>2

LEMMA ReportFrame ==
  ASSUME io_delays' = io_delays, NEW n, Audited' = n,
         \A j \in DOMAIN io_delays : \A p \in io_delays[j].ports :
           <<"OC3014", j, p>> \in findings' <=> j <= n /\ Lost(j, p)
  PROVE  ReportsAreHistory(Audited)'
BY RuleFrame DEF ReportsAreHistory

(* Before the replays nothing is active.                                   *)
LEMMA NothingYet ==
  /\ LedgerHistory(ledger, 0) => DOMAIN ledger = {}
  /\ ReplayHistory(active, 0) => DOMAIN active = {}
<1>1. ASSUME LedgerHistory(ledger, 0), NEW k \in DOMAIN ledger PROVE FALSE
  <2>1. PICK s \in DOMAIN ledger[k] : ledger[k][s] \in Speaking(k, s, 0)
    BY <1>1 DEF LedgerHistory
  <2> QED
    BY <2>1, NobodySpeaksFirst
<1>2. ASSUME ReplayHistory(active, 0), NEW k \in DOMAIN active PROVE FALSE
  <2>1. PICK s \in DOMAIN active[k].values : Strictest(active[k].values[s], k, s, 0)
    BY <1>2 DEF ReplayHistory
  <2> QED
    BY <2>1, NobodySpeaksFirst DEF Strictest
<1> QED
  BY <1>1, <1>2

LEMMA InitInv == Init => Inv
<1> SUFFICES ASSUME Init PROVE Inv
  OBVIOUS
<1>1. Typed
  BY DEF Init, Typed
<1>2. DOMAIN ledger = {} /\ DOMAIN active = {} /\ Audited = 0 /\ Replayed = 0
  BY DEF Init, Nothing, Audited, Replayed
<1>3. LedgerHistory(ledger, 0) /\ ReplayHistory(active, 0)
  BY <1>2, NobodySpeaksFirst DEF LedgerHistory, ReplayHistory
<1>4. ReportsAreHistory(0)
  BY DEF Init, ReportsAreHistory
<1> QED
  BY <1>1, <1>2, <1>3, <1>4 DEF Inv, Init

LEMMA NextInv == Inv /\ [Next]_vars => Inv'
<1> SUFFICES ASSUME Inv, [Next]_vars PROVE Inv'
  OBVIOUS
<1> USE DEF Inv
<1>0. Len(io_delays) \in Nat /\ cursor \in 0..Len(io_delays) /\ DOMAIN io_delays = 1..Len(io_delays)
  BY DEF Typed
<1>1. ASSUME NEW cmd \in Commands, Collect(cmd) PROVE Inv'
  <2>1. io_delays' = Append(io_delays, DelayOf(cmd)) /\ pass = "collect"
        /\ UNCHANGED <<pass, cursor, ledger, active, findings>>
    BY <1>1 DEF Collect
  <2>2. Typed'
    <3> DEFINE item == DelayOf(cmd)
    <3>1. item \in Delay /\ (item.valid => item.value \in Int /\ \A x, y \in item.clocks : x = y)
      BY ItemTyped
    <3> HIDE DEF item
    <3>2. /\ io_delays' \in Seq(Delay) /\ Len(io_delays') = Len(io_delays) + 1
          /\ \A i \in 1..Len(io_delays') :
               io_delays'[i] = IF i <= Len(io_delays) THEN io_delays[i] ELSE item
      BY <2>1, <3>1 DEF Typed, item
    <3>3. \A i \in DOMAIN io_delays' : io_delays'[i].valid =>
            io_delays'[i].value \in Int /\ \A x, y \in io_delays'[i].clocks : x = y
      BY <1>0, <3>1, <3>2 DEF Typed
    <3>4. cursor' \in 0..Len(io_delays')
      BY <1>0, <2>1, <3>2
    <3> QED
      BY <2>1, <3>2, <3>3, <3>4 DEF Typed
  <2>3. Audited = 0 /\ Replayed = 0 /\ Audited' = 0 /\ Replayed' = 0
    BY <2>1 DEF Audited, Replayed
  <2>4. DOMAIN ledger' = {} /\ DOMAIN active' = {}
    BY <2>1, <2>3, NothingYet
  <2>5. \A k, s : Speaking(k, s, 0)' = {}
    BY DEF Speaking
  <2>6. LedgerHistory(ledger, Audited)' /\ ReplayHistory(active, Replayed)'
    BY <2>3, <2>4, <2>5 DEF LedgerHistory, ReplayHistory
  <2>7. ReportsAreHistory(Audited)'
    <3>1. DOMAIN io_delays' = 1..Len(io_delays') /\ findings' = {}
      BY <2>1, <2>2 DEF Typed
    <3> QED
      BY <2>3, <3>1 DEF ReportsAreHistory
  <2> QED
    BY <2>1, <2>2, <2>6, <2>7
<1>2. CASE EndCollection
  <2>1. /\ pass = "collect" /\ pass' = "audit"
        /\ UNCHANGED <<cursor, io_delays, ledger, active, findings>>
    BY <1>2 DEF EndCollection
  <2>2. Typed'
    BY <2>1 DEF Typed
  <2>3. Audited' = Audited /\ Replayed' = Replayed /\ Audited = 0
    BY <2>1 DEF Audited, Replayed
  <2>4. LedgerHistory(ledger, Audited)' /\ ReplayHistory(active, Replayed)'
    BY <2>1, <2>3, HistoryFrame
  <2>5. ReportsAreHistory(Audited)'
    BY <2>1, <2>3, ReportFrame DEF ReportsAreHistory
  <2> QED
    BY <2>1, <2>2, <2>4, <2>5
<1>3. CASE AuditItem
  <2>1. /\ pass = "audit" /\ cursor < Len(io_delays) /\ cursor' = cursor + 1
        /\ UNCHANGED <<pass, io_delays, active>>
    BY <1>3 DEF AuditItem
  <2>2. Typed'
    <3>1. cursor' \in 0..Len(io_delays)
      BY <1>0, <2>1
    <3> QED
      BY <2>1, <3>1 DEF Typed
  <2>3. Audited = cursor /\ Audited' = cursor + 1 /\ Replayed' = 0 /\ Replayed = 0
    BY <2>1 DEF Audited, Replayed
  <2>4. LedgerHistory(ledger', cursor + 1)
    BY <1>3, <2>3, AuditStep
  <2>5. LedgerHistory(ledger, Audited)' /\ ReplayHistory(active, Replayed)'
    BY <2>1, <2>3, <2>4, HistoryFrame
  <2>6. ReportsAreHistory(Audited)'
    BY <1>3, <2>1, <2>3, AuditReports, ReportFrame
  <2> QED
    BY <2>1, <2>2, <2>5, <2>6
<1>4. CASE EndAudit
  <2>1. /\ pass = "audit" /\ cursor = Len(io_delays) /\ pass' = "replay" /\ cursor' = 0
        /\ findings' = findings \cup
             {<<"OC3013", k>> : k \in {l \in DOMAIN ledger : Incomplete(DOMAIN ledger[l])}}
        /\ UNCHANGED <<io_delays, ledger, active>>
    BY <1>4 DEF EndAudit
  <2>2. Typed'
    <3>1. cursor' \in 0..Len(io_delays)
      BY <1>0, <2>1
    <3> QED
      BY <2>1, <3>1 DEF Typed
  <2>3. Audited' = Audited /\ Replayed' = 0 /\ Replayed = 0
    BY <2>1 DEF Audited, Replayed
  <2>4. LedgerHistory(ledger, Audited)' /\ ReplayHistory(active, Replayed)'
    BY <2>1, <2>3, HistoryFrame
  <2>5. \A j, p : <<"OC3014", j, p>> \in findings' <=> <<"OC3014", j, p>> \in findings
    BY <2>1
  <2>6. ReportsAreHistory(Audited)'
    BY <2>1, <2>3, <2>5, ReportFrame DEF ReportsAreHistory
  <2> QED
    BY <2>1, <2>2, <2>4, <2>6
<1>5. CASE ReplayItem
  <2>1. /\ pass = "replay" /\ cursor < Len(io_delays) /\ cursor' = cursor + 1
        /\ UNCHANGED <<pass, io_delays, ledger, findings>>
    BY <1>5 DEF ReplayItem
  <2>2. Typed'
    <3>1. cursor' \in 0..Len(io_delays)
      BY <1>0, <2>1
    <3> QED
      BY <2>1, <3>1 DEF Typed
  <2>3. Audited' = Audited /\ Replayed = cursor /\ Replayed' = cursor + 1
    BY <2>1 DEF Audited, Replayed
  <2>4. ReplayHistory(active', cursor + 1)
    BY <1>5, <2>3, ReplayStep
  <2>5. LedgerHistory(ledger, Audited)' /\ ReplayHistory(active, Replayed)'
    BY <2>1, <2>3, <2>4, HistoryFrame
  <2>6. ReportsAreHistory(Audited)'
    BY <2>1, <2>3, ReportFrame DEF ReportsAreHistory
  <2> QED
    BY <2>1, <2>2, <2>5, <2>6
<1>6. CASE EndReplay \/ UNCHANGED vars
  <2>1. /\ UNCHANGED <<cursor, io_delays, ledger, active, findings>>
        /\ \/ pass = "replay" /\ cursor = Len(io_delays) /\ pass' = "done"
           \/ pass' = pass
    BY <1>6 DEF EndReplay, vars
  <2>2. Typed'
    BY <2>1 DEF Typed
  <2>3. Audited' = Audited /\ Replayed' = Replayed
    BY <2>1 DEF Audited, Replayed
  <2>4. LedgerHistory(ledger, Audited)' /\ ReplayHistory(active, Replayed)'
    BY <2>1, <2>3, HistoryFrame
  <2>5. ReportsAreHistory(Audited)'
    BY <2>1, <2>3, ReportFrame DEF ReportsAreHistory
  <2> QED
    BY <2>1, <2>2, <2>4, <2>5
<1> HIDE DEF Inv
<1> QED
  BY <1>1, <1>2, <1>3, <1>4, <1>5, <1>6 DEF Next

(* At any moment of the two replays the state of each is the rule applied  *)
(* to the commands it has seen, and so are the audit's reports.            *)
THEOREM ReplaysAreHistory == Spec => []Inv
<1>1. Init => Inv
  BY InitInv
<1>2. Inv /\ [Next]_vars => Inv'
  BY NextInv
<1> QED
  BY <1>1, <1>2, PTL DEF Spec

(* Two commands as strict as one another have one value.                   *)
LEMMA OneStrictest ==
  ASSUME Typed, NEW k, NEW s, NEW v, NEW w, NEW n \in 0..Len(io_delays),
         Strictest(v, k, s, n), Strictest(w, k, s, n)
  PROVE  v = w
<1>1. PICK i \in Speaking(k, s, n) : v = io_delays[i].value
  BY DEF Strictest
<1>2. PICK j \in Speaking(k, s, n) : w = io_delays[j].value
  BY DEF Strictest
<1>3. v \in Int /\ w \in Int
  BY <1>1, <1>2, SpeakersAreValid
<1>4. AtLeastAsStrict(s, v, w) /\ AtLeastAsStrict(s, w, v)
  BY <1>1, <1>2 DEF Strictest
<1> QED
  BY <1>3, <1>4 DEF AtLeastAsStrict

LEMMA WhenDone ==
  ASSUME Inv, pass = "done"
  PROVE  LET n == Len(io_delays) IN
         /\ n \in 0..n /\ Typed
         /\ LedgerHistory(ledger, n) /\ ReplayHistory(active, n) /\ ReportsAreHistory(n)
<1>1. Audited = Len(io_delays) /\ Replayed = Len(io_delays)
  BY DEF Audited, Replayed
<1>2. Len(io_delays) \in Nat
  BY DEF Inv, Typed
<1> QED
  BY <1>1, <1>2 DEF Inv

(* The two replays end with the same relationships, slots and values.      *)
THEOREM AuditAgreesWithCoverage == Spec => []ReplaysAgree
<1>1. Inv => ReplaysAgree
  <2> DEFINE n == Len(io_delays)
  <2> SUFFICES ASSUME Inv, pass = "done"
               PROVE  /\ DOMAIN ledger = DOMAIN active
                      /\ \A k \in DOMAIN active :
                           /\ DOMAIN ledger[k] = DOMAIN active[k].values
                           /\ \A s \in DOMAIN ledger[k] :
                                io_delays[ledger[k][s]].value = active[k].values[s]
    BY DEF ReplaysAgree
  <2>1. n \in 0..n /\ Typed /\ LedgerHistory(ledger, n) /\ ReplayHistory(active, n)
    BY WhenDone
  <2>2. ASSUME NEW k \in DOMAIN ledger, NEW s \in DOMAIN ledger[k]
        PROVE  /\ Strictest(io_delays[ledger[k][s]].value, k, s, n)
               /\ k \in DOMAIN active /\ s \in DOMAIN active[k].values
    <3>1. /\ k \in Relationships /\ s \in AllSlots /\ Speaking(k, s, n) # {}
          /\ Strictest(io_delays[ledger[k][s]].value, k, s, n)
      BY <2>1 DEF LedgerHistory
    <3> QED
      BY <3>1, <2>1 DEF ReplayHistory
  <2>3. ASSUME NEW k \in DOMAIN active, NEW s \in DOMAIN active[k].values
        PROVE  /\ Strictest(active[k].values[s], k, s, n)
               /\ k \in DOMAIN ledger /\ s \in DOMAIN ledger[k]
    <3>1. k \in Relationships /\ s \in AllSlots /\ Strictest(active[k].values[s], k, s, n)
      BY <2>1 DEF ReplayHistory
    <3>2. Speaking(k, s, n) # {}
      BY <3>1 DEF Strictest
    <3> QED
      BY <3>1, <3>2, <2>1 DEF LedgerHistory
  <2>4. /\ \A k \in DOMAIN ledger : DOMAIN ledger[k] # {}
        /\ \A k \in DOMAIN active : DOMAIN active[k].values # {}
    BY <2>1 DEF LedgerHistory, ReplayHistory
  <2>5. DOMAIN ledger = DOMAIN active
    BY <2>2, <2>3, <2>4
  <2>6. \A k \in DOMAIN active : DOMAIN ledger[k] = DOMAIN active[k].values
    BY <2>2, <2>3, <2>5
  <2> HIDE DEF n
  <2> QED
    BY <2>1, <2>2, <2>3, <2>5, <2>6, OneStrictest DEF n
<1> QED
  BY <1>1, ReplaysAreHistory, PTL

(* What coverage is computed from is what the documented rule says of the  *)
(* commands: the strictest value still in force, or nothing.               *)
THEOREM CoverageIsHistory == Spec => []ActiveIsHistory
<1>1. Inv => ActiveIsHistory
  <2> DEFINE n == Len(io_delays)
  <2> SUFFICES ASSUME Inv, pass = "done", NEW k \in AllKeys, NEW s \in AllSlots
               PROVE  LET values == {io_delays[i].value : i \in Speaking(k, s, n)}
                          isSet  == k \in DOMAIN active /\ s \in DOMAIN active[k].values
                      IN  /\ isSet <=> values # {}
                          /\ isSet => /\ active[k].values[s] \in values
                                      /\ \A v \in values :
                                           IF s[2] = "min" THEN active[k].values[s] <= v
                                           ELSE active[k].values[s] >= v
    BY DEF ActiveIsHistory
  <2>1. Typed /\ ReplayHistory(active, n)
    BY WhenDone
  <2>2. k \in Relationships
    BY <2>1, KeysTyped
  <2>3. Speaking(k, s, n) # {} => k \in DOMAIN active /\ s \in DOMAIN active[k].values
    BY <2>1, <2>2 DEF ReplayHistory
  <2>4. k \in DOMAIN active /\ s \in DOMAIN active[k].values =>
          Strictest(active[k].values[s], k, s, n)
    BY <2>1 DEF ReplayHistory
  <2> HIDE DEF n
  <2> QED
    BY <2>3, <2>4 DEF Strictest, AtLeastAsStrict
<1> QED
  BY <1>1, ReplaysAreHistory, PTL

(* The audit reports a command exactly where it overrules what an earlier  *)
(* one was still saying.                                                   *)
THEOREM LossesAreReported == Spec => []OverwritesReported
<1>1. Inv => OverwritesReported
  <2> SUFFICES ASSUME Inv, pass = "done", NEW j \in DOMAIN io_delays, NEW p \in io_delays[j].ports
               PROVE  <<"OC3014", j, p>> \in findings <=> Lost(j, p)
    BY DEF OverwritesReported, Lost
  <2>1. ReportsAreHistory(Len(io_delays)) /\ Typed
    BY WhenDone
  <2>2. j <= Len(io_delays)
    BY <2>1 DEF Typed
  <2> QED
    BY <2>1, <2>2 DEF ReportsAreHistory
<1> QED
  BY <1>1, ReplaysAreHistory, PTL

-----------------------------------------------------------------------------
(* The compaction.  A rectangle that fits is found as long as cells are    *)
(* left, because the last four candidates are single cells.                *)
LEMMA SlotsAreFour ==
  /\ IsFiniteSet(AllSlots) /\ Cardinality(AllSlots) = 4
  /\ AllSlots = {<<"rise", "min">>, <<"rise", "max">>, <<"fall", "min">>, <<"fall", "max">>}
<1>1. \A a, b : a # b => IsFiniteSet({a, b}) /\ Cardinality({a, b}) = 2
  <2> SUFFICES ASSUME NEW a, NEW b, a # b
               PROVE  IsFiniteSet({a, b}) /\ Cardinality({a, b}) = 2
    OBVIOUS
  <2>1. IsFiniteSet({a}) /\ Cardinality({a}) = 1
    BY FS_Singleton
  <2>2. b \notin {a} /\ {a} \cup {b} = {a, b}
    OBVIOUS
  <2>3. IsFiniteSet({a} \cup {b}) /\ Cardinality({a} \cup {b}) = Cardinality({a}) + 1
    BY <2>1, <2>2, FS_AddElement
  <2> QED
    BY <2>1, <2>2, <2>3
<1>2. IsFiniteSet(Transitions) /\ Cardinality(Transitions) = 2
  BY <1>1 DEF Transitions
<1>3. IsFiniteSet(Senses) /\ Cardinality(Senses) = 2
  BY <1>1 DEF Senses
<1>4. IsFiniteSet(AllSlots) /\ Cardinality(AllSlots) = Cardinality(Transitions) * Cardinality(Senses)
  BY <1>2, <1>3, FS_Product DEF AllSlots
<1>5. AllSlots = {<<"rise", "min">>, <<"rise", "max">>, <<"fall", "min">>, <<"fall", "max">>}
  BY DEF AllSlots, Transitions, Senses
<1> QED
  BY <1>2, <1>3, <1>4, <1>5

LEMMA CandidatesAre ==
  /\ DOMAIN Candidates = 1..9 /\ \A i \in 1..9 : Candidates[i] # {}
  /\ Candidates[6] = {<<"fall", "max">>} /\ Candidates[7] = {<<"fall", "min">>}
  /\ Candidates[8] = {<<"rise", "max">>} /\ Candidates[9] = {<<"rise", "min">>}
<1>1. /\ AllSlots # {} /\ ({"fall"} \X Senses) # {} /\ (Transitions \X {"max"}) # {}
      /\ (Transitions \X {"min"}) # {} /\ ({"rise"} \X Senses) # {}
  <2>1. \A S, T, x, y : x \in S /\ y \in T => <<x, y>> \in S \X T
    OBVIOUS
  <2>2. "rise" \in Transitions /\ "min" \in Senses
    BY DEF Transitions, Senses
  <2> QED
    BY <2>1, <2>2 DEF AllSlots
<1>2. DOMAIN Candidates = 1..9
  BY DEF Candidates
<1>3. /\ Candidates[1] = AllSlots /\ Candidates[2] = {"fall"} \X Senses
      /\ Candidates[3] = Transitions \X {"max"} /\ Candidates[4] = Transitions \X {"min"}
      /\ Candidates[5] = {"rise"} \X Senses
      /\ Candidates[6] = {<<"fall", "max">>} /\ Candidates[7] = {<<"fall", "min">>}
      /\ Candidates[8] = {<<"rise", "max">>} /\ Candidates[9] = {<<"rise", "min">>}
  BY DEF Candidates
<1>4. \A i \in 1..9 : i \in {1, 2, 3, 4, 5, 6, 7, 8, 9}
  OBVIOUS
<1>5. \A i \in 1..9 : Candidates[i] # {}
  BY <1>1, <1>3, <1>4
<1> QED
  BY <1>2, <1>3, <1>5

LEMMA FirstFits ==
  ASSUME NEW cells \in SUBSET AllSlots, cells # {}
  PROVE  FirstFitting(cells) \subseteq cells /\ FirstFitting(cells) # {}
<1> DEFINE fitting == {i \in 1..9 : Candidates[i] \subseteq cells}
           R == OpToRel(<, Nat)
<1>1. fitting # {}
  <2>1. PICK s \in cells : s \in AllSlots
    OBVIOUS
  <2>2. {s} \in {Candidates[6], Candidates[7], Candidates[8], Candidates[9]}
    BY <2>1, SlotsAreFour, CandidatesAre
  <2>3. \E i \in {6, 7, 8, 9} : Candidates[i] = {s}
    BY <2>2
  <2>4. {6, 7, 8, 9} \subseteq 1..9
    OBVIOUS
  <2> QED
    BY <2>1, <2>3, <2>4
<1>2. fitting \subseteq Nat
  OBVIOUS
<1>3. \A x, y \in Nat : <<y, x>> \in R <=> y < x
  BY DEF OpToRel
<1>4. IsWellFoundedOn(R, Nat)
  BY NatLessThanWellFounded
<1> HIDE DEF R
<1>5. \E i \in fitting : \A j \in fitting : ~(<<j, i>> \in R)
  <2> HIDE DEF fitting
  <2> QED
    BY <1>1, <1>2, <1>4, WFMin
<1>6. PICK i \in fitting : \A j \in fitting : ~(<<j, i>> \in R)
  BY <1>5
<1>7. \A j \in 1..(i - 1) : ~(Candidates[j] \subseteq cells)
  <2>1. \A j \in 1..(i - 1) : j \in 1..9 /\ j \in Nat /\ i \in Nat /\ j < i
    BY <1>6
  <2> QED
    BY <1>3, <1>6, <2>1
<1>8. \E k \in DOMAIN Candidates : /\ Candidates[k] \subseteq cells
                                  /\ \A j \in 1..(k - 1) : ~(Candidates[j] \subseteq cells)
  BY <1>6, <1>7, CandidatesAre
<1> DEFINE first == CHOOSE k \in DOMAIN Candidates :
             /\ Candidates[k] \subseteq cells
             /\ \A j \in 1..(k - 1) : ~(Candidates[j] \subseteq cells)
<1>9. first \in DOMAIN Candidates /\ Candidates[first] \subseteq cells
  BY <1>8
<1>10. FirstFitting(cells) = Candidates[first]
  BY DEF FirstFitting
<1> HIDE DEF first
<1> QED
  BY <1>9, <1>10, CandidatesAre

(* The recursive function exists: on sets of n cells for every n up to 4.  *)
Sized(n) == {c \in SUBSET AllSlots : Cardinality(c) <= n}

Cuts(f, n) ==
  f = [c \in Sized(n) |-> IF c = {} THEN {} ELSE {FirstFitting(c)} \cup f[c \ FirstFitting(c)]]

LEMMA SubsetSizes ==
  ASSUME NEW c \in SUBSET AllSlots
  PROVE  /\ IsFiniteSet(c) /\ Cardinality(c) \in 0..4
         /\ c # {} => /\ Cardinality(c) # 0
                      /\ c \ FirstFitting(c) \in SUBSET AllSlots
                      /\ Cardinality(c \ FirstFitting(c)) < Cardinality(c)
<1>1. IsFiniteSet(c) /\ Cardinality(c) <= 4 /\ Cardinality(c) \in Nat
  BY SlotsAreFour, FS_Subset, FS_CardinalityType
<1>2. ASSUME c # {} PROVE Cardinality(c) # 0
  BY <1>1, <1>2, FS_EmptySet
<1>3. ASSUME c # {} PROVE Cardinality(c \ FirstFitting(c)) < Cardinality(c)
  <2> DEFINE rest == c \ FirstFitting(c)
  <2>1. rest \in SUBSET c /\ rest # c
    BY <1>3, FirstFits
  <2>2. IsFiniteSet(rest) /\ Cardinality(rest) <= Cardinality(c) /\ Cardinality(rest) # Cardinality(c)
    BY <1>1, <2>1, FS_Subset
  <2>3. Cardinality(rest) \in Nat
    BY <2>2, FS_CardinalityType
  <2> HIDE DEF rest
  <2> QED
    BY <1>1, <2>2, <2>3 DEF rest
<1> QED
  BY <1>1, <1>2, <1>3

LEMMA CutsNext ==
  ASSUME NEW n \in Nat, NEW f, Cuts(f, n)
  PROVE  \E g : Cuts(g, n + 1)
<1> DEFINE cut(h, c) == IF c = {} THEN {} ELSE {FirstFitting(c)} \cup h[c \ FirstFitting(c)]
           g == [c \in Sized(n + 1) |-> cut(f, c)]
           h == [c \in Sized(n + 1) |-> cut(g, c)]
<1>1. f = [c \in Sized(n) |-> cut(f, c)]
  BY DEF Cuts
<1>2. ASSUME NEW c \in Sized(n + 1), c # {}
      PROVE  c \ FirstFitting(c) \in Sized(n) /\ c \ FirstFitting(c) \in Sized(n + 1)
  <2>1. c \in SUBSET AllSlots /\ Cardinality(c) <= n + 1
    BY DEF Sized
  <2> DEFINE rest == c \ FirstFitting(c)
  <2>2. rest \in SUBSET AllSlots /\ Cardinality(rest) < Cardinality(c)
        /\ Cardinality(c) \in 0..4
    BY <1>2, <2>1, SubsetSizes
  <2>3. Cardinality(rest) \in 0..4
    BY <2>2, SubsetSizes
  <2> HIDE DEF rest
  <2>4. rest \in Sized(n) /\ rest \in Sized(n + 1)
    BY <2>1, <2>2, <2>3 DEF Sized
  <2> QED
    BY <2>4 DEF rest
<1>3. ASSUME NEW c \in Sized(n) PROVE f[c] = cut(f, c) /\ c \in Sized(n + 1)
  <2>1. c \in SUBSET AllSlots /\ Cardinality(c) <= n
    BY DEF Sized
  <2>2. Cardinality(c) \in 0..4
    BY <2>1, SubsetSizes
  <2>3. Cardinality(c) <= n + 1
    BY <2>1, <2>2
  <2> QED
    BY <1>1, <2>1, <2>3 DEF Sized
<1>4. ASSUME NEW c \in Sized(n + 1) PROVE cut(f, c) = cut(g, c)
  <2>1. CASE c = {}
    BY <2>1
  <2>2. CASE c # {}
    <3>1. f[c \ FirstFitting(c)] = cut(f, c \ FirstFitting(c))
      BY <1>2, <1>3, <2>2
    <3>2. g[c \ FirstFitting(c)] = cut(f, c \ FirstFitting(c))
      BY <1>2, <2>2
    <3> QED
      BY <2>2, <3>1, <3>2
  <2> QED
    BY <2>1, <2>2
<1>5. g = h
  BY <1>4
<1>6. Cuts(g, n + 1)
  BY <1>5 DEF Cuts
<1> QED
  BY <1>6

LEMMA RectanglesIsCut ==
  ASSUME NEW c \in SUBSET AllSlots
  PROVE  Rectangles[c] =
           IF c = {} THEN {} ELSE {FirstFitting(c)} \cup Rectangles[c \ FirstFitting(c)]
<1>1. \E f : Cuts(f, 0)
  <2> DEFINE f == [s \in Sized(0) |-> {}]
             g == [s \in Sized(0) |-> IF s = {} THEN {} ELSE {FirstFitting(s)} \cup f[s \ FirstFitting(s)]]
  <2>1. \A s \in Sized(0) : s = {}
    <3>1. \A s \in Sized(0) : Cardinality(s) \in 0..4 /\ Cardinality(s) <= 0 /\ (s # {} => Cardinality(s) # 0)
      BY SubsetSizes DEF Sized
    <3> QED
      BY <3>1
  <2>2. f = g
    BY <2>1
  <2>3. Cuts(f, 0)
    BY <2>2 DEF Cuts
  <2> QED
    BY <2>3
<1>2. \E f : Cuts(f, 4)
  <2>1. \E f : Cuts(f, 1)
    BY <1>1, CutsNext
  <2>2. \E f : Cuts(f, 2)
    BY <2>1, CutsNext
  <2>3. \E f : Cuts(f, 3)
    BY <2>2, CutsNext
  <2> QED
    BY <2>3, CutsNext
<1>3. Sized(4) = SUBSET AllSlots
  <2>1. ASSUME NEW s \in SUBSET AllSlots PROVE Cardinality(s) <= 4
    <3>1. Cardinality(s) \in 0..4
      BY SubsetSizes
    <3> QED
      BY <3>1
  <2> QED
    BY <2>1 DEF Sized
<1> DEFINE f == CHOOSE f : Cuts(f, 4)
<1>4. Cuts(f, 4)
  BY <1>2
<1>5. Rectangles = f
  BY <1>3 DEF Rectangles, Cuts
<1> HIDE DEF f
<1> QED
  BY <1>3, <1>4, <1>5 DEF Cuts

(* The rectangles of a set of cells partition it.                          *)
Partitions(rectangles, cells) ==
  /\ UNION rectangles = cells
  /\ \A c, d \in rectangles : c # d => c \cap d = {}

LEMMA RectanglesPartition ==
  ASSUME NEW cells \in SUBSET AllSlots
  PROVE  Partitions(Rectangles[cells], cells)
<1>s. SUFFICES ASSUME ~Partitions(Rectangles[cells], cells) PROVE FALSE
  OBVIOUS
<1> DEFINE R == OpToRel(<, Nat)
           wrong == {c \in SUBSET AllSlots : ~Partitions(Rectangles[c], c)}
           sizes == {n \in Nat : \E c \in wrong : Cardinality(c) = n}
<1>1. sizes # {}
  <2>1. cells \in wrong
    BY <1>s
  <2>2. Cardinality(cells) \in Nat
    <3>1. Cardinality(cells) \in 0..4
      BY SubsetSizes
    <3> QED
      BY <3>1
  <2> HIDE DEF wrong
  <2> QED
    BY <2>1, <2>2
<1>2. \A x, y \in Nat : <<y, x>> \in R <=> y < x
  BY DEF OpToRel
<1>3. IsWellFoundedOn(R, Nat)
  BY NatLessThanWellFounded
<1> HIDE DEF R
<1>4. PICK n \in sizes : \A m \in sizes : ~(<<m, n>> \in R)
  <2>1. sizes \subseteq Nat
    OBVIOUS
  <2> HIDE DEF sizes
  <2> QED
    BY <1>1, <1>3, <2>1, WFMin
<1>5. PICK c \in wrong : Cardinality(c) = n
  BY <1>4
<1>6. c \in SUBSET AllSlots /\ ~Partitions(Rectangles[c], c) /\ n \in Nat
  BY <1>4, <1>5
<1> DEFINE first == FirstFitting(c)
           rest == c \ first
<1>7. c # {}
  <2>1. ASSUME c = {} PROVE Rectangles[c] = {}
    BY <1>6, <2>1, RectanglesIsCut
  <2> QED
    BY <1>6, <2>1 DEF Partitions
<1>8. Rectangles[c] = {first} \cup Rectangles[rest]
  BY <1>6, <1>7, RectanglesIsCut
<1>9. first \subseteq c /\ first # {}
  BY <1>6, <1>7, FirstFits
<1>10. rest \in SUBSET AllSlots /\ Cardinality(rest) < n /\ Cardinality(rest) \in Nat
  <2>1. rest \in SUBSET AllSlots /\ Cardinality(rest) < Cardinality(c)
    BY <1>6, <1>7, SubsetSizes
  <2>2. Cardinality(rest) \in 0..4
    BY <2>1, SubsetSizes
  <2> HIDE DEF rest
  <2> QED
    BY <1>5, <2>1, <2>2
<1>11. Partitions(Rectangles[rest], rest)
  <2>1. Cardinality(rest) \notin sizes
    BY <1>2, <1>4, <1>10
  <2> HIDE DEF rest
  <2> QED
    BY <1>10, <2>1
<1>12. Partitions({first} \cup Rectangles[rest], c)
  <2>1. UNION Rectangles[rest] = rest /\ \A d, e \in Rectangles[rest] : d # e => d \cap e = {}
    BY <1>11 DEF Partitions
  <2>2. \A d \in Rectangles[rest] : d \cap first = {}
    BY <2>1
  <2>3. UNION ({first} \cup Rectangles[rest]) = c
    <3>1. UNION ({first} \cup Rectangles[rest]) = first \cup rest
      <4> DEFINE others == Rectangles[rest]
      <4>1. UNION others = rest
        BY <2>1
      <4> HIDE DEF others
      <4>2. UNION ({first} \cup others) = first \cup UNION others
        OBVIOUS
      <4> QED
        BY <4>1, <4>2 DEF others
    <3> QED
      BY <1>9, <3>1
  <2> HIDE DEF first, rest
  <2> QED
    BY <2>1, <2>2, <2>3 DEF Partitions
<1> HIDE DEF first, rest
<1> QED
  BY <1>6, <1>8, <1>12

(* The records: one per rectangle of the slots that have one head and one  *)
(* set of ports.                                                           *)
Cells(h, ports) == {s \in AllSlots : PortsWith(h, s) = ports}

LEMMA RecordsAre ==
  /\ \A a \in Atoms : \A c \in Rectangles[Cells(a.head, PortsWith(a.head, a.slot))] :
       [head |-> a.head, ports |-> PortsWith(a.head, a.slot), cells |-> c] \in Records
  /\ \A r \in Records : \E a \in Atoms :
       /\ r.head = a.head /\ r.ports = PortsWith(a.head, a.slot)
       /\ r.cells \in Rectangles[Cells(r.head, r.ports)]
       /\ r = [head |-> r.head, ports |-> r.ports, cells |-> r.cells]
<1> DEFINE matrices == {[head |-> a.head, ports |-> PortsWith(a.head, a.slot)] : a \in Atoms}
           of(m) == {[head |-> m.head, ports |-> m.ports, cells |-> c] :
                       c \in Rectangles[Cells(m.head, m.ports)]}
<1>1. Records = UNION {of(m) : m \in matrices}
  BY DEF Records, Cells
<1>2. ASSUME NEW a \in Atoms, NEW c \in Rectangles[Cells(a.head, PortsWith(a.head, a.slot))]
      PROVE  [head |-> a.head, ports |-> PortsWith(a.head, a.slot), cells |-> c] \in Records
  <2> DEFINE m == [head |-> a.head, ports |-> PortsWith(a.head, a.slot)]
  <2>1. m \in matrices /\ m.head = a.head /\ m.ports = PortsWith(a.head, a.slot)
    OBVIOUS
  <2> HIDE DEF m, matrices
  <2>2. [head |-> m.head, ports |-> m.ports, cells |-> c] \in of(m)
    BY <2>1
  <2> QED
    BY <1>1, <2>1, <2>2
<1>3. ASSUME NEW r \in Records
      PROVE  \E a \in Atoms :
               /\ r.head = a.head /\ r.ports = PortsWith(a.head, a.slot)
               /\ r.cells \in Rectangles[Cells(r.head, r.ports)]
               /\ r = [head |-> r.head, ports |-> r.ports, cells |-> r.cells]
  <2>1. PICK m \in matrices : r \in of(m)
    BY <1>1
  <2>2. PICK a \in Atoms : m = [head |-> a.head, ports |-> PortsWith(a.head, a.slot)]
    BY <2>1
  <2>3. PICK c \in Rectangles[Cells(m.head, m.ports)] :
          r = [head |-> m.head, ports |-> m.ports, cells |-> c]
    BY <2>1
  <2>4. m.head = a.head /\ m.ports = PortsWith(a.head, a.slot)
    BY <2>2
  <2>5. r.head = m.head /\ r.ports = m.ports /\ r.cells = c
    BY <2>3
  <2> QED
    BY <2>3, <2>4, <2>5
<1> QED
  BY <1>2, <1>3

LEMMA AtomsAre ==
  /\ \A a \in Atoms : /\ a = [head |-> a.head, port |-> a.port, slot |-> a.slot]
                      /\ \E k \in DOMAIN active : \E s \in DOMAIN active[k].values :
                           a.head = Datum(k, s) /\ a.port = k.port /\ a.slot = s
  /\ \A k \in DOMAIN active : \A s \in DOMAIN active[k].values :
       [head |-> Datum(k, s), port |-> k.port, slot |-> s] \in Atoms
<1> DEFINE of(k) == {[head |-> Datum(k, s), port |-> k.port, slot |-> s] : s \in DOMAIN active[k].values}
<1>1. Atoms = UNION {of(k) : k \in DOMAIN active}
  BY DEF Atoms
<1>2. ASSUME NEW a \in Atoms
      PROVE  /\ a = [head |-> a.head, port |-> a.port, slot |-> a.slot]
             /\ \E k \in DOMAIN active : \E s \in DOMAIN active[k].values :
                  a.head = Datum(k, s) /\ a.port = k.port /\ a.slot = s
  <2>1. \E k \in DOMAIN active : a \in of(k)
    BY <1>1
  <2>2. PICK k \in DOMAIN active : a \in of(k)
    BY <2>1
  <2>3. PICK s \in DOMAIN active[k].values :
          a = [head |-> Datum(k, s), port |-> k.port, slot |-> s]
    BY <2>2
  <2>4. a.head = Datum(k, s) /\ a.port = k.port /\ a.slot = s
    BY <2>3
  <2> QED
    BY <2>3, <2>4
<1>3. ASSUME NEW k \in DOMAIN active, NEW s \in DOMAIN active[k].values
      PROVE  [head |-> Datum(k, s), port |-> k.port, slot |-> s] \in Atoms
  BY <1>1
<1> QED
  BY <1>2, <1>3

(* Whatever is active, its records say it exactly.                         *)
Said(r) == {[head |-> r.head, port |-> p, slot |-> s] : p \in r.ports, s \in r.cells}

LEMMA RecordsSayAtoms ==
  ASSUME \A k \in DOMAIN active : DOMAIN active[k].values \subseteq AllSlots
  PROVE  /\ \A r \in Records : Said(r) \subseteq Atoms
         /\ \A a \in Atoms : \E r \in Records :
              r.head = a.head /\ a.port \in r.ports /\ a.slot \in r.cells
         /\ \A q, r \in Records : q # r /\ q.head = r.head /\ q.ports \cap r.ports # {} =>
              q.cells \cap r.cells = {}
         /\ \A r \in Records : \A s \in r.cells : s \in AllSlots /\ PortsWith(r.head, s) = r.ports
<1>1. ASSUME NEW r \in Records, NEW s \in r.cells
      PROVE  s \in AllSlots /\ PortsWith(r.head, s) = r.ports
  <2>1. r.cells \in Rectangles[Cells(r.head, r.ports)]
    BY RecordsAre
  <2>2. Partitions(Rectangles[Cells(r.head, r.ports)], Cells(r.head, r.ports))
    BY RectanglesPartition DEF Cells
  <2>3. s \in Cells(r.head, r.ports)
    BY <2>1, <2>2 DEF Partitions
  <2> QED
    BY <2>3 DEF Cells
<1>2. ASSUME NEW r \in Records, NEW p \in r.ports, NEW s \in r.cells
      PROVE  [head |-> r.head, port |-> p, slot |-> s] \in Atoms
  <2>1. p \in PortsWith(r.head, s)
    BY <1>1
  <2>2. PICK a \in Atoms : a.head = r.head /\ a.slot = s /\ a.port = p
    BY <2>1 DEF PortsWith
  <2> QED
    BY <2>2, AtomsAre
<1>3. ASSUME NEW a \in Atoms
      PROVE  \E r \in Records : r.head = a.head /\ a.port \in r.ports /\ a.slot \in r.cells
  <2> DEFINE ports == PortsWith(a.head, a.slot)
             cells == Cells(a.head, ports)
  <2>1. a.slot \in cells
    <3>1. a.slot \in AllSlots
      BY AtomsAre
    <3> QED
      BY <3>1 DEF Cells
  <2>2. Partitions(Rectangles[cells], cells)
    BY RectanglesPartition DEF Cells
  <2>3. PICK c \in Rectangles[cells] : a.slot \in c
    BY <2>1, <2>2 DEF Partitions
  <2>4. a.port \in ports
    BY DEF PortsWith
  <2> DEFINE r == [head |-> a.head, ports |-> ports, cells |-> c]
  <2>5. r \in Records
    BY RecordsAre
  <2>6. r.head = a.head /\ r.ports = ports /\ r.cells = c
    OBVIOUS
  <2> HIDE DEF r, ports, cells
  <2> QED
    BY <2>3, <2>4, <2>5, <2>6
<1>4. ASSUME NEW q \in Records, NEW r \in Records, q # r, q.head = r.head,
             NEW s \in q.cells \cap r.cells
      PROVE  FALSE
  <2>1. q.ports = r.ports
    BY <1>1, <1>4
  <2>2. /\ q.cells \in Rectangles[Cells(r.head, r.ports)]
        /\ r.cells \in Rectangles[Cells(r.head, r.ports)]
    BY <1>4, <2>1, RecordsAre
  <2>3. Partitions(Rectangles[Cells(r.head, r.ports)], Cells(r.head, r.ports))
    BY RectanglesPartition DEF Cells
  <2>4. q.cells = r.cells
    BY <2>2, <2>3 DEF Partitions
  <2>5. /\ q = [head |-> q.head, ports |-> q.ports, cells |-> q.cells]
        /\ r = [head |-> r.head, ports |-> r.ports, cells |-> r.cells]
    BY RecordsAre
  <2> QED
    BY <1>4, <2>1, <2>4, <2>5
<1> QED
  BY <1>1, <1>2, <1>3, <1>4 DEF Said

(* effective_io_delay_semantics: the compacted records say exactly what is *)
(* active, and nothing twice.                                              *)
THEOREM SnapshotsAreExact == Spec => []SnapshotExact
<1>1. Inv => SnapshotExact
  <2>s. SUFFICES ASSUME Inv, pass = "done" PROVE SnapshotExact
    BY DEF SnapshotExact
  <2>1. \A k \in DOMAIN active : DOMAIN active[k].values \subseteq AllSlots
    BY <2>s, WhenDone DEF ReplayHistory
  <2>2. \A r \in Records : Said(r) \subseteq Atoms
    BY <2>1, RecordsSayAtoms
  <2>3. \A a \in Atoms : \E r \in Records : a \in Said(r)
    <3>1. ASSUME NEW a \in Atoms PROVE \E r \in Records : a \in Said(r)
      <4>1. PICK r \in Records : r.head = a.head /\ a.port \in r.ports /\ a.slot \in r.cells
        BY <2>1, RecordsSayAtoms
      <4>2. a = [head |-> a.head, port |-> a.port, slot |-> a.slot]
        BY AtomsAre
      <4> QED
        BY <4>1, <4>2 DEF Said
    <3> QED
      BY <3>1
  <2>4. Atoms = UNION {Said(r) : r \in Records}
    BY <2>2, <2>3
  <2>5. \A q, r \in Records :
          q # r /\ q.head = r.head /\ q.ports \cap r.ports # {} => q.cells \cap r.cells = {}
    BY <2>1, RecordsSayAtoms
  <2> QED
    BY <2>4, <2>5 DEF SnapshotExact, Said
<1> QED
  BY <1>1, ReplaysAreHistory, PTL

-----------------------------------------------------------------------------
(* The coverage.                                                           *)
LEMMA ImageIsFinite ==
  ASSUME NEW S, IsFiniteSet(S), NEW f, f = [x \in S |-> f[x]]
  PROVE  /\ IsFiniteSet({f[x] : x \in S})
         /\ Cardinality({f[x] : x \in S}) <= Cardinality(S)
<1> DEFINE T == {f[x] : x \in S}
<1>1. f \in Surjection(S, T)
  BY DEF Surjection
<1> HIDE DEF T
<1>2. IsFiniteSet(T) /\ Cardinality(T) <= Cardinality(S)
  BY <1>1, FS_Surjection
<1> QED
  BY <1>2 DEF T

(* A slot is covered where an active relationship of a required port has it.*)
RelationshipOf(k) == <<k.clocks, active[k].pin, k.edge>>

LEMMA CoveredAre ==
  ASSUME \A k \in DOMAIN active : DOMAIN active[k].values \subseteq AllSlots, NEW kind
  PROVE  /\ \A t \in CoveredSlots(kind) : \E k \in DOMAIN active : \E s \in DOMAIN active[k].values :
              /\ k.kind = kind /\ k.port \in Required(kind)
              /\ t = <<k.port, RelationshipOf(k), s>>
         /\ \A k \in DOMAIN active : \A s \in DOMAIN active[k].values :
              k.kind = kind /\ k.port \in Required(kind) =>
                <<k.port, RelationshipOf(k), s>> \in CoveredSlots(kind)
<1> DEFINE of(r) == {<<p, Relationship(r.head), s>> : p \in r.ports \cap Required(kind), s \in r.cells}
<1>1. CoveredSlots(kind) = UNION {of(r) : r \in {q \in Records : q.head.kind = kind}}
  BY DEF CoveredSlots
<1>2. \A k, s : /\ Datum(k, s).kind = k.kind
                /\ Relationship(Datum(k, s)) = RelationshipOf(k)
  BY DEF Datum, Relationship, RelationshipOf
<1>3. ASSUME NEW t \in CoveredSlots(kind)
      PROVE  \E k \in DOMAIN active : \E s \in DOMAIN active[k].values :
               /\ k.kind = kind /\ k.port \in Required(kind)
               /\ t = <<k.port, RelationshipOf(k), s>>
  <2>1. PICK r \in Records : r.head.kind = kind /\ t \in of(r)
    BY <1>1
  <2>2. PICK p \in r.ports, s \in r.cells :
          p \in Required(kind) /\ t = <<p, Relationship(r.head), s>>
    BY <2>1
  <2> DEFINE a == [head |-> r.head, port |-> p, slot |-> s]
  <2>3. a \in Said(r)
    BY DEF Said
  <2>4. a \in Atoms
    BY <2>3, RecordsSayAtoms
  <2>5. a.head = r.head /\ a.port = p /\ a.slot = s
    OBVIOUS
  <2> HIDE DEF a
  <2>6. PICK k \in DOMAIN active : \E e \in DOMAIN active[k].values :
          a.head = Datum(k, e) /\ a.port = k.port /\ a.slot = e
    BY <2>4, AtomsAre
  <2>7. s \in DOMAIN active[k].values /\ r.head = Datum(k, s) /\ p = k.port
    BY <2>5, <2>6
  <2>8. k.kind = kind /\ Relationship(r.head) = RelationshipOf(k)
    BY <1>2, <2>1, <2>7
  <2> QED
    BY <2>2, <2>7, <2>8
<1>4. ASSUME NEW k \in DOMAIN active, NEW s \in DOMAIN active[k].values,
             k.kind = kind, k.port \in Required(kind)
      PROVE  <<k.port, RelationshipOf(k), s>> \in CoveredSlots(kind)
  <2> DEFINE a == [head |-> Datum(k, s), port |-> k.port, slot |-> s]
  <2>1. a \in Atoms
    BY AtomsAre
  <2>2. a.head = Datum(k, s) /\ a.port = k.port /\ a.slot = s
    OBVIOUS
  <2> HIDE DEF a
  <2>3. PICK r \in Records : r.head = a.head /\ a.port \in r.ports /\ a.slot \in r.cells
    BY <2>1, RecordsSayAtoms
  <2>4. r.head.kind = kind /\ Relationship(r.head) = RelationshipOf(k)
    BY <1>2, <1>4, <2>2, <2>3
  <2>5. <<k.port, RelationshipOf(k), s>> \in of(r)
    BY <1>4, <2>2, <2>3, <2>4
  <2> QED
    BY <1>1, <2>3, <2>4, <2>5
<1> QED
  BY <1>3, <1>4

(* A relationship is counted with its four slots; it is counted when a     *)
(* slot of it is covered.                                                  *)
Due(kind) == {<<x[1], x[2], s>> : x \in Attempted(kind), s \in AllSlots}

LEMMA AttemptedAre ==
  ASSUME Typed, ReplayHistory(active, Len(io_delays)), NEW kind
  PROVE  /\ IsFiniteSet(Attempted(kind))
         /\ CoveredSlots(kind) \subseteq Due(kind)
         /\ \A k \in DOMAIN active : k.kind = kind /\ k.port \in Required(kind) =>
              <<k.port, RelationshipOf(k)>> \in Attempted(kind)
         /\ \A x \in Attempted(kind) : x = <<x[1], x[2]>> /\ x[1] \in Ports
<1> DEFINE n == Len(io_delays)
           Invalid == {j \in DOMAIN io_delays : io_delays[j].kind = kind /\ ~io_delays[j].valid}
           owed(i) == {<<p, Relationship(io_delays[i])>> : p \in io_delays[i].ports \cap Required(kind)}
           tried == {<<t[1], t[2]>> : t \in CoveredSlots(kind)}
           f == [x \in (DOMAIN io_delays) \X Ports |-> Key(io_delays[x[1]], x[2])]
           g == [k \in DOMAIN active |-> RelationshipOf(k)]
           h == [i \in DOMAIN io_delays |-> Relationship(io_delays[i])]
           FoundKeys == {f[x] : x \in (DOMAIN io_delays) \X Ports}
           G == {g[k] : k \in DOMAIN active}
           H == {h[i] : i \in DOMAIN io_delays}
<1>1. Attempted(kind) = tried \cup UNION {owed(i) : i \in Invalid}
  BY DEF Attempted
<1>2. \A k \in DOMAIN active : /\ DOMAIN active[k].values # {}
                               /\ DOMAIN active[k].values \subseteq AllSlots
  BY DEF ReplayHistory
<1>3. Required(kind) \subseteq Ports
  BY DEF Required
<1>4. n \in Nat /\ DOMAIN io_delays = 1..n /\ IsFiniteSet(DOMAIN io_delays)
  <2>1. n \in Nat /\ DOMAIN io_delays = 1..n
    BY DEF Typed
  <2> QED
    BY <2>1, FS_Interval
<1>5. DOMAIN active \subseteq FoundKeys
  <2> SUFFICES ASSUME NEW k \in DOMAIN active PROVE k \in FoundKeys
    OBVIOUS
  <2>1. PICK s \in DOMAIN active[k].values : Strictest(active[k].values[s], k, s, n)
    BY DEF ReplayHistory
  <2>2. PICK i \in 1..n : Touches(i, k, s)
    BY <2>1 DEF Strictest, Speaking
  <2>3. PICK p \in io_delays[i].ports : k = Key(io_delays[i], p)
    BY <2>2 DEF Touches, Keys
  <2>4. io_delays[i] \in Delay
    BY <1>4, <2>2 DEF Typed
  <2>5. p \in Ports
    BY <2>4 DEF Delay
  <2> DEFINE x == <<i, p>>
  <2>6. x \in (DOMAIN io_delays) \X Ports /\ k = f[x]
    BY <1>4, <2>3, <2>5
  <2> QED
    BY <2>6
<1>6. IsFiniteSet(DOMAIN active)
  <2>1. IsFiniteSet((DOMAIN io_delays) \X Ports)
    BY <1>4, FS_Product, IODelayConstants
  <2>2. f = [x \in (DOMAIN io_delays) \X Ports |-> f[x]]
    OBVIOUS
  <2> HIDE DEF f
  <2>3. IsFiniteSet(FoundKeys)
    BY <2>1, <2>2, ImageIsFinite
  <2> QED
    BY <1>5, <2>3, FS_Subset
<1>7. IsFiniteSet(G) /\ IsFiniteSet(H)
  <2>1. g = [k \in DOMAIN active |-> g[k]] /\ h = [i \in DOMAIN io_delays |-> h[i]]
    OBVIOUS
  <2> HIDE DEF g, h
  <2> QED
    BY <1>4, <1>6, <2>1, ImageIsFinite
<1>8. IsFiniteSet(Ports \X (G \cup H))
  <2> HIDE DEF G, H
  <2>1. IsFiniteSet(G \cup H)
    BY <1>7, FS_Union
  <2> QED
    BY <2>1, FS_Product, IODelayConstants
<1>9. ASSUME NEW t \in CoveredSlots(kind)
      PROVE  /\ t = <<t[1], t[2], t[3]>> /\ t[1] \in Ports /\ t[2] \in G /\ t[3] \in AllSlots
  <2>1. PICK k \in DOMAIN active : \E s \in DOMAIN active[k].values :
          k.port \in Required(kind) /\ t = <<k.port, RelationshipOf(k), s>>
    BY <1>2, CoveredAre
  <2>2. RelationshipOf(k) \in G
    OBVIOUS
  <2> HIDE DEF G
  <2> QED
    BY <1>2, <1>3, <2>1, <2>2
<1>10. ASSUME NEW x \in Attempted(kind)
       PROVE  x \in Ports \X (G \cup H)
  <2>1. CASE x \in tried
    <3>1. PICK t \in CoveredSlots(kind) : x = <<t[1], t[2]>>
      BY <2>1
    <3> QED
      BY <1>9, <3>1
  <2>2. CASE x \in UNION {owed(i) : i \in Invalid}
    <3>1. PICK i \in Invalid : x \in owed(i)
      BY <2>2
    <3>2. PICK p \in Required(kind) : x = <<p, Relationship(io_delays[i])>>
      BY <3>1
    <3>3. Relationship(io_delays[i]) \in H
      BY <3>1
    <3> HIDE DEF H
    <3> QED
      BY <1>3, <3>2, <3>3
  <2> QED
    BY <1>1, <2>1, <2>2
<1>11. IsFiniteSet(Attempted(kind))
  BY <1>8, <1>10, FS_Subset
<1>12. \A t \in CoveredSlots(kind) : <<t[1], t[2]>> \in Attempted(kind)
  BY <1>1
<1>13. CoveredSlots(kind) \subseteq Due(kind)
  <2> SUFFICES ASSUME NEW t \in CoveredSlots(kind) PROVE t \in Due(kind)
    OBVIOUS
  <2> DEFINE x == <<t[1], t[2]>>
  <2>1. x \in Attempted(kind) /\ x[1] = t[1] /\ x[2] = t[2]
    BY <1>12
  <2>2. t = <<t[1], t[2], t[3]>> /\ t[3] \in AllSlots
    BY <1>9
  <2> HIDE DEF x
  <2>3. <<x[1], x[2], t[3]>> \in Due(kind)
    BY <2>1, <2>2 DEF Due
  <2> QED
    BY <2>1, <2>2, <2>3
<1>14. ASSUME NEW k \in DOMAIN active, k.kind = kind, k.port \in Required(kind)
       PROVE  <<k.port, RelationshipOf(k)>> \in Attempted(kind)
  <2>1. PICK s \in DOMAIN active[k].values : TRUE
    BY <1>2
  <2> DEFINE t == <<k.port, RelationshipOf(k), s>>
  <2>2. t \in CoveredSlots(kind)
    BY <1>2, <1>14, CoveredAre
  <2>3. t[1] = k.port /\ t[2] = RelationshipOf(k)
    OBVIOUS
  <2> HIDE DEF t
  <2> QED
    BY <1>12, <2>2, <2>3
<1>15. \A x \in Attempted(kind) : x = <<x[1], x[2]>> /\ x[1] \in Ports
  <2> HIDE DEF G, H
  <2> QED
    BY <1>10
<1> QED
  BY <1>11, <1>13, <1>14, <1>15

(* Coverage never exceeds the total, and meets it only where every port    *)
(* has a relationship and every relationship all of its slots.             *)
LEMMA FullIsComplete ==
  ASSUME Typed, ReplayHistory(active, Len(io_delays)), NEW kind
  PROVE  LET covered == Cardinality(CoveredSlots(kind))
             total   == 4 * Cardinality(Attempted(kind)) + 4 * Cardinality(Untouched(kind))
         IN  /\ covered <= total
             /\ covered = total => Untouched(kind) = {} /\ CoveredSlots(kind) = Due(kind)
<1> DEFINE A == Attempted(kind)
           U == Untouched(kind)
           C == CoveredSlots(kind)
           D == Due(kind)
           f == [y \in A \X AllSlots |-> <<y[1][1], y[1][2], y[2]>>]
<1>1. IsFiniteSet(A) /\ C \subseteq D
  BY AttemptedAre
<1>2. IsFiniteSet(U)
  BY FS_Subset, IODelayConstants DEF Untouched, Required
<1>3. D = {f[y] : y \in A \X AllSlots}
  <2>1. ASSUME NEW d \in D PROVE d \in {f[y] : y \in A \X AllSlots}
    <3>1. PICK x \in A, s \in AllSlots : d = <<x[1], x[2], s>>
      BY DEF Due
    <3> DEFINE y == <<x, s>>
    <3>2. y \in A \X AllSlots /\ f[y] = d
      BY <3>1
    <3> HIDE DEF y, f
    <3> QED
      BY <3>2
  <2>2. ASSUME NEW y \in A \X AllSlots PROVE f[y] \in D
    <3>1. y[1] \in A /\ y[2] \in AllSlots
      OBVIOUS
    <3> QED
      BY <3>1 DEF Due
  <2> HIDE DEF f
  <2> QED
    BY <2>1, <2>2
<1>4. IsFiniteSet(A \X AllSlots) /\ Cardinality(A \X AllSlots) = Cardinality(A) * 4
  <2> HIDE DEF A
  <2> QED
    BY <1>1, SlotsAreFour, FS_Product
<1>5. IsFiniteSet(D) /\ Cardinality(D) <= Cardinality(A) * 4
  <2>1. f = [y \in A \X AllSlots |-> f[y]]
    OBVIOUS
  <2> HIDE DEF f, D, A
  <2> QED
    BY <1>3, <1>4, <2>1, ImageIsFinite
<1> HIDE DEF A, U, C, D, f
<1>6. /\ IsFiniteSet(C) /\ Cardinality(C) <= Cardinality(D)
      /\ Cardinality(D) = Cardinality(C) => D = C
  BY <1>1, <1>5, FS_Subset
<1>7. /\ Cardinality(A) \in Nat /\ Cardinality(U) \in Nat
      /\ Cardinality(C) \in Nat /\ Cardinality(D) \in Nat
  BY <1>1, <1>2, <1>5, <1>6, FS_CardinalityType
<1>8. Cardinality(U) = 0 => U = {}
  BY <1>2, FS_EmptySet
<1>9. Cardinality(C) <= 4 * Cardinality(A) + 4 * Cardinality(U)
  BY <1>5, <1>6, <1>7
<1>10. ASSUME Cardinality(C) = 4 * Cardinality(A) + 4 * Cardinality(U)
       PROVE  U = {} /\ C = D
  <2>1. Cardinality(U) = 0 /\ Cardinality(D) = Cardinality(C)
    BY <1>5, <1>6, <1>7, <1>10
  <2> QED
    BY <1>6, <1>8, <2>1
<1> QED
  BY <1>9, <1>10 DEF A, U, C, D

(* What is noted while the commands are collected, and what OC3013 says.   *)
Noted ==
  /\ delayed \in [Kinds -> SUBSET Ports]
  /\ \A i \in DOMAIN io_delays : io_delays[i].valid =>
       io_delays[i].ports \subseteq delayed[io_delays[i].kind]
  /\ \A f \in findings : f[1] = "OC3013" =>
       /\ pass \in {"replay", "done"}
       /\ f[2] \in DOMAIN ledger /\ Incomplete(DOMAIN ledger[f[2]])

LEMMA CoverageStep ==
  ASSUME Inv, Noted, pass = "replay", cursor = Len(io_delays), NEW kind \in Kinds,
         Cardinality(CoveredSlots(kind)) =
           4 * Cardinality(Attempted(kind)) + 4 * Cardinality(Untouched(kind))
  PROVE  /\ Required(kind) \subseteq delayed[kind]
         /\ \A f \in findings : f[1] = "OC3013" =>
              ~(f[2].kind = kind /\ f[2].port \in Required(kind))
<1> DEFINE n == Len(io_delays)
<1>1. n \in 0..n /\ Typed /\ LedgerHistory(ledger, n) /\ ReplayHistory(active, n)
  <2>1. Audited = n /\ Replayed = n
    BY DEF Audited, Replayed
  <2>2. Len(io_delays) \in Nat
    BY DEF Inv, Typed
  <2> QED
    BY <2>1, <2>2 DEF Inv
<1>2. \A k \in DOMAIN active : DOMAIN active[k].values \subseteq AllSlots
  BY <1>1 DEF ReplayHistory
<1>3. Untouched(kind) = {} /\ CoveredSlots(kind) = Due(kind)
  BY <1>1, FullIsComplete
<1>4. ASSUME NEW x \in Attempted(kind), NEW s \in AllSlots
      PROVE  \E k \in DOMAIN active :
               /\ k.kind = kind /\ k.port = x[1] /\ RelationshipOf(k) = x[2]
               /\ s \in DOMAIN active[k].values
  <2>1. <<x[1], x[2], s>> \in CoveredSlots(kind)
    BY <1>3 DEF Due
  <2>2. PICK k \in DOMAIN active : \E e \in DOMAIN active[k].values :
          k.kind = kind /\ <<x[1], x[2], s>> = <<k.port, RelationshipOf(k), e>>
    BY <1>2, <2>1, CoveredAre
  <2> QED
    BY <2>2
<1>5. ASSUME NEW p \in Required(kind) PROVE p \in delayed[kind]
  <2>1. PICK x \in Attempted(kind) : x[1] = p
    BY <1>3 DEF Untouched
  <2>2. <<"rise", "min">> \in AllSlots
    BY SlotsAreFour
  <2>3. PICK k \in DOMAIN active :
          k.kind = kind /\ k.port = p /\ <<"rise", "min">> \in DOMAIN active[k].values
    BY <1>4, <2>1, <2>2
  <2>4. PICK i \in 1..n : Touches(i, k, <<"rise", "min">>)
    BY <1>1, <2>3 DEF ReplayHistory, Strictest, Speaking
  <2>5. i \in DOMAIN io_delays /\ io_delays[i] \in Delay
    BY <1>1, <2>4 DEF Typed
  <2>6. k.kind = io_delays[i].kind /\ k.port \in io_delays[i].ports
    BY <1>1, <2>4, <2>5, KeysOf DEF Touches, ReplayHistory
  <2> QED
    BY <2>3, <2>4, <2>5, <2>6 DEF Touches, Noted
<1>6. ASSUME NEW f \in findings, f[1] = "OC3013", f[2].kind = kind, f[2].port \in Required(kind)
      PROVE  FALSE
  <2> DEFINE k == f[2]
  <2>1. k \in DOMAIN ledger /\ Incomplete(DOMAIN ledger[k])
    BY <1>6 DEF Noted
  <2> HIDE DEF k
  <2>2. PICK s \in DOMAIN ledger[k], sense \in Senses : <<s[1], sense>> \notin DOMAIN ledger[k]
    BY <2>1 DEF Incomplete
  <2>3. /\ k \in Relationships /\ s \in AllSlots /\ Speaking(k, s, n) # {}
    BY <1>1, <2>1, <2>2 DEF LedgerHistory
  <2>4. k \in DOMAIN active
    BY <1>1, <2>3 DEF ReplayHistory
  <2> DEFINE x == <<k.port, RelationshipOf(k)>>
             other == <<s[1], sense>>
  <2>5. x \in Attempted(kind) /\ x[1] = k.port /\ x[2] = RelationshipOf(k)
    BY <1>1, <1>6, <2>4, AttemptedAre DEF k
  <2>6. other \in AllSlots
    BY <2>3 DEF AllSlots
  <2> HIDE DEF x, other
  <2>7. PICK l \in DOMAIN active :
          /\ l.kind = kind /\ l.port = k.port /\ RelationshipOf(l) = RelationshipOf(k)
          /\ other \in DOMAIN active[l].values
    BY <1>4, <2>5, <2>6
  <2>8. l \in Relationships
    BY <1>1 DEF ReplayHistory
  <2>9. l.kind = k.kind /\ l.port = k.port /\ l.clocks = k.clocks /\ l.edge = k.edge
    BY <1>6, <2>7 DEF RelationshipOf, k
  <2>10. l = k
    BY <2>3, <2>8, <2>9 DEF Relationships
  <2>11. Speaking(k, other, n) # {}
    BY <1>1, <2>7, <2>10 DEF ReplayHistory, Strictest
  <2>12. other \in DOMAIN ledger[k]
    BY <1>1, <2>3, <2>6, <2>11 DEF LedgerHistory
  <2> QED
    BY <2>2, <2>12 DEF other
<1> QED
  BY <1>5, <1>6

NotedAndClean == Noted /\ FullCoverageIsClean

LEMMA NotedInit == Init => NotedAndClean
<1> SUFFICES ASSUME Init PROVE NotedAndClean
  OBVIOUS
<1>1. delayed \in [Kinds -> SUBSET Ports] /\ DOMAIN io_delays = {} /\ findings = {} /\ pass # "done"
  BY DEF Init
<1> QED
  BY <1>1 DEF NotedAndClean, Noted, FullCoverageIsClean

LEMMA NotedNext == Inv /\ NotedAndClean /\ [Next]_vars => NotedAndClean'
<1>s. SUFFICES ASSUME Inv, Noted, FullCoverageIsClean, [Next]_vars PROVE Noted' /\ FullCoverageIsClean'
  BY DEF NotedAndClean
<1>0. io_delays \in Seq(Delay) /\ Len(io_delays) \in Nat
  BY <1>s DEF Inv, Typed
<1>1. ASSUME NEW cmd \in Commands, Collect(cmd) PROVE Noted' /\ FullCoverageIsClean'
  <2>1. /\ pass = "collect" /\ pass' = "collect" /\ findings' = findings
        /\ io_delays' = Append(io_delays, DelayOf(cmd))
        /\ delayed' = IF WellDefined(cmd)
                      THEN [delayed EXCEPT ![cmd.kind] = @ \cup ValidPorts(cmd)] ELSE delayed
    BY <1>1 DEF Collect
  <2>2. findings = {}
    BY <1>s, <2>1 DEF Inv
  <2>3. cmd \in Command
    BY IODelayConstants
  <2>4. cmd.kind \in Kinds /\ ValidPorts(cmd) \subseteq Ports
    BY <2>3 DEF ValidPorts, Command
  <2>5. delayed \in [Kinds -> SUBSET Ports]
    BY <1>s DEF Noted
  <2>6. /\ delayed' \in [Kinds -> SUBSET Ports]
        /\ \A k \in Kinds : delayed[k] \subseteq delayed'[k]
        /\ WellDefined(cmd) => ValidPorts(cmd) \subseteq delayed'[cmd.kind]
    BY <2>1, <2>4, <2>5
  <2>7. /\ DelayOf(cmd).valid => WellDefined(cmd)
        /\ DelayOf(cmd).ports = ValidPorts(cmd) /\ DelayOf(cmd).kind = cmd.kind
    BY DEF DelayOf
  <2>8. DelayOf(cmd) \in Delay
    BY ItemTyped
  <2>9. /\ DOMAIN io_delays' = (DOMAIN io_delays) \cup {Len(io_delays) + 1}
        /\ \A i \in DOMAIN io_delays : io_delays'[i] = io_delays[i]
        /\ io_delays'[Len(io_delays) + 1] = DelayOf(cmd)
    BY <1>0, <2>1, <2>8
  <2>10. \A i \in DOMAIN io_delays : io_delays[i].kind \in Kinds
    <3>1. \A i \in DOMAIN io_delays : io_delays[i] \in Delay
      BY <1>0
    <3> QED
      BY <3>1 DEF Delay
  <2>11. ASSUME NEW i \in DOMAIN io_delays', io_delays'[i].valid
         PROVE  io_delays'[i].ports \subseteq delayed'[io_delays'[i].kind]
    <3>1. CASE i \in DOMAIN io_delays
      <4>1. io_delays[i].ports \subseteq delayed[io_delays[i].kind]
        BY <1>s, <2>9, <2>11, <3>1 DEF Noted
      <4> QED
        BY <2>6, <2>9, <2>10, <3>1, <4>1
    <3>2. CASE i = Len(io_delays) + 1
      BY <2>6, <2>7, <2>9, <2>11, <3>2
    <3> QED
      BY <2>9, <3>1, <3>2
  <2> QED
    BY <2>1, <2>2, <2>6, <2>11 DEF Noted, FullCoverageIsClean
<1>2. ASSUME EndCollection PROVE Noted' /\ FullCoverageIsClean'
  <2>1. /\ pass = "collect" /\ pass' = "audit"
        /\ findings' = findings /\ io_delays' = io_delays /\ delayed' = delayed
    BY <1>2 DEF EndCollection
  <2>2. findings = {}
    BY <1>s, <2>1 DEF Inv
  <2> QED
    BY <1>s, <2>1, <2>2 DEF Noted, FullCoverageIsClean
<1>3. ASSUME AuditItem PROVE Noted' /\ FullCoverageIsClean'
  <2>1. pass = "audit" /\ pass' = "audit" /\ io_delays' = io_delays /\ delayed' = delayed
    BY <1>3 DEF AuditItem
  <2>2. \A f \in findings : f[1] # "OC3013"
    BY <1>s, <2>1 DEF Noted
  <2>3. \A f \in findings' : f \in findings \/ f[1] = "OC3014"
    <3> DEFINE item == io_delays[cursor + 1]
               told == {<<"OC3014", cursor + 1, p>> : p \in {q \in item.ports : Overwrites(item, q)}}
    <3>1. findings' = findings \/ findings' = findings \cup told
      BY <1>3 DEF AuditItem
    <3>2. \A f \in told : f[1] = "OC3014"
      OBVIOUS
    <3> QED
      BY <3>1, <3>2
  <2> QED
    BY <1>s, <2>1, <2>2, <2>3 DEF Noted, FullCoverageIsClean
<1>4. ASSUME EndAudit PROVE Noted' /\ FullCoverageIsClean'
  <2> DEFINE told == {<<"OC3013", k>> : k \in {l \in DOMAIN ledger : Incomplete(DOMAIN ledger[l])}}
  <2>1. /\ pass = "audit" /\ pass' = "replay"
        /\ io_delays' = io_delays /\ delayed' = delayed /\ ledger' = ledger
        /\ findings' = findings \cup told
    BY <1>4 DEF EndAudit
  <2>2. \A f \in findings : f[1] # "OC3013"
    BY <1>s, <2>1 DEF Noted
  <2>3. \A f \in told : f[2] \in DOMAIN ledger /\ Incomplete(DOMAIN ledger[f[2]])
    OBVIOUS
  <2> HIDE DEF told
  <2>4. ASSUME NEW f \in findings', f[1] = "OC3013"
        PROVE  f[2] \in DOMAIN ledger' /\ Incomplete(DOMAIN ledger'[f[2]])
    BY <2>1, <2>2, <2>3, <2>4
  <2> QED
    BY <1>s, <2>1, <2>4 DEF Noted, FullCoverageIsClean
<1>5. ASSUME ReplayItem PROVE Noted' /\ FullCoverageIsClean'
  <2>1. /\ pass = "replay" /\ pass' = "replay"
        /\ UNCHANGED <<io_delays, delayed, ledger, findings>>
    BY <1>5 DEF ReplayItem
  <2> QED
    BY <1>s, <2>1 DEF Noted, FullCoverageIsClean
<1>6. ASSUME EndReplay PROVE Noted' /\ FullCoverageIsClean'
  <2>1. /\ pass = "replay" /\ pass' = "done" /\ cursor = Len(io_delays)
        /\ UNCHANGED <<io_delays, delayed, ledger, findings>>
        /\ coverage' =
             [k \in Kinds |->
                [covered |-> Cardinality(CoveredSlots(k)),
                 total   |-> 4 * Cardinality(Attempted(k)) + 4 * Cardinality(Untouched(k))]]
    BY <1>6 DEF EndReplay
  <2>2. Noted'
    BY <1>s, <2>1 DEF Noted
  <2>3. ASSUME NEW kind \in Kinds
        PROVE  /\ coverage'[kind].covered <= coverage'[kind].total
               /\ coverage'[kind].covered = coverage'[kind].total =>
                    /\ Required(kind) \subseteq delayed[kind]
                    /\ \A f \in findings : f[1] = "OC3013" =>
                         ~(f[2].kind = kind /\ f[2].port \in Required(kind))
    <3>1. /\ coverage'[kind].covered = Cardinality(CoveredSlots(kind))
          /\ coverage'[kind].total =
               4 * Cardinality(Attempted(kind)) + 4 * Cardinality(Untouched(kind))
      BY <2>1
    <3>2. Typed /\ ReplayHistory(active, Len(io_delays))
      BY <1>s, <2>1 DEF Inv, Replayed
    <3>3. coverage'[kind].covered <= coverage'[kind].total
      BY <3>1, <3>2, FullIsComplete
    <3> QED
      BY <1>s, <2>1, <3>1, <3>3, CoverageStep
  <2>4. \A kind \in Kinds : Required(kind)' = Required(kind)
    BY DEF Required
  <2> QED
    BY <2>1, <2>2, <2>3, <2>4 DEF FullCoverageIsClean
<1>7. ASSUME UNCHANGED vars PROVE Noted' /\ FullCoverageIsClean'
  <2>1. UNCHANGED <<pass, io_delays, delayed, ledger, findings, coverage>>
    BY <1>7 DEF vars
  <2> QED
    BY <1>s, <2>1 DEF Noted, FullCoverageIsClean
<1> QED
  BY <1>s, <1>1, <1>2, <1>3, <1>4, <1>5, <1>6, <1>7 DEF Next

(* _io_delay_slot_counts: a component of the coverage that reads 100 % has *)
(* no undelayed required port and no incomplete relationship.              *)
THEOREM FullCoverageHidesNothing == Spec => []FullCoverageIsClean
<1>1. Init => NotedAndClean
  BY NotedInit
<1>2. Inv /\ NotedAndClean /\ [Next]_vars => NotedAndClean'
  BY NotedNext
<1>3. NotedAndClean => FullCoverageIsClean
  BY DEF NotedAndClean
<1> QED
  BY <1>1, <1>2, <1>3, ReplaysAreHistory, PTL DEF Spec
=============================================================================
