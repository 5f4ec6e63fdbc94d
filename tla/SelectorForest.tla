---------------------------- MODULE SelectorForest ---------------------------
(***************************************************************************)
(* The selectors of one SDC command, resolved by query.py against a design *)
(* under one work budget, and what engine._audit_queries reports of them.  *)
(* The same audit may be repeated; its loops over Python sets then take    *)
(* another order, because the hash of a name differs between processes.    *)
(*                                                                         *)
(* A selector object is a number; `of' is the number of its -of_objects    *)
(* source, 0 if there is none.  Names are opaque: what the resolver sees   *)
(* of one is its Width (characters), its Depth (number of dividers) and    *)
(* the width of the part that a hierarchical query compares.  What a glob  *)
(* or regular expression matches is the set `hits' of its pattern; the     *)
(* matching engine may refuse it before the walk or fail on it after.      *)
(***************************************************************************)
EXTENDS Integers, Sequences, FiniteSets, SequencesExt, Bags

CONSTANTS
  Ports, Pins, Cells, Nets, Clocks,  \* names of the design objects
  Inputs, Outputs, Registers,        \* the ports and cells that are such
  Owner,        \* pin -> its cell
  NetOf,        \* pin or port -> its net, or NoNet
  NoNet,
  Width, LocalWidth, Depth,          \* name -> see above
  Forests,      \* what a command may contain, see Forest
  Limits,       \* values of _MAX_SELECTOR_WORK to try
  BroadMatches, BroadUniverse, BroadPercent, \* AuditOptions.broad_match_*
  MaxAudits     \* bound on the repetitions of the audit

Objects == Ports \cup Pins \cup Cells \cup Nets \cup Clocks
Kinds == {"ports", "all_inputs", "all_outputs", "pins", "cells", "registers", "nets",
          "clocks", "all_clocks"}
WholeKinds == {"all_inputs", "all_outputs", "all_clocks"}

Pattern == [size : Nat, star : BOOLEAN, wild : BOOLEAN, depth : Nat,
            hits : SUBSET Objects, engine : {"fits", "refused", "fails"}]
Filter == [size : Nat, keeps : SUBSET Objects, supported : BOOLEAN]
NoFilter == [size |-> 0, keeps |-> Objects, supported |-> TRUE]

(* all_registers is of the kind of get_registers; `all' tells them apart.  *)
Selector == [kind : Kinds, all : BOOLEAN, patterns : Seq(Pattern),
             hierarchical : BOOLEAN, regexp : BOOLEAN, filter : Filter, of : Nat,
             nested : Seq(Nat), refused : {"no", "parse", "dynamic"}]

(* The arguments of the command and every selector nested in them: all of  *)
(* these, as no smaller set has the arguments and what is nested in it.    *)
Forest(f) ==
  /\ DOMAIN f = {"roots", "node"} /\ f.node \in Seq(Selector) /\ f.roots \in Seq(DOMAIN f.node)
  /\ \A s \in DOMAIN f.node :
       /\ ToSet(f.node[s].nested) \subseteq {t \in DOMAIN f.node : t > s}
       /\ f.node[s].of # 0 => f.node[s].of \in ToSet(f.node[s].nested)
       /\ f.node[s].kind \in WholeKinds => f.node[s].all
  /\ \A few \in SUBSET DOMAIN f.node :
       ToSet(f.roots) \subseteq few /\ (\A s \in few : ToSet(f.node[s].nested) \subseteq few)
         => few = DOMAIN f.node

ASSUME SelectorConstants ==
  /\ IsFiniteSet(Objects) /\ NoNet \notin Objects
  /\ Ports \cap Pins = {}
  /\ Registers \subseteq Cells /\ Inputs \cup Outputs \subseteq Ports
  /\ Owner \in [Pins -> Cells] /\ NetOf \in [Ports \cup Pins -> Nets \cup {NoNet}]
  /\ Width \in [Objects -> Nat] /\ LocalWidth \in [Objects -> Nat] /\ Depth \in [Objects -> Nat]
  /\ \A f \in Forests : Forest(f)
  /\ Limits \subseteq Nat /\ MaxAudits \in Nat \ {0}

VARIABLES
  forest, limit,
  phase,      \* what the resolver does next
  pending, seen, ordered,  \* the traversal of the tree
  used,       \* units charged to the budget
  universes,  \* universe_cache: the collections that are materialized
  cache,      \* selector -> its ResolvedQuery
  calls,      \* selectors being resolved; the last one is at work
  frame,      \* its local variables
  findings,   \* of this audit
  previous,   \* history: findings of the audits before
  audits

vars == <<forest, limit, phase, pending, seen, ordered, used, universes, cache, calls,
          frame, findings, previous, audits>>
input == <<forest, limit, previous, audits>>
tree == <<pending, seen, ordered>>

Answer(error, found, universe, unmatched) ==
  [error |-> error, found |-> found, universe |-> universe, unmatched |-> unmatched]

Unresolved(error) == Answer(error, EmptyBag, 0, 0)

NoFrame == [candidates |-> {}, found |-> EmptyBag, at |-> 0, todo |-> {}, visible |-> {},
            everything |-> FALSE, searched |-> {}, unmatched |-> 0]

-----------------------------------------------------------------------------
(* The sum of f over a set, as the number of its units.                    *)
Units(f, set) == UNION {{x} \X (1..f[x]) : x \in set}
Total(f, set) == Cardinality(Units(f, set))

(* _SelectorWorkBudget.charge, for charges made one after the other: what  *)
(* is charged before one that does not fit stays charged.                  *)
Pay(amounts) ==
  LET given == 0..Len(amounts)
      fits  == {i \in given : used + Total(amounts, 1..i) <= limit}
      last  == CHOOSE i \in given : fits = 0..i
  IN  [ok |-> Len(amounts) \in fits, used |-> used + Total(amounts, 1..last)]

Universe(kind) ==
  CASE kind = "ports"       -> Ports     [] kind = "all_inputs"  -> Inputs
    [] kind = "all_outputs" -> Outputs   [] kind = "pins"        -> Pins
    [] kind = "cells"       -> Cells     [] kind = "registers"   -> Registers
    [] kind = "nets"        -> Nets      [] OTHER                -> Clocks

(* _universe_cache_key                                                     *)
Key(kind) == IF kind = "all_clocks" THEN "clocks" ELSE kind

ScanSize(kind) ==
  Cardinality(CASE kind \in {"all_inputs", "all_outputs"} -> Ports
                [] kind = "registers" -> Cells
                [] OTHER -> Universe(kind))

(* _collection_kind, and _OF_OBJECTS_SOURCE_KINDS for a selector's kind.   *)
Collection(kind) ==
  CASE kind \in {"all_inputs", "all_outputs"} -> "ports" [] kind = "registers" -> "cells"
    [] kind = "all_clocks" -> "clocks"                   [] OTHER -> kind

SourceKinds(kind) ==
  CASE kind = "cells" -> {"nets", "pins", "ports"} [] kind = "nets"  -> {"cells", "pins"}
    [] kind = "pins"  -> {"cells", "nets"}         [] kind = "ports" -> {"nets"}
    [] OTHER -> {}

(* design.drivers and design.loads of a net: a pin or port on the net is   *)
(* in just one of them, one that is an inout too (elaborate).              *)
Connected(net) == {e \in Ports \cup Pins : NetOf[e] = net}
PinsOf(cell) == {p \in Pins : Owner[p] = cell}

(* The relationship edges from one source object to objects of a kind, and *)
(* the object at the other end of an edge, which may be no object.         *)
Edges(kind, source, n) ==
  CASE source = "pins" /\ n \in Pins                      -> {n}
    [] source = "cells" /\ n \in Cells                    -> PinsOf(n)
    [] kind = "pins" /\ source = "nets"                   -> Connected(n)
    [] kind = "cells" /\ source = "nets"                  -> Connected(n) \cap Pins
    [] kind = "cells" /\ source = "ports" /\ n \in Ports  -> Connected(NetOf[n]) \cap Pins
    [] kind = "ports" /\ source = "nets"                  -> Connected(n) \cap Ports
    [] OTHER                                              -> {}

EndOf(kind, e) == CASE kind = "nets" -> NetOf[e] [] kind = "cells" -> Owner[e] [] OTHER -> e

(* _connected_pins charges for the drivers and loads of a net before these *)
(* are visited one by one.                                                 *)
Fanout(net) == Cardinality(Connected(net))

Approach(kind, source, n) ==
  CASE kind \in {"pins", "cells"} /\ source = "nets"     -> Fanout(n)
    [] kind = "cells" /\ source = "ports" /\ n \in Ports -> Fanout(NetOf[n])
    [] OTHER                                             -> 0

RelationOnce(kind, source, n, count) ==   \* faulty variant: forgets multiplicities
  SetToBag({EndOf(kind, e) : e \in Edges(kind, source, n)} \ {NoNet})

Relation(kind, source, n, count) ==
  LET edges == Edges(kind, source, n)
  IN  [o \in {EndOf(kind, e) : e \in edges} \ {NoNet} |->
         count * Cardinality({e \in edges : EndOf(kind, e) = o})]

(* _match_pattern: when the whole collection is walked, at what price per  *)
(* candidate, and what is selected from the visible candidates.            *)
ExactKinds == {"cells", "nets", "pins"}

Routes(s, p) == ~s.hierarchical /\ s.kind \in ExactKinds /\ p.wild
PathDepth(s, p) == IF s.kind = "pins" /\ ~s.regexp /\ p.star THEN 1 ELSE p.depth

Scans(s, p) ==
  /\ ~p.star
  /\ s.hierarchical \/ p.wild \/ (s.regexp /\ s.kind \notin ExactKinds)

Comparison(s, p, n) ==
  <<Width[n] + 1, p.size * ((IF s.hierarchical THEN LocalWidth[n] ELSE Width[n]) + 1)>>

Selected(p, visible) == IF p.star THEN visible ELSE visible \cap p.hits

-----------------------------------------------------------------------------
Init ==
  /\ forest \in Forests /\ limit \in Limits
  /\ phase = "traverse" /\ pending = forest.roots /\ seen = {} /\ ordered = <<>>
  /\ used = 0 /\ universes = {} /\ cache = [s \in {} |-> Unresolved("none")]
  /\ calls = <<>> /\ frame = NoFrame /\ findings = {} /\ previous = <<>> /\ audits = 1

(* resolve_selector_forest: the selectors of the tree, each object once.   *)
Traverse ==
  /\ phase = "traverse" /\ pending # <<>>
  /\ UNCHANGED <<input, universes, cache, calls, frame, findings>>
  /\ LET s == Head(pending)
     IN  IF s \in seen
         THEN pending' = Tail(pending) /\ UNCHANGED <<phase, seen, ordered, used>>
         ELSE /\ used' = Pay(<<1>>).used /\ ordered' = Append(ordered, s)
              /\ IF Pay(<<1>>).ok
                 THEN /\ seen' = seen \cup {s}
                      /\ pending' = forest.node[s].nested \o Tail(pending)
                      /\ UNCHANGED phase
                 ELSE phase' = "resolve" /\ UNCHANGED <<seen, pending>>

EndTraversal ==
  /\ phase = "traverse" /\ pending = <<>> /\ phase' = "resolve"
  /\ UNCHANGED <<input, tree, used, universes, cache, calls, frame, findings>>

Keep(s, result) == cache' = [t \in DOMAIN cache \cup {s} |-> IF t = s THEN result ELSE cache[t]]

(* The selector at work, and how a step of it ends.                        *)
Current == Last(calls)
S == forest.node[Current]

ReturnUncached(result) ==   \* faulty variant: does not keep a failure
  /\ IF result.error = "work" THEN UNCHANGED cache ELSE Keep(Current, result)
  /\ calls' = Front(calls) /\ frame' = NoFrame /\ phase' = "resolve"

Return(result) ==
  /\ Keep(Current, result)
  /\ calls' = Front(calls) /\ frame' = NoFrame /\ phase' = "resolve"

Goto(next, f) == phase' = next /\ frame' = f /\ UNCHANGED <<cache, calls>>

(* Charge, then continue, or fail as a whole without a partial answer.     *)
Charge(amounts, next, f) ==
  /\ used' = Pay(amounts).used
  /\ IF Pay(amounts).ok THEN Goto(next, f) ELSE Return(Unresolved("work"))

ResolverStep(at) ==
  /\ phase = at /\ UNCHANGED <<input, tree, findings>>

(* The next selector in order that has no answer yet.  What was left       *)
(* pending at the end of the traversal did not fit; its first is the last  *)
(* in order and gets no answer, or loses it if a user of it has asked.     *)
Open ==
  {i \in DOMAIN ordered : ordered[i] \notin DOMAIN cache /\ (pending # <<>> => i < Len(ordered))}

Call ==
  /\ ResolverStep("resolve") /\ calls = <<>>
  /\ UNCHANGED <<used, universes, cache, frame, phase>>
  /\ \E i \in Open : (\A j \in Open : i <= j) /\ calls' = <<ordered[i]>>

RefuseLast ==
  /\ phase = "resolve" /\ calls = <<>> /\ Open = {} /\ pending # <<>>
  /\ Keep(Last(ordered), Unresolved("work")) /\ pending' = <<>>
  /\ UNCHANGED <<input, phase, seen, ordered, used, universes, calls, frame, findings>>

EndResolution ==
  /\ ResolverStep("resolve") /\ calls = <<>> /\ Open = {} /\ pending = <<>> /\ phase' = "report"
  /\ UNCHANGED <<used, universes, cache, calls, frame>>

(* _resolve_selector_uncached up to _related_universe.  The source has an  *)
(* answer before its user does anything.                                   *)
KnownKindForgotten ==   \* faulty variant: materializes a collection again
  FALSE

KnownKind == Key(S.kind) \in universes

Enter ==
  /\ ResolverStep("resolve") /\ calls # <<>> /\ S.refused = "no"
  /\ S.of # 0 => S.of \in DOMAIN cache
  /\ IF S.of = 0
     THEN IF KnownKind
          THEN Charge(<<>>, "universe", NoFrame) /\ UNCHANGED universes
          ELSE /\ Charge(<<ScanSize(S.kind)>>, "universe", NoFrame)
               /\ universes' = IF Pay(<<ScanSize(S.kind)>>).ok
                               THEN universes \cup {Key(S.kind)} ELSE universes
     ELSE /\ UNCHANGED universes
          /\ LET source == cache[S.of]
                 kind   == Collection(forest.node[S.of].kind)
                 index  == IF S.kind = "ports" THEN <<Cardinality(Ports)>> ELSE <<>>
             IN  CASE source.error # "none" -> Return(Unresolved("source")) /\ UNCHANGED used
                   [] source.error = "none" /\ kind \notin SourceKinds(S.kind) ->
                        Return(Unresolved("kind")) /\ UNCHANGED used
                   [] OTHER ->
                        Charge(<<Cardinality(DOMAIN source.found)>> \o index, "relate",
                               [NoFrame EXCEPT !.todo = DOMAIN source.found])

Refuse ==
  /\ ResolverStep("resolve") /\ calls # <<>> /\ S.refused # "no"
  /\ Return(Unresolved(S.refused)) /\ UNCHANGED <<used, universes>>

ResolveSource ==
  /\ ResolverStep("resolve") /\ calls # <<>> /\ S.refused = "no"
  /\ S.of # 0 /\ S.of \notin DOMAIN cache /\ calls' = Append(calls, S.of)
  /\ UNCHANGED <<phase, used, universes, cache, frame>>

(* One source object, in any order.                                        *)
Relate(n) ==
  /\ ResolverStep("relate") /\ n \in frame.todo /\ UNCHANGED universes
  /\ LET kind   == Collection(forest.node[S.of].kind)
         bills  == <<Approach(S.kind, kind, n)>> \o
                     [i \in 1..Cardinality(Edges(S.kind, kind, n)) |-> 1]
     IN  Charge(bills, "relate",
           [frame EXCEPT !.todo = @ \ {n},
              !.found = @ (+) Relation(S.kind, kind, n, cache[S.of].found[n])])

EndRelation ==
  /\ ResolverStep("relate") /\ frame.todo = {} /\ UNCHANGED universes
  /\ Charge(<<2 * Cardinality(DOMAIN frame.found)>>, "finish",
            [frame EXCEPT !.candidates = DOMAIN frame.found])

(* A whole collection, or one that patterns select from.                   *)
TakeUniverse ==
  /\ ResolverStep("universe") /\ UNCHANGED universes
  /\ LET all == Universe(S.kind)
         f   == [NoFrame EXCEPT !.candidates = all]
     IN  IF S.kind \in WholeKinds
         THEN Charge(<<2 * Cardinality(all)>>, "finish", [f EXCEPT !.found = SetToBag(all)])
         ELSE Charge(<<>>, "pattern", f)

TakePattern ==
  /\ ResolverStep("pattern") /\ frame.at < Len(S.patterns) /\ UNCHANGED universes
  /\ LET i == frame.at + 1
         p == S.patterns[i]
     IN  IF Routes(S, p)
         THEN Charge(<<p.size>>, "route",
                [frame EXCEPT !.at = i, !.todo = frame.candidates, !.visible = {}])
         ELSE Charge(<<p.size>>, "match",
                [frame EXCEPT !.at = i, !.visible = frame.candidates, !.everything = TRUE])

P == S.patterns[frame.at]

(* _pattern_universe: keep the candidates at the depth of the pattern.     *)
Route(n) ==
  /\ ResolverStep("route") /\ n \in frame.todo /\ UNCHANGED universes
  /\ Charge(<<Width[n] + 1>>, "route",
       [frame EXCEPT !.todo = @ \ {n},
                     !.visible = IF Depth[n] = PathDepth(S, P) THEN @ \cup {n} ELSE @])

EndRoute ==
  /\ ResolverStep("route") /\ frame.todo = {} /\ UNCHANGED universes
  /\ IF frame.everything THEN Charge(<<>>, "match", frame)
     ELSE Charge(<<Cardinality(frame.visible)>>, "match",
                 [frame EXCEPT !.searched = @ \cup frame.visible])

Match ==
  /\ ResolverStep("match") /\ UNCHANGED universes
  /\ CASE P.engine = "refused" -> Return(Unresolved("pattern")) /\ UNCHANGED used
       [] P.engine # "refused" /\ Scans(S, P) ->
            Charge(<<>>, "scan", [frame EXCEPT !.todo = frame.visible])
       [] OTHER -> Charge(IF P.star THEN <<Cardinality(frame.visible)>> ELSE <<>>, "select", frame)

(* _collection_work_error: one candidate, in any order.                    *)
Scan(n) ==
  /\ ResolverStep("scan") /\ n \in frame.todo /\ UNCHANGED universes
  /\ Charge(Comparison(S, P, n), "scan", [frame EXCEPT !.todo = @ \ {n}])

EndScan ==
  /\ ResolverStep("scan") /\ frame.todo = {} /\ UNCHANGED universes
  /\ Charge(<<>>, "select", frame)

Select ==
  /\ ResolverStep("select") /\ UNCHANGED universes
  /\ LET hits == Selected(P, frame.visible)
     IN  IF P.engine = "fails" THEN Return(Unresolved("pattern")) /\ UNCHANGED used
         ELSE Charge(<<2 * Cardinality(hits)>>, "pattern",
                [frame EXCEPT !.found = @ (+) SetToBag(hits),
                              !.unmatched = IF hits = {} THEN @ + 1 ELSE @])

EndPatterns ==
  /\ ResolverStep("pattern") /\ frame.at = Len(S.patterns) /\ UNCHANGED universes
  /\ Charge(<<>>, "finish",
       [frame EXCEPT !.candidates = IF frame.everything THEN @ ELSE frame.searched])

(* The filter, then the result, which is paid for before it is kept.       *)
Finish ==
  /\ ResolverStep("finish") /\ UNCHANGED universes
  /\ LET found == DOMAIN frame.found
         kept  == IF S.filter.supported THEN found \cap S.filter.keeps ELSE {}
         bills == (IF S.filter = NoFilter THEN <<>> ELSE <<S.filter.size + Cardinality(found)>>)
                    \o <<2 * Cardinality(kept)>>
     IN  /\ used' = Pay(bills).used
         /\ Return(CASE ~Pay(bills).ok       -> Unresolved("work")
                     [] Pay(bills).ok /\ ~S.filter.supported -> Unresolved("filter")
                     [] OTHER -> Answer("none", [n \in kept |-> frame.found[n]],
                                        Cardinality(frame.candidates), frame.unmatched))

-----------------------------------------------------------------------------
(* _audit_queries                                                          *)
HasGlob(s) ==
  /\ s.of = 0
  /\ \/ s.regexp /\ (s.hierarchical \/ s.kind \notin ExactKinds)
     \/ \E i \in DOMAIN s.patterns : s.patterns[i].wild

Broad(s, q) ==
  LET matches == Cardinality(DOMAIN q.found)
  IN  /\ HasGlob(s) /\ q.universe >= BroadUniverse
      /\ matches >= BroadMatches \/ 100 * matches >= BroadPercent * q.universe
      /\ ~s.all

RulesOfAnswers(s, q) ==   \* faulty variant: only looks at what was resolved
  CASE q.error = "work"                              -> {}
    [] q.error \notin {"none", "work"}               -> {"OC1004"}
    [] q.error = "none" /\ (DOMAIN q.found = {} \/ q.unmatched > 0) -> {"OC1001"}
    [] OTHER                                         -> {}

Rules(s, q) ==
  IF q.error # "none"
  THEN {IF s.refused = "dynamic" THEN "OC1003" ELSE "OC1004"}
  ELSE (IF DOMAIN q.found = {} \/ q.unmatched > 0 THEN {"OC1001"} ELSE {}) \cup
       (IF DOMAIN q.found # {} /\ Broad(s, q) THEN {"OC1002"} ELSE {})

Report ==
  /\ phase = "report" /\ phase' = "done"
  /\ findings' = UNION {{<<rule, s>> : rule \in Rules(forest.node[s], cache[s])} :
                          s \in ToSet(ordered)}
  /\ UNCHANGED <<input, tree, used, universes, cache, calls, frame>>

(* The same audit in a new process.                                        *)
Repeat ==
  /\ phase = "done" /\ audits < MaxAudits /\ audits' = audits + 1
  /\ previous' = Append(previous, findings)
  /\ phase' = "traverse" /\ pending' = forest.roots /\ seen' = {} /\ ordered' = <<>>
  /\ used' = 0 /\ universes' = {} /\ cache' = [s \in {} |-> Unresolved("none")]
  /\ calls' = <<>> /\ frame' = NoFrame /\ findings' = {} /\ UNCHANGED <<forest, limit>>

Step ==
  \/ Traverse \/ EndTraversal \/ Call \/ RefuseLast \/ EndResolution
  \/ Refuse \/ ResolveSource \/ Enter \/ TakeUniverse
  \/ \E n \in Objects : Relate(n) \/ Route(n) \/ Scan(n)
  \/ EndRelation \/ TakePattern \/ EndRoute \/ Match \/ EndScan \/ Select \/ EndPatterns
  \/ Finish \/ Report

Next == Step \/ Repeat

(* The resolver runs in the auditing thread, which nothing suspends.       *)
Spec == Init /\ [][Next]_vars /\ WF_vars(Step)

-----------------------------------------------------------------------------
(* What a selector denotes and what it costs, without a budget, a cache or *)
(* an order: the reference for the properties.                             *)
Visible(s, p) ==
  IF Routes(s, p) THEN {n \in Universe(s.kind) : Depth[n] = PathDepth(s, p)}
  ELSE Universe(s.kind)

Hits(s, p) == Selected(p, Visible(s, p))

(* The patterns up to the first one on which the engine gives up.          *)
Tried(s) ==
  LET given == DOMAIN s.patterns
  IN  {i \in given : \A j \in 1..(i-1) : s.patterns[j].engine = "fits"}

Compared(s, p) == [n \in Objects |-> Comparison(s, p, n)[1] + Comparison(s, p, n)[2]]

Walk(s, p) ==
  CASE p.star                -> Cardinality(Visible(s, p))
    [] ~p.star /\ Scans(s, p) -> Total(Compared(s, p), Visible(s, p))
    [] OTHER                 -> 0

(* What a pattern costs before its candidates are matched, and in all.     *)
EntryWork(s, i) ==
  LET p == s.patterns[i]
  IN  p.size + (IF Routes(s, p) THEN Total([n \in Objects |-> Width[n] + 1], Universe(s.kind))
                ELSE 0)
             + (IF \A j \in 1..i : Routes(s, s.patterns[j]) THEN Cardinality(Visible(s, p)) ELSE 0)

PatternWork(s, i) ==
  LET p == s.patterns[i]
  IN  EntryWork(s, i) + (IF p.engine = "refused" THEN 0 ELSE Walk(s, p))
                      + (IF p.engine = "fits" THEN 2 * Cardinality(Hits(s, p)) ELSE 0)

PatternWorks(s) == [i \in DOMAIN s.patterns |-> PatternWork(s, i)]

(* What some patterns, or the relation to a known source, say: a bag.      *)
Matching(s, tried, n) == {i \in tried : n \in Hits(s, s.patterns[i])}
Matched(s, tried) ==
  [n \in {m \in Universe(s.kind) : Matching(s, tried, m) # {}} |->
     Cardinality(Matching(s, tried, n))]
Unmatched(s, tried) == Cardinality({i \in tried : Hits(s, s.patterns[i]) = {}})
Searched(s, tried) == UNION {Visible(s, s.patterns[i]) : i \in tried}

Ends(kind, from, n) == {EndOf(kind, e) : e \in Edges(kind, from, n)} \ {NoNet}
Paths(kind, from, n, o) == {e \in Edges(kind, from, n) : EndOf(kind, e) = o}
Related(kind, from, source) ==
  [o \in UNION {Ends(kind, from, n) : n \in DOMAIN source} |->
     Total([n \in DOMAIN source |-> source[n] * Cardinality(Paths(kind, from, n, o))],
           DOMAIN source)]

RelationWorks(kind, from) ==
  [n \in Objects |-> Approach(kind, from, n) + Cardinality(Edges(kind, from, n))]
RelationWork(kind, from, source) ==
  Cardinality(DOMAIN source) + (IF kind = "ports" THEN Cardinality(Ports) ELSE 0)
    + Total(RelationWorks(kind, from), DOMAIN source)
    + 2 * Cardinality(DOMAIN Related(kind, from, source))

Meaning(answer, work) == [answer |-> answer, work |-> work]

Filtered(s, bag, universe, unmatched, work) ==
  LET kept  == DOMAIN bag \cap s.filter.keeps
      price == IF s.filter = NoFilter THEN 0 ELSE s.filter.size + Cardinality(DOMAIN bag)
  IN  IF s.filter.supported
      THEN Meaning(Answer("none", [n \in kept |-> bag[n]], universe, unmatched),
                   work + price + 2 * Cardinality(kept))
      ELSE Meaning(Unresolved("filter"), work + price)

(* A selector of a source that has an answer, and one of a collection.     *)
MeaningOfRelated(s, source, from) ==
  LET bag == Related(s.kind, from, source.found)
  IN  CASE source.error # "none" -> Meaning(Unresolved("source"), 0)
        [] source.error = "none" /\ from \notin SourceKinds(s.kind) ->
             Meaning(Unresolved("kind"), 0)
        [] OTHER -> Filtered(s, bag, Cardinality(DOMAIN bag), 0,
                             RelationWork(s.kind, from, source.found))

MeaningOfSelected(s) ==
  LET all == Universe(s.kind)
      tried == DOMAIN s.patterns
      spent == Total(PatternWorks(s), Tried(s))
  IN  CASE s.kind \in WholeKinds ->
             Filtered(s, SetToBag(all), Cardinality(all), 0, 2 * Cardinality(all))
        [] s.kind \notin WholeKinds /\ (\A i \in tried : s.patterns[i].engine = "fits") ->
             Filtered(s, Matched(s, tried), Cardinality(Searched(s, tried)),
                      Unmatched(s, tried), spent)
        [] OTHER -> Meaning(Unresolved("pattern"), spent)

Reference[s \in DOMAIN forest.node] ==
  LET t == forest.node[s]
  IN  IF t.refused # "no" THEN Meaning(Unresolved(t.refused), 0)
      ELSE IF t.of = 0 THEN MeaningOfSelected(t)
      ELSE MeaningOfRelated(t, Reference[t.of].answer, Collection(forest.node[t.of].kind))

(* The price of the command: each selector once, each collection once.     *)
Nodes == DOMAIN forest.node
KindsUsed ==
  {Key(forest.node[s].kind) :
     s \in {t \in Nodes : forest.node[t].refused = "no" /\ forest.node[t].of = 0}}
Works == [s \in Nodes |-> Reference[s].work]
ScanSizes == [kind \in Kinds |-> ScanSize(kind)]

Price == Cardinality(Nodes) + Total(Works, Nodes) + Total(ScanSizes, KindsUsed)

-----------------------------------------------------------------------------
(* docs/rules/OC1004.md:34-35, 46-48: an answer is the whole collection    *)
(* that the selector denotes, with its multiplicities, or it is no answer. *)
(* Whatever ran out in whatever order, no part of a collection, and no     *)
(* empty one in its place, is given to the rules.                          *)
AnswersAreExact ==
  \A s \in DOMAIN cache :
    /\ cache[s].error = "none" => cache[s] = Reference[s].answer
    /\ cache[s].error \notin {"none", "work", "source"} => cache[s] = Reference[s].answer

(* docs/rules/OC1004.md:31-35: work is charged once for each selector and  *)
(* each collection of a command.  Some selector runs out of work exactly   *)
(* when their sum exceeds the limit, although a charge that does not fit   *)
(* is not made, cheaper ones still are, and the order of sets decides      *)
(* which.                                                                  *)
ExhaustedIffTooDear ==
  phase \in {"report", "done"} =>
    ((\E s \in ToSet(ordered) : cache[s].error = "work") <=> Price > limit)

(* docs/report-formats.md:97-98, as far as the gates see it: repeating an  *)
(* audit in another hash order does not turn an unresolved command into a  *)
(* resolved one, nor one with empty matches into one without.              *)
SameVerdict ==
  phase = "done" => \A i \in DOMAIN previous :
    (\E f \in findings : f[1] # "OC1002") <=> (\E f \in previous[i] : f[1] # "OC1002")

(* docs/report-formats.md:97-98: fixed inputs and options produce the same *)
(* report.  When the limit is crossed in a set, what is left depends on    *)
(* the order of the set, and so does which later selectors have an answer. *)
SameFindings == phase = "done" => \A i \in DOMAIN previous : findings = previous[i]

(* Every command is resolved, whatever the tree looks like.                *)
CommandEnds == <>(phase = "done")
=============================================================================
