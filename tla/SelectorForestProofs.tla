------------------------ MODULE SelectorForestProofs ------------------------
(***************************************************************************)
(* That answers are exact, that work runs out exactly when the price of    *)
(* the command exceeds the limit, and that the order of sets does not      *)
(* change the verdict, for forests, designs and limits of any size.        *)
(*                                                                         *)
(* The invariant keeps a bill.  As long as nothing was cut, what is used   *)
(* is the price of what is settled (selectors seen, answers kept,          *)
(* collections materialized) plus what the selector at work has been       *)
(* charged; in each phase its variables are the reference applied to the   *)
(* part of the set that was walked, whatever the order.  Once a charge did *)
(* not fit, the bill and the charge are within the price, so the price     *)
(* exceeds the limit, and it stays so.                                     *)
(***************************************************************************)
EXTENDS SelectorForest, FiniteSetTheorems, WellFoundedInduction, TLAPS
-----------------------------------------------------------------------------
(* The budget does not suffice: a selector says so, or is about to.        *)
Cut ==
  \/ \E s \in DOMAIN cache : cache[s].error = "work"
  \/ phase # "traverse" /\ pending # <<>>

BagsOfObjects == UNION {[set -> Nat] : set \in SUBSET Objects}

Errors == {"none", "parse", "dynamic", "source", "kind", "pattern", "filter", "work"}
Answers == [error : Errors, found : BagsOfObjects, universe : Nat, unmatched : Nat]

Frame ==
  [candidates : SUBSET Objects, found : BagsOfObjects, at : Nat, todo : SUBSET Objects,
   visible : SUBSET Objects, everything : BOOLEAN, searched : SUBSET Objects, unmatched : Nat]

Working == {"relate", "universe", "pattern", "route", "match", "scan", "select", "finish"}

(* The recursion: selectors without an answer, each the source of the one  *)
(* before it.                                                              *)
Recursion ==
  /\ calls \in Seq(Nodes \ DOMAIN cache)
  /\ \A i, j \in DOMAIN calls : i < j => calls[i] < calls[j]
  /\ phase \in {"traverse", "report", "done"} => calls = <<>>
  /\ phase \in Working => calls # <<>> /\ S.refused = "no"

Needs(t) == t.refused = "no" /\ t.of = 0

(* The collections that the selectors with an answer, and the one at work, *)
(* have asked for.                                                         *)
Materialized ==
  /\ universes \subseteq KindsUsed
  /\ phase \in Working => (S.of = 0 => Key(S.kind) \in universes)
  /\ ~Cut => \A s \in DOMAIN cache :
               Needs(forest.node[s]) => Key(forest.node[s].kind) \in universes

Shape ==
  /\ forest \in Forests /\ limit \in Limits /\ used \in 0..limit
  /\ phase \in {"traverse", "resolve", "report", "done"} \cup Working
  /\ DOMAIN cache \subseteq Nodes /\ \A s \in DOMAIN cache : cache[s] \in Answers
  /\ frame \in Frame
  /\ Recursion

(* The traversal goes on to all that is nested in what it has seen, and if *)
(* it cannot, the last selector says so in the end.                        *)
Covered ==
  /\ seen = ToSet(ordered) /\ ToSet(forest.roots) \subseteq seen \cup ToSet(pending)
  /\ \A s \in seen : ToSet(forest.node[s].nested) \subseteq seen \cup ToSet(pending)

Refused == \E s \in ToSet(ordered) \cap DOMAIN cache : cache[s].error = "work"

Traversed ==
  /\ seen \subseteq Nodes /\ pending \in Seq(Nodes) /\ ordered \in Seq(Nodes)
  /\ phase = "traverse" => DOMAIN cache = {} /\ universes = {}
  /\ phase = "traverse" => Covered
  /\ phase # "traverse" /\ pending = <<>> => Covered \/ Refused
  /\ pending # <<>> => phase = "traverse" \/ ordered # <<>>
  /\ phase \in {"report", "done"} => pending = <<>> /\ ToSet(ordered) \subseteq DOMAIN cache

Exact(s) == cache[s] = Reference[s].answer

Answered ==
  /\ AnswersAreExact
  /\ ~Cut => \A s \in DOMAIN cache : Exact(s)

-----------------------------------------------------------------------------
(* How far the selector at work has come in a phase, with some values of   *)
(* its variables, and what it has been charged so far.                     *)
SourceKind == Collection(forest.node[S.of].kind)
Source == cache[S.of].found
PartOf(source, done) == [n \in done |-> source[n]]

Relating(f, spent) ==
  LET done == DOMAIN Source \ f.todo
  IN  /\ S.of # 0 /\ S.of \in DOMAIN cache /\ cache[S.of].error = "none"
      /\ SourceKind \in SourceKinds(S.kind)
      /\ f.todo \subseteq DOMAIN Source /\ f.unmatched = 0
      /\ f.found = Related(S.kind, SourceKind, PartOf(Source, done))
      /\ spent = Cardinality(DOMAIN Source) + (IF S.kind = "ports" THEN Cardinality(Ports) ELSE 0)
                   + Total(RelationWorks(S.kind, SourceKind), done)

(* The patterns that were found, and those that were walked.               *)
Found(f, last) ==
  /\ \A i \in 1..last : S.patterns[i].engine = "fits"
  /\ f.candidates = Universe(S.kind)
  /\ f.found = Matched(S, 1..last) /\ f.unmatched = Unmatched(S, 1..last)

Walked(f, last) == ~f.everything => f.searched = Searched(S, 1..last)

Patterned(f) ==
  /\ S.of = 0 /\ S.kind \notin WholeKinds /\ f.at \in 0..Len(S.patterns)
  /\ f.everything <=> \E i \in 1..f.at : ~Routes(S, S.patterns[i])

Before(last) == Total(PatternWorks(S), 1..last)
Widths == [n \in Objects |-> Width[n] + 1]

Routing(f, p, spent) ==
  LET routed == Universe(S.kind) \ f.todo
  IN  /\ f.todo \subseteq Universe(S.kind) /\ Walked(f, f.at - 1) /\ Routes(S, p)
      /\ f.visible = {n \in routed : Depth[n] = PathDepth(S, p)}
      /\ spent = Before(f.at - 1) + p.size + Total(Widths, routed)

Scanning(f, p, spent) ==
  /\ p.engine # "refused" /\ ~p.star /\ Scans(S, p) /\ f.todo \subseteq f.visible
  /\ spent = Before(f.at - 1) + EntryWork(S, f.at)
               + Total(Compared(S, p), f.visible \ f.todo)

Trying(at, f, p, spent) ==
  /\ Patterned(f) /\ f.at > 0 /\ Found(f, f.at - 1)
  /\ \/ at = "route" /\ Routing(f, p, spent)
     \/ /\ at \in {"match", "scan", "select"} /\ Walked(f, f.at) /\ f.visible = Visible(S, p)
        /\ \/ at = "match" /\ spent = Before(f.at - 1) + EntryWork(S, f.at)
           \/ at = "scan" /\ Scanning(f, p, spent)
           \/ /\ at = "select" /\ p.engine # "refused"
              /\ spent = Before(f.at - 1) + EntryWork(S, f.at) + Walk(S, p)

Between(f, spent) ==
  Patterned(f) /\ Found(f, f.at) /\ Walked(f, f.at) /\ spent = Before(f.at)

Finishing(f, spent) ==
  Reference[Current] = Filtered(S, f.found, Cardinality(f.candidates), f.unmatched, spent)

Progress(at, f, spent) ==
  \/ at = "universe" /\ S.of = 0 /\ spent = 0
  \/ at = "relate" /\ Relating(f, spent)
  \/ at = "pattern" /\ Between(f, spent)
  \/ at \in {"route", "match", "scan", "select"} /\ Trying(at, f, S.patterns[f.at], spent)
  \/ at = "finish" /\ Finishing(f, spent)

AtWork(spent) ==
  IF phase \in Working THEN Progress(phase, frame, spent) ELSE frame = NoFrame /\ spent = 0

(* What was charged for what is finished.                                  *)
Settled == Cardinality(seen) + Total(Works, DOMAIN cache) + Total(ScanSizes, universes)

Balanced ==
  \E spent \in Nat :
    /\ AtWork(spent)
    /\ IF Cut THEN Price > limit ELSE used = Settled + spent

(* What the audit says, whatever the order of its sets.                    *)
Complains ==
  \/ Price > limit
  \/ \E s \in Nodes : \E rule \in Rules(forest.node[s], Reference[s].answer) : rule # "OC1002"

Reported(all) == (\E f \in all : f[1] # "OC1002") <=> Complains

Reports == SUBSET ({"OC1001", "OC1002", "OC1003", "OC1004"} \X Nat)

Verdicts ==
  /\ previous \in Seq(Reports) /\ \A i \in DOMAIN previous : Reported(previous[i])
  /\ phase = "done" => findings \in Reports /\ Reported(findings)

IInv == Shape /\ Materialized /\ Traversed /\ Answered /\ Balanced /\ Verdicts

-----------------------------------------------------------------------------
(* Induction, stated with a set for the property.                          *)
LEMMA Naturals ==
  ASSUME NEW G, 0 \in G, \A n \in Nat : n \in G => n + 1 \in G
  PROVE  Nat \subseteq G
<1> SUFFICES ASSUME ~(Nat \subseteq G) PROVE FALSE
  OBVIOUS
<1> DEFINE R == OpToRel(<, Nat)
           bad == Nat \ G
<1>1. IsWellFoundedOn(R, Nat)
  BY NatLessThanWellFounded
<1>2. \A x, y \in Nat : <<y, x>> \in R <=> y < x
  BY DEF OpToRel
<1>3. bad \subseteq Nat /\ bad # {}
  OBVIOUS
<1> HIDE DEF R, bad
<1>4. PICK x \in bad : \A y \in bad : ~(<<y, x>> \in R)
  BY <1>1, <1>3, WFMin
<1>5. x \in Nat /\ x \notin G /\ x # 0
  BY <1>4 DEF bad
<1>6. x - 1 \in Nat /\ x - 1 < x /\ (x - 1) + 1 = x
  BY <1>5
<1>7. x - 1 \in bad
  BY <1>5, <1>6 DEF bad
<1> QED
  BY <1>2, <1>4, <1>5, <1>6, <1>7

(* Sums.                                                                   *)
LEMMA UnitsOfOne ==
  ASSUME NEW x, NEW n \in Nat
  PROVE  IsFiniteSet({x} \X (1..n)) /\ Cardinality({x} \X (1..n)) = n
<1>1. IsFiniteSet({x}) /\ Cardinality({x}) = 1
  BY FS_Singleton
<1>2. IsFiniteSet(1..n) /\ Cardinality(1..n) = n
  BY FS_Interval
<1>3. /\ IsFiniteSet({x} \X (1..n))
      /\ Cardinality({x} \X (1..n)) = Cardinality({x}) * Cardinality(1..n)
  BY <1>1, <1>2, FS_Product
<1>4. Cardinality({x}) * Cardinality(1..n) = n
  <2>1. Cardinality(1..n) = n
    BY <1>2
  <2> QED
    BY <1>1, <2>1
<1> QED
  BY <1>3, <1>4

LEMMA TotalEmpty == ASSUME NEW f PROVE Total(f, {}) = 0
<1>1. Units(f, {}) = {}
  BY DEF Units
<1> QED
  BY <1>1, FS_EmptySet DEF Total

LEMMA TotalSame ==
  ASSUME NEW f, NEW g, NEW set, \A x \in set : f[x] = g[x]
  PROVE  Total(f, set) = Total(g, set)
<1>1. Units(f, set) = Units(g, set)
  BY DEF Units
<1> QED
  BY <1>1 DEF Total

LEMMA UnitsFinite ==
  ASSUME NEW f, NEW set, IsFiniteSet(set), \A x \in set : f[x] \in Nat
  PROVE  IsFiniteSet(Units(f, set))
<1> DEFINE parts == {{x} \X (1..f[x]) : x \in set}
           g == [x \in set |-> {x} \X (1..f[x])]
<1>1. IsFiniteSet(parts)
  <2>1. g \in Surjection(set, parts)
    BY DEF Surjection
  <2> QED
    BY <2>1, FS_Surjection
<1>2. ASSUME NEW part \in parts PROVE IsFiniteSet(part)
  <2>1. PICK x \in set : part = {x} \X (1..f[x])
    OBVIOUS
  <2>2. f[x] \in Nat
    OBVIOUS
  <2> QED
    BY <2>1, <2>2, UnitsOfOne
<1> QED
  BY <1>1, <1>2, FS_UNION DEF Units

LEMMA TotalMore ==
  ASSUME NEW f, NEW set, IsFiniteSet(set), \A x \in set : f[x] \in Nat, NEW y, y \notin set, f[y] \in Nat
  PROVE  Total(f, set \cup {y}) = Total(f, set) + f[y] /\ Total(f, set) \in Nat
<1> DEFINE new == {y} \X (1..f[y])
<1>1. Units(f, set \cup {y}) = Units(f, set) \cup new
  BY DEF Units
<1>2. Units(f, set) \cap new = {}
  BY DEF Units
<1>3. IsFiniteSet(Units(f, set)) /\ Cardinality(Units(f, set)) \in Nat
  BY UnitsFinite, FS_CardinalityType
<1>4. IsFiniteSet(new) /\ Cardinality(new) = f[y]
  BY UnitsOfOne
<1> HIDE DEF new
<1>5. Cardinality(Units(f, set) \cup new)
        = Cardinality(Units(f, set)) + Cardinality(new) - Cardinality(Units(f, set) \cap new)
  BY <1>3, <1>4, FS_Union
<1>6. Cardinality(Units(f, set) \cap new) = 0
  BY <1>2, FS_EmptySet
<1>7. Cardinality(Units(f, set) \cup new) = Cardinality(Units(f, set)) + f[y]
  BY <1>3, <1>4, <1>5, <1>6
<1> QED
  BY <1>1, <1>3, <1>7 DEF Total

LEMMA TotalMonotone ==
  ASSUME NEW f, NEW set, IsFiniteSet(set), \A x \in set : f[x] \in Nat, NEW few \in SUBSET set
  PROVE  /\ Total(f, few) \in Nat /\ Total(f, set) \in Nat /\ Total(f, few) <= Total(f, set)
         /\ IsFiniteSet(few)
<1>1. Units(f, few) \subseteq Units(f, set)
  BY DEF Units
<1>2. IsFiniteSet(Units(f, set))
  BY UnitsFinite
<1> QED
  BY <1>1, <1>2, FS_Subset, FS_CardinalityType DEF Total

LEMMA TotalOnes ==
  ASSUME NEW f, NEW set, IsFiniteSet(set), \A x \in set : f[x] = 1
  PROVE  Total(f, set) = Cardinality(set)
<1> DEFINE g == [x \in set |-> <<x, 1>>]
<1>1. 1..1 = {1}
  OBVIOUS
<1>2. Units(f, set) = {<<x, 1>> : x \in set}
  BY <1>1 DEF Units
<1>3. g \in Bijection(set, {<<x, 1>> : x \in set})
  BY DEF Bijection, Injection, Surjection, IsInjective
<1>4. Cardinality({<<x, 1>> : x \in set}) = Cardinality(set)
  <2> HIDE DEF g
  <2> QED
    BY <1>3, FS_Bijection DEF ExistsBijection
<1> QED
  BY <1>2, <1>4 DEF Total

LEMMA TotalUpTo ==
  ASSUME NEW f, NEW i \in Nat \ {0}, \A j \in 1..i : f[j] \in Nat
  PROVE  /\ Total(f, 1..i) = Total(f, 1..(i - 1)) + f[i] /\ Total(f, 1..(i - 1)) \in Nat
         /\ Total(f, 1..0) = 0
<1> DEFINE before == 1..(i - 1)
           all == 1..i
<1>1. all = before \cup {i} /\ i \notin before /\ f[i] \in Nat /\ \A j \in before : f[j] \in Nat
  OBVIOUS
<1>2. IsFiniteSet(before)
  BY FS_Interval
<1>3. 1..0 = {}
  OBVIOUS
<1> HIDE DEF before
<1>4. Total(f, before \cup {i}) = Total(f, before) + f[i] /\ Total(f, before) \in Nat
  BY <1>1, <1>2, TotalMore
<1>5. Total(f, all) = Total(f, before \cup {i})
  <2> HIDE DEF all
  <2> QED
    BY <1>1
<1> QED
  BY <1>3, <1>4, <1>5, TotalEmpty DEF before

LEMMA TotalOfOne ==
  ASSUME NEW a \in Nat
  PROVE  <<a>> \in Seq(Nat) /\ Total(<<a>>, 1..Len(<<a>>)) = a
<1> DEFINE f == <<a>>
<1>1. f \in Seq(Nat) /\ Len(f) = 1 /\ f[1] = a /\ \A j \in 1..1 : f[j] \in Nat
  OBVIOUS
<1> HIDE DEF f
<1>2. Total(f, 1..1) = Total(f, 1..(1 - 1)) + f[1] /\ Total(f, 1..0) = 0
  BY <1>1, TotalUpTo
<1> QED
  BY <1>1, <1>2 DEF f

LEMMA TotalOfTwo ==
  ASSUME NEW a \in Nat, NEW b \in Nat
  PROVE  <<a, b>> \in Seq(Nat) /\ Total(<<a, b>>, 1..Len(<<a, b>>)) = a + b
<1> DEFINE f == <<a, b>>
<1>1. f \in Seq(Nat) /\ Len(f) = 2 /\ f[1] = a /\ f[2] = b
  OBVIOUS
<1> HIDE DEF f
<1>2. ASSUME NEW i \in 1..2
      PROVE  Total(f, 1..i) = Total(f, 1..(i - 1)) + f[i] /\ Total(f, 1..0) = 0
  <2>1. i \in Nat \ {0} /\ \A j \in 1..i : f[j] \in Nat
    BY <1>1
  <2> QED
    BY <2>1, TotalUpTo
<1>3. /\ Total(f, 1..1) = Total(f, 1..0) + f[1] /\ Total(f, 1..0) = 0
      /\ Total(f, 1..2) = Total(f, 1..1) + f[2]
  BY <1>2
<1> QED
  BY <1>1, <1>3 DEF f

LEMMA TotalOfNone == <<>> \in Seq(Nat) /\ Total(<<>>, 1..Len(<<>>)) = 0
<1>1. <<>> \in Seq(Nat) /\ 1..Len(<<>>) = {}
  OBVIOUS
<1> QED
  BY <1>1, TotalEmpty

(* A charge, then one for each of many.                                    *)
LEMMA TotalOfMany ==
  ASSUME NEW a \in Nat, NEW n \in Nat
  PROVE  LET f == <<a>> \o [i \in 1..n |-> 1]
         IN  f \in Seq(Nat) /\ Total(f, 1..Len(f)) = a + n
<1> DEFINE ones == [i \in 1..n |-> 1]
           f == <<a>> \o ones
<1>1. ones \in Seq(Nat) /\ Len(ones) = n
  OBVIOUS
<1>2. /\ f \in Seq(Nat) /\ Len(f) = n + 1 /\ f[1] = a
      /\ \A i \in 2..(n + 1) : f[i] = 1
  BY <1>1
<1>3. IsFiniteSet(2..(n + 1)) /\ Cardinality(2..(n + 1)) = n
  <2>1. /\ IsFiniteSet(2..(n + 1))
        /\ Cardinality(2..(n + 1)) = IF 2 > n + 1 THEN 0 ELSE (n + 1) - 2 + 1
    BY FS_Interval
  <2> QED
    BY <2>1
<1>4. 1..(n + 1) = 2..(n + 1) \cup {1} /\ 1 \notin 2..(n + 1)
  OBVIOUS
<1> HIDE DEF f, ones
<1>5. Total(f, 2..(n + 1)) = n
  BY <1>2, <1>3, TotalOnes
<1>6. Total(f, 2..(n + 1) \cup {1}) = Total(f, 2..(n + 1)) + f[1]
  <2>1. \A i \in 2..(n + 1) : f[i] \in Nat
    BY <1>2
  <2> QED
    BY <1>2, <1>3, <1>4, <2>1, TotalMore
<1>7. Total(f, 1..Len(f)) = a + n
  <2>1. 1..Len(f) = 2..(n + 1) \cup {1}
    BY <1>2, <1>4
  <2>2. Total(f, 1..Len(f)) = n + a
    BY <1>2, <1>5, <1>6, <2>1
  <2> QED
    BY <2>2
<1> QED
  BY <1>2, <1>7 DEF f, ones

LEMMA TwoOfOne ==
  ASSUME NEW x \in Nat, NEW y \in Nat
  PROVE  <<x>> \o <<y>> = <<x, y>>
<1>1. <<x>> \in Seq(Nat) /\ <<y>> \in Seq(Nat) /\ Len(<<x>>) = 1 /\ Len(<<y>>) = 1
  OBVIOUS
<1>2. PICK a \in Seq(Nat), b \in Seq(Nat) : a = <<x>> /\ b = <<y>>
  BY <1>1
<1>3. a \o b \in Seq(Nat) /\ Len(a \o b) = 2 /\ (a \o b)[1] = x /\ (a \o b)[2] = y
  BY <1>1, <1>2
<1>4. \A s \in Seq(Nat) : Len(s) = 2 => s = <<s[1], s[2]>>
  OBVIOUS
<1> QED
  BY <1>2, <1>3, <1>4
-----------------------------------------------------------------------------
(* Bags and the design.                                                    *)
LEMMA BagKind ==
  ASSUME NEW b, b = [n \in DOMAIN b |-> b[n]], DOMAIN b \subseteq Objects,
         \A n \in DOMAIN b : b[n] \in Nat
  PROVE  b \in BagsOfObjects
<1>1. b \in [DOMAIN b -> Nat] /\ DOMAIN b \in SUBSET Objects
  OBVIOUS
<1> QED
  BY <1>1 DEF BagsOfObjects

LEMMA BagFacts ==
  ASSUME NEW b \in BagsOfObjects
  PROVE  /\ b = [n \in DOMAIN b |-> b[n]] /\ DOMAIN b \subseteq Objects
         /\ \A n \in DOMAIN b : b[n] \in Nat
         /\ IsFiniteSet(DOMAIN b) /\ Cardinality(DOMAIN b) \in Nat
<1>1. PICK set \in SUBSET Objects : b \in [set -> Nat]
  BY DEF BagsOfObjects
<1>2. DOMAIN b \subseteq Objects
  BY <1>1
<1>3. IsFiniteSet(DOMAIN b) /\ Cardinality(DOMAIN b) \in Nat
  BY <1>2, SelectorConstants, FS_Subset, FS_CardinalityType
<1> QED
  BY <1>1, <1>2, <1>3

LEMMA BagSum ==
  ASSUME NEW a \in BagsOfObjects, NEW b \in BagsOfObjects
  PROVE  a (+) b \in BagsOfObjects
<1> DEFINE c == a (+) b
<1>1. c = [n \in DOMAIN a \cup DOMAIN b |-> (IF n \in DOMAIN a THEN a[n] ELSE 0)
                                              + (IF n \in DOMAIN b THEN b[n] ELSE 0)]
  BY DEF (+)
<1>2. DOMAIN c \subseteq Objects /\ c = [n \in DOMAIN c |-> c[n]] /\ \A n \in DOMAIN c : c[n] \in Nat
  BY <1>1, BagFacts
<1> QED
  BY <1>2, BagKind

LEMMA SetBag ==
  ASSUME NEW set \in SUBSET Objects
  PROVE  SetToBag(set) \in BagsOfObjects /\ DOMAIN SetToBag(set) = set
<1> DEFINE b == SetToBag(set)
<1>1. b = [n \in set |-> 1]
  BY DEF SetToBag
<1>2. b = [n \in DOMAIN b |-> b[n]] /\ DOMAIN b = set /\ \A n \in DOMAIN b : b[n] \in Nat
  BY <1>1
<1> QED
  BY <1>2, BagKind

LEMMA FiniteObjects ==
  ASSUME NEW set \in SUBSET Objects
  PROVE  IsFiniteSet(set) /\ Cardinality(set) \in Nat
BY SelectorConstants, FS_Subset, FS_CardinalityType

LEMMA KindsAre ==
  ASSUME NEW kind \in Kinds
  PROVE  /\ Universe(kind) \subseteq Objects /\ ScanSize(kind) \in Nat
         /\ Key(kind) \in Kinds /\ ScanSize(Key(kind)) = ScanSize(kind)
<1>1. /\ Ports \subseteq Objects /\ Cells \subseteq Objects /\ Pins \subseteq Objects
      /\ Nets \subseteq Objects /\ Clocks \subseteq Objects
  BY DEF Objects
<1>2. Universe(kind) \subseteq Objects
  BY <1>1, SelectorConstants DEF Universe, Kinds
<1>3. ScanSize(kind) \in Nat
  BY <1>1, <1>2, FiniteObjects DEF ScanSize
<1>4. Key(kind) \in Kinds
  BY DEF Key, Kinds
<1>5. ScanSize(Key(kind)) = ScanSize(kind)
  <2>1. CASE kind = "all_clocks"
    BY <2>1 DEF Key, ScanSize, Universe
  <2>2. CASE kind # "all_clocks"
    BY <2>2 DEF Key
  <2> QED
    BY <2>1, <2>2
<1> QED
  BY <1>2, <1>3, <1>4, <1>5

LEMMA EdgesAre ==
  ASSUME NEW kind \in Kinds, NEW source, NEW n, source \in SourceKinds(kind)
  PROVE  /\ Edges(kind, source, n) \subseteq Ports \cup Pins
         /\ IsFiniteSet(Edges(kind, source, n)) /\ Cardinality(Edges(kind, source, n)) \in Nat
         /\ Approach(kind, source, n) \in Nat
         /\ Ends(kind, source, n) \subseteq Objects
         /\ \A o : /\ IsFiniteSet(Paths(kind, source, n, o))
                   /\ Cardinality(Paths(kind, source, n, o)) \in Nat
<1>1. Ports \cup Pins \subseteq Objects /\ Nets \subseteq Objects /\ Cells \subseteq Objects
  BY DEF Objects
<1>2. Edges(kind, source, n) \subseteq Ports \cup Pins
  BY DEF Edges, Connected, PinsOf
<1>3. kind \in {"nets", "cells"} => Edges(kind, source, n) \subseteq Pins
  BY DEF Edges, Connected, PinsOf, SourceKinds
<1>4. \A m : Fanout(m) \in Nat
  <2> TAKE m
  <2>1. Connected(m) \in SUBSET Objects
    BY <1>1 DEF Connected
  <2> QED
    BY <2>1, FiniteObjects DEF Fanout
<1>5. Approach(kind, source, n) \in Nat
  BY <1>4 DEF Approach
<1>6. Ends(kind, source, n) \subseteq Objects
  <2> SUFFICES ASSUME NEW e \in Edges(kind, source, n), EndOf(kind, e) # NoNet
               PROVE  EndOf(kind, e) \in Objects
    BY DEF Ends
  <2>1. CASE kind = "nets"
    BY <1>1, <1>3, <2>1, SelectorConstants DEF EndOf
  <2>2. CASE kind = "cells"
    BY <1>1, <1>3, <2>2, SelectorConstants DEF EndOf
  <2>3. CASE kind \notin {"nets", "cells"}
    BY <1>1, <1>2, <2>3 DEF EndOf
  <2> QED
    BY <2>1, <2>2, <2>3
<1>7. ASSUME NEW o
      PROVE  /\ IsFiniteSet(Paths(kind, source, n, o))
             /\ Cardinality(Paths(kind, source, n, o)) \in Nat
  <2>1. Paths(kind, source, n, o) \in SUBSET Objects
    BY <1>1, <1>2 DEF Paths
  <2> QED
    BY <2>1, FiniteObjects
<1>8. Edges(kind, source, n) \in SUBSET Objects
  BY <1>1, <1>2
<1> QED
  BY <1>2, <1>5, <1>6, <1>7, <1>8, FiniteObjects
-----------------------------------------------------------------------------
(* What selectors denote and cost.                                         *)
Meanings == [answer : Answers, work : Nat]

LEMMA SelectorFacts ==
  ASSUME NEW t \in Selector
  PROVE  /\ t.kind \in Kinds /\ t.patterns \in Seq(Pattern) /\ t.filter \in Filter
         /\ t.of \in Nat /\ t.refused \in {"no", "parse", "dynamic"}
         /\ Universe(t.kind) \subseteq Objects
         /\ DOMAIN t.patterns = 1..Len(t.patterns) /\ Len(t.patterns) \in Nat
         /\ \A i \in DOMAIN t.patterns : t.patterns[i] \in Pattern
BY KindsAre DEF Selector

LEMMA PatternFacts ==
  ASSUME NEW t \in Selector, NEW p \in Pattern
  PROVE  /\ Visible(t, p) \subseteq Universe(t.kind) /\ Visible(t, p) \subseteq Objects
         /\ Hits(t, p) \subseteq Visible(t, p)
         /\ IsFiniteSet(Visible(t, p)) /\ Cardinality(Visible(t, p)) \in Nat
         /\ IsFiniteSet(Hits(t, p)) /\ Cardinality(Hits(t, p)) \in Nat
         /\ p.size \in Nat
<1>1. Visible(t, p) \subseteq Universe(t.kind) /\ Visible(t, p) \in SUBSET Objects
  BY SelectorFacts DEF Visible
<1>2. Hits(t, p) \subseteq Visible(t, p)
  BY DEF Hits, Selected
<1>3. Hits(t, p) \in SUBSET Objects /\ p.size \in Nat
  BY <1>1, <1>2 DEF Pattern
<1> QED
  BY <1>1, <1>2, <1>3, FiniteObjects

LEMMA ComparedKind ==
  ASSUME NEW t \in Selector, NEW p \in Pattern, NEW n \in Objects
  PROVE  /\ Comparison(t, p, n)[1] \in Nat /\ Comparison(t, p, n)[2] \in Nat
         /\ Comparison(t, p, n) = <<Comparison(t, p, n)[1], Comparison(t, p, n)[2]>>
         /\ Compared(t, p)[n] = Comparison(t, p, n)[1] + Comparison(t, p, n)[2]
         /\ Compared(t, p)[n] \in Nat
<1>1. p.size \in Nat /\ LocalWidth[n] \in Nat /\ Width[n] \in Nat
  BY SelectorConstants DEF Pattern
<1>2. \A w \in Nat : p.size * (w + 1) \in Nat
  BY <1>1
<1>3. p.size * ((IF t.hierarchical THEN LocalWidth[n] ELSE Width[n]) + 1) \in Nat
  <2>1. (IF t.hierarchical THEN LocalWidth[n] ELSE Width[n]) \in Nat
    BY <1>1
  <2> QED
    BY <1>2, <2>1
<1>4. Comparison(t, p, n)[1] \in Nat /\ Comparison(t, p, n)[2] \in Nat
  BY <1>1, <1>3 DEF Comparison
<1>5. Comparison(t, p, n) = <<Comparison(t, p, n)[1], Comparison(t, p, n)[2]>>
  BY DEF Comparison
<1>6. Compared(t, p)[n] = Comparison(t, p, n)[1] + Comparison(t, p, n)[2]
  BY DEF Compared
<1> QED
  BY <1>4, <1>5, <1>6

LEMMA WorksKind ==
  ASSUME NEW t \in Selector, NEW i \in DOMAIN t.patterns
  PROVE  /\ Walk(t, t.patterns[i]) \in Nat /\ EntryWork(t, i) \in Nat /\ PatternWork(t, i) \in Nat
         /\ PatternWorks(t)[i] = PatternWork(t, i) /\ PatternWork(t, i) >= EntryWork(t, i)
<1> DEFINE p == t.patterns[i]
<1>1. p \in Pattern
  BY SelectorFacts
<1> HIDE DEF p
<1>2. /\ Cardinality(Visible(t, p)) \in Nat /\ p.size \in Nat
      /\ IsFiniteSet(Visible(t, p)) /\ Visible(t, p) \subseteq Objects /\ Cardinality(Hits(t, p)) \in Nat
  BY <1>1, PatternFacts
<1>3. Total(Compared(t, p), Visible(t, p)) \in Nat
  <2>1. \A n \in Visible(t, p) : Compared(t, p)[n] \in Nat
    BY <1>1, <1>2, ComparedKind
  <2> QED
    BY <1>2, <2>1, TotalMonotone
<1>4. Walk(t, p) \in Nat
  BY <1>2, <1>3 DEF Walk
<1>5. Total(Widths, Universe(t.kind)) \in Nat
  <2>1. \A n \in Objects : Widths[n] \in Nat
    BY SelectorConstants DEF Widths
  <2>2. Universe(t.kind) \in SUBSET Objects /\ IsFiniteSet(Universe(t.kind))
    BY SelectorFacts, FiniteObjects
  <2> QED
    BY <2>1, <2>2, TotalMonotone
<1>6. EntryWork(t, i) = p.size + (IF Routes(t, p) THEN Total(Widths, Universe(t.kind)) ELSE 0)
        + (IF \A j \in 1..i : Routes(t, t.patterns[j]) THEN Cardinality(Visible(t, p)) ELSE 0)
  BY DEF EntryWork, Widths, p
<1>7. EntryWork(t, i) \in Nat
  BY <1>2, <1>5, <1>6
<1>8. PatternWork(t, i) = EntryWork(t, i) + (IF p.engine = "refused" THEN 0 ELSE Walk(t, p))
                            + (IF p.engine = "fits" THEN 2 * Cardinality(Hits(t, p)) ELSE 0)
  BY DEF PatternWork, p
<1>9. PatternWork(t, i) \in Nat /\ PatternWork(t, i) >= EntryWork(t, i)
  BY <1>2, <1>4, <1>7, <1>8
<1> QED
  BY <1>4, <1>7, <1>9 DEF PatternWorks, p

(* Up to a pattern, if those before it were matched, a selector costs no   *)
(* more than in all.                                                       *)
LEMMA PatternsBefore ==
  ASSUME NEW t \in Selector, NEW i \in DOMAIN t.patterns
  PROVE  /\ Total(PatternWorks(t), 1..i) = Total(PatternWorks(t), 1..(i - 1)) + PatternWork(t, i)
         /\ Total(PatternWorks(t), 1..(i - 1)) \in Nat
<1>1. i \in Nat \ {0} /\ \A j \in 1..i : j \in DOMAIN t.patterns
  BY SelectorFacts
<1>2. \A j \in 1..i : PatternWorks(t)[j] \in Nat
  BY <1>1, WorksKind
<1>3. PatternWorks(t)[i] = PatternWork(t, i)
  BY WorksKind
<1> QED
  BY <1>1, <1>2, <1>3, TotalUpTo

LEMMA TriedCosts ==
  ASSUME NEW t \in Selector
  PROVE  /\ Total(PatternWorks(t), Tried(t)) \in Nat
         /\ \A i \in 0..Len(t.patterns) :
              (\A j \in 1..(i - 1) : t.patterns[j].engine = "fits")
                => Total(PatternWorks(t), 1..i) <= Total(PatternWorks(t), Tried(t))
         /\ (\A j \in DOMAIN t.patterns : t.patterns[j].engine = "fits") => Tried(t) = DOMAIN t.patterns
<1>1. DOMAIN t.patterns = 1..Len(t.patterns) /\ Len(t.patterns) \in Nat
  BY SelectorFacts
<1>2. IsFiniteSet(DOMAIN t.patterns) /\ Tried(t) \subseteq DOMAIN t.patterns
  BY <1>1, FS_Interval DEF Tried
<1>3. IsFiniteSet(Tried(t)) /\ \A j \in Tried(t) : PatternWorks(t)[j] \in Nat
  BY <1>2, FS_Subset, WorksKind
<1>4. ASSUME NEW i \in 0..Len(t.patterns), \A j \in 1..(i - 1) : t.patterns[j].engine = "fits"
      PROVE  Total(PatternWorks(t), 1..i) <= Total(PatternWorks(t), Tried(t))
  <2>1. 1..i \subseteq Tried(t)
    BY <1>1, <1>4 DEF Tried
  <2> QED
    BY <1>3, <2>1, TotalMonotone
<1>5. Total(PatternWorks(t), Tried(t)) \in Nat
  BY <1>3, TotalMonotone
<1>6. (\A j \in DOMAIN t.patterns : t.patterns[j].engine = "fits") => Tried(t) = DOMAIN t.patterns
  BY <1>1 DEF Tried
<1> QED
  BY <1>4, <1>5, <1>6

LEMMA FilteredFacts ==
  ASSUME NEW t \in Selector, NEW bag \in BagsOfObjects, NEW universe \in Nat, NEW unmatched \in Nat,
         NEW spent \in Nat
  PROVE  /\ Filtered(t, bag, universe, unmatched, spent) \in Meanings
         /\ Filtered(t, bag, universe, unmatched, spent).work >= spent
         /\ Filtered(t, bag, universe, unmatched, spent).answer.error \in {"none", "filter"}
<1> DEFINE kept == DOMAIN bag \cap t.filter.keeps
           price == IF t.filter = NoFilter THEN 0 ELSE t.filter.size + Cardinality(DOMAIN bag)
           few == [n \in kept |-> bag[n]]
<1>1. /\ DOMAIN bag \subseteq Objects /\ Cardinality(DOMAIN bag) \in Nat
      /\ \A n \in DOMAIN bag : bag[n] \in Nat
  BY BagFacts
<1>2. kept \in SUBSET Objects /\ Cardinality(kept) \in Nat
  BY <1>1, FiniteObjects
<1>3. price \in Nat
  <2>1. t.filter.size \in Nat
    BY SelectorFacts DEF Filter
  <2> QED
    BY <1>1, <2>1
<1>4. few \in BagsOfObjects
  <2>1. few = [n \in DOMAIN few |-> few[n]] /\ DOMAIN few \subseteq Objects /\ \A n \in DOMAIN few : few[n] \in Nat
    BY <1>1, <1>2
  <2> HIDE DEF few
  <2> QED
    BY <2>1, BagKind
<1>5. EmptyBag \in BagsOfObjects
  BY SetBag DEF EmptyBag
<1>6. Filtered(t, bag, universe, unmatched, spent)
        = IF t.filter.supported
          THEN Meaning(Answer("none", few, universe, unmatched), spent + price + 2 * Cardinality(kept))
          ELSE Meaning(Unresolved("filter"), spent + price)
  BY DEF Filtered
<1> HIDE DEF kept, price, few
<1>7. spent + price + 2 * Cardinality(kept) \in Nat /\ spent + price \in Nat
      /\ spent + price + 2 * Cardinality(kept) >= spent /\ spent + price >= spent
  BY <1>2, <1>3
<1>8. /\ Answer("none", few, universe, unmatched) \in Answers
      /\ Answer("none", few, universe, unmatched).error = "none"
  BY <1>4 DEF Answer, Answers, Errors
<1>9. Unresolved("filter") \in Answers /\ Unresolved("filter").error = "filter"
  BY <1>5 DEF Answer, Answers, Errors, Unresolved
<1>10. \A a \in Answers, w \in Nat :
         Meaning(a, w) \in Meanings /\ Meaning(a, w).work = w /\ Meaning(a, w).answer = a
  BY DEF Meaning, Meanings
<1> QED
  BY <1>6, <1>7, <1>8, <1>9, <1>10

LEMMA FailedKind ==
  ASSUME NEW error \in Errors, NEW spent \in Nat
  PROVE  Meaning(Unresolved(error), spent) \in Meanings /\ Unresolved(error) \in Answers
<1>1. EmptyBag \in BagsOfObjects
  BY SetBag DEF EmptyBag
<1> QED
  BY <1>1 DEF Meaning, Meanings, Answers, Answer, Unresolved

LEMMA MatchedKind ==
  ASSUME NEW t \in Selector, NEW tried \in SUBSET DOMAIN t.patterns
  PROVE  /\ Matched(t, tried) \in BagsOfObjects /\ Unmatched(t, tried) \in Nat
         /\ Searched(t, tried) \subseteq Universe(t.kind)
         /\ \A n : IsFiniteSet(Matching(t, tried, n)) /\ Cardinality(Matching(t, tried, n)) \in Nat
<1>1. IsFiniteSet(tried)
  <2>1. IsFiniteSet(DOMAIN t.patterns)
    BY SelectorFacts, FS_Interval
  <2> QED
    BY <2>1, FS_Subset
<1>2. \A n : IsFiniteSet(Matching(t, tried, n)) /\ Cardinality(Matching(t, tried, n)) \in Nat
  <2> TAKE n
  <2>1. Matching(t, tried, n) \subseteq tried
    BY DEF Matching
  <2> QED
    BY <1>1, <2>1, FS_Subset, FS_CardinalityType
<1>3. Unmatched(t, tried) \in Nat
  BY <1>1, FS_Subset, FS_CardinalityType DEF Unmatched
<1>4. Searched(t, tried) \subseteq Universe(t.kind)
  BY SelectorFacts, PatternFacts DEF Searched
<1>5. Matched(t, tried) \in BagsOfObjects
  <2> DEFINE b == Matched(t, tried)
  <2>1. /\ DOMAIN b \subseteq Universe(t.kind) /\ b = [n \in DOMAIN b |-> b[n]]
        /\ \A n \in DOMAIN b : b[n] \in Nat
    BY <1>2 DEF Matched
  <2> HIDE DEF b
  <2>2. DOMAIN b \subseteq Objects
    BY <2>1, SelectorFacts
  <2> QED
    BY <2>1, <2>2, BagKind DEF b
<1> QED
  BY <1>2, <1>3, <1>4, <1>5

(* The copies of an end that the edges of some objects lead to.            *)
Copies(kind, from, source, o) ==
  [n \in DOMAIN source |-> source[n] * Cardinality(Paths(kind, from, n, o))]

LEMMA CopiesKind ==
  ASSUME NEW kind \in Kinds, NEW from, from \in SourceKinds(kind), NEW source \in BagsOfObjects, NEW o
  PROVE  \A n \in DOMAIN source : Copies(kind, from, source, o)[n] \in Nat
<1> TAKE n \in DOMAIN source
<1>1. source[n] \in Nat /\ Cardinality(Paths(kind, from, n, o)) \in Nat
  BY BagFacts, EdgesAre
<1>2. \A a, b \in Nat : a * b \in Nat
  OBVIOUS
<1> QED
  BY <1>1, <1>2 DEF Copies

LEMMA RelatedKind ==
  ASSUME NEW kind \in Kinds, NEW from, from \in SourceKinds(kind), NEW source \in BagsOfObjects
  PROVE  Related(kind, from, source) \in BagsOfObjects
<1> DEFINE b == Related(kind, from, source)
<1>1. IsFiniteSet(DOMAIN source)
  BY BagFacts
<1>2. ASSUME NEW o PROVE Total(Copies(kind, from, source, o), DOMAIN source) \in Nat
  BY <1>1, CopiesKind, TotalMonotone
<1>3. b = [o \in UNION {Ends(kind, from, n) : n \in DOMAIN source} |->
             Total(Copies(kind, from, source, o), DOMAIN source)]
  BY DEF Related, Copies
<1>4. UNION {Ends(kind, from, n) : n \in DOMAIN source} \subseteq Objects
  BY EdgesAre
<1> HIDE DEF b
<1>5. /\ DOMAIN b \subseteq Objects /\ b = [n \in DOMAIN b |-> b[n]]
      /\ \A n \in DOMAIN b : b[n] \in Nat
  BY <1>2, <1>3, <1>4
<1> QED
  BY <1>5, BagKind DEF b

LEMMA RelationWorksKind ==
  ASSUME NEW kind \in Kinds, NEW from, from \in SourceKinds(kind)
  PROVE  \A n \in Objects : /\ RelationWorks(kind, from)[n] \in Nat
                            /\ RelationWorks(kind, from)[n]
                                 = Approach(kind, from, n) + Cardinality(Edges(kind, from, n))
BY EdgesAre DEF RelationWorks

LEMMA RelationWorkKind ==
  ASSUME NEW kind \in Kinds, NEW from, from \in SourceKinds(kind), NEW source \in BagsOfObjects
  PROVE  RelationWork(kind, from, source) \in Nat
<1>1. Cardinality(DOMAIN source) \in Nat /\ IsFiniteSet(DOMAIN source) /\ DOMAIN source \subseteq Objects
  BY BagFacts
<1>2. Cardinality(DOMAIN Related(kind, from, source)) \in Nat
  BY RelatedKind, BagFacts
<1>3. Cardinality(Ports) \in Nat
  BY FiniteObjects DEF Objects
<1>4. Total(RelationWorks(kind, from), DOMAIN source) \in Nat
  <2>1. \A n \in DOMAIN source : RelationWorks(kind, from)[n] \in Nat
    BY <1>1, RelationWorksKind
  <2> QED
    BY <1>1, <2>1, TotalMonotone
<1> QED
  BY <1>1, <1>2, <1>3, <1>4 DEF RelationWork

LEMMA MeaningKind ==
  ASSUME NEW t \in Selector
  PROVE  /\ MeaningOfSelected(t) \in Meanings
         /\ \A source \in Answers : \A from : MeaningOfRelated(t, source, from) \in Meanings
<1>1. t.kind \in Kinds /\ Universe(t.kind) \in SUBSET Objects
  BY SelectorFacts
<1>2. MeaningOfSelected(t) \in Meanings
  <2> DEFINE all == Universe(t.kind)
             tried == DOMAIN t.patterns
             spent == Total(PatternWorks(t), Tried(t))
  <2>1. /\ Cardinality(all) \in Nat /\ 2 * Cardinality(all) \in Nat /\ spent \in Nat
        /\ SetToBag(all) \in BagsOfObjects
    BY <1>1, FiniteObjects, TriedCosts, SetBag
  <2>2. Filtered(t, SetToBag(all), Cardinality(all), 0, 2 * Cardinality(all)) \in Meanings
    <3> HIDE DEF all
    <3> QED
      BY <2>1, FilteredFacts
  <2>3. /\ Matched(t, tried) \in BagsOfObjects /\ Unmatched(t, tried) \in Nat
        /\ Searched(t, tried) \in SUBSET Objects
    BY <1>1, MatchedKind
  <2>4. Cardinality(Searched(t, tried)) \in Nat
    BY <2>3, FiniteObjects
  <2>5. Filtered(t, Matched(t, tried), Cardinality(Searched(t, tried)), Unmatched(t, tried), spent) \in Meanings
    <3> HIDE DEF spent, tried
    <3> QED
      BY <2>1, <2>3, <2>4, FilteredFacts
  <2>6. Meaning(Unresolved("pattern"), spent) \in Meanings
    <3> HIDE DEF spent
    <3> QED
      BY <2>1, FailedKind DEF Errors
  <2> QED
    BY <2>2, <2>5, <2>6 DEF MeaningOfSelected
<1>3. ASSUME NEW source \in Answers, NEW from
      PROVE  MeaningOfRelated(t, source, from) \in Meanings
  <2>1. source.found \in BagsOfObjects
    BY DEF Answers
  <2>2. CASE from \in SourceKinds(t.kind)
    <3> DEFINE bag == Related(t.kind, from, source.found)
               spent == RelationWork(t.kind, from, source.found)
    <3>1. bag \in BagsOfObjects /\ Cardinality(DOMAIN bag) \in Nat /\ spent \in Nat
      BY <1>1, <2>1, <2>2, RelatedKind, BagFacts, RelationWorkKind
    <3>2. Filtered(t, bag, Cardinality(DOMAIN bag), 0, spent) \in Meanings
      <4> HIDE DEF bag, spent
      <4> QED
        BY <3>1, FilteredFacts
    <3>3. Meaning(Unresolved("source"), 0) \in Meanings
      BY FailedKind DEF Errors
    <3> QED
      BY <2>2, <3>2, <3>3 DEF MeaningOfRelated
  <2>3. CASE from \notin SourceKinds(t.kind)
    <3>1. Meaning(Unresolved("source"), 0) \in Meanings /\ Meaning(Unresolved("kind"), 0) \in Meanings
      BY FailedKind DEF Errors
    <3> QED
      BY <2>3, <3>1 DEF MeaningOfRelated
  <2> QED
    BY <2>2, <2>3
<1> QED
  BY <1>2, <1>3

(* The reference is what it says: the source of a selector comes after it. *)
MeaningAt(f, s) ==
  LET t == forest.node[s]
  IN  IF t.refused # "no" THEN Meaning(Unresolved(t.refused), 0)
      ELSE IF t.of = 0 THEN MeaningOfSelected(t)
      ELSE MeaningOfRelated(t, f[t.of].answer, Collection(forest.node[t.of].kind))

LEMMA NodesAre ==
  ASSUME forest \in Forests
  PROVE  /\ forest.node \in Seq(Selector) /\ Len(forest.node) \in Nat /\ Nodes = 1..Len(forest.node)
         /\ forest.roots \in Seq(Nodes) /\ IsFiniteSet(Nodes)
         /\ \A s \in Nodes :
              /\ forest.node[s] \in Selector
              /\ forest.node[s].of # 0 => forest.node[s].of \in Nodes /\ forest.node[s].of > s
              /\ ToSet(forest.node[s].nested) \subseteq Nodes
              /\ forest.node[s].nested \in Seq(Nodes)
<1>1. Forest(forest)
  BY SelectorConstants
<1>2. forest.node \in Seq(Selector) /\ forest.roots \in Seq(Nodes)
  BY <1>1 DEF Forest, Nodes
<1>3. Len(forest.node) \in Nat /\ Nodes = 1..Len(forest.node)
  BY <1>2 DEF Nodes
<1>4. IsFiniteSet(Nodes)
  BY <1>3, FS_Interval
<1>5. ASSUME NEW s \in Nodes
      PROVE  /\ forest.node[s] \in Selector
             /\ forest.node[s].of # 0 => forest.node[s].of \in Nodes /\ forest.node[s].of > s
             /\ ToSet(forest.node[s].nested) \subseteq Nodes
             /\ forest.node[s].nested \in Seq(Nodes)
  <2>1. /\ ToSet(forest.node[s].nested) \subseteq {t \in Nodes : t > s}
        /\ forest.node[s].of # 0 => forest.node[s].of \in ToSet(forest.node[s].nested)
    BY <1>1, <1>5 DEF Forest, Nodes
  <2>2. forest.node[s] \in Selector
    BY <1>2, <1>3
  <2>3. forest.node[s].nested \in Seq(Nat)
    BY <2>2 DEF Selector
  <2>4. forest.node[s].nested \in Seq(Nodes)
    <3> DEFINE nested == forest.node[s].nested
    <3>1. \A i \in 1..Len(nested) : nested[i] \in Nodes
      BY <2>1, <2>3 DEF ToSet
    <3> HIDE DEF nested
    <3>2. nested \in Seq(Nat) => nested \in Seq(Nodes)
      BY <3>1
    <3> QED
      BY <2>3, <3>2 DEF nested
  <2> QED
    BY <2>1, <2>2, <2>4
<1> QED
  BY <1>2, <1>3, <1>4, <1>5

LEMMA MeaningAtKind ==
  ASSUME forest \in Forests, NEW f, NEW s \in Nodes,
         forest.node[s].of # 0 => f[forest.node[s].of] \in Meanings
  PROVE  MeaningAt(f, s) \in Meanings
<1> DEFINE t == forest.node[s]
<1>1. t \in Selector
  BY NodesAre
<1> HIDE DEF t
<1>2. t.refused # "no" => Meaning(Unresolved(t.refused), 0) \in Meanings
  BY <1>1, SelectorFacts, FailedKind DEF Errors
<1>3. /\ MeaningOfSelected(t) \in Meanings
      /\ t.of # 0 => MeaningOfRelated(t, f[t.of].answer, Collection(forest.node[t.of].kind)) \in Meanings
  BY <1>1, MeaningKind DEF Meanings, t
<1> QED
  BY <1>2, <1>3 DEF MeaningAt, t

LEMMA ReferenceIs ==
  ASSUME forest \in Forests
  PROVE  \A s \in Nodes : Reference[s] \in Meanings /\ Reference[s] = MeaningAt(Reference, s)
<1>1. PICK n \in Nat : Nodes = 1..n
  BY NodesAre
<1> DEFINE Rest(k) == (n + 1 - k)..n
           Fits(f, k) == f \in [Rest(k) -> Meanings] /\ \A s \in Rest(k) : f[s] = MeaningAt(f, s)
           G == {k \in Nat : k <= n => \E f : Fits(f, k)}
<1>2. 0 \in G
  <2> DEFINE f == [s \in Rest(0) |-> 0]
  <2>1. Rest(0) = {}
    BY <1>1
  <2>2. Fits(f, 0)
    BY <2>1
  <2> QED
    BY <2>2
<1>3. ASSUME NEW k \in Nat, k \in G PROVE k + 1 \in G
  <2> SUFFICES ASSUME k + 1 <= n PROVE \E f : Fits(f, k + 1)
    OBVIOUS
  <2>1. PICK f : Fits(f, k)
    BY <1>1, <1>3
  <2> DEFINE new == n - k
             g == [s \in Rest(k + 1) |-> IF s = new THEN MeaningAt(f, new) ELSE f[s]]
  <2>2. /\ new \in Nodes /\ new \in Rest(k + 1) /\ new \notin Rest(k)
        /\ \A s \in Rest(k + 1) : s \in Nodes /\ (s # new => s \in Rest(k))
        /\ \A s \in Rest(k + 1) : \A u \in Nodes : u > s => u \in Rest(k) /\ u \in Rest(k + 1) /\ u # new
    <3>1. new \in Nodes /\ new \in Rest(k + 1) /\ new \notin Rest(k)
      BY <1>1
    <3>2. ASSUME NEW s \in Rest(k + 1) PROVE s \in Nodes /\ (s # new => s \in Rest(k))
      BY <1>1
    <3>3. ASSUME NEW s \in Rest(k + 1), NEW u \in Nodes, u > s
          PROVE  u \in Rest(k) /\ u \in Rest(k + 1) /\ u # new
      BY <1>1, <3>3
    <3> QED
      BY <3>1, <3>2, <3>3
  <2> HIDE DEF new
  <2>3. ASSUME NEW s \in Rest(k + 1), forest.node[s].of # 0
        PROVE  /\ f[forest.node[s].of] \in Meanings /\ g[forest.node[s].of] = f[forest.node[s].of]
    <3>1. forest.node[s].of \in Nodes /\ forest.node[s].of > s
      BY <2>2, <2>3, NodesAre
    <3>2. /\ forest.node[s].of \in Rest(k) /\ forest.node[s].of \in Rest(k + 1)
          /\ forest.node[s].of # new
      BY <2>2, <3>1
    <3> QED
      BY <2>1, <3>2
  <2>4. ASSUME NEW s \in Rest(k + 1) PROVE MeaningAt(g, s) = MeaningAt(f, s)
    BY <2>3 DEF MeaningAt
  <2>5. MeaningAt(f, new) \in Meanings
    BY <2>2, <2>3, MeaningAtKind
  <2>6. g \in [Rest(k + 1) -> Meanings]
    BY <2>1, <2>2, <2>5
  <2>7. ASSUME NEW s \in Rest(k + 1) PROVE g[s] = MeaningAt(g, s)
    <3>1. CASE s = new
      BY <2>4, <3>1
    <3>2. CASE s # new
      BY <2>1, <2>2, <2>4, <3>2
    <3> QED
      BY <3>1, <3>2
  <2>8. Fits(g, k + 1)
    BY <2>6, <2>7
  <2> QED
    BY <2>8
<1>4. n \in G
  <2> HIDE DEF G
  <2>1. Nat \subseteq G
    BY <1>2, <1>3, Naturals
  <2> QED
    BY <1>1, <2>1
<1>5. PICK f : Fits(f, n)
  BY <1>1, <1>4
<1>6. Rest(n) = Nodes
  BY <1>1
<1> DEFINE Eq(h) == h = [s \in Nodes |-> MeaningAt(h, s)]
<1>7. Eq(f)
  BY <1>5, <1>6
<1>8. Reference = CHOOSE h : Eq(h)
  BY DEF Reference, MeaningAt, Nodes
<1>9. Eq(Reference)
  <2> HIDE DEF Eq
  <2> QED
    BY <1>7, <1>8
<1>10. Reference = [s \in Nodes |-> MeaningAt(Reference, s)]
  BY <1>9
<1> DEFINE H == {k \in Nat : k <= n => \A s \in Rest(k) : Reference[s] \in Meanings}
<1>11. 0 \in H
  BY <1>1
<1>12. ASSUME NEW k \in Nat, k \in H PROVE k + 1 \in H
  <2>1. ASSUME k + 1 <= n, NEW s \in Rest(k + 1) PROVE Reference[s] \in Meanings
    <3>1. s \in Nodes
      BY <1>1, <2>1
    <3>2. ASSUME NEW u \in Nodes, u > s PROVE u \in Rest(k)
      BY <1>1, <2>1, <3>2
    <3>3. \A u \in Rest(k) : Reference[u] \in Meanings
      BY <1>1, <1>12, <2>1
    <3>4. forest.node[s].of # 0 => Reference[forest.node[s].of] \in Meanings
      BY <3>1, <3>2, <3>3, NodesAre
    <3>5. MeaningAt(Reference, s) \in Meanings
      BY <3>1, <3>4, MeaningAtKind
    <3> QED
      BY <1>10, <3>1, <3>5
  <2> QED
    BY <2>1
<1>13. n \in H
  <2> HIDE DEF H
  <2>1. Nat \subseteq H
    BY <1>11, <1>12, Naturals
  <2> QED
    BY <1>1, <2>1
<1>14. \A s \in Nodes : Reference[s] \in Meanings
  BY <1>1, <1>6, <1>13
<1> QED
  BY <1>10, <1>14

-----------------------------------------------------------------------------
(* One more pattern, and one more source object.                           *)
LEMMA MatchedMore ==
  ASSUME NEW t \in Selector, NEW i \in DOMAIN t.patterns
  PROVE  LET p == t.patterns[i]
         IN  /\ Matched(t, 1..i) = Matched(t, 1..(i - 1)) (+) SetToBag(Hits(t, p))
             /\ Unmatched(t, 1..i) = Unmatched(t, 1..(i - 1)) + (IF Hits(t, p) = {} THEN 1 ELSE 0)
             /\ Searched(t, 1..i) = Searched(t, 1..(i - 1)) \cup Visible(t, p)
<1> DEFINE p == t.patterns[i]
           some == 1..(i - 1)
           all == 1..i
           hits == Hits(t, p)
<1>1. i \in Nat \ {0} /\ i \in 1..Len(t.patterns) /\ Len(t.patterns) \in Nat
  BY SelectorFacts
<1>2. all = some \cup {i} /\ i \notin some /\ IsFiniteSet(some) /\ some \in SUBSET DOMAIN t.patterns
      /\ all \in SUBSET DOMAIN t.patterns
  <2>1. all = some \cup {i} /\ i \notin some
    BY <1>1
  <2>2. DOMAIN t.patterns = 1..Len(t.patterns)
    BY SelectorFacts
  <2>3. all \subseteq DOMAIN t.patterns
    BY <1>1, <2>2
  <2>4. IsFiniteSet(some)
    BY <1>1, FS_Interval
  <2> QED
    BY <2>1, <2>3, <2>4
<1>3. hits \subseteq Universe(t.kind)
  BY SelectorFacts, PatternFacts
<1> HIDE DEF some, all
<1>4. ASSUME NEW n
      PROVE  /\ IsFiniteSet(Matching(t, some, n)) /\ Cardinality(Matching(t, some, n)) \in Nat
             /\ n \in hits => /\ Matching(t, all, n) # {}
                              /\ Cardinality(Matching(t, all, n)) = Cardinality(Matching(t, some, n)) + 1
             /\ n \notin hits => Matching(t, all, n) = Matching(t, some, n)
             /\ Matching(t, some, n) = {} => Cardinality(Matching(t, some, n)) = 0
  <2>1. IsFiniteSet(Matching(t, some, n)) /\ Cardinality(Matching(t, some, n)) \in Nat
    BY <1>2, MatchedKind
  <2>2. n \in hits => Matching(t, all, n) = Matching(t, some, n) \cup {i}
    BY <1>2 DEF Matching
  <2>3. n \notin hits => Matching(t, all, n) = Matching(t, some, n)
    BY <1>2 DEF Matching
  <2>4. i \notin Matching(t, some, n)
    BY <1>2 DEF Matching
  <2>5. Cardinality(Matching(t, some, n) \cup {i}) = Cardinality(Matching(t, some, n)) + 1
    BY <2>1, <2>4, FS_AddElement
  <2> QED
    BY <2>1, <2>2, <2>3, <2>5, FS_EmptySet
<1>5. Matched(t, all) = Matched(t, some) (+) SetToBag(hits)
  <2> DEFINE a == Matched(t, some)
             b == SetToBag(hits)
             c == Matched(t, all)
  <2>1. /\ DOMAIN a = {m \in Universe(t.kind) : Matching(t, some, m) # {}}
        /\ \A n \in DOMAIN a : a[n] = Cardinality(Matching(t, some, n))
    BY DEF Matched
  <2>2. DOMAIN b = hits /\ \A n \in hits : b[n] = 1
    BY DEF SetToBag
  <2>3. /\ DOMAIN c = {m \in Universe(t.kind) : Matching(t, all, m) # {}}
        /\ \A n \in DOMAIN c : c[n] = Cardinality(Matching(t, all, n))
        /\ c = [n \in DOMAIN c |-> c[n]]
    BY DEF Matched
  <2>4. a (+) b = [n \in DOMAIN a \cup DOMAIN b |-> (IF n \in DOMAIN a THEN a[n] ELSE 0)
                                                     + (IF n \in DOMAIN b THEN b[n] ELSE 0)]
    BY DEF (+)
  <2> HIDE DEF a, b, c, hits
  <2>5. DOMAIN c = DOMAIN a \cup DOMAIN b
    BY <1>3, <1>4, <2>1, <2>2, <2>3
  <2>6. ASSUME NEW n \in DOMAIN c
        PROVE  c[n] = (IF n \in DOMAIN a THEN a[n] ELSE 0) + (IF n \in DOMAIN b THEN b[n] ELSE 0)
    <3>1. CASE n \in hits
      BY <1>3, <1>4, <2>1, <2>2, <2>3, <3>1
    <3>2. CASE n \notin hits
      <4>1. n \in DOMAIN a /\ c[n] = a[n] /\ a[n] \in Nat /\ n \notin DOMAIN b
        BY <1>4, <2>1, <2>2, <2>3, <2>5, <3>2
      <4> QED
        BY <4>1
    <3> QED
      BY <3>1, <3>2
  <2>7. c = a (+) b
    BY <2>3, <2>4, <2>5, <2>6
  <2> QED
    BY <2>7 DEF a, b, c
<1>6. Unmatched(t, all) = Unmatched(t, some) + (IF hits = {} THEN 1 ELSE 0)
  <2> DEFINE missed(tried) == {j \in tried : Hits(t, t.patterns[j]) = {}}
  <2>1. missed(all) = IF hits = {} THEN missed(some) \cup {i} ELSE missed(some)
    BY <1>2
  <2>2. i \notin missed(some)
    BY <1>2
  <2>3. IsFiniteSet(missed(some)) /\ Cardinality(missed(some)) \in Nat
    BY <1>2, FS_Subset, FS_CardinalityType
  <2>4. \A tried : Unmatched(t, tried) = Cardinality(missed(tried))
    BY DEF Unmatched
  <2> HIDE DEF missed
  <2>5. Cardinality(missed(some) \cup {i}) = Cardinality(missed(some)) + 1
    BY <2>2, <2>3, FS_AddElement
  <2> QED
    BY <2>1, <2>3, <2>4, <2>5
<1>7. Searched(t, all) = Searched(t, some) \cup Visible(t, p)
  BY <1>2 DEF Searched
<1> QED
  BY <1>5, <1>6, <1>7 DEF some, all

LEMMA TotalZero ==
  ASSUME NEW f, NEW set, \A x \in set : f[x] = 0
  PROVE  Total(f, set) = 0
<1>1. \A x \in set : 1..f[x] = {}
  OBVIOUS
<1>2. Units(f, set) = {}
  BY <1>1 DEF Units
<1> QED
  BY <1>2, FS_EmptySet DEF Total

LEMMA RelatedMore ==
  ASSUME NEW kind \in Kinds, NEW from, from \in SourceKinds(kind), NEW source \in BagsOfObjects,
         NEW done \in SUBSET DOMAIN source, NEW n \in DOMAIN source \ done
  PROVE  Related(kind, from, PartOf(source, done \cup {n}))
           = Related(kind, from, PartOf(source, done)) (+) Relation(kind, from, n, source[n])
<1> DEFINE some == [m \in done |-> source[m]]
           more == [m \in done \cup {n} |-> source[m]]
           a == Related(kind, from, some)
           b == Relation(kind, from, n, source[n])
           c == Related(kind, from, more)
           ends(set) == UNION {Ends(kind, from, m) : m \in set}
           copies(o) == [m \in DOMAIN source |-> source[m] * Cardinality(Paths(kind, from, m, o))]
<1>1. DOMAIN some = done /\ DOMAIN more = done \cup {n} /\ IsFiniteSet(done) /\ n \notin done
  BY BagFacts, FS_Subset
<1>2. /\ DOMAIN a = ends(done) /\ DOMAIN c = ends(done \cup {n}) /\ DOMAIN b = Ends(kind, from, n)
      /\ c = [o \in DOMAIN c |-> c[o]]
  BY DEF Related, Relation, Ends
<1>3. DOMAIN c = DOMAIN a \cup DOMAIN b
  BY <1>2
<1>4. ASSUME NEW o
      PROVE  /\ \A m \in DOMAIN source : copies(o)[m] \in Nat
             /\ Total(copies(o), done \cup {n}) = Total(copies(o), done) + copies(o)[n]
             /\ Total(copies(o), done) \in Nat
  <2>1. \A m \in DOMAIN source : copies(o)[m] \in Nat
    BY CopiesKind DEF Copies
  <2> HIDE DEF copies
  <2>2. copies(o)[n] \in Nat /\ \A m \in done : copies(o)[m] \in Nat
    BY <2>1
  <2> QED
    BY <1>1, <2>1, <2>2, TotalMore
<1>5. ASSUME NEW o
      PROVE  /\ o \in DOMAIN a => a[o] = Total(copies(o), done)
             /\ o \in DOMAIN c => c[o] = Total(copies(o), done \cup {n})
             /\ o \in DOMAIN b => b[o] = copies(o)[n]
  <2> DEFINE f == [m \in done |-> some[m] * Cardinality(Paths(kind, from, m, o))]
             g == [m \in done \cup {n} |-> more[m] * Cardinality(Paths(kind, from, m, o))]
  <2>1. (\A m \in done : f[m] = copies(o)[m]) /\ (\A m \in done \cup {n} : g[m] = copies(o)[m])
    OBVIOUS
  <2>2. o \in DOMAIN a => a[o] = Total(f, done)
    BY <1>1 DEF Related
  <2>3. o \in DOMAIN c => c[o] = Total(g, done \cup {n})
    BY <1>1 DEF Related
  <2>4. o \in DOMAIN b => b[o] = copies(o)[n]
    BY DEF Relation, Paths
  <2> HIDE DEF f, g, copies, a, b, c
  <2>5. Total(f, done) = Total(copies(o), done)
    BY <2>1, TotalSame
  <2>6. Total(g, done \cup {n}) = Total(copies(o), done \cup {n})
    BY <2>1, TotalSame
  <2> QED
    BY <2>2, <2>3, <2>4, <2>5, <2>6
<1>6. ASSUME NEW o, o # NoNet
      PROVE  /\ o \notin DOMAIN a => Total(copies(o), done) = 0
             /\ o \notin DOMAIN b => copies(o)[n] = 0
  <2>1. ASSUME NEW m \in DOMAIN source, o \notin Ends(kind, from, m)
        PROVE  copies(o)[m] = 0
    <3>1. Paths(kind, from, m, o) = {}
      BY <1>6, <2>1 DEF Paths, Ends
    <3>2. Cardinality(Paths(kind, from, m, o)) = 0
      BY <3>1, FS_EmptySet
    <3>3. source[m] \in Nat
      BY BagFacts
    <3> QED
      BY <3>2, <3>3
  <2>2. o \notin DOMAIN a => \A m \in done : copies(o)[m] = 0
    BY <1>2, <2>1
  <2> HIDE DEF copies, a, b
  <2>3. o \notin DOMAIN a => Total(copies(o), done) = 0
    BY <2>2, TotalZero
  <2>4. o \notin DOMAIN b => copies(o)[n] = 0
    BY <1>2, <2>1
  <2> QED
    BY <2>3, <2>4
<1>7. \A o \in DOMAIN c : o # NoNet
  BY <1>2 DEF Ends
<1>8. a (+) b = [o \in DOMAIN a \cup DOMAIN b |-> (IF o \in DOMAIN a THEN a[o] ELSE 0)
                                                   + (IF o \in DOMAIN b THEN b[o] ELSE 0)]
  BY DEF (+)
<1> HIDE DEF a, b, c, copies
<1>9. ASSUME NEW o \in DOMAIN c
      PROVE  c[o] = (IF o \in DOMAIN a THEN a[o] ELSE 0) + (IF o \in DOMAIN b THEN b[o] ELSE 0)
  <2>1. /\ (IF o \in DOMAIN a THEN a[o] ELSE 0) = Total(copies(o), done)
        /\ (IF o \in DOMAIN b THEN b[o] ELSE 0) = copies(o)[n]
    BY <1>5, <1>6, <1>7
  <2>2. c[o] = Total(copies(o), done) + copies(o)[n]
    BY <1>4, <1>5
  <2> QED
    BY <2>1, <2>2
<1>10. c = a (+) b
  BY <1>2, <1>3, <1>8, <1>9
<1> QED
  BY <1>10 DEF a, b, c, PartOf

-----------------------------------------------------------------------------
(* A charge is made as a whole exactly when it fits.                       *)
LEMMA Paid ==
  ASSUME limit \in Nat, used \in 0..limit, NEW amounts \in Seq(Nat),
         NEW total, total = Total(amounts, 1..Len(amounts))
  PROVE  /\ Pay(amounts).used \in 0..limit /\ total \in Nat
         /\ Pay(amounts).ok <=> used + total <= limit
         /\ Pay(amounts).ok => Pay(amounts).used = used + total
<1> DEFINE n == Len(amounts)
           sum(i) == Total(amounts, 1..i)
           fits == {i \in 0..n : used + sum(i) <= limit}
           last == CHOOSE i \in 0..n : fits = 0..i
<1>1. n \in Nat /\ \A i \in 1..n : amounts[i] \in Nat
  OBVIOUS
<1>2. ASSUME NEW i \in 1..n
      PROVE  sum(i) = sum(i - 1) + amounts[i] /\ sum(i - 1) \in Nat
  <2>1. i \in Nat \ {0} /\ \A j \in 1..i : amounts[j] \in Nat
    BY <1>1
  <2> QED
    BY <2>1, TotalUpTo
<1>3. sum(0) = 0
  <2>1. 1..0 = {}
    OBVIOUS
  <2> QED
    BY <2>1, TotalEmpty
<1>4. \A i \in 0..n : sum(i) \in Nat
  <2> TAKE i \in 0..n
  <2>1. CASE i = 0
    BY <1>3, <2>1
  <2>2. CASE i # 0
    <3>1. i \in 1..n /\ amounts[i] \in Nat
      BY <1>1, <2>2
    <3>2. sum(i) = sum(i - 1) + amounts[i] /\ sum(i - 1) \in Nat
      BY <1>2, <3>1
    <3> QED
      BY <3>1, <3>2
  <2> QED
    BY <2>1, <2>2
<1> HIDE DEF sum, n
<1>5. ASSUME NEW i \in 0..n, i + 1 \in fits PROVE i \in fits
  <2>1. i + 1 \in 1..n /\ (i + 1) - 1 = i
    BY <1>1, <1>5
  <2>2. sum(i + 1) = sum(i) + amounts[i + 1] /\ sum(i) \in Nat /\ amounts[i + 1] \in Nat
    BY <1>1, <1>2, <2>1
  <2> QED
    BY <1>5, <2>2
<1>6. 0 \in fits
  BY <1>1, <1>3
<1>7. \E i \in 0..n : fits = 0..i
  <2> SUFFICES ASSUME ~\E i \in 0..n : fits = 0..i PROVE FALSE
    OBVIOUS
  <2> DEFINE G == {j \in Nat : j <= n => 0..j \subseteq fits}
             H == {j \in Nat : \A i \in 0..n : i + j \in fits => i \in fits}
  <2>1. Nat \subseteq H
    <3>1. 0 \in H
      BY <1>1
    <3>2. ASSUME NEW j \in Nat, j \in H PROVE j + 1 \in H
      <4> SUFFICES ASSUME NEW i \in 0..n, i + (j + 1) \in fits PROVE i \in fits
        OBVIOUS
      <4>1. i + j \in 0..n /\ (i + j) + 1 = i + (j + 1)
        BY <1>1
      <4>2. i + j \in fits
        BY <1>5, <4>1
      <4> QED
        BY <3>2, <4>2
    <3> HIDE DEF H
    <3> QED
      BY <3>1, <3>2, Naturals
  <2>2. ASSUME NEW k \in fits PROVE 0..k \subseteq fits
    <3> SUFFICES ASSUME NEW i \in 0..k PROVE i \in fits
      OBVIOUS
    <3>1. k - i \in Nat /\ i + (k - i) = k /\ i \in 0..n
      BY <1>1
    <3>2. k - i \in H
      BY <2>1, <3>1
    <3> QED
      BY <3>1, <3>2
  <2>3. 0 \in G
    BY <1>6
  <2>4. ASSUME NEW j \in Nat, j \in G PROVE j + 1 \in G
    <3> SUFFICES ASSUME j + 1 <= n PROVE 0..(j + 1) \subseteq fits
      OBVIOUS
    <3>1. j \in 0..n /\ 0..j \subseteq fits
      BY <1>1, <2>4
    <3>2. PICK k \in fits : k \notin 0..j
      BY <3>1
    <3>3. j + 1 \in 0..k
      BY <1>1, <3>2
    <3> QED
      BY <2>2, <3>3
  <2>5. n \in G
    <3> HIDE DEF G
    <3>1. Nat \subseteq G
      BY <2>3, <2>4, Naturals
    <3> QED
      BY <1>1, <3>1
  <2>6. fits = 0..n
    <3>1. 0..n \subseteq fits
      BY <1>1, <2>5
    <3> QED
      BY <3>1
  <2>7. n \in 0..n
    BY <1>1
  <2> HIDE DEF fits
  <2> QED
    BY <2>6, <2>7
<1>8. last \in 0..n /\ fits = 0..last
  BY <1>7
<1>9. used + sum(last) <= limit /\ sum(last) \in Nat
  <2>1. last \in fits
    BY <1>8
  <2> HIDE DEF last
  <2> QED
    BY <1>4, <1>8, <2>1
<1>10. n \in fits => last = n
  <2> HIDE DEF last, fits
  <2> QED
    BY <1>1, <1>8
<1>11. /\ Pay(amounts).ok <=> n \in fits
       /\ Pay(amounts).used = used + sum(last)
  BY DEF Pay, sum, n
<1>12. total = sum(n) /\ total \in Nat
  BY <1>1, <1>4 DEF sum, n
<1>13. n \in fits <=> used + total <= limit
  BY <1>1, <1>12
<1> HIDE DEF fits, last
<1>14. Pay(amounts).used \in 0..limit
  BY <1>9, <1>11
<1> QED
  BY <1>10, <1>11, <1>12, <1>13, <1>14

LEMMA CurrentIs ==
  ASSUME Shape, calls # <<>>
  PROVE  /\ Current \in Nodes /\ Current \notin DOMAIN cache /\ S \in Selector /\ S = forest.node[Current]
         /\ S.of # 0 => S.of \in Nodes /\ S.of > Current
         /\ Works[Current] = Reference[Current].work /\ Reference[Current] \in Meanings
         /\ Works[Current] \in Nat
         /\ Reference[Current] = MeaningAt(Reference, Current)
         /\ calls \in Seq(Nodes) /\ Len(calls) \in Nat \ {0}
<1>1. calls \in Seq(Nodes \ DOMAIN cache) /\ forest \in Forests
  BY DEF Shape, Recursion
<1>2. Len(calls) \in Nat \ {0} /\ Current \in Nodes \ DOMAIN cache /\ calls \in Seq(Nodes)
  BY <1>1 DEF Current, Last
<1>3. S \in Selector /\ S = forest.node[Current] /\ (S.of # 0 => S.of \in Nodes /\ S.of > Current)
  BY <1>1, <1>2, NodesAre DEF S
<1>4. Reference[Current] \in Meanings /\ Reference[Current] = MeaningAt(Reference, Current)
  BY <1>1, <1>2, ReferenceIs
<1>5. Works[Current] = Reference[Current].work /\ Works[Current] \in Nat
  BY <1>2, <1>4 DEF Works, Meanings
<1> QED
  BY <1>2, <1>3, <1>4, <1>5

LEMMA PriceIs ==
  ASSUME forest \in Forests
  PROVE  /\ \A s \in Nodes : Works[s] \in Nat
         /\ \A k \in KindsUsed : ScanSizes[k] \in Nat
         /\ IsFiniteSet(Nodes) /\ IsFiniteSet(KindsUsed) /\ KindsUsed \subseteq Kinds
         /\ Cardinality(Nodes) \in Nat /\ Total(Works, Nodes) \in Nat /\ Total(ScanSizes, KindsUsed) \in Nat
         /\ Price \in Nat
<1>1. \A s \in Nodes : Works[s] \in Nat
  BY ReferenceIs DEF Works, Meanings
<1>2. KindsUsed \subseteq Kinds
  BY NodesAre, SelectorFacts, KindsAre DEF KindsUsed
<1>3. \A k \in Kinds : ScanSizes[k] \in Nat
  BY KindsAre DEF ScanSizes
<1>4. IsFiniteSet(Nodes) /\ Cardinality(Nodes) \in Nat
  BY NodesAre, FS_CardinalityType
<1>5. IsFiniteSet(KindsUsed)
  <2> DEFINE few == {t \in Nodes : forest.node[t].refused = "no" /\ forest.node[t].of = 0}
             g == [s \in few |-> Key(forest.node[s].kind)]
  <2>1. IsFiniteSet(few)
    BY <1>4, FS_Subset
  <2>2. g \in Surjection(few, KindsUsed)
    BY DEF Surjection, KindsUsed
  <2> QED
    BY <2>1, <2>2, FS_Surjection
<1>6. Total(Works, Nodes) \in Nat
  BY <1>1, <1>4, TotalMonotone
<1>7. Total(ScanSizes, KindsUsed) \in Nat
  BY <1>2, <1>3, <1>5, TotalMonotone
<1> QED
  BY <1>1, <1>2, <1>3, <1>4, <1>5, <1>6, <1>7 DEF Price

(* What was charged is part of the price.                                  *)
LEMMA PartOfPrice ==
  ASSUME forest \in Forests, NEW known \in SUBSET Nodes, NEW done \in SUBSET Nodes,
         NEW kinds \in SUBSET KindsUsed
  PROVE  /\ Cardinality(known) \in Nat /\ Total(Works, done) \in Nat /\ Total(ScanSizes, kinds) \in Nat
         /\ Cardinality(known) + Total(Works, done) + Total(ScanSizes, kinds) <= Price
         /\ IsFiniteSet(known) /\ IsFiniteSet(done) /\ IsFiniteSet(kinds)
<1>1. IsFiniteSet(known) /\ Cardinality(known) \in Nat /\ Cardinality(known) <= Cardinality(Nodes)
  BY PriceIs, FS_Subset, FS_CardinalityType
<1>2. Total(Works, done) \in Nat /\ Total(Works, done) <= Total(Works, Nodes) /\ IsFiniteSet(done)
  BY PriceIs, TotalMonotone
<1>3. /\ Total(ScanSizes, kinds) \in Nat /\ Total(ScanSizes, kinds) <= Total(ScanSizes, KindsUsed)
      /\ IsFiniteSet(kinds)
  BY PriceIs, TotalMonotone
<1>4. /\ Cardinality(Nodes) \in Nat /\ Total(Works, Nodes) \in Nat /\ Total(ScanSizes, KindsUsed) \in Nat
      /\ Price = Cardinality(Nodes) + Total(Works, Nodes) + Total(ScanSizes, KindsUsed)
  BY PriceIs DEF Price
<1> QED
  BY <1>1, <1>2, <1>3, <1>4

(* With what the selector at work costs, it is still part of the price.    *)
LEMMA CurrentInPrice ==
  ASSUME Shape, calls # <<>>, seen \subseteq Nodes, NEW kinds \in SUBSET KindsUsed
  PROVE  /\ Cardinality(seen) + Total(Works, DOMAIN cache) + Total(ScanSizes, kinds) + Works[Current] <= Price
         /\ Total(Works, DOMAIN cache \cup {Current}) = Total(Works, DOMAIN cache) + Works[Current]
         /\ Cardinality(seen) \in Nat /\ Total(Works, DOMAIN cache) \in Nat /\ Total(ScanSizes, kinds) \in Nat
<1> DEFINE old == DOMAIN cache
           new == DOMAIN cache \cup {Current}
<1>1. forest \in Forests /\ old \in SUBSET Nodes /\ Current \in Nodes /\ Current \notin old
  BY CurrentIs DEF Shape
<1>2. new \in SUBSET Nodes /\ seen \in SUBSET Nodes
  BY <1>1
<1>3. Works[Current] \in Nat /\ \A s \in old : Works[s] \in Nat
  BY <1>1, PriceIs
<1> HIDE DEF old
<1>4. /\ Total(Works, old) \in Nat /\ IsFiniteSet(old) /\ Cardinality(seen) \in Nat
      /\ Total(ScanSizes, kinds) \in Nat
  BY <1>1, <1>2, PartOfPrice
<1>5. Total(Works, old \cup {Current}) = Total(Works, old) + Works[Current]
  BY <1>1, <1>3, <1>4, TotalMore
<1> HIDE DEF new
<1>6. Cardinality(seen) + Total(Works, new) + Total(ScanSizes, kinds) <= Price
  BY <1>1, <1>2, PartOfPrice
<1>7. new = old \cup {Current} /\ Price \in Nat
  BY <1>1, PriceIs DEF new, old
<1>8. Cardinality(seen) + Total(Works, old) + Total(ScanSizes, kinds) + Works[Current] <= Price
  BY <1>3, <1>4, <1>5, <1>6, <1>7
<1> QED
  BY <1>4, <1>5, <1>8 DEF old

-----------------------------------------------------------------------------
(* Whatever a selector at work was charged, it is part of what it costs.   *)
LEMMA SourceIs ==
  ASSUME Shape, Answered, calls # <<>>, S.refused = "no", S.of # 0, S.of \in DOMAIN cache,
         cache[S.of].error = "none"
  PROVE  /\ Source \in BagsOfObjects /\ cache[S.of] \in Answers
         /\ Reference[Current] = MeaningOfRelated(S, cache[S.of], SourceKind)
         /\ SourceKind \in SourceKinds(S.kind) =>
              /\ Reference[Current] = Filtered(S, Related(S.kind, SourceKind, Source),
                                        Cardinality(DOMAIN Related(S.kind, SourceKind, Source)), 0,
                                        RelationWork(S.kind, SourceKind, Source))
              /\ Related(S.kind, SourceKind, Source) \in BagsOfObjects
              /\ Cardinality(DOMAIN Related(S.kind, SourceKind, Source)) \in Nat
              /\ RelationWork(S.kind, SourceKind, Source) \in Nat
<1>1. cache[S.of] \in Answers /\ cache[S.of] = Reference[S.of].answer
  BY DEF Shape, Answered, AnswersAreExact
<1>2. Source \in BagsOfObjects
  BY <1>1 DEF Source, Answers
<1>3. Reference[Current] = MeaningOfRelated(S, cache[S.of], SourceKind)
  BY <1>1, CurrentIs DEF MeaningAt, SourceKind, S
<1>4. SourceKind \in SourceKinds(S.kind) =>
        Reference[Current] = Filtered(S, Related(S.kind, SourceKind, Source),
                               Cardinality(DOMAIN Related(S.kind, SourceKind, Source)), 0,
                               RelationWork(S.kind, SourceKind, Source))
  BY <1>3 DEF MeaningOfRelated, Source
<1>5. S.kind \in Kinds
  BY CurrentIs, SelectorFacts
<1>6. SourceKind \in SourceKinds(S.kind) =>
        /\ Related(S.kind, SourceKind, Source) \in BagsOfObjects
        /\ RelationWork(S.kind, SourceKind, Source) \in Nat
  BY <1>2, <1>5, RelatedKind, RelationWorkKind
<1>7. \A b \in BagsOfObjects : Cardinality(DOMAIN b) \in Nat
  BY BagFacts
<1> QED
  BY <1>1, <1>2, <1>3, <1>4, <1>6, <1>7

(* The bill of a selector that has patterns.                               *)
LEMMA PatternedIs ==
  ASSUME Shape, calls # <<>>, S.refused = "no", S.of = 0, S.kind \notin WholeKinds
  PROVE  /\ Reference[Current] = MeaningOfSelected(S)
         /\ Total(PatternWorks(S), Tried(S)) \in Nat
         /\ Works[Current] >= Total(PatternWorks(S), Tried(S))
<1> DEFINE tried == DOMAIN S.patterns
           spent == Total(PatternWorks(S), Tried(S))
<1>1. Reference[Current] = MeaningOfSelected(S) /\ S \in Selector /\ Works[Current] = Reference[Current].work
  BY CurrentIs DEF MeaningAt, S
<1>2. spent \in Nat
  BY <1>1, TriedCosts
<1>3. \/ Reference[Current] = Filtered(S, Matched(S, tried), Cardinality(Searched(S, tried)), Unmatched(S, tried), spent)
      \/ Reference[Current] = Meaning(Unresolved("pattern"), spent)
  BY <1>1 DEF MeaningOfSelected
<1>4. /\ Matched(S, tried) \in BagsOfObjects /\ Unmatched(S, tried) \in Nat
      /\ Searched(S, tried) \in SUBSET Objects
  BY <1>1, MatchedKind, SelectorFacts
<1>5. Cardinality(Searched(S, tried)) \in Nat
  BY <1>4, FiniteObjects
<1> HIDE DEF spent, tried
<1>6. Filtered(S, Matched(S, tried), Cardinality(Searched(S, tried)), Unmatched(S, tried), spent).work >= spent
  BY <1>1, <1>2, <1>4, <1>5, FilteredFacts
<1>7. Meaning(Unresolved("pattern"), spent).work = spent
  BY DEF Meaning
<1>8. Reference[Current].work >= spent
  BY <1>2, <1>3, <1>6, <1>7
<1> QED
  BY <1>1, <1>2, <1>8 DEF spent

(* The costs of the pattern that is tried, in the order they are made.     *)
LEMMA TryingCosts ==
  ASSUME NEW t \in Selector, NEW i \in DOMAIN t.patterns, \A j \in 1..(i - 1) : t.patterns[j].engine = "fits"
  PROVE  LET before == Total(PatternWorks(t), 1..(i - 1))
             all == Total(PatternWorks(t), Tried(t))
             p == t.patterns[i]
         IN  /\ before \in Nat /\ EntryWork(t, i) \in Nat /\ Walk(t, p) \in Nat /\ p.size \in Nat
             /\ Cardinality(Hits(t, p)) \in Nat /\ all \in Nat
             /\ p.size + (IF Routes(t, p) THEN Total(Widths, Universe(t.kind)) ELSE 0) <= EntryWork(t, i)
             /\ before + EntryWork(t, i) <= all
             /\ p.engine # "refused" => before + EntryWork(t, i) + Walk(t, p) <= all
             /\ Total(PatternWorks(t), 1..i) = before + PatternWork(t, i)
             /\ Total(PatternWorks(t), 1..i) <= all
<1> DEFINE before == Total(PatternWorks(t), 1..(i - 1))
           all == Total(PatternWorks(t), Tried(t))
           p == t.patterns[i]
           upto == Total(PatternWorks(t), 1..i)
           hits == Cardinality(Hits(t, p))
           routed == IF Routes(t, p) THEN Total(Widths, Universe(t.kind)) ELSE 0
           front == IF \A j \in 1..i : Routes(t, t.patterns[j]) THEN Cardinality(Visible(t, p)) ELSE 0
<1>1. p \in Pattern /\ i \in 0..Len(t.patterns)
  BY SelectorFacts
<1>2. before \in Nat /\ upto = before + PatternWork(t, i)
  BY PatternsBefore
<1>3. EntryWork(t, i) \in Nat /\ Walk(t, p) \in Nat /\ PatternWork(t, i) \in Nat
  BY WorksKind
<1>4. all \in Nat /\ upto <= all
  BY <1>1, TriedCosts
<1>5. /\ p.size \in Nat /\ hits \in Nat /\ Cardinality(Visible(t, p)) \in Nat
  <2> HIDE DEF p
  <2> QED
    BY <1>1, PatternFacts
<1>6. routed \in Nat /\ front \in Nat
  <2>1. \A n \in Objects : Widths[n] \in Nat
    BY SelectorConstants DEF Widths
  <2>2. Universe(t.kind) \in SUBSET Objects /\ IsFiniteSet(Universe(t.kind))
    BY SelectorFacts, FiniteObjects
  <2>3. Total(Widths, Universe(t.kind)) \in Nat
    BY <2>1, <2>2, TotalMonotone
  <2> QED
    BY <1>5, <2>3
<1>7. EntryWork(t, i) = p.size + routed + front
  BY DEF EntryWork, Widths
<1>8. PatternWork(t, i) = EntryWork(t, i) + (IF p.engine = "refused" THEN 0 ELSE Walk(t, p))
                            + (IF p.engine = "fits" THEN 2 * hits ELSE 0)
  BY DEF PatternWork
<1> HIDE DEF before, all, p, upto, hits, routed, front
<1>9. p.size + routed <= EntryWork(t, i)
  BY <1>5, <1>6, <1>7
<1>10. (IF p.engine = "fits" THEN 2 * hits ELSE 0) \in Nat
  BY <1>5
<1>11. /\ before + EntryWork(t, i) <= upto
       /\ p.engine # "refused" => before + EntryWork(t, i) + Walk(t, p) <= upto
  BY <1>2, <1>3, <1>8, <1>10
<1>12. /\ before + EntryWork(t, i) <= all
       /\ p.engine # "refused" => before + EntryWork(t, i) + Walk(t, p) <= all
  <2>1. upto \in Nat
    BY <1>2, <1>3
  <2> QED
    BY <1>2, <1>3, <1>4, <1>11, <2>1
<1> QED
  BY <1>2, <1>3, <1>4, <1>5, <1>9, <1>12 DEF before, all, p, upto, hits, routed

LEMMA CostsNoMore ==
  ASSUME Shape, Answered, calls # <<>>, S.refused = "no",
         NEW at \in Working, NEW f \in Frame, NEW x \in Nat, Progress(at, f, x)
  PROVE  x <= Works[Current]
<1> USE DEF Working
<1>1. S \in Selector /\ Works[Current] \in Nat /\ Works[Current] = Reference[Current].work
  BY CurrentIs
<1>2. f.found \in BagsOfObjects /\ f.candidates \in SUBSET Objects /\ f.unmatched \in Nat
  BY DEF Frame
<1>3. CASE at = "universe"
  BY <1>1, <1>3 DEF Progress
<1>4. CASE at = "relate"
  <2> DEFINE done == DOMAIN Source \ f.todo
             works == RelationWorks(S.kind, SourceKind)
             ports == IF S.kind = "ports" THEN Cardinality(Ports) ELSE 0
  <2>1. Relating(f, x)
    BY <1>4 DEF Progress
  <2>2. /\ S.of # 0 /\ S.of \in DOMAIN cache /\ cache[S.of].error = "none"
        /\ SourceKind \in SourceKinds(S.kind) /\ x = Cardinality(DOMAIN Source) + ports + Total(works, done)
    BY <2>1 DEF Relating
  <2>3. Source \in BagsOfObjects
    BY <2>2, SourceIs
  <2>4. /\ IsFiniteSet(DOMAIN Source) /\ DOMAIN Source \subseteq Objects
        /\ Cardinality(DOMAIN Source) \in Nat
    BY <2>3, BagFacts
  <2>5. Total(works, done) \in Nat /\ Total(works, DOMAIN Source) \in Nat
        /\ Total(works, done) <= Total(works, DOMAIN Source)
    <3>1. \A n \in DOMAIN Source : works[n] \in Nat
      BY <1>1, <2>2, <2>4, RelationWorksKind, SelectorFacts
    <3> HIDE DEF works
    <3> QED
      BY <2>4, <3>1, TotalMonotone
  <2> DEFINE related == Related(S.kind, SourceKind, Source)
             count == Cardinality(DOMAIN related)
             work == RelationWork(S.kind, SourceKind, Source)
  <2>6. /\ Reference[Current] = Filtered(S, related, count, 0, work)
        /\ related \in BagsOfObjects /\ count \in Nat /\ work \in Nat
    BY <2>2, SourceIs
  <2>7. work = Cardinality(DOMAIN Source) + ports + Total(works, DOMAIN Source) + 2 * count
    BY DEF RelationWork
  <2>8. ports \in Nat
    BY FiniteObjects DEF Objects
  <2> HIDE DEF work, count, related, ports, works, done
  <2>9. x <= work
    BY <2>2, <2>4, <2>5, <2>6, <2>7, <2>8
  <2>10. Filtered(S, related, count, 0, work).work >= work
    BY <1>1, <2>6, FilteredFacts
  <2> QED
    BY <1>1, <2>6, <2>9, <2>10
<1>5. CASE at = "pattern"
  <2>1. Between(f, x)
    BY <1>5 DEF Progress
  <2>2. /\ S.of = 0 /\ S.kind \notin WholeKinds /\ f.at \in 0..Len(S.patterns) /\ x = Before(f.at)
        /\ \A j \in 1..f.at : S.patterns[j].engine = "fits"
    BY <2>1 DEF Between, Patterned, Found
  <2>3. \A j \in 1..(f.at - 1) : S.patterns[j].engine = "fits"
    BY <1>1, <2>2, SelectorFacts
  <2>4. x <= Total(PatternWorks(S), Tried(S))
    BY <1>1, <2>2, <2>3, TriedCosts DEF Before
  <2>5. Total(PatternWorks(S), Tried(S)) \in Nat /\ Total(PatternWorks(S), Tried(S)) <= Works[Current]
    BY <2>2, PatternedIs
  <2> QED
    BY <1>1, <2>4, <2>5
<1>6. CASE at \in {"route", "match", "scan", "select"}
  <2> DEFINE p == S.patterns[f.at]
             all == Total(PatternWorks(S), Tried(S))
  <2>1. Trying(at, f, p, x)
    BY <1>6 DEF Progress
  <2>2. /\ S.of = 0 /\ S.kind \notin WholeKinds /\ f.at \in 1..Len(S.patterns)
        /\ \A j \in 1..(f.at - 1) : S.patterns[j].engine = "fits"
    BY <1>1, <2>1, SelectorFacts DEF Trying, Patterned, Found
  <2>3. all \in Nat /\ all <= Works[Current]
    BY <2>2, PatternedIs
  <2>4. f.at \in DOMAIN S.patterns /\ p \in Pattern
    BY <1>1, <2>2, SelectorFacts
  <2> DEFINE before == Before(f.at - 1)
             entry == EntryWork(S, f.at)
             walk == Walk(S, p)
  <2>5. /\ before \in Nat /\ entry \in Nat /\ walk \in Nat /\ p.size \in Nat
        /\ Routes(S, p) => p.size + Total(Widths, Universe(S.kind)) <= entry
        /\ before + entry <= all
        /\ p.engine # "refused" => before + entry + walk <= all
    BY <1>1, <2>2, <2>4, TryingCosts DEF Before
  <2>6. CASE at = "route"
    <3> DEFINE routed == Universe(S.kind) \ f.todo
               total == Total(Widths, Universe(S.kind))
               part == Total(Widths, routed)
    <3>1. x = before + p.size + part /\ Routes(S, p)
      BY <2>1, <2>6 DEF Trying, Routing
    <3>2. part \in Nat /\ total \in Nat /\ part <= total
      <4>1. \A n \in Objects : Widths[n] \in Nat
        BY SelectorConstants DEF Widths
      <4>2. Universe(S.kind) \in SUBSET Objects /\ IsFiniteSet(Universe(S.kind))
        BY <1>1, SelectorFacts, FiniteObjects
      <4> QED
        BY <4>1, <4>2, TotalMonotone
    <3> HIDE DEF before, entry, walk, part, total, all, p
    <3> QED
      BY <1>1, <2>3, <2>5, <3>1, <3>2 DEF total
  <2>7. CASE at = "match"
    <3>1. x = before + entry
      BY <2>1, <2>7 DEF Trying
    <3> HIDE DEF before, entry, all
    <3> QED
      BY <1>1, <2>3, <2>5, <3>1
  <2>8. CASE at = "scan"
    <3> DEFINE seenSoFar == f.visible \ f.todo
               part == Total(Compared(S, p), seenSoFar)
    <3>1. x = before + entry + part /\ p.engine # "refused" /\ ~p.star /\ Scans(S, p) /\ f.visible = Visible(S, p)
      BY <2>1, <2>8 DEF Trying, Scanning
    <3>2. walk = Total(Compared(S, p), Visible(S, p))
      BY <3>1 DEF Walk
    <3>3. IsFiniteSet(Visible(S, p)) /\ \A n \in Visible(S, p) : Compared(S, p)[n] \in Nat
      <4> HIDE DEF p
      <4> QED
        BY <1>1, <2>4, PatternFacts, ComparedKind
    <3>4. part \in Nat /\ part <= walk
      BY <3>1, <3>2, <3>3, TotalMonotone
    <3> HIDE DEF before, entry, all, walk, part, p
    <3> QED
      BY <1>1, <2>3, <2>5, <3>1, <3>4
  <2>9. CASE at = "select"
    <3>1. x = before + entry + walk /\ p.engine # "refused"
      BY <2>1, <2>9 DEF Trying
    <3> HIDE DEF before, entry, all, walk, p
    <3> QED
      BY <1>1, <2>3, <2>5, <3>1
  <2> QED
    BY <1>6, <2>6, <2>7, <2>8, <2>9
<1>7. CASE at = "finish"
  <2>1. Reference[Current] = Filtered(S, f.found, Cardinality(f.candidates), f.unmatched, x)
    BY <1>7 DEF Progress, Finishing
  <2>2. Cardinality(f.candidates) \in Nat
    BY <1>2, FiniteObjects
  <2>3. Filtered(S, f.found, Cardinality(f.candidates), f.unmatched, x).work >= x
    BY <1>1, <1>2, <2>2, FilteredFacts
  <2> QED
    BY <1>1, <2>1, <2>3
<1> QED
  BY <1>3, <1>4, <1>5, <1>6, <1>7

-----------------------------------------------------------------------------
(* How a step of the selector at work keeps the invariant: it goes on, or  *)
(* it returns.                                                             *)
LEMMA SameForest ==
  ASSUME forest' = forest
  PROVE  /\ Reference' = Reference /\ Nodes' = Nodes /\ KindsUsed' = KindsUsed
         /\ Works' = Works /\ Price' = Price
<1>1. Reference' = Reference
  BY DEF Reference
<1>2. Nodes' = Nodes
  BY DEF Nodes
<1>3. KindsUsed' = KindsUsed
  BY <1>2 DEF KindsUsed
<1>4. Works' = Works
  BY <1>1, <1>2 DEF Works
<1>5. Price' = Price
  BY <1>2, <1>3, <1>4 DEF Price
<1> QED
  BY <1>1, <1>2, <1>3, <1>4, <1>5

LEMMA SameCommand ==
  ASSUME forest' = forest, limit' = limit
  PROVE  /\ (Complains <=> Complains') /\ \A all : Reported(all) <=> Reported(all)'
<1>1. Reference' = Reference /\ Nodes' = Nodes /\ Price' = Price
  BY SameForest
<1>2. Complains <=> Complains'
  BY <1>1 DEF Complains
<1> QED
  BY <1>2 DEF Reported

LEMMA SameProgress ==
  ASSUME forest' = forest, cache' = cache, calls' = calls, NEW at, NEW f, NEW x
  PROVE  /\ Progress(at, f, x) <=> Progress(at, f, x)'
         /\ S' = S /\ Current' = Current
<1>1. Current' = Current /\ S' = S /\ Reference' = Reference
  BY SameForest DEF Current, S
<1>2. Source' = Source /\ SourceKind' = SourceKind
  BY <1>1 DEF Source, SourceKind
<1>3. \A done : PartOf(Source, done)' = PartOf(Source, done)
  BY <1>2 DEF PartOf
<1>4. Relating(f, x)' <=> Relating(f, x)
  BY <1>1, <1>2, <1>3 DEF Relating
<1>5. \A last : Before(last)' = Before(last) /\ (Walked(f, last) <=> Walked(f, last)')
  BY <1>1 DEF Before, Walked
<1>6. (\A last : Found(f, last) <=> Found(f, last)') /\ (Patterned(f) <=> Patterned(f)')
  BY <1>1 DEF Found, Patterned
<1>7. Between(f, x)' <=> Between(f, x)
  BY <1>5, <1>6 DEF Between
<1>8. \A p : (Routing(f, p, x) <=> Routing(f, p, x)') /\ (Scanning(f, p, x) <=> Scanning(f, p, x)')
  BY <1>1, <1>5 DEF Routing, Scanning
<1>9. \A p : Trying(at, f, p, x) <=> Trying(at, f, p, x)'
  BY <1>1, <1>5, <1>6, <1>8 DEF Trying
<1>10. Finishing(f, x)' <=> Finishing(f, x)
  BY <1>1 DEF Finishing
<1> QED
  BY <1>1, <1>4, <1>7, <1>9, <1>10 DEF Progress

LEMMA Stays ==
  ASSUME IInv, UNCHANGED <<input, tree, findings>>, UNCHANGED <<cache, calls>>,
         phase \in {"resolve"} \cup Working, calls # <<>>, S.refused = "no",
         NEW at \in Working, NEW f \in Frame, phase' = at, frame' = f, used' \in 0..limit,
         universes' \in SUBSET KindsUsed, universes \subseteq universes',
         S.of = 0 => Key(S.kind) \in universes',
         NEW more \in Nat, Progress(at, f, more),
         ~Cut => used' = Cardinality(seen) + Total(Works, DOMAIN cache) + Total(ScanSizes, universes') + more
  PROVE  IInv'
<1>1. forest' = forest /\ limit' = limit /\ previous' = previous /\ pending' = pending
      /\ seen' = seen /\ ordered' = ordered /\ cache' = cache /\ calls' = calls
  BY DEF input, tree
<1>2. /\ Reference' = Reference /\ Nodes' = Nodes /\ KindsUsed' = KindsUsed
      /\ Works' = Works /\ Price' = Price
  BY <1>1, SameForest
<1>3. S' = S /\ Progress(at, f, more)'
  BY <1>1, SameProgress
<1>4. Cut' <=> Cut
  BY <1>1 DEF Cut, Working
<1>5. Shape'
  <2>1. Recursion'
    BY <1>1, <1>2, <1>3 DEF IInv, Shape, Recursion, Working
  <2> QED
    BY <1>1, <1>2, <2>1 DEF IInv, Shape
<1>6. Materialized'
  <2>1. Materialized
    BY DEF IInv
  <2>2. universes' \subseteq KindsUsed'
    BY <1>2
  <2>3. S'.of = 0 => Key(S'.kind) \in universes'
    BY <1>3
  <2>4. ~Cut' => \A s \in DOMAIN cache' : Needs(forest'.node[s]) => Key(forest'.node[s].kind) \in universes'
    BY <1>1, <1>4, <2>1 DEF Materialized
  <2> QED
    BY <2>2, <2>3, <2>4 DEF Materialized
<1>7. Traversed'
  <2>1. Traversed /\ phase' \notin {"traverse", "report", "done"} /\ phase # "traverse"
    BY DEF IInv, Working
  <2> QED
    BY <1>1, <1>2, <2>1 DEF Traversed, Covered, Refused
<1>8. Answered'
  BY <1>1, <1>2, <1>4 DEF IInv, Answered, AnswersAreExact, Exact
<1>9. Balanced'
  <2>1. AtWork(more)'
    BY <1>3 DEF AtWork
  <2>2. Cut => Price > limit
    BY DEF IInv, Balanced
  <2>3. IF Cut' THEN Price' > limit' ELSE used' = Settled' + more
    BY <1>1, <1>2, <1>4, <2>2 DEF Settled
  <2> QED
    BY <2>1, <2>3 DEF Balanced
<1>10. Verdicts'
  BY <1>1, SameCommand DEF IInv, Verdicts, Working
<1> QED
  BY <1>5, <1>6, <1>7, <1>8, <1>9, <1>10 DEF IInv

LEMMA Returns ==
  ASSUME IInv, UNCHANGED <<input, tree, findings>>, universes' = universes,
         phase \in {"resolve"} \cup Working, calls # <<>>,
         NEW result \in Answers, phase \in Working \/ ~Needs(S) \/ result.error = "work", Return(result), used' \in 0..limit,
         result.error = "work" => Price > limit,
         result.error \notin {"work", "source"} => result = Reference[Current].answer,
         ~Cut /\ result.error # "work" =>
           /\ result = Reference[Current].answer
           /\ used' = Settled + Works[Current]
  PROVE  IInv'
<1> DEFINE c == Current
<1>1. forest' = forest /\ limit' = limit /\ previous' = previous /\ pending' = pending
      /\ seen' = seen /\ ordered' = ordered
  BY DEF input, tree
<1>2. /\ Reference' = Reference /\ Nodes' = Nodes /\ KindsUsed' = KindsUsed
      /\ Works' = Works /\ Price' = Price
  BY <1>1, SameForest
<1>3. /\ calls' = Front(calls) /\ frame' = NoFrame /\ phase' = "resolve"
      /\ cache' = [t \in DOMAIN cache \cup {c} |-> IF t = c THEN result ELSE cache[t]]
  BY DEF Return, Keep
<1>4. c \in Nodes /\ c \notin DOMAIN cache /\ calls \in Seq(Nodes) /\ Len(calls) \in Nat \ {0}
  BY CurrentIs DEF IInv
<1>5. /\ DOMAIN cache' = DOMAIN cache \cup {c} /\ cache'[c] = result
      /\ \A s \in DOMAIN cache : cache'[s] = cache[s]
  BY <1>3, <1>4
<1>6. /\ Cut => Cut'
      /\ Cut' => Cut \/ result.error = "work"
  BY <1>1, <1>3, <1>5 DEF Cut, Working
<1>7. Shape'
  <2>1. calls \in Seq(Nodes \ DOMAIN cache) /\ \A i, j \in DOMAIN calls : i < j => calls[i] < calls[j]
    BY DEF IInv, Shape, Recursion
  <2>2. c = calls[Len(calls)] /\ Front(calls) = SubSeq(calls, 1, Len(calls) - 1)
    BY DEF Current, Last, Front
  <2>3. /\ Front(calls) = [i \in 1..(Len(calls) - 1) |-> calls[i]]
        /\ Len(Front(calls)) = Len(calls) - 1
    <3>1. PICK n \in Nat : n = Len(calls) - 1
      BY <1>4
    <3>2. SubSeq(calls, 1, n) = [i \in 1..n |-> calls[i]]
      BY <1>4, <3>1
    <3>3. Len([i \in 1..n |-> calls[i]]) = n
      BY <3>1
    <3> QED
      BY <2>2, <3>1, <3>2, <3>3
  <2>4. ASSUME NEW i \in 1..(Len(calls) - 1)
        PROVE  calls[i] \in Nodes \ DOMAIN cache /\ calls[i] # c
    <3>1. i \in DOMAIN calls /\ Len(calls) \in DOMAIN calls /\ i < Len(calls)
      BY <1>4
    <3>2. calls[i] \in Nodes /\ c \in Nodes /\ calls[i] < c
      BY <1>4, <2>1, <2>2, <3>1
    <3>3. \A a, b \in Nodes : a < b => a # b
      <4>1. forest \in Forests
        BY DEF IInv, Shape
      <4> QED
        BY <4>1, NodesAre
    <3> QED
      BY <2>1, <3>1, <3>2, <3>3
  <2>5. Front(calls) \in Seq(Nodes \ (DOMAIN cache \cup {c}))
    <3> DEFINE few == [i \in 1..(Len(calls) - 1) |-> calls[i]]
               free == Nodes \ (DOMAIN cache \cup {c})
    <3>1. Len(calls) - 1 \in Nat /\ few \in [1..(Len(calls) - 1) -> free]
      BY <1>4, <2>4
    <3>2. few \in Seq(free)
      <4> HIDE DEF few, free
      <4> QED
        BY <3>1
    <3> QED
      BY <2>3, <3>2
  <2>6. \A i, j \in DOMAIN Front(calls) : i < j => Front(calls)[i] < Front(calls)[j]
    BY <1>4, <2>1, <2>3
  <2>7. Recursion'
    BY <1>2, <1>3, <1>5, <2>5, <2>6 DEF Recursion, Working
  <2>8. NoFrame \in Frame
    <3>1. EmptyBag \in BagsOfObjects
      BY SetBag DEF EmptyBag
    <3> QED
      BY <3>1 DEF NoFrame, Frame
  <2>9. /\ forest \in Forests /\ limit \in Limits /\ DOMAIN cache \subseteq Nodes
        /\ \A s \in DOMAIN cache : cache[s] \in Answers
    BY DEF IInv, Shape
  <2>10. DOMAIN cache' \subseteq Nodes' /\ \A s \in DOMAIN cache' : cache'[s] \in Answers
    BY <1>2, <1>4, <1>5, <2>9
  <2>11. used' \in 0..limit' /\ frame' \in Frame /\ phase' \in {"traverse", "resolve", "report", "done"} \cup Working
    BY <1>1, <1>3, <2>8
  <2> QED
    BY <1>1, <2>7, <2>9, <2>10, <2>11 DEF Shape
<1>8. Materialized'
  <2>1. Materialized
    BY DEF IInv
  <2>2. phase' \notin Working
    BY <1>3 DEF Working
  <2>3. result.error # "work" /\ Needs(forest.node[c]) => Key(forest.node[c].kind) \in universes
    BY <2>1 DEF Materialized, Needs, S
  <2>4. ~Cut' => result.error # "work"
    BY <1>5 DEF Cut
  <2> QED
    BY <1>1, <1>2, <1>5, <1>6, <2>1, <2>2, <2>3, <2>4 DEF Materialized
<1>9. Traversed'
  <2>1. Traversed /\ phase # "traverse"
    BY DEF IInv, Working
  <2>2. Covered' <=> Covered
    BY <1>1 DEF Covered
  <2>3. Refused => Refused'
    <3>1. \A s \in DOMAIN cache : s \in DOMAIN cache' /\ cache'[s] = cache[s]
      BY <1>5
    <3> QED
      BY <1>1, <3>1 DEF Refused
  <2>4. DOMAIN cache \subseteq DOMAIN cache'
    BY <1>5
  <2> QED
    BY <1>1, <1>2, <1>3, <2>1, <2>2, <2>3, <2>4 DEF Traversed
<1>10. Answered'
  <2>1. AnswersAreExact'
    BY <1>2, <1>5 DEF IInv, Answered, AnswersAreExact
  <2>2. ~Cut' => \A s \in DOMAIN cache' : cache'[s] = Reference[s].answer
    <3>1. ~Cut' => result.error # "work"
      BY <1>5 DEF Cut
    <3> QED
      BY <1>5, <1>6, <3>1 DEF IInv, Answered, Exact
  <2> QED
    BY <1>2, <2>1, <2>2 DEF Answered, Exact
<1>11. Balanced'
  <2>1. AtWork(0)'
    BY <1>3 DEF AtWork, Working
  <2>2. Cut => Price > limit
    BY DEF IInv, Balanced
  <2>3. CASE Cut'
    BY <1>1, <1>2, <1>6, <2>1, <2>2, <2>3 DEF Balanced
  <2>4. CASE ~Cut'
    <3>1. ~Cut /\ result.error # "work"
      BY <1>5, <1>6, <2>4 DEF Cut
    <3>2. used' = Settled + Works[c]
      BY <3>1
    <3>3. /\ Total(Works, DOMAIN cache \cup {c}) = Total(Works, DOMAIN cache) + Works[c]
          /\ Cardinality(seen) \in Nat /\ Total(Works, DOMAIN cache) \in Nat
          /\ Total(ScanSizes, universes) \in Nat
      BY CurrentInPrice DEF IInv, Traversed, Materialized
    <3>4. Works[c] \in Nat
      BY CurrentIs DEF IInv
    <3>5. used' = Settled'
      BY <1>1, <1>2, <1>5, <3>2, <3>3, <3>4 DEF Settled
    <3>6. used' \in Nat /\ used' = Settled' + 0
      <4>1. limit \in Nat
        BY SelectorConstants DEF IInv, Shape
      <4>2. PICK u : u = used'
        OBVIOUS
      <4>3. u \in 0..limit
        BY <4>2
      <4>4. u \in Nat /\ u = u + 0
        BY <4>1, <4>3
      <4> QED
        BY <3>5, <4>2, <4>4
    <3> QED
      BY <2>1, <2>4, <3>6 DEF Balanced
  <2> QED
    BY <2>3, <2>4
<1>12. Verdicts'
  BY <1>1, <1>3, SameCommand DEF IInv, Verdicts
<1> QED
  BY <1>7, <1>8, <1>9, <1>10, <1>11, <1>12 DEF IInv

(* A charge for what is part of the bill, made by a selector at work.      *)
LEMMA Charges ==
  ASSUME IInv, UNCHANGED <<input, tree, findings>>, universes' = universes,
         phase \in {"resolve"} \cup Working, calls # <<>>, S.refused = "no",
         phase \in Working \/ ~Needs(S),
         S.of = 0 => Key(S.kind) \in universes,
         NEW amounts \in Seq(Nat), NEW next \in Working, NEW f \in Frame, Charge(amounts, next, f),
         NEW total, total = Total(amounts, 1..Len(amounts)),
         NEW spent \in Nat, ~Cut => used = Settled + spent, Progress(next, f, spent + total)
  PROVE  IInv'
<1>1. Shape /\ Materialized /\ Traversed /\ Answered /\ limit \in Nat /\ used \in 0..limit
  BY SelectorConstants DEF IInv, Shape
<1>2. /\ Pay(amounts).used \in 0..limit /\ total \in Nat
      /\ Pay(amounts).ok <=> used + total <= limit
      /\ Pay(amounts).ok => Pay(amounts).used = used + total
  BY <1>1, Paid
<1>3. used' = Pay(amounts).used
  BY DEF Charge
<1>4. PICK more \in Nat : more = spent + total
  BY <1>2
<1>5. more <= Works[Current] /\ Works[Current] \in Nat
  BY <1>1, <1>4, CostsNoMore, CurrentIs
<1>6. /\ Cardinality(seen) + Total(Works, DOMAIN cache) + Total(ScanSizes, universes) + Works[Current] <= Price
      /\ Cardinality(seen) \in Nat /\ Total(Works, DOMAIN cache) \in Nat /\ Total(ScanSizes, universes) \in Nat
  BY <1>1, CurrentInPrice DEF Traversed, Materialized
<1>7. CASE Pay(amounts).ok
  <2>1. phase' = next /\ frame' = f /\ UNCHANGED <<cache, calls>> /\ used' = used + total
    BY <1>2, <1>3, <1>7 DEF Charge, Goto
  <2>2. ~Cut => used' = Cardinality(seen) + Total(Works, DOMAIN cache) + Total(ScanSizes, universes') + more
    BY <1>2, <1>4, <1>6, <2>1 DEF Settled
  <2>3. universes' \in SUBSET KindsUsed /\ universes \subseteq universes' /\ used' \in 0..limit
    BY <1>1, <1>2, <1>3 DEF Materialized
  <2>4. Progress(next, f, more)
    BY <1>4
  <2> QED
    BY <2>1, <2>2, <2>3, <2>4, Stays
<1>8. CASE ~Pay(amounts).ok
  <2>1. Return(Unresolved("work"))
    BY <1>8 DEF Charge
  <2>2. used' \in 0..limit
    BY <1>2, <1>3
  <2>3. Price > limit
    <3>1. CASE Cut
      BY <3>1 DEF IInv, Balanced
    <3>2. CASE ~Cut
      <4>1. used = Settled + spent /\ used + total > limit
        BY <1>1, <1>2, <1>8, <3>2
      <4>2. Price \in Nat
        BY <1>1, PriceIs DEF Shape
      <4>3. Settled + spent + total <= Price
        BY <1>2, <1>4, <1>5, <1>6, <4>2 DEF Settled
      <4>4. Settled \in Nat
        BY <1>6 DEF Settled
      <4> QED
        BY <1>1, <1>2, <4>1, <4>2, <4>3, <4>4
    <3> QED
      BY <3>1, <3>2
  <2>4. Unresolved("work") \in Answers /\ Unresolved("work").error = "work"
    BY FailedKind DEF Errors, Unresolved, Answer
  <2> QED
    BY <2>1, <2>2, <2>3, <2>4, Returns
<1> QED
  BY <1>7, <1>8

-----------------------------------------------------------------------------
(* The steps of a selector at work.                                        *)
LEMMA AtWorkIs ==
  ASSUME IInv, phase \in Working
  PROVE  /\ calls # <<>> /\ S.refused = "no" /\ (S.of = 0 => Key(S.kind) \in universes)
         /\ S \in Selector /\ S.kind \in Kinds /\ frame \in Frame /\ Shape /\ Answered
         /\ \E spent \in Nat : Progress(phase, frame, spent) /\ (~Cut => used = Settled + spent)
<1>1. calls # <<>> /\ S.refused = "no"
  BY DEF IInv, Shape, Recursion
<1>2. S.of = 0 => Key(S.kind) \in universes
  BY DEF IInv, Materialized
<1>3. S \in Selector /\ S.kind \in Kinds
  BY <1>1, CurrentIs, SelectorFacts DEF IInv
<1>4. \E spent \in Nat : Progress(phase, frame, spent) /\ (~Cut => used = Settled + spent)
  BY DEF IInv, Balanced, AtWork
<1> QED
  BY <1>1, <1>2, <1>3, <1>4 DEF IInv, Shape

(* Such a step, if what it charges takes the selector further.             *)
LEMMA Goes ==
  ASSUME IInv, UNCHANGED <<input, tree, findings>>, universes' = universes, phase \in Working,
         NEW amounts \in Seq(Nat), NEW next \in Working, NEW f \in Frame, Charge(amounts, next, f),
         NEW total, total = Total(amounts, 1..Len(amounts)),
         \A spent \in Nat : Progress(phase, frame, spent) => Progress(next, f, spent + total)
  PROVE  IInv'
<1>1. PICK spent \in Nat : Progress(phase, frame, spent) /\ (~Cut => used = Settled + spent)
  BY AtWorkIs
<1>2. Progress(next, f, spent + total)
  BY <1>1
<1>3. calls # <<>> /\ S.refused = "no" /\ (S.of = 0 => Key(S.kind) \in universes)
  BY AtWorkIs
<1>4. phase \in {"resolve"} \cup Working /\ (phase \in Working \/ ~Needs(S))
  OBVIOUS
<1> QED
  BY <1>1, <1>2, <1>3, <1>4, Charges

LEMMA RelationKind ==
  ASSUME NEW kind \in Kinds, NEW from, from \in SourceKinds(kind), NEW n, NEW count \in Nat
  PROVE  Relation(kind, from, n, count) \in BagsOfObjects
<1> DEFINE b == Relation(kind, from, n, count)
<1>1. /\ DOMAIN b = Ends(kind, from, n) /\ b = [o \in DOMAIN b |-> b[o]]
      /\ \A o \in DOMAIN b : b[o] = count * Cardinality(Paths(kind, from, n, o))
  BY DEF Relation, Ends, Paths
<1>2. DOMAIN b \subseteq Objects
  BY <1>1, EdgesAre
<1>3. \A o \in DOMAIN b : b[o] \in Nat
  <2> TAKE o \in DOMAIN b
  <2>1. Cardinality(Paths(kind, from, n, o)) \in Nat
    BY EdgesAre
  <2>2. \A x, y \in Nat : x * y \in Nat
    OBVIOUS
  <2> HIDE DEF b
  <2> QED
    BY <1>1, <2>1, <2>2
<1> HIDE DEF b
<1>4. b \in BagsOfObjects
  BY <1>1, <1>2, <1>3, BagKind
<1> QED
  BY <1>4 DEF b

LEMMA RelateKeeps ==
  ASSUME IInv, NEW n \in Objects, Relate(n)
  PROVE  IInv'
<1> DEFINE edges == Edges(S.kind, SourceKind, n)
           new == Relation(S.kind, SourceKind, n, Source[n])
<1>1. /\ phase = "relate" /\ UNCHANGED <<input, tree, findings>> /\ universes' = universes /\ n \in frame.todo
      /\ Charge(<<Approach(S.kind, SourceKind, n)>> \o [i \in 1..Cardinality(edges) |-> 1], "relate",
                [frame EXCEPT !.todo = @ \ {n}, !.found = @ (+) new])
  BY DEF Relate, ResolverStep, SourceKind, Source
<1>2. phase \in Working /\ "relate" \in Working
  BY <1>1 DEF Working
<1>3. /\ S \in Selector /\ S.kind \in Kinds /\ frame \in Frame
      /\ \E spent \in Nat : Progress(phase, frame, spent)
      /\ Shape /\ Answered /\ calls # <<>> /\ S.refused = "no"
  BY <1>2, AtWorkIs
<1>4. PICK x \in Nat : Relating(frame, x)
  BY <1>1, <1>3 DEF Progress
<1>5. /\ SourceKind \in SourceKinds(S.kind) /\ frame.todo \subseteq DOMAIN Source
      /\ Source \in BagsOfObjects
  <2>1. /\ SourceKind \in SourceKinds(S.kind) /\ frame.todo \subseteq DOMAIN Source
        /\ S.of # 0 /\ S.of \in DOMAIN cache /\ cache[S.of].error = "none"
    BY <1>4 DEF Relating
  <2> QED
    BY <1>3, <2>1, SourceIs
<1>6. PICK a \in Nat, m \in Nat : a = Approach(S.kind, SourceKind, n) /\ m = Cardinality(edges)
  BY <1>3, <1>5, EdgesAre
<1>7. PICK amounts \in Seq(Nat) :
        /\ amounts = <<a>> \o [i \in 1..m |-> 1]
        /\ Total(amounts, 1..Len(amounts)) = a + m
  BY TotalOfMany
<1>8. new \in BagsOfObjects
  <2>1. Source[n] \in Nat
    BY <1>1, <1>5, BagFacts
  <2> QED
    BY <1>3, <1>5, <2>1, RelationKind
<1>9. PICK f : f = [frame EXCEPT !.todo = @ \ {n}, !.found = @ (+) new]
  OBVIOUS
<1>10. /\ f \in Frame /\ f.todo = frame.todo \ {n} /\ f.found = frame.found (+) new
       /\ f.unmatched = frame.unmatched
  <2>1. frame.found (+) new \in BagsOfObjects
    BY <1>3, <1>8, BagSum DEF Frame
  <2> HIDE DEF new
  <2> QED
    BY <1>3, <1>9, <2>1 DEF Frame
<1>11. Charge(amounts, "relate", f)
  BY <1>1, <1>6, <1>7, <1>9
<1>12. ASSUME NEW spent \in Nat, Relating(frame, spent) PROVE Relating(f, spent + (a + m))
  <2> DEFINE done == DOMAIN Source \ frame.todo
             all == DOMAIN Source \ f.todo
             works == RelationWorks(S.kind, SourceKind)
             ports == IF S.kind = "ports" THEN Cardinality(Ports) ELSE 0
  <2>1. all = done \cup {n} /\ n \notin done /\ done \subseteq DOMAIN Source /\ n \in DOMAIN Source
    BY <1>1, <1>5, <1>10
  <2>2. f.found = Related(S.kind, SourceKind, PartOf(Source, all))
    <3>1. frame.found = Related(S.kind, SourceKind, PartOf(Source, done))
      BY <1>12 DEF Relating
    <3>2. Related(S.kind, SourceKind, PartOf(Source, done \cup {n})) = frame.found (+) new
      <4>1. /\ done \in SUBSET DOMAIN Source /\ n \in DOMAIN Source \ done
            /\ S.kind \in Kinds /\ SourceKind \in SourceKinds(S.kind) /\ Source \in BagsOfObjects
        BY <1>3, <1>5, <2>1
      <4> HIDE DEF done
      <4>2. Related(S.kind, SourceKind, PartOf(Source, done \cup {n}))
              = Related(S.kind, SourceKind, PartOf(Source, done)) (+) Relation(S.kind, SourceKind, n, Source[n])
        BY <4>1, RelatedMore
      <4> QED
        BY <3>1, <4>2
    <3> QED
      BY <1>10, <2>1, <3>2
  <2>3. Total(works, all) = Total(works, done) + (a + m) /\ Total(works, done) \in Nat
    <3>1. DOMAIN Source \subseteq Objects /\ IsFiniteSet(DOMAIN Source)
      BY <1>5, BagFacts
    <3>2. works[n] = a + m /\ \A i \in DOMAIN Source : works[i] \in Nat
      BY <1>3, <1>5, <1>6, <3>1, RelationWorksKind
    <3>3. IsFiniteSet(done) /\ (\A i \in done : works[i] \in Nat) /\ works[n] \in Nat
      BY <2>1, <3>1, <3>2, FS_Subset
    <3> HIDE DEF works, done, all
    <3>4. Total(works, done \cup {n}) = Total(works, done) + works[n] /\ Total(works, done) \in Nat
      BY <2>1, <3>3, TotalMore
    <3> QED
      BY <2>1, <3>2, <3>4
  <2>4. spent = Cardinality(DOMAIN Source) + ports + Total(works, done)
    BY <1>12 DEF Relating
  <2>5. Cardinality(DOMAIN Source) \in Nat /\ ports \in Nat
    BY <1>5, BagFacts, FiniteObjects DEF Objects
  <2>6. spent + (a + m) = Cardinality(DOMAIN Source) + ports + Total(works, all)
    <3> HIDE DEF works, done, all, ports
    <3> QED
      BY <2>3, <2>4, <2>5
  <2>7. f.todo \subseteq DOMAIN Source /\ f.unmatched = 0
    BY <1>10, <1>12 DEF Relating
  <2> QED
    BY <1>12, <2>2, <2>6, <2>7 DEF Relating
<1>13. \A spent \in Nat : Progress(phase, frame, spent) => Progress("relate", f, spent + (a + m))
  BY <1>1, <1>12 DEF Progress
<1> QED
  BY <1>1, <1>2, <1>7, <1>10, <1>11, <1>13, Goes

LEMMA EndRelationKeeps ==
  ASSUME IInv, EndRelation
  PROVE  IInv'
<1> DEFINE count == Cardinality(DOMAIN frame.found)
<1>1. /\ phase = "relate" /\ UNCHANGED <<input, tree, findings>> /\ universes' = universes /\ frame.todo = {}
      /\ Charge(<<2 * count>>, "finish", [frame EXCEPT !.candidates = DOMAIN frame.found])
  BY DEF EndRelation, ResolverStep
<1>2. phase \in Working /\ "finish" \in Working
  BY <1>1 DEF Working
<1>3. /\ S \in Selector /\ S.kind \in Kinds /\ frame \in Frame
      /\ \E spent \in Nat : Progress(phase, frame, spent)
      /\ Shape /\ Answered /\ calls # <<>> /\ S.refused = "no"
  BY <1>2, AtWorkIs
<1>4. DOMAIN frame.found \subseteq Objects /\ count \in Nat
  BY <1>3, BagFacts DEF Frame
<1>5. PICK f : f = [frame EXCEPT !.candidates = DOMAIN frame.found]
  OBVIOUS
<1>6. /\ f \in Frame /\ f.candidates = DOMAIN frame.found /\ f.found = frame.found
      /\ f.unmatched = frame.unmatched
  BY <1>3, <1>4, <1>5 DEF Frame
<1>7. PICK m \in Nat : m = 2 * count
  BY <1>4
<1>8. PICK amounts \in Seq(Nat) : amounts = <<m>> /\ Total(amounts, 1..Len(amounts)) = m
  BY TotalOfOne
<1>9. Charge(amounts, "finish", f)
  BY <1>1, <1>5, <1>7, <1>8
<1>10. ASSUME NEW spent \in Nat, Relating(frame, spent) PROVE Finishing(f, spent + m)
  <2> DEFINE related == Related(S.kind, SourceKind, Source)
             ports == IF S.kind = "ports" THEN Cardinality(Ports) ELSE 0
             works == Total(RelationWorks(S.kind, SourceKind), DOMAIN Source)
  <2>1. /\ SourceKind \in SourceKinds(S.kind) /\ Source \in BagsOfObjects
        /\ Reference[Current] = Filtered(S, related, Cardinality(DOMAIN related), 0,
                                  RelationWork(S.kind, SourceKind, Source))
    <3>1. /\ SourceKind \in SourceKinds(S.kind)
          /\ S.of # 0 /\ S.of \in DOMAIN cache /\ cache[S.of].error = "none"
      BY <1>10 DEF Relating
    <3> QED
      BY <1>3, <3>1, SourceIs
  <2>2. DOMAIN Source \ frame.todo = DOMAIN Source
    BY <1>1
  <2>3. PartOf(Source, DOMAIN Source) = Source
    BY <2>1, BagFacts DEF PartOf
  <2>4. frame.found = related /\ frame.unmatched = 0
    BY <1>10, <2>2, <2>3 DEF Relating
  <2>5. spent = Cardinality(DOMAIN Source) + ports + works
    BY <1>10, <2>2 DEF Relating
  <2>6. RelationWork(S.kind, SourceKind, Source) = spent + m
    BY <1>7, <2>4, <2>5 DEF RelationWork
  <2> QED
    BY <1>6, <2>1, <2>4, <2>6 DEF Finishing
<1>11. \A spent \in Nat : Progress(phase, frame, spent) => Progress("finish", f, spent + m)
  BY <1>1, <1>10 DEF Progress
<1> QED
  BY <1>1, <1>2, <1>6, <1>8, <1>9, <1>11, Goes

LEMMA NoFrameIs ==
  /\ NoFrame \in Frame /\ EmptyBag \in BagsOfObjects /\ DOMAIN EmptyBag = {}
<1>1. EmptyBag \in BagsOfObjects /\ DOMAIN EmptyBag = {}
  BY SetBag DEF EmptyBag
<1> QED
  BY <1>1 DEF NoFrame, Frame

LEMMA TakeUniverseKeeps ==
  ASSUME IInv, TakeUniverse
  PROVE  IInv'
<1> DEFINE all == Universe(S.kind)
           start == [NoFrame EXCEPT !.candidates = all]
<1>1. /\ phase = "universe" /\ UNCHANGED <<input, tree, findings>> /\ universes' = universes
      /\ S.kind \in WholeKinds => Charge(<<2 * Cardinality(all)>>, "finish", [start EXCEPT !.found = SetToBag(all)])
      /\ S.kind \notin WholeKinds => Charge(<<>>, "pattern", start)
  BY DEF TakeUniverse, ResolverStep
<1>2. phase \in Working /\ "finish" \in Working /\ "pattern" \in Working
  BY <1>1 DEF Working
<1>3. S \in Selector /\ S.refused = "no" /\ calls # <<>> /\ all \in SUBSET Objects /\ Shape
  <2>1. S \in Selector /\ S.refused = "no" /\ calls # <<>> /\ Shape
    BY <1>2, AtWorkIs
  <2> QED
    BY <2>1, SelectorFacts
<1>4. \A spent \in Nat : Progress(phase, frame, spent) => S.of = 0 /\ spent = 0
  BY <1>1 DEF Progress
<1>5. S.of = 0
  BY <1>2, <1>4, AtWorkIs
<1>6. PICK base \in Frame :
        /\ base = start /\ base.candidates = all /\ base.found = EmptyBag /\ base.at = 0
        /\ base.everything = FALSE /\ base.searched = {} /\ base.unmatched = 0
  <2>1. PICK base : base = start
    OBVIOUS
  <2>2. /\ base.candidates = all /\ base.found = EmptyBag /\ base.at = 0 /\ base.todo = {}
        /\ base.everything = FALSE /\ base.searched = {} /\ base.unmatched = 0 /\ base.visible = {}
        /\ base = [candidates |-> all, found |-> EmptyBag, at |-> 0, todo |-> {}, visible |-> {},
                    everything |-> FALSE, searched |-> {}, unmatched |-> 0]
    BY <2>1 DEF NoFrame
  <2> HIDE DEF all, start
  <2>3. base \in Frame
    BY <1>3, <2>2, NoFrameIs DEF Frame
  <2> QED
    BY <2>1, <2>2, <2>3
<1>7. CASE S.kind \in WholeKinds
  <2>1. SetToBag(all) \in BagsOfObjects /\ Cardinality(all) \in Nat
    BY <1>3, SetBag, FiniteObjects
  <2>2. PICK f \in Frame :
          /\ f = [base EXCEPT !.found = SetToBag(all)] /\ f.candidates = all
          /\ f.found = SetToBag(all) /\ f.unmatched = 0
    <3>1. PICK f : f = [base EXCEPT !.found = SetToBag(all)]
      OBVIOUS
    <3>2. f \in Frame /\ f.candidates = base.candidates /\ f.found = SetToBag(all) /\ f.unmatched = base.unmatched
      <4> HIDE DEF all, start
      <4> QED
        BY <2>1, <3>1 DEF Frame
    <3> QED
      BY <1>6, <3>1, <3>2
  <2>3. PICK m \in Nat : m = 2 * Cardinality(all)
    BY <2>1
  <2>4. PICK amounts \in Seq(Nat) : amounts = <<m>> /\ Total(amounts, 1..Len(amounts)) = m
    BY TotalOfOne
  <2>5. Charge(amounts, "finish", f)
    BY <1>1, <1>6, <1>7, <2>2, <2>3, <2>4
  <2>6. Reference[Current] = Filtered(S, SetToBag(all), Cardinality(all), 0, 2 * Cardinality(all))
    BY <1>3, <1>5, <1>7, CurrentIs DEF MeaningAt, MeaningOfSelected, S
  <2>7. Finishing(f, 0 + m)
    BY <2>2, <2>3, <2>6 DEF Finishing
  <2>8. \A spent \in Nat : Progress(phase, frame, spent) => Progress("finish", f, spent + m)
    BY <1>4, <2>7 DEF Progress
  <2> QED
    BY <1>1, <1>2, <2>4, <2>5, <2>8, Goes
<1>8. CASE S.kind \notin WholeKinds
  <2>1. PICK amounts \in Seq(Nat) : amounts = <<>> /\ Total(amounts, 1..Len(amounts)) = 0
    BY TotalOfNone
  <2>2. Charge(amounts, "pattern", base)
    BY <1>1, <1>6, <1>8, <2>1
  <2>3. PICK none : none = 1..0
    OBVIOUS
  <2>4. none = {}
    BY <2>3
  <2>5. /\ Matched(S, none) = EmptyBag /\ Unmatched(S, none) = 0 /\ Searched(S, none) = {}
        /\ Total(PatternWorks(S), none) = 0
    <3>1. \A n : Matching(S, {}, n) = {}
      BY DEF Matching
    <3>2. Matched(S, {}) = EmptyBag
      BY <3>1 DEF Matched, EmptyBag, SetToBag
    <3>3. Unmatched(S, {}) = 0 /\ Searched(S, {}) = {} /\ Total(PatternWorks(S), {}) = 0
      BY FS_EmptySet, TotalEmpty DEF Unmatched, Searched
    <3> QED
      BY <2>4, <3>2, <3>3
  <2>6. 0 \in 0..Len(S.patterns)
    BY <1>3, SelectorFacts
  <2>7. Between(base, 0)
    <3>1. Patterned(base)
      BY <1>5, <1>6, <1>8, <2>3, <2>4, <2>6 DEF Patterned
    <3>2. Found(base, 0) /\ Walked(base, 0) /\ Before(0) = 0
      BY <1>6, <2>3, <2>4, <2>5 DEF Found, Walked, Before
    <3> QED
      BY <1>6, <3>1, <3>2 DEF Between
  <2>8. \A spent \in Nat : Progress(phase, frame, spent) => Progress("pattern", base, spent + 0)
    BY <1>4, <2>7 DEF Progress
  <2> QED
    BY <1>1, <1>2, <2>1, <2>2, <2>8, Goes
<1> QED
  BY <1>7, <1>8

-----------------------------------------------------------------------------
(* The steps of a selector at its patterns.                                *)
Attempts == {"route", "match", "scan", "select"}

LEMMA EntryIs ==
  ASSUME NEW t \in Selector, NEW i \in DOMAIN t.patterns
  PROVE  LET p == t.patterns[i]
             routed == \A j \in 1..i : Routes(t, t.patterns[j])
         IN  /\ routed => EntryWork(t, i) = p.size + Total(Widths, Universe(t.kind)) + Cardinality(Visible(t, p))
             /\ ~routed /\ Routes(t, p) => EntryWork(t, i) = p.size + Total(Widths, Universe(t.kind))
             /\ ~Routes(t, p) => EntryWork(t, i) = p.size
             /\ Total(Widths, Universe(t.kind)) \in Nat /\ Cardinality(Visible(t, p)) \in Nat /\ p.size \in Nat
<1> DEFINE p == t.patterns[i]
           routed == \A j \in 1..i : Routes(t, t.patterns[j])
           total == Total(Widths, Universe(t.kind))
           card == Cardinality(Visible(t, p))
<1>1. p \in Pattern /\ i \in 1..i /\ Universe(t.kind) \in SUBSET Objects
  BY SelectorFacts
<1>2. EntryWork(t, i) = p.size + (IF Routes(t, p) THEN total ELSE 0) + (IF routed THEN card ELSE 0)
  BY DEF EntryWork, Widths
<1>3. routed => Routes(t, p)
  BY <1>1
<1>4. total \in Nat
  <2>1. \A n \in Objects : Widths[n] \in Nat
    BY SelectorConstants DEF Widths
  <2>2. IsFiniteSet(Universe(t.kind))
    BY <1>1, FiniteObjects
  <2> QED
    BY <1>1, <2>1, <2>2, TotalMonotone
<1>5. card \in Nat /\ p.size \in Nat
  <2> HIDE DEF p
  <2> QED
    BY <1>1, PatternFacts
<1> HIDE DEF p, routed, total, card
<1>6. /\ routed => EntryWork(t, i) = p.size + total + card
      /\ ~routed /\ Routes(t, p) => EntryWork(t, i) = p.size + total
      /\ ~Routes(t, p) => EntryWork(t, i) = p.size
  BY <1>2, <1>3, <1>4, <1>5
<1> QED
  BY <1>4, <1>5, <1>6 DEF p, routed, total, card

LEMMA TryingIs ==
  ASSUME IInv, phase \in Attempts
  PROVE  /\ phase \in Working /\ S \in Selector /\ frame \in Frame
         /\ frame.at \in DOMAIN S.patterns /\ frame.at \in Nat \ {0} /\ P \in Pattern
         /\ S.of = 0 /\ S.kind \notin WholeKinds /\ S.kind \in Kinds
         /\ \A j \in 1..(frame.at - 1) : S.patterns[j].engine = "fits"
         /\ \A spent : Progress(phase, frame, spent) <=> Trying(phase, frame, P, spent)
         /\ \E spent \in Nat : Trying(phase, frame, P, spent)
         /\ Before(frame.at - 1) \in Nat
<1>1. phase \in Working
  BY DEF Attempts, Working
<1>2. S \in Selector /\ S.kind \in Kinds /\ frame \in Frame /\ \E spent \in Nat : Progress(phase, frame, spent)
  BY <1>1, AtWorkIs
<1>3. \A spent : Progress(phase, frame, spent) <=> Trying(phase, frame, P, spent)
  BY DEF Progress, P, Attempts
<1>4. PICK x \in Nat : Trying(phase, frame, P, x)
  BY <1>2, <1>3
<1>5. /\ S.of = 0 /\ S.kind \notin WholeKinds /\ frame.at \in 0..Len(S.patterns) /\ frame.at > 0
      /\ \A j \in 1..(frame.at - 1) : S.patterns[j].engine = "fits"
  BY <1>4 DEF Trying, Patterned, Found
<1>6. frame.at \in DOMAIN S.patterns /\ frame.at \in Nat \ {0}
  BY <1>2, <1>5, SelectorFacts
<1>7. P \in Pattern
  BY <1>2, <1>6, SelectorFacts DEF P
<1>8. Before(frame.at - 1) \in Nat
  BY <1>2, <1>6, PatternsBefore DEF Before
<1> QED
  BY <1>1, <1>2, <1>3, <1>4, <1>5, <1>6, <1>7, <1>8

LEMMA TakePatternKeeps ==
  ASSUME IInv, TakePattern
  PROVE  IInv'
<1> DEFINE i == frame.at + 1
           p == S.patterns[i]
           routed == [frame EXCEPT !.at = i, !.todo = frame.candidates, !.visible = {}]
           open == [frame EXCEPT !.at = i, !.visible = frame.candidates, !.everything = TRUE]
<1>1. /\ phase = "pattern" /\ UNCHANGED <<input, tree, findings>> /\ universes' = universes
      /\ frame.at < Len(S.patterns)
      /\ Routes(S, p) => Charge(<<p.size>>, "route", routed)
      /\ ~Routes(S, p) => Charge(<<p.size>>, "match", open)
  BY DEF TakePattern, ResolverStep
<1>2. phase \in Working /\ "route" \in Working /\ "match" \in Working
  BY <1>1 DEF Working
<1>3. /\ S \in Selector /\ S.kind \in Kinds /\ frame \in Frame
      /\ \E spent \in Nat : Progress(phase, frame, spent)
  BY <1>2, AtWorkIs
<1>4. \A spent : Progress(phase, frame, spent) => Between(frame, spent)
  BY <1>1 DEF Progress
<1>5. /\ S.of = 0 /\ S.kind \notin WholeKinds /\ frame.candidates = Universe(S.kind)
      /\ frame.everything <=> \E j \in 1..frame.at : ~Routes(S, S.patterns[j])
      /\ Found(frame, frame.at) /\ Walked(frame, frame.at)
  BY <1>3, <1>4 DEF Between, Patterned, Found
<1>6. /\ i \in DOMAIN S.patterns /\ i \in Nat \ {0} /\ i - 1 = frame.at /\ p \in Pattern
      /\ i \in 0..Len(S.patterns)
  <2>1. frame.at \in Nat
    BY <1>3 DEF Frame
  <2>2. i \in DOMAIN S.patterns /\ i \in Nat \ {0} /\ i - 1 = frame.at /\ i \in 0..Len(S.patterns)
    BY <1>1, <1>3, <2>1, SelectorFacts
  <2> QED
    BY <1>3, <2>2, SelectorFacts
<1>7. p.size \in Nat
  BY <1>6 DEF Pattern
<1>8. PICK amounts \in Seq(Nat) : amounts = <<p.size>> /\ Total(amounts, 1..Len(amounts)) = p.size
  BY <1>7, TotalOfOne
<1>9. 1..i = 1..frame.at \cup {i}
  BY <1>6
<1>10. PICK k : k = i
  OBVIOUS
<1> HIDE DEF i
<1>11. CASE Routes(S, p)
  <2>1. PICK f : f = routed
    OBVIOUS
  <2>2. /\ f \in Frame /\ f.at = i /\ f.todo = frame.candidates /\ f.visible = {}
        /\ f.everything = frame.everything /\ f.candidates = frame.candidates /\ f.found = frame.found
        /\ f.searched = frame.searched /\ f.unmatched = frame.unmatched
    BY <1>3, <1>6, <2>1 DEF Frame
  <2>3. Patterned(f)
    BY <1>5, <1>6, <1>9, <1>11, <2>2 DEF Patterned
  <2>4. Found(f, f.at - 1) /\ Walked(f, f.at - 1)
    BY <1>5, <1>6, <2>2 DEF Found, Walked
  <2>5. ASSUME NEW spent \in Nat, Between(frame, spent) PROVE Trying("route", f, p, spent + p.size)
    <3>1. spent = Before(f.at - 1)
      BY <1>6, <2>2, <2>5 DEF Between
    <3>2. Universe(S.kind) \ f.todo = {}
      BY <1>5, <2>2
    <3>3. Total(Widths, {}) = 0
      BY TotalEmpty
    <3>4. spent + p.size = Before(f.at - 1) + p.size + Total(Widths, {})
      BY <1>7, <2>5, <3>1, <3>3
    <3>5. Routing(f, p, spent + p.size)
      BY <1>5, <1>11, <2>2, <2>4, <3>2, <3>4 DEF Routing
    <3> QED
      BY <1>6, <2>2, <2>3, <2>4, <3>5 DEF Trying
  <2>6. \A spent \in Nat : Progress(phase, frame, spent) => Progress("route", f, spent + p.size)
    BY <1>4, <2>2, <2>5 DEF Progress
  <2>7. Charge(amounts, "route", f)
    BY <1>1, <1>8, <1>11, <2>1
  <2> QED
    BY <1>1, <1>2, <1>8, <2>2, <2>6, <2>7, Goes
<1>12. CASE ~Routes(S, p)
  <2>1. PICK f : f = open
    OBVIOUS
  <2>2. /\ f \in Frame /\ f.at = i /\ f.visible = frame.candidates
        /\ f.everything = TRUE /\ f.candidates = frame.candidates /\ f.found = frame.found
        /\ f.unmatched = frame.unmatched
    BY <1>3, <1>6, <2>1 DEF Frame
  <2>3. Patterned(f)
    BY <1>5, <1>6, <1>9, <1>12, <2>2 DEF Patterned
  <2>4. Found(f, f.at - 1) /\ Walked(f, f.at)
    BY <1>5, <1>6, <2>2 DEF Found, Walked
  <2>5. f.visible = Visible(S, p)
    BY <1>5, <1>12, <2>2 DEF Visible
  <2>6. ASSUME NEW spent \in Nat, Between(frame, spent) PROVE Trying("match", f, p, spent + p.size)
    <3>1. spent = Before(f.at - 1)
      BY <1>6, <2>2, <2>6 DEF Between
    <3>2. EntryWork(S, f.at) = p.size
      BY <1>3, <1>6, <1>12, <2>2, EntryIs
    <3> QED
      BY <1>6, <2>2, <2>3, <2>4, <2>5, <3>1, <3>2 DEF Trying
  <2>7. \A spent \in Nat : Progress(phase, frame, spent) => Progress("match", f, spent + p.size)
    BY <1>4, <2>2, <2>6 DEF Progress
  <2>8. Charge(amounts, "match", f)
    BY <1>1, <1>8, <1>12, <2>1
  <2> QED
    BY <1>1, <1>2, <1>8, <2>2, <2>7, <2>8, Goes
<1> QED
  BY <1>11, <1>12

LEMMA RouteKeeps ==
  ASSUME IInv, NEW n \in Objects, Route(n)
  PROVE  IInv'
<1> DEFINE more == IF Depth[n] = PathDepth(S, P) THEN frame.visible \cup {n} ELSE frame.visible
<1>1. /\ phase = "route" /\ UNCHANGED <<input, tree, findings>> /\ universes' = universes /\ n \in frame.todo
      /\ Charge(<<Width[n] + 1>>, "route", [frame EXCEPT !.todo = @ \ {n}, !.visible = more])
  BY DEF Route, ResolverStep
<1>2. phase \in Attempts /\ phase \in Working
  BY <1>1 DEF Attempts, Working
<1>3. /\ S \in Selector /\ frame \in Frame /\ Before(frame.at - 1) \in Nat /\ P \in Pattern
      /\ \A spent : Progress(phase, frame, spent) <=> Trying(phase, frame, P, spent)
  BY <1>2, TryingIs
<1>4. PICK w \in Nat : w = Width[n] + 1 /\ w = Widths[n]
  BY SelectorConstants DEF Widths
<1>5. PICK amounts \in Seq(Nat) : amounts = <<w>> /\ Total(amounts, 1..Len(amounts)) = w
  BY TotalOfOne
<1>6. PICK f : f = [frame EXCEPT !.todo = @ \ {n}, !.visible = more]
  OBVIOUS
<1>7. /\ f \in Frame /\ f.todo = frame.todo \ {n} /\ f.visible = more /\ f.at = frame.at
      /\ f.everything = frame.everything /\ f.candidates = frame.candidates /\ f.found = frame.found
      /\ f.searched = frame.searched /\ f.unmatched = frame.unmatched
  <2>1. more \in SUBSET Objects
    BY <1>3 DEF Frame
  <2> HIDE DEF more
  <2> QED
    BY <1>3, <1>6, <2>1 DEF Frame
<1>8. ASSUME NEW spent \in Nat, Trying("route", frame, P, spent)
      PROVE  Trying("route", f, P, spent + w)
  <2> DEFINE old == Universe(S.kind) \ frame.todo
             all == Universe(S.kind) \ f.todo
  <2>1. /\ Routing(frame, P, spent) /\ Patterned(frame) /\ frame.at > 0 /\ Found(frame, frame.at - 1)
    BY <1>8 DEF Trying
  <2>2. frame.todo \subseteq Universe(S.kind) /\ Universe(S.kind) \in SUBSET Objects
    BY <1>3, <2>1, SelectorFacts DEF Routing
  <2>3. all = old \cup {n} /\ n \notin old /\ old \in SUBSET Objects /\ f.todo \subseteq Universe(S.kind)
    BY <1>1, <1>7, <2>2
  <2>4. Total(Widths, all) = Total(Widths, old) + w /\ Total(Widths, old) \in Nat
    <3>1. \A m \in Objects : Widths[m] \in Nat
      BY SelectorConstants DEF Widths
    <3>2. IsFiniteSet(old) /\ \A m \in old : Widths[m] \in Nat
      BY <2>3, <3>1, FiniteObjects
    <3> HIDE DEF old, all
    <3>3. Total(Widths, old \cup {n}) = Total(Widths, old) + Widths[n] /\ Total(Widths, old) \in Nat
      BY <1>4, <2>3, <3>2, TotalMore
    <3> QED
      BY <1>4, <2>3, <3>3
  <2>5. spent = Before(frame.at - 1) + P.size + Total(Widths, old)
    BY <2>1 DEF Routing
  <2>6. P.size \in Nat
    BY <1>3 DEF Pattern
  <2>7. spent + w = Before(f.at - 1) + P.size + Total(Widths, all)
    <3> HIDE DEF old, all
    <3> QED
      BY <1>3, <1>7, <2>4, <2>5, <2>6
  <2>8. f.visible = {m \in all : Depth[m] = PathDepth(S, P)}
    <3>1. frame.visible = {m \in old : Depth[m] = PathDepth(S, P)}
      BY <2>1 DEF Routing
    <3> HIDE DEF old, all
    <3> QED
      BY <1>7, <2>3, <3>1
  <2>9. Walked(f, f.at - 1) /\ Found(f, f.at - 1) /\ Patterned(f)
    BY <1>7, <2>1 DEF Routing, Walked, Found, Patterned
  <2>10. Routing(f, P, spent + w)
    BY <2>1, <2>3, <2>7, <2>8, <2>9 DEF Routing
  <2> QED
    BY <1>7, <2>1, <2>9, <2>10 DEF Trying
<1>9. \A spent \in Nat : Progress(phase, frame, spent) => Progress("route", f, spent + w)
  <2>1. \A x : Trying("route", f, P, x) => Progress("route", f, x)
    BY <1>7 DEF Progress, P
  <2> QED
    BY <1>1, <1>3, <1>8, <2>1
<1>10. Charge(amounts, "route", f)
  BY <1>1, <1>4, <1>5, <1>6
<1> QED
  BY <1>1, <1>2, <1>5, <1>7, <1>9, <1>10, Goes

(* A step that does not charge, or not to its frame.                       *)
LEMMA GoesFree ==
  ASSUME IInv, UNCHANGED <<input, tree, findings>>, universes' = universes, phase \in Working,
         NEW next \in Working, NEW f \in Frame, Charge(<<>>, next, f),
         \A spent \in Nat : Progress(phase, frame, spent) => Progress(next, f, spent)
  PROVE  IInv'
<1>1. PICK amounts \in Seq(Nat) : amounts = <<>> /\ Total(amounts, 1..Len(amounts)) = 0
  BY TotalOfNone
<1>2. Charge(amounts, next, f)
  BY <1>1
<1>3. ASSUME NEW spent \in Nat, Progress(phase, frame, spent) PROVE Progress(next, f, spent + 0)
  <2>1. spent + 0 = spent
    OBVIOUS
  <2> QED
    BY <1>3, <2>1
<1> QED
  BY <1>1, <1>2, <1>3, Goes

LEMMA EndRouteKeeps ==
  ASSUME IInv, EndRoute
  PROVE  IInv'
<1> DEFINE wide == [frame EXCEPT !.searched = @ \cup frame.visible]
           card == Cardinality(frame.visible)
<1>1. /\ phase = "route" /\ UNCHANGED <<input, tree, findings>> /\ universes' = universes /\ frame.todo = {}
      /\ frame.everything => Charge(<<>>, "match", frame)
      /\ ~frame.everything => Charge(<<card>>, "match", wide)
  BY DEF EndRoute, ResolverStep
<1>2. phase \in Attempts /\ phase \in Working /\ "match" \in Working
  BY <1>1 DEF Attempts, Working
<1>3. /\ S \in Selector /\ frame \in Frame /\ Before(frame.at - 1) \in Nat /\ P \in Pattern
      /\ \A spent : Progress(phase, frame, spent) <=> Trying(phase, frame, P, spent)
      /\ frame.at \in DOMAIN S.patterns /\ frame.at \in Nat \ {0} /\ P = S.patterns[frame.at]
      /\ \E spent \in Nat : Trying(phase, frame, P, spent)
  BY <1>2, TryingIs DEF P
<1>4. /\ Routes(S, P) /\ frame.visible = Visible(S, P) /\ frame.at > 0
      /\ frame.everything <=> \E j \in 1..frame.at : ~Routes(S, S.patterns[j])
  BY <1>1, <1>3 DEF Trying, Routing, Patterned, Visible
<1>5. ASSUME NEW spent \in Nat, Trying("route", frame, P, spent)
      PROVE  /\ spent = Before(frame.at - 1) + P.size + Total(Widths, Universe(S.kind))
             /\ Patterned(frame) /\ Found(frame, frame.at - 1) /\ Walked(frame, frame.at - 1)
  <2>1. Universe(S.kind) \ frame.todo = Universe(S.kind)
    BY <1>1
  <2> QED
    BY <1>5, <2>1 DEF Trying, Routing
<1>6. /\ Total(Widths, Universe(S.kind)) \in Nat /\ P.size \in Nat /\ card \in Nat
      /\ frame.everything => EntryWork(S, frame.at) = P.size + Total(Widths, Universe(S.kind))
      /\ ~frame.everything => EntryWork(S, frame.at) = P.size + Total(Widths, Universe(S.kind)) + card
  BY <1>3, <1>4, EntryIs
<1>7. CASE frame.everything
  <2>1. ASSUME NEW spent \in Nat, Trying("route", frame, P, spent)
        PROVE  Trying("match", frame, P, spent)
    <3>1. spent = Before(frame.at - 1) + EntryWork(S, frame.at)
      BY <1>3, <1>5, <1>6, <1>7, <2>1
    <3>2. Walked(frame, frame.at)
      BY <1>7 DEF Walked
    <3> QED
      BY <1>4, <1>5, <2>1, <3>1, <3>2 DEF Trying
  <2>2. \A spent \in Nat : Progress(phase, frame, spent) => Progress("match", frame, spent)
    BY <1>1, <1>3, <2>1 DEF Progress
  <2> QED
    BY <1>1, <1>2, <1>3, <1>7, <2>2, GoesFree
<1>8. CASE ~frame.everything
  <2>1. PICK f : f = wide
    OBVIOUS
  <2>2. /\ f \in Frame /\ f.todo = frame.todo /\ f.visible = frame.visible /\ f.at = frame.at
        /\ f.everything = frame.everything /\ f.candidates = frame.candidates /\ f.found = frame.found
        /\ f.searched = frame.searched \cup frame.visible /\ f.unmatched = frame.unmatched
    BY <1>3, <2>1 DEF Frame
  <2>3. PICK w \in Nat : w = card
    BY <1>6
  <2>4. PICK amounts \in Seq(Nat) : amounts = <<w>> /\ Total(amounts, 1..Len(amounts)) = w
    BY TotalOfOne
  <2>5. ASSUME NEW spent \in Nat, Trying("route", frame, P, spent)
        PROVE  Trying("match", f, P, spent + w)
    <3>1. spent + w = Before(f.at - 1) + EntryWork(S, f.at)
      BY <1>3, <1>5, <1>6, <1>8, <2>2, <2>3, <2>5
    <3>2. Searched(S, 1..frame.at) = Searched(S, 1..(frame.at - 1)) \cup Visible(S, P)
      BY <1>3, MatchedMore
    <3>3. Walked(f, f.at)
      BY <1>4, <1>5, <1>8, <2>2, <2>5, <3>2 DEF Walked
    <3>4. Patterned(f) /\ Found(f, f.at - 1)
      BY <1>5, <2>2, <2>5 DEF Patterned, Found
    <3> QED
      BY <1>4, <2>2, <3>1, <3>3, <3>4 DEF Trying
  <2>6. \A spent \in Nat : Progress(phase, frame, spent) => Progress("match", f, spent + w)
    <3>1. \A x : Trying("match", f, P, x) => Progress("match", f, x)
      BY <2>2 DEF Progress, P
    <3> QED
      BY <1>1, <1>3, <2>5, <3>1
  <2>7. Charge(amounts, "match", f)
    BY <1>1, <1>8, <2>1, <2>3, <2>4
  <2> QED
    BY <1>1, <1>2, <2>2, <2>4, <2>6, <2>7, Goes
<1> QED
  BY <1>7, <1>8

(* The pattern on which the engine gives up is the last one that is tried. *)
LEMMA GivesUp ==
  ASSUME IInv, phase \in Attempts, UNCHANGED <<input, tree, findings>>, universes' = universes,
         P.engine # "fits", Return(Unresolved("pattern")), used' = used,
         \A spent \in Nat : Trying(phase, frame, P, spent) =>
           spent = Before(frame.at - 1) + PatternWork(S, frame.at)
  PROVE  IInv'
<1>1. /\ S \in Selector /\ frame.at \in DOMAIN S.patterns /\ S.of = 0 /\ S.kind \notin WholeKinds
      /\ \A j \in 1..(frame.at - 1) : S.patterns[j].engine = "fits"
      /\ phase \in Working /\ frame.at \in Nat \ {0} /\ P = S.patterns[frame.at]
      /\ \A spent : Progress(phase, frame, spent) <=> Trying(phase, frame, P, spent)
  BY TryingIs DEF P
<1>2. calls # <<>> /\ S.refused = "no" /\ Shape
  BY <1>1, AtWorkIs
<1>3. PICK spent \in Nat : Trying(phase, frame, P, spent) /\ (~Cut => used = Settled + spent)
  BY <1>1, AtWorkIs
<1>4. Tried(S) = 1..frame.at
  <2>1. DOMAIN S.patterns = 1..Len(S.patterns) /\ Len(S.patterns) \in Nat
    BY <1>1, SelectorFacts
  <2>2. 1..frame.at \subseteq Tried(S)
    BY <1>1, <2>1 DEF Tried
  <2>3. Tried(S) \subseteq 1..frame.at
    <3> SUFFICES ASSUME NEW i \in Tried(S), i > frame.at PROVE FALSE
      BY <1>1, <2>1 DEF Tried
    <3>1. frame.at \in 1..(i - 1)
      BY <1>1, <2>1 DEF Tried
    <3> QED
      BY <1>1, <3>1 DEF Tried
  <2> QED
    BY <2>2, <2>3
<1>5. spent = Total(PatternWorks(S), Tried(S))
  BY <1>1, <1>3, <1>4, PatternsBefore DEF Before
<1>6. Reference[Current] = Meaning(Unresolved("pattern"), spent)
  <2>1. Reference[Current] = MeaningOfSelected(S)
    BY <1>1, <1>2, PatternedIs
  <2> QED
    BY <1>1, <1>5, <2>1 DEF MeaningOfSelected
<1>7. Reference[Current].answer = Unresolved("pattern") /\ Works[Current] = spent
  BY <1>2, <1>6, CurrentIs DEF Meaning
<1>8. Unresolved("pattern") \in Answers /\ Unresolved("pattern").error = "pattern"
  BY FailedKind DEF Errors, Unresolved, Answer
<1>9. used' \in 0..limit
  BY <1>2 DEF Shape
<1>10. ~Cut => used' = Settled + Works[Current]
  BY <1>3, <1>7
<1> QED
  BY <1>1, <1>2, <1>7, <1>8, <1>9, <1>10, Returns

LEMMA MatchKeeps ==
  ASSUME IInv, Match
  PROVE  IInv'
<1> DEFINE open == [frame EXCEPT !.todo = frame.visible]
           card == Cardinality(frame.visible)
<1>1. /\ phase = "match" /\ UNCHANGED <<input, tree, findings>> /\ universes' = universes
      /\ P.engine = "refused" => Return(Unresolved("pattern")) /\ used' = used
      /\ P.engine # "refused" /\ Scans(S, P) => Charge(<<>>, "scan", open)
      /\ P.engine # "refused" /\ ~Scans(S, P) =>
           Charge(IF P.star THEN <<card>> ELSE <<>>, "select", frame)
  BY DEF Match, ResolverStep
<1>2. phase \in Attempts /\ phase \in Working /\ "scan" \in Working /\ "select" \in Working
  BY <1>1 DEF Attempts, Working
<1>3. /\ S \in Selector /\ frame \in Frame /\ Before(frame.at - 1) \in Nat /\ P \in Pattern
      /\ \A spent : Progress(phase, frame, spent) <=> Trying(phase, frame, P, spent)
      /\ frame.at \in DOMAIN S.patterns /\ frame.at \in Nat \ {0} /\ P = S.patterns[frame.at]
      /\ \E spent \in Nat : Trying(phase, frame, P, spent)
  BY <1>2, TryingIs DEF P
<1>4. ASSUME NEW spent \in Nat, Trying("match", frame, P, spent)
      PROVE  /\ spent = Before(frame.at - 1) + EntryWork(S, frame.at) /\ frame.visible = Visible(S, P)
             /\ Patterned(frame) /\ Found(frame, frame.at - 1) /\ Walked(frame, frame.at) /\ frame.at > 0
  BY <1>4 DEF Trying
<1>5. frame.visible = Visible(S, P) /\ card \in Nat
  BY <1>1, <1>3, <1>4, PatternFacts
<1>6. /\ EntryWork(S, frame.at) \in Nat /\ Walk(S, P) \in Nat /\ PatternWork(S, frame.at) \in Nat
  BY <1>3, WorksKind
<1>7. CASE P.engine = "refused"
  <2>1. PatternWork(S, frame.at) = EntryWork(S, frame.at)
    <3>1. PatternWork(S, frame.at) = EntryWork(S, frame.at) + 0 + 0
      BY <1>3, <1>7 DEF PatternWork
    <3> QED
      BY <1>6, <3>1
  <2> QED
    BY <1>1, <1>2, <1>4, <1>7, <2>1, GivesUp
<1>8. CASE P.engine # "refused" /\ Scans(S, P)
  <2>1. PICK f : f = open
    OBVIOUS
  <2>2. /\ f \in Frame /\ f.todo = frame.visible /\ f.visible = frame.visible /\ f.at = frame.at
        /\ f.everything = frame.everything /\ f.candidates = frame.candidates /\ f.found = frame.found
        /\ f.searched = frame.searched /\ f.unmatched = frame.unmatched
    BY <1>3, <2>1 DEF Frame
  <2>3. ASSUME NEW spent \in Nat, Trying("match", frame, P, spent)
        PROVE  Trying("scan", f, P, spent)
    <3>1. f.visible \ f.todo = {} /\ Total(Compared(S, P), {}) = 0
      BY <2>2, TotalEmpty
    <3>2. spent = Before(f.at - 1) + EntryWork(S, f.at) + Total(Compared(S, P), {})
      BY <1>3, <1>4, <1>6, <2>2, <2>3, <3>1
    <3>3. ~P.star
      BY <1>8 DEF Scans
    <3>4. Scanning(f, P, spent)
      BY <1>8, <2>2, <3>1, <3>2, <3>3 DEF Scanning
    <3>5. Patterned(f) /\ Found(f, f.at - 1) /\ Walked(f, f.at)
      BY <1>4, <2>2, <2>3 DEF Patterned, Found, Walked
    <3> QED
      BY <1>4, <2>2, <2>3, <3>4, <3>5 DEF Trying
  <2>4. \A spent \in Nat : Progress(phase, frame, spent) => Progress("scan", f, spent)
    <3>1. \A x : Trying("scan", f, P, x) => Progress("scan", f, x)
      BY <2>2 DEF Progress, P
    <3> QED
      BY <1>1, <1>3, <2>3, <3>1
  <2> QED
    BY <1>1, <1>2, <1>8, <2>1, <2>2, <2>4, GoesFree
<1>9. CASE P.engine # "refused" /\ ~Scans(S, P)
  <2>1. PICK w \in Nat : w = IF P.star THEN card ELSE 0
    BY <1>5
  <2>2. PICK amounts \in Seq(Nat) :
          amounts = (IF P.star THEN <<card>> ELSE <<>>) /\ Total(amounts, 1..Len(amounts)) = w
    <3>1. CASE P.star
      BY <1>5, <2>1, <3>1, TotalOfOne
    <3>2. CASE ~P.star
      BY <2>1, <3>2, TotalOfNone
    <3> QED
      BY <3>1, <3>2
  <2>3. Walk(S, P) = w
    BY <1>5, <1>9, <2>1 DEF Walk
  <2>4. ASSUME NEW spent \in Nat, Trying("match", frame, P, spent)
        PROVE  Trying("select", frame, P, spent + w)
    <3>1. spent + w = Before(frame.at - 1) + EntryWork(S, frame.at) + Walk(S, P)
      BY <1>3, <1>4, <1>6, <2>3, <2>4
    <3> QED
      BY <1>4, <1>9, <2>4, <3>1 DEF Trying
  <2>5. \A spent \in Nat : Progress(phase, frame, spent) => Progress("select", frame, spent + w)
    <3>1. \A x : Trying("select", frame, P, x) => Progress("select", frame, x)
      BY DEF Progress, P
    <3> QED
      BY <1>1, <1>3, <2>4, <3>1
  <2>6. Charge(amounts, "select", frame)
    BY <1>1, <1>9, <2>2
  <2> QED
    BY <1>1, <1>2, <1>3, <2>2, <2>5, <2>6, Goes
<1> QED
  BY <1>7, <1>8, <1>9

LEMMA ScanKeeps ==
  ASSUME IInv, NEW n \in Objects, Scan(n)
  PROVE  IInv'
<1>1. /\ phase = "scan" /\ UNCHANGED <<input, tree, findings>> /\ universes' = universes /\ n \in frame.todo
      /\ Charge(Comparison(S, P, n), "scan", [frame EXCEPT !.todo = @ \ {n}])
  BY DEF Scan, ResolverStep
<1>2. phase \in Attempts /\ phase \in Working
  BY <1>1 DEF Attempts, Working
<1>3. /\ S \in Selector /\ frame \in Frame /\ Before(frame.at - 1) \in Nat /\ P \in Pattern
      /\ \A spent : Progress(phase, frame, spent) <=> Trying(phase, frame, P, spent)
      /\ frame.at \in DOMAIN S.patterns /\ frame.at \in Nat \ {0} /\ P = S.patterns[frame.at]
  BY <1>2, TryingIs DEF P
<1>4. PICK a \in Nat, b \in Nat : Comparison(S, P, n) = <<a, b>> /\ Compared(S, P)[n] = a + b
  BY <1>3, ComparedKind
<1>5. PICK amounts \in Seq(Nat) : amounts = <<a, b>> /\ Total(amounts, 1..Len(amounts)) = a + b
  BY TotalOfTwo
<1>6. PICK f : f = [frame EXCEPT !.todo = @ \ {n}]
  OBVIOUS
<1>7. /\ f \in Frame /\ f.todo = frame.todo \ {n} /\ f.visible = frame.visible /\ f.at = frame.at
      /\ f.everything = frame.everything /\ f.candidates = frame.candidates /\ f.found = frame.found
      /\ f.searched = frame.searched /\ f.unmatched = frame.unmatched
  BY <1>3, <1>6 DEF Frame
<1>8. EntryWork(S, frame.at) \in Nat
  BY <1>3, WorksKind
<1>9. ASSUME NEW spent \in Nat, Trying("scan", frame, P, spent)
      PROVE  Trying("scan", f, P, spent + (a + b))
  <2> DEFINE old == frame.visible \ frame.todo
             all == f.visible \ f.todo
             works == Compared(S, P)
  <2>1. /\ Scanning(frame, P, spent) /\ Patterned(frame) /\ Found(frame, frame.at - 1)
        /\ Walked(frame, frame.at) /\ frame.visible = Visible(S, P) /\ frame.at > 0
    BY <1>9 DEF Trying
  <2>2. /\ spent = Before(frame.at - 1) + EntryWork(S, frame.at) + Total(works, old)
        /\ frame.todo \subseteq frame.visible
    BY <2>1 DEF Scanning
  <2>3. all = old \cup {n} /\ n \notin old /\ n \in frame.visible /\ f.todo \subseteq f.visible
    BY <1>1, <1>7, <2>2
  <2>4. IsFiniteSet(frame.visible) /\ \A m \in frame.visible : works[m] \in Nat
    <3>1. IsFiniteSet(frame.visible) /\ frame.visible \subseteq Objects
      BY <1>3, <2>1, PatternFacts
    <3> QED
      BY <1>3, <3>1, ComparedKind
  <2>5. Total(works, all) = Total(works, old) + (a + b) /\ Total(works, old) \in Nat
    <3>1. IsFiniteSet(old) /\ (\A m \in old : works[m] \in Nat) /\ works[n] \in Nat /\ works[n] = a + b
      BY <1>4, <2>3, <2>4, FS_Subset
    <3> HIDE DEF works, old, all
    <3>2. Total(works, old \cup {n}) = Total(works, old) + works[n] /\ Total(works, old) \in Nat
      BY <2>3, <3>1, TotalMore
    <3> QED
      BY <2>3, <3>1, <3>2
  <2>6. spent + (a + b) = Before(f.at - 1) + EntryWork(S, f.at) + Total(works, all)
    <3> HIDE DEF works, old, all
    <3> QED
      BY <1>3, <1>7, <1>8, <2>2, <2>5
  <2>7. Scanning(f, P, spent + (a + b))
    BY <2>1, <2>3, <2>6 DEF Scanning
  <2>8. Patterned(f) /\ Found(f, f.at - 1) /\ Walked(f, f.at)
    BY <1>7, <2>1 DEF Patterned, Found, Walked
  <2> QED
    BY <1>7, <2>1, <2>7, <2>8 DEF Trying
<1>10. \A spent \in Nat : Progress(phase, frame, spent) => Progress("scan", f, spent + (a + b))
  <2>1. \A x : Trying("scan", f, P, x) => Progress("scan", f, x)
    BY <1>7 DEF Progress, P
  <2> QED
    BY <1>1, <1>3, <1>9, <2>1
<1>11. Charge(amounts, "scan", f)
  BY <1>1, <1>4, <1>5, <1>6
<1> QED
  BY <1>1, <1>2, <1>5, <1>7, <1>10, <1>11, Goes

LEMMA EndScanKeeps ==
  ASSUME IInv, EndScan
  PROVE  IInv'
<1>1. /\ phase = "scan" /\ UNCHANGED <<input, tree, findings>> /\ universes' = universes /\ frame.todo = {}
      /\ Charge(<<>>, "select", frame)
  BY DEF EndScan, ResolverStep
<1>2. phase \in Attempts /\ phase \in Working /\ "select" \in Working
  BY <1>1 DEF Attempts, Working
<1>3. /\ frame \in Frame /\ \A spent : Progress(phase, frame, spent) <=> Trying(phase, frame, P, spent)
  BY <1>2, TryingIs
<1>4. ASSUME NEW spent \in Nat, Trying("scan", frame, P, spent)
      PROVE  Trying("select", frame, P, spent)
  <2>1. /\ Scanning(frame, P, spent) /\ frame.visible = Visible(S, P)
    BY <1>4 DEF Trying
  <2>2. frame.visible \ frame.todo = Visible(S, P)
    BY <1>1, <2>1
  <2>3. Walk(S, P) = Total(Compared(S, P), Visible(S, P))
    BY <2>1 DEF Walk, Scanning
  <2>4. P.engine # "refused" /\ spent = Before(frame.at - 1) + EntryWork(S, frame.at) + Walk(S, P)
    BY <2>1, <2>2, <2>3 DEF Scanning
  <2> QED
    BY <1>4, <2>4 DEF Trying
<1>5. \A spent \in Nat : Progress(phase, frame, spent) => Progress("select", frame, spent)
  <2>1. \A x : Trying("select", frame, P, x) => Progress("select", frame, x)
    BY DEF Progress, P
  <2> QED
    BY <1>1, <1>3, <1>4, <2>1
<1> QED
  BY <1>1, <1>2, <1>3, <1>5, GoesFree

LEMMA SelectKeeps ==
  ASSUME IInv, Select
  PROVE  IInv'
<1> DEFINE hits == Selected(P, frame.visible)
           next == [frame EXCEPT !.found = @ (+) SetToBag(hits), !.unmatched = IF hits = {} THEN @ + 1 ELSE @]
<1>1. /\ phase = "select" /\ UNCHANGED <<input, tree, findings>> /\ universes' = universes
      /\ P.engine = "fails" => Return(Unresolved("pattern")) /\ used' = used
      /\ P.engine # "fails" => Charge(<<2 * Cardinality(hits)>>, "pattern", next)
  BY DEF Select, ResolverStep
<1>2. phase \in Attempts /\ phase \in Working /\ "pattern" \in Working
  BY <1>1 DEF Attempts, Working
<1>3. /\ S \in Selector /\ frame \in Frame /\ Before(frame.at - 1) \in Nat /\ P \in Pattern
      /\ \A spent : Progress(phase, frame, spent) <=> Trying(phase, frame, P, spent)
      /\ frame.at \in DOMAIN S.patterns /\ frame.at \in Nat \ {0} /\ P = S.patterns[frame.at]
      /\ \E spent \in Nat : Trying(phase, frame, P, spent)
      /\ \A j \in 1..(frame.at - 1) : S.patterns[j].engine = "fits"
  BY <1>2, TryingIs DEF P
<1>4. ASSUME NEW spent \in Nat, Trying("select", frame, P, spent)
      PROVE  /\ spent = Before(frame.at - 1) + EntryWork(S, frame.at) + Walk(S, P) /\ P.engine # "refused"
             /\ frame.visible = Visible(S, P)
             /\ Patterned(frame) /\ Found(frame, frame.at - 1) /\ Walked(frame, frame.at)
  BY <1>4 DEF Trying
<1>5. frame.visible = Visible(S, P) /\ P.engine \in {"fits", "fails"} /\ hits = Hits(S, P)
  <2>1. frame.visible = Visible(S, P) /\ P.engine # "refused"
    BY <1>1, <1>3, <1>4
  <2> QED
    BY <1>3, <2>1 DEF Hits, Pattern
<1>6. hits \in SUBSET Objects /\ Cardinality(hits) \in Nat /\ SetToBag(hits) \in BagsOfObjects
  <2>1. Hits(S, P) \in SUBSET Objects /\ Cardinality(Hits(S, P)) \in Nat
    BY <1>3, PatternFacts
  <2> QED
    BY <1>5, <2>1, SetBag
<1>7. EntryWork(S, frame.at) \in Nat /\ Walk(S, P) \in Nat
  BY <1>3, WorksKind
<1>8. /\ P.engine = "fails" => PatternWork(S, frame.at) = EntryWork(S, frame.at) + Walk(S, P)
      /\ P.engine = "fits" => PatternWork(S, frame.at) = EntryWork(S, frame.at) + Walk(S, P) + 2 * Cardinality(hits)
  <2>1. PatternWork(S, frame.at) = EntryWork(S, frame.at) + (IF P.engine = "refused" THEN 0 ELSE Walk(S, P))
                      + (IF P.engine = "fits" THEN 2 * Cardinality(hits) ELSE 0)
    BY <1>3, <1>5 DEF PatternWork
  <2> HIDE DEF hits
  <2> QED
    BY <1>6, <1>7, <2>1
<1> HIDE DEF hits
<1>9. CASE P.engine = "fails"
  <2>1. ASSUME NEW spent \in Nat, Trying(phase, frame, P, spent)
        PROVE  spent = Before(frame.at - 1) + PatternWork(S, frame.at)
    <3>1. spent = Before(frame.at - 1) + EntryWork(S, frame.at) + Walk(S, P)
      BY <1>1, <1>4, <2>1
    <3> QED
      BY <1>3, <1>7, <1>8, <1>9, <3>1
  <2> QED
    BY <1>1, <1>2, <1>9, <2>1, GivesUp
<1>10. CASE P.engine = "fits"
  <2>1. PICK f : f = next
    OBVIOUS
  <2>2. /\ f \in Frame /\ f.at = frame.at /\ f.candidates = frame.candidates
        /\ f.everything = frame.everything /\ f.searched = frame.searched
        /\ f.found = frame.found (+) SetToBag(hits)
        /\ f.unmatched = IF hits = {} THEN frame.unmatched + 1 ELSE frame.unmatched
    <3>1. frame.found (+) SetToBag(hits) \in BagsOfObjects
      BY <1>3, <1>6, BagSum DEF Frame
    <3>2. (IF hits = {} THEN frame.unmatched + 1 ELSE frame.unmatched) \in Nat
      BY <1>3 DEF Frame
    <3> QED
      BY <1>3, <2>1, <3>1, <3>2 DEF Frame
  <2>3. PICK w \in Nat : w = 2 * Cardinality(hits)
    BY <1>6
  <2>4. PICK amounts \in Seq(Nat) : amounts = <<w>> /\ Total(amounts, 1..Len(amounts)) = w
    BY TotalOfOne
  <2>5. ASSUME NEW spent \in Nat, Trying("select", frame, P, spent)
        PROVE  Between(f, spent + w)
    <3>1. spent + w = Before(f.at)
      <4>1. Before(frame.at) = Before(frame.at - 1) + PatternWork(S, frame.at)
        BY <1>3, PatternsBefore DEF Before
      <4>2. spent = Before(frame.at - 1) + EntryWork(S, frame.at) + Walk(S, P)
        BY <1>4, <2>5
      <4>3. Before(f.at) = Before(frame.at)
        BY <2>2
      <4>4. PatternWork(S, frame.at) = EntryWork(S, frame.at) + Walk(S, P) + w
        BY <1>8, <1>10, <2>3
      <4>5. \A a, b, c, d \in Nat : (a + b + c) + d = a + (b + c + d)
        OBVIOUS
      <4> QED
        BY <1>3, <1>7, <4>1, <4>2, <4>3, <4>4, <4>5
    <3>2. /\ Matched(S, 1..frame.at) = Matched(S, 1..(frame.at - 1)) (+) SetToBag(hits)
          /\ Unmatched(S, 1..frame.at) = Unmatched(S, 1..(frame.at - 1)) + (IF hits = {} THEN 1 ELSE 0)
      BY <1>3, <1>5, MatchedMore
    <3>3. f.found = Matched(S, 1..f.at) /\ f.unmatched = Unmatched(S, 1..f.at)
      <4>1. frame.found = Matched(S, 1..(frame.at - 1)) /\ frame.unmatched = Unmatched(S, 1..(frame.at - 1))
        BY <1>4, <2>5 DEF Found
      <4>2. frame.unmatched \in Nat
        BY <1>3 DEF Frame
      <4> QED
        BY <2>2, <3>2, <4>1, <4>2
    <3>4. \A j \in 1..f.at : S.patterns[j].engine = "fits"
      <4>1. \A j \in 1..f.at : j \in 1..(frame.at - 1) \/ j = frame.at
        BY <1>3, <2>2
      <4> QED
        BY <1>3, <1>10, <4>1
    <3>5. Found(f, f.at)
      BY <1>4, <2>2, <2>5, <3>3, <3>4 DEF Found
    <3>6. Patterned(f) /\ Walked(f, f.at)
      BY <1>4, <2>2, <2>5 DEF Patterned, Walked
    <3> QED
      BY <3>1, <3>5, <3>6 DEF Between
  <2>6. \A spent \in Nat : Progress(phase, frame, spent) => Progress("pattern", f, spent + w)
    BY <1>1, <1>3, <2>5 DEF Progress
  <2>7. Charge(amounts, "pattern", f)
    BY <1>1, <1>10, <2>1, <2>3, <2>4
  <2> QED
    BY <1>1, <1>2, <2>2, <2>4, <2>6, <2>7, Goes
<1> QED
  BY <1>5, <1>9, <1>10

LEMMA EndPatternsKeeps ==
  ASSUME IInv, EndPatterns
  PROVE  IInv'
<1> DEFINE last == [frame EXCEPT !.candidates = IF frame.everything THEN @ ELSE frame.searched]
           all == DOMAIN S.patterns
<1>1. /\ phase = "pattern" /\ UNCHANGED <<input, tree, findings>> /\ universes' = universes
      /\ frame.at = Len(S.patterns) /\ Charge(<<>>, "finish", last)
  BY DEF EndPatterns, ResolverStep
<1>2. phase \in Working /\ "finish" \in Working
  BY <1>1 DEF Working
<1>3. S \in Selector /\ frame \in Frame /\ calls # <<>> /\ S.refused = "no" /\ Shape
  BY <1>2, AtWorkIs
<1>4. PICK f : f = last
  OBVIOUS
<1>5. /\ f \in Frame /\ f.found = frame.found /\ f.unmatched = frame.unmatched
      /\ f.candidates = IF frame.everything THEN frame.candidates ELSE frame.searched
  BY <1>3, <1>4 DEF Frame
<1>6. ASSUME NEW spent \in Nat, Between(frame, spent) PROVE Finishing(f, spent)
  <2>1. all = 1..frame.at
    BY <1>1, <1>3, SelectorFacts
  <2>2. /\ S.of = 0 /\ S.kind \notin WholeKinds /\ \A i \in all : S.patterns[i].engine = "fits"
        /\ frame.candidates = Universe(S.kind) /\ frame.found = Matched(S, all)
        /\ frame.unmatched = Unmatched(S, all) /\ spent = Total(PatternWorks(S), all)
        /\ ~frame.everything => frame.searched = Searched(S, all)
        /\ frame.everything <=> \E i \in all : ~Routes(S, S.patterns[i])
    BY <1>6, <2>1 DEF Between, Patterned, Found, Walked, Before
  <2>3. f.candidates = Searched(S, all)
    <3>1. CASE frame.everything
      <4>1. PICK i \in all : ~Routes(S, S.patterns[i])
        BY <2>2, <3>1
      <4>2. Visible(S, S.patterns[i]) = Universe(S.kind)
        BY <4>1 DEF Visible
      <4>3. Searched(S, all) \subseteq Universe(S.kind)
        BY <1>3, MatchedKind
      <4>4. Searched(S, all) = Universe(S.kind)
        BY <4>2, <4>3 DEF Searched
      <4> QED
        BY <1>5, <2>2, <3>1, <4>4
    <3>2. CASE ~frame.everything
      BY <1>5, <2>2, <3>2
    <3> QED
      BY <3>1, <3>2
  <2>4. Tried(S) = all
    BY <1>3, <2>2, TriedCosts
  <2>5. Reference[Current] = MeaningOfSelected(S)
    BY <1>3, <2>2, PatternedIs
  <2>6. MeaningOfSelected(S)
          = Filtered(S, Matched(S, all), Cardinality(Searched(S, all)), Unmatched(S, all),
                     Total(PatternWorks(S), Tried(S)))
    BY <2>2 DEF MeaningOfSelected
  <2> QED
    BY <1>5, <2>2, <2>3, <2>4, <2>5, <2>6 DEF Finishing
<1>7. \A spent \in Nat : Progress(phase, frame, spent) => Progress("finish", f, spent)
  BY <1>1, <1>6 DEF Progress
<1> QED
  BY <1>1, <1>2, <1>4, <1>5, <1>7, GoesFree

(* The filter and the result, which is kept if it was paid for.            *)
LEMMA FinishKeeps ==
  ASSUME IInv, Finish
  PROVE  IInv'
<1> DEFINE found == DOMAIN frame.found
           kept == IF S.filter.supported THEN found \cap S.filter.keeps ELSE {}
           given == IF S.filter = NoFilter THEN <<>> ELSE <<S.filter.size + Cardinality(found)>>
           bills == given \o <<2 * Cardinality(kept)>>
           few == [n \in kept |-> frame.found[n]]
           answer == Answer("none", few, Cardinality(frame.candidates), frame.unmatched)
           result == CASE ~Pay(bills).ok -> Unresolved("work")
                       [] Pay(bills).ok /\ ~S.filter.supported -> Unresolved("filter")
                       [] OTHER -> answer
           price == IF S.filter = NoFilter THEN 0 ELSE S.filter.size + Cardinality(found)
<1>1. /\ phase = "finish" /\ UNCHANGED <<input, tree, findings>> /\ universes' = universes
      /\ used' = Pay(bills).used /\ Return(result)
  BY DEF Finish, ResolverStep
<1>2. phase \in Working
  BY <1>1 DEF Working
<1>3. /\ S \in Selector /\ frame \in Frame /\ calls # <<>> /\ S.refused = "no" /\ Shape /\ Answered
      /\ S.filter \in Filter
  BY <1>2, AtWorkIs, SelectorFacts
<1>4. /\ frame.found \in BagsOfObjects /\ frame.candidates \in SUBSET Objects /\ frame.unmatched \in Nat
      /\ Cardinality(frame.candidates) \in Nat /\ Cardinality(found) \in Nat /\ found \subseteq Objects
      /\ \A n \in found : frame.found[n] \in Nat
  <2>1. frame.found \in BagsOfObjects /\ frame.candidates \in SUBSET Objects /\ frame.unmatched \in Nat
    BY <1>3 DEF Frame
  <2> QED
    BY <2>1, BagFacts, FiniteObjects
<1>5. kept \in SUBSET Objects /\ Cardinality(kept) \in Nat
  <2>1. kept \in SUBSET Objects
    BY <1>4
  <2> QED
    BY <2>1, FiniteObjects
<1>6. price \in Nat /\ S.filter.supported \in BOOLEAN
  BY <1>3, <1>4 DEF Filter
<1>7. few \in BagsOfObjects
  <2>1. few = [n \in DOMAIN few |-> few[n]] /\ DOMAIN few \subseteq Objects /\ \A n \in DOMAIN few : few[n] \in Nat
    BY <1>4, <1>5
  <2> HIDE DEF few
  <2> QED
    BY <2>1, BagKind
<1>9. PICK total \in Nat : total = price + 2 * Cardinality(kept)
  BY <1>5, <1>6
<1>10. PICK amounts \in Seq(Nat) : amounts = bills /\ Total(amounts, 1..Len(amounts)) = total
  <2>1. PICK w \in Nat : w = 2 * Cardinality(kept)
    BY <1>5
  <2>2. CASE S.filter = NoFilter
    <3>1. bills = <<w>>
      BY <2>1, <2>2
    <3>2. total = w
      BY <1>9, <2>1, <2>2
    <3> HIDE DEF bills
    <3> QED
      BY <3>1, <3>2, TotalOfOne
  <2>3. CASE S.filter # NoFilter
    <3>1. bills = <<price, w>>
      <4>1. given = <<price>>
        BY <2>3
      <4> HIDE DEF given, price
      <4> QED
        BY <1>6, <2>1, <4>1, TwoOfOne
    <3>2. total = price + w
      BY <1>9, <2>1
    <3> HIDE DEF bills, price
    <3> QED
      BY <1>6, <2>1, <3>1, <3>2, TotalOfTwo
  <2> QED
    BY <2>2, <2>3
<1>11. PICK spent \in Nat : Progress(phase, frame, spent) /\ (~Cut => used = Settled + spent)
  BY <1>2, AtWorkIs
<1>12. Reference[Current] = Filtered(S, frame.found, Cardinality(frame.candidates), frame.unmatched, spent)
  BY <1>1, <1>11 DEF Progress, Finishing
<1>13. /\ S.filter.supported => Reference[Current] = Meaning(answer, spent + price + 2 * Cardinality(kept))
       /\ ~S.filter.supported => Reference[Current] = Meaning(Unresolved("filter"), spent + price)
  BY <1>6, <1>12 DEF Filtered
<1>14. /\ answer \in Answers /\ answer.error = "none"
       /\ Unresolved("filter") \in Answers /\ Unresolved("filter").error = "filter"
       /\ Unresolved("work") \in Answers /\ Unresolved("work").error = "work"
  <2>1. answer \in Answers /\ answer.error = "none"
    <3> HIDE DEF few
    <3> QED
      BY <1>4, <1>7 DEF Answer, Answers, Errors
  <2> QED
    BY <2>1, FailedKind DEF Errors, Unresolved, Answer
<1>15. Works[Current] = spent + total /\ Works[Current] \in Nat
  <2>1. ~S.filter.supported => Cardinality(kept) = 0
    BY FS_EmptySet
  <2>2. Reference[Current].work = spent + price + 2 * Cardinality(kept)
    <3>1. \A a, w : Meaning(a, w).work = w
      BY DEF Meaning
    <3>2. CASE S.filter.supported
      BY <1>13, <3>1, <3>2
    <3>3. CASE ~S.filter.supported
      <4>1. Reference[Current].work = spent + price
        BY <1>13, <3>1, <3>3
      <4> HIDE DEF kept, price
      <4> QED
        BY <1>6, <2>1, <3>3, <4>1
    <3> QED
      BY <3>2, <3>3
  <2> HIDE DEF kept, price
  <2>3. Reference[Current].work = spent + total
    BY <1>5, <1>6, <1>9, <2>2
  <2> QED
    BY <1>3, <2>3, CurrentIs
<1>16. limit \in Nat /\ used \in 0..limit
  BY <1>3, SelectorConstants DEF Shape
<1> HIDE DEF bills, answer, kept, price
<1>17. /\ Pay(bills).used \in 0..limit
       /\ Pay(bills).ok <=> used + total <= limit
       /\ Pay(bills).ok => Pay(bills).used = used + total
  BY <1>10, <1>16, Paid
<1>18. /\ Cardinality(seen) + Total(Works, DOMAIN cache) + Total(ScanSizes, universes) + Works[Current] <= Price
       /\ Cardinality(seen) \in Nat /\ Total(Works, DOMAIN cache) \in Nat /\ Total(ScanSizes, universes) \in Nat
       /\ Price \in Nat
  <2>1. seen \subseteq Nodes /\ universes \in SUBSET KindsUsed /\ forest \in Forests
    BY DEF IInv, Traversed, Materialized, Shape
  <2> QED
    BY <1>3, <2>1, CurrentInPrice, PriceIs
<1>19. Settled \in Nat /\ Settled + (spent + total) <= Price
  BY <1>15, <1>18 DEF Settled
<1>20. ~Pay(bills).ok => Price > limit
  <2>1. CASE Cut
    BY <2>1 DEF IInv, Balanced
  <2>2. CASE ~Cut
    <3>1. used = Settled + spent
      BY <1>11, <2>2
    <3> QED
      BY <1>16, <1>17, <1>18, <1>19, <3>1
  <2> QED
    BY <2>1, <2>2
<1>21. Pay(bills).ok /\ ~Cut => used' = Settled + Works[Current]
  <2> SUFFICES ASSUME Pay(bills).ok, ~Cut PROVE used' = Settled + Works[Current]
    OBVIOUS
  <2>1. used' = used + total /\ used = Settled + spent
    BY <1>1, <1>11, <1>17
  <2> QED
    BY <1>15, <1>19, <2>1
<1>22. Pay(bills).ok => result = Reference[Current].answer /\ result.error \notin {"work", "source"}
  <2> SUFFICES ASSUME Pay(bills).ok PROVE result = Reference[Current].answer /\ result.error \notin {"work", "source"}
    OBVIOUS
  <2>1. \A a, w : Meaning(a, w).answer = a
    BY DEF Meaning
  <2>2. CASE S.filter.supported
    <3>1. result = answer
      BY <2>2
    <3> QED
      BY <1>13, <1>14, <2>1, <2>2, <3>1
  <2>3. CASE ~S.filter.supported
    <3>1. result = Unresolved("filter")
      BY <2>3
    <3> QED
      BY <1>13, <1>14, <2>1, <2>3, <3>1
  <2> QED
    BY <2>2, <2>3
<1>23. ~Pay(bills).ok => result = Unresolved("work")
  OBVIOUS
<1>24. PICK r : r = result
  OBVIOUS
<1>25. r \in Answers
  BY <1>14, <1>24
<1>26. used' \in 0..limit
  BY <1>1, <1>17
<1> HIDE DEF result
<1>27. /\ r.error = "work" => Price > limit
       /\ r.error \notin {"work", "source"} => r = Reference[Current].answer
       /\ ~Cut /\ r.error # "work" => r = Reference[Current].answer /\ used' = Settled + Works[Current]
  <2>1. CASE Pay(bills).ok
    BY <1>21, <1>22, <1>24, <2>1
  <2>2. CASE ~Pay(bills).ok
    BY <1>14, <1>20, <1>23, <1>24, <2>2
  <2> QED
    BY <2>1, <2>2
<1>28. Return(r)
  BY <1>1, <1>24
<1> QED
  BY <1>1, <1>2, <1>3, <1>25, <1>26, <1>27, <1>28, Returns


-----------------------------------------------------------------------------
(* Between two selectors nothing is charged to either.                     *)
LEMMA IdleIs ==
  ASSUME IInv, phase \notin Working
  PROVE  /\ frame = NoFrame /\ Shape /\ Materialized /\ Traversed /\ Answered
         /\ forest \in Forests /\ limit \in Nat /\ used \in 0..limit
         /\ IF Cut THEN Price > limit ELSE used = Settled
         /\ Settled \in Nat /\ Price \in Nat
<1>1. Shape /\ Materialized /\ Traversed /\ Answered /\ forest \in Forests /\ limit \in Nat /\ used \in 0..limit
  BY SelectorConstants DEF IInv, Shape
<1>2. Settled \in Nat /\ Price \in Nat
  <2>1. seen \subseteq Nodes /\ universes \in SUBSET KindsUsed /\ DOMAIN cache \in SUBSET Nodes
    BY <1>1 DEF Traversed, Materialized, Shape
  <2> QED
    BY <1>1, <2>1, PartOfPrice, PriceIs DEF Settled
<1>3. PICK spent \in Nat : AtWork(spent) /\ IF Cut THEN Price > limit ELSE used = Settled + spent
  BY DEF IInv, Balanced
<1>4. frame = NoFrame /\ spent = 0
  BY <1>3 DEF AtWork
<1> QED
  BY <1>1, <1>2, <1>3, <1>4

(* A step that only says what is resolved next.                            *)
LEMMA Moves ==
  ASSUME IInv, UNCHANGED <<input, tree, used, universes, cache, frame, findings>>,
         phase \in {"traverse", "resolve"}, phase = "traverse" => pending = <<>>,
         NEW next \in {"resolve", "report"}, phase' = next,
         calls' \in Seq(Nodes \ DOMAIN cache),
         \A i, j \in DOMAIN calls' : i < j => calls'[i] < calls'[j],
         next = "report" => calls' = <<>> /\ pending = <<>> /\ ToSet(ordered) \subseteq DOMAIN cache
  PROVE  IInv'
<1>1. /\ forest' = forest /\ limit' = limit /\ previous' = previous /\ pending' = pending
      /\ seen' = seen /\ ordered' = ordered /\ used' = used /\ universes' = universes
      /\ cache' = cache /\ frame' = frame
  BY DEF input, tree
<1>2. /\ Reference' = Reference /\ Nodes' = Nodes /\ KindsUsed' = KindsUsed
      /\ Works' = Works /\ Price' = Price
  BY <1>1, SameForest
<1>3. phase \notin Working /\ next \notin Working
  BY DEF Working
<1>4. Cut' <=> Cut
  BY <1>1 DEF Cut
<1>5. Recursion'
  BY <1>1, <1>2, <1>3 DEF Recursion
<1>6. Shape'
  BY <1>1, <1>2, <1>5 DEF IInv, Shape
<1>7. Materialized'
  BY <1>1, <1>2, <1>3, <1>4 DEF IInv, Materialized
<1>8. Traversed'
  BY <1>1, <1>2 DEF IInv, Traversed, Covered, Refused
<1>9. Answered'
  BY <1>1, <1>2, <1>4 DEF IInv, Answered, AnswersAreExact, Exact
<1>10. Balanced'
  <2>1. frame = NoFrame /\ IF Cut THEN Price > limit ELSE used = Settled
    BY <1>3, IdleIs
  <2>2. AtWork(0)'
    BY <1>1, <1>3, <2>1 DEF AtWork
  <2>3. Settled' = Settled /\ Settled + 0 = Settled
    <3>1. Settled \in Nat
      BY <1>3, IdleIs
    <3> QED
      BY <1>1, <1>2, <3>1 DEF Settled
  <2>4. IF Cut' THEN Price' > limit' ELSE used' = Settled' + 0
    BY <1>1, <1>2, <1>4, <2>1, <2>3
  <2> QED
    BY <2>2, <2>4 DEF Balanced
<1>11. Verdicts'
  BY <1>1, SameCommand DEF IInv, Verdicts
<1> QED
  BY <1>6, <1>7, <1>8, <1>9, <1>10, <1>11 DEF IInv

LEMMA EndTraversalKeeps ==
  ASSUME IInv, EndTraversal
  PROVE  IInv'
<1>1. /\ phase = "traverse" /\ pending = <<>> /\ phase' = "resolve" /\ calls' = calls
      /\ UNCHANGED <<input, tree, used, universes, cache, frame, findings>>
  BY DEF EndTraversal
<1>2. calls \in Seq(Nodes \ DOMAIN cache) /\ \A i, j \in DOMAIN calls : i < j => calls[i] < calls[j]
  BY DEF IInv, Shape, Recursion
<1> QED
  BY <1>1, <1>2, Moves

LEMMA CallKeeps ==
  ASSUME IInv, Call
  PROVE  IInv'
<1>1. /\ phase = "resolve" /\ phase' = "resolve"
      /\ UNCHANGED <<input, tree, used, universes, cache, frame, findings>>
  BY DEF Call, ResolverStep
<1>2. PICK i \in Open : calls' = <<ordered[i]>>
  BY DEF Call
<1>3. ordered \in Seq(Nodes)
  BY DEF IInv, Traversed
<1>4. ordered[i] \in Nodes \ DOMAIN cache
  BY <1>2, <1>3 DEF Open
<1>5. PICK s \in Nodes \ DOMAIN cache : s = ordered[i]
  BY <1>4
<1>6. <<s>> \in Seq(Nodes \ DOMAIN cache) /\ \A a, b \in DOMAIN <<s>> : ~(a < b)
  OBVIOUS
<1>7. calls' = <<s>>
  BY <1>2, <1>5
<1> QED
  BY <1>1, <1>6, <1>7, Moves

LEMMA EndResolutionKeeps ==
  ASSUME IInv, EndResolution
  PROVE  IInv'
<1>1. /\ phase = "resolve" /\ phase' = "report" /\ calls = <<>> /\ calls' = calls /\ Open = {} /\ pending = <<>>
      /\ UNCHANGED <<input, tree, used, universes, cache, frame, findings>>
  BY DEF EndResolution, ResolverStep
<1>2. calls \in Seq(Nodes \ DOMAIN cache) /\ \A i, j \in DOMAIN calls : i < j => calls[i] < calls[j]
  BY DEF IInv, Shape, Recursion
<1>3. ToSet(ordered) \subseteq DOMAIN cache
  BY <1>1 DEF Open, ToSet
<1> QED
  BY <1>1, <1>2, <1>3, Moves

LEMMA ResolveSourceKeeps ==
  ASSUME IInv, ResolveSource
  PROVE  IInv'
<1>1. /\ phase = "resolve" /\ phase' = "resolve" /\ S.of # 0 /\ S.of \notin DOMAIN cache
      /\ calls' = Append(calls, S.of) /\ calls # <<>>
      /\ UNCHANGED <<input, tree, used, universes, cache, frame, findings>>
  BY DEF ResolveSource, ResolverStep
<1>2. /\ calls \in Seq(Nodes \ DOMAIN cache) /\ \A i, j \in DOMAIN calls : i < j => calls[i] < calls[j]
      /\ forest \in Forests
  BY DEF IInv, Shape, Recursion
<1>3. S.of \in Nodes /\ S.of > Current
  BY <1>1, CurrentIs DEF IInv
<1>4. PICK n \in Nat : n = Len(calls) /\ n > 0
  BY <1>1, <1>2
<1>5. Current = calls[n]
  BY <1>4 DEF Current, Last
<1>6. PICK new \in Nodes \ DOMAIN cache : new = S.of
  BY <1>1, <1>3
<1>7. /\ Append(calls, new) \in Seq(Nodes \ DOMAIN cache) /\ DOMAIN Append(calls, new) = 1..(n + 1)
      /\ \A i \in 1..n : Append(calls, new)[i] = calls[i]
      /\ Append(calls, new)[n + 1] = new
  BY <1>2, <1>4, <1>6
<1>8. ASSUME NEW i \in 1..(n + 1), NEW j \in 1..(n + 1), i < j
      PROVE  Append(calls, new)[i] < Append(calls, new)[j]
  <2>1. i \in 1..n
    BY <1>8
  <2>2. CASE j \in 1..n
    BY <1>2, <1>4, <1>7, <1>8, <2>1, <2>2
  <2>3. CASE j = n + 1
    <3>1. calls[i] = calls[n] \/ calls[i] < calls[n]
      BY <1>2, <1>4, <2>1
    <3>2. calls[i] \in Nat /\ calls[n] \in Nat /\ new \in Nat
      <4>1. Nodes \subseteq Nat
        BY <1>2, NodesAre
      <4>2. calls[i] \in Nodes /\ calls[n] \in Nodes
        BY <1>2, <1>4, <2>1
      <4> QED
        BY <4>1, <4>2
    <3>3. calls[n] < new
      BY <1>3, <1>5, <1>6
    <3> QED
      BY <1>7, <2>1, <2>3, <3>1, <3>2, <3>3
  <2>4. j \in 1..n \/ j = n + 1
    BY <1>4, <1>8
  <2> QED
    BY <2>2, <2>3, <2>4
<1>9. PICK more \in Seq(Nodes \ DOMAIN cache) : more = Append(calls, new)
  BY <1>7
<1>10. calls' = more /\ \A i, j \in DOMAIN more : i < j => more[i] < more[j]
  BY <1>1, <1>6, <1>7, <1>8, <1>9
<1> QED
  BY <1>1, <1>10, Moves

(* The selector that did not fit in the traversal.                         *)
LEMMA RefuseLastKeeps ==
  ASSUME IInv, RefuseLast
  PROVE  IInv'
<1> DEFINE c == Last(ordered)
           none == Unresolved("work")
<1>1. /\ forest' = forest /\ limit' = limit /\ previous' = previous /\ pending' = <<>>
      /\ seen' = seen /\ ordered' = ordered /\ used' = used /\ universes' = universes
      /\ calls' = calls /\ calls = <<>> /\ frame' = frame /\ phase = "resolve" /\ phase' = "resolve"
      /\ pending # <<>> /\ findings' = findings
      /\ cache' = [t \in DOMAIN cache \cup {c} |-> IF t = c THEN none ELSE cache[t]]
  BY DEF RefuseLast, Keep, input
<1>2. /\ Reference' = Reference /\ Nodes' = Nodes /\ KindsUsed' = KindsUsed
      /\ Works' = Works /\ Price' = Price
  BY <1>1, SameForest
<1>3. phase \notin Working
  BY <1>1 DEF Working
<1>4. Cut /\ Shape /\ Materialized /\ Traversed /\ Answered /\ Price > limit /\ frame = NoFrame
  BY <1>1, <1>3, IdleIs DEF Cut
<1>5. c \in Nodes
  <2>1. ordered \in Seq(Nodes) /\ ordered # <<>>
    BY <1>1, <1>4 DEF Traversed
  <2> QED
    BY <2>1 DEF Last
<1>6. none \in Answers /\ none.error = "work"
  BY FailedKind DEF Errors, Unresolved, Answer
<1> HIDE DEF none, c
<1>7. /\ DOMAIN cache' = DOMAIN cache \cup {c} /\ cache'[c] = none
      /\ \A s \in DOMAIN cache : s # c => cache'[s] = cache[s]
  BY <1>1
<1>8. Cut'
  BY <1>6, <1>7 DEF Cut
<1>9. Shape'
  <2>1. Recursion'
    BY <1>1, <1>3 DEF Recursion, Working
  <2>2. DOMAIN cache' \subseteq Nodes' /\ \A s \in DOMAIN cache' : cache'[s] \in Answers
    BY <1>2, <1>4, <1>5, <1>6, <1>7 DEF Shape
  <2> QED
    BY <1>1, <1>2, <1>4, <2>1, <2>2 DEF Shape
<1>10. Materialized'
  BY <1>1, <1>2, <1>3, <1>4, <1>8 DEF Materialized
<1>11. Traversed'
  <2>1. <<>> \in Seq(Nodes)
    OBVIOUS
  <2>2. c \in ToSet(ordered)
    <3>1. ordered \in Seq(Nodes) /\ ordered # <<>>
      BY <1>1, <1>4 DEF Traversed
    <3>2. Len(ordered) \in DOMAIN ordered
      BY <3>1
    <3> QED
      BY <3>2 DEF ToSet, Last, c
  <2>3. Refused'
    BY <1>1, <1>6, <1>7, <2>2 DEF Refused
  <2> QED
    BY <1>1, <1>2, <1>4, <2>1, <2>3 DEF Traversed
<1>12. Answered'
  BY <1>2, <1>4, <1>6, <1>7, <1>8 DEF Answered, AnswersAreExact
<1>13. Balanced'
  <2>1. AtWork(0)'
    BY <1>1, <1>3, <1>4 DEF AtWork
  <2> QED
    BY <1>1, <1>2, <1>4, <1>8, <2>1 DEF Balanced
<1>14. Verdicts'
  BY <1>1, SameCommand DEF IInv, Verdicts
<1> QED
  BY <1>9, <1>10, <1>11, <1>12, <1>13, <1>14 DEF IInv

-----------------------------------------------------------------------------
(* A selector begins: it is refused, or it has an answer at once, or it    *)
(* goes to work.                                                           *)
LEMMA BeginIs ==
  ASSUME IInv, phase = "resolve", calls # <<>>
  PROVE  /\ Shape /\ Answered /\ S \in Selector /\ S.kind \in Kinds /\ Current \in Nodes
         /\ Reference[Current] = MeaningAt(Reference, Current) /\ Works[Current] = Reference[Current].work
         /\ limit \in Nat /\ used \in 0..limit /\ Settled \in Nat
         /\ Cut => Price > limit
         /\ ~Cut => used = Settled
<1>1. phase \notin Working
  BY DEF Working
<1>2. /\ Shape /\ Answered /\ limit \in Nat /\ used \in 0..limit /\ Settled \in Nat
      /\ IF Cut THEN Price > limit ELSE used = Settled
  BY <1>1, IdleIs
<1>3. /\ S \in Selector /\ Current \in Nodes /\ Reference[Current] = MeaningAt(Reference, Current)
      /\ Works[Current] = Reference[Current].work
  BY <1>2, CurrentIs
<1> QED
  BY <1>2, <1>3, SelectorFacts

(* What has no answer and costs nothing.                                   *)
LEMMA AnswersFree ==
  ASSUME IInv, UNCHANGED <<input, tree, findings>>, universes' = universes, used' = used,
         phase = "resolve", calls # <<>>, ~Needs(S),
         NEW error \in Errors, error # "work", Return(Unresolved(error)),
         error # "source" \/ ~Cut => Reference[Current] = Meaning(Unresolved(error), 0)
  PROVE  IInv'
<1>1. PICK result : result = Unresolved(error)
  OBVIOUS
<1>2. result \in Answers /\ result.error = error
  BY <1>1, FailedKind DEF Unresolved, Answer
<1>3. /\ used \in 0..limit /\ Works[Current] = Reference[Current].work
      /\ ~Cut => used = Settled /\ Settled \in Nat
  BY BeginIs
<1>4. error # "source" \/ ~Cut => result = Reference[Current].answer /\ Works[Current] = 0
  BY <1>1, <1>3 DEF Meaning
<1>5. ~Cut => used' = Settled + Works[Current]
  BY <1>3, <1>4
<1>6. phase \in {"resolve"} \cup Working /\ Return(result) /\ used' \in 0..limit
  BY <1>1, <1>3
<1>7. result.error \notin {"work", "source"} => result = Reference[Current].answer
  BY <1>2, <1>4
<1>8. ~Cut /\ result.error # "work" => result = Reference[Current].answer /\ used' = Settled + Works[Current]
  BY <1>4, <1>5
<1> QED
  BY <1>2, <1>6, <1>7, <1>8, Returns

LEMMA RefuseKeeps ==
  ASSUME IInv, Refuse
  PROVE  IInv'
<1>1. /\ phase = "resolve" /\ UNCHANGED <<input, tree, findings>> /\ universes' = universes /\ used' = used
      /\ calls # <<>> /\ S.refused # "no" /\ Return(Unresolved(S.refused))
  BY DEF Refuse, ResolverStep
<1>2. S \in Selector /\ Current \in Nodes /\ Reference[Current] = MeaningAt(Reference, Current)
  BY <1>1, BeginIs
<1>3. S.refused \in {"parse", "dynamic"} /\ ~Needs(S)
  BY <1>1, <1>2, SelectorFacts DEF Needs
<1>4. Reference[Current] = Meaning(Unresolved(S.refused), 0)
  BY <1>1, <1>2 DEF MeaningAt, S
<1>5. PICK error \in Errors : error = S.refused /\ error # "work"
  BY <1>3 DEF Errors
<1> QED
  BY <1>1, <1>3, <1>4, <1>5, AnswersFree

(* A collection that is not there yet is paid for and materialized.        *)
LEMMA EnterCollection ==
  ASSUME IInv, Enter, S.of = 0
  PROVE  IInv'
<1> DEFINE key == Key(S.kind)
<1>1. /\ phase = "resolve" /\ UNCHANGED <<input, tree, findings>> /\ calls # <<>> /\ S.refused = "no"
      /\ KnownKind => Charge(<<>>, "universe", NoFrame) /\ universes' = universes
      /\ ~KnownKind =>
           /\ Charge(<<ScanSize(S.kind)>>, "universe", NoFrame)
           /\ universes' = IF Pay(<<ScanSize(S.kind)>>).ok THEN universes \cup {key} ELSE universes
  BY DEF Enter, ResolverStep
<1>2. /\ Shape /\ S \in Selector /\ S.kind \in Kinds /\ limit \in Nat /\ used \in 0..limit /\ Settled \in Nat
      /\ Current \in Nodes
      /\ Cut => Price > limit
      /\ ~Cut => used = Settled
  BY <1>1, BeginIs
<1>3. universes \subseteq KindsUsed /\ key \in KindsUsed /\ seen \subseteq Nodes
  <2>1. key \in KindsUsed
    BY <1>1, <1>2 DEF KindsUsed, S
  <2> QED
    BY <2>1 DEF IInv, Materialized, Traversed
<1>4. PICK f \in Frame : f = NoFrame
  BY NoFrameIs
<1>5. Progress("universe", f, 0) /\ "universe" \in Working /\ phase \in {"resolve"} \cup Working
  BY <1>1 DEF Progress, Working
<1>6. CASE KnownKind
  <2>1. PICK amounts \in Seq(Nat) : amounts = <<>> /\ Total(amounts, 1..Len(amounts)) = 0
    BY TotalOfNone
  <2>2. /\ Pay(amounts).used \in 0..limit
        /\ Pay(amounts).ok <=> used + 0 <= limit
        /\ Pay(amounts).ok => Pay(amounts).used = used + 0
    BY <1>2, <2>1, Paid
  <2>3. Pay(amounts).ok /\ Pay(amounts).used = used
    BY <1>2, <2>2
  <2>4. phase' = "universe" /\ frame' = f /\ UNCHANGED <<cache, calls>> /\ used' = used /\ universes' = universes
    BY <1>1, <1>4, <1>6, <2>1, <2>3 DEF Charge, Goto
  <2>5. ~Cut => used' = Cardinality(seen) + Total(Works, DOMAIN cache) + Total(ScanSizes, universes') + 0
    <3>1. Settled + 0 = Settled
      BY <1>2
    <3> QED
      BY <1>2, <2>4, <3>1 DEF Settled
  <2>6. universes' \in SUBSET KindsUsed /\ universes \subseteq universes' /\ key \in universes'
    BY <1>3, <1>6, <2>4 DEF KnownKind
  <2>7. used' \in 0..limit
    BY <1>2, <2>4
  <2> QED
    BY <1>1, <1>5, <2>4, <2>5, <2>6, <2>7, Stays
<1>7. CASE ~KnownKind
  <2>1. PICK size \in Nat : size = ScanSize(S.kind) /\ size = ScanSizes[key]
    BY <1>2, KindsAre DEF ScanSizes
  <2>2. PICK amounts \in Seq(Nat) : amounts = <<size>> /\ Total(amounts, 1..Len(amounts)) = size
    BY TotalOfOne
  <2>3. /\ Pay(amounts).used \in 0..limit
        /\ Pay(amounts).ok <=> used + size <= limit
        /\ Pay(amounts).ok => Pay(amounts).used = used + size
    BY <1>2, <2>2, Paid
  <2>4. /\ Charge(amounts, "universe", f) /\ used' = Pay(amounts).used
        /\ universes' = IF Pay(amounts).ok THEN universes \cup {key} ELSE universes
    BY <1>1, <1>4, <1>7, <2>1, <2>2 DEF Charge
  <2>5. PICK all \in SUBSET KindsUsed : all = universes \cup {key}
    BY <1>3
  <2>6. Total(ScanSizes, all) = Total(ScanSizes, universes) + size /\ Total(ScanSizes, universes) \in Nat
    <3>1. key \notin universes /\ IsFiniteSet(KindsUsed) /\ \A k \in KindsUsed : ScanSizes[k] \in Nat
      BY <1>2, <1>7, PriceIs DEF KnownKind, Shape
    <3>2. IsFiniteSet(universes) /\ (\A k \in universes : ScanSizes[k] \in Nat) /\ ScanSizes[key] \in Nat
      BY <1>3, <3>1, FS_Subset
    <3> HIDE DEF key
    <3>3. Total(ScanSizes, universes \cup {key}) = Total(ScanSizes, universes) + ScanSizes[key]
          /\ Total(ScanSizes, universes) \in Nat
      BY <3>1, <3>2, TotalMore
    <3> QED
      BY <2>1, <2>5, <3>3
  <2>7. /\ Cardinality(seen) + Total(Works, DOMAIN cache) + Total(ScanSizes, all) + Works[Current] <= Price
        /\ Cardinality(seen) \in Nat /\ Total(Works, DOMAIN cache) \in Nat /\ Total(ScanSizes, all) \in Nat
        /\ Works[Current] \in Nat /\ Price \in Nat
    BY <1>1, <1>2, <1>3, CurrentInPrice, CurrentIs, PriceIs DEF Shape
  <2>8. /\ Cardinality(seen) + Total(Works, DOMAIN cache) + Total(ScanSizes, all) = Settled + size
        /\ Settled + size <= Price
    BY <1>2, <2>6, <2>7 DEF Settled
  <2>9. CASE Pay(amounts).ok
    <3>1. phase' = "universe" /\ frame' = f /\ UNCHANGED <<cache, calls>> /\ used' = used + size /\ universes' = all
      BY <2>3, <2>4, <2>5, <2>9 DEF Charge, Goto
    <3>2. ~Cut => used' = Cardinality(seen) + Total(Works, DOMAIN cache) + Total(ScanSizes, universes') + 0
      BY <1>2, <2>7, <2>8, <3>1
    <3>3. used' \in 0..limit /\ universes \subseteq universes' /\ universes' \in SUBSET KindsUsed /\ key \in universes'
      BY <2>3, <2>4, <2>5, <3>1
    <3> QED
      BY <1>1, <1>5, <3>1, <3>2, <3>3, Stays
  <2>10. CASE ~Pay(amounts).ok
    <3>1. Return(Unresolved("work")) /\ universes' = universes
      BY <2>4, <2>10 DEF Charge
    <3>2. Price > limit
      <4>1. CASE Cut
        BY <1>2, <4>1
      <4>2. CASE ~Cut
        <5>1. used = Settled /\ used + size > limit
          BY <1>2, <2>3, <2>10, <4>2
        <5> QED
          BY <1>2, <2>7, <2>8, <5>1
      <4> QED
        BY <4>1, <4>2
    <3>3. Unresolved("work") \in Answers /\ Unresolved("work").error = "work"
      BY FailedKind DEF Errors, Unresolved, Answer
    <3>4. used' \in 0..limit
      BY <2>3, <2>4
    <3> QED
      BY <1>1, <1>5, <3>1, <3>2, <3>3, <3>4, Returns
  <2> QED
    BY <2>9, <2>10
<1> QED
  BY <1>6, <1>7

(* A selector of a source goes by the answer of the source.                *)
LEMMA EnterRelation ==
  ASSUME IInv, Enter, S.of # 0
  PROVE  IInv'
<1> DEFINE source == cache[S.of]
           index == IF S.kind = "ports" THEN <<Cardinality(Ports)>> ELSE <<>>
           bills == <<Cardinality(DOMAIN source.found)>> \o index
           start == [NoFrame EXCEPT !.todo = DOMAIN source.found]
<1>1. /\ phase = "resolve" /\ UNCHANGED <<input, tree, findings>> /\ calls # <<>> /\ S.refused = "no"
      /\ S.of \in DOMAIN cache /\ universes' = universes
      /\ CASE source.error # "none" -> Return(Unresolved("source")) /\ used' = used
           [] source.error = "none" /\ SourceKind \notin SourceKinds(S.kind) ->
                Return(Unresolved("kind")) /\ used' = used
           [] OTHER -> Charge(bills, "relate", start)
  BY DEF Enter, ResolverStep, SourceKind
<1>2. /\ Shape /\ Answered /\ S \in Selector /\ S.kind \in Kinds /\ Current \in Nodes
      /\ Reference[Current] = MeaningAt(Reference, Current)
      /\ limit \in Nat /\ used \in 0..limit /\ Settled \in Nat
      /\ ~Cut => used = Settled
  BY <1>1, BeginIs
<1>3. ~Needs(S)
  BY DEF Needs
<1>4. CASE source.error # "none"
  <2>1. Return(Unresolved("source")) /\ used' = used
    BY <1>1, <1>4
  <2>2. ~Cut => Reference[Current] = Meaning(Unresolved("source"), 0)
    <3> SUFFICES ASSUME ~Cut PROVE Reference[Current] = Meaning(Unresolved("source"), 0)
      OBVIOUS
    <3>1. source = Reference[S.of].answer
      BY <1>1, <1>2 DEF Answered, Exact
    <3>2. MeaningAt(Reference, Current) = MeaningOfRelated(S, Reference[S.of].answer, SourceKind)
      BY <1>1 DEF MeaningAt, S, SourceKind
    <3> QED
      BY <1>2, <1>4, <3>1, <3>2 DEF MeaningOfRelated
  <2>3. "source" \in Errors
    BY DEF Errors
  <2> QED
    BY <1>1, <1>3, <2>1, <2>2, <2>3, AnswersFree
<1>5. CASE source.error = "none" /\ SourceKind \notin SourceKinds(S.kind)
  <2>1. Return(Unresolved("kind")) /\ used' = used
    BY <1>1, <1>5
  <2>2. Reference[Current] = Meaning(Unresolved("kind"), 0)
    <3>1. Reference[Current] = MeaningOfRelated(S, source, SourceKind)
      BY <1>1, <1>2, <1>5, SourceIs
    <3> QED
      BY <1>5, <3>1 DEF MeaningOfRelated
  <2>3. "kind" \in Errors
    BY DEF Errors
  <2> QED
    BY <1>1, <1>3, <2>1, <2>2, <2>3, AnswersFree
<1>6. CASE source.error = "none" /\ SourceKind \in SourceKinds(S.kind)
  <2>1. Charge(bills, "relate", start)
    BY <1>1, <1>6
  <2>2. Source \in BagsOfObjects /\ Source = source.found
    BY <1>1, <1>2, <1>6, SourceIs DEF Source
  <2>3. PICK m \in Nat : m = Cardinality(DOMAIN Source)
    BY <2>2, BagFacts
  <2>4. PICK ports \in Nat : ports = Cardinality(Ports)
    BY FiniteObjects DEF Objects
  <2>5. PICK extra \in Nat : extra = IF S.kind = "ports" THEN ports ELSE 0
    OBVIOUS
  <2>6. PICK amounts \in Seq(Nat) : amounts = bills /\ Total(amounts, 1..Len(amounts)) = m + extra
    <3>1. CASE S.kind = "ports"
      <4>1. bills = <<m, ports>>
        <5>1. bills = <<m>> \o <<ports>>
          BY <2>2, <2>3, <2>4, <3>1
        <5> QED
          BY <5>1, TwoOfOne
      <4>2. extra = ports
        BY <2>5, <3>1
      <4> QED
        BY <4>1, <4>2, TotalOfTwo
    <3>2. CASE S.kind # "ports"
      <4>1. bills = <<m>>
        BY <2>2, <2>3, <3>2
      <4>2. m + extra = m
        BY <2>5, <3>2
      <4> QED
        BY <4>1, <4>2, TotalOfOne
    <3> QED
      BY <3>1, <3>2
  <2>7. PICK f : f = start
    OBVIOUS
  <2>8. f \in Frame /\ f.todo = DOMAIN Source /\ f.found = EmptyBag /\ f.unmatched = 0
    <3>1. f = [candidates |-> {}, found |-> EmptyBag, at |-> 0, todo |-> DOMAIN Source, visible |-> {},
               everything |-> FALSE, searched |-> {}, unmatched |-> 0]
      BY <2>2, <2>7 DEF NoFrame
    <3>2. DOMAIN Source \in SUBSET Objects
      BY <2>2, BagFacts
    <3> HIDE DEF start
    <3> QED
      BY <3>1, <3>2, NoFrameIs DEF Frame
  <2>9. Charge(amounts, "relate", f)
    BY <2>1, <2>6, <2>7
  <2>10. Relating(f, 0 + (m + extra))
    <3>1. DOMAIN Source \ f.todo = {}
      BY <2>8
    <3>2. Related(S.kind, SourceKind, PartOf(Source, {})) = EmptyBag
      BY DEF Related, PartOf, EmptyBag, SetToBag
    <3>3. Total(RelationWorks(S.kind, SourceKind), {}) = 0
      BY TotalEmpty
    <3>4. 0 + (m + extra) = Cardinality(DOMAIN Source) + (IF S.kind = "ports" THEN Cardinality(Ports) ELSE 0) + 0
      BY <2>3, <2>4, <2>5
    <3> QED
      BY <1>1, <1>6, <2>8, <3>1, <3>2, <3>3, <3>4 DEF Relating
  <2>11. Progress("relate", f, 0 + (m + extra))
    BY <2>10 DEF Progress
  <2>12. ~Cut => used = Settled + 0
    BY <1>2
  <2>13. "relate" \in Working /\ phase \in {"resolve"} \cup Working
    BY <1>1 DEF Working
  <2> HIDE DEF bills, start
  <2>14. PICK total : total = m + extra
    OBVIOUS
  <2>15. total = Total(amounts, 1..Len(amounts)) /\ Progress("relate", f, 0 + total)
    BY <2>6, <2>11, <2>14
  <2> QED
    BY <1>1, <1>3, <2>8, <2>9, <2>12, <2>13, <2>15, Charges
<1> QED
  BY <1>4, <1>5, <1>6

LEMMA EnterKeeps ==
  ASSUME IInv, Enter
  PROVE  IInv'
BY EnterCollection, EnterRelation

-----------------------------------------------------------------------------
(* The traversal.                                                          *)
LEMMA SequencesOf ==
  ASSUME NEW A, NEW a \in Seq(A), NEW b \in Seq(A)
  PROVE  /\ ToSet(a \o b) = ToSet(a) \cup ToSet(b) /\ a \o b \in Seq(A)
         /\ a # <<>> => /\ ToSet(a) = {Head(a)} \cup ToSet(Tail(a))
                        /\ Tail(a) \in Seq(A) /\ Head(a) \in A
         /\ \A x \in A : /\ Append(a, x) \in Seq(A) /\ Append(a, x) # <<>>
                         /\ ToSet(Append(a, x)) = ToSet(a) \cup {x}
<1>1. PICK m \in Nat, n \in Nat : m = Len(a) /\ n = Len(b)
  OBVIOUS
<1>2. \A c \in Seq(A) : \A x : x \in ToSet(c) <=> \E i \in 1..Len(c) : c[i] = x
  BY DEF ToSet
<1>3. a \o b \in Seq(A) /\ ToSet(a \o b) = ToSet(a) \cup ToSet(b)
  <2>0. /\ a \o b \in Seq(A) /\ Len(a \o b) = m + n
        /\ \A i \in 1..m : (a \o b)[i] = a[i]
        /\ \A i \in 1..n : (a \o b)[m + i] = b[i]
    BY <1>1
  <2>1. PICK c \in Seq(A) : /\ c = a \o b /\ Len(c) = m + n
                            /\ \A i \in 1..m : c[i] = a[i]
                            /\ \A i \in 1..n : c[m + i] = b[i]
    BY <2>0
  <2>2. ASSUME NEW x \in ToSet(c) PROVE x \in ToSet(a) \cup ToSet(b)
    <3>1. PICK i \in 1..(m + n) : c[i] = x
      <4>1. PICK i \in 1..Len(c) : c[i] = x
        BY <1>2, <2>2
      <4> QED
        BY <2>1, <4>1
    <3>2. CASE i \in 1..m
      BY <1>1, <1>2, <2>1, <3>1, <3>2
    <3>3. CASE i \notin 1..m
      <4>1. i - m \in 1..n /\ m + (i - m) = i
        BY <1>1, <3>3
      <4> QED
        BY <1>1, <1>2, <2>1, <3>1, <4>1
    <3> QED
      BY <3>2, <3>3
  <2>3. ASSUME NEW x \in ToSet(a) PROVE x \in ToSet(c)
    <3>1. PICK i \in 1..m : a[i] = x
      BY <1>1, <1>2
    <3>2. i \in 1..Len(c) /\ c[i] = x
      BY <1>1, <2>1, <3>1
    <3> QED
      BY <1>2, <3>2
  <2>4. ASSUME NEW x \in ToSet(b) PROVE x \in ToSet(c)
    <3>1. PICK i \in 1..n : b[i] = x
      BY <1>1, <1>2
    <3>2. m + i \in 1..Len(c) /\ c[m + i] = x
      BY <1>1, <2>1, <3>1
    <3> QED
      BY <1>2, <3>2
  <2> QED
    BY <2>1, <2>2, <2>3, <2>4
<1>4. ASSUME a # <<>>
      PROVE  ToSet(a) = {Head(a)} \cup ToSet(Tail(a)) /\ Tail(a) \in Seq(A) /\ Head(a) \in A
  <2>0. /\ m > 0 /\ Tail(a) \in Seq(A) /\ Len(Tail(a)) = m - 1 /\ Head(a) = a[1] /\ Head(a) \in A
        /\ \A i \in 1..(m - 1) : Tail(a)[i] = a[i + 1]
    BY <1>1, <1>4
  <2>1. PICK c \in Seq(A) : /\ c = Tail(a) /\ m > 0 /\ Len(c) = m - 1
                            /\ Head(a) = a[1] /\ Head(a) \in A
                            /\ \A i \in 1..(m - 1) : c[i] = a[i + 1]
    BY <2>0
  <2>2. ASSUME NEW x \in ToSet(a) PROVE x = Head(a) \/ x \in ToSet(c)
    <3>1. PICK i \in 1..m : a[i] = x
      BY <1>1, <1>2
    <3>2. CASE i = 1
      BY <2>1, <3>1, <3>2
    <3>3. CASE i # 1
      <4>1. i - 1 \in 1..(m - 1) /\ (i - 1) + 1 = i
        BY <1>1, <3>3
      <4>2. i - 1 \in 1..Len(c) /\ c[i - 1] = x
        BY <2>1, <3>1, <4>1
      <4> QED
        BY <1>2, <4>2
    <3> QED
      BY <3>2, <3>3
  <2>3. Head(a) \in ToSet(a)
    BY <1>1, <1>2, <2>1
  <2>4. ASSUME NEW x \in ToSet(c) PROVE x \in ToSet(a)
    <3>1. PICK i \in 1..(m - 1) : c[i] = x
      <4>1. PICK i \in 1..Len(c) : c[i] = x
        BY <1>2, <2>4
      <4> QED
        BY <2>1, <4>1
    <3>2. i + 1 \in 1..Len(a) /\ a[i + 1] = x
      BY <1>1, <2>1, <3>1
    <3> QED
      BY <1>2, <3>2
  <2> QED
    BY <2>1, <2>2, <2>3, <2>4
<1>5. ASSUME NEW x \in A
      PROVE  /\ Append(a, x) \in Seq(A) /\ Append(a, x) # <<>>
             /\ ToSet(Append(a, x)) = ToSet(a) \cup {x}
  <2>0. /\ Append(a, x) \in Seq(A) /\ Len(Append(a, x)) = m + 1 /\ Append(a, x)[m + 1] = x
        /\ \A i \in 1..m : Append(a, x)[i] = a[i]
    BY <1>1
  <2>1. PICK c \in Seq(A) : /\ c = Append(a, x) /\ Len(c) = m + 1 /\ c[m + 1] = x
                            /\ \A i \in 1..m : c[i] = a[i]
    BY <2>0
  <2>2. 1..(m + 1) = 1..m \cup {m + 1}
    BY <1>1
  <2>3. c # <<>>
    BY <1>1, <2>1
  <2>4. \A y : y \in ToSet(c) <=> y \in ToSet(a) \/ y = x
    <3>1. \A y : y \in ToSet(c) <=> \E i \in 1..(m + 1) : c[i] = y
      BY <1>2, <2>1
    <3>2. \A y : y \in ToSet(a) <=> \E i \in 1..m : a[i] = y
      BY <1>1, <1>2
    <3> QED
      BY <2>1, <2>2, <3>1, <3>2
  <2> QED
    BY <2>1, <2>3, <2>4
<1> QED
  BY <1>3, <1>4, <1>5

LEMMA TraversalIs ==
  ASSUME IInv, phase = "traverse"
  PROVE  /\ ~Cut /\ DOMAIN cache = {} /\ universes = {} /\ calls = <<>> /\ frame = NoFrame
         /\ used = Cardinality(seen) /\ seen = ToSet(ordered) /\ IsFiniteSet(seen) /\ Cardinality(seen) \in Nat
         /\ Settled = Cardinality(seen)
<1>1. phase \notin Working
  BY DEF Working
<1>2. /\ frame = NoFrame /\ Shape /\ Traversed
      /\ IF Cut THEN Price > limit ELSE used = Settled
  BY <1>1, IdleIs
<1>3. DOMAIN cache = {} /\ universes = {} /\ calls = <<>>
  BY <1>2 DEF Traversed, Shape, Recursion
<1>4. ~Cut
  BY <1>3 DEF Cut
<1>5. seen = ToSet(ordered) /\ IsFiniteSet(seen) /\ Cardinality(seen) \in Nat
  <2>1. seen = ToSet(ordered) /\ seen \in SUBSET Nodes
    BY <1>2 DEF Traversed, Covered
  <2>2. IsFiniteSet(seen) /\ Cardinality(seen) \in Nat
    <3>1. {} \in SUBSET Nodes /\ {} \in SUBSET KindsUsed
      OBVIOUS
    <3> QED
      BY <1>2, <2>1, <3>1, PartOfPrice DEF Shape
  <2> QED
    BY <2>1, <2>2
<1>6. Settled = Cardinality(seen)
  <2>1. Total(Works, {}) = 0 /\ Total(ScanSizes, {}) = 0
    BY TotalEmpty
  <2> QED
    BY <1>3, <1>5, <2>1 DEF Settled
<1> QED
  BY <1>2, <1>3, <1>4, <1>5, <1>6

LEMMA TraverseKeeps ==
  ASSUME IInv, Traverse
  PROVE  IInv'
<1> DEFINE s == Head(pending)
<1>1. /\ forest' = forest /\ limit' = limit /\ previous' = previous /\ universes' = universes
      /\ calls' = calls /\ frame' = frame /\ findings' = findings /\ cache' = cache
      /\ phase = "traverse" /\ pending # <<>>
  BY DEF Traverse, input
<1>2. /\ s \in seen => pending' = Tail(pending) /\ phase' = phase /\ seen' = seen /\ ordered' = ordered /\ used' = used
      /\ s \notin seen => used' = Pay(<<1>>).used /\ ordered' = Append(ordered, s)
      /\ s \notin seen /\ Pay(<<1>>).ok =>
           seen' = seen \cup {s} /\ pending' = forest.node[s].nested \o Tail(pending) /\ phase' = phase
      /\ s \notin seen /\ ~Pay(<<1>>).ok => phase' = "resolve" /\ seen' = seen /\ pending' = pending
  BY DEF Traverse
<1>3. /\ Reference' = Reference /\ Nodes' = Nodes /\ KindsUsed' = KindsUsed
      /\ Works' = Works /\ Price' = Price
  BY <1>1, SameForest
<1>4. /\ ~Cut /\ DOMAIN cache = {} /\ universes = {} /\ calls = <<>> /\ frame = NoFrame
      /\ used = Cardinality(seen) /\ seen = ToSet(ordered) /\ IsFiniteSet(seen) /\ Cardinality(seen) \in Nat
  BY <1>1, TraversalIs
<1>5. /\ Shape /\ Traversed /\ Answered /\ Materialized /\ limit \in Nat /\ used \in 0..limit
      /\ forest \in Forests /\ Price \in Nat
  <2>1. phase \notin Working
    BY <1>1 DEF Working
  <2> QED
    BY <2>1, IdleIs
<1>6. /\ pending \in Seq(Nodes) /\ ordered \in Seq(Nodes) /\ seen \subseteq Nodes
      /\ ToSet(forest.roots) \subseteq seen \cup ToSet(pending)
      /\ \A t \in seen : ToSet(forest.node[t].nested) \subseteq seen \cup ToSet(pending)
  BY <1>1, <1>5 DEF Traversed, Covered
<1>7. /\ s \in Nodes /\ Tail(pending) \in Seq(Nodes) /\ ToSet(pending) = {s} \cup ToSet(Tail(pending))
      /\ forest.node[s].nested \in Seq(Nodes)
      /\ forest.node[s].nested \o Tail(pending) \in Seq(Nodes)
      /\ ToSet(forest.node[s].nested \o Tail(pending)) = ToSet(forest.node[s].nested) \cup ToSet(Tail(pending))
      /\ Append(ordered, s) \in Seq(Nodes) /\ Append(ordered, s) # <<>>
      /\ ToSet(Append(ordered, s)) = ToSet(ordered) \cup {s}
  <2>1. s \in Nodes /\ Tail(pending) \in Seq(Nodes) /\ ToSet(pending) = {s} \cup ToSet(Tail(pending))
    BY <1>1, <1>6, SequencesOf
  <2>2. forest.node[s].nested \in Seq(Nodes)
    BY <1>5, <2>1, NodesAre
  <2> HIDE DEF s
  <2>3. PICK nested \in Seq(Nodes), rest \in Seq(Nodes) : nested = forest.node[s].nested /\ rest = Tail(pending)
    BY <2>1, <2>2
  <2>4. nested \o rest \in Seq(Nodes) /\ ToSet(nested \o rest) = ToSet(nested) \cup ToSet(rest)
    BY SequencesOf
  <2>5. /\ Append(ordered, s) \in Seq(Nodes) /\ Append(ordered, s) # <<>>
        /\ ToSet(Append(ordered, s)) = ToSet(ordered) \cup {s}
    BY <1>6, <2>1, SequencesOf
  <2> QED
    BY <2>1, <2>2, <2>3, <2>4, <2>5
<1>8. /\ Cardinality(seen \cup {s}) <= Price
      /\ s \notin seen => Cardinality(seen \cup {s}) = Cardinality(seen) + 1
  <2>1. Cardinality(seen \cup {s}) <= Price
    <3>1. seen \cup {s} \in SUBSET Nodes /\ {} \in SUBSET Nodes /\ {} \in SUBSET KindsUsed
      BY <1>6, <1>7
    <3>2. /\ Cardinality(seen \cup {s}) \in Nat
          /\ Cardinality(seen \cup {s}) + Total(Works, {}) + Total(ScanSizes, {}) <= Price
      BY <1>5, <3>1, PartOfPrice
    <3>3. Total(Works, {}) = 0 /\ Total(ScanSizes, {}) = 0
      BY TotalEmpty
    <3> QED
      BY <3>2, <3>3
  <2> QED
    BY <1>4, <2>1, FS_AddElement
<1>9. PICK amounts \in Seq(Nat) : amounts = <<1>> /\ Total(amounts, 1..Len(amounts)) = 1
  BY TotalOfOne
<1>10. /\ Pay(amounts).used \in 0..limit
       /\ Pay(amounts).ok <=> used + 1 <= limit
       /\ Pay(amounts).ok => Pay(amounts).used = used + 1
  BY <1>5, <1>9, Paid
<1> HIDE DEF s
<1>11. used' \in 0..limit'
  BY <1>1, <1>2, <1>5, <1>9, <1>10
<1>12. phase' \in {"traverse", "resolve"} /\ phase' \notin Working
  BY <1>1, <1>2 DEF Working
<1>13. Shape'
  <2>1. Recursion'
    BY <1>1, <1>3, <1>4, <1>5, <1>12 DEF Shape, Recursion
  <2> QED
    BY <1>1, <1>3, <1>5, <1>11, <1>12, <2>1 DEF Shape
<1>14. Materialized'
  BY <1>1, <1>3, <1>4, <1>12 DEF Materialized
<1>15. Answered'
  BY <1>1, <1>3, <1>4 DEF Answered, AnswersAreExact
<1>16. Verdicts'
  BY <1>1, <1>12, SameCommand DEF IInv, Verdicts
<1>17. AtWork(0)'
  BY <1>1, <1>4, <1>12 DEF AtWork
<1>18. Settled' = Cardinality(seen')
  <2>1. PICK all : all = seen'
    OBVIOUS
  <2>2. all \in SUBSET Nodes /\ {} \in SUBSET Nodes /\ {} \in SUBSET KindsUsed
    BY <1>2, <1>6, <1>7, <2>1
  <2>3. Cardinality(all) \in Nat
    BY <1>5, <2>2, PartOfPrice
  <2>4. \A f : Total(f, {}) = 0
    BY TotalEmpty
  <2> QED
    BY <1>1, <1>3, <1>4, <2>1, <2>3, <2>4 DEF Settled
<1>19. CASE s \in seen \/ Pay(amounts).ok
  <2>1. phase' = "traverse" /\ ~Cut'
    BY <1>1, <1>2, <1>4, <1>9, <1>19 DEF Cut
  <2>2. used' = Cardinality(seen') + 0
    <3>1. CASE s \in seen
      BY <1>2, <1>4, <3>1
    <3>2. CASE s \notin seen
      <4>1. seen' = seen \cup {s} /\ used' = Pay(amounts).used /\ Pay(amounts).used = used + 1
        BY <1>2, <1>9, <1>10, <1>19, <3>2
      <4>2. used' = Cardinality(seen) + 1 /\ Cardinality(seen') = Cardinality(seen) + 1
        BY <1>4, <1>8, <3>2, <4>1
      <4> QED
        BY <1>4, <4>2
    <3> QED
      BY <3>1, <3>2
  <2>3. Balanced'
    BY <1>17, <1>18, <2>1, <2>2 DEF Balanced
  <2>4. /\ seen' \subseteq Nodes /\ pending' \in Seq(Nodes) /\ ordered' \in Seq(Nodes)
        /\ seen' = ToSet(ordered') /\ ToSet(forest.roots) \subseteq seen' \cup ToSet(pending')
        /\ \A t \in seen' : ToSet(forest.node[t].nested) \subseteq seen' \cup ToSet(pending')
    <3>1. CASE s \in seen
      BY <1>2, <1>4, <1>6, <1>7, <3>1
    <3>2. CASE s \notin seen
      <4>1. /\ seen' = seen \cup {s} /\ pending' = forest.node[s].nested \o Tail(pending)
            /\ ordered' = Append(ordered, s)
        BY <1>2, <1>9, <1>19, <3>2
      <4> QED
        BY <1>4, <1>6, <1>7, <4>1
    <3> QED
      BY <3>1, <3>2
  <2>5. Traversed'
    BY <1>1, <1>3, <1>4, <2>1, <2>4 DEF Traversed, Covered
  <2> QED
    BY <1>13, <1>14, <1>15, <1>16, <2>3, <2>5 DEF IInv
<1>20. CASE s \notin seen /\ ~Pay(amounts).ok
  <2>1. /\ phase' = "resolve" /\ seen' = seen /\ pending' = pending /\ ordered' = Append(ordered, s)
    BY <1>2, <1>9, <1>20
  <2>2. Cut'
    BY <1>1, <2>1 DEF Cut
  <2>3. Price > limit
    BY <1>4, <1>5, <1>8, <1>10, <1>20
  <2>4. Balanced'
    BY <1>1, <1>3, <1>17, <2>2, <2>3 DEF Balanced
  <2>5. Traversed'
    BY <1>1, <1>3, <1>6, <1>7, <2>1 DEF Traversed
  <2> QED
    BY <1>13, <1>14, <1>15, <1>16, <2>4, <2>5 DEF IInv
<1> QED
  BY <1>19, <1>20

-----------------------------------------------------------------------------
(* The end of an audit.                                                    *)
LEMMA ClosingIs ==
  ASSUME IInv, phase \in {"report", "done"}
  PROVE  /\ Cut <=> \E s \in ToSet(ordered) : cache[s].error = "work"
         /\ Cut <=> Price > limit
         /\ ~Cut => ToSet(ordered) = Nodes /\ \A s \in Nodes : cache[s] = Reference[s].answer
<1>1. phase \notin Working /\ phase # "traverse"
  BY DEF Working
<1>2. /\ Shape /\ Materialized /\ Traversed /\ Answered /\ forest \in Forests /\ limit \in Nat
      /\ used \in 0..limit /\ Price \in Nat
      /\ IF Cut THEN Price > limit ELSE used = Settled
  BY <1>1, IdleIs
<1>3. pending = <<>> /\ ToSet(ordered) \subseteq DOMAIN cache /\ seen \subseteq Nodes /\ DOMAIN cache \subseteq Nodes
  BY <1>2 DEF Traversed, Shape
<1>4. Covered => seen = Nodes /\ ToSet(ordered) = Nodes
  <2> SUFFICES ASSUME Covered PROVE seen = Nodes /\ ToSet(ordered) = Nodes
    OBVIOUS
  <2>1. /\ seen = ToSet(ordered) /\ ToSet(forest.roots) \subseteq seen
        /\ \A s \in seen : ToSet(forest.node[s].nested) \subseteq seen
    <3>1. ToSet(<<>>) = {}
      BY DEF ToSet
    <3> QED
      BY <1>3, <3>1 DEF Covered
  <2>2. seen = Nodes
    <3>1. Forest(forest)
      BY <1>2, SelectorConstants
    <3> QED
      BY <1>3, <2>1, <3>1 DEF Forest, Nodes
  <2> QED
    BY <2>1, <2>2
<1>5. Cut <=> \E s \in ToSet(ordered) : cache[s].error = "work"
  <2>1. Covered \/ Refused
    BY <1>1, <1>2, <1>3 DEF Traversed
  <2>2. Cut <=> \E s \in DOMAIN cache : cache[s].error = "work"
    BY <1>3 DEF Cut
  <2> QED
    BY <1>3, <1>4, <2>1, <2>2 DEF Refused
<1>6. ASSUME ~Cut
      PROVE  /\ ToSet(ordered) = Nodes /\ \A s \in Nodes : cache[s] = Reference[s].answer
             /\ Price <= limit
  <2>1. ~Refused
    BY <1>3, <1>6 DEF Refused, Cut
  <2>2. seen = Nodes /\ ToSet(ordered) = Nodes
    BY <1>1, <1>2, <1>3, <1>4, <2>1 DEF Traversed
  <2>3. DOMAIN cache = Nodes
    BY <1>3, <2>2
  <2>4. \A s \in Nodes : cache[s] = Reference[s].answer
    BY <1>2, <1>6, <2>3 DEF Answered, Exact
  <2>5. universes = KindsUsed
    <3>1. ASSUME NEW k \in KindsUsed PROVE k \in universes
      <4>1. PICK s \in Nodes : /\ forest.node[s].refused = "no" /\ forest.node[s].of = 0
                               /\ k = Key(forest.node[s].kind)
        BY DEF KindsUsed
      <4> QED
        BY <1>2, <1>6, <2>3, <4>1 DEF Materialized, Needs
    <3> QED
      BY <1>2, <3>1 DEF Materialized
  <2>6. Settled = Price
    BY <2>2, <2>3, <2>5 DEF Settled, Price
  <2> QED
    BY <1>2, <1>6, <2>2, <2>4, <2>6
<1>7. Cut <=> Price > limit
  <2>1. ~Cut => ~(Price > limit)
    BY <1>2, <1>6
  <2> QED
    BY <1>2, <2>1
<1> QED
  BY <1>6, <1>7, <1>5

LEMMA RulesIs ==
  ASSUME NEW s, NEW q, q.error = "work"
  PROVE  \E rule \in Rules(s, q) : rule # "OC1002"
BY DEF Rules

LEMMA ReportKeeps ==
  ASSUME IInv, Report
  PROVE  IInv'
<1> DEFINE all == UNION {{<<rule, s>> : rule \in Rules(forest.node[s], cache[s])} : s \in ToSet(ordered)}
<1>1. /\ phase = "report" /\ phase' = "done" /\ findings' = all
      /\ forest' = forest /\ limit' = limit /\ previous' = previous /\ pending' = pending
      /\ seen' = seen /\ ordered' = ordered /\ used' = used /\ universes' = universes
      /\ cache' = cache /\ calls' = calls /\ frame' = frame
  BY DEF Report, input, tree
<1>2. /\ Reference' = Reference /\ Nodes' = Nodes /\ KindsUsed' = KindsUsed
      /\ Works' = Works /\ Price' = Price
  BY <1>1, SameForest
<1>3. phase \notin Working /\ phase' \notin Working
  BY <1>1 DEF Working
<1>4. Cut' <=> Cut
  BY <1>1 DEF Cut
<1>5. Shape'
  <2>1. Recursion'
    BY <1>1, <1>2, <1>3 DEF IInv, Shape, Recursion
  <2> QED
    BY <1>1, <1>2, <2>1 DEF IInv, Shape
<1>6. Materialized'
  BY <1>1, <1>2, <1>3, <1>4 DEF IInv, Materialized
<1>7. Traversed'
  BY <1>1, <1>2 DEF IInv, Traversed, Covered, Refused
<1>8. Answered'
  BY <1>1, <1>2, <1>4 DEF IInv, Answered, AnswersAreExact, Exact
<1>9. Balanced'
  <2>1. PICK spent \in Nat : AtWork(spent) /\ IF Cut THEN Price > limit ELSE used = Settled + spent
    BY DEF IInv, Balanced
  <2>2. AtWork(spent)'
    BY <1>1, <1>3, <2>1 DEF AtWork
  <2>3. IF Cut' THEN Price' > limit' ELSE used' = Settled' + spent
    BY <1>1, <1>2, <1>4, <2>1 DEF Settled
  <2> QED
    BY <2>2, <2>3 DEF Balanced
<1>10. Reported(all)
  <2>1. (\E f \in all : f[1] # "OC1002")
          <=> \E s \in ToSet(ordered) : \E rule \in Rules(forest.node[s], cache[s]) : rule # "OC1002"
    <3>1. \A f : f \in all <=>
            \E s \in ToSet(ordered) : \E rule \in Rules(forest.node[s], cache[s]) : f = <<rule, s>>
      OBVIOUS
    <3>2. \A rule, s : <<rule, s>>[1] = rule
      OBVIOUS
    <3> HIDE DEF all
    <3>3. ASSUME NEW f \in all, f[1] # "OC1002"
          PROVE  \E s \in ToSet(ordered) : \E rule \in Rules(forest.node[s], cache[s]) : rule # "OC1002"
      BY <3>1, <3>2, <3>3
    <3>4. ASSUME NEW s \in ToSet(ordered), NEW rule \in Rules(forest.node[s], cache[s]), rule # "OC1002"
          PROVE  \E f \in all : f[1] # "OC1002"
      <4>1. <<rule, s>> \in all
        BY <3>1
      <4> QED
        BY <3>2, <3>4, <4>1
    <3> QED
      BY <3>3, <3>4
  <2>2. CASE Cut
    BY <1>1, <2>1, <2>2, ClosingIs, RulesIs DEF Reported, Complains
  <2>3. CASE ~Cut
    BY <1>1, <2>1, <2>3, ClosingIs DEF Reported, Complains
  <2> QED
    BY <2>2, <2>3
<1>11. Verdicts'
  <2> HIDE DEF all
  <2>1. \A set : Reported(set)' <=> Reported(set)
    BY <1>1, SameCommand
  <2>2. Reported(findings)'
    <3>1. Complains' <=> Complains
      BY <1>1, SameCommand
    <3> QED
      BY <1>1, <1>10, <3>1 DEF Reported
  <2>3. findings' \in Reports
    <3>1. ToSet(ordered) \subseteq Nat
      <4>1. forest \in Forests /\ ToSet(ordered) \subseteq DOMAIN cache /\ DOMAIN cache \subseteq Nodes
        BY <1>1 DEF IInv, Shape, Traversed
      <4> QED
        BY <4>1, NodesAre
    <3>2. \A s, q : Rules(s, q) \subseteq {"OC1001", "OC1002", "OC1003", "OC1004"}
      BY DEF Rules
    <3>3. all \in Reports
      BY <3>1, <3>2 DEF Reports, all
    <3> QED
      BY <1>1, <3>3
  <2> QED
    BY <1>1, <2>1, <2>2, <2>3 DEF IInv, Verdicts
<1> QED
  BY <1>5, <1>6, <1>7, <1>8, <1>9, <1>11 DEF IInv

(* The beginning of an audit, and its repetition.                          *)
Begun ==
  /\ forest \in Forests /\ limit \in Limits
  /\ phase = "traverse" /\ pending = forest.roots /\ seen = {} /\ ordered = <<>>
  /\ used = 0 /\ universes = {} /\ DOMAIN cache = {} /\ calls = <<>> /\ frame = NoFrame
  /\ previous \in Seq(Reports) /\ \A i \in DOMAIN previous : Reported(previous[i])

LEMMA BegunIs == Begun => IInv
<1> SUFFICES ASSUME Begun PROVE IInv
  OBVIOUS
<1>1. /\ forest \in Forests /\ limit \in Limits /\ limit \in Nat
      /\ phase = "traverse" /\ pending = forest.roots /\ seen = {} /\ ordered = <<>>
      /\ used = 0 /\ universes = {} /\ DOMAIN cache = {} /\ calls = <<>> /\ frame = NoFrame
      /\ previous \in Seq(Reports) /\ \A i \in DOMAIN previous : Reported(previous[i])
  BY SelectorConstants DEF Begun
<1>2. phase \notin Working
  BY <1>1 DEF Working
<1>3. ~Cut
  BY <1>1 DEF Cut
<1>4. Shape
  <2>1. <<>> \in Seq(Nodes \ DOMAIN cache) /\ DOMAIN <<>> = {}
    OBVIOUS
  <2>2. Recursion
    BY <1>1, <1>2, <2>1 DEF Recursion
  <2> QED
    BY <1>1, <2>2, NoFrameIs DEF Shape
<1>5. Materialized
  BY <1>1, <1>2 DEF Materialized
<1>6. Traversed
  <2>1. <<>> \in Seq(Nodes) /\ ToSet(<<>>) = {}
    BY DEF ToSet
  <2>2. pending \in Seq(Nodes)
    BY <1>1, NodesAre
  <2> QED
    BY <1>1, <2>1, <2>2 DEF Traversed, Covered
<1>7. Answered
  BY <1>1 DEF Answered, AnswersAreExact
<1>8. Balanced
  <2>1. AtWork(0)
    BY <1>1, <1>2 DEF AtWork
  <2>2. Total(Works, {}) = 0 /\ Total(ScanSizes, {}) = 0 /\ Cardinality({}) = 0
    BY TotalEmpty, FS_EmptySet
  <2>3. used = Settled + 0
    BY <1>1, <2>2 DEF Settled
  <2> QED
    BY <1>3, <2>1, <2>3 DEF Balanced
<1>9. Verdicts
  BY <1>1 DEF Verdicts
<1> QED
  BY <1>4, <1>5, <1>6, <1>7, <1>8, <1>9 DEF IInv

LEMMA RepeatKeeps ==
  ASSUME IInv, Repeat
  PROVE  Begun'
<1>1. /\ forest' = forest /\ limit' = limit /\ phase = "done" /\ previous' = Append(previous, findings)
      /\ phase' = "traverse" /\ pending' = forest.roots /\ seen' = {} /\ ordered' = <<>>
      /\ used' = 0 /\ universes' = {} /\ DOMAIN cache' = {} /\ calls' = <<>> /\ frame' = NoFrame
  BY DEF Repeat
<1>2. /\ forest \in Forests /\ limit \in Limits /\ previous \in Seq(Reports) /\ findings \in Reports
      /\ \A i \in DOMAIN previous : Reported(previous[i])
      /\ Reported(findings)
  BY <1>1 DEF IInv, Shape, Verdicts
<1>3. Complains' <=> Complains
  BY <1>1, SameCommand
<1>4. PICK all \in Seq(Reports) : all = Append(previous, findings)
  <2>1. Append(previous, findings) \in Seq(Reports)
    BY <1>2
  <2> QED
    BY <2>1
<1>5. \A i \in DOMAIN all : Reported(all[i])
  BY <1>2, <1>4
<1>6. \A i \in DOMAIN previous' : Reported(previous'[i])
  BY <1>1, <1>4, <1>5
<1>7. (\A i \in DOMAIN previous : Reported(previous[i]))'
  BY <1>3, <1>6 DEF Reported
<1> QED
  BY <1>1, <1>2, <1>4, <1>7 DEF Begun

-----------------------------------------------------------------------------
LEMMA StepKeeps == IInv /\ [Next]_vars => IInv'
<1> SUFFICES ASSUME IInv, [Next]_vars PROVE IInv'
  OBVIOUS
<1>1. CASE Traverse \/ EndTraversal \/ Call \/ RefuseLast \/ EndResolution \/ Refuse \/ ResolveSource \/ Enter
  BY <1>1, TraverseKeeps, EndTraversalKeeps, CallKeeps, RefuseLastKeeps, EndResolutionKeeps, RefuseKeeps,
     ResolveSourceKeeps, EnterKeeps
<1>2. CASE TakeUniverse \/ EndRelation \/ \E n \in Objects : Relate(n)
  BY <1>2, TakeUniverseKeeps, EndRelationKeeps, RelateKeeps
<1>3. CASE TakePattern \/ EndRoute \/ Match \/ EndScan \/ Select \/ EndPatterns
  BY <1>3, TakePatternKeeps, EndRouteKeeps, MatchKeeps, EndScanKeeps, SelectKeeps, EndPatternsKeeps
<1>4. CASE \E n \in Objects : Route(n) \/ Scan(n)
  BY <1>4, RouteKeeps, ScanKeeps
<1>5. CASE Finish \/ Report
  BY <1>5, FinishKeeps, ReportKeeps
<1>6. CASE Repeat
  <2>1. Begun'
    BY <1>6, RepeatKeeps
  <2>2. Begun' => IInv'
    BY BegunIs, PTL
  <2> QED
    BY <2>1, <2>2
<1>7. CASE UNCHANGED vars
  <2>1. /\ forest' = forest /\ limit' = limit /\ phase' = phase /\ pending' = pending /\ seen' = seen
        /\ ordered' = ordered /\ used' = used /\ universes' = universes /\ cache' = cache
        /\ calls' = calls /\ frame' = frame /\ findings' = findings /\ previous' = previous
    BY <1>7 DEF vars
  <2>2. /\ Reference' = Reference /\ Nodes' = Nodes /\ KindsUsed' = KindsUsed
        /\ Works' = Works /\ Price' = Price
    BY <2>1, SameForest
  <2>3. S' = S /\ Current' = Current /\ (Cut' <=> Cut) /\ Settled' = Settled
    BY <2>1, <2>2 DEF S, Current, Cut, Settled
  <2>4. Recursion'
    BY <2>1, <2>2, <2>3 DEF IInv, Shape, Recursion
  <2>5. Shape'
    BY <2>1, <2>2, <2>4 DEF IInv, Shape
  <2>6. Materialized'
    BY <2>1, <2>2, <2>3 DEF IInv, Materialized
  <2>7. Traversed'
    BY <2>1, <2>2, <2>3 DEF IInv, Traversed, Covered, Refused
  <2>8. Answered'
    BY <2>1, <2>2, <2>3 DEF IInv, Answered, AnswersAreExact, Exact
  <2>9. Balanced'
    <3>1. PICK spent \in Nat : AtWork(spent) /\ IF Cut THEN Price > limit ELSE used = Settled + spent
      BY DEF IInv, Balanced
    <3>2. PICK at, f : at = phase /\ f = frame
      OBVIOUS
    <3>3. Progress(at, f, spent) <=> Progress(at, f, spent)'
      BY <2>1, SameProgress
    <3>4. AtWork(spent)'
      BY <2>1, <3>1, <3>2, <3>3 DEF AtWork
    <3> QED
      BY <2>1, <2>2, <2>3, <3>1, <3>4 DEF Balanced
  <2>10. Verdicts'
    BY <2>1, SameCommand DEF IInv, Verdicts
  <2> QED
    BY <2>5, <2>6, <2>7, <2>8, <2>9, <2>10 DEF IInv
<1> QED
  BY <1>1, <1>2, <1>3, <1>4, <1>5, <1>6, <1>7 DEF Next, Step

LEMMA Invariant == Spec => []IInv
<1>1. Init => IInv
  <2> SUFFICES ASSUME Init PROVE IInv
    OBVIOUS
  <2>1. previous = <<>> /\ <<>> \in Seq(Reports) /\ DOMAIN <<>> = {}
    BY DEF Init
  <2>2. Begun
    BY <2>1 DEF Init, Begun
  <2> QED
    BY <2>2, BegunIs
<1> QED
  BY <1>1, StepKeeps, PTL DEF Spec

(* docs/rules/OC1004.md:34-35, 46-48: an answer is the whole collection    *)
(* that the selector denotes, or it is no answer.                          *)
THEOREM NoPartialAnswer == Spec => []AnswersAreExact
<1>1. IInv => AnswersAreExact
  BY DEF IInv, Answered
<1> QED
  BY <1>1, Invariant, PTL

(* docs/rules/OC1004.md:31-35: a selector runs out of work exactly when    *)
(* the price of the command exceeds the limit, in whatever order the sets  *)
(* are walked and whichever charges still fit.                             *)
THEOREM WorkEndsIffTooDear == Spec => []ExhaustedIffTooDear
<1>1. IInv => ExhaustedIffTooDear
  BY ClosingIs DEF ExhaustedIffTooDear
<1> QED
  BY <1>1, Invariant, PTL

(* docs/report-formats.md:97-98: the repetitions of an audit agree on      *)
(* whether it complains, and so do the gates.                              *)
THEOREM OrderKeepsTheVerdict == Spec => []SameVerdict
<1>1. IInv => SameVerdict
  <2> SUFFICES ASSUME IInv, phase = "done", NEW i \in DOMAIN previous
               PROVE  (\E f \in findings : f[1] # "OC1002") <=> (\E f \in previous[i] : f[1] # "OC1002")
    BY DEF SameVerdict
  <2> QED
    BY DEF IInv, Verdicts, Reported
<1> QED
  BY <1>1, Invariant, PTL
=============================================================================
