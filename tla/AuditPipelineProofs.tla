------------------------ MODULE AuditPipelineProofs ------------------------
(***************************************************************************)
(* That a mode is judged from all its files or none, that no failure of    *)
(* OpenSTA and no diagnostic is lost, and that no gate passes blindly, for *)
(* any modes, files, budgets, file rewrites and OpenSTA outcomes.          *)
(***************************************************************************)
EXTENDS AuditPipeline, FiniteSetTheorems, WellFoundedInduction, TLAPS

-----------------------------------------------------------------------------
(* Induction, stated with a set for the property: a set that holds 0 and   *)
(* the successor of each of its members holds every natural number.        *)
LEMMA Naturals ==
  ASSUME NEW G, 0 \in G, \A n \in Nat : n \in G => n + 1 \in G
  PROVE  Nat \subseteq G
<1> SUFFICES ASSUME ~(Nat \subseteq G) PROVE FALSE
  OBVIOUS
<1> DEFINE R == OpToRel(<, Nat)
           bad == Nat \ G
<1>1. IsWellFoundedOn(R, Nat)
  BY NatLessThanWellFounded
<1>2. \A x, y \in Nat : <<y, x>> \in R <=> y < x
  BY DEF OpToRel
<1>3. bad \subseteq Nat /\ bad # {}
  OBVIOUS
<1> HIDE DEF R, bad
<1>4. PICK x \in bad : \A y \in bad : ~(<<y, x>> \in R)
  BY <1>1, <1>3, WFMin
<1>5. x \in Nat /\ x \notin G /\ x # 0
  BY <1>4 DEF bad
<1>6. x - 1 \in Nat /\ x - 1 < x /\ (x - 1) + 1 = x
  BY <1>5
<1>7. x - 1 \in bad
  BY <1>5, <1>6 DEF bad
<1> QED
  BY <1>2, <1>4, <1>5, <1>6, <1>7

(* The same for sequences, which are built by Append.                      *)
LEMMA SequencesByAppend ==
  ASSUME NEW S, NEW G, <<>> \in G,
         \A s \in Seq(S) : \A x \in S : s \in G => Append(s, x) \in G
  PROVE  Seq(S) \subseteq G
<1> DEFINE H == {n \in Nat : \A s \in Seq(S) : Len(s) = n => s \in G}
<1>1. 0 \in H
  <2>1. ASSUME NEW s \in Seq(S), Len(s) = 0 PROVE s \in G
    <3>1. s = <<>>
      BY <2>1
    <3> QED
      BY <3>1
  <2> QED
    BY <2>1
<1>2. ASSUME NEW n \in Nat, n \in H PROVE n + 1 \in H
  <2>1. ASSUME NEW s \in Seq(S), Len(s) = n + 1 PROVE s \in G
    <3> DEFINE front == SubSeq(s, 1, n)
    <3>1. front \in Seq(S) /\ Len(front) = n /\ s[n + 1] \in S
      BY <2>1
    <3>2. s = Append(front, s[n + 1])
      BY <2>1
    <3>3. front \in G
      BY <1>2, <3>1
    <3> HIDE DEF front
    <3> QED
      BY <3>1, <3>2, <3>3
  <2> QED
    BY <2>1
<1> HIDE DEF H
<1>3. Nat \subseteq H
  BY <1>1, <1>2, Naturals
<1> QED
  BY <1>3 DEF H

(* The elements of a sequence, and how often each is in it.                *)
LEMMA ElementsOfAppend ==
  ASSUME NEW S, NEW s \in Seq(S), NEW x \in S
  PROVE  ToSet(Append(s, x)) = ToSet(s) \cup {x}
<1>1. DOMAIN s = 1..Len(s) /\ DOMAIN Append(s, x) = 1..(Len(s) + 1) /\ Len(s) \in Nat
  OBVIOUS
<1>2. \A i \in 1..Len(s) : Append(s, x)[i] = s[i]
  OBVIOUS
<1>3. Append(s, x)[Len(s) + 1] = x
  OBVIOUS
<1>4. 1..(Len(s) + 1) = 1..Len(s) \cup {Len(s) + 1}
  BY <1>1
<1> QED
  BY <1>1, <1>2, <1>3, <1>4 DEF ToSet

LEMMA ElementsOfJoin ==
  ASSUME NEW S, NEW s \in Seq(S), NEW t \in Seq(S)
  PROVE  ToSet(s \o t) = ToSet(s) \cup ToSet(t)
<1>1. /\ DOMAIN s = 1..Len(s) /\ DOMAIN t = 1..Len(t) /\ Len(s) \in Nat /\ Len(t) \in Nat
      /\ DOMAIN (s \o t) = 1..(Len(s) + Len(t))
  OBVIOUS
<1>2. /\ \A i \in 1..Len(s) : i \in DOMAIN (s \o t) /\ (s \o t)[i] = s[i]
      /\ \A i \in 1..Len(t) : Len(s) + i \in DOMAIN (s \o t) /\ (s \o t)[Len(s) + i] = t[i]
  BY <1>1
<1>3. ASSUME NEW k \in DOMAIN (s \o t)
      PROVE  \/ k \in 1..Len(s)
             \/ \E i \in 1..Len(t) : k = Len(s) + i
  <2>1. CASE k <= Len(s)
    BY <1>1, <2>1
  <2>2. CASE k > Len(s)
    <3>1. k - Len(s) \in 1..Len(t) /\ k = Len(s) + (k - Len(s))
      BY <1>1, <2>2
    <3> QED
      BY <3>1
  <2> QED
    BY <1>1, <2>1, <2>2
<1>4. ToSet(s) \cup ToSet(t) \subseteq ToSet(s \o t)
  BY <1>1, <1>2 DEF ToSet
<1>5. ToSet(s \o t) \subseteq ToSet(s) \cup ToSet(t)
  BY <1>1, <1>2, <1>3 DEF ToSet
<1> QED
  BY <1>4, <1>5

LEMMA TimesType ==
  ASSUME NEW S, NEW s \in Seq(S), NEW f
  PROVE  IsFiniteSet({i \in DOMAIN s : s[i] = f}) /\ Times(f, s) \in Nat
<1>1. DOMAIN s = 1..Len(s) /\ Len(s) \in Nat
  OBVIOUS
<1>2. IsFiniteSet(1..Len(s))
  BY <1>1, FS_Interval
<1>3. IsFiniteSet({i \in DOMAIN s : s[i] = f})
  BY <1>1, <1>2, FS_Subset
<1> QED
  BY <1>3, FS_CardinalityType DEF Times

LEMMA TimesOfAppend ==
  ASSUME NEW S, NEW s \in Seq(S), NEW x \in S, NEW f
  PROVE  Times(f, Append(s, x)) = IF x = f THEN Times(f, s) + 1 ELSE Times(f, s)
<1> DEFINE n == Len(s)
           at == {i \in DOMAIN s : s[i] = f}
           after == {i \in DOMAIN Append(s, x) : Append(s, x)[i] = f}
<1>1. DOMAIN s = 1..n /\ DOMAIN Append(s, x) = 1..(n + 1) /\ n \in Nat
  OBVIOUS
<1>2. \A i \in 1..n : Append(s, x)[i] = s[i]
  OBVIOUS
<1>3. Append(s, x)[n + 1] = x
  OBVIOUS
<1>4. 1..(n + 1) = 1..n \cup {n + 1} /\ n + 1 \notin 1..n
  BY <1>1
<1>5. n + 1 \notin at /\ after = IF x = f THEN at \cup {n + 1} ELSE at
  <2> HIDE DEF n
  <2> QED
    BY <1>1, <1>2, <1>3, <1>4
<1>6. IsFiniteSet(at) /\ Cardinality(at) = Times(f, s)
  BY TimesType DEF Times
<1>7. Cardinality(after) = Times(f, Append(s, x))
  BY DEF Times
<1> HIDE DEF at, after, n
<1>8. Cardinality(at \cup {n + 1}) = Cardinality(at) + 1
  BY <1>5, <1>6, FS_AddElement
<1> QED
  BY <1>5, <1>6, <1>7, <1>8

LEMMA TimesOfJoin ==
  ASSUME NEW S, NEW s \in Seq(S), NEW t \in Seq(S), NEW f
  PROVE  Times(f, s \o t) = Times(f, s) + Times(f, t)
<1> DEFINE G == {r \in Seq(S) : Times(f, s \o r) = Times(f, s) + Times(f, r)}
<1>1. <<>> \in G
  <2>1. {i \in DOMAIN <<>> : <<>>[i] = f} = {}
    OBVIOUS
  <2>2. Times(f, <<>>) = 0
    BY <2>1, FS_EmptySet DEF Times
  <2>3. Times(f, s) \in Nat
    BY TimesType
  <2>4. s \o <<>> = s /\ <<>> \in Seq(S)
    OBVIOUS
  <2> QED
    BY <2>2, <2>3, <2>4
<1>2. ASSUME NEW r \in Seq(S), NEW x \in S, r \in G PROVE Append(r, x) \in G
  <2>1. s \o r \in Seq(S) /\ Append(r, x) \in Seq(S)
    OBVIOUS
  <2>2. s \o Append(r, x) = Append(s \o r, x)
    OBVIOUS
  <2>3. Times(f, Append(s \o r, x)) = IF x = f THEN Times(f, s \o r) + 1 ELSE Times(f, s \o r)
    BY <2>1, TimesOfAppend
  <2>4. Times(f, Append(r, x)) = IF x = f THEN Times(f, r) + 1 ELSE Times(f, r)
    BY TimesOfAppend
  <2>5. Times(f, s) \in Nat /\ Times(f, r) \in Nat
    BY TimesType
  <2>6. Times(f, s \o r) = Times(f, s) + Times(f, r)
    BY <1>2
  <2>7. Times(f, Append(s \o r, x)) = Times(f, s) + Times(f, Append(r, x))
    BY <2>3, <2>4, <2>5, <2>6
  <2> QED
    BY <2>1, <2>2, <2>7
<1> HIDE DEF G
<1>3. Seq(S) \subseteq G
  BY <1>1, <1>2, SequencesByAppend
<1> QED
  BY <1>3 DEF G

-----------------------------------------------------------------------------
(* What Flat and Bytes compute.  The recursive function on the prefixes    *)
(* exists, and is the only one.                                            *)
Flattens(f, lists, n) ==
  f = [i \in 0..n |-> IF i = 0 THEN <<>> ELSE f[i - 1] \o lists[i]]

LEMMA FlattensExists ==
  ASSUME NEW lists, NEW n \in Nat
  PROVE  \E f : Flattens(f, lists, n)
<1> DEFINE G == {k \in Nat : \E f : Flattens(f, lists, k)}
<1>1. 0 \in G
  <2> DEFINE f == [i \in 0..0 |-> <<>>]
  <2>1. f = [i \in 0..0 |-> IF i = 0 THEN <<>> ELSE f[i - 1] \o lists[i]]
    OBVIOUS
  <2> QED
    BY <2>1 DEF Flattens
<1>2. ASSUME NEW k \in Nat, k \in G PROVE k + 1 \in G
  <2>1. PICK f : Flattens(f, lists, k)
    BY <1>2
  <2> DEFINE g == [i \in 0..(k + 1) |-> IF i = k + 1 THEN f[k] \o lists[k + 1] ELSE f[i]]
             h == [i \in 0..(k + 1) |-> IF i = 0 THEN <<>> ELSE g[i - 1] \o lists[i]]
  <2>2. ASSUME NEW i \in 0..(k + 1) PROVE g[i] = h[i]
    <3>1. CASE i = k + 1
      <4>1. i # 0 /\ i - 1 = k /\ k \in 0..(k + 1) /\ k # k + 1
        BY <3>1
      <4>2. g[k] = f[k] /\ g[i] = f[k] \o lists[k + 1]
        BY <3>1, <4>1
      <4> QED
        BY <3>1, <4>1, <4>2
    <3>2. CASE i # k + 1
      <4>1. i \in 0..k /\ (i # 0 => i - 1 \in 0..(k + 1) /\ i - 1 # k + 1)
        BY <3>2
      <4>2. g[i] = f[i] /\ (i # 0 => g[i - 1] = f[i - 1])
        BY <3>2, <4>1
      <4>3. f[i] = IF i = 0 THEN <<>> ELSE f[i - 1] \o lists[i]
        BY <2>1, <4>1 DEF Flattens
      <4> QED
        BY <4>2, <4>3
    <3> QED
      BY <3>1, <3>2
  <2>3. g = h
    BY <2>2
  <2>4. Flattens(g, lists, k + 1)
    BY <2>3 DEF Flattens
  <2> QED
    BY <2>4
<1> HIDE DEF G
<1>3. Nat \subseteq G
  BY <1>1, <1>2, Naturals
<1> QED
  BY <1>3 DEF G

LEMMA FlatIsFlattened ==
  ASSUME NEW lists, Len(lists) \in Nat
  PROVE  \E f : Flattens(f, lists, Len(lists)) /\ Flat(lists) = f[Len(lists)]
<1> DEFINE f == CHOOSE f : Flattens(f, lists, Len(lists))
<1>1. Flattens(f, lists, Len(lists))
  BY FlattensExists
<1>2. Flat(lists) = f[Len(lists)]
  BY DEF Flat, Flattens
<1> QED
  BY <1>1, <1>2

LEMMA FlattensStep ==
  ASSUME NEW lists, NEW n \in Nat, NEW f, Flattens(f, lists, n)
  PROVE  f[0] = <<>> /\ \A i \in 1..n : f[i] = f[i - 1] \o lists[i]
<1>1. \A i \in 0..n : f[i] = IF i = 0 THEN <<>> ELSE f[i - 1] \o lists[i]
  BY DEF Flattens
<1>2. 0 \in 0..n /\ \A i \in 1..n : i \in 0..n /\ i # 0
  OBVIOUS
<1> QED
  BY <1>1, <1>2

(* Flat lists what the lists do.                                           *)
LEMMA ElementsOfFlat ==
  ASSUME NEW S, NEW lists \in Seq(Seq(S))
  PROVE  /\ Flat(lists) \in Seq(S)
         /\ ToSet(Flat(lists)) = UNION {ToSet(lists[i]) : i \in DOMAIN lists}
<1> DEFINE n == Len(lists)
<1>1. n \in Nat /\ DOMAIN lists = 1..n /\ \A i \in 1..n : lists[i] \in Seq(S)
  OBVIOUS
<1>2. PICK f : Flattens(f, lists, n) /\ Flat(lists) = f[n]
  BY FlatIsFlattened
<1> HIDE DEF n
<1>3. f[0] = <<>> /\ \A i \in 1..n : f[i] = f[i - 1] \o lists[i]
  BY <1>1, <1>2, FlattensStep
<1> DEFINE G == {k \in Nat : k <= n => /\ f[k] \in Seq(S)
                                       /\ ToSet(f[k]) = UNION {ToSet(lists[i]) : i \in 1..k}}
<1>4. 0 \in G
  <2>1. ToSet(<<>>) = {} /\ <<>> \in Seq(S) /\ 1..0 = {}
    BY DEF ToSet
  <2> QED
    BY <1>3, <2>1
<1>5. ASSUME NEW k \in Nat, k \in G PROVE k + 1 \in G
  <2> SUFFICES ASSUME k + 1 <= n
               PROVE  /\ f[k + 1] \in Seq(S)
                      /\ ToSet(f[k + 1]) = UNION {ToSet(lists[i]) : i \in 1..(k + 1)}
    OBVIOUS
  <2>1. k + 1 \in 1..n /\ (k + 1) - 1 = k /\ k <= n /\ 1..(k + 1) = 1..k \cup {k + 1}
    BY <1>1
  <2>2. f[k] \in Seq(S) /\ ToSet(f[k]) = UNION {ToSet(lists[i]) : i \in 1..k}
    BY <1>5, <2>1
  <2>3. f[k + 1] = f[k] \o lists[k + 1] /\ lists[k + 1] \in Seq(S)
    BY <1>1, <1>3, <2>1
  <2>4. ToSet(f[k + 1]) = ToSet(f[k]) \cup ToSet(lists[k + 1])
    BY <2>2, <2>3, ElementsOfJoin
  <2>5. f[k + 1] \in Seq(S)
    BY <2>2, <2>3
  <2> QED
    BY <2>1, <2>2, <2>4, <2>5
<1> HIDE DEF G
<1>6. n \in G
  BY <1>1, <1>4, <1>5, Naturals
<1> QED
  BY <1>1, <1>2, <1>6 DEF G

LEMMA ElementsOfOnly ==
  ASSUME NEW S, NEW s \in Seq(S), NEW P
  PROVE  Only(s, P) \in Seq(S) /\ ToSet(Only(s, P)) = ToSet(s) \cap P
<1> DEFINE lists == [i \in DOMAIN s |-> IF s[i] \in P THEN <<s[i]>> ELSE <<>>]
<1>1. DOMAIN s = 1..Len(s) /\ Len(s) \in Nat /\ \A i \in DOMAIN s : s[i] \in S
  OBVIOUS
<1>2. \A i \in DOMAIN s : lists[i] \in Seq(S)
  BY <1>1
<1>3. lists \in Seq(Seq(S))
  BY <1>1, <1>2
<1>4. \A i \in DOMAIN s : ToSet(lists[i]) = IF s[i] \in P THEN {s[i]} ELSE {}
  BY DEF ToSet
<1>5. Flat(lists) \in Seq(S) /\ ToSet(Flat(lists)) = UNION {ToSet(lists[i]) : i \in DOMAIN s}
  BY <1>3, ElementsOfFlat
<1>6. UNION {ToSet(lists[i]) : i \in DOMAIN s} = ToSet(s) \cap P
  BY <1>4 DEF ToSet
<1> HIDE DEF lists
<1> QED
  BY <1>5, <1>6 DEF Only, lists

(* One list more at the k-th place adds its elements, each as often.       *)
Lengthened(S, lists, longer, k, new) ==
  /\ lists \in Seq(Seq(S)) /\ longer \in Seq(Seq(S)) /\ new \in Seq(S) /\ k \in DOMAIN lists
  /\ Len(longer) = Len(lists) /\ longer[k] = lists[k] \o new
  /\ \A i \in DOMAIN lists \ {k} : longer[i] = lists[i]

LEMMA TimesOfFlat ==
  ASSUME NEW S, NEW lists, NEW longer, NEW k, NEW new, NEW d,
         Lengthened(S, lists, longer, k, new)
  PROVE  Times(d, Flat(longer)) = Times(d, Flat(lists)) + Times(d, new)
<1>l. /\ lists \in Seq(Seq(S)) /\ longer \in Seq(Seq(S)) /\ new \in Seq(S) /\ k \in DOMAIN lists
      /\ Len(longer) = Len(lists) /\ longer[k] = lists[k] \o new
      /\ \A i \in DOMAIN lists \ {k} : longer[i] = lists[i]
  BY DEF Lengthened
<1> DEFINE n == Len(lists)
<1>1. /\ n \in Nat /\ DOMAIN lists = 1..n
      /\ \A i \in 1..n : lists[i] \in Seq(S) /\ longer[i] \in Seq(S)
  BY <1>l
<1>2. PICK f : Flattens(f, lists, n) /\ Flat(lists) = f[n]
  BY <1>1, FlatIsFlattened
<1>3. PICK g : Flattens(g, longer, n) /\ Flat(longer) = g[n]
  <2>1. Len(longer) = n
    BY <1>l
  <2> QED
    BY <1>1, <2>1, FlatIsFlattened
<1> HIDE DEF n
<1>4. f[0] = <<>> /\ \A i \in 1..n : f[i] = f[i - 1] \o lists[i]
  BY <1>1, <1>2, FlattensStep
<1>5. g[0] = <<>> /\ \A i \in 1..n : g[i] = g[i - 1] \o longer[i]
  BY <1>1, <1>3, FlattensStep
<1>6. Times(d, new) \in Nat
  BY <1>l, TimesType
<1> DEFINE G == {j \in Nat : j <= n =>
                   /\ f[j] \in Seq(S) /\ g[j] \in Seq(S)
                   /\ Times(d, g[j]) = Times(d, f[j]) + (IF j < k THEN 0 ELSE Times(d, new))}
<1>7. 0 \in G
  <2>1. <<>> \in Seq(S) /\ 0 < k
    BY <1>1, <1>l
  <2>2. Times(d, <<>>) \in Nat
    BY <2>1, TimesType
  <2>3. Times(d, <<>>) = Times(d, <<>>) + 0
    BY <2>2
  <2> QED
    BY <1>4, <1>5, <2>1, <2>3
<1>8. ASSUME NEW j \in Nat, j \in G PROVE j + 1 \in G
  <2> SUFFICES ASSUME j + 1 <= n
               PROVE  /\ f[j + 1] \in Seq(S) /\ g[j + 1] \in Seq(S)
                      /\ Times(d, g[j + 1]) =
                           Times(d, f[j + 1]) + (IF j + 1 < k THEN 0 ELSE Times(d, new))
    OBVIOUS
  <2>1. j + 1 \in 1..n /\ (j + 1) - 1 = j /\ j <= n
    BY <1>1
  <2>2. /\ f[j] \in Seq(S) /\ g[j] \in Seq(S)
        /\ Times(d, g[j]) = Times(d, f[j]) + (IF j < k THEN 0 ELSE Times(d, new))
    BY <1>8, <2>1
  <2>3. f[j + 1] = f[j] \o lists[j + 1] /\ g[j + 1] = g[j] \o longer[j + 1]
    BY <1>4, <1>5, <2>1
  <2>4. lists[j + 1] \in Seq(S) /\ longer[j + 1] \in Seq(S)
    BY <1>1, <2>1
  <2>5. /\ Times(d, f[j + 1]) = Times(d, f[j]) + Times(d, lists[j + 1])
        /\ Times(d, g[j + 1]) = Times(d, g[j]) + Times(d, longer[j + 1])
    <3>1. Times(d, f[j] \o lists[j + 1]) = Times(d, f[j]) + Times(d, lists[j + 1])
      BY <2>2, <2>4, TimesOfJoin
    <3>2. Times(d, g[j] \o longer[j + 1]) = Times(d, g[j]) + Times(d, longer[j + 1])
      BY <2>2, <2>4, TimesOfJoin
    <3> QED
      BY <2>3, <3>1, <3>2
  <2>6. Times(d, f[j]) \in Nat /\ Times(d, lists[j + 1]) \in Nat
    BY <2>2, <2>4, TimesType
  <2>7. Times(d, longer[j + 1]) =
          Times(d, lists[j + 1]) + (IF j + 1 = k THEN Times(d, new) ELSE 0)
    <3>1. CASE j + 1 = k
      BY <1>l, <2>4, <3>1, TimesOfJoin
    <3>2. CASE j + 1 # k
      <4>1. longer[j + 1] = lists[j + 1]
        BY <1>1, <1>l, <2>1, <3>2
      <4> QED
        BY <2>6, <3>2, <4>1
    <3> QED
      BY <3>1, <3>2
  <2>8. f[j + 1] \in Seq(S) /\ g[j + 1] \in Seq(S)
    BY <2>2, <2>3, <2>4
  <2>9. k \in Nat
    BY <1>1, <1>l
  <2> QED
    BY <1>6, <2>2, <2>5, <2>6, <2>7, <2>8, <2>9
<1> HIDE DEF G
<1>9. Nat \subseteq G
  BY <1>7, <1>8, Naturals
<1>10. k <= n /\ k \in Nat
  BY <1>1, <1>l
<1> QED
  BY <1>1, <1>2, <1>3, <1>9, <1>10 DEF G

Sums(f, docs, n) ==
  f = [i \in 0..n |-> IF i = 0 THEN 0 ELSE f[i - 1] + docs[i].size]

LEMMA SumsExists ==
  ASSUME NEW docs, NEW n \in Nat
  PROVE  \E f : Sums(f, docs, n)
<1> DEFINE G == {k \in Nat : \E f : Sums(f, docs, k)}
<1>1. 0 \in G
  <2> DEFINE f == [i \in 0..0 |-> 0]
  <2>1. f = [i \in 0..0 |-> IF i = 0 THEN 0 ELSE f[i - 1] + docs[i].size]
    OBVIOUS
  <2> QED
    BY <2>1 DEF Sums
<1>2. ASSUME NEW k \in Nat, k \in G PROVE k + 1 \in G
  <2>1. PICK f : Sums(f, docs, k)
    BY <1>2
  <2> DEFINE g == [i \in 0..(k + 1) |-> IF i = k + 1 THEN f[k] + docs[k + 1].size ELSE f[i]]
             h == [i \in 0..(k + 1) |-> IF i = 0 THEN 0 ELSE g[i - 1] + docs[i].size]
  <2>2. ASSUME NEW i \in 0..(k + 1) PROVE g[i] = h[i]
    <3>1. CASE i = k + 1
      <4>1. i # 0 /\ i - 1 = k /\ k \in 0..(k + 1) /\ k # k + 1
        BY <3>1
      <4>2. g[k] = f[k] /\ g[i] = f[k] + docs[k + 1].size
        BY <3>1, <4>1
      <4> QED
        BY <3>1, <4>1, <4>2
    <3>2. CASE i # k + 1
      <4>1. i \in 0..k /\ (i # 0 => i - 1 \in 0..(k + 1) /\ i - 1 # k + 1)
        BY <3>2
      <4>2. g[i] = f[i] /\ (i # 0 => g[i - 1] = f[i - 1])
        BY <3>2, <4>1
      <4>3. f[i] = IF i = 0 THEN 0 ELSE f[i - 1] + docs[i].size
        BY <2>1, <4>1 DEF Sums
      <4> QED
        BY <4>2, <4>3
    <3> QED
      BY <3>1, <3>2
  <2>3. g = h
    BY <2>2
  <2>4. Sums(g, docs, k + 1)
    BY <2>3 DEF Sums
  <2> QED
    BY <2>4
<1> HIDE DEF G
<1>3. Nat \subseteq G
  BY <1>1, <1>2, Naturals
<1> QED
  BY <1>3 DEF G

LEMMA SumsStep ==
  ASSUME NEW docs, NEW n \in Nat, NEW f, Sums(f, docs, n)
  PROVE  f[0] = 0 /\ \A i \in 1..n : f[i] = f[i - 1] + docs[i].size
<1>1. \A i \in 0..n : f[i] = IF i = 0 THEN 0 ELSE f[i - 1] + docs[i].size
  BY DEF Sums
<1>2. 0 \in 0..n /\ \A i \in 1..n : i \in 0..n /\ i # 0
  OBVIOUS
<1> QED
  BY <1>1, <1>2

LEMMA BytesIsSum ==
  ASSUME NEW docs, Len(docs) \in Nat
  PROVE  \E f : Sums(f, docs, Len(docs)) /\ Bytes(docs) = f[Len(docs)]
<1> DEFINE f == CHOOSE f : Sums(f, docs, Len(docs))
<1>1. Sums(f, docs, Len(docs))
  BY SumsExists
<1>2. Bytes(docs) = f[Len(docs)]
  BY DEF Bytes, Sums
<1> QED
  BY <1>1, <1>2

(* A document adds its bytes.                                              *)
LEMMA BytesOfAppend ==
  ASSUME NEW docs \in Seq(File), NEW d \in File
  PROVE  Bytes(Append(docs, d)) = Bytes(docs) + d.size
<1> DEFINE n == Len(docs)
           more == Append(docs, d)
<1>1. /\ n \in Nat /\ n + 1 \in Nat /\ Len(more) = n + 1 /\ more[n + 1] = d
      /\ \A i \in 1..n : more[i] = docs[i]
  OBVIOUS
<1>2. PICK f : Sums(f, docs, n) /\ Bytes(docs) = f[n]
  BY <1>1, BytesIsSum
<1>3. PICK g : Sums(g, more, n + 1) /\ Bytes(more) = g[n + 1]
  BY <1>1, BytesIsSum
<1> HIDE DEF n, more
<1>4. f[0] = 0 /\ \A i \in 1..n : f[i] = f[i - 1] + docs[i].size
  BY <1>1, <1>2, SumsStep
<1>5. g[0] = 0 /\ \A i \in 1..(n + 1) : g[i] = g[i - 1] + more[i].size
  BY <1>1, <1>3, SumsStep
<1> DEFINE G == {k \in Nat : k <= n => f[k] = g[k]}
<1>6. 0 \in G
  BY <1>4, <1>5
<1>7. ASSUME NEW k \in Nat, k \in G PROVE k + 1 \in G
  <2> SUFFICES ASSUME k + 1 <= n PROVE f[k + 1] = g[k + 1]
    OBVIOUS
  <2>1. k + 1 \in 1..n /\ k + 1 \in 1..(n + 1) /\ (k + 1) - 1 = k /\ k <= n
    BY <1>1
  <2>2. f[k] = g[k]
    BY <1>7, <2>1
  <2> QED
    BY <1>1, <1>4, <1>5, <2>1, <2>2
<1> HIDE DEF G
<1>8. f[n] = g[n]
  <2>1. n \in G
    BY <1>1, <1>6, <1>7, Naturals
  <2> QED
    BY <1>1, <2>1 DEF G
<1>9. n + 1 \in 1..(n + 1) /\ (n + 1) - 1 = n
  BY <1>1
<1>10. g[n + 1] = g[n] + d.size
  BY <1>1, <1>5, <1>9
<1> QED
  BY <1>2, <1>3, <1>8, <1>10 DEF more

LEMMA BytesOfNone == Bytes(<<>>) = 0
<1>1. Len(<<>>) = 0 /\ 0 \in Nat
  OBVIOUS
<1>2. PICK f : Sums(f, <<>>, 0) /\ Bytes(<<>>) = f[0]
  BY <1>1, BytesIsSum
<1>3. f[0] = 0
  BY <1>1, <1>2, SumsStep
<1> QED
  BY <1>2, <1>3

-----------------------------------------------------------------------------
(* The inductive invariant.  First what is of which kind.                  *)
Finding ==
  [rule : {"OC0001", "OC0002", "OC1002", "OC2101", "OC5001", "OC5002", "OC6001"},
   severity : {"error", "warning", "note"},
   mode : Names \cup {"cross-mode", "design"},
   at : {"file", "design", "modes", "opensta", "effective"}]

IsResult(r) ==
  /\ r = [findings |-> r.findings, score |-> r.score, clock |-> r.clock,
          exceptions |-> r.exceptions]
  /\ r.findings \in Seq(Finding)

Number == 1..Len(ModeList)
Before(k) == {ModeList[j] : j \in 1..(k - 1)}

Typed ==
  /\ files \in [Names -> Seq(Files) \ {<<>>}] /\ incomplete \in BOOLEAN
  /\ pc \in {"stat", "read", "judge", "compare", "validate", "merge", "decide", "end"}
  /\ mode \in Number /\ remaining \in Nat /\ documents \in Seq(File)
  /\ extra \in Seq(Finding) /\ result \in Seq(Finding)
  /\ judged = [m \in DOMAIN judged |-> judged[m]] /\ \A m \in DOMAIN judged : IsResult(judged[m])
  /\ outcome \in [Names -> Outcomes \cup {NotRun}]
  /\ effective \in [Names -> Seq(Finding)] /\ seen \in [Names -> BOOLEAN]
  /\ exit = "none" \/ pc = "end"

(* While files are read, the documents are what the first files of the     *)
(* mode still hold: only the file at hand may be rewritten.                *)
Reading ==
  /\ pc \in {"stat", "read"} =>
       /\ Len(documents) < Len(files[Name])
       /\ \A i \in DOMAIN documents : documents[i] = files[Name][i]
       /\ Bytes(documents) = Limit - remaining
  /\ AllOrNothing

(* What is known of a mode before it is judged, and after.                 *)
Understanding ==
  /\ pc \in {"stat", "read", "judge"} =>
       /\ DOMAIN judged = Before(mode)
       /\ \A k \in Number : k > mode => seen[ModeList[k]]
       /\ ~seen[Name] => \E i \in DOMAIN documents : documents[i].opaque
  /\ pc \notin {"stat", "read", "judge"} => DOMAIN judged = Names

Judged(m) ==
  /\ incomplete \/ ~seen[m] => judged[m].score = 0
  /\ ~seen[m] => \E d \in ToSet(judged[m].findings) : d.severity = "error"
  /\ \A d \in ToSet(judged[m].findings) : d.rule \in {"OC0001", "OC6001"} => d.severity = "error"

(* What OpenSTA has to do with a mode, before it is merged and after.      *)
Unmerged(m) ==
  /\ effective[m] = <<>>
  /\ m \in DOMAIN judged =>
       \A d \in ToSet(judged[m].findings) : d.rule # "OC6001" /\ d.at # "effective"

Failures(m) == {i \in DOMAIN judged[m].findings : judged[m].findings[i].rule = "OC6001"}

Rules(s) == {d.rule : d \in ToSet(s)}

Merged(m) ==
  /\ outcome[m] \in Outcomes
  /\ Rules(effective[m]) \subseteq Rules(judged[m].findings)
  /\ Succeeded(outcome[m]) =>
       /\ Cardinality(Failures(m)) = 0
       /\ outcome[m].snapshot.opaque => "OC0001" \in Rules(judged[m].findings)
  /\ ~Succeeded(outcome[m]) =>
       /\ Cardinality(Failures(m)) = 1 /\ "OC6001" \in Rules(judged[m].findings)
       /\ \A d \in ToSet(judged[m].findings) : d.at # "effective"

Merging ==
  /\ pc \in {"stat", "read", "judge", "compare", "validate"} => \A m \in Names : Unmerged(m)
  /\ pc \in {"stat", "read", "judge", "compare"} => \A m \in Names : outcome[m] = NotRun
  /\ pc = "compare" => mode = 1
  /\ pc = "validate" => \A k \in Number : k < mode => outcome[ModeList[k]] \in Outcomes
  /\ pc = "merge" =>
       /\ \A m \in Names : outcome[m] \in Outcomes
       /\ \A k \in Number : IF k < mode THEN Merged(ModeList[k]) ELSE Unmerged(ModeList[k])
  /\ pc = "decide" =>
       (\A m \in Names : outcome[m] = NotRun) \/ (\A m \in Names : Merged(m))

(* From Compare on, the result has what the modes and their comparison     *)
(* have, each as often.                                                    *)
Listed ==
  pc \in {"validate", "merge", "decide"} =>
    /\ \A m \in Names : ToSet(judged[m].findings) \subseteq ToSet(result)
    /\ \A d \in Finding : Times(d, result) = Times(d, OfModes) + Times(d, extra)
    /\ incomplete => \E d \in ToSet(result) : d.severity = "error"

Inv ==
  /\ Typed /\ Reading /\ Understanding /\ (\A m \in DOMAIN judged : Judged(m))
  /\ Merging /\ Listed /\ NoBlindPass

-----------------------------------------------------------------------------
(* What the constants and the rules are.                                   *)
LEMMA ModesAre ==
  /\ Len(ModeList) \in Nat \ {0} /\ DOMAIN ModeList = Number /\ 1 \in Number
  /\ Names = {ModeList[k] : k \in Number} /\ IsFiniteSet(Names)
  /\ \A j, k \in Number : ModeList[j] = ModeList[k] => j = k
<1>1. ModeList \in Seq(STRING) /\ ModeList # <<>> /\ IsInjective(ModeList)
  BY PipelineConstants
<1>2. Len(ModeList) \in Nat \ {0} /\ DOMAIN ModeList = Number
  BY <1>1 DEF Number
<1>3. Names = {ModeList[k] : k \in Number}
  BY <1>2 DEF Names, ToSet
<1>4. IsFiniteSet(Number)
  BY <1>2, FS_Interval DEF Number
<1>5. IsFiniteSet(Names)
  <2>1. ModeList \in [Number -> Names] /\ \A m \in Names : \E k \in Number : ModeList[k] = m
    BY <1>1, <1>2, <1>3
  <2>2. ModeList \in Surjection(Number, Names)
    BY <2>1 DEF Surjection
  <2> QED
    BY <1>4, <2>2, FS_Surjection
<1> QED
  BY <1>1, <1>2, <1>3, <1>5 DEF IsInjective, Number

LEMMA FilesAre ==
  /\ Files \subseteq File /\ Rejected \in File /\ Rejected.opaque
  /\ Inputs \subseteq [Names -> Seq(Files) \ {<<>>}] /\ Limit \in Nat
  /\ \A o \in Outcomes : o.snapshot \in File /\ (Succeeded(o) => o.snapshot \in Snapshots)
  /\ NotRun \notin Outcomes
<1>1. Rejected \in File /\ Rejected.opaque
  BY DEF Rejected, File
<1>2. Snapshots \cup {NoSnapshot} \subseteq File
  BY <1>1, PipelineConstants DEF NoSnapshot
<1>3. \A o \in Outcomes : o.snapshot \in File /\ (Succeeded(o) => o.snapshot \in Snapshots)
  <2> HIDE DEF File
  <2> QED
    BY <1>2 DEF Outcomes, Succeeded
<1>4. NotRun \notin Outcomes
  BY DEF NotRun, Outcomes
<1> QED
  BY <1>1, <1>3, <1>4, PipelineConstants

(* A process that was killed has no status, so that these are all that     *)
(* OpenSTA accepted.                                                       *)
LEMMA CleanSucceeds ==
  ASSUME NEW o \in Outcomes
  PROVE  /\ Succeeded(o) <=> o.code = "0" /\ o.snapshot \in Snapshots
         /\ o.timedOut \in BOOLEAN
  BY DEF Outcomes, Succeeded

(* What the rules find: nothing of the other stages, and every document    *)
(* that they do not understand.                                            *)
LEMMA FindingsAre ==
  ASSUME NEW m \in Names, NEW docs \in Seq(File), NEW place \in {"file", "effective"}
  PROVE  /\ Findings(m, docs, place) \in Seq(Finding)
         /\ ToSet(Findings(m, docs, place)) \subseteq
              {Diag("OC0001", "error", m, place), Diag("OC1002", "warning", m, place),
               Diag("OC2101", "error", m, "design")}
         /\ (\E i \in DOMAIN docs : docs[i].opaque) =>
              Diag("OC0001", "error", m, place) \in ToSet(Findings(m, docs, place))
<1> DEFINE unread == Diag("OC0001", "error", m, place)
           warned == Diag("OC1002", "warning", m, place)
           unclocked == Diag("OC2101", "error", m, "design")
           lists == [i \in DOMAIN docs |-> OfDocument(m, docs[i], place)]
           last == IF ClockOf(docs) = 0 THEN <<unclocked>> ELSE <<>>
<1>1. unread \in Finding /\ warned \in Finding /\ unclocked \in Finding
  BY DEF Diag, Finding
<1> HIDE DEF unread, warned, unclocked
<1>2. /\ <<unread>> \in Seq(Finding) /\ <<warned>> \in Seq(Finding) /\ <<unclocked>> \in Seq(Finding)
      /\ <<>> \in Seq(Finding)
  BY <1>1
<1>3. /\ ToSet(<<unread>>) = {unread} /\ ToSet(<<warned>>) = {warned}
      /\ ToSet(<<unclocked>>) = {unclocked} /\ ToSet(<<>>) = {}
  <2>1. DOMAIN <<>> = {} /\ \A x : DOMAIN <<x>> = {1} /\ <<x>>[1] = x
    OBVIOUS
  <2> QED
    BY <2>1 DEF ToSet
<1>4. ASSUME NEW d \in File
      PROVE  /\ OfDocument(m, d, place) \in Seq(Finding)
             /\ ToSet(OfDocument(m, d, place)) \subseteq {unread, warned}
             /\ d.opaque => unread \in ToSet(OfDocument(m, d, place))
  <2> DEFINE a == IF d.opaque THEN <<unread>> ELSE <<>>
             b == IF d.warns THEN <<warned>> ELSE <<>>
  <2>1. a \in Seq(Finding) /\ ToSet(a) = IF d.opaque THEN {unread} ELSE {}
    BY <1>2, <1>3
  <2>2. b \in Seq(Finding) /\ ToSet(b) = IF d.warns THEN {warned} ELSE {}
    BY <1>2, <1>3
  <2>3. OfDocument(m, d, place) = a \o b
    BY DEF OfDocument, unread, warned
  <2> HIDE DEF a, b
  <2>4. a \o b \in Seq(Finding) /\ ToSet(a \o b) = ToSet(a) \cup ToSet(b)
    BY <2>1, <2>2, ElementsOfJoin
  <2> QED
    BY <2>1, <2>2, <2>3, <2>4
<1>5. DOMAIN docs = 1..Len(docs) /\ Len(docs) \in Nat /\ \A i \in DOMAIN docs : docs[i] \in File
  OBVIOUS
<1>6. lists \in Seq(Seq(Finding)) /\ DOMAIN lists = DOMAIN docs
  BY <1>4, <1>5
<1>7. Flat(lists) \in Seq(Finding) /\ ToSet(Flat(lists)) = UNION {ToSet(lists[i]) : i \in DOMAIN docs}
  BY <1>6, ElementsOfFlat
<1>8. last \in Seq(Finding) /\ ToSet(last) \subseteq {unclocked}
  BY <1>2, <1>3
<1>9. /\ ToSet(Flat(lists)) \subseteq {unread, warned}
      /\ (\E i \in DOMAIN docs : docs[i].opaque) => unread \in ToSet(Flat(lists))
  <2>1. \A i \in DOMAIN docs : /\ ToSet(lists[i]) \subseteq {unread, warned}
                               /\ docs[i].opaque => unread \in ToSet(lists[i])
    BY <1>4, <1>5
  <2> DEFINE of == [i \in DOMAIN docs |-> ToSet(lists[i])]
  <2>2. ToSet(Flat(lists)) = UNION {of[i] : i \in DOMAIN docs}
    BY <1>7
  <2>3. \A i \in DOMAIN docs : /\ of[i] \subseteq {unread, warned}
                               /\ docs[i].opaque => unread \in of[i]
    BY <2>1
  <2> HIDE DEF lists, of
  <2> QED
    BY <2>2, <2>3
<1>10. Findings(m, docs, place) = Flat(lists) \o last
  BY DEF Findings, unclocked
<1> HIDE DEF lists, last
<1>11. /\ Flat(lists) \o last \in Seq(Finding)
       /\ ToSet(Flat(lists) \o last) = ToSet(Flat(lists)) \cup ToSet(last)
  BY <1>7, <1>8, ElementsOfJoin
<1> QED
  BY <1>8, <1>9, <1>10, <1>11 DEF unread, warned, unclocked

LEMMA ResultsAre ==
  ASSUME NEW m \in Names, NEW docs \in Seq(File), NEW place \in {"file", "effective"}
  PROVE  /\ IsResult(ModeResult(m, docs, place))
         /\ ModeResult(m, docs, place).findings = Findings(m, docs, place)
         /\ ModeResult(m, docs, place).score = Score(docs)
  BY FindingsAre DEF IsResult, ModeResult

-----------------------------------------------------------------------------
(* The invariant holds initially.                                          *)
LEMMA InitHolds == Init => Inv
<1>s. SUFFICES ASSUME Init PROVE Inv
  OBVIOUS
<1>1. DOMAIN judged = {} /\ mode = 1 /\ pc = "stat" /\ documents = <<>> /\ remaining = Limit
  BY <1>s DEF Init
<1>2. files \in [Names -> Seq(Files) \ {<<>>}] /\ Limit \in Nat
  BY <1>s, FilesAre DEF Init
<1>3. Name \in Names /\ Before(1) = {} /\ 1 \in Number
  BY <1>1, ModesAre DEF Name, Before
<1>4. Typed
  <2>1. <<>> \in Seq(Finding) /\ <<>> \in Seq(File)
    OBVIOUS
  <2>2. judged = [m \in DOMAIN judged |-> judged[m]]
    BY <1>s DEF Init
  <2> QED
    BY <1>s, <1>1, <1>2, <1>3, <2>1, <2>2 DEF Typed, Init
<1>5. Reading
  <2>1. files[Name] \in Seq(Files) /\ files[Name] # <<>>
    BY <1>2, <1>3
  <2>2. 0 < Len(files[Name]) /\ Len(<<>>) = 0 /\ DOMAIN <<>> = {}
    BY <2>1
  <2>3. Bytes(documents) = Limit - remaining
    BY <1>1, <1>2, BytesOfNone
  <2> QED
    BY <1>1, <2>2, <2>3 DEF Reading, AllOrNothing
<1>6. Understanding
  BY <1>s, <1>1, <1>3, ModesAre DEF Understanding, Init
<1>7. Merging
  BY <1>s, <1>1 DEF Merging, Unmerged, Init
<1>8. Listed /\ NoBlindPass
  BY <1>s DEF Listed, NoBlindPass, Init
<1> QED
  BY <1>1, <1>4, <1>5, <1>6, <1>7, <1>8 DEF Inv

-----------------------------------------------------------------------------
(* Reading a file changes nothing of what follows.                         *)
LEMMA ModeAtHand ==
  ASSUME Typed
  PROVE  /\ mode \in Number /\ Name \in Names /\ Name = ModeList[mode]
         /\ files[Name] \in Seq(Files) /\ files[Name] # <<>> /\ Seq(Files) \subseteq Seq(File)
         /\ Len(files[Name]) \in Nat /\ DOMAIN files[Name] = 1..Len(files[Name])
         /\ documents \in Seq(File) /\ Len(documents) \in Nat
         /\ DOMAIN documents = 1..Len(documents)
         /\ Name \notin Before(mode)
<1>1. mode \in Number /\ Name \in Names /\ Name = ModeList[mode]
  BY ModesAre DEF Typed, Name
<1>2. files[Name] \in Seq(Files) /\ files[Name] # <<>>
  BY <1>1 DEF Typed
<1>3. documents \in Seq(File)
  BY DEF Typed
<1>4. Seq(Files) \subseteq Seq(File)
  BY FilesAre
<1>5. Name \notin Before(mode)
  <2>1. \A j \in 1..(mode - 1) : j \in Number /\ j # mode
    BY <1>1, ModesAre DEF Number
  <2> QED
    BY <1>1, <2>1, ModesAre DEF Before
<1> QED
  BY <1>1, <1>2, <1>3, <1>4, <1>5

LEMMA ReadingIsQuiet ==
  ASSUME Inv, pc \in {"stat", "read"}, pc' \in {"stat", "read", "judge"},
         UNCHANGED <<judged, engine, exit>>
  PROVE  Merging' /\ Listed' /\ NoBlindPass'
<1>1. Merging'
  BY DEF Inv, Merging, engine, Unmerged
<1>2. exit # "pass"
  BY DEF Inv, Typed
<1> QED
  BY <1>1, <1>2 DEF Listed, NoBlindPass

(* Those judged before do not depend on what is seen of this mode.         *)
LEMMA ReadingKeepsJudged ==
  ASSUME Inv, pc \in {"stat", "read"}, UNCHANGED <<judged, incomplete>>,
         \A m \in Names \ {Name} : seen'[m] = seen[m]
  PROVE  \A m \in (DOMAIN judged)' : Judged(m)'
<1>1. Name \notin DOMAIN judged /\ DOMAIN judged \subseteq Names
  <2>1. \A j \in 1..(mode - 1) : j \in Number
    BY ModeAtHand, ModesAre DEF Number, Inv
  <2> QED
    BY <2>1, ModeAtHand, ModesAre DEF Inv, Understanding, Before
<1> QED
  BY <1>1 DEF Inv, Judged

LEMMA RejectStep ==
  ASSUME Inv, pc \in {"stat", "read"}, Reject,
         UNCHANGED <<source, mode, judged, extra, result, engine, verdict>>
  PROVE  Inv'
<1>1. pc' = "judge" /\ documents' = <<Rejected>> /\ seen' = [seen EXCEPT ![Name] = FALSE]
  BY DEF Reject
<1>2. Name' = Name /\ Name \in Names
  BY ModeAtHand DEF Inv, Name
<1>3. Typed'
  BY <1>1, <1>2, FilesAre DEF Inv, Typed, Reject, source, engine, verdict, IsResult
<1>4. Reading'
  BY <1>1 DEF Reading, AllOrNothing
<1>5. Understanding'
  <2>1. \A k \in Number : k > mode => ModeList[k] # Name
    BY ModeAtHand, ModesAre DEF Inv, Number
  <2>2. 1 \in DOMAIN documents' /\ documents'[1].opaque
    BY <1>1, FilesAre
  <2>3. seen \in [Names -> BOOLEAN] /\ \A k \in Number : ModeList[k] \in Names
    BY ModesAre DEF Inv, Typed
  <2>4. DOMAIN judged = Before(mode) /\ \A k \in Number : k > mode => seen[ModeList[k]]
    BY DEF Inv, Understanding
  <2>5. Before(mode)' = Before(mode)
    BY DEF Before
  <2>6. \A k \in Number : k > mode => seen'[ModeList[k]]
    BY <1>1, <2>1, <2>3, <2>4
  <2> QED
    BY <1>1, <2>2, <2>4, <2>5, <2>6 DEF Understanding, Before
<1>6. Merging' /\ Listed' /\ NoBlindPass'
  BY <1>1, ReadingIsQuiet DEF verdict
<1>7. \A m \in (DOMAIN judged)' : Judged(m)'
  <2>1. \A m \in Names \ {Name} : seen'[m] = seen[m]
    BY <1>1 DEF Inv, Typed
  <2> QED
    BY <2>1, ReadingKeepsJudged DEF source
<1> QED
  BY <1>3, <1>4, <1>5, <1>6, <1>7 DEF Inv

LEMMA StatStep ==
  ASSUME Inv, Stat
  PROVE  Inv'
<1>1. /\ pc = "stat" /\ UNCHANGED <<source, mode, judged, extra, result, engine, verdict>>
      /\ Reject \/ (pc' = "read" /\ UNCHANGED <<remaining, documents, seen>>)
  BY DEF Stat
<1>2. CASE Reject
  BY <1>1, <1>2, RejectStep
<1>3. CASE pc' = "read" /\ UNCHANGED <<remaining, documents, seen>>
  <2>1. Typed'
    BY <1>1, <1>3 DEF Inv, Typed, source, engine, verdict, IsResult
  <2>2. Reading'
    BY <1>1, <1>3 DEF Inv, Reading, AllOrNothing, source, Name
  <2>3. Understanding'
    BY <1>1, <1>3 DEF Inv, Understanding, source, Name, Before
  <2>4. Merging' /\ Listed' /\ NoBlindPass'
    BY <1>1, <1>3, ReadingIsQuiet DEF verdict
  <2>5. \A m \in (DOMAIN judged)' : Judged(m)'
    BY <1>1, <1>3, ReadingKeepsJudged DEF source
  <2> QED
    BY <2>1, <2>2, <2>3, <2>4, <2>5 DEF Inv
<1> QED
  BY <1>1, <1>2, <1>3

LEMMA RewriteStep ==
  ASSUME Inv, Rewrite
  PROVE  Inv'
<1>1. /\ pc = "read" /\ pc' = pc
      /\ UNCHANGED <<incomplete, mode, remaining, documents, judged, extra, result,
                     engine, verdict, seen>>
  BY DEF Rewrite
<1>2. PICK f \in Files : files' = [files EXCEPT ![Name][Position] = f]
  BY DEF Rewrite
<1>3. Name' = Name
  BY <1>1 DEF Name
<1>4. /\ files' \in [Names -> Seq(Files) \ {<<>>}]
      /\ Len(files'[Name]) = Len(files[Name])
      /\ \A i \in DOMAIN documents : files'[Name][i] = files[Name][i]
  <2> DEFINE old == files[Name]
             new == [old EXCEPT ![Position] = f]
  <2>1. files \in [Names -> Seq(Files) \ {<<>>}] /\ files' = [files EXCEPT ![Name] = new]
    BY <1>2 DEF Inv, Typed
  <2>2. old \in Seq(Files) /\ old # <<>> /\ Len(old) \in Nat /\ DOMAIN old = 1..Len(old)
    BY ModeAtHand DEF Inv
  <2>3. new \in Seq(Files) /\ Len(new) = Len(old)
    <3> HIDE DEF old
    <3>1. old \in [1..Len(old) -> Files]
      BY <2>2
    <3>2. new \in [1..Len(old) -> Files]
      BY <3>1
    <3> HIDE DEF new
    <3> QED
      BY <2>2, <3>2
  <2>4. new # <<>>
    BY <2>2, <2>3
  <2>5. \A i \in DOMAIN documents : new[i] = old[i]
    <3>1. \A i \in DOMAIN documents : i # Position /\ i \in DOMAIN old
      <4>1. Len(documents) < Len(old)
        BY <1>1 DEF Inv, Reading
      <4> QED
        BY <2>2, <4>1, ModeAtHand DEF Inv, Position
    <3> QED
      BY <3>1
  <2>6. Name \in Names
    BY ModeAtHand DEF Inv
  <2> HIDE DEF new
  <2> QED
    BY <2>1, <2>3, <2>4, <2>5, <2>6
<1>5. Typed'
  BY <1>1, <1>4 DEF Inv, Typed, engine, verdict, IsResult
<1>6. Reading'
  BY <1>1, <1>3, <1>4 DEF Inv, Reading, AllOrNothing
<1>7. Understanding'
  BY <1>1, <1>3 DEF Inv, Understanding, Before
<1>8. Merging' /\ Listed' /\ NoBlindPass'
  BY <1>1, ReadingIsQuiet DEF verdict
<1>9. \A m \in (DOMAIN judged)' : Judged(m)'
  BY <1>1, ReadingKeepsJudged
<1> QED
  BY <1>5, <1>6, <1>7, <1>8, <1>9 DEF Inv

LEMMA ReadStep ==
  ASSUME Inv, Read
  PROVE  Inv'
<1>1. /\ pc = "read" /\ UNCHANGED <<source, mode, judged, extra, result, engine, verdict>>
      /\ \/ Reject
         \/ /\ ~(Current.size > remaining)
            /\ documents' = Append(documents, Current)
            /\ remaining' = remaining - Current.size
            /\ seen' = [seen EXCEPT ![Name] = @ /\ ~Current.opaque]
            /\ pc' = IF Position = Len(files[Name]) THEN "judge" ELSE "stat"
  BY DEF Read
<1>2. CASE Reject
  BY <1>1, <1>2, RejectStep
<1>3. CASE /\ ~(Current.size > remaining)
           /\ documents' = Append(documents, Current)
           /\ remaining' = remaining - Current.size
           /\ seen' = [seen EXCEPT ![Name] = @ /\ ~Current.opaque]
           /\ pc' = IF Position = Len(files[Name]) THEN "judge" ELSE "stat"
  <2>1. /\ mode \in Number /\ Name \in Names /\ Name' = Name /\ files' = files
        /\ Position \in 1..Len(files[Name])
    <3>1. Len(documents) < Len(files[Name])
      BY <1>1 DEF Inv, Reading
    <3> QED
      BY <1>1, <3>1, ModeAtHand DEF Inv, Name, source, Position
  <2>2. Current \in File /\ Current.size \in Nat /\ Current.opaque \in BOOLEAN
    <3>1. Current \in File
      BY <2>1, ModeAtHand, FilesAre DEF Inv, Current
    <3> QED
      BY <3>1 DEF File
  <2>3. /\ documents' \in Seq(File) /\ Len(documents') = Position
        /\ DOMAIN documents' = 1..Position
        /\ \A i \in DOMAIN documents : documents'[i] = documents[i] /\ i \in 1..Position
        /\ documents'[Position] = Current
        /\ \A i \in 1..Position : i # Position => i \in DOMAIN documents
    BY <1>3, <2>2, ModeAtHand DEF Inv, Position
  <2>4. remaining \in Nat /\ Limit \in Nat /\ remaining' \in Nat
    BY <1>3, <2>2, FilesAre DEF Inv, Typed
  <2>5. seen \in [Names -> BOOLEAN] /\ seen' \in [Names -> BOOLEAN]
    BY <1>3 DEF Inv, Typed
  <2>6. pc' \in {"stat", "judge"}
    BY <1>3
  <2>7. Typed'
    BY <1>1, <2>1, <2>3, <2>4, <2>5, <2>6 DEF Inv, Typed, source, engine, verdict, IsResult
  <2>8. Reading'
    <3>1. Bytes(documents') = Limit - remaining'
      <4>1. Bytes(documents) = Limit - remaining
        BY <1>1 DEF Inv, Reading
      <4>2. Bytes(Append(documents, Current)) = Bytes(documents) + Current.size
        BY <2>2, ModeAtHand, BytesOfAppend DEF Inv
      <4> QED
        BY <1>3, <2>2, <2>4, <4>1, <4>2
    <3>2. \A i \in 1..Position : documents'[i] = files[Name][i]
      <4>1. \A i \in DOMAIN documents : documents[i] = files[Name][i]
        BY <1>1 DEF Inv, Reading
      <4> QED
        BY <2>3, <4>1 DEF Current
    <3>3. CASE Position = Len(files[Name])
      <4>1. pc' = "judge"
        BY <1>3, <3>3
      <4>2. documents' = files[Name]
        <5>1. Len(documents') = Len(files[Name]) /\ files[Name] \in Seq(File)
          BY <2>3, <3>3, ModeAtHand DEF Inv
        <5> QED
          BY <2>3, <3>2, <3>3, <5>1
      <4> QED
        BY <2>1, <3>1, <4>1, <4>2 DEF Reading, AllOrNothing
    <3>4. CASE Position # Len(files[Name])
      <4>1. pc' = "stat"
        BY <1>3, <3>4
      <4>2. Len(documents') < Len(files[Name])
        BY <2>1, <2>3, <3>4, ModeAtHand DEF Inv
      <4> QED
        BY <2>1, <2>3, <3>1, <3>2, <4>1, <4>2 DEF Reading, AllOrNothing
    <3> QED
      BY <3>3, <3>4
  <2>9. Understanding'
    <3>1. \A k \in Number : k > mode => ModeList[k] # Name /\ ModeList[k] \in Names
      BY ModeAtHand, ModesAre DEF Inv, Number
    <3>2. /\ DOMAIN judged = Before(mode) /\ \A k \in Number : k > mode => seen[ModeList[k]]
          /\ ~seen[Name] => \E i \in DOMAIN documents : documents[i].opaque
      BY <1>1 DEF Inv, Understanding
    <3>3. \A k \in Number : k > mode => seen'[ModeList[k]]
      BY <1>3, <2>5, <3>1, <3>2
    <3>4. ~seen'[Name] => \E i \in DOMAIN documents' : documents'[i].opaque
      <4>1. seen'[Name] = (seen[Name] /\ ~Current.opaque)
        BY <1>3, <2>1, <2>5
      <4>2. CASE Current.opaque
        BY <2>1, <2>3, <4>2
      <4>3. CASE ~seen[Name]
        BY <2>3, <3>2, <4>3
      <4> QED
        BY <4>1, <4>2, <4>3
    <3> QED
      BY <1>1, <2>1, <2>6, <3>2, <3>3, <3>4 DEF Understanding, Before
  <2>10. Merging' /\ Listed' /\ NoBlindPass'
    BY <1>1, <2>6, ReadingIsQuiet DEF verdict
  <2>11. \A m \in (DOMAIN judged)' : Judged(m)'
    <3>1. \A m \in Names \ {Name} : seen'[m] = seen[m]
      BY <1>3, <2>5
    <3> QED
      BY <1>1, <3>1, ReadingKeepsJudged DEF source
  <2> QED
    BY <2>7, <2>8, <2>9, <2>10, <2>11 DEF Inv
<1> QED
  BY <1>1, <1>2, <1>3

-----------------------------------------------------------------------------
(* Judging: a mode whose files were not all understood scores 0 and has an *)
(* error.                                                                  *)
LEMMA JudgeStep ==
  ASSUME Inv, Judge
  PROVE  Inv'
<1> DEFINE new == ModeResult(Name, documents, "file")
           next == mode < Len(ModeList)
<1>1. /\ pc = "judge" /\ UNCHANGED <<source, extra, result, engine, verdict, seen>>
      /\ judged' = [m \in DOMAIN judged \cup {Name} |-> IF m = Name THEN new ELSE judged[m]]
      /\ remaining' = Limit /\ documents' = <<>>
      /\ next => mode' = mode + 1 /\ pc' = "stat"
      /\ ~next => mode' = 1 /\ pc' = "compare"
  BY DEF Judge
<1>2. /\ mode \in Number /\ Name \in Names /\ Name = ModeList[mode] /\ Name \notin Before(mode)
      /\ documents \in Seq(File)
  BY ModeAtHand DEF Inv
<1>3. /\ IsResult(new) /\ new.findings = Findings(Name, documents, "file")
      /\ new.score = Score(documents)
  BY <1>2, ResultsAre
<1>4. /\ DOMAIN judged' = DOMAIN judged \cup {Name}
      /\ judged'[Name] = new /\ \A m \in DOMAIN judged : m # Name => judged'[m] = judged[m]
  BY <1>1
<1>5. /\ DOMAIN judged = Before(mode) /\ \A k \in Number : k > mode => seen[ModeList[k]]
      /\ ~seen[Name] => \E i \in DOMAIN documents : documents[i].opaque
  BY <1>1 DEF Inv, Understanding
<1>6. Before(mode) \cup {Name} = Before(mode + 1)
  <2>1. mode \in Nat \ {0} /\ 1..((mode + 1) - 1) = 1..(mode - 1) \cup {mode}
    BY <1>2, ModesAre DEF Number
  <2> QED
    BY <1>2, <2>1 DEF Before
<1>7. mode' \in Number /\ (next => mode' = mode + 1) /\ (~next => Before(mode + 1) = Names)
  <2>1. ~next => (mode + 1) - 1 = Len(ModeList)
    <3>1. Len(ModeList) \in Nat /\ mode \in 1..Len(ModeList)
      BY <1>2, ModesAre DEF Number
    <3> QED
      BY <3>1
  <2>2. ~next => Before(mode + 1) = Names
    BY <2>1, ModesAre DEF Before, Number
  <2>3. mode' \in Number
    BY <1>1, <1>2, ModesAre DEF Number
  <2> QED
    BY <1>1, <2>2, <2>3
<1> HIDE DEF new
<1>8. Typed'
  <2>1. \A m \in DOMAIN judged' : IsResult(judged'[m])
    BY <1>3, <1>4 DEF Inv, Typed
  <2>2. judged' = [m \in DOMAIN judged' |-> judged'[m]]
    BY <1>1
  <2>3. documents' \in Seq(File) /\ Limit \in Nat
    BY <1>1, FilesAre
  <2>4. pc' \in {"stat", "compare"} /\ exit' = "none"
    BY <1>1 DEF Inv, Typed, verdict
  <2> QED
    BY <1>1, <1>7, <2>1, <2>2, <2>3, <2>4 DEF Inv, Typed, source, engine, verdict, IsResult
<1>9. Reading'
  <2>1. CASE next
    <3>1. pc' = "stat" /\ files' = files /\ Name' \in Names
      BY <1>1, <1>7, <2>1, ModesAre DEF source, Name
    <3>2. files[Name'] \in Seq(Files) /\ files[Name'] # <<>>
      BY <3>1 DEF Inv, Typed
    <3>3. 0 < Len(files'[Name']) /\ Len(<<>>) = 0 /\ DOMAIN <<>> = {}
      BY <3>1, <3>2
    <3>4. Bytes(documents') = Limit - remaining'
      BY <1>1, FilesAre, BytesOfNone
    <3> QED
      BY <1>1, <3>1, <3>3, <3>4 DEF Reading, AllOrNothing
  <2>2. CASE ~next
    BY <1>1, <2>2 DEF Reading, AllOrNothing
  <2> QED
    BY <2>1, <2>2
<1>10. Understanding'
  <2>1. CASE next
    <3>1. pc' = "stat" /\ mode' = mode + 1 /\ mode + 1 \in Number /\ Name' = ModeList[mode + 1]
      BY <1>1, <1>7, <2>1 DEF Name
    <3>2. mode \in Nat /\ \A k \in Number : k \in Nat /\ (k > mode + 1 => k > mode)
      BY <1>2, ModesAre DEF Number
    <3>3. seen' = seen /\ \A k \in Number : k > mode' => seen[ModeList[k]]
      BY <1>1, <1>5, <3>1, <3>2
    <3>4. seen[Name']
      BY <1>5, <3>1, <3>2
    <3>5. Before(mode)' = Before(mode + 1)
      BY <3>1 DEF Before
    <3> QED
      BY <1>4, <1>5, <1>6, <3>1, <3>3, <3>4, <3>5 DEF Understanding
  <2>2. CASE ~next
    BY <1>1, <1>4, <1>5, <1>6, <1>7, <2>2 DEF Understanding
  <2> QED
    BY <2>1, <2>2
<1>11. \A m \in DOMAIN judged' : Judged(m)'
  <2>1. \A m \in DOMAIN judged : m # Name => Judged(m)'
    BY <1>1, <1>4 DEF Inv, Judged, source
  <2>2. \A m : m = Name => Judged(m)'
    <3>1. incomplete \/ ~seen[Name] => new.score = 0
      BY <1>3, <1>5 DEF Score
    <3> DEFINE unread == Diag("OC0001", "error", Name, "file")
    <3>2. ToSet(new.findings) \subseteq {unread, Diag("OC1002", "warning", Name, "file"),
                                         Diag("OC2101", "error", Name, "design")}
      BY <1>2, <1>3, FindingsAre
    <3>3. ~seen[Name] => unread \in ToSet(new.findings)
      BY <1>2, <1>3, <1>5, FindingsAre
    <3>4. \A d \in ToSet(new.findings) : d.rule \in {"OC0001", "OC6001"} => d.severity = "error"
      BY <3>2 DEF Diag
    <3>5. unread.severity = "error"
      BY DEF Diag
    <3> HIDE DEF unread
    <3>6. ~seen[Name] => \E d \in ToSet(new.findings) : d.severity = "error"
      BY <3>3, <3>5
    <3>7. /\ incomplete' = incomplete /\ seen' = seen
      BY <1>1 DEF source
    <3>8. /\ incomplete' \/ ~seen'[Name] => judged'[Name].score = 0
          /\ ~seen'[Name] => \E d \in ToSet(judged'[Name].findings) : d.severity = "error"
          /\ \A d \in ToSet(judged'[Name].findings) :
               d.rule \in {"OC0001", "OC6001"} => d.severity = "error"
      BY <1>4, <3>1, <3>4, <3>6, <3>7
    <3> QED
      BY <3>8 DEF Judged
  <2> QED
    BY <1>4, <2>1, <2>2
<1>12. Merging'
  <2>1. /\ \A m \in Names : Unmerged(m) /\ outcome[m] = NotRun
        /\ outcome' = outcome /\ effective' = effective
    BY <1>1 DEF Inv, Merging, engine
  <2>2. \A d \in ToSet(new.findings) : d.rule # "OC6001" /\ d.at # "effective"
    <3>1. ToSet(new.findings) \subseteq
            {Diag("OC0001", "error", Name, "file"), Diag("OC1002", "warning", Name, "file"),
             Diag("OC2101", "error", Name, "design")}
      BY <1>2, <1>3, FindingsAre
    <3> QED
      BY <3>1 DEF Diag
  <2>3. \A m \in Names : Unmerged(m)'
    BY <1>4, <2>1, <2>2 DEF Unmerged
  <2>4. pc' \in {"stat", "compare"} /\ (pc' = "compare" => mode' = 1)
    BY <1>1
  <2> QED
    BY <2>1, <2>3, <2>4 DEF Merging
<1>13. Listed' /\ NoBlindPass'
  <2>1. exit' = "none" /\ pc' \in {"stat", "compare"}
    BY <1>1 DEF Inv, Typed, verdict
  <2> QED
    BY <2>1 DEF Listed, NoBlindPass
<1> QED
  BY <1>8, <1>9, <1>10, <1>11, <1>12, <1>13 DEF Inv

-----------------------------------------------------------------------------
(* Comparing: what is listed, each as often as it was found.               *)
LEMMA OfModesAre ==
  ASSUME Typed, DOMAIN judged = Names
  PROVE  /\ [i \in DOMAIN ModeList |-> judged[ModeList[i]].findings] \in Seq(Seq(Finding))
         /\ OfModes \in Seq(Finding)
         /\ \A m \in Names : ToSet(judged[m].findings) \subseteq ToSet(OfModes)
<1> DEFINE lists == [i \in DOMAIN ModeList |-> judged[ModeList[i]].findings]
           of == [i \in DOMAIN ModeList |-> ToSet(lists[i])]
<1>1. \A m \in Names : judged[m].findings \in Seq(Finding)
  BY DEF Typed, IsResult
<1>2. DOMAIN ModeList = 1..Len(ModeList) /\ Len(ModeList) \in Nat
  BY ModesAre DEF Number
<1>3. \A i \in DOMAIN ModeList : ModeList[i] \in Names
  BY ModesAre
<1>4. lists \in Seq(Seq(Finding)) /\ DOMAIN lists = DOMAIN ModeList
  BY <1>1, <1>2, <1>3
<1>5. Flat(lists) \in Seq(Finding) /\ ToSet(Flat(lists)) = UNION {of[i] : i \in DOMAIN ModeList}
  <2>1. /\ Flat(lists) \in Seq(Finding)
        /\ ToSet(Flat(lists)) = UNION {ToSet(lists[i]) : i \in DOMAIN lists}
    <3> HIDE DEF lists
    <3> QED
      BY <1>4, ElementsOfFlat
  <2> QED
    BY <2>1
<1>6. ASSUME NEW m \in Names PROVE ToSet(judged[m].findings) \subseteq ToSet(Flat(lists))
  <2>1. PICK k \in DOMAIN ModeList : ModeList[k] = m
    BY ModesAre
  <2>2. of[k] = ToSet(judged[m].findings)
    BY <2>1
  <2> HIDE DEF of, lists
  <2> QED
    BY <1>5, <2>1, <2>2
<1> HIDE DEF of
<1> QED
  BY <1>4, <1>5, <1>6 DEF OfModes

LEMMA ComparisonIs == CrossMode \in Seq(Finding)
<1> DEFINE differing == {m \in Names : judged[m].exceptions # judged[ModeList[1]].exceptions}
           clocks == {judged[m].clock : m \in Names}
           note == Diag("OC5001", "note", "cross-mode", "modes")
           other == Diag("OC5002", "note", "cross-mode", "modes")
           a == IF Cardinality(clocks) > 1 THEN <<note>> ELSE <<>>
           b == [i \in 1..Cardinality(differing) |-> other]
<1>1. note \in Finding /\ other \in Finding
  BY DEF Diag, Finding
<1>2. IsFiniteSet(differing)
  BY ModesAre, FS_Subset
<1>3. Cardinality(differing) \in Nat
  BY <1>2, FS_CardinalityType
<1>4. CrossMode = a \o b
  BY DEF CrossMode
<1> HIDE DEF differing, note, other
<1>5. b \in Seq(Finding)
  BY <1>1, <1>3
<1>6. a \in Seq(Finding)
  BY <1>1
<1> HIDE DEF a, b
<1> QED
  BY <1>4, <1>5, <1>6

LEMMA CompareStep ==
  ASSUME Inv, Compare
  PROVE  Inv'
<1> DEFINE missing == Diag("OC0002", "error", "design", "design")
           design == IF incomplete THEN <<missing>> ELSE <<>>
<1>1. /\ pc = "compare" /\ pc' \in {"validate", "decide"}
      /\ extra' = CrossMode \o design /\ result' = OfModes \o extra'
      /\ UNCHANGED <<source, mode, remaining, documents, judged, engine, verdict, seen>>
  BY DEF Compare
<1>2. missing \in Finding /\ missing.severity = "error"
  BY DEF Diag, Finding
<1> HIDE DEF missing
<1>3. design \in Seq(Finding) /\ (incomplete => ToSet(design) = {missing})
  <2>1. DOMAIN <<missing>> = {1} /\ <<missing>>[1] = missing
    OBVIOUS
  <2> QED
    BY <1>2, <2>1 DEF ToSet
<1> HIDE DEF design
<1>4. extra' \in Seq(Finding) /\ ToSet(extra') = ToSet(CrossMode) \cup ToSet(design)
  BY <1>1, <1>3, ComparisonIs, ElementsOfJoin
<1>5. DOMAIN judged = Names /\ Typed
  BY <1>1 DEF Inv, Understanding
<1>6. OfModes \in Seq(Finding) /\ \A m \in Names : ToSet(judged[m].findings) \subseteq ToSet(OfModes)
  BY <1>5, OfModesAre
<1>7. result' \in Seq(Finding) /\ ToSet(result') = ToSet(OfModes) \cup ToSet(extra')
  <2>1. /\ OfModes \o extra' \in Seq(Finding)
        /\ ToSet(OfModes \o extra') = ToSet(OfModes) \cup ToSet(extra')
    BY <1>4, <1>6, ElementsOfJoin
  <2> QED
    BY <1>1, <2>1
<1>8. \A d : Times(d, result') = Times(d, OfModes) + Times(d, extra')
  BY <1>1, <1>4, <1>6, TimesOfJoin
<1>9. Typed'
  BY <1>1, <1>4, <1>7 DEF Inv, Typed, source, engine, verdict, IsResult
<1>10. Reading' /\ Understanding'
  BY <1>1 DEF Inv, Reading, AllOrNothing, Understanding
<1>11. \A m \in DOMAIN judged' : Judged(m)'
  BY <1>1 DEF Inv, Judged, source
<1>12. Merging'
  <2>1. /\ \A m \in Names : Unmerged(m) /\ outcome[m] = NotRun
        /\ mode = 1
    BY <1>1 DEF Inv, Merging
  <2>2. \A m \in Names : Unmerged(m)' /\ outcome'[m] = NotRun
    BY <1>1, <2>1 DEF Unmerged, engine
  <2>3. \A k \in Number : ~(k < mode')
    BY <1>1, <2>1, ModesAre DEF Number
  <2> QED
    BY <1>1, <2>2, <2>3 DEF Merging
<1>13. Listed'
  <2>1. OfModes' = OfModes
    BY <1>1 DEF OfModes
  <2>2. /\ judged' = judged /\ incomplete' = incomplete
    BY <1>1 DEF source
  <2>3. incomplete => \E d \in ToSet(result') : d.severity = "error"
    BY <1>2, <1>3, <1>4, <1>7
  <2>4. \A m \in Names : ToSet(judged[m].findings) \subseteq ToSet(result')
    BY <1>6, <1>7
  <2> QED
    BY <1>8, <2>1, <2>2, <2>3, <2>4 DEF Listed
<1>14. NoBlindPass'
  <2>1. exit' = "none"
    BY <1>1 DEF Inv, Typed, verdict
  <2> QED
    BY <2>1 DEF NoBlindPass
<1> QED
  BY <1>9, <1>10, <1>11, <1>12, <1>13, <1>14 DEF Inv

-----------------------------------------------------------------------------
(* OpenSTA: a process per mode.                                            *)
LEMMA ValidateStep ==
  ASSUME Inv, Validate
  PROVE  Inv'
<1> DEFINE next == mode < Len(ModeList)
<1>1. /\ pc = "validate"
      /\ UNCHANGED <<source, remaining, documents, judged, extra, result, effective, policy, seen>>
      /\ \/ /\ \E o \in Outcomes : outcome' = [outcome EXCEPT ![Name] = o]
            /\ UNCHANGED exit
            /\ next => mode' = mode + 1 /\ UNCHANGED pc
            /\ ~next => mode' = 1 /\ pc' = "merge"
         \/ pc' = "end" /\ exit' = "input error" /\ UNCHANGED <<outcome, mode>>
  BY DEF Validate
<1>2. mode \in Number /\ Name \in Names /\ Name = ModeList[mode]
  BY ModeAtHand DEF Inv
<1>3. exit = "none"
  BY <1>1 DEF Inv, Typed
<1>4. /\ pc' \in {"validate", "merge", "end"} /\ (pc' # "end" => exit' = "none") /\ exit' # "pass"
      /\ (pc' = "merge" => mode' = 1)
      /\ pc' = "validate" => mode' = mode + 1 /\ next
      /\ pc' = "merge" => ~next
  BY <1>1, <1>3
<1>5. mode' \in Number
  <2>1. Len(ModeList) \in Nat /\ mode \in 1..Len(ModeList)
    BY <1>2, ModesAre DEF Number
  <2>2. mode' = mode \/ mode' = 1 \/ (mode' = mode + 1 /\ next)
    BY <1>1
  <2> QED
    BY <2>1, <2>2 DEF Number
<1>6. outcome \in [Names -> Outcomes \cup {NotRun}] /\ outcome' \in [Names -> Outcomes \cup {NotRun}]
  BY <1>1 DEF Inv, Typed
<1>7. Typed'
  BY <1>1, <1>4, <1>5, <1>6 DEF Inv, Typed, source, IsResult
<1>8. Reading' /\ Understanding'
  BY <1>1, <1>4 DEF Inv, Reading, AllOrNothing, Understanding
<1>9. \A m \in DOMAIN judged' : Judged(m)'
  BY <1>1 DEF Inv, Judged, source
<1>10. Merging'
  <2>1. \A m \in Names : Unmerged(m)'
    BY <1>1 DEF Inv, Merging, Unmerged
  <2>2. ASSUME pc' # "end"
        PROVE  \A k \in Number : k < mode + 1 => outcome'[ModeList[k]] \in Outcomes
    <3>1. \A k \in Number : k < mode => outcome[ModeList[k]] \in Outcomes
      BY <1>1 DEF Inv, Merging
    <3>2. PICK o \in Outcomes : outcome' = [outcome EXCEPT ![Name] = o]
      BY <1>1, <2>2
    <3>3. \A m \in Names : m # Name => outcome'[m] = outcome[m]
      BY <1>6, <3>2
    <3>4. outcome'[Name] \in Outcomes
      BY <1>2, <1>6, <3>2
    <3>5. \A k \in Number : ModeList[k] \in Names /\ (k < mode + 1 => k < mode \/ k = mode)
      BY <1>2, ModesAre DEF Number
    <3> QED
      BY <1>2, <3>1, <3>3, <3>4, <3>5
  <2>3. ~next => \A k \in Number : k < mode + 1
    <3>1. Len(ModeList) \in Nat /\ mode \in 1..Len(ModeList)
      BY <1>2, ModesAre DEF Number
    <3> QED
      BY <3>1 DEF Number
  <2>4. CASE pc' = "validate"
    BY <1>4, <2>1, <2>2, <2>4 DEF Merging
  <2>5. CASE pc' = "merge"
    <3>1. \A m \in Names : outcome'[m] \in Outcomes
      BY <1>4, <2>2, <2>3, <2>5, ModesAre
    <3>2. \A k \in Number : ModeList[k] \in Names /\ ~(k < mode')
      BY <1>4, <2>5, ModesAre DEF Number
    <3>3. \A k \in Number : ~(k < mode') /\ Unmerged(ModeList[k])'
      BY <2>1, <3>2
    <3> QED
      BY <2>5, <3>1, <3>3 DEF Merging
  <2>6. CASE pc' = "end"
    BY <2>6 DEF Merging
  <2> QED
    BY <1>4, <2>4, <2>5, <2>6
<1>11. Listed'
  <2>1. OfModes' = OfModes
    BY <1>1 DEF OfModes
  <2> QED
    BY <1>1, <2>1 DEF Inv, Listed, source
<1>12. NoBlindPass'
  BY <1>4 DEF NoBlindPass
<1> QED
  BY <1>7, <1>8, <1>9, <1>10, <1>11, <1>12 DEF Inv

-----------------------------------------------------------------------------
(* Merging: what is added to a mode is added to the result.                *)
LEMMA AddStep ==
  ASSUME Inv, pc = "merge", NEW m \in Names, NEW new \in Seq(Finding), Add(m, new),
         UNCHANGED <<extra, incomplete, seen>>,
         \A d \in ToSet(new) : d.rule \in {"OC0001", "OC6001"} => d.severity = "error"
  PROVE  /\ DOMAIN judged' = Names /\ judged' = [n \in DOMAIN judged' |-> judged'[n]]
         /\ \A n \in Names : IsResult(judged'[n])
         /\ judged'[m].findings = judged[m].findings \o new
         /\ \A n \in Names : n # m => judged'[n] = judged[n]
         /\ \A n \in DOMAIN judged' : Judged(n)'
         /\ result' \in Seq(Finding) /\ Listed'
<1> DEFINE old == judged[m].findings
           added == old \o new
           row == [judged[m] EXCEPT !.findings = added]
<1>1. Typed /\ DOMAIN judged = Names /\ \A n \in Names : IsResult(judged[n])
  BY DEF Inv, Typed, Understanding
<1>2. judged = [n \in Names |-> judged[n]] /\ result \in Seq(Finding) /\ extra \in Seq(Finding)
  BY <1>1 DEF Typed
<1>3. old \in Seq(Finding) /\ result' = result \o new /\ judged' = [judged EXCEPT ![m] = row]
  BY <1>1 DEF Add, IsResult
<1>4. /\ IsResult(row) /\ row.findings = old \o new /\ row.score = judged[m].score
  <2>1. /\ judged[m] = [findings |-> old, score |-> judged[m].score, clock |-> judged[m].clock,
                        exceptions |-> judged[m].exceptions]
    BY <1>1 DEF IsResult
  <2>2. old \o new \in Seq(Finding)
    BY <1>3
  <2> DEFINE plain == [findings |-> added, score |-> judged[m].score,
                       clock |-> judged[m].clock, exceptions |-> judged[m].exceptions]
  <2>3. row = plain
    <3>1. \A a, b, c, e, x : [[findings |-> a, score |-> b, clock |-> c, exceptions |-> e]
                               EXCEPT !.findings = x] =
                            [findings |-> x, score |-> b, clock |-> c, exceptions |-> e]
      OBVIOUS
    <3> HIDE DEF old, added
    <3> QED
      BY <2>1, <3>1
  <2> HIDE DEF added
  <2>4. /\ plain.findings = added /\ plain.score = judged[m].score
        /\ plain.clock = judged[m].clock /\ plain.exceptions = judged[m].exceptions
    OBVIOUS
  <2> HIDE DEF row
  <2> QED
    BY <2>2, <2>3, <2>4 DEF IsResult, added
<1> HIDE DEF row
<1>5. /\ DOMAIN judged' = Names /\ judged' = [n \in DOMAIN judged' |-> judged'[n]]
      /\ judged'[m] = row /\ \A n \in Names : n # m => judged'[n] = judged[n]
  BY <1>2, <1>3
<1>6. \A n \in Names : IsResult(judged'[n])
  BY <1>1, <1>4, <1>5
<1>7. ToSet(old \o new) = ToSet(old) \cup ToSet(new) /\ ToSet(result') = ToSet(result) \cup ToSet(new)
  <2>1. ToSet(old \o new) = ToSet(old) \cup ToSet(new)
    BY <1>3, ElementsOfJoin
  <2>2. ToSet(result \o new) = ToSet(result) \cup ToSet(new)
    BY <1>2, ElementsOfJoin
  <2> QED
    BY <1>3, <2>1, <2>2
<1>8. \A n \in Names : Judged(n)'
  <2>1. \A n \in Names : Judged(n)
    BY <1>1 DEF Inv
  <2>2. \A n : n \in Names /\ n # m => Judged(n)'
    BY <1>5, <2>1 DEF Judged
  <2>3. /\ incomplete \/ ~seen[m] => row.score = 0
        /\ ~seen[m] => \E d \in ToSet(row.findings) : d.severity = "error"
        /\ \A d \in ToSet(row.findings) : d.rule \in {"OC0001", "OC6001"} => d.severity = "error"
    BY <1>4, <1>7, <2>1 DEF Judged
  <2>4. \A n : n = m => Judged(n)'
    BY <1>5, <2>3 DEF Judged
  <2> QED
    BY <2>2, <2>4
<1>9. result' \in Seq(Finding)
  BY <1>2, <1>3
<1>10. Listed'
  <2>1. /\ \A n \in Names : ToSet(judged[n].findings) \subseteq ToSet(result)
        /\ \A d \in Finding : Times(d, result) = Times(d, OfModes) + Times(d, extra)
        /\ incomplete => \E d \in ToSet(result) : d.severity = "error"
    BY DEF Inv, Listed
  <2>2. \A n \in Names : ToSet(judged'[n].findings) \subseteq ToSet(result')
    BY <1>4, <1>5, <1>7, <2>1
  <2>3. incomplete' => \E d \in ToSet(result') : d.severity = "error"
    BY <1>7, <2>1
  <2>4. ASSUME NEW d \in Finding
        PROVE  Times(d, result') = Times(d, OfModes') + Times(d, extra')
    <3> DEFINE lists == [i \in DOMAIN ModeList |-> judged[ModeList[i]].findings]
               longer == [i \in DOMAIN ModeList |-> judged'[ModeList[i]].findings]
    <3>1. PICK k \in DOMAIN ModeList : ModeList[k] = m
      BY ModesAre
    <3>2. lists \in Seq(Seq(Finding)) /\ OfModes \in Seq(Finding)
      BY <1>1, OfModesAre
    <3>3. DOMAIN ModeList = 1..Len(ModeList) /\ Len(ModeList) \in Nat
      BY ModesAre DEF Number
    <3>4. \A i \in DOMAIN ModeList : ModeList[i] \in Names
      BY ModesAre
    <3>5. longer \in Seq(Seq(Finding)) /\ Len(longer) = Len(lists) /\ DOMAIN lists = DOMAIN ModeList
      <4>1. \A i \in DOMAIN ModeList : longer[i] \in Seq(Finding)
        BY <1>6, <3>4 DEF IsResult
      <4> QED
        BY <3>3, <4>1
    <3>6. longer[k] = lists[k] \o new
      BY <1>4, <1>5, <3>1
    <3>7. \A i \in DOMAIN lists \ {k} : longer[i] = lists[i]
      <4>1. \A i \in DOMAIN ModeList : i # k => ModeList[i] # m
        BY <3>1, ModesAre
      <4> QED
        BY <1>5, <3>4, <4>1
    <3>8. OfModes = Flat(lists) /\ OfModes' = Flat(longer)
      BY DEF OfModes
    <3>9. k \in DOMAIN lists
      BY <3>1
    <3> HIDE DEF lists, longer
    <3>10. Times(d, Flat(longer)) = Times(d, Flat(lists)) + Times(d, new)
      <4>1. /\ lists \in Seq(Seq(Finding)) /\ longer \in Seq(Seq(Finding))
            /\ new \in Seq(Finding) /\ k \in DOMAIN lists
        BY <3>2, <3>5, <3>9
      <4>2. Len(longer) = Len(lists)
        BY <3>5
      <4>3. Lengthened(Finding, lists, longer, k, new)
        BY <3>6, <3>7, <4>1, <4>2 DEF Lengthened
      <4> QED
        BY <4>3, TimesOfFlat
    <3>11. Times(d, result \o new) = Times(d, result) + Times(d, new)
      BY <1>2, TimesOfJoin
    <3>12. Times(d, new) \in Nat /\ Times(d, extra) \in Nat /\ Times(d, OfModes) \in Nat
      BY <1>2, <3>2, TimesType
    <3>13. Times(d, extra') = Times(d, extra) /\ Times(d, result) = Times(d, OfModes) + Times(d, extra)
      BY <2>1
    <3>14. Times(d, result') = Times(d, result) + Times(d, new)
      BY <1>3, <3>11
    <3>15. Times(d, OfModes') = Times(d, OfModes) + Times(d, new)
      BY <3>8, <3>10
    <3> QED
      BY <3>12, <3>13, <3>14, <3>15
  <2> QED
    BY <2>2, <2>3, <2>4 DEF Listed
<1> QED
  BY <1>4, <1>5, <1>6, <1>8, <1>9, <1>10

LEMMA MergeOfMode ==
  ASSUME Inv, Merge
  PROVE  /\ \E new \in Seq(Finding) :
              /\ Add(Name, new)
              /\ \A d \in ToSet(new) : d.rule \in {"OC0001", "OC6001"} => d.severity = "error"
         /\ effective' \in [Names -> Seq(Finding)]
         /\ \A m \in Names : m # Name => effective'[m] = effective[m]
         /\ \A m : m = Name => Merged(m)'
<1>1. /\ pc = "merge" /\ UNCHANGED <<extra, incomplete, seen, outcome>>
      /\ Succeeded(outcome[Name]) =>
           /\ Add(Name, Absent(Name))
           /\ effective' = [effective EXCEPT ![Name] = EffectiveAudit(Name)]
      /\ ~Succeeded(outcome[Name]) =>
           /\ Add(Name, <<Diag("OC6001", "error", Name, "opensta")>>)
           /\ UNCHANGED effective
  BY DEF Merge, source
<1>2. /\ Name \in Names /\ mode \in Number /\ Name = ModeList[mode] /\ Typed
      /\ effective \in [Names -> Seq(Finding)] /\ DOMAIN judged = Names
  BY <1>1, ModeAtHand DEF Inv, Typed, Understanding
<1>3. outcome[Name] \in Outcomes
  BY <1>1, <1>2 DEF Inv, Merging
<1>4. Unmerged(Name)
  <2>1. ~(mode < mode)
    BY <1>2, ModesAre DEF Number
  <2> QED
    BY <1>1, <1>2, <2>1 DEF Inv, Merging
<1> DEFINE old == judged[Name].findings
<1>5. old \in Seq(Finding) /\ \A d \in ToSet(old) : d.rule # "OC6001" /\ d.at # "effective"
  BY <1>2, <1>4 DEF Typed, IsResult, Unmerged
<1>6. CASE Succeeded(outcome[Name])
  <2> DEFINE snap == outcome[Name].snapshot
             all == EffectiveAudit(Name)
             kept == {d \in ToSet(all) : \A f \in ToSet(old) : f.rule # d.rule}
             new == Absent(Name)
             unread == Diag("OC0001", "error", Name, "effective")
  <2>1. snap \in File
    BY <1>3, FilesAre
  <2>2. <<snap>> \in Seq(File) /\ 1 \in DOMAIN <<snap>> /\ <<snap>>[1] = snap
    BY <2>1
  <2>3. all = Findings(Name, <<snap>>, "effective")
    BY <1>2, <2>2, ResultsAre DEF EffectiveAudit
  <2>4. /\ all \in Seq(Finding)
        /\ ToSet(all) \subseteq {unread, Diag("OC1002", "warning", Name, "effective"),
                                 Diag("OC2101", "error", Name, "design")}
        /\ (\E i \in DOMAIN <<snap>> : <<snap>>[i].opaque) => unread \in ToSet(all)
    BY <1>2, <2>2, <2>3, FindingsAre
  <2>5. /\ snap.opaque => unread \in ToSet(all)
        /\ \A d \in ToSet(all) : /\ d.rule # "OC6001"
                                 /\ d.rule \in {"OC0001", "OC6001"} => d.severity = "error"
        /\ unread.rule = "OC0001"
    <3>1. snap.opaque => \E i \in DOMAIN <<snap>> : <<snap>>[i].opaque
      BY <2>2
    <3> HIDE DEF snap, all
    <3> QED
      BY <2>4, <3>1 DEF Diag
  <2>6. new = Only(all, kept)
    BY DEF Absent
  <2> HIDE DEF all
  <2>7. new \in Seq(Finding) /\ ToSet(new) = kept
    <3> HIDE DEF new
    <3>1. Only(all, kept) \in Seq(Finding) /\ ToSet(Only(all, kept)) = ToSet(all) \cap kept
      BY <2>4, ElementsOfOnly
    <3> QED
      BY <2>6, <3>1
  <2>8. Add(Name, new) /\ effective' = [effective EXCEPT ![Name] = all]
    BY <1>1, <1>6 DEF all
  <2>9. \A d \in ToSet(new) : d.rule \in {"OC0001", "OC6001"} => d.severity = "error"
    BY <2>5, <2>7
  <2> HIDE DEF new
  <2>10. judged'[Name].findings = old \o new
    BY <1>1, <1>2, <2>7, <2>8, <2>9, AddStep
  <2> DEFINE more == old \o new
  <2>11. more \in Seq(Finding) /\ ToSet(more) = ToSet(old) \cup kept
    BY <1>5, <2>7, ElementsOfJoin
  <2>12. effective' \in [Names -> Seq(Finding)] /\ effective'[Name] = all
         /\ \A m \in Names : m # Name => effective'[m] = effective[m]
    BY <1>2, <2>4, <2>8
  <2> HIDE DEF more
  <2>13. Rules(all) \subseteq Rules(more)
    <3> SUFFICES ASSUME NEW d \in ToSet(all) PROVE d.rule \in {f.rule : f \in ToSet(more)}
      BY DEF Rules
    <3> HIDE DEF old
    <3>1. CASE \A f \in ToSet(old) : f.rule # d.rule
      BY <2>11, <3>1
    <3>2. CASE \E f \in ToSet(old) : f.rule = d.rule
      BY <2>11, <3>2
    <3> QED
      BY <3>1, <3>2
  <2>14. snap.opaque => "OC0001" \in Rules(more)
    <3> HIDE DEF snap, unread
    <3> QED
      BY <2>5, <2>13 DEF Rules
  <2>15. {i \in DOMAIN more : more[i].rule = "OC6001"} = {}
    <3>1. \A d \in ToSet(more) : d.rule # "OC6001"
      BY <1>5, <2>5, <2>11
    <3> QED
      BY <3>1 DEF ToSet
  <2>16. Cardinality({i \in DOMAIN more : more[i].rule = "OC6001"}) = 0
    BY <2>15, FS_EmptySet
  <2>17. \A m : m = Name => Merged(m)'
    <3>1. outcome' = outcome /\ judged'[Name].findings = more
      BY <1>1, <2>10 DEF more
    <3> QED
      BY <1>3, <1>6, <2>12, <2>13, <2>14, <2>16, <3>1 DEF Merged, Failures
  <2> QED
    BY <2>7, <2>8, <2>9, <2>12, <2>17
<1>7. CASE ~Succeeded(outcome[Name])
  <2> DEFINE failed == Diag("OC6001", "error", Name, "opensta")
             n == Len(old)
             more == Append(old, failed)
  <2>1. failed \in Finding /\ failed.rule = "OC6001" /\ failed.severity = "error"
        /\ failed.at = "opensta"
    BY <1>2 DEF Diag, Finding
  <2>2. Add(Name, <<failed>>) /\ effective' = effective
    BY <1>1, <1>7
  <2> HIDE DEF failed
  <2>3. <<failed>> \in Seq(Finding) /\ ToSet(<<failed>>) = {failed}
    <3>1. DOMAIN <<failed>> = {1} /\ <<failed>>[1] = failed
      OBVIOUS
    <3> QED
      BY <2>1, <3>1 DEF ToSet
  <2>4. \A d \in ToSet(<<failed>>) : d.rule \in {"OC0001", "OC6001"} => d.severity = "error"
    BY <2>1, <2>3
  <2>5. judged'[Name].findings = more
    <3>1. judged'[Name].findings = old \o <<failed>>
      BY <1>1, <1>2, <2>2, <2>3, <2>4, AddStep
    <3> HIDE DEF old
    <3>2. old \o <<failed>> = Append(old, failed)
      BY <1>5
    <3> QED
      BY <3>1, <3>2 DEF old
  <2> HIDE DEF old
  <2>6. ToSet(more) = ToSet(old) \cup {failed}
    BY <1>5, <2>1, ElementsOfAppend
  <2>7. {i \in DOMAIN more : more[i].rule = "OC6001"} = {n + 1}
    <3>1. /\ n \in Nat /\ DOMAIN more = 1..(n + 1) /\ more[n + 1] = failed
          /\ \A i \in 1..n : more[i] = old[i] /\ i \in DOMAIN old
      BY <1>5, <2>1
    <3> HIDE DEF more, n
    <3>2. \A i \in 1..n : more[i].rule # "OC6001"
      BY <1>5, <3>1 DEF ToSet
    <3>3. 1..(n + 1) = 1..n \cup {n + 1}
      BY <3>1
    <3> QED
      BY <2>1, <3>1, <3>2, <3>3
  <2>8. Cardinality({i \in DOMAIN more : more[i].rule = "OC6001"}) = 1
    <3> HIDE DEF more, n
    <3> QED
      BY <2>7, FS_Singleton
  <2>9. "OC6001" \in Rules(more) /\ \A d \in ToSet(more) : d.at # "effective"
    <3> HIDE DEF more
    <3> QED
      BY <1>5, <2>1, <2>6 DEF Rules
  <2>10. effective'[Name] = <<>> /\ Rules(<<>>) = {}
    <3>1. ToSet(<<>>) = {}
      BY DEF ToSet
    <3> QED
      BY <1>2, <1>4, <2>2, <3>1 DEF Unmerged, Rules
  <2> HIDE DEF more
  <2>11. \A m : m = Name => Merged(m)'
    BY <1>1, <1>3, <1>7, <2>5, <2>8, <2>9, <2>10 DEF Merged, Failures
  <2> QED
    BY <1>2, <2>2, <2>3, <2>4, <2>11
<1> QED
  BY <1>6, <1>7

LEMMA MergeStep ==
  ASSUME Inv, Merge
  PROVE  Inv'
<1> DEFINE next == mode < Len(ModeList)
<1>1. /\ pc = "merge"
      /\ UNCHANGED <<source, remaining, documents, extra, outcome, verdict, seen>>
      /\ next => mode' = mode + 1 /\ UNCHANGED pc
      /\ ~next => mode' = 1 /\ pc' = "decide"
  BY DEF Merge
<1>2. /\ Name \in Names /\ Name = ModeList[mode] /\ mode \in Number
  BY ModeAtHand DEF Inv
<1>3. PICK new \in Seq(Finding) :
        /\ Add(Name, new)
        /\ \A d \in ToSet(new) : d.rule \in {"OC0001", "OC6001"} => d.severity = "error"
  BY MergeOfMode
<1>4. /\ effective' \in [Names -> Seq(Finding)]
      /\ \A m \in Names : m # Name => effective'[m] = effective[m]
      /\ \A m : m = Name => Merged(m)'
  BY MergeOfMode
<1>5. /\ DOMAIN judged' = Names /\ judged' = [n \in DOMAIN judged' |-> judged'[n]]
      /\ \A n \in Names : IsResult(judged'[n])
      /\ \A n \in Names : n # Name => judged'[n] = judged[n]
      /\ \A n \in DOMAIN judged' : Judged(n)'
      /\ result' \in Seq(Finding) /\ Listed'
  BY <1>1, <1>2, <1>3, AddStep DEF source
<1>6. pc' \in {"merge", "decide"} /\ exit' = "none"
  BY <1>1 DEF Inv, Typed, verdict
<1>7. Len(ModeList) \in Nat /\ mode \in 1..Len(ModeList) /\ mode' \in Number
  <2>1. Len(ModeList) \in Nat /\ mode \in 1..Len(ModeList)
    BY <1>2, ModesAre DEF Number
  <2> QED
    BY <1>1, <2>1, ModesAre DEF Number
<1>8. Typed'
  BY <1>1, <1>4, <1>5, <1>6, <1>7 DEF Inv, Typed, source, IsResult
<1>9. Reading' /\ Understanding'
  BY <1>5, <1>6 DEF Reading, AllOrNothing, Understanding
<1>10. Merging'
  <2>1. /\ \A m \in Names : outcome'[m] \in Outcomes
        /\ \A k \in Number : k < mode => Merged(ModeList[k])
        /\ \A k \in Number : ~(k < mode) => Unmerged(ModeList[k])
    BY <1>1 DEF Inv, Merging
  <2>2. \A m \in Names : m # Name => (Merged(m) => Merged(m)') /\ (Unmerged(m) => Unmerged(m)')
    <3>1. DOMAIN judged = Names
      BY <1>1 DEF Inv, Understanding
    <3> QED
      BY <1>1, <1>4, <1>5, <3>1 DEF Merged, Unmerged, Failures
  <2>3. \A k \in Number : ModeList[k] \in Names /\ (k # mode => ModeList[k] # Name)
    BY <1>2, ModesAre
  <2>4. \A k \in Number : k < mode + 1 => Merged(ModeList[k])'
    <3>1. \A k \in Number : k < mode + 1 => k < mode \/ k = mode
      BY <1>7 DEF Number
    <3>2. \A k \in Number : k < mode => k # mode
      BY <1>7 DEF Number
    <3> QED
      BY <1>2, <1>4, <2>1, <2>2, <2>3, <3>1, <3>2
  <2>5. \A k \in Number : ~(k < mode + 1) => Unmerged(ModeList[k])'
    <3>1. \A k \in Number : ~(k < mode + 1) => ~(k < mode) /\ k # mode
      BY <1>7 DEF Number
    <3> QED
      BY <2>1, <2>2, <2>3, <3>1
  <2>6. CASE next
    <3>1. pc' = "merge" /\ mode' = mode + 1
      BY <1>1, <2>6
    <3> QED
      BY <2>1, <2>4, <2>5, <3>1 DEF Merging
  <2>7. CASE ~next
    <3>1. \A k \in Number : k < mode + 1
      BY <1>7, <2>7 DEF Number
    <3>2. \A k \in Number : Merged(ModeList[k])'
      BY <2>4, <3>1
    <3>3. \A m \in Names : \E k \in Number : m = ModeList[k]
      BY ModesAre
    <3>4. \A m \in Names : Merged(m)'
      BY <3>2, <3>3
    <3>5. pc' = "decide"
      BY <1>1, <2>7
    <3> QED
      BY <3>4, <3>5 DEF Merging
  <2> QED
    BY <2>6, <2>7
<1>11. NoBlindPass'
  BY <1>6 DEF NoBlindPass
<1> QED
  BY <1>5, <1>8, <1>9, <1>10, <1>11 DEF Inv

-----------------------------------------------------------------------------
(* Deciding: a score of 0 fails the coverage gate, an error the other.     *)
LEMMA DecideStep ==
  ASSUME Inv, Decide
  PROVE  Inv'
<1>1. /\ pc = "decide" /\ pc' = "end"
      /\ policy' \in [failOn : {"never", "warning", "error"}, atLeast : Thresholds]
      /\ exit' = IF \/ \E m \in Names : judged[m].score < policy'.atLeast
                    \/ /\ policy'.failOn # "never"
                       /\ \E i \in DOMAIN result :
                            Rank(result[i].severity) >= Rank(policy'.failOn)
                 THEN "fail" ELSE "pass"
      /\ UNCHANGED <<source, mode, remaining, documents, judged, extra, result, engine, seen>>
  BY DEF Decide
<1>2. DOMAIN judged = Names /\ Typed /\ \A m \in Names : Judged(m)
  BY <1>1 DEF Inv, Understanding
<1>3. Typed'
  BY <1>1 DEF Inv, Typed, source, engine, IsResult
<1>4. Reading' /\ Understanding' /\ Merging' /\ Listed'
  BY <1>1, <1>2 DEF Reading, AllOrNothing, Understanding, Merging, Listed
<1>5. \A m \in DOMAIN judged' : Judged(m)'
  BY <1>1, <1>2 DEF Judged, source
<1>6. ASSUME exit' = "pass", policy'.failOn # "never"
      PROVE  \A d \in ToSet(result) : d.severity # "error"
  <2>1. policy'.failOn \in {"warning", "error"}
    BY <1>1, <1>6
  <2>2. Rank("error") >= Rank(policy'.failOn)
    BY <2>1 DEF Rank
  <2>3. \A i \in DOMAIN result : ~(Rank(result[i].severity) >= Rank(policy'.failOn))
    BY <1>1, <1>6
  <2>4. \A i \in DOMAIN result : result[i].severity # "error"
    BY <2>2, <2>3
  <2> QED
    BY <2>4 DEF ToSet
<1>7. ASSUME exit' = "pass", policy'.atLeast > 0
      PROVE  \A m \in Names : judged[m].score # 0
  <2>1. \A m \in Names : ~(judged[m].score < policy'.atLeast)
    BY <1>1, <1>7
  <2>2. policy'.atLeast \in Nat
    <3>1. policy'.atLeast \in Thresholds
      BY <1>1
    <3>2. \A t \in Thresholds : t \in Nat
      BY PipelineConstants
    <3> QED
      BY <3>1, <3>2, Zenon
  <2> QED
    BY <1>7, <2>1, <2>2
<1>8. ASSUME exit' = "pass", policy'.atLeast > 0 \/ policy'.failOn # "never"
      PROVE  ~incomplete /\ \A m \in Names : seen[m]
  <2>1. 1 \in Number /\ ModeList[1] \in Names
    BY ModesAre
  <2>2. CASE policy'.atLeast > 0
    BY <1>2, <1>7, <1>8, <2>1, <2>2 DEF Judged
  <2>3. CASE policy'.failOn # "never"
    <3>1. \A d \in ToSet(result) : d.severity # "error"
      BY <1>6, <1>8, <2>3
    <3>2. /\ \A m \in Names : ToSet(judged[m].findings) \subseteq ToSet(result)
          /\ incomplete => \E d \in ToSet(result) : d.severity = "error"
      BY <1>1 DEF Inv, Listed
    <3> QED
      BY <1>2, <3>1, <3>2 DEF Judged
  <2> QED
    BY <1>8, <2>2, <2>3
<1>9. ASSUME exit' = "pass", policy'.failOn # "never", NEW m \in Names, outcome[m] # NotRun
      PROVE  ~outcome[m].timedOut /\ outcome[m].code = "0"
             /\ outcome[m].snapshot \in Snapshots /\ ~outcome[m].snapshot.opaque
  <2>1. Merged(m)
    BY <1>1, <1>9 DEF Inv, Merging
  <2>2. \A d \in ToSet(judged[m].findings) : d.severity # "error"
    BY <1>1, <1>6, <1>9 DEF Inv, Listed
  <2>3. \A r \in {"OC0001", "OC6001"} : r \notin Rules(judged[m].findings)
    BY <1>2, <2>2 DEF Rules, Judged
  <2>4. Succeeded(outcome[m]) /\ ~outcome[m].snapshot.opaque
    BY <2>1, <2>3 DEF Merged
  <2> QED
    BY <2>4 DEF Succeeded
<1>10. NoBlindPass'
  <2>1. incomplete' = incomplete /\ seen' = seen /\ outcome' = outcome
    BY <1>1 DEF source, engine
  <2> QED
    BY <1>8, <1>9, <2>1 DEF NoBlindPass
<1> QED
  BY <1>3, <1>4, <1>5, <1>10 DEF Inv

LEMMA StutterStep ==
  ASSUME Inv, UNCHANGED vars
  PROVE  Inv'
<1>1. UNCHANGED <<files, incomplete, pc, mode, remaining, documents, judged, extra, result,
                  outcome, effective, policy, exit, seen>>
  BY DEF vars
<1>2. Typed'
  BY <1>1 DEF Inv, Typed, IsResult
<1>3. Reading' /\ Understanding'
  BY <1>1 DEF Inv, Reading, AllOrNothing, Understanding, Name, Before
<1>4. \A m \in DOMAIN judged' : Judged(m)'
  BY <1>1 DEF Inv, Judged
<1>5. Merging'
  <2>1. \A m : (Merged(m) <=> Merged(m)') /\ (Unmerged(m) <=> Unmerged(m)')
    BY <1>1 DEF Merged, Unmerged, Failures
  <2> QED
    BY <1>1, <2>1 DEF Inv, Merging
<1>6. Listed' /\ NoBlindPass'
  BY <1>1 DEF Inv, Listed, NoBlindPass, OfModes
<1> QED
  BY <1>2, <1>3, <1>4, <1>5, <1>6 DEF Inv

-----------------------------------------------------------------------------
(* The invariant: of what kind everything is, and what is known of a mode  *)
(* while it is read, judged, validated and merged.                         *)
THEOREM PipelineIsConsistent == Spec => []Inv
<1>1. Init => Inv
  BY InitHolds
<1>2. Inv /\ [Next]_vars => Inv'
  <2>s. SUFFICES ASSUME Inv, [Next]_vars PROVE Inv'
    OBVIOUS
  <2> QED
    BY <2>s, StatStep, RewriteStep, ReadStep, JudgeStep, CompareStep, ValidateStep, MergeStep,
       DecideStep, StutterStep DEF Next
<1> QED
  BY <1>1, <1>2, PTL DEF Spec

(* _audit_mode: a mode is judged from all its files, which fit the budget, *)
(* or from a file that was rejected, whatever changes meanwhile.           *)
THEOREM AllOrNothingIsRead == Spec => []AllOrNothing
<1>1. Inv => AllOrNothing
  BY DEF Inv, Reading
<1> QED
  BY <1>1, PipelineIsConsistent, PTL

(* validate_with_opensta and _merge_opensta: when the exit status is       *)
(* decided, every mode that OpenSTA did not accept is reported once, none  *)
(* has findings of a snapshot that was not accepted, and the result lists  *)
(* every diagnostic of the modes as often as they do.                      *)
THEOREM NoFailureIsLost == Spec => []FailureIsReported
<1>1. Inv => FailureIsReported
  <2>s. SUFFICES ASSUME Inv, pc = "decide", outcome[ModeList[1]] # NotRun
                 PROVE  FailureIsReported
    BY DEF FailureIsReported
  <2>1. Typed /\ DOMAIN judged = Names
    BY <2>s DEF Inv, Understanding
  <2>2. OfModes \in Seq(Finding) /\ extra \in Seq(Finding) /\ result \in Seq(Finding)
    BY <2>1, OfModesAre DEF Typed
  <2>3. OfModes \o extra \in Seq(Finding)
    BY <2>2
  <2>4. \A s \in Seq(Finding) : ToSet(s) \subseteq Finding
    BY DEF ToSet
  <2>5. \A d : Times(d, OfModes \o extra) = Times(d, OfModes) + Times(d, extra)
    BY <2>2, TimesOfJoin
  <2>6. \A d \in Finding : Times(d, result) = Times(d, OfModes) + Times(d, extra)
    BY <2>s DEF Inv, Listed
  <2>7. \A d \in ToSet(result) \cup ToSet(OfModes \o extra) :
          Times(d, result) = Times(d, OfModes \o extra)
    BY <2>2, <2>3, <2>4, <2>5, <2>6
  <2>8. \A m \in Names : Merged(m)
    <3>1. ModeList[1] \in Names
      BY ModesAre
    <3> QED
      BY <2>s, <3>1 DEF Inv, Merging
  <2>9. \A m \in Names : Succeeded(outcome[m]) <=>
                           outcome[m].code = "0" /\ outcome[m].snapshot \in Snapshots
    BY <2>8, CleanSucceeds DEF Merged
  <2> QED
    BY <2>7, <2>8, <2>9 DEF FailureIsReported, Merged, Failures, Rules
<1> QED
  BY <1>1, PipelineIsConsistent, PTL

(* _quality_exit: no gate passes an audit of what was not read or not      *)
(* understood, and the severity gate none that OpenSTA did not accept.     *)
THEOREM NoGatePassesBlindly == Spec => []NoBlindPass
<1>1. Inv => NoBlindPass
  BY DEF Inv
<1> QED
  BY <1>1, PipelineIsConsistent, PTL
=============================================================================
