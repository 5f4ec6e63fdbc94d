----------------------- MODULE AdoptionControlsProofs -----------------------
(***************************************************************************)
(* That diagnostic baselines and waivers only control what was reviewed,   *)
(* that nothing gets lost between the lists of a report, and that a        *)
(* baseline is of use at once, for any workspaces, waivers and histories   *)
(* of invocations, edits and crashes.                                      *)
(***************************************************************************)
EXTENDS AdoptionControls, FiniteSetTheorems, WellFoundedInduction, TLAPS

-----------------------------------------------------------------------------
(* Induction, stated with a set for the property: a set that holds 0 and   *)
(* the successor of each of its members holds every natural number.        *)
LEMMA Naturals ==
  ASSUME NEW G, 0 \in G, \A n \in Nat : n \in G => n + 1 \in G
  PROVE  Nat \subseteq G
<1> SUFFICES ASSUME ~(Nat \subseteq G) PROVE FALSE
  OBVIOUS
<1> DEFINE R == OpToRel(<, Nat)
           bad == Nat \ G
<1>1. IsWellFoundedOn(R, Nat)
  BY NatLessThanWellFounded
<1>2. \A x, y \in Nat : <<y, x>> \in R <=> y < x
  BY DEF OpToRel
<1>3. bad \subseteq Nat /\ bad # {}
  OBVIOUS
<1> HIDE DEF R, bad
<1>4. PICK x \in bad : \A y \in bad : ~(<<y, x>> \in R)
  BY <1>1, <1>3, WFMin
<1>5. x \in Nat /\ x \notin G /\ x # 0
  BY <1>4 DEF bad
<1>6. x - 1 \in Nat /\ x - 1 < x /\ (x - 1) + 1 = x
  BY <1>5
<1>7. x - 1 \in bad
  BY <1>5, <1>6 DEF bad
<1> QED
  BY <1>2, <1>4, <1>5, <1>6, <1>7

(* The same for sequences, which are built by Append.                      *)
LEMMA SequencesByAppend ==
  ASSUME NEW S, NEW G, <<>> \in G,
         \A s \in Seq(S) : \A x \in S : s \in G => Append(s, x) \in G
  PROVE  Seq(S) \subseteq G
<1> DEFINE H == {n \in Nat : \A s \in Seq(S) : Len(s) = n => s \in G}
<1>1. 0 \in H
  <2>1. ASSUME NEW s \in Seq(S), Len(s) = 0 PROVE s \in G
    <3>1. s = <<>>
      BY <2>1
    <3> QED
      BY <3>1
  <2> QED
    BY <2>1
<1>2. ASSUME NEW n \in Nat, n \in H PROVE n + 1 \in H
  <2>1. ASSUME NEW s \in Seq(S), Len(s) = n + 1 PROVE s \in G
    <3> DEFINE front == SubSeq(s, 1, n)
    <3>1. front \in Seq(S) /\ Len(front) = n /\ s[n + 1] \in S
      BY <2>1
    <3>2. s = Append(front, s[n + 1])
      BY <2>1
    <3>3. front \in G
      BY <1>2, <3>1
    <3> HIDE DEF front
    <3> QED
      BY <3>1, <3>2, <3>3
  <2> QED
    BY <2>1
<1> HIDE DEF H
<1>3. Nat \subseteq H
  BY <1>1, <1>2, Naturals
<1> QED
  BY <1>3 DEF H

-----------------------------------------------------------------------------
(* What Only computes.  Its recursive function on the prefixes exists and  *)
(* is the only one.                                                        *)
Keeps(f, s, P, n) ==
  f = [i \in 0..n |-> IF i = 0 THEN <<>>
                      ELSE IF s[i] \in P THEN Append(f[i - 1], s[i]) ELSE f[i - 1]]

LEMMA KeepsExists ==
  ASSUME NEW s, NEW P, NEW n \in Nat
  PROVE  \E f : Keeps(f, s, P, n)
<1> DEFINE G == {k \in Nat : \E f : Keeps(f, s, P, k)}
<1>1. 0 \in G
  <2> DEFINE f == [i \in 0..0 |-> <<>>]
  <2>1. f = [i \in 0..0 |-> IF i = 0 THEN <<>>
                            ELSE IF s[i] \in P THEN Append(f[i - 1], s[i]) ELSE f[i - 1]]
    OBVIOUS
  <2> QED
    BY <2>1 DEF Keeps
<1>2. ASSUME NEW k \in Nat, k \in G PROVE k + 1 \in G
  <2>1. PICK f : Keeps(f, s, P, k)
    BY <1>2
  <2> DEFINE Next1(prefix) == IF s[k + 1] \in P THEN Append(prefix, s[k + 1]) ELSE prefix
             g == [i \in 0..(k + 1) |-> IF i = k + 1 THEN Next1(f[k]) ELSE f[i]]
             h == [i \in 0..(k + 1) |->
                     IF i = 0 THEN <<>>
                     ELSE IF s[i] \in P THEN Append(g[i - 1], s[i]) ELSE g[i - 1]]
  <2>2. ASSUME NEW i \in 0..(k + 1) PROVE g[i] = h[i]
    <3>1. CASE i = k + 1
      <4>1. i # 0 /\ i - 1 = k /\ k \in 0..(k + 1) /\ k # k + 1
        BY <3>1
      <4>2. g[k] = f[k] /\ g[i] = Next1(f[k])
        BY <3>1, <4>1
      <4> QED
        BY <3>1, <4>1, <4>2
    <3>2. CASE i # k + 1
      <4>1. i \in 0..k /\ (i # 0 => i - 1 \in 0..(k + 1) /\ i - 1 # k + 1)
        BY <3>2
      <4>2. g[i] = f[i] /\ (i # 0 => g[i - 1] = f[i - 1])
        BY <3>2, <4>1
      <4>3. f[i] = IF i = 0 THEN <<>>
                   ELSE IF s[i] \in P THEN Append(f[i - 1], s[i]) ELSE f[i - 1]
        BY <2>1, <4>1 DEF Keeps
      <4> QED
        BY <4>2, <4>3
    <3> QED
      BY <3>1, <3>2
  <2>3. g = h
    BY <2>2
  <2>4. Keeps(g, s, P, k + 1)
    BY <2>3 DEF Keeps
  <2> QED
    BY <2>4
<1> HIDE DEF G
<1>3. Nat \subseteq G
  BY <1>1, <1>2, Naturals
<1> QED
  BY <1>3 DEF G

(* Two lists that agree so far keep the same of what they agree on.        *)
LEMMA KeepsAgree ==
  ASSUME NEW s, NEW t, NEW P, NEW Q, NEW m \in Nat, NEW n \in Nat, NEW f, NEW g,
         Keeps(f, s, P, m), Keeps(g, t, Q, n), NEW k \in Nat, k <= m, k <= n,
         \A i \in 1..k : s[i] = t[i] /\ (s[i] \in P <=> t[i] \in Q)
  PROVE  f[k] = g[k]
<1> DEFINE G == {i \in Nat : i <= k => f[i] = g[i]}
<1>1. \A i \in 0..m : f[i] = IF i = 0 THEN <<>>
                             ELSE IF s[i] \in P THEN Append(f[i - 1], s[i]) ELSE f[i - 1]
  BY DEF Keeps
<1>2. \A i \in 0..n : g[i] = IF i = 0 THEN <<>>
                             ELSE IF t[i] \in Q THEN Append(g[i - 1], t[i]) ELSE g[i - 1]
  BY DEF Keeps
<1>3. 0 \in G
  BY <1>1, <1>2
<1>4. ASSUME NEW i \in Nat, i \in G PROVE i + 1 \in G
  <2> SUFFICES ASSUME i + 1 <= k PROVE f[i + 1] = g[i + 1]
    OBVIOUS
  <2>1. /\ i + 1 \in 0..m /\ i + 1 \in 0..n /\ i + 1 # 0 /\ (i + 1) - 1 = i /\ i <= k
        /\ i + 1 \in 1..k
    OBVIOUS
  <2>2. f[i] = g[i]
    BY <1>4, <2>1
  <2>3. s[i + 1] = t[i + 1] /\ (s[i + 1] \in P <=> t[i + 1] \in Q)
    BY <2>1
  <2> QED
    BY <1>1, <1>2, <2>1, <2>2, <2>3
<1> HIDE DEF G
<1>5. k \in G
  BY <1>3, <1>4, Naturals
<1> QED
  BY <1>5 DEF G

LEMMA OnlyIsKept ==
  ASSUME NEW S, NEW s \in Seq(S), NEW P
  PROVE  \E f : Keeps(f, s, P, Len(s)) /\ Only(s, P) = f[Len(s)]
<1> DEFINE f == CHOOSE f : Keeps(f, s, P, Len(s))
<1>1. Keeps(f, s, P, Len(s))
  BY KeepsExists
<1>2. Only(s, P) = f[Len(s)]
  BY DEF Only, Keeps
<1> QED
  BY <1>1, <1>2

LEMMA OnlyEmpty == ASSUME NEW P PROVE Only(<<>>, P) = <<>>
<1>1. <<>> \in Seq({}) /\ Len(<<>>) = 0
  OBVIOUS
<1>2. PICK f : Keeps(f, <<>>, P, Len(<<>>)) /\ Only(<<>>, P) = f[Len(<<>>)]
  BY <1>1, OnlyIsKept
<1>3. f[0] = <<>>
  BY <1>1, <1>2 DEF Keeps
<1> QED
  BY <1>1, <1>2, <1>3

LEMMA OnlyAppend ==
  ASSUME NEW S, NEW s \in Seq(S), NEW x \in S, NEW P
  PROVE  Only(Append(s, x), P) = IF x \in P THEN Append(Only(s, P), x) ELSE Only(s, P)
<1> DEFINE t == Append(s, x)
           n == Len(s)
<1>1. /\ t \in Seq(S) /\ n \in Nat /\ Len(t) = n + 1 /\ t[n + 1] = x
      /\ \A i \in 1..n : t[i] = s[i]
  OBVIOUS
<1> HIDE DEF t, n
<1>2. PICK f : Keeps(f, s, P, n) /\ Only(s, P) = f[n]
  BY OnlyIsKept DEF n
<1>3. PICK g : Keeps(g, t, P, n + 1) /\ Only(t, P) = g[n + 1]
  <2>1. PICK g : Keeps(g, t, P, Len(t)) /\ Only(t, P) = g[Len(t)]
    BY <1>1, OnlyIsKept
  <2> QED
    BY <1>1, <2>1
<1>4. g[n] = f[n]
  <2>1. n + 1 \in Nat /\ n <= n + 1 /\ n <= n
    BY <1>1
  <2> QED
    BY <1>1, <1>2, <1>3, <2>1, KeepsAgree
<1>5. g[n + 1] = IF x \in P THEN Append(g[n], x) ELSE g[n]
  <2>1. n + 1 \in 0..(n + 1) /\ n + 1 # 0 /\ (n + 1) - 1 = n
    BY <1>1
  <2> QED
    BY <1>1, <1>3, <2>1 DEF Keeps
<1> QED
  BY <1>2, <1>3, <1>4, <1>5 DEF t

(* What is kept is a sequence of the same elements.                        *)
LEMMA OnlyType ==
  ASSUME NEW S, NEW s \in Seq(S), NEW P
  PROVE  Only(s, P) \in Seq(S)
<1> DEFINE G == {r \in Seq(S) : Only(r, P) \in Seq(S)}
<1>1. <<>> \in G
  <2>1. Only(<<>>, P) = <<>>
    BY OnlyEmpty
  <2>2. <<>> \in Seq(S)
    OBVIOUS
  <2> QED
    BY <2>1, <2>2
<1>2. ASSUME NEW r \in Seq(S), NEW x \in S, r \in G PROVE Append(r, x) \in G
  <2>1. Only(Append(r, x), P) = IF x \in P THEN Append(Only(r, P), x) ELSE Only(r, P)
    BY OnlyAppend
  <2>2. Append(r, x) \in Seq(S) /\ Only(r, P) \in Seq(S)
    BY <1>2
  <2>3. Append(Only(r, P), x) \in Seq(S)
    BY <2>2
  <2>4. Only(Append(r, x), P) \in Seq(S)
    BY <2>1, <2>2, <2>3, Zenon
  <2> QED
    BY <2>2, <2>4
<1> HIDE DEF G
<1>3. Seq(S) \subseteq G
  BY <1>1, <1>2, SequencesByAppend
<1> QED
  BY <1>3 DEF G

LEMMA ElementsOfAppend ==
  ASSUME NEW S, NEW s \in Seq(S), NEW x \in S
  PROVE  ToSet(Append(s, x)) = ToSet(s) \cup {x}
<1>1. DOMAIN s = 1..Len(s) /\ DOMAIN Append(s, x) = 1..(Len(s) + 1) /\ Len(s) \in Nat
  OBVIOUS
<1>2. \A i \in 1..Len(s) : Append(s, x)[i] = s[i]
  OBVIOUS
<1>3. Append(s, x)[Len(s) + 1] = x
  OBVIOUS
<1>4. 1..(Len(s) + 1) = 1..Len(s) \cup {Len(s) + 1}
  BY <1>1
<1> QED
  BY <1>1, <1>2, <1>3, <1>4 DEF ToSet

LEMMA ElementsOfOnly ==
  ASSUME NEW S, NEW s \in Seq(S), NEW P
  PROVE  ToSet(Only(s, P)) = ToSet(s) \cap P
<1> DEFINE G == {r \in Seq(S) : ToSet(Only(r, P)) = ToSet(r) \cap P}
<1>1. <<>> \in G
  <2>1. ToSet(<<>>) = {}
    BY DEF ToSet
  <2> QED
    BY <2>1, OnlyEmpty
<1>2. ASSUME NEW r \in Seq(S), NEW x \in S, r \in G PROVE Append(r, x) \in G
  <2>1. Only(Append(r, x), P) = IF x \in P THEN Append(Only(r, P), x) ELSE Only(r, P)
    BY OnlyAppend
  <2>2. ToSet(Append(r, x)) = ToSet(r) \cup {x}
    BY ElementsOfAppend
  <2>3. Only(r, P) \in Seq(S)
    BY OnlyType
  <2>4. ToSet(Append(Only(r, P), x)) = ToSet(Only(r, P)) \cup {x}
    BY <2>3, ElementsOfAppend
  <2>5. Append(r, x) \in Seq(S) /\ ToSet(Only(r, P)) = ToSet(r) \cap P
    BY <1>2
  <2> QED
    BY <2>1, <2>2, <2>4, <2>5
<1> HIDE DEF G
<1>3. Seq(S) \subseteq G
  BY <1>1, <1>2, SequencesByAppend
<1> QED
  BY <1>3 DEF G

(* Only what is in the sequence counts, and keeping twice is keeping what  *)
(* is in both.                                                             *)
LEMMA OnlyOfThese ==
  ASSUME NEW S, NEW s \in Seq(S), NEW P, NEW Q, ToSet(s) \cap P = ToSet(s) \cap Q
  PROVE  Only(s, P) = Only(s, Q)
<1> DEFINE n == Len(s)
<1>1. n \in Nat /\ n <= n /\ \A i \in 1..n : s[i] \in ToSet(s)
  BY DEF ToSet
<1>2. \A i \in 1..n : s[i] = s[i] /\ (s[i] \in P <=> s[i] \in Q)
  BY <1>1
<1>3. PICK f : Keeps(f, s, P, n) /\ Only(s, P) = f[n]
  BY OnlyIsKept
<1>4. PICK g : Keeps(g, s, Q, n) /\ Only(s, Q) = g[n]
  BY OnlyIsKept
<1> HIDE DEF n
<1>5. f[n] = g[n]
  BY <1>1, <1>2, <1>3, <1>4, KeepsAgree
<1> QED
  BY <1>3, <1>4, <1>5

LEMMA OnlyTwice ==
  ASSUME NEW S, NEW s \in Seq(S), NEW P, NEW Q
  PROVE  Only(Only(s, P), Q) = Only(s, P \cap Q)
<1> DEFINE G == {r \in Seq(S) : Only(Only(r, P), Q) = Only(r, P \cap Q)}
<1>1. <<>> \in G
  BY OnlyEmpty
<1>2. ASSUME NEW r \in Seq(S), NEW x \in S, r \in G PROVE Append(r, x) \in G
  <2>1. Only(Append(r, x), P) = IF x \in P THEN Append(Only(r, P), x) ELSE Only(r, P)
    BY OnlyAppend
  <2>2. Only(Append(r, x), P \cap Q) =
          IF x \in P \cap Q THEN Append(Only(r, P \cap Q), x) ELSE Only(r, P \cap Q)
    BY OnlyAppend
  <2>3. Only(r, P) \in Seq(S)
    BY OnlyType
  <2>4. Only(Append(Only(r, P), x), Q) =
          IF x \in Q THEN Append(Only(Only(r, P), Q), x) ELSE Only(Only(r, P), Q)
    BY <2>3, OnlyAppend
  <2>5. Append(r, x) \in Seq(S) /\ Only(Only(r, P), Q) = Only(r, P \cap Q)
    BY <1>2
  <2>6. CASE x \in P
    <3>1. Only(Only(Append(r, x), P), Q) = Only(Append(Only(r, P), x), Q)
      BY <2>1, <2>6, Zenon
    <3>2. CASE x \in Q
      <4>1. /\ Only(Append(Only(r, P), x), Q) = Append(Only(Only(r, P), Q), x)
            /\ Only(Append(r, x), P \cap Q) = Append(Only(r, P \cap Q), x)
        BY <2>2, <2>4, <2>6, <3>2, Zenon
      <4>2. Only(Only(Append(r, x), P), Q) = Only(Append(r, x), P \cap Q)
        BY <2>5, <3>1, <4>1, Zenon
      <4> QED
        BY <2>5, <4>2, Zenon
    <3>3. CASE x \notin Q
      <4>1. /\ Only(Append(Only(r, P), x), Q) = Only(Only(r, P), Q)
            /\ Only(Append(r, x), P \cap Q) = Only(r, P \cap Q)
        BY <2>2, <2>4, <2>6, <3>3, Zenon
      <4>2. Only(Only(Append(r, x), P), Q) = Only(Append(r, x), P \cap Q)
        BY <2>5, <3>1, <4>1, Zenon
      <4> QED
        BY <2>5, <4>2, Zenon
    <3> QED
      BY <3>2, <3>3
  <2>7. CASE x \notin P
    BY <2>1, <2>2, <2>4, <2>5, <2>7
  <2> QED
    BY <2>6, <2>7
<1> HIDE DEF G
<1>3. Seq(S) \subseteq G
  BY <1>1, <1>2, SequencesByAppend
<1> QED
  BY <1>3 DEF G

(* How often f is in a sequence that an element is appended to, and among  *)
(* what is kept of it.                                                     *)
LEMMA TimesType ==
  ASSUME NEW S, NEW s \in Seq(S), NEW f
  PROVE  IsFiniteSet({i \in DOMAIN s : s[i] = f}) /\ Times(f, s) \in Nat
<1>1. DOMAIN s = 1..Len(s) /\ Len(s) \in Nat
  OBVIOUS
<1>2. IsFiniteSet(1..Len(s))
  BY <1>1, FS_Interval
<1>3. IsFiniteSet({i \in DOMAIN s : s[i] = f})
  BY <1>1, <1>2, FS_Subset
<1> QED
  BY <1>3, FS_CardinalityType DEF Times

LEMMA TimesOfAppend ==
  ASSUME NEW S, NEW s \in Seq(S), NEW x \in S, NEW f
  PROVE  Times(f, Append(s, x)) = IF x = f THEN Times(f, s) + 1 ELSE Times(f, s)
<1> DEFINE n == Len(s)
           at == {i \in DOMAIN s : s[i] = f}
           after == {i \in DOMAIN Append(s, x) : Append(s, x)[i] = f}
<1>1. DOMAIN s = 1..n /\ DOMAIN Append(s, x) = 1..(n + 1) /\ n \in Nat
  OBVIOUS
<1>2. \A i \in 1..n : Append(s, x)[i] = s[i]
  OBVIOUS
<1>3. Append(s, x)[n + 1] = x
  OBVIOUS
<1>4. 1..(n + 1) = 1..n \cup {n + 1} /\ n + 1 \notin 1..n
  BY <1>1
<1>5. n + 1 \notin at /\ after = IF x = f THEN at \cup {n + 1} ELSE at
  <2> HIDE DEF n
  <2> QED
    BY <1>1, <1>2, <1>3, <1>4
<1>6. IsFiniteSet(at) /\ Cardinality(at) = Times(f, s)
  BY TimesType DEF Times
<1>7. Cardinality(after) = Times(f, Append(s, x))
  BY DEF Times
<1> HIDE DEF at, after, n
<1>8. Cardinality(at \cup {n + 1}) = Cardinality(at) + 1
  BY <1>5, <1>6, FS_AddElement
<1> QED
  BY <1>5, <1>6, <1>7, <1>8

LEMMA TimesOfOnly ==
  ASSUME NEW S, NEW s \in Seq(S), NEW P, NEW f
  PROVE  Times(f, Only(s, P)) = IF f \in P THEN Times(f, s) ELSE 0
<1> DEFINE G == {r \in Seq(S) : Times(f, Only(r, P)) = IF f \in P THEN Times(f, r) ELSE 0}
<1>1. <<>> \in G
  <2>1. {i \in DOMAIN <<>> : <<>>[i] = f} = {}
    OBVIOUS
  <2>2. Times(f, <<>>) = 0
    BY <2>1, FS_EmptySet DEF Times
  <2> QED
    BY <2>2, OnlyEmpty
<1>2. ASSUME NEW r \in Seq(S), NEW x \in S, r \in G PROVE Append(r, x) \in G
  <2>1. Only(Append(r, x), P) = IF x \in P THEN Append(Only(r, P), x) ELSE Only(r, P)
    BY OnlyAppend
  <2>2. Times(f, Append(r, x)) = IF x = f THEN Times(f, r) + 1 ELSE Times(f, r)
    BY TimesOfAppend
  <2>3. Only(r, P) \in Seq(S)
    BY OnlyType
  <2>4. Times(f, Append(Only(r, P), x)) =
          IF x = f THEN Times(f, Only(r, P)) + 1 ELSE Times(f, Only(r, P))
    BY <2>3, TimesOfAppend
  <2>5. Append(r, x) \in Seq(S) /\ Times(f, Only(r, P)) = IF f \in P THEN Times(f, r) ELSE 0
    BY <1>2
  <2>6. CASE x \in P
    <3>1. Only(Append(r, x), P) = Append(Only(r, P), x)
      BY <2>1, <2>6, Zenon
    <3>2. Times(f, Only(Append(r, x), P)) =
            IF x = f THEN Times(f, Only(r, P)) + 1 ELSE Times(f, Only(r, P))
      BY <2>4, <3>1, Zenon
    <3>3. Times(f, Only(Append(r, x), P)) = IF f \in P THEN Times(f, Append(r, x)) ELSE 0
      BY <2>2, <2>5, <2>6, <3>2
    <3> QED
      BY <2>5, <3>3
  <2>7. CASE x \notin P
    BY <2>1, <2>2, <2>4, <2>5, <2>7
  <2> QED
    BY <2>6, <2>7
<1> HIDE DEF G
<1>3. Seq(S) \subseteq G
  BY <1>1, <1>2, SequencesByAppend
<1> QED
  BY <1>3 DEF G

-----------------------------------------------------------------------------
(* The inductive invariant.  The arguments were accepted by Start, and     *)
(* only an invocation that writes gets to the steps that write.            *)
Typed ==
  /\ workspace \in Workspaces /\ snapshot \in Workspaces
  /\ today \in Nat /\ \A v \in waivers : v.expires \in Nat
  /\ args \in Arguments /\ (args.write => ~args.waivers)
  /\ pc \in {"stage", "publish"} => args.write
  /\ pc = "publish" => ~Collides(workspace)

(* A baseline file is that of its snapshot, which has one entry for each   *)
(* fingerprint.                                                            *)
Stored == file # NoFile => file = BaselineOf(snapshot) /\ ~Collides(snapshot)

(* What an invocation has loaded is what the files still hold, and was not *)
(* refused: nobody writes them meanwhile, except the invocation itself,    *)
(* which then has loaded nothing.                                          *)
Loaded ==
  pc \in {"audit", "stage", "publish", "apply", "report"} =>
    /\ controls.waivers \subseteq {v \in waivers : args.waivers /\ v.expires >= today}
    /\ args.baseline =>
         /\ file # NoFile /\ ~BaselineRejected
         /\ controls.top = file.top /\ controls.entries = file.entries
    /\ ~args.baseline => controls.entries = {}

(* The result is that of apply_adoption_controls, also of an invocation    *)
(* that has no controls and does not call it.                              *)
Active == {f \in Reported : WaiversFor(f) \cup EntriesFor(f) = {}}
Waived == {f \in Reported : WaiversFor(f) # {}}
Baselined == {f \in Reported : WaiversFor(f) = {} /\ EntriesFor(f) # {}}
Unused == controls.waivers \ UNION {WaiversFor(f) : f \in Reported}
Stale == {e \in controls.entries : ~ \E f \in Reported : Fingerprint(f) = e.of}

Partitioned ==
  /\ result.active = Only(workspace.findings, Active)
  /\ result.waived = Only(workspace.findings, Waived)
  /\ result.baselined = Only(workspace.findings, Baselined)
  /\ result.views = Views
  /\ result.unused = Unused
  /\ result.stale = Stale

Matched ==
  /\ args.baseline => controls.top = workspace.top
  /\ \A f \in Reported : ~Mismatched(f)

Sorted == pc \in {"stage", "publish", "report"} => Partitioned /\ Matched

Inv == Typed /\ Stored /\ Loaded /\ Sorted

-----------------------------------------------------------------------------
(* What the report is made of depends on the workspace and the controls.   *)
LEMMA SameControls ==
  ASSUME workspace' = workspace, controls' = controls
  PROVE  /\ Reported' = Reported /\ Active' = Active /\ Waived' = Waived
         /\ Baselined' = Baselined /\ Unused' = Unused /\ Stale' = Stale
         /\ Views' = Views
         /\ \A f : Mismatched(f)' <=> Mismatched(f)
<1>1. Reported' = Reported
  BY DEF Reported
<1>2. \A f : WaiversFor(f)' = WaiversFor(f) /\ EntriesFor(f)' = EntriesFor(f)
  BY DEF WaiversFor, EntriesFor
<1>3. /\ Active' = Active /\ Waived' = Waived /\ Baselined' = Baselined
      /\ Unused' = Unused /\ Stale' = Stale
  BY <1>1, <1>2 DEF Active, Waived, Baselined, Unused, Stale
<1>4. Views' = Views
  BY <1>1, <1>2 DEF Views, Tagged
<1>5. \A f : Mismatched(f)' <=> Mismatched(f)
  BY <1>2 DEF Mismatched
<1> QED
  BY <1>1, <1>3, <1>4, <1>5

LEMMA SameResult ==
  ASSUME Partitioned, Matched, workspace' = workspace, controls' = controls,
         result' = result, args' = args
  PROVE  Partitioned' /\ Matched'
<1>1. Partitioned'
  BY SameControls DEF Partitioned
<1>2. Matched'
  BY SameControls DEF Matched
<1> QED
  BY <1>1, <1>2

(* Keeping everything, and keeping nothing.                                *)
LEMMA OnlyAll ==
  ASSUME NEW S, NEW s \in Seq(S), NEW P, ToSet(s) \subseteq P
  PROVE  Only(s, P) = s
<1> DEFINE G == {r \in Seq(S) : Only(r, S) = r}
<1>1. <<>> \in G
  <2>1. Only(<<>>, S) = <<>>
    BY OnlyEmpty
  <2>2. <<>> \in Seq(S)
    OBVIOUS
  <2> QED
    BY <2>1, <2>2
<1>2. ASSUME NEW r \in Seq(S), NEW x \in S, r \in G PROVE Append(r, x) \in G
  <2>1. Only(Append(r, x), S) = Append(Only(r, S), x)
    BY OnlyAppend
  <2>2. Append(r, x) \in Seq(S) /\ Only(r, S) = r
    BY <1>2
  <2>3. Only(Append(r, x), S) = Append(r, x)
    BY <2>1, <2>2, Zenon
  <2> QED
    BY <2>2, <2>3
<1> HIDE DEF G
<1>3. Seq(S) \subseteq G
  BY <1>1, <1>2, SequencesByAppend
<1>4. Only(s, S) = s
  BY <1>3 DEF G
<1>5. ToSet(s) \cap S = ToSet(s) \cap P
  BY DEF ToSet
<1> QED
  BY <1>4, <1>5, OnlyOfThese

LEMMA OnlyNone ==
  ASSUME NEW S, NEW s \in Seq(S)
  PROVE  Only(s, {}) = <<>>
<1>1. Only(s, {}) \in Seq(S) /\ ToSet(Only(s, {})) = {}
  BY OnlyType, ElementsOfOnly
<1> DEFINE r == Only(s, {})
<1> HIDE DEF r
<1>2. r \in Seq(S) /\ ToSet(r) = {} => r = <<>>
  <2> SUFFICES ASSUME r \in Seq(S), ToSet(r) = {} PROVE r = <<>>
    OBVIOUS
  <2>1. DOMAIN r = {}
    BY DEF ToSet
  <2>2. Len(r) = 0
    BY <2>1
  <2> QED
    BY <2>2
<1> QED
  BY <1>1, <1>2 DEF r

LEMMA FindingsAreDiagnostics ==
  ASSUME NEW w \in Workspaces
  PROVE  w \in Workspace /\ w.findings \in Seq(Diagnostic) /\ w.top # "none"
BY ControlConstants DEF Workspace

(* The raw result is that of an invocation without controls.               *)
LEMMA RawResult ==
  ASSUME Typed, controls.waivers = {}, controls.entries = {}
  PROVE  /\ Active = Reported /\ Waived = {} /\ Baselined = {}
         /\ Unused = {} /\ Stale = {}
         /\ Only(workspace.findings, Active) = workspace.findings
         /\ Only(workspace.findings, Waived) = <<>>
         /\ Only(workspace.findings, Baselined) = <<>>
         /\ Views = [m \in workspace.modes |-> Tagged(m)]
         /\ \A f : ~Mismatched(f)
<1>1. \A f : WaiversFor(f) = {} /\ EntriesFor(f) = {}
  BY DEF WaiversFor, EntriesFor
<1>2. /\ Active = Reported /\ Waived = {} /\ Baselined = {} /\ Unused = {} /\ Stale = {}
  BY <1>1 DEF Active, Waived, Baselined, Unused, Stale
<1>3. workspace.findings \in Seq(Diagnostic)
  BY FindingsAreDiagnostics DEF Typed
<1>4. /\ Only(workspace.findings, Active) = workspace.findings
      /\ Only(workspace.findings, Waived) = <<>>
      /\ Only(workspace.findings, Baselined) = <<>>
  BY <1>2, <1>3, OnlyAll, OnlyNone DEF Reported
<1>5. \A m : Only(Tagged(m), Reported) = Tagged(m)
  <2> TAKE m
  <2>1. Tagged(m) \in Seq(Diagnostic)
    BY <1>3, OnlyType DEF Tagged
  <2>2. ToSet(Tagged(m)) \subseteq Reported
    BY <1>3, ElementsOfOnly DEF Tagged, Reported
  <2> QED
    BY <2>1, <2>2, OnlyAll
<1>6. Views = [m \in workspace.modes |-> Tagged(m)]
  <2>1. {Fingerprint(f) : f \in {g \in Reported : WaiversFor(g) \cup EntriesFor(g) # {}}} = {}
    BY <1>1
  <2>2. Views = [m \in workspace.modes |-> Only(Tagged(m), {f \in Reported : Fingerprint(f) \notin {}})]
    BY <2>1, Zenon DEF Views
  <2>3. {f \in Reported : Fingerprint(f) \notin {}} = Reported
    OBVIOUS
  <2> QED
    BY <1>5, <2>2, <2>3
<1>7. \A f : ~Mismatched(f)
  BY <1>1 DEF Mismatched
<1> QED
  BY <1>2, <1>4, <1>6, <1>7

-----------------------------------------------------------------------------
LEMMA InitInv == Init => Inv
<1> SUFFICES ASSUME Init PROVE Inv
  OBVIOUS
<1>1. NoArguments \in Arguments /\ ~NoArguments.write
  BY DEF Arguments, NoArguments
<1>2. Typed
  BY <1>1 DEF Init, Typed
<1>3. Stored /\ Loaded /\ Sorted
  BY DEF Init, Stored, Loaded, Sorted
<1> QED
  BY <1>2, <1>3 DEF Inv

(* Outside the states named there, Loaded and Sorted ask for nothing.      *)
LEMMA Stopped ==
  ASSUME Inv, NEW why, Stop(why), UNCHANGED <<file, snapshot, world>>
  PROVE  Inv'
<1>1. NoArguments \in Arguments /\ ~NoArguments.write
  BY DEF Arguments, NoArguments
<1>2. Typed'
  BY <1>1 DEF Inv, Typed, Stop, world
<1>3. Stored'
  BY DEF Inv, Stored, Collides, BaselineOf, Identity, Fingerprint
<1>4. Loaded' /\ Sorted'
  BY DEF Stop, Loaded, Sorted
<1> QED
  BY <1>2, <1>3, <1>4 DEF Inv

LEMMA StartInv ==
  ASSUME Inv, NEW a \in Arguments, Start(a)
  PROVE  Inv'
<1>1. /\ workspace' = workspace /\ today' = today /\ waivers' = waivers
      /\ file' = file /\ snapshot' = snapshot
  BY DEF Start, disk
<1>2. NoArguments \in Arguments /\ ~NoArguments.write
  BY DEF Arguments, NoArguments
<1>3. pc' \in {"idle", "load"} /\ args' \in Arguments /\ (args'.write => ~args'.waivers)
  BY <1>2 DEF Start, Stop
<1>4. Typed'
  BY <1>1, <1>3 DEF Inv, Typed
<1>5. Stored'
  BY <1>1 DEF Inv, Stored, Collides, BaselineOf, Identity, Fingerprint
<1>6. Loaded' /\ Sorted'
  BY <1>3 DEF Loaded, Sorted
<1> QED
  BY <1>4, <1>5, <1>6 DEF Inv

LEMMA LoadInv ==
  ASSUME Inv, Load
  PROVE  Inv'
<1>1. UNCHANGED <<file, snapshot, world>>
  BY DEF Load, disk
<1>2. CASE \E why : Stop(why)
  BY <1>1, <1>2, Stopped
<1>3. CASE ~ \E why : Stop(why)
  <2>1. /\ ~(args.waivers /\ WaiversRejected)
        /\ ~(args.baseline /\ (file = NoFile \/ BaselineRejected))
        /\ controls' = [waivers |-> IF args.waivers THEN waivers ELSE {},
                        top |-> IF args.baseline THEN file.top ELSE "none",
                        entries |-> IF args.baseline THEN file.entries ELSE {}]
        /\ pc' = "audit" /\ args' = args
    <3>1. /\ ~Stop("waivers rejected") /\ ~Stop("no such file") /\ ~Stop("baseline rejected")
      BY <1>3, Zenon
    <3> HIDE DEF Stop
    <3> QED
      BY <3>1 DEF Load, Goto
  <2>2. Typed'
    BY <1>1, <2>1 DEF Inv, Typed, world
  <2>3. Stored'
    BY <1>1 DEF Inv, Stored, Collides, BaselineOf, Identity, Fingerprint
  <2>4. \A v \in waivers : args.waivers => v.expires >= today
    BY <2>1 DEF Inv, Typed, WaiversRejected
  <2>5. Loaded'
    <3>1. controls'.waivers \subseteq {v \in waivers : args.waivers /\ v.expires >= today}
      BY <2>1, <2>4
    <3>2. /\ args.baseline =>
               /\ file # NoFile /\ ~BaselineRejected
               /\ controls'.top = file.top /\ controls'.entries = file.entries
          /\ ~args.baseline => controls'.entries = {}
      BY <2>1
    <3>3. BaselineRejected' <=> BaselineRejected
      BY <1>1 DEF BaselineRejected
    <3> QED
      BY <1>1, <2>1, <3>1, <3>2, <3>3 DEF Loaded, world
  <2>6. Sorted'
    BY <2>1 DEF Sorted
  <2> QED
    BY <2>2, <2>3, <2>5, <2>6 DEF Inv
<1> QED
  BY <1>2, <1>3

(* Where nothing but the result and the place in the program changes, what *)
(* is loaded stays what the files hold.                                    *)
LEMMA StillLoaded ==
  ASSUME Inv, pc \in {"audit", "stage", "publish", "apply", "report"},
         UNCHANGED <<world, file, controls, args>>
  PROVE  Loaded'
<1>1. /\ controls.waivers \subseteq {v \in waivers : args.waivers /\ v.expires >= today}
      /\ args.baseline =>
           /\ file # NoFile /\ ~BaselineRejected
           /\ controls.top = file.top /\ controls.entries = file.entries
      /\ ~args.baseline => controls.entries = {}
  BY DEF Inv, Loaded
<1>2. BaselineRejected' <=> BaselineRejected
  BY DEF BaselineRejected
<1> QED
  BY <1>1, <1>2 DEF Loaded, world

LEMMA NothingLoaded ==
  ASSUME Typed, Loaded, ~args.waivers, ~args.baseline,
         pc \in {"audit", "stage", "publish", "apply", "report"}
  PROVE  controls.waivers = {} /\ controls.entries = {}
BY DEF Loaded

LEMMA WritersLoadNothing ==
  ASSUME Typed, args.write
  PROVE  ~args.waivers /\ ~args.baseline
BY DEF Typed, Arguments

LEMMA AuditInv ==
  ASSUME Inv, Audit
  PROVE  Inv'
<1>1. /\ pc = "audit" /\ UNCHANGED <<world, file, snapshot, controls>> /\ args' = args
      /\ pc' \in {"stage", "apply", "report"}
      /\ pc' = "stage" => args.write
      /\ pc' = "report" => ~args.waivers /\ ~args.baseline
      /\ result' = [NoResult EXCEPT !.active = workspace.findings,
                                   !.views = [m \in workspace.modes |-> Tagged(m)]]
  BY DEF Audit, disk, Goto
<1>2. Typed'
  BY <1>1 DEF Inv, Typed, world
<1>3. Stored'
  BY <1>1 DEF Inv, Stored, Collides, BaselineOf, Identity, Fingerprint
<1>4. Loaded'
  BY <1>1, StillLoaded
<1>5. Sorted'
  <2> SUFFICES ASSUME pc' \in {"stage", "report"} PROVE Partitioned' /\ Matched'
    BY <1>1 DEF Sorted
  <2>1. ~args.waivers /\ ~args.baseline
    BY <1>1, WritersLoadNothing DEF Inv
  <2>2. controls.waivers = {} /\ controls.entries = {}
    BY <1>1, <2>1, NothingLoaded DEF Inv
  <2>3. /\ Unused = {} /\ Stale = {}
        /\ Only(workspace.findings, Active) = workspace.findings
        /\ Only(workspace.findings, Waived) = <<>>
        /\ Only(workspace.findings, Baselined) = <<>>
        /\ Views = [m \in workspace.modes |-> Tagged(m)]
        /\ \A f : ~Mismatched(f)
    BY <2>2, RawResult DEF Inv
  <2>4. /\ result'.active = workspace.findings /\ result'.waived = <<>>
        /\ result'.baselined = <<>> /\ result'.unused = {} /\ result'.stale = {}
        /\ result'.views = [m \in workspace.modes |-> Tagged(m)]
    BY <1>1 DEF NoResult
  <2>5. workspace' = workspace /\ controls' = controls
    BY <1>1 DEF world
  <2>6. Partitioned'
    BY <2>3, <2>4, <2>5, SameControls DEF Partitioned
  <2>7. Matched'
    BY <1>1, <2>1, <2>3, <2>5, SameControls DEF Matched
  <2> QED
    BY <2>6, <2>7
<1> QED
  BY <1>2, <1>3, <1>4, <1>5 DEF Inv

LEMMA StageInv ==
  ASSUME Inv, Stage
  PROVE  Inv'
<1>1. pc = "stage" /\ UNCHANGED <<world, file, snapshot>>
  BY DEF Stage
<1>2. CASE Collides(workspace)
  <2>1. Stop("collision")
    BY <1>2 DEF Stage
  <2> QED
    BY <1>1, <2>1, Stopped
<1>3. CASE ~Collides(workspace)
  <2>1. pc' = "publish" /\ args' = args /\ UNCHANGED <<controls, result>>
    BY <1>3 DEF Stage, Goto
  <2>2. workspace' = workspace
    BY <1>1 DEF world
  <2>3. ~Collides(workspace)'
    BY <1>3, <2>2 DEF Collides, BaselineOf, Identity, Fingerprint
  <2>4. Typed'
    BY <1>1, <2>1, <2>3 DEF Inv, Typed, world
  <2>5. Stored'
    BY <1>1 DEF Inv, Stored, Collides, BaselineOf, Identity, Fingerprint
  <2>6. Loaded'
    BY <1>1, <2>1, StillLoaded
  <2>7. Partitioned /\ Matched
    BY <1>1 DEF Inv, Sorted
  <2>8. Sorted'
    BY <2>1, <2>2, <2>7, SameResult DEF Sorted
  <2> QED
    BY <2>4, <2>5, <2>6, <2>8 DEF Inv
<1> QED
  BY <1>2, <1>3

LEMMA PublishInv ==
  ASSUME Inv, Publish
  PROVE  Inv'
<1>1. /\ pc = "publish" /\ UNCHANGED <<world, controls, result>> /\ pc' = "report"
      /\ args' = args /\ file' = BaselineOf(workspace) /\ snapshot' = workspace
  BY DEF Publish, Goto
<1>2. workspace' = workspace
  BY <1>1 DEF world
<1>3. args.write /\ ~Collides(workspace)
  BY <1>1 DEF Inv, Typed
<1>4. ~args.waivers /\ ~args.baseline
  BY <1>3, WritersLoadNothing DEF Inv
<1>5. controls.waivers = {} /\ controls.entries = {}
  BY <1>1, <1>4, NothingLoaded DEF Inv
<1>6. Typed'
  BY <1>1 DEF Inv, Typed, world
<1>7. Stored'
  BY <1>1, <1>3 DEF Stored, Collides, BaselineOf, Identity, Fingerprint
<1>8. Loaded'
  BY <1>1, <1>4, <1>5 DEF Loaded
<1>9. Partitioned /\ Matched
  BY <1>1 DEF Inv, Sorted
<1>10. Sorted'
  BY <1>1, <1>2, <1>9, SameResult DEF Sorted
<1> QED
  BY <1>6, <1>7, <1>8, <1>10 DEF Inv

LEMMA ApplyInv ==
  ASSUME Inv, Apply
  PROVE  Inv'
<1>1. pc = "apply" /\ UNCHANGED <<world, file, snapshot>>
  BY DEF Apply, disk
<1>2. CASE Stop("mismatch")
  BY <1>1, <1>2, Stopped
<1>3. CASE ~Stop("mismatch")
  <2>1. /\ ~(args.baseline /\ controls.top # workspace.top)
        /\ ~ \E f \in Reported : Mismatched(f)
        /\ pc' = "report" /\ args' = args /\ controls' = controls
        /\ result' =
             [active    |-> Only(workspace.findings, Active),
              views     |-> Views,
              waived    |-> Only(workspace.findings, Waived),
              baselined |-> Only(workspace.findings, Baselined),
              unused    |-> Unused,
              stale     |-> Stale]
    <3> HIDE DEF Stop
    <3> QED
      BY <1>3 DEF Apply, Goto, Active, Waived, Baselined, Unused, Stale
  <2>2. workspace' = workspace
    BY <1>1 DEF world
  <2>3. Typed'
    BY <1>1, <2>1 DEF Inv, Typed, world
  <2>4. Stored'
    BY <1>1 DEF Inv, Stored, Collides, BaselineOf, Identity, Fingerprint
  <2>5. Loaded'
    BY <1>1, <2>1, StillLoaded
  <2>6. Partitioned'
    BY <2>1, <2>2, SameControls DEF Partitioned
  <2>7. Matched'
    BY <2>1, <2>2, SameControls DEF Matched
  <2> QED
    BY <2>3, <2>4, <2>5, <2>6, <2>7 DEF Inv, Sorted
<1> QED
  BY <1>2, <1>3

(* Reporting, a write that fails and a crash end the invocation.           *)
LEMMA EndInv ==
  ASSUME Inv, Report \/ WriteFails \/ Crash
  PROVE  Inv'
<1>1. UNCHANGED <<file, snapshot, world>>
  BY DEF Report, WriteFails, Crash, disk
<1>2. \E why : Stop(why)
  <2> HIDE DEF Stop
  <2> QED
    BY DEF Report, WriteFails, Crash
<1> QED
  BY <1>1, <1>2, Stopped

(* Between invocations the world changes.                                  *)
LEMMA WorldInv ==
  ASSUME Inv, Edit \/ NextDay \/ \E id \in Ids, last \in 0..(MaxDay + 1) : Approve(id, last)
  PROVE  Inv'
<1>1. /\ pc = "idle" /\ pc' = pc /\ args' = args /\ file' = file /\ snapshot' = snapshot
      /\ workspace' \in Workspaces
  BY DEF Edit, NextDay, Approve, process, disk, Inv, Typed
<1>2. today' \in Nat
  BY DEF Edit, NextDay, Approve, Inv, Typed
<1>3. \A v \in waivers' : v.expires \in Nat
  <2>1. CASE waivers' = waivers
    BY <2>1 DEF Inv, Typed
  <2>2. CASE \E id \in Ids, last \in 0..(MaxDay + 1) : Approve(id, last)
    <3>1. PICK id \in Ids, last \in 0..(MaxDay + 1) : Approve(id, last)
      BY <2>2
    <3>2. last \in Nat
      BY ControlConstants
    <3>3. PICK f \in ToSet(report) :
            waivers' = waivers \cup {[id |-> id, of |-> Fingerprint(f),
                                     severity |-> f.severity, expires |-> last]}
      BY <3>1 DEF Approve
    <3> QED
      BY <3>2, <3>3 DEF Inv, Typed
  <2> QED
    BY <2>1, <2>2 DEF Edit, NextDay
<1>4. Typed'
  BY <1>1, <1>2, <1>3 DEF Inv, Typed
<1>5. Stored'
  BY <1>1 DEF Inv, Stored, Collides, BaselineOf, Identity, Fingerprint
<1>6. Loaded' /\ Sorted'
  BY <1>1 DEF Loaded, Sorted
<1> QED
  BY <1>4, <1>5, <1>6 DEF Inv

LEMMA StutterInv ==
  ASSUME Inv, UNCHANGED vars
  PROVE  Inv'
<1>1. /\ UNCHANGED <<world, file, snapshot, controls, args, result>> /\ pc' = pc
      /\ workspace' = workspace
  BY DEF vars, world
<1>2. ~Collides(workspace) => ~Collides(workspace)'
  BY <1>1 DEF Collides, BaselineOf, Identity, Fingerprint
<1>3. Typed'
  BY <1>1, <1>2 DEF Inv, Typed, world
<1>4. Stored'
  BY <1>1 DEF Inv, Stored, Collides, BaselineOf, Identity, Fingerprint
<1>5. Loaded'
  <2>1. CASE pc \in {"audit", "stage", "publish", "apply", "report"}
    BY <1>1, <2>1, StillLoaded
  <2>2. CASE pc \notin {"audit", "stage", "publish", "apply", "report"}
    BY <1>1, <2>2 DEF Loaded
  <2> QED
    BY <2>1, <2>2
<1>6. Sorted'
  <2> SUFFICES ASSUME pc \in {"stage", "publish", "report"} PROVE Partitioned' /\ Matched'
    BY <1>1 DEF Sorted
  <2>1. Partitioned /\ Matched
    BY DEF Inv, Sorted
  <2> QED
    BY <1>1, <2>1, SameResult
<1> QED
  BY <1>3, <1>4, <1>5, <1>6 DEF Inv

(* The baseline file is that of its snapshot, what an invocation has       *)
(* loaded is what the files hold, and its result is the partition that     *)
(* apply_adoption_controls makes, whatever happens between the steps.      *)
THEOREM ControlsAreCurrent == Spec => []Inv
<1>1. Inv /\ [Next]_vars => Inv'
  <2> SUFFICES ASSUME Inv, [Next]_vars PROVE Inv'
    OBVIOUS
  <2>1. CASE \E a \in Invocations : Start(a)
    BY <2>1, StartInv, ControlConstants
  <2>2. CASE Load
    BY <2>2, LoadInv
  <2>3. CASE Audit
    BY <2>3, AuditInv
  <2>4. CASE Stage
    BY <2>4, StageInv
  <2>5. CASE Publish
    BY <2>5, PublishInv
  <2>6. CASE Apply
    BY <2>6, ApplyInv
  <2>7. CASE Report \/ WriteFails \/ Crash
    BY <2>7, EndInv
  <2>8. CASE Edit \/ NextDay \/ \E id \in Ids, last \in 0..(MaxDay + 1) : Approve(id, last)
    BY <2>8, WorldInv
  <2>9. CASE UNCHANGED vars
    BY <2>9, StutterInv
  <2> QED
    BY <2>1, <2>2, <2>3, <2>4, <2>5, <2>6, <2>7, <2>8, <2>9 DEF Next
<1> QED
  BY InitInv, <1>1, PTL DEF Spec

-----------------------------------------------------------------------------
(* At a report, what is controlled was reviewed with the severity it has   *)
(* now, in a waiver that is still valid or in the audit the baseline was   *)
(* made from (ReviewedOnly), for any history of edits, regradings, days,   *)
(* failed writes and crashes.                                              *)
THEOREM ControlledIsReviewed == Spec => []ReviewedOnly
<1>1. Inv => ReviewedOnly
  <2> SUFFICES ASSUME Inv, pc = "report" PROVE ReviewedOnly
    BY DEF ReviewedOnly
  <2>1. Partitioned /\ Matched
    BY DEF Inv, Sorted
  <2>2. workspace.findings \in Seq(Diagnostic)
    BY FindingsAreDiagnostics DEF Inv, Typed
  <2>3. ToSet(result.waived) \subseteq Waived /\ ToSet(result.baselined) \subseteq Baselined
    BY <2>1, <2>2, ElementsOfOnly DEF Partitioned
  <2>4. ASSUME NEW f \in ToSet(result.waived)
        PROVE  \E v \in waivers :
                 v.of = Fingerprint(f) /\ v.severity = f.severity /\ v.expires >= today
    <3>1. f \in Reported /\ WaiversFor(f) # {}
      BY <2>3, <2>4 DEF Waived
    <3>2. PICK v \in controls.waivers : v.of = Fingerprint(f)
      BY <3>1 DEF WaiversFor
    <3>3. v.severity = f.severity
      BY <2>1, <3>1, <3>2 DEF Matched, Mismatched, WaiversFor
    <3>4. v \in waivers /\ v.expires >= today
      BY DEF Inv, Loaded
    <3> QED
      BY <3>2, <3>3, <3>4
  <2>5. ASSUME NEW f \in ToSet(result.baselined)
        PROVE  \E g \in ToSet(snapshot.findings) :
                 /\ Fingerprint(g) = Fingerprint(f) /\ g.severity = f.severity
                 /\ snapshot.top = workspace.top
    <3>1. f \in Reported /\ WaiversFor(f) = {} /\ EntriesFor(f) # {}
      BY <2>3, <2>5 DEF Baselined
    <3>2. PICK e \in controls.entries : e.of = Fingerprint(f)
      BY <3>1 DEF EntriesFor
    <3>3. e = Identity(f)
      BY <2>1, <3>1, <3>2 DEF Matched, Mismatched, EntriesFor
    <3>4. args.baseline /\ file # NoFile /\ controls.entries = file.entries /\ controls.top = file.top
      BY <3>2 DEF Inv, Loaded
    <3>5. file = BaselineOf(snapshot)
      BY <3>4 DEF Inv, Stored
    <3>6. controls.top = workspace.top
      BY <2>1, <3>4 DEF Matched
    <3>7. snapshot.top = workspace.top
      BY <3>4, <3>5, <3>6 DEF BaselineOf
    <3>8. PICK i \in DOMAIN snapshot.findings : e = Identity(snapshot.findings[i])
      BY <3>2, <3>4, <3>5 DEF BaselineOf
    <3>9. snapshot.findings[i] \in ToSet(snapshot.findings)
      BY DEF ToSet
    <3>10. /\ Fingerprint(snapshot.findings[i]) = Fingerprint(f)
           /\ snapshot.findings[i].severity = f.severity
      BY <3>3, <3>8 DEF Identity
    <3> QED
      BY <3>7, <3>9, <3>10
  <2> QED
    BY <2>4, <2>5 DEF ReviewedOnly
<1> QED
  BY <1>1, ControlsAreCurrent, PTL

(* At a report nothing is lost between the lists apply_adoption_controls   *)
(* makes (NothingVanishes): each diagnostic is shown as often as it was    *)
(* found, a mode shows the active ones that name it, and what was loaded   *)
(* and controls nothing is listed as debt.                                 *)
THEOREM NothingIsDropped == Spec => []NothingVanishes
<1>1. Inv => NothingVanishes
  <2> SUFFICES ASSUME Inv, pc = "report" PROVE NothingVanishes
    BY DEF NothingVanishes
  <2>1. Partitioned
    BY DEF Inv, Sorted
  <2>2. workspace.findings \in Seq(Diagnostic)
    BY FindingsAreDiagnostics DEF Inv, Typed
  <2> DEFINE found == workspace.findings
  <2>3. ASSUME NEW f \in Reported
        PROVE  Times(f, found) =
                 Times(f, result.active) + Times(f, result.waived) + Times(f, result.baselined)
    <3> HIDE DEF found
    <3>1. /\ Times(f, result.active) = IF f \in Active THEN Times(f, found) ELSE 0
          /\ Times(f, result.waived) = IF f \in Waived THEN Times(f, found) ELSE 0
          /\ Times(f, result.baselined) = IF f \in Baselined THEN Times(f, found) ELSE 0
      BY <2>1, <2>2, TimesOfOnly DEF Partitioned, found
    <3>2. Times(f, found) \in Nat
      BY <2>2, TimesType DEF found
    <3>3. \/ f \in Active /\ f \notin Waived /\ f \notin Baselined
          \/ f \notin Active /\ f \in Waived /\ f \notin Baselined
          \/ f \notin Active /\ f \notin Waived /\ f \in Baselined
      BY DEF Active, Waived, Baselined
    <3> HIDE DEF Active, Waived, Baselined
    <3> QED
      BY <3>1, <3>2, <3>3
  <2>4. ASSUME NEW m \in workspace.modes
        PROVE  result.views[m] = Only(result.active, {f \in ToSet(result.active) : f.mode = m})
    <3> DEFINE controlled ==
                 {Fingerprint(f) : f \in {g \in Reported : WaiversFor(g) \cup EntriesFor(g) # {}}}
               tagged == {f \in Reported : f.mode = m}
               shown == {f \in Reported : Fingerprint(f) \notin controlled}
               mine == {f \in ToSet(result.active) : f.mode = m}
    <3>1. result.views[m] = Only(Only(found, tagged), shown)
      BY <2>1 DEF Partitioned, Views, Tagged
    <3>2. shown = Active
      <4>1. \A f, g \in Reported : Fingerprint(f) = Fingerprint(g) =>
              WaiversFor(f) = WaiversFor(g) /\ EntriesFor(f) = EntriesFor(g)
        BY DEF WaiversFor, EntriesFor
      <4> QED
        BY <4>1 DEF Active
    <3> HIDE DEF tagged, shown
    <3>3. result.views[m] = Only(found, tagged \cap Active)
      BY <2>2, <3>1, <3>2, OnlyTwice
    <3>4. ToSet(result.active) = Reported \cap Active
      BY <2>1, <2>2, ElementsOfOnly DEF Partitioned, Reported
    <3>5. tagged \cap Active = Active \cap mine
      BY <3>4 DEF tagged, Active
    <3> HIDE DEF mine
    <3>6. Only(result.active, mine) = Only(found, Active \cap mine)
      BY <2>1, <2>2, OnlyTwice DEF Partitioned
    <3>7. result.views[m] = Only(result.active, mine)
      BY <3>3, <3>5, <3>6
    <3> QED
      BY <3>7 DEF mine
  <2>5. {x.of : x \in controls.waivers \cup controls.entries} =
          {Fingerprint(f) : f \in ToSet(result.waived) \cup ToSet(result.baselined)}
            \cup {x.of : x \in result.unused \cup result.stale}
    <3>1. ToSet(result.waived) = Waived /\ ToSet(result.baselined) = Baselined
      <4>1. /\ ToSet(result.waived) = Reported \cap Waived
            /\ ToSet(result.baselined) = Reported \cap Baselined
        BY <2>1, <2>2, ElementsOfOnly DEF Partitioned, Reported
      <4> QED
        BY <4>1 DEF Waived, Baselined
    <3>2. result.unused = Unused /\ result.stale = Stale
      BY <2>1 DEF Partitioned
    <3>3. ASSUME NEW x \in controls.waivers, x \notin Unused
          PROVE  \E f \in Waived : x.of = Fingerprint(f)
      BY <3>3 DEF Unused, Waived, WaiversFor
    <3>4. ASSUME NEW x \in controls.entries, x \notin Stale
          PROVE  \E f \in Waived \cup Baselined : x.of = Fingerprint(f)
      <4>1. PICK f \in Reported : Fingerprint(f) = x.of
        BY <3>4 DEF Stale
      <4>2. x \in EntriesFor(f)
        BY <4>1 DEF EntriesFor
      <4> QED
        BY <4>1, <4>2 DEF Waived, Baselined
    <3>5. ASSUME NEW f \in Waived \cup Baselined
          PROVE  \E x \in controls.waivers \cup controls.entries : x.of = Fingerprint(f)
      BY <3>5 DEF Waived, Baselined, WaiversFor, EntriesFor
    <3>6. Unused \subseteq controls.waivers /\ Stale \subseteq controls.entries
      BY DEF Unused, Stale
    <3> HIDE DEF Unused, Stale, Waived, Baselined, Fingerprint
    <3> QED
      BY <3>1, <3>2, <3>3, <3>4, <3>5, <3>6
  <2> QED
    BY <2>3, <2>4, <2>5 DEF NothingVanishes
<1> QED
  BY <1>1, ControlsAreCurrent, PTL

-----------------------------------------------------------------------------
(* What a baseline keeps of a path, and when the loader, which cuts it a   *)
(* second time, keeps the same: exactly if the first cut was not made      *)
(* right before a component.  Pick takes the elements at the positions     *)
(* that Only enumerates upwards.                                           *)
Upto(n) == [i \in 1..n |-> i]

Enumerates(o, n, D) ==
  /\ o \in Seq(Nat) /\ ToSet(o) = (1..n) \cap D
  /\ \A k, l \in 1..Len(o) : k < l => o[k] < o[l]
  /\ Len(o) <= n /\ (n > 0 /\ 1 \notin D => Len(o) < n)

LEMMA OnlyEnumerates ==
  ASSUME NEW D, NEW n \in Nat
  PROVE  Enumerates(Only(Upto(n), D), n, D)
<1> DEFINE G == {m \in Nat : Enumerates(Only(Upto(m), D), m, D)}
<1>1. 0 \in G
  <2>1. Upto(0) = <<>> /\ ToSet(<<>>) = {} /\ 1..0 = {}
    BY DEF Upto, ToSet
  <2>2. Only(Upto(0), D) = <<>>
    BY <2>1, OnlyEmpty
  <2>3. <<>> \in Seq(Nat) /\ Len(<<>>) = 0
    OBVIOUS
  <2>4. Enumerates(<<>>, 0, D)
    BY <2>1, <2>3 DEF Enumerates
  <2> QED
    BY <2>2, <2>4
<1>2. ASSUME NEW m \in Nat, m \in G PROVE m + 1 \in G
  <2> DEFINE o == Only(Upto(m), D)
             x == m + 1
  <2>1. Upto(m) \in Seq(Nat) /\ Append(Upto(m), x) = Upto(x) /\ x \in Nat
    BY DEF Upto
  <2>2. Only(Upto(x), D) = IF x \in D THEN Append(o, x) ELSE o
    <3>1. ASSUME NEW u \in Seq(Nat), NEW y \in Nat
          PROVE  Only(Append(u, y), D) = IF y \in D THEN Append(Only(u, D), y) ELSE Only(u, D)
      BY OnlyAppend
    <3>2. Only(Append(Upto(m), x), D) = IF x \in D THEN Append(o, x) ELSE o
      BY <2>1, <3>1
    <3> QED
      BY <2>1, <3>2, Zenon
  <2>3. /\ o \in Seq(Nat) /\ ToSet(o) = (1..m) \cap D
        /\ \A k, l \in 1..Len(o) : k < l => o[k] < o[l]
        /\ Len(o) <= m /\ (m > 0 /\ 1 \notin D => Len(o) < m)
    BY <1>2 DEF Enumerates
  <2> HIDE DEF o
  <2>4. 1..x = (1..m) \cup {x} /\ Len(o) \in Nat
    BY <2>3
  <2>5. CASE x \notin D
    <3>1. Len(o) <= x /\ (1 \notin D => Len(o) < x)
      BY <2>3, <2>4
    <3>2. ToSet(o) = (1..x) \cap D
      BY <2>3, <2>4, <2>5
    <3> QED
      BY <2>1, <2>2, <2>3, <2>5, <3>1, <3>2 DEF Enumerates
  <2>6. CASE x \in D
    <3> DEFINE e == Append(o, x)
    <3>1. e \in Seq(Nat) /\ Len(e) = Len(o) + 1 /\ e[Len(o) + 1] = x
      BY <2>1, <2>3
    <3>2. \A k \in 1..Len(o) : e[k] = o[k]
      BY <2>3
    <3>3. ToSet(e) = ToSet(o) \cup {x}
      BY <2>1, <2>3, ElementsOfAppend
    <3>4. \A k \in 1..Len(o) : o[k] \in Nat /\ o[k] < x
      <4>1. \A k \in 1..Len(o) : o[k] \in ToSet(o)
        BY <2>3 DEF ToSet
      <4> QED
        BY <2>3, <4>1
    <3> HIDE DEF e
    <3>5. \A k, l \in 1..Len(e) : k < l => e[k] < e[l]
      <4> SUFFICES ASSUME NEW k \in 1..Len(e), NEW l \in 1..Len(e), k < l PROVE e[k] < e[l]
        OBVIOUS
      <4>1. k \in 1..Len(o)
        BY <2>4, <3>1
      <4>2. l \in 1..Len(o) \/ l = Len(o) + 1
        BY <2>4, <3>1
      <4> QED
        BY <2>3, <3>1, <3>2, <3>4, <4>1, <4>2
    <3>6. ToSet(e) = (1..x) \cap D
      BY <2>3, <2>4, <2>6, <3>3
    <3>7. Len(e) <= x /\ (1 \notin D => Len(e) < x)
      <4>1. Len(e) <= x
        BY <2>3, <2>4, <3>1
      <4>2. ASSUME 1 \notin D PROVE Len(e) < x
        <5>1. m > 0
          BY <2>6, <4>2
        <5> QED
          BY <2>3, <2>4, <3>1, <4>2, <5>1
      <4> QED
        BY <4>1, <4>2
    <3>8. Enumerates(e, x, D)
      BY <3>1, <3>5, <3>6, <3>7 DEF Enumerates
    <3> QED
      BY <2>1, <2>2, <2>6, <3>8 DEF e
  <2> QED
    BY <2>5, <2>6
<1> HIDE DEF G
<1>3. Nat \subseteq G
  BY <1>1, <1>2, Naturals
<1> QED
  BY <1>3 DEF G

LEMMA PickEnumerates ==
  ASSUME NEW s \in Seq(STRING), NEW D
  PROVE  \E o : /\ Enumerates(o, Len(s), D)
                /\ Pick(s, D) = [k \in 1..Len(o) |-> s[o[k]]]
                /\ \A k \in 1..Len(o) : o[k] \in 1..Len(s) /\ o[k] \in D
<1> DEFINE o == Only(Upto(Len(s)), D)
<1>1. DOMAIN s = 1..Len(s) /\ Len(s) \in Nat
  OBVIOUS
<1>2. Enumerates(o, Len(s), D)
  BY <1>1, OnlyEnumerates
<1>3. Pick(s, D) = [k \in DOMAIN o |-> s[o[k]]]
  BY <1>1, Zenon DEF Pick, Upto
<1> HIDE DEF o
<1>4. DOMAIN o = 1..Len(o) /\ \A k \in 1..Len(o) : o[k] \in ToSet(o)
  BY <1>2 DEF Enumerates, ToSet
<1>5. \A k \in 1..Len(o) : o[k] \in 1..Len(s) /\ o[k] \in D
  BY <1>2, <1>4 DEF Enumerates
<1> QED
  BY <1>2, <1>3, <1>4, <1>5

LEMMA PickAll ==
  ASSUME NEW s \in Seq(STRING), NEW D, 1..Len(s) \subseteq D
  PROVE  Pick(s, D) = s
<1> DEFINE places == [i \in DOMAIN s |-> i]
<1>1. DOMAIN s = 1..Len(s) /\ Len(s) \in Nat
  OBVIOUS
<1>2. places \in Seq(Nat) /\ ToSet(places) \subseteq D
  BY <1>1 DEF ToSet
<1>3. Only(places, D) = places
  BY <1>2, OnlyAll
<1>4. Pick(s, D) = [k \in DOMAIN places |-> s[places[k]]]
  BY <1>3, Zenon DEF Pick
<1>5. [k \in DOMAIN places |-> s[places[k]]] = [k \in DOMAIN s |-> s[k]]
  OBVIOUS
<1>6. [k \in DOMAIN s |-> s[k]] = s
  OBVIOUS
<1> QED
  BY <1>4, <1>5, <1>6

(* A path without empty components, but for one it may begin with.         *)
Tight(path) ==
  \A k \in 1..Len(path) : path[k] = "/" => k < Len(path) /\ (k > 1 => path[k - 1] # "/")

LEMMA SqueezeIsTight ==
  ASSUME NEW path \in Seq(STRING)
  PROVE  /\ Squeeze(path) \in Seq(STRING) /\ Tight(Squeeze(path))
         /\ Len(Squeeze(path)) <= Len(path)
         /\ path # <<>> /\ path[1] = "/" => Len(Squeeze(path)) < Len(path)
<1> DEFINE n == Len(path)
           Stays(i) == path[i] = "/" => /\ i > 1 /\ path[i - 1] # "/"
                                        /\ \E j \in i..n : path[j] # "/"
           D == {i \in 1..n : Stays(i)}
           q == Squeeze(path)
<1>1. n \in Nat /\ \A i \in 1..n : path[i] \in STRING
  OBVIOUS
<1>2. PICK o : /\ Enumerates(o, n, D) /\ q = [k \in 1..Len(o) |-> path[o[k]]]
               /\ \A k \in 1..Len(o) : o[k] \in 1..n /\ o[k] \in D
  BY PickEnumerates DEF Squeeze
<1> HIDE DEF q, n
<1>3. /\ o \in Seq(Nat) /\ ToSet(o) = D /\ Len(o) \in Nat
      /\ \A k, l \in 1..Len(o) : k < l => o[k] < o[l]
      /\ Len(o) <= n /\ (n > 0 /\ 1 \notin D => Len(o) < n)
  BY <1>2 DEF Enumerates
<1>4. q \in Seq(STRING) /\ Len(q) = Len(o) /\ \A k \in 1..Len(o) : q[k] = path[o[k]]
  <2>1. \A k \in 1..Len(o) : path[o[k]] \in STRING
    BY <1>1, <1>2
  <2> QED
    BY <1>2, <1>3, <2>1
<1>5. ASSUME NEW i \in D PROVE \E k \in 1..Len(o) : o[k] = i
  <2>1. i \in ToSet(o) /\ DOMAIN o = 1..Len(o)
    BY <1>3
  <2> HIDE DEF D
  <2> QED
    BY <2>1 DEF ToSet
<1>6. \A i \in 1..n : path[i] # "/" => i \in D
  OBVIOUS
<1>7. Tight(q)
  <2> SUFFICES ASSUME NEW k \in 1..Len(o), q[k] = "/"
               PROVE  k < Len(o) /\ (k > 1 => q[k - 1] # "/")
    BY <1>4 DEF Tight
  <2>1. /\ o[k] \in 1..n /\ path[o[k]] = "/" /\ o[k] > 1 /\ path[o[k] - 1] # "/"
        /\ \E j \in o[k]..n : path[j] # "/"
    BY <1>2, <1>4
  <2>2. k < Len(o)
    <3>1. PICK j \in o[k]..n : path[j] # "/"
      BY <2>1
    <3>2. j \in 1..n /\ j > o[k]
      BY <1>1, <2>1, <3>1
    <3>3. PICK l \in 1..Len(o) : o[l] = j
      BY <1>5, <1>6, <3>1, <3>2
    <3>4. ~(l < k) /\ l # k
      BY <1>3, <2>1, <3>2, <3>3
    <3> QED
      BY <1>3, <3>3, <3>4
  <2>3. ASSUME k > 1 PROVE q[k - 1] # "/"
    <3>1. o[k] - 1 \in 1..n
      BY <1>1, <2>1
    <3>2. PICK l \in 1..Len(o) : o[l] = o[k] - 1
      BY <1>5, <1>6, <2>1, <3>1
    <3>3. k - 1 \in 1..Len(o) /\ o[k - 1] < o[k] /\ o[k - 1] \in 1..n
      BY <1>2, <1>3, <2>3
    <3>4. l < k
      <4>1. ~(k < l) /\ l # k
        BY <1>3, <2>1, <3>2
      <4> QED
        BY <4>1
    <3>5. ~(l < k - 1)
      <4>1. l < k - 1 => o[l] < o[k - 1]
        BY <1>3, <3>2, <3>3
      <4>2. o[l] \in Int /\ o[k - 1] \in Int /\ o[k] \in Int
        BY <1>1, <2>1, <3>2, <3>3
      <4> QED
        BY <3>2, <3>3, <4>1, <4>2
    <3>6. l = k - 1
      BY <3>4, <3>5
    <3> QED
      BY <1>4, <2>1, <3>2, <3>3, <3>6
  <2> QED
    BY <2>2, <2>3
<1>8. path # <<>> /\ path[1] = "/" => n > 0 /\ 1 \notin D
  BY <1>1 DEF n
<1> QED
  BY <1>3, <1>4, <1>7, <1>8 DEF q, n

(* The end of a tight path is tight.                                       *)
LEMMA TightEnd ==
  ASSUME NEW q \in Seq(STRING), Tight(q), NEW i \in 1..(Len(q) + 1)
  PROVE  LET e == SubSeq(q, i, Len(q)) IN
         /\ e \in Seq(STRING) /\ Tight(e) /\ Len(e) = Len(q) - i + 1
         /\ \A k \in 1..Len(e) : e[k] = q[k + i - 1]
<1> DEFINE e == SubSeq(q, i, Len(q))
<1>1. e \in Seq(STRING) /\ Len(e) = Len(q) - i + 1 /\ \A k \in 1..Len(e) : e[k] = q[k + i - 1]
  <2>1. Len(q) \in Nat /\ i \in Nat /\ i >= 1 /\ i <= Len(q) + 1
    OBVIOUS
  <2> QED
    BY <2>1
<1> HIDE DEF e
<1>2. Tight(e)
  <2> SUFFICES ASSUME NEW k \in 1..Len(e), e[k] = "/"
               PROVE  k < Len(e) /\ (k > 1 => e[k - 1] # "/")
    BY DEF Tight
  <2> DEFINE l == k + i - 1
  <2>1. l \in 1..Len(q) /\ q[l] = "/"
    BY <1>1
  <2>2. l < Len(q) /\ (l > 1 => q[l - 1] # "/")
    BY <2>1 DEF Tight
  <2>3. k < Len(e)
    BY <1>1, <2>2
  <2>4. ASSUME k > 1 PROVE e[k - 1] # "/"
    <3>1. k - 1 \in 1..Len(e) /\ (k - 1) + i - 1 = l - 1 /\ l > 1
      BY <1>1, <2>4
    <3>2. e[k - 1] = q[(k - 1) + i - 1]
      BY <1>1, <3>1
    <3> QED
      BY <2>2, <3>1, <3>2
  <2> QED
    BY <2>3, <2>4
<1> QED
  BY <1>1, <1>2 DEF e

LEMMA SlashesAreFinite ==
  ASSUME NEW q \in Seq(STRING), NEW i \in Nat
  PROVE  IsFiniteSet(Slashes(q, i)) /\ Cardinality(Slashes(q, i)) \in Nat
<1>1. Len(q) \in Nat /\ Slashes(q, i) \subseteq i..Len(q)
  BY DEF Slashes
<1>2. IsFiniteSet(i..Len(q))
  BY <1>1, FS_Interval
<1>3. IsFiniteSet(Slashes(q, i))
  BY <1>1, <1>2, FS_Subset
<1> QED
  BY <1>3, FS_CardinalityType

(* The last components are an end of the path, with few slashes; it is the *)
(* whole path if that has few.                                             *)
LEMMA LastPartsAreAnEnd ==
  ASSUME NEW q \in Seq(STRING)
  PROVE  \E i \in 1..(Len(q) + 1) :
           /\ LastParts(q) = SubSeq(q, i, Len(q))
           /\ Cardinality(Slashes(q, i)) < SuffixParts
           /\ Cardinality(Slashes(q, 1)) < SuffixParts => i = 1
<1> DEFINE n == Len(q)
           few == {i \in 1..(n + 1) : Cardinality(Slashes(q, i)) < SuffixParts}
<1>1. n \in Nat /\ few \subseteq Nat
  OBVIOUS
<1>2. n + 1 \in few
  <2>1. Slashes(q, n + 1) = {}
    BY <1>1 DEF Slashes
  <2>2. Cardinality(Slashes(q, n + 1)) = 0
    BY <2>1, FS_EmptySet
  <2> QED
    BY <1>1, <2>2, ControlConstants
<1> HIDE DEF few
<1>3. \E x \in few : \A y \in few : x <= y
  <2> DEFINE R == OpToRel(<, Nat)
  <2>1. IsWellFoundedOn(R, Nat)
    BY NatLessThanWellFounded
  <2>2. \A x, y \in Nat : <<y, x>> \in R <=> y < x
    BY DEF OpToRel
  <2> HIDE DEF R
  <2>3. PICK x \in few : \A y \in few : ~(<<y, x>> \in R)
    BY <1>1, <1>2, <2>1, WFMin
  <2>4. ASSUME NEW y \in few PROVE x <= y
    <3>1. x \in Nat /\ y \in Nat /\ ~(y < x)
      BY <1>1, <2>2, <2>3
    <3> QED
      BY <3>1
  <2> QED
    BY <2>3, <2>4
<1>4. Min(few) \in few /\ \A y \in few : Min(few) <= y
  BY <1>3, Zenon DEF Min
<1>5. LastParts(q) = SubSeq(q, Min(few), n)
  BY DEF LastParts, few
<1>6. ASSUME Cardinality(Slashes(q, 1)) < SuffixParts PROVE Min(few) = 1
  <2>1. 1 \in few
    BY <1>1, <1>6 DEF few
  <2>2. Min(few) \in Nat /\ Min(few) >= 1 /\ Min(few) <= 1
    BY <1>4, <2>1 DEF few
  <2> QED
    BY <2>2
<1>7. Min(few) \in 1..(n + 1) /\ Cardinality(Slashes(q, Min(few))) < SuffixParts
  BY <1>4 DEF few
<1> QED
  BY <1>5, <1>6, <1>7

(* What is kept of a path that is cut.                                     *)
LEMMA PortableForm ==
  ASSUME NEW path \in Seq(STRING), path # <<>>, path[1] # "<"
  PROVE  LET kept == Portable(path) IN
         /\ kept \in Seq(STRING) /\ Tight(kept) /\ Len(kept) <= PathLimit
         /\ Cardinality(Slashes(kept, 1)) < SuffixParts
         /\ Len(kept) <= Len(Squeeze(path))
<1> DEFINE q == Squeeze(path)
           s == Suffix(q)
           kept == Portable(path)
<1>1. q \in Seq(STRING) /\ Tight(q) /\ Len(q) \in Nat
  BY SqueezeIsTight
<1> HIDE DEF q
<1>2. s \in Seq(STRING) /\ Tight(s) /\ Len(s) <= PathLimit /\ Len(s) <= Len(q) /\ Len(s) \in Nat
  <2> DEFINE i == IF Len(q) > PathLimit THEN Len(q) - PathLimit + 1 ELSE 1
  <2>1. PathLimit \in Nat
    BY ControlConstants
  <2>2. i \in 1..(Len(q) + 1) /\ Len(q) - i + 1 <= PathLimit /\ Len(q) - i + 1 <= Len(q)
    BY <1>1, <2>1
  <2>3. s = SubSeq(q, i, Len(q))
    BY DEF Suffix
  <2> HIDE DEF i, s
  <2>4. s \in Seq(STRING) /\ Tight(s) /\ Len(s) = Len(q) - i + 1
    BY <1>1, <2>2, <2>3, TightEnd
  <2> QED
    BY <2>2, <2>4
<1>3. kept = LastParts(s)
  BY DEF Portable, q
<1> HIDE DEF s, kept
<1>4. PICK i \in 1..(Len(s) + 1) :
        kept = SubSeq(s, i, Len(s)) /\ Cardinality(Slashes(s, i)) < SuffixParts
  BY <1>2, <1>3, LastPartsAreAnEnd
<1>5. /\ kept \in Seq(STRING) /\ Tight(kept) /\ Len(kept) = Len(s) - i + 1
      /\ \A k \in 1..Len(kept) : kept[k] = s[k + i - 1]
  BY <1>2, <1>4, TightEnd
<1>6. Len(kept) <= PathLimit /\ Len(kept) <= Len(q)
  BY <1>2, <1>5, ControlConstants
<1>7. Cardinality(Slashes(kept, 1)) < SuffixParts
  <2> DEFINE shift == [k \in Slashes(kept, 1) |-> k + i - 1]
  <2>1. i \in Nat /\ i >= 1 /\ Len(kept) \in Nat
    BY <1>2, <1>5
  <2>2. \A k \in Slashes(kept, 1) : k \in Nat /\ k + i - 1 \in Slashes(s, i)
    BY <1>2, <1>5, <2>1 DEF Slashes
  <2>3. shift \in Injection(Slashes(kept, 1), Slashes(s, i))
    BY <2>1, <2>2, Zenon, SMT DEF Injection, IsInjective
  <2>4. IsFiniteSet(Slashes(s, i)) /\ Cardinality(Slashes(s, i)) \in Nat
    BY <1>2, <2>1, SlashesAreFinite
  <2> HIDE DEF shift
  <2>5. Cardinality(Slashes(kept, 1)) <= Cardinality(Slashes(s, i))
    BY <2>3, <2>4, FS_Injection
  <2>6. Cardinality(Slashes(kept, 1)) \in Nat
    BY <1>5, SlashesAreFinite
  <2> QED
    BY <1>4, <2>4, <2>5, <2>6, ControlConstants
<1> QED
  BY <1>5, <1>6, <1>7 DEF kept, q

LEMMA CutPathStays ==
  ASSUME NEW path \in Seq(STRING), path # <<>>, path[1] # "/", Tight(path),
         Len(path) <= PathLimit, Cardinality(Slashes(path, 1)) < SuffixParts
  PROVE  Portable(path) = path
<1> DEFINE n == Len(path)
<1>1. n \in Nat /\ n > 0 /\ PathLimit \in Nat
  BY ControlConstants
<1>2. Squeeze(path) = path
  <2>1. ASSUME NEW i \in 1..n, path[i] = "/"
        PROVE  i > 1 /\ path[i - 1] # "/" /\ \E j \in i..n : path[j] # "/"
    <3>1. i > 1 /\ i < n /\ path[i - 1] # "/"
      BY <2>1 DEF Tight
    <3>2. n \in i..n /\ n \in 1..n
      BY <1>1, <3>1
    <3>3. path[n] # "/"
      BY <3>2 DEF Tight
    <3> QED
      BY <3>1, <3>2, <3>3
  <2>2. 1..n \subseteq {i \in 1..n :
          path[i] = "/" => /\ i > 1 /\ path[i - 1] # "/"
                           /\ \E j \in i..n : path[j] # "/"}
    BY <2>1
  <2> QED
    BY <2>2, PickAll DEF Squeeze
<1>3. SubSeq(path, 1, n) = path
  OBVIOUS
<1>4. Suffix(path) = path
  <2>1. ~(n > PathLimit)
    BY <1>1
  <2> QED
    BY <1>3, <2>1 DEF Suffix
<1>5. LastParts(path) = path
  BY <1>3, LastPartsAreAnEnd
<1> QED
  BY <1>2, <1>4, <1>5 DEF Portable

(* The loader computes the fingerprint that a baseline has for a path      *)
(* exactly if what is kept of the path does not begin with a slash.        *)
LEMMA KeptPathStays ==
  ASSUME NEW path \in Seq(STRING), path # <<>>, NEW kept, kept = Portable(path), kept # <<>>
  PROVE  Portable(kept) = kept <=> kept[1] # "/"
<1>1. CASE path[1] = "<"
  BY <1>1 DEF Portable
<1>2. CASE path[1] # "<"
  <2>1. /\ kept \in Seq(STRING) /\ Tight(kept) /\ Len(kept) <= PathLimit
        /\ Cardinality(Slashes(kept, 1)) < SuffixParts
    BY <1>2, PortableForm
  <2>2. kept[1] # "/" => Portable(kept) = kept
    BY <2>1, CutPathStays
  <2>3. ASSUME kept[1] = "/", Portable(kept) = kept PROVE FALSE
    <3>1. Len(Squeeze(kept)) < Len(kept) /\ Squeeze(kept) \in Seq(STRING)
      BY <2>1, <2>3, SqueezeIsTight
    <3>2. kept[1] # "<"
      BY <2>3
    <3>3. Len(kept) <= Len(Squeeze(kept))
      BY <2>1, <2>3, <3>2, PortableForm
    <3> QED
      BY <2>1, <3>1, <3>3
  <2> QED
    BY <2>2, <2>3
<1> QED
  BY <1>1, <1>2

(* An invocation that loads the baseline of what it audits, and no         *)
(* waivers, finds everything controlled.                                   *)
LEMMA EverythingIsBaselined ==
  ASSUME Inv, args.baseline, ~args.waivers, snapshot = workspace,
         pc \in {"apply", "report"}
  PROVE  /\ controls.top = workspace.top /\ controls.waivers = {}
         /\ \A f \in Reported : EntriesFor(f) = {Identity(f)}
         /\ Active = {} /\ Unused = {} /\ Stale = {}
<1>1. /\ file # NoFile /\ controls.top = file.top /\ controls.entries = file.entries
      /\ controls.waivers = {}
  BY DEF Inv, Loaded
<1>2. file = BaselineOf(workspace) /\ ~Collides(workspace)
  BY <1>1 DEF Inv, Stored
<1>3. controls.top = workspace.top
  BY <1>1, <1>2 DEF BaselineOf
<1>4. controls.entries = {Identity(f) : f \in Reported}
  BY <1>1, <1>2 DEF BaselineOf, Reported, ToSet
<1>5. ASSUME NEW f \in Reported PROVE EntriesFor(f) = {Identity(f)}
  <2>1. Identity(f) \in controls.entries /\ Identity(f).of = Fingerprint(f)
    BY <1>4 DEF Identity
  <2>2. \A e \in controls.entries : e.of = Fingerprint(f) => e = Identity(f)
    <3>1. controls.entries = BaselineOf(workspace).entries
      BY <1>1, <1>2
    <3> QED
      BY <1>2, <2>1, <3>1 DEF Collides
  <2> QED
    BY <2>1, <2>2 DEF EntriesFor
<1>6. Active = {}
  BY <1>5 DEF Active
<1>7. Unused = {}
  BY <1>1 DEF Unused
<1>8. Stale = {}
  BY <1>4 DEF Stale, Identity
<1> QED
  BY <1>1, <1>3, <1>5, <1>6, <1>7, <1>8

(* The loader refuses the baseline of a workspace exactly if that is not   *)
(* loadable.                                                               *)
LEMMA LoadableIsNotRejected ==
  ASSUME Inv, file # NoFile, snapshot = workspace
  PROVE  BaselineRejected <=> ~Loadable(workspace)
<1>1. file = BaselineOf(workspace) /\ workspace \in Workspaces
  BY DEF Inv, Stored, Typed
<1>2. file.top = workspace.top /\ file.entries = {Identity(f) : f \in Reported}
  BY <1>1 DEF BaselineOf, Reported, ToSet
<1>3. Reported \subseteq Diagnostic
  BY <1>1, FindingsAreDiagnostics DEF Reported, ToSet
<1> DEFINE Bad(e) == \/ {e.of.mode, e.of.note} \cap Refused # {}
                     \/ ~Reviewable(e.of.path) \/ Recomputed(e) # e.of
           Good(f) == LET kept == Portable(f.path)
                      IN  /\ f.mode \notin Refused /\ f.note \notin Refused
                          /\ Reviewable(kept) /\ kept[1] # "/"
<1>4. ASSUME NEW f \in Reported PROVE Bad(Identity(f)) <=> ~Good(f)
  <2>1. PICK kept : kept = Portable(f.path)
    OBVIOUS
  <2>2. f.path \in Seq(STRING) /\ f.path # <<>>
    BY <1>3 DEF Diagnostic
  <2>3. Identity(f).of = [rule |-> f.rule, note |-> f.note, mode |-> f.mode, path |-> kept]
    BY <2>1 DEF Identity, Fingerprint
  <2>4. Recomputed(Identity(f)) = [rule |-> f.rule, note |-> f.note, mode |-> f.mode,
                                   path |-> Portable(kept)]
    <3> HIDE DEF Identity
    <3> QED
      BY <2>3 DEF Recomputed
  <2>5. Recomputed(Identity(f)) = Identity(f).of <=> Portable(kept) = kept
    <3> DEFINE o == Identity(f).of  r == Recomputed(Identity(f))
    <3>1. o.path = kept /\ r.path = Portable(kept) /\ (Portable(kept) = kept => r = o)
      BY <2>3, <2>4
    <3> HIDE DEF o, r
    <3>2. r = o <=> Portable(kept) = kept
      BY <3>1
    <3> QED
      BY <3>2 DEF o, r
  <2>6. kept # <<>> => (Portable(kept) = kept <=> kept[1] # "/")
    BY <2>1, <2>2, KeptPathStays
  <2>7. Reviewable(kept) => kept # <<>>
    BY DEF Reviewable
  <2> DEFINE texts == f.mode \notin Refused /\ f.note \notin Refused
  <2>8. Bad(Identity(f)) <=> ~texts \/ ~Reviewable(kept) \/ Portable(kept) # kept
    <3> HIDE DEF Reviewable, Identity, Recomputed
    <3> QED
      BY <2>3, <2>5
  <2>9. Good(f) <=> texts /\ Reviewable(kept) /\ kept[1] # "/"
    BY <2>1
  <2> HIDE DEF Bad, Good, texts
  <2> QED
    BY <2>6, <2>7, <2>8, <2>9
<1>5. (\E e \in file.entries : Bad(e)) <=> (\E f \in Reported : ~Good(f))
  <2> HIDE DEF Bad, Good
  <2> QED
    BY <1>2, <1>4
<1>6. BaselineRejected <=> \/ file \in Oversize \/ Cardinality(file.entries) > MaxEntries
                           \/ file.top \in Refused
                           \/ \E e \in file.entries : Bad(e)
  BY DEF BaselineRejected
<1>7. Loadable(workspace) <=>
        /\ file \notin Oversize /\ Cardinality(file.entries) <= MaxEntries
        /\ file.top \notin Refused
        /\ \A f \in Reported : Good(f)
  BY <1>1, <1>2 DEF Loadable, Reported
<1>8. Cardinality(file.entries) \in Nat /\ MaxEntries \in Nat
  <2>1. workspace.findings \in Seq(Diagnostic)
    BY <1>1, FindingsAreDiagnostics
  <2>2. IsFiniteSet(DOMAIN workspace.findings)
    <3>1. DOMAIN workspace.findings = 1..Len(workspace.findings) /\ Len(workspace.findings) \in Nat
      BY <2>1
    <3> QED
      BY <3>1, FS_Interval
  <2> DEFINE entry == [i \in DOMAIN workspace.findings |-> Identity(workspace.findings[i])]
  <2>3. file.entries = {Identity(workspace.findings[i]) : i \in DOMAIN workspace.findings}
    BY <1>1 DEF BaselineOf
  <2>4. entry \in Surjection(DOMAIN workspace.findings, file.entries)
    BY <2>3, Zenon DEF Surjection
  <2> HIDE DEF entry
  <2>5. IsFiniteSet(file.entries)
    BY <2>2, <2>4, FS_Surjection
  <2> QED
    BY <2>5, FS_CardinalityType, ControlConstants
<1> HIDE DEF Bad, Good
<1>9. Cardinality(file.entries) > MaxEntries <=> ~(Cardinality(file.entries) <= MaxEntries)
  BY <1>8
<1> QED
  BY <1>5, <1>6, <1>7, <1>9

(* README.md:128-129: as long as the sources are what they were when the   *)
(* baseline was written, an invocation that loads it and no waivers is     *)
(* refused if the baseline is not loadable, and otherwise is neither       *)
(* refused nor fails, except for coverage, a file it cannot write or its   *)
(* death (UnchangedIsQuiet).                                               *)
THEOREM UnchangedStaysQuiet == Spec => UnchangedIsQuiet
<1>1. Inv /\ [Next]_vars =>
        [ /\ pc # "idle" /\ pc' = "idle" /\ file # NoFile /\ snapshot = workspace
          /\ args.baseline /\ ~args.waivers
          => IF Loadable(workspace)
             THEN exit' \in {"pass", "cannot write", "died"} \/ (args.gate /\ workspace.low)
             ELSE exit' \in {"baseline rejected", "died"} ]_vars
  <2> SUFFICES ASSUME Inv, Next,
                      pc # "idle", pc' = "idle", file # NoFile, snapshot = workspace,
                      args.baseline, ~args.waivers
               PROVE  IF Loadable(workspace)
                      THEN exit' \in {"pass", "cannot write", "died"} \/ (args.gate /\ workspace.low)
                      ELSE exit' \in {"baseline rejected", "died"}
    OBVIOUS
  <2>0. BaselineRejected <=> ~Loadable(workspace)
    BY LoadableIsNotRejected
  <2>1. ~args.write
    BY DEF Inv, Typed, Arguments
  <2>2. CASE Load
    <3>1. ~(args.waivers /\ WaiversRejected)
      OBVIOUS
    <3>2. CASE BaselineRejected
      <4>1. exit' = "baseline rejected"
        BY <2>2, <3>1, <3>2 DEF Load, Stop
      <4> QED
        BY <2>0, <3>2, <4>1
    <3>3. CASE ~BaselineRejected
      BY <2>2, <3>1, <3>3 DEF Load, Goto
    <3> QED
      BY <3>2, <3>3
  <2>3. ASSUME Apply PROVE FALSE
    <3>1. pc = "apply"
      BY <2>3 DEF Apply
    <3>2. /\ controls.top = workspace.top /\ controls.waivers = {}
          /\ \A f \in Reported : EntriesFor(f) = {Identity(f)}
      BY <3>1, EverythingIsBaselined
    <3>3. \A f \in Reported : ~Mismatched(f)
      BY <3>2 DEF Mismatched, WaiversFor
    <3>4. ~Overlap
      BY <3>2 DEF Overlap
    <3>5. pc' = "report"
      BY <2>3, <3>2, <3>3, <3>4 DEF Apply, Goto
    <3> QED
      BY <3>5
  <2>4. pc \in {"stage", "publish", "report"} => Loadable(workspace)
    BY <2>0 DEF Inv, Loaded
  <2>5. ASSUME Report, ~(args.gate /\ workspace.low) PROVE exit' = "pass"
    <3>1. pc = "report"
      BY <2>5 DEF Report
    <3>2. Active = {} /\ Unused = {} /\ Stale = {}
      BY <3>1, EverythingIsBaselined
    <3>3. Partitioned
      BY <3>1 DEF Inv, Sorted
    <3>4. result.active = <<>> /\ result.unused = {} /\ result.stale = {}
      <4>1. workspace.findings \in Seq(Diagnostic)
        BY FindingsAreDiagnostics DEF Inv, Typed
      <4> QED
        BY <3>2, <3>3, <4>1, OnlyNone DEF Partitioned
    <3>5. ~StrictFailure /\ DOMAIN result.active = {}
      BY <3>4 DEF StrictFailure
    <3> QED
      BY <2>5, <3>5 DEF Report, Stop
  <2>6. CASE \E a \in Invocations : Start(a)
    BY <2>6 DEF Start
  <2>7. CASE Audit
    BY <2>7 DEF Audit, Goto
  <2>8. CASE Stage \/ Publish
    BY <2>1, <2>8 DEF Stage, Publish, Inv, Typed
  <2>9. CASE Crash
    BY <2>9 DEF Crash, Stop
  <2>10. CASE WriteFails
    BY <2>4, <2>10 DEF WriteFails, Stop
  <2>11. CASE Edit \/ NextDay \/ \E id \in Ids, last \in 0..(MaxDay + 1) : Approve(id, last)
    BY <2>11 DEF Edit, NextDay, Approve
  <2>12. CASE Report
    <3>1. pc = "report"
      BY <2>12 DEF Report
    <3> QED
      BY <2>4, <2>5, <2>12, <3>1
  <2> QED
    BY <2>2, <2>3, <2>6, <2>7, <2>8, <2>9, <2>10, <2>11, <2>12 DEF Next
<1> QED
  BY <1>1, ControlsAreCurrent, PTL DEF Spec, UnchangedIsQuiet
=============================================================================
