-------------------------- MODULE ElaborationProofs --------------------------
(***************************************************************************)
(* That an elaboration, cut short or not, gives a consistent design index, *)
(* shorts no nets and says when it was cut short, and that one which was   *)
(* not cuts no nets either, for any netlist, cells, budget and depth.      *)
(***************************************************************************)
EXTENDS Elaboration, FiniteSetTheorems, WellFoundedInduction, TLAPS

(* Pins of cells with one component: only then do the paths of pins say    *)
(* which instance and which pin they are of.                               *)
PlainPins ==
  \A v \in Netlists : \A type \in DOMAIN v.modules :
    \A i \in DOMAIN v.modules[type].children :
      LET c == v.modules[type].children[i]
      IN  c.type \in DOMAIN Cells => \A p \in DOMAIN c.connections : Len(p) = 1

Nets == UNION {[S -> Name] : S \in SUBSET Name}

Activation ==
  [type : DOMAIN Modules, at : Seq(Name), prefix : Seq(STRING), bindings : Nets, local : Nets,
   next : Nat]

(* An activation: only that of the top has no prefix, and its nets are     *)
(* those of the index.                                                     *)
Placed(f, k, v, all) ==
  /\ f.prefix = <<>> <=> k = 1
  /\ k = 1 => f.type = v.top
  /\ \A n \in DOMAIN f.local : f.local[n] \in all
  /\ f.next > 0 => DOMAIN f.local = v.modules[f.type].nets

Walk ==
  /\ netlist \in Netlists
  /\ frames \in Seq(Activation)
  /\ \A k \in DOMAIN frames : Placed(frames[k], k, netlist, nets)
  /\ nets \subseteq Name /\ remaining \in Nat
  /\ done => frames = <<>>

(* The ports of the top are on its nets.                                   *)
PortsPlaced ==
  /\ DOMAIN ports = DOMAIN Top.direction
  /\ \A p \in DOMAIN ports : DOMAIN ports[p] = {"direction", "net"} /\ ports[p].net \in nets

(* Each pin in the table is that of its instance, whose path it begins with. *)
PinOf(path, b) ==
  /\ path = b.instance \o b.name
  /\ b.instance \in DOMAIN instances /\ b.name \in DOMAIN instances[b.instance].pins
  /\ b = instances[b.instance].pins[b.name]
  /\ b.net \in nets \cup {NoSignal} /\ b.direction \in {"input", "output", "inout", "unknown"}

PinsAgree ==
  /\ \A path \in DOMAIN pins : PinOf(path, pins[path])
  /\ \A i \in DOMAIN instances :
       /\ i \in Name
       /\ \A p \in DOMAIN instances[i].pins :
            p \in Name /\ Len(p) = 1 /\ i \o p \in DOMAIN pins

PinsOn(n, dirs) == {path \in DOMAIN pins : pins[path].net = n /\ pins[path].direction \in dirs}

PortsOn(n, dirs) == {p \in DOMAIN ports : done /\ ports[p].net = n /\ ports[p].direction \in dirs}

Entry(f, n) == IF n \in DOMAIN f THEN f[n] ELSE {}

(* The views by net are complete at each moment, but for the ports, which  *)
(* come last.                                                              *)
ViewsAgree ==
  /\ DOMAIN drivers \cup DOMAIN loads \subseteq nets
  /\ \A n \in nets :
       /\ Entry(drivers, n) = PinsOn(n, {"output"}) \cup PortsOn(n, {"input", "inout"})
       /\ Entry(loads, n) = PinsOn(n, {"input", "inout", "unknown"})
                              \cup PortsOn(n, {"output", "unknown"})

ArcsStayInside ==
  \A a \in arcs :
    /\ a[1] \in DOMAIN pins /\ a[2] \in DOMAIN pins
    /\ pins[a[1]].instance = pins[a[2]].instance /\ ~instances[pins[a[1]].instance].sequential
    /\ pins[a[1]].direction # "output" /\ pins[a[2]].direction # "input"

Tables == PortsPlaced /\ PinsAgree /\ ViewsAgree /\ ArcsStayInside

IndexInv == Walk /\ Tables
-----------------------------------------------------------------------------
(* Induction, stated with a set for the property: a set that holds 0 and   *)
(* the successor of each of its members holds every natural number.        *)
LEMMA Naturals ==
  ASSUME NEW G, 0 \in G, \A n \in Nat : n \in G => n + 1 \in G
  PROVE  Nat \subseteq G
<1> SUFFICES ASSUME ~(Nat \subseteq G) PROVE FALSE
  OBVIOUS
<1> DEFINE R == OpToRel(<, Nat)
           bad == Nat \ G
<1>1. IsWellFoundedOn(R, Nat)
  BY NatLessThanWellFounded
<1>2. \A x, y \in Nat : <<y, x>> \in R <=> y < x
  BY DEF OpToRel
<1>3. bad \subseteq Nat /\ bad # {}
  OBVIOUS
<1> HIDE DEF R, bad
<1>4. PICK x \in bad : \A y \in bad : ~(<<y, x>> \in R)
  BY <1>1, <1>3, WFMin
<1>5. x \in Nat /\ x \notin G /\ x # 0
  BY <1>4 DEF bad
<1>6. x - 1 \in Nat /\ x - 1 < x /\ (x - 1) + 1 = x
  BY <1>5
<1>7. x - 1 \in bad
  BY <1>5, <1>6 DEF bad
<1> QED
  BY <1>2, <1>4, <1>5, <1>6, <1>7

(* Steps from a start, each a function on V: the values exist and are in V. *)
Follows(f, start, step, n) ==
  f = [i \in 0..n |-> IF i = 0 THEN start ELSE step[i][f[i - 1]]]

LEMMA StepsExist ==
  ASSUME NEW V, NEW start \in V, NEW n \in Nat, NEW step \in [1..n -> [V -> V]]
  PROVE  \E f \in [0..n -> V] : Follows(f, start, step, n)
<1> DEFINE G == {k \in Nat : k <= n => \E f \in [0..k -> V] : Follows(f, start, step, k)}
<1>1. 0 \in G
  <2> DEFINE f == [i \in 0..0 |-> start]
  <2>1. f \in [0..0 -> V] /\ Follows(f, start, step, 0)
    BY DEF Follows
  <2> QED
    BY <2>1
<1>2. ASSUME NEW k \in Nat, k \in G PROVE k + 1 \in G
  <2> SUFFICES ASSUME k + 1 <= n PROVE \E f \in [0..(k + 1) -> V] : Follows(f, start, step, k + 1)
    OBVIOUS
  <2>1. PICK f \in [0..k -> V] : Follows(f, start, step, k)
    BY <1>2
  <2> DEFINE g == [i \in 0..(k + 1) |-> IF i = k + 1 THEN step[k + 1][f[k]] ELSE f[i]]
  <2>2. k + 1 \in 1..n /\ k \in 0..k
    OBVIOUS
  <2>3. step[k + 1][f[k]] \in V
    BY <2>2
  <2>4. \A i \in 0..(k + 1) : i # k + 1 => i \in 0..k
    OBVIOUS
  <2>5. g \in [0..(k + 1) -> V]
    BY <2>3, <2>4
  <2>6. ASSUME NEW i \in 0..(k + 1)
        PROVE  g[i] = IF i = 0 THEN start ELSE step[i][g[i - 1]]
    <3>1. CASE i = k + 1
      <4>1. i # 0 /\ i - 1 = k /\ k \in 0..(k + 1) /\ k # k + 1
        BY <3>1
      <4>2. g[k] = f[k] /\ g[i] = step[k + 1][f[k]]
        BY <3>1, <4>1
      <4> QED
        BY <3>1, <4>1, <4>2
    <3>2. CASE i # k + 1
      <4>1. i \in 0..k /\ (i # 0 => i - 1 \in 0..(k + 1) /\ i - 1 # k + 1)
        BY <3>2
      <4>2. g[i] = f[i] /\ (i # 0 => g[i - 1] = f[i - 1])
        BY <3>2, <4>1
      <4>3. f[i] = IF i = 0 THEN start ELSE step[i][f[i - 1]]
        BY <2>1, <4>1 DEF Follows
      <4> QED
        BY <4>2, <4>3
    <3> QED
      BY <3>1, <3>2
  <2>7. Follows(g, start, step, k + 1)
    BY <2>6 DEF Follows
  <2> QED
    BY <2>5, <2>7
<1> HIDE DEF G
<1>3. Nat \subseteq G
  BY <1>1, <1>2, Naturals
<1> QED
  BY <1>3 DEF G

(* What is so at the start and is kept by each step is so at the end.      *)
LEMMA StepsKeep ==
  ASSUME NEW V, NEW n \in Nat, NEW f, f[0] \in V,
         \A i \in 1..n : f[i - 1] \in V => f[i] \in V
  PROVE  f[n] \in V
<1> DEFINE G == {k \in Nat : k <= n => f[k] \in V}
<1>1. 0 \in G
  OBVIOUS
<1>2. ASSUME NEW k \in Nat, k \in G PROVE k + 1 \in G
  <2>1. k + 1 <= n => k + 1 \in 1..n /\ (k + 1) - 1 = k /\ k <= n
    OBVIOUS
  <2> QED
    BY <1>2, <2>1
<1> HIDE DEF G
<1>3. n \in G
  BY <1>1, <1>2, Naturals
<1> QED
  BY <1>3 DEF G

-----------------------------------------------------------------------------
(* The last element of a sequence, and the sequence without it.            *)
LEMMA LastElement ==
  ASSUME NEW A, NEW s \in Seq(A), s # <<>>
  PROVE  /\ Len(s) \in Nat /\ Len(s) > 0 /\ Len(s) \in DOMAIN s /\ DOMAIN s = 1..Len(s)
         /\ Last(s) = s[Len(s)] /\ Last(s) \in A
         /\ Front(s) \in Seq(A) /\ Len(Front(s)) = Len(s) - 1
         /\ DOMAIN Front(s) = 1..(Len(s) - 1) /\ \A k \in DOMAIN Front(s) : Front(s)[k] = s[k]
<1>1. Len(s) \in Nat /\ Len(s) > 0 /\ DOMAIN s = 1..Len(s)
  OBVIOUS
<1>2. Front(s) = SubSeq(s, 1, Len(s) - 1)
  BY DEF Front
<1>3. /\ Front(s) \in Seq(A) /\ Len(Front(s)) = Len(s) - 1
      /\ \A k \in 1..(Len(s) - 1) : Front(s)[k] = s[k]
  BY <1>1, <1>2
<1>4. DOMAIN Front(s) = 1..(Len(s) - 1)
  BY <1>3
<1>5. Len(s) \in DOMAIN s /\ Last(s) = s[Len(s)] /\ s[Len(s)] \in A
  BY <1>1 DEF Last
<1> QED
  BY <1>1, <1>3, <1>4, <1>5

(* The activation at work and its module are of their kinds.               *)
LEMMA AtWork ==
  ASSUME Walk, frames # <<>>
  PROVE  /\ Len(frames) \in Nat /\ Len(frames) > 0 /\ Len(frames) \in DOMAIN frames
         /\ F = frames[Len(frames)] /\ F \in Activation /\ F.type \in DOMAIN Modules
         /\ F.at \in Seq(Name) /\ F.prefix \in Seq(STRING) /\ F.next \in Nat
         /\ F.bindings \in Nets /\ F.local \in Nets /\ Placed(F, Len(frames), netlist, nets)
         /\ Netlist(netlist) /\ Module(M)
<1>1. frames \in Seq(Activation) /\ frames # <<>>
  BY DEF Walk
<1>2. Len(frames) \in DOMAIN frames
  BY <1>1, LastElement
<1>3. Placed(frames[Len(frames)], Len(frames), netlist, nets)
  BY <1>2 DEF Walk
<1>4. Netlist(netlist)
  BY ElaborationConstants DEF Walk
<1>5. F \in Activation /\ F = frames[Len(frames)] /\ Len(frames) \in Nat /\ Len(frames) > 0
  BY <1>1, LastElement DEF F
<1>6. /\ F.type \in DOMAIN Modules /\ F.at \in Seq(Name) /\ F.prefix \in Seq(STRING)
      /\ F.next \in Nat /\ F.bindings \in Nets /\ F.local \in Nets
  BY <1>5 DEF Activation
<1>7. Module(M)
  BY <1>4, <1>6 DEF M, Modules, Netlist
<1> QED
  BY <1>2, <1>3, <1>4, <1>5, <1>6, <1>7

(* A child of the module at work, and the path that it gets.               *)
LEMMA ChildKind ==
  ASSUME Walk, frames # <<>>, F.next \in DOMAIN M.children
  PROVE  /\ Instantiation(Child) /\ Child.name \in Name
         /\ Child.type \in DOMAIN Modules \cup DOMAIN Cells
         /\ Path \in Name
         /\ IsFiniteSet(DOMAIN Child.connections) /\ DOMAIN Child.connections \subseteq Name
         /\ \A p \in Signals : Child.connections[p] \in Name
<1>1. Module(M) /\ Netlist(netlist) /\ F.type \in DOMAIN Modules /\ F.prefix \in Seq(STRING)
  BY AtWork
<1>2. Instantiation(Child)
  BY <1>1 DEF Child, Module
<1>3. Child.type \in DOMAIN Modules \cup DOMAIN Cells
  BY <1>1 DEF Child, M, Modules, Netlist
<1>4. Child.name \in Name
  BY <1>2 DEF Instantiation
<1>5. Path \in Name
  BY <1>1, <1>4 DEF Path, Name
<1>6. IsFiniteSet(DOMAIN Child.connections) /\ DOMAIN Child.connections \subseteq Name
  BY <1>2 DEF Instantiation
<1>7. \A p \in Signals : Child.connections[p] \in Name
  BY <1>2 DEF Instantiation, Signals
<1> QED
  BY <1>2, <1>3, <1>4, <1>5, <1>6, <1>7

(* A longer path is a path, and is not the empty one.                      *)
LEMMA Longer ==
  ASSUME NEW p \in Seq(STRING), NEW n \in Name
  PROVE  p \o n \in Name
  BY DEF Name

LEMMA ResolvedName ==
  ASSUME Walk, frames # <<>>, NEW signal \in Name
  PROVE  Resolve(signal) \in Name
<1>1. F.local \in Nets /\ F.prefix \in Seq(STRING)
  BY AtWork
<1>2. \A n \in DOMAIN F.local : F.local[n] \in Name
  BY <1>1 DEF Nets
<1> QED
  BY <1>1, <1>2, Longer DEF Resolve

-----------------------------------------------------------------------------
(* Steps of the walk: an activation ends, goes on, or calls another.       *)
LEMMA PlacedMore ==
  ASSUME NEW f, NEW k, NEW v, NEW few, NEW all, few \subseteq all, Placed(f, k, v, few)
  PROVE  Placed(f, k, v, all)
  BY DEF Placed

Going ==
  /\ netlist' = netlist /\ nets \subseteq nets' /\ nets' \subseteq Name
  /\ remaining' \in Nat /\ done' = done

LEMMA WalkReturn ==
  ASSUME Walk, frames # <<>>, Going, frames' = Front(frames)
  PROVE  Walk'
<1>1. frames \in Seq(Activation) /\ netlist \in Netlists /\ ~done
  BY DEF Walk
<1>2. /\ frames' \in Seq(Activation) /\ DOMAIN frames' \subseteq DOMAIN frames
      /\ \A k \in DOMAIN frames' : frames'[k] = frames[k]
  <2>1. /\ Len(frames) \in Nat /\ DOMAIN frames = 1..Len(frames)
        /\ Front(frames) \in Seq(Activation) /\ DOMAIN Front(frames) = 1..(Len(frames) - 1)
        /\ \A k \in DOMAIN Front(frames) : Front(frames)[k] = frames[k]
    BY <1>1, LastElement
  <2> QED
    BY <2>1
<1>3. \A k \in DOMAIN frames' : Placed(frames'[k], k, netlist', nets')
  <2> SUFFICES ASSUME NEW k \in DOMAIN frames' PROVE Placed(frames'[k], k, netlist', nets')
    OBVIOUS
  <2>1. Placed(frames[k], k, netlist, nets)
    BY <1>2 DEF Walk
  <2> QED
    BY <1>2, <2>1, PlacedMore DEF Going
<1>4. Activation' = Activation
  BY DEF Activation, Modules, Going
<1> QED
  BY <1>1, <1>2, <1>3, <1>4 DEF Walk, Going

(* The activation at work changes.                                         *)
LEMMA WalkOn ==
  ASSUME Walk, frames # <<>>, Going,
         \E f \in Activation : /\ Placed(f, Len(frames), netlist, nets')
                               /\ frames' = [frames EXCEPT ![Len(frames)] = f]
  PROVE  Walk'
<1>1. frames \in Seq(Activation) /\ netlist \in Netlists /\ ~done
  BY DEF Walk
<1>2. PICK f \in Activation : /\ Placed(f, Len(frames), netlist, nets')
                              /\ frames' = [frames EXCEPT ![Len(frames)] = f]
  OBVIOUS
<1>3. Len(frames) \in Nat /\ DOMAIN frames = 1..Len(frames) /\ Len(frames) \in DOMAIN frames
  BY <1>1, LastElement
<1>4. frames' \in Seq(Activation) /\ DOMAIN frames' = DOMAIN frames
  BY <1>1, <1>2, <1>3
<1>5. \A k \in DOMAIN frames : frames'[k] = IF k = Len(frames) THEN f ELSE frames[k]
  BY <1>2, <1>3
<1>6. \A k \in DOMAIN frames' : Placed(frames'[k], k, netlist', nets')
  <2> SUFFICES ASSUME NEW k \in DOMAIN frames' PROVE Placed(frames'[k], k, netlist, nets')
    BY DEF Going
  <2>1. Placed(frames[k], k, netlist, nets')
    <3>1. Placed(frames[k], k, netlist, nets)
      BY <1>4 DEF Walk
    <3> QED
      BY <3>1, PlacedMore DEF Going
  <2> QED
    BY <1>2, <1>4, <1>5, <2>1
<1>7. Activation' = Activation
  BY DEF Activation, Modules, Going
<1> QED
  BY <1>1, <1>4, <1>6, <1>7 DEF Walk, Going

(* It goes on to its next child.                                           *)
LEMMA Advanced ==
  ASSUME Walk, frames # <<>>, F.next > 0, NEW all, nets \subseteq all
  PROVE  \E f \in Activation : /\ Placed(f, Len(frames), netlist, all)
                               /\ Advance = [frames EXCEPT ![Len(frames)] = f]
                               /\ f = [F EXCEPT !.next = F.next + 1]
<1>1. /\ F = frames[Len(frames)] /\ F \in Activation /\ F.next \in Nat
      /\ Placed(F, Len(frames), netlist, nets) /\ Len(frames) \in DOMAIN frames
  BY AtWork
<1> DEFINE f == [F EXCEPT !.next = F.next + 1]
<1>2. f \in Activation
  BY <1>1 DEF Activation
<1>3. /\ f.prefix = F.prefix /\ f.type = F.type /\ f.local = F.local /\ f.next = F.next + 1
  BY <1>1 DEF Activation
<1>4. Advance = [frames EXCEPT ![Len(frames)] = f]
  BY <1>1 DEF Advance
<1> HIDE DEF f
<1>5. Placed(f, Len(frames), netlist, all)
  <2>1. \A n \in DOMAIN F.local : F.local[n] \in all
    BY <1>1 DEF Placed
  <2> QED
    BY <1>1, <1>3, <2>1 DEF Placed
<1> QED
  BY <1>2, <1>4, <1>5 DEF f

(* It calls another, below itself.                                         *)
LEMMA WalkCall ==
  ASSUME Walk, frames # <<>>, F.next > 0, Going,
         \E f \in Activation : f.prefix # <<>> /\ f.local = Empty /\ f.next = 0
                               /\ frames' = Append(Advance, f)
  PROVE  Walk'
<1>1. frames \in Seq(Activation) /\ netlist \in Netlists /\ ~done /\ nets \subseteq nets'
  BY DEF Walk, Going
<1>2. PICK f \in Activation : f.prefix # <<>> /\ f.local = Empty /\ f.next = 0
                              /\ frames' = Append(Advance, f)
  OBVIOUS
<1>3. PICK g \in Activation : /\ Placed(g, Len(frames), netlist, nets')
                              /\ Advance = [frames EXCEPT ![Len(frames)] = g]
  BY <1>1, Advanced
<1>4. /\ Len(frames) \in Nat /\ Len(frames) > 0 /\ DOMAIN frames = 1..Len(frames)
      /\ Len(frames) \in DOMAIN frames
  BY <1>1, LastElement
<1>5. /\ Advance \in Seq(Activation) /\ Len(Advance) = Len(frames)
      /\ \A k \in DOMAIN frames : Advance[k] = IF k = Len(frames) THEN g ELSE frames[k]
  BY <1>1, <1>3, <1>4
<1>6. /\ frames' \in Seq(Activation) /\ Len(frames') = Len(frames) + 1
      /\ DOMAIN frames' = 1..(Len(frames) + 1)
      /\ frames'[Len(frames) + 1] = f
      /\ \A k \in DOMAIN frames : frames'[k] = Advance[k]
  BY <1>2, <1>4, <1>5
<1>7. \A k \in DOMAIN frames' : Placed(frames'[k], k, netlist', nets')
  <2> SUFFICES ASSUME NEW k \in DOMAIN frames' PROVE Placed(frames'[k], k, netlist, nets')
    BY DEF Going
  <2>1. CASE k = Len(frames) + 1
    <3>1. k # 1 /\ frames'[k] = f
      BY <1>4, <1>6, <2>1
    <3>2. DOMAIN f.local = {} /\ ~(f.next > 0)
      BY <1>2 DEF Empty
    <3> QED
      BY <1>2, <3>1, <3>2 DEF Placed
  <2>2. CASE k = Len(frames)
    BY <1>3, <1>4, <1>5, <1>6, <2>2
  <2>3. CASE k # Len(frames) + 1 /\ k # Len(frames)
    <3>1. k \in DOMAIN frames /\ frames'[k] = frames[k]
      BY <1>4, <1>5, <1>6, <2>3
    <3>2. Placed(frames[k], k, netlist, nets)
      BY <3>1 DEF Walk
    <3> QED
      BY <1>1, <3>1, <3>2, PlacedMore
  <2> QED
    BY <2>1, <2>2, <2>3
<1>8. Activation' = Activation
  BY DEF Activation, Modules, Going
<1> QED
  BY <1>1, <1>6, <1>7, <1>8 DEF Walk, Going

-----------------------------------------------------------------------------
(* The nets of an activation of m with bindings b, before and after the    *)
(* assignments.                                                            *)
BoundOf(m, b, prefix) == [n \in m.nets |-> IF n \in DOMAIN b THEN b[n] ELSE prefix \o n]

JoinOf(m, b, root, alias) ==
  LET left == alias[1]  right == alias[2]
      Rename(old, new) == [n \in DOMAIN root |-> IF root[n] = old THEN new ELSE root[n]]
  IN  IF ~{left, right} \subseteq m.nets THEN root
      ELSE IF left \in DOMAIN b \/ (right \notin DOMAIN b /\ left \in Outputs(m))
           THEN Rename(root[right], root[left])
           ELSE Rename(root[left], root[right])

RootsOf(m, b, prefix) ==
  LET roots[i \in 0..Len(m.aliases)] ==
        IF i = 0 THEN BoundOf(m, b, prefix) ELSE JoinOf(m, b, roots[i - 1], m.aliases[i])
  IN  roots[Len(m.aliases)]

LEMMA JoinedIs ==
  /\ Bound = BoundOf(M, F.bindings, F.prefix)
  /\ \A r, a : Join(r, a) = JoinOf(M, F.bindings, r, a)
  /\ Joined = RootsOf(M, F.bindings, F.prefix)
<1>1. Bound = BoundOf(M, F.bindings, F.prefix)
  BY DEF Bound, BoundOf
<1>2. \A r, a : Join(r, a) = JoinOf(M, F.bindings, r, a)
  BY DEF Join, JoinOf, KeepsLeft
<1>3. Joined = RootsOf(M, F.bindings, F.prefix)
  BY <1>1, <1>2 DEF Joined, RootsOf
<1> QED
  BY <1>1, <1>2, <1>3

(* What holds for the roots before the assignments and is kept by each     *)
(* holds after each of them.                                               *)
LEMMA RootsAre ==
  ASSUME NEW m, NEW b, NEW prefix, Len(m.aliases) \in Nat,
         NEW V, BoundOf(m, b, prefix) \in V,
         \A r \in V : \A i \in 1..Len(m.aliases) : JoinOf(m, b, r, m.aliases[i]) \in V
  PROVE  \E f \in [0..Len(m.aliases) -> V] :
           /\ f[0] = BoundOf(m, b, prefix) /\ f[Len(m.aliases)] = RootsOf(m, b, prefix)
           /\ \A i \in 1..Len(m.aliases) : f[i] = JoinOf(m, b, f[i - 1], m.aliases[i])
<1> DEFINE n == Len(m.aliases)
           start == BoundOf(m, b, prefix)
           step == [i \in 1..n |-> [r \in V |-> JoinOf(m, b, r, m.aliases[i])]]
           Eq(f) == f = [i \in 0..n |-> IF i = 0 THEN start
                                        ELSE JoinOf(m, b, f[i - 1], m.aliases[i])]
           roots == CHOOSE f : Eq(f)
<1>1. \E f : Eq(f)
  <2>1. n \in Nat /\ step \in [1..n -> [V -> V]]
    OBVIOUS
  <2>2. PICK f \in [0..n -> V] : Follows(f, start, step, n)
    <3> HIDE DEF n, step, start
    <3> QED
      BY <2>1, StepsExist DEF start
  <2>3. ASSUME NEW i \in 0..n
        PROVE  f[i] = IF i = 0 THEN start ELSE JoinOf(m, b, f[i - 1], m.aliases[i])
    <3>1. i # 0 => i \in 1..n /\ i - 1 \in 0..n
      OBVIOUS
    <3>2. i # 0 => f[i - 1] \in V
      BY <3>1, <2>2
    <3>3. i # 0 => step[i][f[i - 1]] = JoinOf(m, b, f[i - 1], m.aliases[i])
      BY <3>1, <3>2
    <3>4. f[i] = IF i = 0 THEN start ELSE step[i][f[i - 1]]
      BY <2>2 DEF Follows
    <3> HIDE DEF step
    <3> QED
      BY <3>3, <3>4
  <2>4. f = [i \in 0..n |-> IF i = 0 THEN start ELSE JoinOf(m, b, f[i - 1], m.aliases[i])]
    BY <2>2, <2>3 DEF Follows
  <2> QED
    BY <2>4
<1>2. Eq(roots)
  <2> HIDE DEF Eq
  <2> QED
    BY <1>1
<1>3. RootsOf(m, b, prefix) = roots[n]
  BY DEF RootsOf
<1>4. /\ roots[0] = start
      /\ \A i \in 1..n : roots[i] = JoinOf(m, b, roots[i - 1], m.aliases[i])
  <2>1. \A i \in 0..n : roots[i] = IF i = 0 THEN start
                                   ELSE JoinOf(m, b, roots[i - 1], m.aliases[i])
    <3> HIDE DEF roots
    <3> QED
      BY <1>2
  <2>2. 0 \in 0..n /\ \A i \in 1..n : i \in 0..n /\ i # 0
    OBVIOUS
  <2> HIDE DEF roots
  <2> QED
    BY <2>1, <2>2
<1>5. roots = [i \in 0..n |-> roots[i]]
  <2> HIDE DEF roots
  <2> QED
    BY <1>2
<1> HIDE DEF roots, start
<1>6. ASSUME NEW k \in 0..n PROVE roots[k] \in V
  <2>1. \A i \in 1..k : roots[i - 1] \in V => roots[i] \in V
    BY <1>4
  <2>2. roots[0] \in V /\ k \in Nat
    BY <1>4 DEF start
  <2> HIDE DEF n
  <2> QED
    BY <2>1, <2>2, StepsKeep
<1>7. roots \in [0..n -> V]
  BY <1>5, <1>6
<1> QED
  BY <1>3, <1>4, <1>7 DEF start

LEMMA RootsKeep ==
  ASSUME NEW m, NEW b, NEW prefix, Len(m.aliases) \in Nat,
         NEW V, BoundOf(m, b, prefix) \in V,
         \A r \in V : \A i \in 1..Len(m.aliases) : JoinOf(m, b, r, m.aliases[i]) \in V
  PROVE  RootsOf(m, b, prefix) \in V
<1>1. PICK f \in [0..Len(m.aliases) -> V] : f[Len(m.aliases)] = RootsOf(m, b, prefix)
  BY RootsAre
<1>2. Len(m.aliases) \in 0..Len(m.aliases)
  OBVIOUS
<1> QED
  BY <1>1, <1>2

LEMMA JoinedKeeps ==
  ASSUME Len(M.aliases) \in Nat, NEW V, Bound \in V,
         \A r \in V : \A i \in 1..Len(M.aliases) : Join(r, M.aliases[i]) \in V
  PROVE  Joined \in V
  BY JoinedIs, RootsKeep

(* EnterModule either gives up or opens the nets of the activation.        *)
Opens ==
  /\ Len(frames) <= MaxDepth
  /\ frames' = [frames EXCEPT ![Len(frames)] = [F EXCEPT !.local = Joined, !.next = 1]]
  /\ nets' = nets \cup {Bound[n] : n \in M.nets}
  /\ ports' = IF F.prefix # <<>> THEN ports
              ELSE [p \in DOMAIN ports |-> [ports[p] EXCEPT !.net = Joined[p]]]

LEMMA EnterModuleIs ==
  ASSUME Walk, EnterModule
  PROVE  /\ frames # <<>> /\ F.next = 0 /\ netlist' = netlist /\ limit' = limit /\ done' = done
         /\ UNCHANGED index
         /\ \/ /\ frames' = Front(frames) /\ nets' = nets /\ ports' = ports
               /\ warnings' \cap Cuts # {}
            \/ Opens
<1>1. /\ frames # <<>> /\ F.next = 0 /\ netlist' = netlist /\ limit' = limit /\ done' = done
      /\ UNCHANGED index
  BY DEF EnterModule
<1> DEFINE rec == \E i \in DOMAIN frames : i < Len(frames) /\ frames[i].type = F.type
<1>2. CASE rec
  <2>1. frames' = Front(frames) /\ nets' = nets /\ ports' = ports /\ "recursive" \in warnings'
    BY <1>2 DEF EnterModule, Return, Warn
  <2> QED
    BY <1>1, <2>1 DEF Cuts
<1>3. CASE ~rec
  <2>1. IF Len(frames) > MaxDepth
        THEN Warn({"depth"}) /\ Return /\ UNCHANGED <<remaining, ports, nets>>
        ELSE /\ Reserve(Cardinality(M.nets) + 1, {})
             /\ IF Cardinality(M.nets) + 1 > remaining
                THEN Return /\ UNCHANGED <<ports, nets>>
                ELSE /\ frames' = [frames EXCEPT ![Len(frames)].local = Joined,
                                                 ![Len(frames)].next = 1]
                     /\ nets' = nets \cup {Bound[n] : n \in M.nets}
                     /\ ports' = IF F.prefix # <<>> THEN ports
                          ELSE [p \in DOMAIN ports |-> [ports[p] EXCEPT !.net = Joined[p]]]
    BY <1>3 DEF EnterModule
  <2>2. CASE \/ Len(frames) > MaxDepth
             \/ Cardinality(M.nets) + 1 > remaining
    <3>1. frames' = Front(frames) /\ nets' = nets /\ ports' = ports
      BY <2>1, <2>2 DEF Return
    <3>2. "depth" \in warnings' \/ "limit" \in warnings'
      <4>1. CASE Len(frames) > MaxDepth
        BY <2>1, <4>1 DEF Warn
      <4>2. CASE ~(Len(frames) > MaxDepth)
        <5>1. Reserve(Cardinality(M.nets) + 1, {}) /\ Cardinality(M.nets) + 1 > remaining
          BY <2>1, <2>2, <4>2
        <5>2. ~(Cardinality(M.nets) + 1 <= remaining)
          <6>1. IsFiniteSet(M.nets)
            BY <1>1, AtWork DEF Module
          <6>2. Cardinality(M.nets) \in Nat
            BY <6>1, FS_CardinalityType
          <6> QED
            BY <5>1, <6>2 DEF Walk
        <5> QED
          BY <5>1, <5>2 DEF Reserve, Warn
      <4> QED
        BY <4>1, <4>2
    <3> QED
      BY <1>1, <3>1, <3>2 DEF Cuts
  <2>3. CASE ~(Len(frames) > MaxDepth) /\ ~(Cardinality(M.nets) + 1 > remaining)
    <3>1. /\ frames' = [frames EXCEPT ![Len(frames)].local = Joined,
                                      ![Len(frames)].next = 1]
          /\ nets' = nets \cup {Bound[n] : n \in M.nets}
          /\ ports' = IF F.prefix # <<>> THEN ports
                      ELSE [p \in DOMAIN ports |-> [ports[p] EXCEPT !.net = Joined[p]]]
      BY <2>1, <2>3
    <3>2. Len(frames) \in DOMAIN frames /\ F = frames[Len(frames)] /\ Len(frames) \in Nat
      BY <1>1, AtWork
    <3>3. Len(frames) <= MaxDepth
      BY <2>3, <3>2, ElaborationConstants
    <3>4. frames' = [frames EXCEPT ![Len(frames)] = [F EXCEPT !.local = Joined, !.next = 1]]
      BY <3>1, <3>2
    <3> QED
      BY <1>1, <3>1, <3>3, <3>4 DEF Opens
  <2> QED
    BY <2>2, <2>3
<1> QED
  BY <1>2, <1>3

LEMMA BoundName ==
  ASSUME Walk, frames # <<>>, NEW n \in M.nets
  PROVE  Bound[n] \in Name
<1>1. F.bindings \in Nets /\ F.prefix \in Seq(STRING) /\ n \in Name
  BY AtWork DEF Module
<1>2. n \in DOMAIN F.bindings => F.bindings[n] \in Name
  BY <1>1 DEF Nets
<1>3. F.prefix \o n \in Name
  BY <1>1, Longer
<1> QED
  BY <1>2, <1>3 DEF Bound

(* The roots after the assignments are among those before them.            *)
LEMMA JoinedKind ==
  ASSUME Walk, frames # <<>>
  PROVE  Joined \in [M.nets -> {Bound[n] : n \in M.nets}]
<1> DEFINE N == {Bound[n] : n \in M.nets}
<1>1. Len(M.aliases) \in Nat
  BY AtWork DEF Module
<1>2. Bound \in [M.nets -> N]
  BY DEF Bound
<1> HIDE DEF N
<1>3. ASSUME NEW r \in [M.nets -> N], NEW i \in 1..Len(M.aliases)
      PROVE  Join(r, M.aliases[i]) \in [M.nets -> N]
  BY DEF Join
<1>4. Joined \in [M.nets -> N]
  BY <1>1, <1>2, <1>3, JoinedKeeps
<1> QED
  BY <1>4 DEF N

LEMMA OpenedFrame ==
  ASSUME Walk, frames # <<>>, Opens
  PROVE  LET f == [F EXCEPT !.local = Joined, !.next = 1]
         IN  f \in Activation /\ Placed(f, Len(frames), netlist, nets')
<1> DEFINE f == [F EXCEPT !.local = Joined, !.next = 1]
<1>1. F \in Activation /\ Placed(F, Len(frames), netlist, nets) /\ Module(M)
  BY AtWork
<1>2. Joined \in [M.nets -> {Bound[n] : n \in M.nets}]
  BY JoinedKind
<1>3. {Bound[n] : n \in M.nets} \subseteq Name
  BY BoundName
<1>4. Joined \in [M.nets -> Name] /\ M.nets \subseteq Name
  BY <1>1, <1>2, <1>3 DEF Module
<1>5. Joined \in Nets
  BY <1>4 DEF Nets
<1>6. f \in Activation
  BY <1>1, <1>5 DEF Activation
<1>7. /\ f.prefix = F.prefix /\ f.type = F.type /\ f.local = Joined /\ f.next = 1
  BY <1>1 DEF Activation
<1> HIDE DEF f
<1>8. \A n \in DOMAIN Joined : Joined[n] \in nets'
  BY <1>2 DEF Opens
<1>9. DOMAIN Joined = netlist.modules[F.type].nets
  BY <1>2 DEF M, Modules
<1>10. Placed(f, Len(frames), netlist, nets')
  BY <1>1, <1>7, <1>8, <1>9 DEF Placed
<1> QED
  BY <1>6, <1>10 DEF f

-----------------------------------------------------------------------------
(* What a path was joined from.                                            *)
LEMMA SameEnd ==
  ASSUME NEW A, NEW a \in Seq(A), NEW p \in Seq(A), NEW q \in Seq(A), a \o p = a \o q
  PROVE  p = q
<1>1. /\ Len(a \o p) = Len(a) + Len(p) /\ Len(a \o q) = Len(a) + Len(q)
      /\ \A i \in 1..Len(p) : (a \o p)[Len(a) + i] = p[i]
      /\ \A i \in 1..Len(q) : (a \o q)[Len(a) + i] = q[i]
  OBVIOUS
<1>2. Len(p) = Len(q)
  BY <1>1
<1>3. \A i \in 1..Len(p) : p[i] = q[i]
  BY <1>1, <1>2
<1> QED
  BY <1>2, <1>3

LEMMA SameStart ==
  ASSUME NEW A, NEW a \in Seq(A), NEW b \in Seq(A), NEW p \in Seq(A), NEW q \in Seq(A),
         a \o p = b \o q, Len(p) = Len(q)
  PROVE  a = b /\ p = q
<1>1. /\ Len(a \o p) = Len(a) + Len(p) /\ Len(b \o q) = Len(b) + Len(q)
      /\ \A i \in 1..Len(a) : (a \o p)[i] = a[i]
      /\ \A i \in 1..Len(b) : (b \o q)[i] = b[i]
  OBVIOUS
<1>2. Len(a) = Len(b)
  BY <1>1
<1>3. \A i \in 1..Len(a) : a[i] = b[i]
  BY <1>1, <1>2
<1>4. a = b
  BY <1>2, <1>3
<1> QED
  BY <1>4, SameEnd

-----------------------------------------------------------------------------
(* PlaceLeaf either gives up or adds an instance with its pins.            *)
Given == DOMAIN Child.connections

Built == [p \in Given |-> [instance |-> Path, name |-> p,
                           direction |-> Direction(p), net |-> NetOf(p)]]

CellOf == Cells[Child.type]

Places ==
  /\ frames' = Advance
  /\ pins' = Override(pins, [path \in {Path \o p : p \in Given} |->
                               Built[CHOOSE p \in Given : Path \o p = path]])
  /\ nets' = nets \cup {NetOf(p) : p \in Signals}
  /\ drivers' = Attach(drivers, Connected({"output"}))
  /\ loads' = Attach(loads, Signals \ Connected({"output"}))
  /\ instances' = Override(instances, [path \in {Path} |->
       [type |-> Child.type, pins |-> Built, sequential |-> CellOf.sequential]])
  /\ \A a \in arcs' : a \in arcs \/
       /\ ~CellOf.sequential
       /\ \E i \in Connected({"input", "inout"}), o \in Connected({"output", "inout"}) :
            a = <<Path \o i, Path \o o>>
  /\ origin' = origin \cup
       {[path |-> Path \o p, at |-> F.at, child |-> F.next, pin |-> p,
         signal |-> Child.connections[p]] : p \in Given}

LEMMA PlaceLeafIs ==
  ASSUME PlaceLeaf
  PROVE  /\ frames # <<>> /\ F.next \in DOMAIN M.children /\ Child.type \notin DOMAIN Modules
         /\ Path \notin DOMAIN instances
         /\ netlist' = netlist /\ limit' = limit /\ ports' = ports /\ done' = done
         /\ \/ frames' = Front(frames) /\ nets' = nets /\ UNCHANGED index
            \/ Places
<1>1. /\ frames # <<>> /\ F.next \in DOMAIN M.children /\ Child.type \notin DOMAIN Modules
      /\ Path \notin DOMAIN instances
      /\ netlist' = netlist /\ limit' = limit /\ ports' = ports /\ done' = done
  BY DEF PlaceLeaf, AtLeaf
<1>2. CASE ~Fits
  BY <1>1, <1>2 DEF PlaceLeaf, Return
<1>3. CASE Fits
  <2>1. /\ frames' = Advance
        /\ pins' = Override(pins, [path \in {Path \o p : p \in Given} |->
                                     Built[CHOOSE p \in Given : Path \o p = path]])
        /\ nets' = nets \cup {NetOf(p) : p \in Signals}
        /\ drivers' = Attach(drivers, Connected({"output"}))
        /\ loads' = Attach(loads, Signals \ Connected({"output"}))
        /\ instances' = Override(instances, [path \in {Path} |->
             [type |-> Child.type, pins |-> Built, sequential |-> CellOf.sequential]])
        /\ origin' = origin \cup
             {[path |-> Path \o p, at |-> F.at, child |-> F.next, pin |-> p,
               signal |-> Child.connections[p]] : p \in Given}
    BY <1>3 DEF PlaceLeaf, Given, Built, CellOf
  <2> DEFINE inputs == Connected({"input", "inout"})
             outputs == Connected({"output", "inout"})
             sighted == outputs \ {p \in outputs : p \notin DOMAIN CellOf.depends}
  <2>2. arcs' = arcs \cup (IF CellOf.sequential THEN {} ELSE
                  {<<Path \o io[1], Path \o io[2]>> : io \in
                     {x \in inputs \X sighted : x[1] \in CellOf.depends[x[2]]}})
    BY <1>3 DEF PlaceLeaf, CellOf
  <2>3. ASSUME NEW a \in arcs', a \notin arcs
        PROVE  ~CellOf.sequential /\ \E i \in inputs, o \in outputs : a = <<Path \o i, Path \o o>>
    <3>1. ~CellOf.sequential
      BY <2>2, <2>3
    <3>2. PICK io \in {x \in inputs \X sighted : x[1] \in CellOf.depends[x[2]]} :
            a = <<Path \o io[1], Path \o io[2]>>
      BY <2>2, <2>3, <3>1
    <3>3. io[1] \in inputs /\ io[2] \in outputs
      BY <3>2
    <3> QED
      BY <3>1, <3>2, <3>3
  <2> QED
    BY <1>1, <2>1, <2>3 DEF Places
<1> QED
  BY <1>2, <1>3

-----------------------------------------------------------------------------
(* The walk keeps its kinds.                                               *)
LEMMA CalledFrame ==
  ASSUME Walk, frames # <<>>, F.next \in DOMAIN M.children, Child.type \in DOMAIN Modules
  PROVE  LET f == Call(Child.type, Append(F.at, Child.name), Path,
                       [p \in Signals |-> Resolve(Child.connections[p])])
         IN  f \in Activation /\ f.prefix # <<>> /\ f.local = Empty /\ f.next = 0
<1> DEFINE b == [p \in Signals |-> Resolve(Child.connections[p])]
           f == Call(Child.type, Append(F.at, Child.name), Path, b)
<1>1. Child.name \in Name /\ Path \in Name /\ F.at \in Seq(Name)
  BY AtWork, ChildKind
<1>2. Signals \subseteq Name
  BY ChildKind DEF Signals
<1>3. \A p \in Signals : Resolve(Child.connections[p]) \in Name
  BY ChildKind, ResolvedName
<1>4. b \in Nets /\ Empty \in Nets
  <2>1. b \in [Signals -> Name]
    BY <1>3
  <2>2. Empty \in [{} -> Name] /\ {} \in SUBSET Name
    BY DEF Empty
  <2> HIDE DEF b
  <2> QED
    BY <1>2, <2>1, <2>2 DEF Nets
<1> HIDE DEF b
<1>5. Append(F.at, Child.name) \in Seq(Name) /\ Path \in Seq(STRING) /\ Path # <<>>
  BY <1>1 DEF Name
<1>6. f \in Activation
  BY <1>4, <1>5 DEF Call, Activation
<1>7. f.prefix = Path /\ f.local = Empty /\ f.next = 0
  BY DEF Call
<1> HIDE DEF f
<1> QED
  BY <1>5, <1>6, <1>7 DEF b, f

LEMMA WalkInit == Init => Walk
<1> SUFFICES ASSUME Init PROVE Walk
  OBVIOUS
<1>1. Netlist(netlist) /\ netlist \in Netlists
  BY ElaborationConstants DEF Init
<1>2. Module(Top) /\ netlist.top \in DOMAIN Modules
  BY <1>1 DEF Netlist, Top, Modules
<1> DEFINE b == [p \in DOMAIN Top.direction |-> p]
           f == Call(netlist.top, <<>>, <<>>, b)
<1>3. nets = Top.nets /\ nets \subseteq Name /\ DOMAIN Top.direction \subseteq Name
  BY <1>2 DEF Init, Module
<1>4. b \in Nets /\ Empty \in Nets
  <2>1. b \in [DOMAIN Top.direction -> Name]
    BY <1>3
  <2>2. Empty \in [{} -> Name] /\ {} \in SUBSET Name
    BY DEF Empty
  <2> HIDE DEF b
  <2> QED
    BY <1>3, <2>1, <2>2 DEF Nets
<1> HIDE DEF b
<1>5. f \in Activation
  <2>1. <<>> \in Seq(Name) /\ <<>> \in Seq(STRING)
    OBVIOUS
  <2> QED
    BY <1>2, <1>4, <2>1 DEF Call, Activation
<1>6. /\ f.prefix = <<>> /\ f.type = netlist.top /\ f.next = 0 /\ DOMAIN f.local = {}
  BY DEF Call, Empty
<1>7. frames = <<f>> /\ done = FALSE
  BY DEF Init, b
<1> HIDE DEF f
<1>8. Placed(f, 1, netlist, nets)
  BY <1>6 DEF Placed
<1>9. frames \in Seq(Activation) /\ \A k \in DOMAIN frames : Placed(frames[k], k, netlist, nets)
  BY <1>5, <1>7, <1>8
<1>10. remaining \in Nat
  BY ElaborationConstants DEF Init
<1> QED
  BY <1>1, <1>3, <1>7, <1>9, <1>10 DEF Walk

(* The budget is never overdrawn.                                          *)
LEMMA BudgetStays ==
  ASSUME Walk, [Next]_vars
  PROVE  remaining' \in Nat
<1>1. ASSUME NEW amount \in Nat, amount <= remaining PROVE remaining - amount \in Nat
  BY <1>1 DEF Walk
<1>2. ASSUME NEW amount \in Nat, NEW others, Reserve(amount, others) PROVE remaining' \in Nat
  BY <1>1, <1>2 DEF Reserve
<1>3. CASE EnterModule
  <2>1. Cardinality(M.nets) + 1 \in Nat
    <3>1. IsFiniteSet(M.nets)
      BY <1>3, AtWork DEF EnterModule, Module
    <3>2. Cardinality(M.nets) \in Nat
      BY <3>1, FS_CardinalityType
    <3> QED
      BY <3>2
  <2>2. remaining' = remaining \/ Reserve(Cardinality(M.nets) + 1, {})
    BY <1>3 DEF EnterModule
  <2> QED
    BY <1>2, <2>1, <2>2 DEF Walk
<1>4. CASE PlaceLeaf
  <2>1. Cardinality(DOMAIN Child.connections) + 1 \in Nat
    <3>1. frames # <<>> /\ F.next \in DOMAIN M.children
      BY <1>4 DEF PlaceLeaf, AtLeaf
    <3>2. Cardinality(DOMAIN Child.connections) \in Nat
      BY <3>1, ChildKind, FS_CardinalityType
    <3> QED
      BY <3>2
  <2>2. CASE Fits
    <3>1. remaining' = remaining - (Cardinality(DOMAIN Child.connections) + 1)
      BY <1>4, <2>2 DEF PlaceLeaf
    <3> QED
      BY <1>1, <2>1, <2>2, <3>1 DEF Fits
  <2>3. CASE ~Fits
    <3>1. \E others : Reserve(Cardinality(DOMAIN Child.connections) + 1, others)
      BY <1>4, <2>3 DEF PlaceLeaf
    <3> QED
      BY <1>2, <2>1, <3>1
  <2> QED
    BY <2>2, <2>3
<1>5. CASE LeaveModule \/ EnterChild \/ Collide \/ Finish \/ UNCHANGED vars
  BY <1>5 DEF LeaveModule, EnterChild, Collide, Finish, vars, Walk
<1> QED
  BY <1>3, <1>4, <1>5 DEF Next

LEMMA WalkNext == Walk /\ [Next]_vars => Walk'
<1> SUFFICES ASSUME Walk, [Next]_vars PROVE Walk'
  OBVIOUS
<1>b. remaining' \in Nat
  BY BudgetStays
<1>1. ASSUME EnterModule PROVE Walk'
  <2>1. /\ frames # <<>> /\ netlist' = netlist /\ done' = done
        /\ \/ frames' = Front(frames) /\ nets' = nets /\ ports' = ports
           \/ Opens
    BY <1>1, EnterModuleIs
  <2>2. CASE frames' = Front(frames) /\ nets' = nets
    <3>1. Going
      BY <1>b, <2>1, <2>2 DEF Going, Walk
    <3> QED
      BY <2>1, <2>2, <3>1, WalkReturn
  <2>3. CASE Opens
    <3>1. {Bound[n] : n \in M.nets} \subseteq Name
      BY <2>1, BoundName
    <3>2. Going
      BY <1>b, <2>1, <2>3, <3>1 DEF Going, Walk, Opens
    <3>3. LET f == [F EXCEPT !.local = Joined, !.next = 1]
          IN  f \in Activation /\ Placed(f, Len(frames), netlist, nets')
      BY <2>1, <2>3, OpenedFrame
    <3>4. \E f \in Activation : /\ Placed(f, Len(frames), netlist, nets')
                                /\ frames' = [frames EXCEPT ![Len(frames)] = f]
      BY <2>3, <3>3 DEF Opens
    <3> QED
      BY <2>1, <3>2, <3>4, WalkOn
  <2> QED
    BY <2>1, <2>2, <2>3
<1>2. ASSUME LeaveModule PROVE Walk'
  <2>1. Going /\ frames # <<>> /\ frames' = Front(frames)
    BY <1>b, <1>2 DEF Going, Walk, LeaveModule, Return
  <2> QED
    BY <2>1, WalkReturn
<1>3. ASSUME EnterChild PROVE Walk'
  <2>1. /\ Going /\ frames # <<>> /\ F.next \in DOMAIN M.children
        /\ Child.type \in DOMAIN Modules
        /\ frames' = Append(Advance,
             Call(Child.type, Append(F.at, Child.name), Path,
                  [p \in Signals |-> Resolve(Child.connections[p])]))
    BY <1>b, <1>3 DEF Going, Walk, EnterChild
  <2>2. F.next > 0
    BY <2>1, AtWork DEF Module
  <2> QED
    BY <2>1, <2>2, CalledFrame, WalkCall
<1>4. ASSUME frames # <<>>, F.next \in DOMAIN M.children, Going, frames' = Advance PROVE Walk'
  <2>1. F.next > 0
    BY <1>4, AtWork DEF Module
  <2>2. \E f \in Activation : /\ Placed(f, Len(frames), netlist, nets')
                              /\ Advance = [frames EXCEPT ![Len(frames)] = f]
    BY <1>4, <2>1, Advanced DEF Going
  <2> QED
    BY <1>4, <2>2, WalkOn
<1>5. ASSUME Collide PROVE Walk'
  BY <1>b, <1>4, <1>5 DEF Collide, AtLeaf, Going, Walk
<1>6. ASSUME PlaceLeaf PROVE Walk'
  <2>1. /\ frames # <<>> /\ F.next \in DOMAIN M.children
        /\ netlist' = netlist /\ done' = done
        /\ \/ frames' = Front(frames) /\ nets' = nets
           \/ Places
    BY <1>6, PlaceLeafIs
  <2>2. CASE frames' = Front(frames) /\ nets' = nets
    BY <1>b, <2>1, <2>2, WalkReturn DEF Going, Walk
  <2>3. CASE Places
    <3>1. \A p \in Signals : NetOf(p) \in Name
      BY <2>1, ChildKind, ResolvedName DEF NetOf
    <3>2. Going /\ frames' = Advance
      BY <1>b, <2>1, <2>3, <3>1 DEF Going, Walk, Places
    <3> QED
      BY <1>4, <2>1, <3>2
  <2> QED
    BY <2>1, <2>2, <2>3
<1>7. ASSUME Finish PROVE Walk'
  BY <1>7 DEF Finish, Walk, Activation, Modules
<1>8. CASE UNCHANGED vars
  BY <1>8 DEF vars, Walk, Activation, Modules
<1> QED
  BY <1>1, <1>2, <1>3, <1>5, <1>6, <1>7, <1>8 DEF Next

-----------------------------------------------------------------------------
(* Adding the pins of an instance.                                         *)
Added(S, n) == {Path \o p : p \in {q \in S : NetOf(q) = n}}

LEMMA AttachEntry ==
  ASSUME NEW f, NEW S, NEW n
  PROVE  /\ DOMAIN Attach(f, S) = DOMAIN f \cup {NetOf(p) : p \in S}
         /\ Entry(Attach(f, S), n) = Entry(f, n) \cup Added(S, n)
<1>1. DOMAIN Attach(f, S) = DOMAIN f \cup {NetOf(p) : p \in S}
  BY DEF Attach
<1>2. CASE n \in DOMAIN f \cup {NetOf(p) : p \in S}
  <2>1. Attach(f, S)[n] = (IF n \in DOMAIN f THEN f[n] ELSE {})
                            \cup Added(S, n)
    BY <1>2 DEF Attach, Added
  <2> QED
    BY <1>1, <1>2, <2>1 DEF Entry
<1>3. CASE n \notin DOMAIN f \cup {NetOf(p) : p \in S}
  <2>1. Added(S, n) = {}
    BY <1>3 DEF Added
  <2> QED
    BY <1>1, <1>3, <2>1 DEF Entry
<1> QED
  BY <1>1, <1>2, <1>3

(* The pins of the instance at hand.                                       *)
LEMMA GivenKind ==
  ASSUME Walk, PlainPins, frames # <<>>, F.next \in DOMAIN M.children,
         Child.type \notin DOMAIN Modules
  PROVE  /\ Path \in Name /\ Given \subseteq Name /\ Signals \subseteq Given
         /\ \A p \in Given : Len(p) = 1
         /\ \A p \in Given : Direction(p) \in {"input", "output", "inout", "unknown"}
         /\ \A p \in Signals : NetOf(p) \in Name
         /\ \A p \in Given \ Signals : NetOf(p) = NoSignal
<1>1. /\ Path \in Name /\ Given \subseteq Name /\ Child.type \in DOMAIN Cells
      /\ F.type \in DOMAIN Modules /\ netlist \in Netlists
  BY AtWork, ChildKind DEF Given, Walk
<1>2. \A p \in Given : Len(p) = 1
  BY <1>1 DEF PlainPins, Given, Child, M, Modules
<1>3. \A p \in Signals : NetOf(p) \in Name
  BY ChildKind, ResolvedName DEF NetOf
<1>4. \A p \in Given : Direction(p) \in {"input", "output", "inout", "unknown"}
  <2>1. Cell(Cells[Child.type])
    BY <1>1, ElaborationConstants
  <2> QED
    BY <2>1 DEF Cell, Direction, Directions
<1> QED
  BY <1>1, <1>2, <1>3, <1>4 DEF Signals, Given, NetOf

PinsAdded ==
  /\ DOMAIN pins' = DOMAIN pins \cup {Path \o p : p \in Given}
  /\ \A path \in DOMAIN pins : pins'[path] = pins[path]
  /\ \A p \in Given : Path \o p \notin DOMAIN pins /\ pins'[Path \o p] = Built[p]
  /\ DOMAIN instances' = DOMAIN instances \cup {Path}
  /\ \A i \in DOMAIN instances : instances'[i] = instances[i]
  /\ instances'[Path] = [type |-> Child.type, pins |-> Built, sequential |-> CellOf.sequential]

LEMMA PlacesPins ==
  ASSUME Walk, PlainPins, frames # <<>>, F.next \in DOMAIN M.children,
         Child.type \notin DOMAIN Modules, Path \notin DOMAIN instances, Tables, Places
  PROVE  PinsAdded
<1>1. Path \in Name /\ Given \subseteq Name /\ \A p \in Given : Len(p) = 1
  BY GivenKind
<1> DEFINE new == [path \in {Path \o p : p \in Given} |->
                     Built[CHOOSE p \in Given : Path \o p = path]]
<1>2. pins' = Override(pins, new)
  BY DEF Places
<1>3. \A p \in Given : new[Path \o p] = Built[p]
  <2> SUFFICES ASSUME NEW p \in Given PROVE new[Path \o p] = Built[p]
    OBVIOUS
  <2> DEFINE q == CHOOSE r \in Given : Path \o r = Path \o p
  <2>1. q \in Given /\ Path \o q = Path \o p
    OBVIOUS
  <2>2. new[Path \o p] = Built[q]
    OBVIOUS
  <2> HIDE DEF q, new
  <2>3. q = p
    BY <1>1, <2>1, SameEnd DEF Name
  <2> QED
    BY <2>2, <2>3
<1>4. DOMAIN new = {Path \o p : p \in Given}
  OBVIOUS
<1>5. ASSUME NEW path \in DOMAIN pins, NEW p \in Given
      PROVE  path # Path \o p
  <2>1. PinOf(path, pins[path])
    BY DEF Tables, PinsAgree
  <2> DEFINE i == pins[path].instance  n == pins[path].name
  <2>2. i \in DOMAIN instances /\ n \in DOMAIN instances[i].pins /\ path = i \o n
    BY <2>1 DEF PinOf
  <2>3. i \in Name /\ n \in Name /\ Len(n) = 1
    BY <2>2 DEF Tables, PinsAgree
  <2> HIDE DEF i, n
  <2>4. path = Path \o p => i = Path
    BY <1>1, <2>2, <2>3, SameStart DEF Name
  <2> QED
    BY <2>2, <2>4
<1> HIDE DEF new
<1>6. /\ DOMAIN pins' = DOMAIN pins \cup {Path \o p : p \in Given}
      /\ \A path \in DOMAIN pins : pins'[path] = pins[path]
      /\ \A p \in Given : Path \o p \notin DOMAIN pins /\ pins'[Path \o p] = Built[p]
  <2>1. /\ DOMAIN pins' = DOMAIN pins \cup DOMAIN new
        /\ \A x \in DOMAIN new : pins'[x] = new[x]
        /\ \A x \in DOMAIN pins : x \notin DOMAIN new => pins'[x] = pins[x]
    BY <1>2 DEF Override
  <2> QED
    BY <1>3, <1>4, <1>5, <2>1
<1> DEFINE one == [path \in {Path} |->
                     [type |-> Child.type, pins |-> Built, sequential |-> CellOf.sequential]]
<1>7. instances' = Override(instances, one)
  BY DEF Places
<1>8. /\ DOMAIN one = {Path}
      /\ one[Path] = [type |-> Child.type, pins |-> Built, sequential |-> CellOf.sequential]
  OBVIOUS
<1> HIDE DEF one
<1>9. /\ DOMAIN instances' = DOMAIN instances \cup {Path}
      /\ \A i \in DOMAIN instances : instances'[i] = instances[i]
      /\ instances'[Path] = [type |-> Child.type, pins |-> Built, sequential |-> CellOf.sequential]
  <2>1. /\ DOMAIN instances' = DOMAIN instances \cup DOMAIN one
        /\ \A x \in DOMAIN one : instances'[x] = one[x]
        /\ \A x \in DOMAIN instances : x \notin DOMAIN one => instances'[x] = instances[x]
    BY <1>7 DEF Override
  <2> QED
    BY <1>8, <2>1
<1> QED
  BY <1>6, <1>9 DEF PinsAdded

LEMMA PinsStillAgree ==
  ASSUME Walk, PlainPins, frames # <<>>, F.next \in DOMAIN M.children,
         Child.type \notin DOMAIN Modules, Path \notin DOMAIN instances, Tables, Places
  PROVE  PinsAgree'
<1>1. PinsAdded /\ PinsAgree
  BY PlacesPins DEF Tables
<1>2. /\ Path \in Name /\ Given \subseteq Name /\ Signals \subseteq Given
      /\ \A p \in Given : Len(p) = 1
      /\ \A p \in Given : Direction(p) \in {"input", "output", "inout", "unknown"}
      /\ \A p \in Given \ Signals : NetOf(p) = NoSignal
  BY GivenKind
<1>3. nets' = nets \cup {NetOf(p) : p \in Signals}
  BY DEF Places
<1>4. \A p \in Given : NetOf(p) \in nets' \cup {NoSignal}
  BY <1>2, <1>3
<1>5. instances'[Path].pins = Built /\ DOMAIN Built = Given
  BY <1>1 DEF PinsAdded, Built
<1>6. \A p \in Given :
        Built[p] = [instance |-> Path, name |-> p, direction |-> Direction(p), net |-> NetOf(p)]
  BY DEF Built
<1>7. ASSUME NEW path \in DOMAIN pins'
      PROVE  PinOf(path, pins[path])'
  <2>1. CASE path \in DOMAIN pins
    <3>1. PinOf(path, pins[path])
      BY <1>1, <2>1 DEF PinsAgree
    <3>2. pins'[path] = pins[path]
      BY <1>1, <2>1 DEF PinsAdded
    <3>3. \A i \in DOMAIN instances : i \in DOMAIN instances' /\ instances'[i] = instances[i]
      BY <1>1 DEF PinsAdded
    <3> QED
      BY <1>3, <3>1, <3>2, <3>3 DEF PinOf
  <2>2. CASE path \notin DOMAIN pins
    <3>1. PICK p \in Given : path = Path \o p
      BY <1>1, <2>2 DEF PinsAdded
    <3>2. pins'[path] = Built[p] /\ Path \in DOMAIN instances'
      BY <1>1, <3>1 DEF PinsAdded
    <3> DEFINE b == pins'[path]
    <3>3. /\ b.instance = Path /\ b.name = p /\ b.direction = Direction(p)
          /\ b.net = NetOf(p)
      <4>1. b = [instance |-> Path, name |-> p, direction |-> Direction(p), net |-> NetOf(p)]
        BY <1>6, <3>2
      <4> HIDE DEF b
      <4> QED
        BY <4>1
    <3>4. instances'[b.instance].pins = Built /\ b = Built[p]
      BY <1>5, <3>1, <3>2, <3>3
    <3> HIDE DEF b
    <3>5. /\ path = b.instance \o b.name
          /\ b.instance \in DOMAIN instances' /\ b.name \in DOMAIN instances'[b.instance].pins
          /\ b = instances'[b.instance].pins[b.name]
          /\ b.net \in nets' \cup {NoSignal}
          /\ b.direction \in {"input", "output", "inout", "unknown"}
      BY <1>2, <1>4, <1>5, <3>1, <3>2, <3>3, <3>4
    <3> QED
      BY <3>5 DEF PinOf, b
  <2> QED
    BY <2>1, <2>2
<1>8. ASSUME NEW i \in DOMAIN instances'
      PROVE  i \in Name /\ \A p \in DOMAIN instances'[i].pins :
                             p \in Name /\ Len(p) = 1 /\ i \o p \in DOMAIN pins'
  <2>1. CASE i \in DOMAIN instances
    <3>1. instances'[i] = instances[i] /\ DOMAIN pins \subseteq DOMAIN pins'
      BY <1>1, <2>1 DEF PinsAdded
    <3> QED
      BY <1>1, <2>1, <3>1 DEF PinsAgree
  <2>2. CASE i \notin DOMAIN instances
    <3>1. i = Path
      BY <1>1, <2>2 DEF PinsAdded
    <3>2. \A p \in Given : Path \o p \in DOMAIN pins'
      BY <1>1 DEF PinsAdded
    <3> QED
      BY <1>2, <1>5, <3>1, <3>2
  <2> QED
    BY <2>1, <2>2
<1> QED
  BY <1>7, <1>8 DEF PinsAgree

(* The views of a net gain the pins that the instance has on it.           *)
LEMMA ViewsStillAgree ==
  ASSUME Walk, PlainPins, frames # <<>>, F.next \in DOMAIN M.children,
         Child.type \notin DOMAIN Modules, Path \notin DOMAIN instances, Tables, Places,
         done' = done, ports' = ports
  PROVE  ViewsAgree'
<1>1. PinsAdded /\ ~done /\ ~done' /\ nets \subseteq Name /\ NoSignal \notin Name
  BY PlacesPins, ElaborationConstants DEF Walk
<1>2. /\ Path \in Name /\ Signals \subseteq Given
      /\ \A p \in Given : Direction(p) \in {"input", "output", "inout", "unknown"}
      /\ \A p \in Signals : NetOf(p) \in Name
      /\ \A p \in Given \ Signals : NetOf(p) = NoSignal
  BY GivenKind
<1>3. nets' = nets \cup {NetOf(p) : p \in Signals}
  BY DEF Places
<1>4. \A p \in Given : Built[p].net = NetOf(p) /\ Built[p].direction = Direction(p)
  BY DEF Built
<1>5. \A path \in DOMAIN pins : pins[path].net \in nets \cup {NoSignal}
  BY DEF Tables, PinsAgree, PinOf
<1>6. ASSUME NEW n \in nets', NEW dirs
      PROVE  PinsOn(n, dirs)' = (IF n \in nets THEN PinsOn(n, dirs) ELSE {})
                                  \cup Added(Connected(dirs), n)
  <2>1. n # NoSignal
    BY <1>1, <1>2, <1>3
  <2> DEFINE new == {Path \o p : p \in {q \in Signals : NetOf(q) = n /\ Direction(q) \in dirs}}
             old == {path \in DOMAIN pins : pins[path].net = n /\ pins[path].direction \in dirs}
  <2>2. PinsOn(n, dirs)' = {path \in DOMAIN pins' : pins'[path].net = n
                                                   /\ pins'[path].direction \in dirs}
    BY DEF PinsOn
  <2>3. old = IF n \in nets THEN PinsOn(n, dirs) ELSE {}
    <3>1. n \notin nets => old = {}
      BY <1>5, <2>1
    <3> QED
      BY <3>1 DEF PinsOn
  <2>4. ASSUME NEW path \in DOMAIN pins',
               pins'[path].net = n, pins'[path].direction \in dirs
        PROVE  path \in old \cup new
    <3>1. CASE path \in DOMAIN pins
      BY <1>1, <2>4, <3>1 DEF PinsAdded
    <3>2. CASE path \notin DOMAIN pins
      <4>1. PICK p \in Given : path = Path \o p
        BY <1>1, <3>2 DEF PinsAdded
      <4>2. pins'[path] = Built[p]
        BY <1>1, <4>1 DEF PinsAdded
      <4>3. NetOf(p) = n /\ Direction(p) \in dirs
        BY <1>4, <2>4, <4>2
      <4>4. p \in Signals
        BY <1>2, <2>1, <4>3
      <4> QED
        BY <4>1, <4>3, <4>4
    <3> QED
      BY <3>1, <3>2
  <2>5. ASSUME NEW path \in old \cup new
        PROVE  path \in DOMAIN pins' /\ pins'[path].net = n /\ pins'[path].direction \in dirs
    <3>1. CASE path \in old
      BY <1>1, <3>1 DEF PinsAdded
    <3>2. CASE path \in new
      <4>1. PICK p \in Signals : NetOf(p) = n /\ Direction(p) \in dirs /\ path = Path \o p
        BY <3>2
      <4>2. path \in DOMAIN pins' /\ pins'[path] = Built[p]
        BY <1>1, <1>2, <4>1 DEF PinsAdded
      <4> QED
        BY <1>2, <1>4, <4>1, <4>2
    <3> QED
      BY <3>1, <3>2
  <2> HIDE DEF old, new
  <2>6. PinsOn(n, dirs)' = old \cup new
    BY <2>2, <2>4, <2>5
  <2>7. new = Added(Connected(dirs), n)
    BY DEF new, Added, Connected
  <2> QED
    BY <2>3, <2>6, <2>7
<1>7. \A n, dirs : PortsOn(n, dirs) = {} /\ PortsOn(n, dirs)' = {}
  BY <1>1 DEF PortsOn
<1>8. Connected({"output"}) \subseteq Signals
      /\ Connected({"input", "inout", "unknown"}) \subseteq Signals
  BY DEF Connected
<1>9. Signals \ Connected({"output"}) = Connected({"input", "inout", "unknown"})
  BY <1>2 DEF Connected
<1>10. drivers' = Attach(drivers, Connected({"output"}))
       /\ loads' = Attach(loads, Connected({"input", "inout", "unknown"}))
  BY <1>9 DEF Places
<1>11. /\ DOMAIN drivers \subseteq nets /\ DOMAIN loads \subseteq nets
       /\ \A n \in nets :
            /\ Entry(drivers, n) = PinsOn(n, {"output"}) \cup PortsOn(n, {"input", "inout"})
            /\ Entry(loads, n) = PinsOn(n, {"input", "inout", "unknown"})
                                   \cup PortsOn(n, {"output", "unknown"})
  BY DEF Tables, ViewsAgree
<1>12. ASSUME NEW n \in nets'
       PROVE  /\ Entry(drivers', n) = PinsOn(n, {"output"})' \cup PortsOn(n, {"input", "inout"})'
              /\ Entry(loads', n) = PinsOn(n, {"input", "inout", "unknown"})'
                                      \cup PortsOn(n, {"output", "unknown"})'
  <2>1. /\ Entry(drivers', n) = Entry(drivers, n) \cup Added(Connected({"output"}), n)
        /\ Entry(loads', n) = Entry(loads, n)
             \cup Added(Connected({"input", "inout", "unknown"}), n)
    BY <1>10, AttachEntry
  <2>2. /\ Entry(drivers, n) = IF n \in nets THEN PinsOn(n, {"output"}) ELSE {}
        /\ Entry(loads, n) = IF n \in nets THEN PinsOn(n, {"input", "inout", "unknown"}) ELSE {}
    BY <1>7, <1>11 DEF Entry
  <2> QED
    BY <1>6, <1>7, <2>1, <2>2
<1>13. DOMAIN drivers' \subseteq nets' /\ DOMAIN loads' \subseteq nets'
  <2>1. /\ DOMAIN Attach(drivers, Connected({"output"}))
             = DOMAIN drivers \cup {NetOf(p) : p \in Connected({"output"})}
        /\ DOMAIN Attach(loads, Connected({"input", "inout", "unknown"}))
             = DOMAIN loads \cup {NetOf(p) : p \in Connected({"input", "inout", "unknown"})}
    BY AttachEntry
  <2> QED
    BY <1>3, <1>8, <1>10, <1>11, <2>1
<1>14. \A n \in nets' :
         /\ Entry(drivers', n) = PinsOn(n, {"output"})' \cup PortsOn(n, {"input", "inout"})'
         /\ Entry(loads', n) = PinsOn(n, {"input", "inout", "unknown"})'
                                 \cup PortsOn(n, {"output", "unknown"})'
  BY <1>12
<1> QED
  BY <1>13, <1>14 DEF ViewsAgree, Entry

LEMMA ArcsStillInside ==
  ASSUME Walk, PlainPins, frames # <<>>, F.next \in DOMAIN M.children,
         Child.type \notin DOMAIN Modules, Path \notin DOMAIN instances, Tables, Places
  PROVE  ArcsStayInside'
<1>1. PinsAdded /\ ArcsStayInside /\ PinsAgree
  BY PlacesPins DEF Tables
<1>2. Signals \subseteq Given
  BY GivenKind
<1>3. \A p \in Given : Built[p].instance = Path /\ Built[p].direction = Direction(p)
  BY DEF Built
<1>4. instances'[Path].sequential = CellOf.sequential
  BY <1>1 DEF PinsAdded
<1> SUFFICES ASSUME NEW a \in arcs'
             PROVE  /\ a[1] \in DOMAIN pins' /\ a[2] \in DOMAIN pins'
                    /\ pins'[a[1]].instance = pins'[a[2]].instance
                    /\ ~instances'[pins'[a[1]].instance].sequential
                    /\ pins'[a[1]].direction # "output" /\ pins'[a[2]].direction # "input"
  BY DEF ArcsStayInside
<1>5. CASE a \in arcs
  <2>1. /\ a[1] \in DOMAIN pins /\ a[2] \in DOMAIN pins
        /\ pins[a[1]].instance = pins[a[2]].instance
        /\ ~instances[pins[a[1]].instance].sequential
        /\ pins[a[1]].direction # "output" /\ pins[a[2]].direction # "input"
    BY <1>1, <1>5 DEF ArcsStayInside
  <2>2. /\ pins'[a[1]] = pins[a[1]] /\ pins'[a[2]] = pins[a[2]]
        /\ a[1] \in DOMAIN pins' /\ a[2] \in DOMAIN pins'
    BY <1>1, <2>1 DEF PinsAdded
  <2>3. pins[a[1]].instance \in DOMAIN instances
    BY <1>1, <2>1 DEF PinsAgree, PinOf
  <2>4. instances'[pins[a[1]].instance] = instances[pins[a[1]].instance]
    BY <1>1, <2>3 DEF PinsAdded
  <2> QED
    BY <2>1, <2>2, <2>4
<1>6. CASE a \notin arcs
  <2>1. ~CellOf.sequential
    BY <1>6 DEF Places
  <2>2. PICK i \in Connected({"input", "inout"}), o \in Connected({"output", "inout"}) :
          a = <<Path \o i, Path \o o>>
    BY <1>6 DEF Places
  <2>3. /\ i \in Given /\ o \in Given
        /\ Direction(i) \in {"input", "inout"} /\ Direction(o) \in {"output", "inout"}
    BY <1>2 DEF Connected
  <2>4. a[1] = Path \o i /\ a[2] = Path \o o
    BY <2>2
  <2>5. /\ a[1] \in DOMAIN pins' /\ a[2] \in DOMAIN pins'
        /\ pins'[a[1]] = Built[i] /\ pins'[a[2]] = Built[o]
    BY <1>1, <2>3, <2>4 DEF PinsAdded
  <2> QED
    BY <1>3, <1>4, <2>1, <2>3, <2>5
<1> QED
  BY <1>5, <1>6

(* When the top is opened, its ports move to the roots of their nets.      *)
LEMMA PortsStillPlaced ==
  ASSUME Walk, frames # <<>>, Opens, PortsPlaced, netlist' = netlist
  PROVE  PortsPlaced'
<1>1. Top' = Top
  BY DEF Top, Modules
<1>2. CASE F.prefix # <<>>
  BY <1>1, <1>2 DEF Opens, PortsPlaced
<1>3. CASE F.prefix = <<>>
  <2>1. Placed(F, Len(frames), netlist, nets) /\ Module(M)
    BY AtWork
  <2>2. M = Top
    BY <1>3, <2>1 DEF Placed, M, Top
  <2>3. \A p \in DOMAIN ports : p \in M.nets
    BY <2>1, <2>2 DEF PortsPlaced, Module
  <2>4. \A p \in DOMAIN ports : Joined[p] \in nets'
    BY <2>3, JoinedKind DEF Opens
  <2>5. ports' = [p \in DOMAIN ports |-> [ports[p] EXCEPT !.net = Joined[p]]]
    BY <1>3 DEF Opens
  <2>6. \A p \in DOMAIN ports : DOMAIN ports[p] = {"direction", "net"}
    BY DEF PortsPlaced
  <2>7. \A p \in DOMAIN ports :
          ports'[p].net = Joined[p] /\ DOMAIN ports'[p] = {"direction", "net"}
    BY <2>5, <2>6
  <2>8. DOMAIN ports' = DOMAIN ports
    BY <2>5
  <2> QED
    BY <1>1, <2>4, <2>7, <2>8 DEF PortsPlaced
<1> QED
  BY <1>2, <1>3

(* Where the pins stay as they are, more nets do not matter.               *)
LEMMA TablesKept ==
  ASSUME Walk, Tables, ~done, done' = done, UNCHANGED index, PortsPlaced',
         nets \subseteq nets', nets' \subseteq Name
  PROVE  Tables'
<1>1. /\ pins' = pins /\ instances' = instances /\ drivers' = drivers /\ loads' = loads
      /\ arcs' = arcs
  BY DEF index
<1>2. PinsAgree'
  BY <1>1 DEF Tables, PinsAgree, PinOf
<1>3. ArcsStayInside'
  BY <1>1 DEF Tables, ArcsStayInside
<1>4. \A n, dirs : PortsOn(n, dirs) = {} /\ PortsOn(n, dirs)' = {}
  BY DEF PortsOn
<1>5. \A n, dirs : PinsOn(n, dirs)' = PinsOn(n, dirs)
  BY <1>1 DEF PinsOn
<1>6. ASSUME NEW n \in nets', n \notin nets, NEW dirs
      PROVE  PinsOn(n, dirs) = {}
  <2>1. n # NoSignal
    BY <1>6, ElaborationConstants
  <2>2. \A path \in DOMAIN pins : pins[path].net \in nets \cup {NoSignal}
    BY DEF Tables, PinsAgree, PinOf
  <2> QED
    BY <1>6, <2>1, <2>2 DEF PinsOn
<1>7. \A n \in nets' \ nets : Entry(drivers, n) = {} /\ Entry(loads, n) = {}
  BY DEF Tables, ViewsAgree, Entry
<1>8. \A n \in nets' :
        /\ Entry(drivers, n) = PinsOn(n, {"output"})
        /\ Entry(loads, n) = PinsOn(n, {"input", "inout", "unknown"})
  BY <1>4, <1>6, <1>7 DEF Tables, ViewsAgree
<1>9. \A n \in nets' :
        /\ Entry(drivers', n) = PinsOn(n, {"output"})' \cup PortsOn(n, {"input", "inout"})'
        /\ Entry(loads', n) = PinsOn(n, {"input", "inout", "unknown"})'
                                \cup PortsOn(n, {"output", "unknown"})'
  BY <1>1, <1>4, <1>5, <1>8
<1>10. DOMAIN drivers' \cup DOMAIN loads' \subseteq nets'
  BY <1>1 DEF Tables, ViewsAgree
<1> QED
  BY <1>2, <1>3, <1>9, <1>10 DEF Tables, ViewsAgree, Entry

(* At last the ports are added, on the nets they have by then.             *)
LEMMA FinishTables ==
  ASSUME Walk, Tables, Finish
  PROVE  Tables'
<1>1. /\ ~done /\ done' /\ pins' = pins /\ instances' = instances /\ arcs' = arcs
      /\ ports' = ports /\ nets' = nets /\ netlist' = netlist
  BY DEF Finish
<1>2. PinsAgree' /\ ArcsStayInside' /\ PortsPlaced'
  BY <1>1 DEF Tables, PinsAgree, PinOf, ArcsStayInside, PortsPlaced, Top, Modules
<1> DEFINE netOf == [p \in DOMAIN ports |-> ports[p].net]
<1>3. /\ drivers' = AddPorts(drivers, {"input", "inout"}, netOf)
      /\ loads' = AddPorts(loads, {"output", "unknown"}, netOf)
  BY DEF Finish
<1>4. \A n, dirs : PortsOn(n, dirs) = {} /\ PinsOn(n, dirs)' = PinsOn(n, dirs)
  BY <1>1 DEF PortsOn, PinsOn
<1>5. \A p \in DOMAIN ports : ports[p].net \in nets
  BY DEF Tables, PortsPlaced
<1>6. ASSUME NEW f, NEW dirs
      PROVE  /\ DOMAIN f \subseteq nets => DOMAIN AddPorts(f, dirs, netOf) \subseteq nets
             /\ \A n \in nets :
                  Entry(AddPorts(f, dirs, netOf), n) = Entry(f, n) \cup PortsOn(n, dirs)'
  <2> DEFINE P == {p \in DOMAIN ports : ports[p].direction \in dirs}
             g == AddPorts(f, dirs, netOf)
  <2>1. g = [n \in DOMAIN f \cup {netOf[p] : p \in P} |->
               (IF n \in DOMAIN f THEN f[n] ELSE {}) \cup {p \in P : netOf[p] = n}]
    BY DEF AddPorts
  <2>2. \A p \in P : netOf[p] = ports[p].net /\ netOf[p] \in nets
    BY <1>5
  <2>3. \A n : PortsOn(n, dirs)' = {p \in P : netOf[p] = n}
    BY <1>1 DEF PortsOn
  <2> HIDE DEF P, g, netOf
  <2>4. DOMAIN g = DOMAIN f \cup {netOf[p] : p \in P}
    BY <2>1
  <2>5. ASSUME NEW n \in nets PROVE Entry(g, n) = Entry(f, n) \cup {p \in P : netOf[p] = n}
    <3>1. CASE n \in DOMAIN g
      BY <2>1, <2>4, <3>1 DEF Entry
    <3>2. CASE n \notin DOMAIN g
      <4>1. {p \in P : netOf[p] = n} = {} /\ n \notin DOMAIN f
        BY <2>4, <3>2
      <4> QED
        BY <3>2, <4>1 DEF Entry
    <3> QED
      BY <3>1, <3>2
  <2>6. DOMAIN f \subseteq nets => DOMAIN g \subseteq nets
    BY <2>2, <2>4
  <2> QED
    BY <2>3, <2>5, <2>6 DEF g
<1> HIDE DEF netOf
<1>7. /\ DOMAIN drivers \cup DOMAIN loads \subseteq nets
      /\ \A n \in nets : /\ Entry(drivers, n) = PinsOn(n, {"output"})
                         /\ Entry(loads, n) = PinsOn(n, {"input", "inout", "unknown"})
  BY <1>4 DEF Tables, ViewsAgree
<1>8. DOMAIN drivers' \cup DOMAIN loads' \subseteq nets'
  BY <1>1, <1>3, <1>6, <1>7
<1>9. \A n \in nets' :
        /\ Entry(drivers', n) = PinsOn(n, {"output"})' \cup PortsOn(n, {"input", "inout"})'
        /\ Entry(loads', n) = PinsOn(n, {"input", "inout", "unknown"})'
                                \cup PortsOn(n, {"output", "unknown"})'
  BY <1>1, <1>3, <1>4, <1>6, <1>7
<1> QED
  BY <1>2, <1>8, <1>9 DEF Tables, ViewsAgree, Entry

-----------------------------------------------------------------------------
LEMMA TablesInit == Init => Tables
<1> SUFFICES ASSUME Init PROVE Tables
  OBVIOUS
<1>1. Module(Top)
  BY ElaborationConstants DEF Init, Netlist, Top, Modules
<1>2. /\ ports = [p \in DOMAIN Top.direction |-> [direction |-> Top.direction[p], net |-> p]]
      /\ nets = Top.nets /\ DOMAIN instances = {} /\ DOMAIN pins = {}
      /\ DOMAIN drivers = {} /\ DOMAIN loads = {} /\ arcs = {} /\ ~done
  BY DEF Init, Empty
<1>3. PortsPlaced
  BY <1>1, <1>2 DEF PortsPlaced, Module
<1>4. PinsAgree /\ ArcsStayInside
  BY <1>2 DEF PinsAgree, ArcsStayInside
<1>5. \A n, dirs : PinsOn(n, dirs) = {} /\ PortsOn(n, dirs) = {}
  BY <1>2 DEF PinsOn, PortsOn
<1>6. ViewsAgree
  BY <1>2, <1>5 DEF ViewsAgree, Entry
<1> QED
  BY <1>3, <1>4, <1>6 DEF Tables

LEMMA TablesNext == PlainPins /\ Walk /\ Tables /\ [Next]_vars => Tables'
<1> SUFFICES ASSUME PlainPins, Walk, Tables, [Next]_vars PROVE Tables'
  OBVIOUS
<1>1. Walk'
  BY WalkNext
<1>2. frames # <<>> => ~done
  BY DEF Walk
<1>3. nets' \subseteq Name
  BY <1>1 DEF Walk
<1>4. ASSUME ports' = ports, nets \subseteq nets', netlist' = netlist PROVE PortsPlaced'
  BY <1>4 DEF Tables, PortsPlaced, Top, Modules
<1>5. ASSUME EnterModule PROVE Tables'
  <2>1. /\ frames # <<>> /\ done' = done /\ netlist' = netlist /\ UNCHANGED index
        /\ \/ nets' = nets /\ ports' = ports
           \/ Opens
    BY <1>5, EnterModuleIs
  <2>2. nets \subseteq nets' /\ PortsPlaced'
    BY <1>4, <2>1, PortsStillPlaced DEF Opens, Tables
  <2> QED
    BY <1>2, <1>3, <2>1, <2>2, TablesKept
<1>6. ASSUME LeaveModule \/ EnterChild \/ Collide PROVE Tables'
  <2>1. /\ frames # <<>> /\ done' = done /\ netlist' = netlist /\ UNCHANGED index
        /\ nets' = nets /\ ports' = ports
    BY <1>6 DEF LeaveModule, EnterChild, Collide, AtLeaf
  <2>2. nets \subseteq nets' /\ PortsPlaced'
    BY <1>4, <2>1
  <2> QED
    BY <1>2, <1>3, <2>1, <2>2, TablesKept
<1>7. ASSUME PlaceLeaf PROVE Tables'
  <2>1. /\ frames # <<>> /\ F.next \in DOMAIN M.children /\ Child.type \notin DOMAIN Modules
        /\ Path \notin DOMAIN instances
        /\ netlist' = netlist /\ ports' = ports /\ done' = done
        /\ \/ nets' = nets /\ UNCHANGED index
           \/ Places
    BY <1>7, PlaceLeafIs
  <2>2. nets \subseteq nets' /\ PortsPlaced'
    BY <1>4, <2>1 DEF Places
  <2>3. CASE UNCHANGED index
    BY <1>2, <1>3, <2>1, <2>2, <2>3, TablesKept
  <2>4. CASE Places
    BY <2>1, <2>2, <2>4, PinsStillAgree, ViewsStillAgree, ArcsStillInside DEF Tables
  <2> QED
    BY <2>1, <2>3, <2>4
<1>8. ASSUME Finish PROVE Tables'
  BY <1>8, FinishTables
<1>9. CASE UNCHANGED vars
  BY <1>9 DEF vars, Tables, PortsPlaced, PinsAgree, PinOf, ViewsAgree, ArcsStayInside, PinsOn,
              PortsOn, Top, Modules, Entry
<1> QED
  BY <1>5, <1>6, <1>7, <1>8, <1>9 DEF Next

LEMMA IndexAlways ==
  ASSUME PlainPins
  PROVE  Spec => []IndexInv
<1>1. Init => IndexInv
  BY WalkInit, TablesInit DEF IndexInv
<1>2. IndexInv /\ [Next]_vars => IndexInv'
  BY WalkNext, TablesNext DEF IndexInv
<1> QED
  BY <1>1, <1>2, PTL DEF Spec

(* The tables of the index are views of one design, however far an         *)
(* elaboration came: the drivers and loads of a net are the pins and ports *)
(* that are on it after all renaming, and arcs stay within a cell.         *)
THEOREM IndexIsConsistent ==
  ASSUME PlainPins
  PROVE  Spec => []IndexConsistent
<1>1. IndexInv => IndexConsistent
  <2> SUFFICES ASSUME IndexInv, done PROVE IndexConsistent
    BY DEF IndexConsistent
  <2>1. PinsAgree /\ ViewsAgree /\ ArcsStayInside
    BY DEF IndexInv, Tables
  <2>2. /\ \A path \in DOMAIN pins :
             pins[path] = instances[pins[path].instance].pins[pins[path].name]
        /\ \A i \in DOMAIN instances : \A p \in DOMAIN instances[i].pins : i \o p \in DOMAIN pins
    BY <2>1 DEF PinsAgree, PinOf
  <2>3. ASSUME NEW n \in nets
        PROVE  /\ (IF n \in DOMAIN drivers THEN drivers[n] ELSE {})
                    = {path \in DOMAIN pins : pins[path].net = n
                                              /\ pins[path].direction \in {"output"}}
                      \cup {p \in DOMAIN ports : ports[p].net = n
                                                 /\ ports[p].direction \in {"input", "inout"}}
               /\ (IF n \in DOMAIN loads THEN loads[n] ELSE {})
                    = {path \in DOMAIN pins : pins[path].net = n
                         /\ pins[path].direction \in {"input", "inout", "unknown"}}
                      \cup {p \in DOMAIN ports : ports[p].net = n
                                                 /\ ports[p].direction \in {"output", "unknown"}}
    <3>1. /\ Entry(drivers, n) = PinsOn(n, {"output"}) \cup PortsOn(n, {"input", "inout"})
          /\ Entry(loads, n) = PinsOn(n, {"input", "inout", "unknown"})
                                 \cup PortsOn(n, {"output", "unknown"})
      BY <2>1 DEF ViewsAgree
    <3>2. PinsOn(n, {"output"})
            = {path \in DOMAIN pins : pins[path].net = n /\ pins[path].direction \in {"output"}}
      BY DEF PinsOn
    <3>3. PinsOn(n, {"input", "inout", "unknown"})
            = {path \in DOMAIN pins : pins[path].net = n
                 /\ pins[path].direction \in {"input", "inout", "unknown"}}
      BY DEF PinsOn
    <3>4. PortsOn(n, {"input", "inout"})
            = {p \in DOMAIN ports : ports[p].net = n
                                    /\ ports[p].direction \in {"input", "inout"}}
      BY DEF PortsOn
    <3>5. PortsOn(n, {"output", "unknown"})
            = {p \in DOMAIN ports : ports[p].net = n /\ ports[p].direction \in {"output", "unknown"}}
      BY DEF PortsOn
    <3> QED
      BY <3>1, <3>2, <3>3, <3>4, <3>5 DEF Entry
  <2>4. DOMAIN drivers \cup DOMAIN loads \subseteq nets
    BY <2>1 DEF ViewsAgree
  <2>5. \A a \in arcs :
          /\ pins[a[1]].instance = pins[a[2]].instance
          /\ ~instances[pins[a[1]].instance].sequential
          /\ pins[a[1]].direction # "output" /\ pins[a[2]].direction # "input"
    BY <2>1 DEF ArcsStayInside
  <2> QED
    BY <2>2, <2>3, <2>4, <2>5 DEF IndexConsistent
<1> QED
  BY <1>1, IndexAlways, PTL

-----------------------------------------------------------------------------
(* Merged is the partition that the edges generate: it joins the ends of   *)
(* each edge, and keeps apart what any function does that is constant      *)
(* along the edges.                                                        *)
Respects(f, edges) == \A e \in edges : f[e[1]] = f[e[2]]

Linked(edges, x, y) == \A f : Respects(f, edges) => f[x] = f[y]

Lefts(left, edges) ==
  left = [i \in 0..Cardinality(edges) |->
            IF i = 0 THEN edges ELSE left[i - 1] \ {CHOOSE e \in left[i - 1] : TRUE}]

LEMMA LeftsExist ==
  ASSUME NEW edges, IsFiniteSet(edges)
  PROVE  \E left : Lefts(left, edges)
<1> DEFINE n == Cardinality(edges)
           V == SUBSET edges
           step == [i \in 1..n |-> [S \in V |-> S \ {CHOOSE e \in S : TRUE}]]
<1>1. n \in Nat
  BY FS_CardinalityType
<1>2. step \in [1..n -> [V -> V]] /\ edges \in V
  OBVIOUS
<1>3. PICK f \in [0..n -> V] : Follows(f, edges, step, n)
  <2> HIDE DEF n, V, step
  <2> QED
    BY <1>1, <1>2, StepsExist
<1>4. ASSUME NEW i \in 0..n
      PROVE  f[i] = IF i = 0 THEN edges ELSE f[i - 1] \ {CHOOSE e \in f[i - 1] : TRUE}
  <2>1. f[i] = IF i = 0 THEN edges ELSE step[i][f[i - 1]]
    BY <1>3 DEF Follows
  <2>2. i # 0 => i \in 1..n /\ i - 1 \in 0..n
    BY <1>1
  <2>3. i # 0 => f[i - 1] \in V
    BY <1>3, <2>2
  <2>4. i # 0 => step[i][f[i - 1]] = f[i - 1] \ {CHOOSE e \in f[i - 1] : TRUE}
    BY <2>2, <2>3
  <2> HIDE DEF step
  <2> QED
    BY <2>1, <2>4
<1>5. f = [i \in 0..n |-> IF i = 0 THEN edges ELSE f[i - 1] \ {CHOOSE e \in f[i - 1] : TRUE}]
  BY <1>3, <1>4
<1> QED
  BY <1>5 DEF Lefts

(* One edge is taken at a time, so after as many steps none is left.       *)
LEMMA LeftsShrink ==
  ASSUME NEW edges, IsFiniteSet(edges), NEW left, Lefts(left, edges)
  PROVE  \A i \in 0..Cardinality(edges) :
           /\ left[i] \subseteq edges /\ IsFiniteSet(left[i])
           /\ Cardinality(left[i]) = Cardinality(edges) - i
<1> DEFINE n == Cardinality(edges)
           P(i) == /\ left[i] \subseteq edges /\ IsFiniteSet(left[i])
                   /\ Cardinality(left[i]) = n - i
           G == {i \in Nat : i <= n => P(i)}
<1>1. n \in Nat
  BY FS_CardinalityType
<1>2. ASSUME NEW i \in 0..n
      PROVE  left[i] = IF i = 0 THEN edges
                       ELSE left[i - 1] \ {CHOOSE e \in left[i - 1] : TRUE}
  BY DEF Lefts
<1>3. 0 \in G
  <2>1. left[0] = edges
    <3>1. 0 \in 0..n
      BY <1>1
    <3> HIDE DEF n
    <3> QED
      BY <1>2, <3>1
  <2> QED
    BY <1>1, <2>1
<1>4. ASSUME NEW k \in Nat, k \in G PROVE k + 1 \in G
  <2> SUFFICES ASSUME k + 1 <= n PROVE P(k + 1)
    OBVIOUS
  <2>1. k + 1 \in 0..n /\ k + 1 # 0 /\ (k + 1) - 1 = k /\ k <= n
    BY <1>1
  <2>2. P(k)
    BY <1>4, <2>1
  <2>3. left[k + 1] = left[k] \ {CHOOSE e \in left[k] : TRUE}
    <3> HIDE DEF n
    <3>1. left[k + 1] = IF k + 1 = 0 THEN edges
                        ELSE left[(k + 1) - 1] \ {CHOOSE e \in left[(k + 1) - 1] : TRUE}
      BY <1>2, <2>1
    <3> QED
      BY <2>1, <3>1
  <2>4. left[k] # {}
    <3>1. Cardinality(left[k]) > 0
      BY <1>1, <2>1, <2>2
    <3> QED
      BY <3>1, FS_EmptySet
  <2>5. (CHOOSE e \in left[k] : TRUE) \in left[k]
    BY <2>4
  <2>6. /\ IsFiniteSet(left[k + 1]) /\ Cardinality(left[k + 1]) = Cardinality(left[k]) - 1
    BY <2>2, <2>3, <2>5, FS_RemoveElement
  <2> QED
    BY <1>1, <2>2, <2>3, <2>6
<1> HIDE DEF G
<1>5. Nat \subseteq G
  BY <1>3, <1>4, Naturals
<1>6. \A i \in 0..n : P(i)
  BY <1>1, <1>5 DEF G
<1> QED
  BY <1>6

Classes(class, left, nodes, edges) ==
  class = [i \in 0..Cardinality(edges) |->
             IF i = 0 THEN [n \in nodes |-> n]
             ELSE Unite(nodes, class[i - 1], CHOOSE e \in left[i - 1] : TRUE)]

Ends(edges, nodes) == \A e \in edges : e[1] \in nodes /\ e[2] \in nodes

LEMMA Picked ==
  ASSUME NEW edges, IsFiniteSet(edges), NEW left, Lefts(left, edges),
         NEW i \in 1..Cardinality(edges)
  PROVE  /\ (CHOOSE e \in left[i - 1] : TRUE) \in left[i - 1]
         /\ left[i - 1] \subseteq edges
         /\ left[i] = left[i - 1] \ {CHOOSE e \in left[i - 1] : TRUE}
<1>1. Cardinality(edges) \in Nat
  BY FS_CardinalityType
<1>2. i - 1 \in 0..Cardinality(edges) /\ i \in 0..Cardinality(edges) /\ i # 0
  BY <1>1
<1>3. /\ left[i - 1] \subseteq edges /\ Cardinality(left[i - 1]) = Cardinality(edges) - (i - 1)
  BY <1>2, LeftsShrink
<1>4. Cardinality(left[i - 1]) > 0
  BY <1>1, <1>3
<1>5. left[i - 1] # {}
  BY <1>4, FS_EmptySet
<1>6. left[i] = IF i = 0 THEN edges ELSE left[i - 1] \ {CHOOSE e \in left[i - 1] : TRUE}
  BY <1>2 DEF Lefts
<1> QED
  BY <1>2, <1>3, <1>5, <1>6

LEMMA ClassesExist ==
  ASSUME NEW nodes, NEW edges, IsFiniteSet(edges), Ends(edges, nodes),
         NEW left, Lefts(left, edges)
  PROVE  \E class : Classes(class, left, nodes, edges)
<1> DEFINE n == Cardinality(edges)
           V == [nodes -> nodes]
           at(i) == CHOOSE e \in left[i - 1] : TRUE
           step == [i \in 1..n |-> [c \in V |-> Unite(nodes, c, at(i))]]
           start == [x \in nodes |-> x]
<1>1. n \in Nat
  BY FS_CardinalityType
<1>2. step \in [1..n -> [V -> V]] /\ start \in V
  <2>1. ASSUME NEW i \in 1..n, NEW c \in V PROVE Unite(nodes, c, at(i)) \in V
    <3>1. at(i) \in edges
      BY Picked
    <3>2. at(i)[2] \in nodes
      BY <3>1 DEF Ends
    <3> HIDE DEF at
    <3> QED
      BY <3>2 DEF Unite
  <2> HIDE DEF at
  <2> QED
    BY <2>1
<1>3. PICK f \in [0..n -> V] : Follows(f, start, step, n)
  <2> HIDE DEF n, V, step, start
  <2> QED
    BY <1>1, <1>2, StepsExist
<1>4. ASSUME NEW i \in 0..n
      PROVE  f[i] = IF i = 0 THEN start ELSE Unite(nodes, f[i - 1], at(i))
  <2>1. f[i] = IF i = 0 THEN start ELSE step[i][f[i - 1]]
    BY <1>3 DEF Follows
  <2>2. i # 0 => i \in 1..n /\ i - 1 \in 0..n
    BY <1>1
  <2>3. i # 0 => f[i - 1] \in V
    BY <1>3, <2>2
  <2>4. i # 0 => step[i][f[i - 1]] = Unite(nodes, f[i - 1], at(i))
    BY <2>2, <2>3
  <2> HIDE DEF step, at, start
  <2> QED
    BY <2>1, <2>4
<1>5. f = [i \in 0..n |-> IF i = 0 THEN start ELSE Unite(nodes, f[i - 1], at(i))]
  BY <1>3, <1>4
<1> QED
  BY <1>5 DEF Classes

LEMMA MergedPartition ==
  ASSUME NEW nodes, NEW edges, IsFiniteSet(edges), Ends(edges, nodes)
  PROVE  /\ Respects(Merged(nodes, edges), edges)
         /\ \A x, y \in nodes :
              Merged(nodes, edges)[x] = Merged(nodes, edges)[y] => Linked(edges, x, y)
<1> DEFINE n == Cardinality(edges)
           left == CHOOSE f : Lefts(f, edges)
           class == CHOOSE f : Classes(f, left, nodes, edges)
<1>1. n \in Nat
  BY FS_CardinalityType
<1>2. Lefts(left, edges)
  BY LeftsExist
<1>3. Classes(class, left, nodes, edges)
  <2> HIDE DEF left
  <2> QED
    BY <1>2, ClassesExist
<1>4. Merged(nodes, edges) = class[n]
  BY DEF Merged, Lefts, Classes
<1> HIDE DEF left, class
<1> DEFINE P(i) == /\ class[i] \in [nodes -> nodes]
                   /\ \A e \in edges : e \notin left[i] => class[i][e[1]] = class[i][e[2]]
                   /\ \A x \in nodes : Linked(edges, x, class[i][x])
           G == {i \in Nat : i <= n => P(i)}
<1>5. class[0] = [x \in nodes |-> x] /\ left[0] = edges
  BY <1>1, <1>2, <1>3 DEF Lefts, Classes
<1>6. 0 \in G
  BY <1>5 DEF Linked
<1>7. ASSUME NEW k \in Nat, k \in G PROVE k + 1 \in G
  <2> SUFFICES ASSUME k + 1 <= n PROVE P(k + 1)
    OBVIOUS
  <2>1. k + 1 \in 1..n /\ (k + 1) - 1 = k /\ k <= n /\ k + 1 \in 0..n /\ k + 1 # 0
    BY <1>1
  <2> DEFINE e == CHOOSE e0 \in left[k] : TRUE
             c == class[k]
             d == class[k + 1]
  <2>2. e \in left[k] /\ left[k] \subseteq edges /\ left[k + 1] = left[k] \ {e}
    BY <1>2, <2>1, Picked
  <2>3. d = Unite(nodes, c, e)
    BY <1>3, <2>1 DEF Classes
  <2>4. P(k)
    BY <1>7, <2>1
  <2>5. /\ c \in [nodes -> nodes]
        /\ \A w \in edges : w \notin left[k] => c[w[1]] = c[w[2]]
        /\ \A x \in nodes : Linked(edges, x, c[x])
    BY <2>4
  <2>6. e \in edges /\ e[1] \in nodes /\ e[2] \in nodes
    BY <2>2 DEF Ends
  <2> HIDE DEF e, c, d
  <2>7. \A x \in nodes : d[x] = IF c[x] = c[e[1]] THEN c[e[2]] ELSE c[x]
    BY <2>3 DEF Unite
  <2>8. d \in [nodes -> nodes]
    BY <2>3, <2>5, <2>6 DEF Unite
  <2>9. \A w \in edges : w \notin left[k + 1] => d[w[1]] = d[w[2]]
    BY <2>2, <2>5, <2>6, <2>7 DEF Ends
  <2>10. ASSUME NEW x \in nodes PROVE Linked(edges, x, d[x])
    <3> SUFFICES ASSUME NEW f, Respects(f, edges) PROVE f[x] = f[d[x]]
      BY DEF Linked
    <3>1. f[x] = f[c[x]] /\ f[e[1]] = f[c[e[1]]] /\ f[e[2]] = f[c[e[2]]]
      BY <2>5, <2>6 DEF Linked
    <3>2. f[e[1]] = f[e[2]]
      BY <2>6 DEF Respects
    <3> QED
      BY <2>7, <3>1, <3>2
  <2> QED
    BY <2>8, <2>9, <2>10 DEF d
<1> HIDE DEF G
<1>8. Nat \subseteq G
  BY <1>6, <1>7, Naturals
<1>9. P(n)
  BY <1>1, <1>8 DEF G
<1>10. left[n] = {}
  <2>1. n \in 0..n
    BY <1>1
  <2>2. IsFiniteSet(left[n]) /\ Cardinality(left[n]) = 0
    BY <1>1, <1>2, <2>1, LeftsShrink
  <2> QED
    BY <2>2, FS_EmptySet
<1>11. Respects(class[n], edges)
  BY <1>9, <1>10 DEF Respects
<1>12. ASSUME NEW x \in nodes, NEW y \in nodes, class[n][x] = class[n][y]
       PROVE  Linked(edges, x, y)
  BY <1>9, <1>12 DEF Linked
<1> QED
  BY <1>4, <1>11, <1>12

-----------------------------------------------------------------------------
(* Finite images and finite unions.                                        *)
LEMMA ImageIsFinite ==
  ASSUME NEW S, IsFiniteSet(S), NEW f, f = [x \in S |-> f[x]], NEW T, T \subseteq {f[x] : x \in S}
  PROVE  IsFiniteSet(T)
<1> DEFINE U == {f[x] : x \in S}
<1>1. f \in Surjection(S, U)
  BY DEF Surjection
<1>2. T \in SUBSET U
  OBVIOUS
<1> HIDE DEF U
<1>3. IsFiniteSet(U)
  BY <1>1, FS_Surjection
<1> QED
  BY <1>2, <1>3, FS_Subset

LEMMA FamilyIsFinite ==
  ASSUME NEW S, IsFiniteSet(S), NEW f, f = [x \in S |-> f[x]], \A x \in S : IsFiniteSet(f[x])
  PROVE  IsFiniteSet(UNION {f[x] : x \in S})
<1> DEFINE U == {f[x] : x \in S}
<1>1. U \subseteq {f[x] : x \in S}
  OBVIOUS
<1>2. \A T \in U : IsFiniteSet(T)
  OBVIOUS
<1> HIDE DEF U
<1>3. IsFiniteSet(U)
  BY <1>1, ImageIsFinite
<1>4. IsFiniteSet(UNION U)
  BY <1>2, <1>3, FS_UNION
<1> QED
  BY <1>4 DEF U

-----------------------------------------------------------------------------
(* The levels of the structure.                                            *)
Occurrence == [at : Seq(Name), type : DOMAIN Modules]

LEMMA ModuleKind ==
  ASSUME netlist \in Netlists, NEW o \in Occurrence
  PROVE  /\ Module(Modules[o.type]) /\ o.at \in Seq(Name) /\ o.type \in DOMAIN Modules
         /\ \A c \in Children(o) : Instantiation(c) /\ c.name \in Name
                                   /\ c.type \in DOMAIN Modules \cup DOMAIN Cells
         /\ IsFiniteSet(Children(o)) /\ IsFiniteSet(Range(Modules[o.type].aliases))
<1> DEFINE m == Modules[o.type]
<1>1. o.type \in DOMAIN Modules /\ o.at \in Seq(Name)
  BY DEF Occurrence
<1>2. Netlist(netlist)
  BY ElaborationConstants
<1>3. Module(m) /\ \A i \in DOMAIN m.children : m.children[i].type \in DOMAIN Modules \cup DOMAIN Cells
  BY <1>1, <1>2 DEF Netlist, Modules
<1> HIDE DEF m
<1>4. /\ DOMAIN m.children = 1..Len(m.children) /\ DOMAIN m.aliases = 1..Len(m.aliases)
      /\ Len(m.children) \in Nat /\ Len(m.aliases) \in Nat
      /\ \A i \in DOMAIN m.children : Instantiation(m.children[i])
  BY <1>3 DEF Module
<1>5. Children(o) = {m.children[i] : i \in DOMAIN m.children}
  BY DEF Children, Range, m
<1>6. IsFiniteSet(DOMAIN m.children) /\ IsFiniteSet(DOMAIN m.aliases)
  BY <1>4, FS_Interval
<1>7. IsFiniteSet(Children(o))
  <2> DEFINE f == [i \in DOMAIN m.children |-> m.children[i]]
  <2>1. f = [i \in DOMAIN m.children |-> f[i]] /\ Children(o) \subseteq {f[i] : i \in DOMAIN m.children}
    BY <1>5
  <2> HIDE DEF f
  <2> QED
    BY <1>6, <2>1, ImageIsFinite
<1>8. IsFiniteSet(Range(m.aliases))
  <2> DEFINE f == [i \in DOMAIN m.aliases |-> m.aliases[i]]
  <2>1. /\ f = [i \in DOMAIN m.aliases |-> f[i]]
        /\ Range(m.aliases) \subseteq {f[i] : i \in DOMAIN m.aliases}
    BY DEF Range
  <2> HIDE DEF f
  <2> QED
    BY <1>6, <2>1, ImageIsFinite
<1>9. \A c \in Children(o) : Instantiation(c) /\ c.name \in Name
                             /\ c.type \in DOMAIN Modules \cup DOMAIN Cells
  BY <1>3, <1>4, <1>5 DEF Instantiation
<1> QED
  BY <1>1, <1>3, <1>7, <1>8, <1>9 DEF m

LEMMA InsideKind ==
  ASSUME netlist \in Netlists, NEW o \in Occurrence
  PROVE  Inside(o) \subseteq Occurrence /\ IsFiniteSet(Inside(o))
<1> DEFINE S == {k \in Children(o) : k.type \in DOMAIN Modules}
           f == [c \in S |-> [at |-> Append(o.at, c.name), type |-> c.type]]
<1>1. IsFiniteSet(S)
  BY ModuleKind, FS_Subset
<1>2. f = [c \in S |-> f[c]] /\ Inside(o) \subseteq {f[c] : c \in S}
  BY DEF Inside
<1>3. IsFiniteSet(Inside(o))
  <2> HIDE DEF S, f
  <2> QED
    BY <1>1, <1>2, ImageIsFinite
<1>4. ASSUME NEW c \in S
      PROVE  [at |-> Append(o.at, c.name), type |-> c.type] \in Occurrence
  BY ModuleKind DEF Occurrence
<1> QED
  BY <1>3, <1>4 DEF Inside

LEMMA LevelsAre ==
  ASSUME netlist \in Netlists
  PROVE  /\ Levels[0] = {[at |-> <<>>, type |-> netlist.top]}
         /\ \A d \in 1..MaxDepth : Levels[d] = UNION {Inside(o) : o \in Levels[d - 1]}
<1> DEFINE V == SUBSET Occurrence
           start == {[at |-> <<>>, type |-> netlist.top]}
           step == [d \in 1..MaxDepth |-> [S \in V |-> UNION {Inside(o) : o \in S}]]
           Eq(f) == f = [d \in 0..MaxDepth |-> IF d = 0 THEN start
                                               ELSE UNION {Inside(o) : o \in f[d - 1]}]
<1>1. MaxDepth \in Nat
  BY ElaborationConstants
<1>2. start \in V
  <2>1. netlist.top \in DOMAIN Modules
    BY ElaborationConstants DEF Netlist, Modules
  <2>2. <<>> \in Seq(Name)
    OBVIOUS
  <2> QED
    BY <2>1, <2>2 DEF Occurrence
<1>3. step \in [1..MaxDepth -> [V -> V]]
  BY InsideKind
<1>4. PICK f \in [0..MaxDepth -> V] : Follows(f, start, step, MaxDepth)
  <2> HIDE DEF V, step, start
  <2> QED
    BY <1>1, <1>2, <1>3, StepsExist
<1>5. ASSUME NEW d \in 0..MaxDepth
      PROVE  f[d] = IF d = 0 THEN start ELSE UNION {Inside(o) : o \in f[d - 1]}
  <2>1. f[d] = IF d = 0 THEN start ELSE step[d][f[d - 1]]
    BY <1>4 DEF Follows
  <2>2. d # 0 => d \in 1..MaxDepth /\ d - 1 \in 0..MaxDepth
    BY <1>1
  <2>3. d # 0 => f[d - 1] \in V
    BY <1>4, <2>2
  <2>4. d # 0 => step[d][f[d - 1]] = UNION {Inside(o) : o \in f[d - 1]}
    BY <2>2, <2>3
  <2> HIDE DEF step, start
  <2> QED
    BY <2>1, <2>4
<1>6. Eq(f)
  BY <1>4, <1>5
<1>7. Levels = CHOOSE g : Eq(g)
  BY DEF Levels
<1>8. Eq(Levels)
  <2> HIDE DEF Eq
  <2> QED
    BY <1>6, <1>7
<1> HIDE DEF start
<1>9. ASSUME NEW d \in 0..MaxDepth
      PROVE  Levels[d] = IF d = 0 THEN start ELSE UNION {Inside(o) : o \in Levels[d - 1]}
  BY <1>8
<1>10. Levels[0] = start
  <2>1. 0 \in 0..MaxDepth
    BY <1>1
  <2> QED
    BY <1>9, <2>1
<1>11. ASSUME NEW d \in 1..MaxDepth
       PROVE  Levels[d] = UNION {Inside(o) : o \in Levels[d - 1]}
  <2>1. d \in 0..MaxDepth /\ d # 0
    BY <1>1
  <2> QED
    BY <1>9, <2>1
<1> QED
  BY <1>10, <1>11 DEF start

LEMMA LevelsKind ==
  ASSUME netlist \in Netlists, NEW d \in 0..MaxDepth
  PROVE  Levels[d] \subseteq Occurrence /\ IsFiniteSet(Levels[d])
<1> DEFINE P(k) == Levels[k] \subseteq Occurrence /\ IsFiniteSet(Levels[k])
           G == {k \in Nat : k <= MaxDepth => P(k)}
<1>1. MaxDepth \in Nat
  BY ElaborationConstants
<1>2. 0 \in G
  <2>1. Levels[0] = {[at |-> <<>>, type |-> netlist.top]}
    BY LevelsAre
  <2>2. netlist.top \in DOMAIN Modules
    BY ElaborationConstants DEF Netlist, Modules
  <2>3. <<>> \in Seq(Name)
    OBVIOUS
  <2>4. Levels[0] \subseteq Occurrence
    BY <2>1, <2>2, <2>3 DEF Occurrence
  <2>5. IsFiniteSet(Levels[0])
    BY <2>1, FS_Singleton
  <2> QED
    BY <2>4, <2>5
<1>3. ASSUME NEW k \in Nat, k \in G PROVE k + 1 \in G
  <2> SUFFICES ASSUME k + 1 <= MaxDepth PROVE P(k + 1)
    OBVIOUS
  <2>1. k + 1 \in 1..MaxDepth /\ (k + 1) - 1 = k /\ k <= MaxDepth
    BY <1>1
  <2>2. Levels[k + 1] = UNION {Inside(o) : o \in Levels[k]}
    BY <2>1, LevelsAre
  <2>3. P(k)
    BY <1>3, <2>1
  <2> DEFINE f == [o \in Levels[k] |-> Inside(o)]
  <2>4. \A o \in Levels[k] : f[o] = Inside(o) /\ Inside(o) \subseteq Occurrence /\ IsFiniteSet(f[o])
    BY <2>3, InsideKind
  <2>5. f = [o \in Levels[k] |-> f[o]]
    OBVIOUS
  <2>6. Levels[k + 1] = UNION {f[o] : o \in Levels[k]}
    BY <2>2
  <2>7. IsFiniteSet(UNION {f[o] : o \in Levels[k]})
    <3> DEFINE S == Levels[k]
    <3>1. IsFiniteSet(S) /\ f = [o \in S |-> f[o]] /\ \A o \in S : IsFiniteSet(f[o])
      BY <2>3, <2>4, <2>5
    <3> HIDE DEF f, S
    <3>2. IsFiniteSet(UNION {f[o] : o \in S})
      BY <3>1, FamilyIsFinite
    <3> QED
      BY <3>2 DEF S
  <2>8. Levels[k + 1] \subseteq Occurrence
    BY <2>2, <2>4
  <2> QED
    BY <2>6, <2>7, <2>8
<1> HIDE DEF G
<1>4. Nat \subseteq G
  BY <1>2, <1>3, Naturals
<1>5. d \in Nat /\ d <= MaxDepth
  BY <1>1
<1> QED
  BY <1>4, <1>5 DEF G

LEMMA OccurrencesKind ==
  ASSUME netlist \in Netlists
  PROVE  Occurrences \subseteq Occurrence /\ IsFiniteSet(Occurrences)
<1> DEFINE S == 0..(MaxDepth - 1)
           f == [d \in S |-> Levels[d]]
<1>1. MaxDepth \in Nat /\ \A d \in S : d \in 0..MaxDepth
  BY ElaborationConstants
<1>2. \A d \in S : Levels[d] \subseteq Occurrence /\ IsFiniteSet(Levels[d])
  BY <1>1, LevelsKind
<1>3. IsFiniteSet(S)
  BY <1>1, FS_Interval
<1>4. f = [d \in S |-> f[d]] /\ (\A d \in S : f[d] = Levels[d])
      /\ Occurrences = UNION {f[d] : d \in S}
  BY DEF Occurrences
<1>5. Occurrences = UNION {Levels[d] : d \in S}
  BY DEF Occurrences
<1> HIDE DEF S, f
<1>6. IsFiniteSet(UNION {f[d] : d \in S})
  BY <1>2, <1>3, <1>4, FamilyIsFinite
<1> QED
  BY <1>2, <1>4, <1>5, <1>6

-----------------------------------------------------------------------------
(* The wires of the structure.                                             *)
AllWires == UNION {Wires(o) : o \in Occurrences}

LEMMA AliasWire ==
  ASSUME NEW o \in Occurrences, NEW a \in Range(Modules[o.type].aliases),
         a[1] \in Modules[o.type].nets, a[2] \in Modules[o.type].nets
  PROVE  <<[at |-> o.at, net |-> a[1]], [at |-> o.at, net |-> a[2]]>> \in AllWires
<1>1. <<[at |-> o.at, net |-> a[1]], [at |-> o.at, net |-> a[2]]>> \in Wires(o)
  BY DEF Wires
<1> QED
  BY <1>1 DEF AllWires

LEMMA PortWire ==
  ASSUME NEW o \in Occurrences, NEW c \in Children(o), c.type \in DOMAIN Modules,
         NEW p \in DOMAIN c.connections, c.connections[p] # NoSignal
  PROVE  <<[at |-> Append(o.at, c.name), net |-> p], [at |-> o.at, net |-> c.connections[p]]>>
           \in AllWires
<1> DEFINE B == {<<[at |-> Append(o.at, c.name), net |-> q],
                   [at |-> o.at, net |-> c.connections[q]]>> :
                   q \in {r \in DOMAIN c.connections : c.connections[r] # NoSignal}}
<1>1. <<[at |-> Append(o.at, c.name), net |-> p], [at |-> o.at, net |-> c.connections[p]]>> \in B
  OBVIOUS
<1>2. B \subseteq Wires(o)
  BY DEF Wires
<1> HIDE DEF B
<1> QED
  BY <1>1, <1>2 DEF AllWires

(* A wire is of one of the two kinds.                                      *)
LEMMA WireCases ==
  ASSUME NEW e \in AllWires
  PROVE  \E o \in Occurrences :
           \/ \E a \in Range(Modules[o.type].aliases) :
                /\ a[1] \in Modules[o.type].nets /\ a[2] \in Modules[o.type].nets
                /\ e = <<[at |-> o.at, net |-> a[1]], [at |-> o.at, net |-> a[2]]>>
           \/ \E c \in Children(o) : \E p \in DOMAIN c.connections :
                /\ c.type \in DOMAIN Modules /\ c.connections[p] # NoSignal
                /\ e = <<[at |-> Append(o.at, c.name), net |-> p],
                         [at |-> o.at, net |-> c.connections[p]]>>
<1>1. PICK o \in Occurrences : e \in Wires(o)
  BY DEF AllWires
<1> DEFINE A == {<<[at |-> o.at, net |-> a[1]], [at |-> o.at, net |-> a[2]]>> :
                   a \in {b \in Range(Modules[o.type].aliases) :
                            {b[1], b[2]} \subseteq Modules[o.type].nets}}
           B(c) == {<<[at |-> Append(o.at, c.name), net |-> p],
                      [at |-> o.at, net |-> c.connections[p]]>> :
                      p \in {q \in DOMAIN c.connections : c.connections[q] # NoSignal}}
           C == {k \in Children(o) : k.type \in DOMAIN Modules}
<1>2. e \in A \/ \E c \in C : e \in B(c)
  BY <1>1 DEF Wires
<1>3. CASE e \in A
  BY <1>1, <1>3
<1>4. CASE \E c \in C : e \in B(c)
  BY <1>1, <1>4
<1> QED
  BY <1>2, <1>3, <1>4

LEMMA WiresFinite ==
  ASSUME netlist \in Netlists
  PROVE  IsFiniteSet(AllWires)
<1>1. ASSUME NEW o \in Occurrence PROVE IsFiniteSet(Wires(o))
  <2>1. /\ IsFiniteSet(Children(o)) /\ IsFiniteSet(Range(Modules[o.type].aliases))
        /\ \A c \in Children(o) : Instantiation(c)
    BY ModuleKind
  <2> DEFINE R == {b \in Range(Modules[o.type].aliases) :
                     {b[1], b[2]} \subseteq Modules[o.type].nets}
             f == [a \in R |-> <<[at |-> o.at, net |-> a[1]], [at |-> o.at, net |-> a[2]]>>]
             A == {<<[at |-> o.at, net |-> a[1]], [at |-> o.at, net |-> a[2]]>> : a \in R}
  <2>2. IsFiniteSet(R)
    BY <2>1, FS_Subset
  <2>3. f = [a \in R |-> f[a]] /\ A \subseteq {f[a] : a \in R}
    OBVIOUS
  <2>4. IsFiniteSet(A)
    <3> HIDE DEF R, f, A
    <3> QED
      BY <2>2, <2>3, ImageIsFinite
  <2> DEFINE C == {k \in Children(o) : k.type \in DOMAIN Modules}
             Q(c) == {q \in DOMAIN c.connections : c.connections[q] # NoSignal}
             B(c) == {<<[at |-> Append(o.at, c.name), net |-> p],
                        [at |-> o.at, net |-> c.connections[p]]>> : p \in Q(c)}
             g == [c \in C |-> B(c)]
  <2>5. IsFiniteSet(C)
    BY <2>1, FS_Subset
  <2>6. ASSUME NEW c \in C PROVE IsFiniteSet(B(c))
    <3>1. IsFiniteSet(DOMAIN c.connections)
      BY <2>1 DEF Instantiation
    <3>2. IsFiniteSet(Q(c))
      BY <3>1, FS_Subset
    <3> DEFINE h == [p \in Q(c) |-> <<[at |-> Append(o.at, c.name), net |-> p],
                                      [at |-> o.at, net |-> c.connections[p]]>>]
    <3>3. h = [p \in Q(c) |-> h[p]] /\ B(c) \subseteq {h[p] : p \in Q(c)}
      OBVIOUS
    <3> HIDE DEF h, Q, B
    <3> QED
      BY <3>2, <3>3, ImageIsFinite
  <2>7. g = [c \in C |-> g[c]] /\ (\A c \in C : g[c] = B(c))
    OBVIOUS
  <2>8. IsFiniteSet(UNION {g[c] : c \in C})
    <3> HIDE DEF g, C, B
    <3> QED
      BY <2>5, <2>6, <2>7, FamilyIsFinite
  <2>9. Wires(o) = A \cup UNION {B(c) : c \in C}
    BY DEF Wires
  <2>10. UNION {B(c) : c \in C} = UNION {g[c] : c \in C}
    BY <2>7
  <2> DEFINE U == UNION {g[c] : c \in C}
  <2>11. Wires(o) = A \cup U /\ IsFiniteSet(U)
    BY <2>8, <2>9, <2>10
  <2> HIDE DEF A, U
  <2> QED
    BY <2>4, <2>11, FS_Union
<1> DEFINE f == [o \in Occurrences |-> Wires(o)]
<1>2. Occurrences \subseteq Occurrence /\ IsFiniteSet(Occurrences)
  BY OccurrencesKind
<1>3. /\ f = [o \in Occurrences |-> f[o]] /\ (\A o \in Occurrences : IsFiniteSet(f[o]))
      /\ AllWires = UNION {f[o] : o \in Occurrences}
  BY <1>1, <1>2 DEF AllWires
<1> HIDE DEF f
<1> QED
  BY <1>2, <1>3, FamilyIsFinite

Nodes ==
  {[at |-> o.at, net |-> n] : o \in Occurrences, n \in UNION {Modules[t].nets : t \in DOMAIN Modules}}
  \cup {e[1] : e \in AllWires} \cup {e[2] : e \in AllWires}
  \cup {[at |-> b.at, net |-> b.signal] : b \in origin}

LEMMA ClassPartition ==
  ASSUME netlist \in Netlists
  PROVE  /\ Respects(Class, AllWires)
         /\ \A x, y \in Nodes : Class[x] = Class[y] => Linked(AllWires, x, y)
<1>1. Class = Merged(Nodes, AllWires)
  BY DEF Class, Nodes, AllWires
<1>2. Ends(AllWires, Nodes)
  BY DEF Ends, Nodes
<1> QED
  BY <1>1, <1>2, WiresFinite, MergedPartition

-----------------------------------------------------------------------------
(* Links are as wires are: in both directions and from one to the next.    *)
LEMMA LinkedAlong ==
  ASSUME NEW edges
  PROVE  /\ \A x : Linked(edges, x, x)
         /\ \A x, y : Linked(edges, x, y) => Linked(edges, y, x)
         /\ \A x, y, z : Linked(edges, x, y) /\ Linked(edges, y, z) => Linked(edges, x, z)
         /\ \A e \in edges : Linked(edges, e[1], e[2])
  BY DEF Linked, Respects

(* Names of one component, but for those of cells.                         *)
PlainNames ==
  \A v \in Netlists : \A type \in DOMAIN v.modules :
    /\ \A n \in v.modules[type].nets : Len(n) = 1
    /\ \A i \in DOMAIN v.modules[type].children :
         LET c == v.modules[type].children[i]
         IN  /\ c.type \in DOMAIN v.modules => Len(c.name) = 1
             /\ \A p \in DOMAIN c.connections :
                  /\ Len(p) = 1
                  /\ c.connections[p] # NoSignal => Len(c.connections[p]) = 1

Word == {n \in Name : Len(n) = 1}

Node == [at : Seq(Word), net : Word]

Flat(at) == [k \in 1..Len(at) |-> at[k][1]]

NameOf(x) == Flat(x.at) \o x.net

LEMMA Concatenated ==
  ASSUME NEW A, NEW a \in Seq(A), NEW w \in Seq(A)
  PROVE  /\ a \o w \in Seq(A) /\ Len(a \o w) = Len(a) + Len(w)
         /\ \A k \in 1..(Len(a) + Len(w)) :
              (a \o w)[k] = IF k <= Len(a) THEN a[k] ELSE w[k - Len(a)]
  OBVIOUS

LEMMA ConcatOne ==
  ASSUME NEW A, NEW a \in Seq(A), NEW w \in Seq(A), Len(w) = 1
  PROVE  /\ a \o w \in Seq(A) /\ Len(a \o w) = Len(a) + 1
         /\ (a \o w)[Len(a) + 1] = w[1]
         /\ \A k \in 1..Len(a) : (a \o w)[k] = a[k]
<1> DEFINE n == Len(a)  c == a \o w
<1>s. n \in Nat
  OBVIOUS
<1>1. /\ n \in Nat /\ c \in Seq(A) /\ Len(c) = n + Len(w)
      /\ \A k \in 1..(n + Len(w)) : c[k] = IF k <= n THEN a[k] ELSE w[k - n]
  <2>1. /\ c \in Seq(A) /\ Len(c) = Len(a) + Len(w)
        /\ \A k \in 1..(Len(a) + Len(w)) : c[k] = IF k <= Len(a) THEN a[k] ELSE w[k - Len(a)]
    BY Concatenated, Zenon
  <2> HIDE DEF c
  <2> QED
    BY <1>s, <2>1
<1> HIDE DEF n, c
<1>2. /\ \A k \in 1..n : k \in 1..(n + 1) /\ k <= n
      /\ n + 1 \in 1..(n + 1) /\ ~(n + 1 <= n) /\ (n + 1) - n = 1
  BY <1>1
<1>3. c[n + 1] = w[1] /\ (\A k \in 1..n : c[k] = a[k]) /\ Len(c) = n + 1
  BY <1>1, <1>2
<1> QED
  BY <1>1, <1>3 DEF n, c

LEMMA FlatPath ==
  ASSUME NEW at \in Seq(Word)
  PROVE  /\ Flat(at) \in Seq(STRING) /\ Len(Flat(at)) = Len(at)
         /\ \A w \in Word : Flat(Append(at, w)) = Flat(at) \o w
<1>1. \A w \in Word : w \in Seq(STRING) /\ Len(w) = 1 /\ w[1] \in STRING
  BY DEF Word, Name
<1>2. Len(at) \in Nat /\ \A k \in 1..Len(at) : at[k] \in Word
  OBVIOUS
<1>3. Flat(at) \in Seq(STRING) /\ Len(Flat(at)) = Len(at)
  BY <1>1, <1>2 DEF Flat
<1>4. ASSUME NEW w \in Word PROVE Flat(Append(at, w)) = Flat(at) \o w
  <2> DEFINE b == Append(at, w)
             n == Len(at)
  <2>1. /\ Len(b) = n + 1 /\ b[n + 1] = w /\ \A k \in 1..n : b[k] = at[k]
    BY <1>2
  <2> DEFINE p == Flat(at) \o w
  <2>2. /\ p \in Seq(STRING) /\ Len(p) = n + 1 /\ p[n + 1] = w[1]
        /\ \A k \in 1..n : p[k] = Flat(at)[k]
    <3> DEFINE f == Flat(at)
    <3>1. f \in Seq(STRING) /\ Len(f) = n /\ n \in Nat
      BY <1>2, <1>3
    <3>2. w \in Seq(STRING) /\ Len(w) = 1
      BY <1>1
    <3>3. p = f \o w
      OBVIOUS
    <3> HIDE DEF f, p, n
    <3>4. p \in Seq(STRING) /\ Len(p) = n + 1
      BY <3>1, <3>2, <3>3, ConcatOne
    <3>5. p[n + 1] = w[1] /\ \A k \in 1..n : p[k] = f[k]
      BY <3>1, <3>2, <3>3, ConcatOne
    <3> QED
      BY <3>4, <3>5 DEF f
  <2>3. \A k \in 1..n : Flat(at)[k] = at[k][1]
    BY DEF Flat
  <2> DEFINE q == Flat(b)
  <2>4. q = [k \in 1..(n + 1) |-> b[k][1]]
    BY <2>1 DEF Flat
  <2>5. n \in Nat
    BY <1>2
  <2> HIDE DEF b, n, p, q
  <2>6. \A k \in 1..(n + 1) : k \in 1..n \/ k = n + 1
    BY <2>5
  <2>7. \A k \in 1..(n + 1) : b[k][1] = p[k]
    BY <2>1, <2>2, <2>3, <2>6
  <2>8. p = [k \in 1..(n + 1) |-> p[k]]
    BY <2>2, <2>5
  <2>9. q = p
    BY <2>4, <2>7, <2>8
  <2> QED
    BY <2>9 DEF b, p, q
<1> QED
  BY <1>3, <1>4

(* A plain name says which net of which occurrence it is of.               *)
LEMMA NameIsUnique ==
  ASSUME NEW x \in Node, NEW y \in Node, NameOf(x) = NameOf(y)
  PROVE  x = y
<1>1. /\ x.at \in Seq(Word) /\ x.net \in Word /\ x = [at |-> x.at, net |-> x.net]
      /\ y.at \in Seq(Word) /\ y.net \in Word /\ y = [at |-> y.at, net |-> y.net]
  BY DEF Node
<1>2. /\ x.net \in Seq(STRING) /\ y.net \in Seq(STRING) /\ Len(x.net) = 1 /\ Len(y.net) = 1
  BY <1>1 DEF Word, Name
<1>3. Flat(x.at) \in Seq(STRING) /\ Flat(y.at) \in Seq(STRING)
      /\ Len(Flat(x.at)) = Len(x.at) /\ Len(Flat(y.at)) = Len(y.at)
  BY <1>1, FlatPath
<1>4. Flat(x.at) = Flat(y.at) /\ x.net = y.net
  <2> DEFINE f == Flat(x.at)  g == Flat(y.at)
  <2>1. f \o x.net = g \o y.net /\ Len(x.net) = Len(y.net)
    BY <1>2 DEF NameOf
  <2>2. f \in Seq(STRING) /\ g \in Seq(STRING)
    BY <1>3
  <2> HIDE DEF f, g
  <2>3. f = g /\ x.net = y.net
    BY <1>2, <2>1, <2>2, SameStart
  <2> QED
    BY <2>3 DEF f, g
<1>5. Len(x.at) = Len(y.at)
  BY <1>3, <1>4
<1>6. \A k \in 1..Len(x.at) : x.at[k] = y.at[k]
  <2> SUFFICES ASSUME NEW k \in 1..Len(x.at) PROVE x.at[k] = y.at[k]
    OBVIOUS
  <2>1. Flat(x.at)[k] = x.at[k][1] /\ Flat(y.at)[k] = y.at[k][1]
    BY <1>5 DEF Flat
  <2>2. x.at[k] \in Word /\ y.at[k] \in Word
    BY <1>1, <1>5
  <2> DEFINE a == x.at[k]  b == y.at[k]
  <2>3. a[1] = b[1] /\ a \in Seq(STRING) /\ b \in Seq(STRING) /\ Len(a) = 1 /\ Len(b) = 1
    BY <1>4, <2>1, <2>2 DEF Word, Name
  <2> HIDE DEF a, b
  <2>4. a = b
    BY <2>3
  <2> QED
    BY <2>4 DEF a, b
<1>7. x.at = y.at
  BY <1>1, <1>5, <1>6
<1> QED
  BY <1>1, <1>4, <1>7

(* What a net of the index says of a net of the structure: it has the name *)
(* of one that it is linked with.                                          *)
Known(edges, x, net) == \E y \in Node : net = NameOf(y) /\ Linked(edges, x, y)

LEMMA KnownFacts ==
  ASSUME NEW edges
  PROVE  /\ \A x \in Node : Known(edges, x, NameOf(x))
         /\ \A x, z, net : Known(edges, x, net) /\ Known(edges, z, net) => Linked(edges, x, z)
         /\ \A x, z, net : Linked(edges, x, z) /\ Known(edges, z, net) => Known(edges, x, net)
<1>1. \A x \in Node : Known(edges, x, NameOf(x))
  BY LinkedAlong DEF Known
<1>2. ASSUME NEW x, NEW z, NEW net, Known(edges, x, net), Known(edges, z, net)
      PROVE  Linked(edges, x, z)
  <2>1. PICK u \in Node : net = NameOf(u) /\ Linked(edges, x, u)
    BY <1>2 DEF Known
  <2>2. PICK v \in Node : net = NameOf(v) /\ Linked(edges, z, v)
    BY <1>2 DEF Known
  <2>3. u = v
    BY <2>1, <2>2, NameIsUnique
  <2>4. Linked(edges, x, u) /\ Linked(edges, u, z)
    BY <2>1, <2>2, <2>3, LinkedAlong
  <2> QED
    BY <2>4, LinkedAlong
<1>3. ASSUME NEW x, NEW z, NEW net, Linked(edges, x, z), Known(edges, z, net)
      PROVE  Known(edges, x, net)
  BY <1>3, LinkedAlong DEF Known
<1> QED
  BY <1>1, <1>2, <1>3

-----------------------------------------------------------------------------
(* That nothing is shorted.  An activation is of an occurrence, has the    *)
(* prefix that its place spells, and names only nets that are wired to     *)
(* those that it gives them to.                                            *)
Situated(f, k, levels) ==
  /\ f.at \in Seq(Word) /\ f.prefix = Flat(f.at)
  /\ k - 1 \in 0..MaxDepth /\ [at |-> f.at, type |-> f.type] \in levels[k - 1]
  /\ f.next > 0 => k <= MaxDepth

Honest(at, g, edges) == \A n \in DOMAIN g : Known(edges, [at |-> at, net |-> n], g[n])

FrameNamed(f, k, edges, levels) ==
  Situated(f, k, levels) /\ Honest(f.at, f.bindings, edges) /\ Honest(f.at, f.local, edges)

FramesNamed(edges, levels) ==
  \A k \in DOMAIN frames : FrameNamed(frames[k], k, edges, levels)

PortsNamed(edges) ==
  \A p \in DOMAIN ports : Known(edges, [at |-> <<>>, net |-> p], ports[p].net)

PinsNamed(edges) ==
  \A b \in origin : b.signal # NoSignal =>
    b.path \in DOMAIN pins /\ Known(edges, [at |-> b.at, net |-> b.signal], pins[b.path].net)

Naming == FramesNamed(AllWires, Levels) /\ PortsNamed(AllWires) /\ PinsNamed(AllWires)

LEMMA StructureStays ==
  ASSUME netlist' = netlist
  PROVE  AllWires' = AllWires /\ Levels' = Levels
<1>1. Levels' = Levels
  BY DEF Levels, Inside, Children, Modules
<1>2. Occurrences' = Occurrences
  BY <1>1 DEF Occurrences
<1>3. AllWires' = AllWires
  BY <1>2 DEF AllWires, Wires, Children, Modules
<1> QED
  BY <1>1, <1>3

LEMMA PlainKind ==
  ASSUME PlainNames, Walk, frames # <<>>
  PROVE  /\ M.nets \subseteq Word
         /\ F.next \in DOMAIN M.children =>
              /\ Child.type \in DOMAIN Modules => Child.name \in Word
              /\ DOMAIN Child.connections \subseteq Word
              /\ \A p \in Signals : Child.connections[p] \in Word
<1>1. netlist \in Netlists /\ F.type \in DOMAIN netlist.modules /\ M.nets \subseteq Name
  BY AtWork DEF Walk, Module, Modules
<1>2. M.nets \subseteq Word
  BY <1>1 DEF PlainNames, M, Modules, Word
<1>3. ASSUME F.next \in DOMAIN M.children
      PROVE  /\ Child.type \in DOMAIN Modules => Child.name \in Word
             /\ DOMAIN Child.connections \subseteq Word
             /\ \A p \in Signals : Child.connections[p] \in Word
  <2>1. /\ Child.name \in Name /\ DOMAIN Child.connections \subseteq Name
        /\ \A p \in Signals : Child.connections[p] \in Name
    BY <1>3, ChildKind
  <2>2. /\ Child.type \in DOMAIN Modules => Len(Child.name) = 1
        /\ \A p \in DOMAIN Child.connections :
             /\ Len(p) = 1
             /\ Child.connections[p] # NoSignal => Len(Child.connections[p]) = 1
    BY <1>1, <1>3 DEF PlainNames, Child, M, Modules
  <2> QED
    BY <2>1, <2>2 DEF Word, Signals
<1> QED
  BY <1>2, <1>3

LEMMA PlainNamesPlainPins == PlainNames => PlainPins
  BY DEF PlainNames, PlainPins

(* A name is made for each net of a module at work that has none.          *)
LEMMA OwnName ==
  ASSUME FrameNamed(F, Len(frames), AllWires, Levels), NEW n \in Word
  PROVE  Known(AllWires, [at |-> F.at, net |-> n], F.prefix \o n)
<1> DEFINE x == [at |-> F.at, net |-> n]
<1>1. x \in Node /\ NameOf(x) = F.prefix \o n
  BY DEF FrameNamed, Situated, Node, NameOf
<1> HIDE DEF x
<1>2. Known(AllWires, x, NameOf(x))
  BY <1>1, KnownFacts
<1> QED
  BY <1>1, <1>2 DEF x

LEMMA ResolvedKnown ==
  ASSUME FrameNamed(F, Len(frames), AllWires, Levels), NEW n \in Word
  PROVE  Known(AllWires, [at |-> F.at, net |-> n], Resolve(n))
<1>1. CASE n \in DOMAIN F.local
  BY <1>1 DEF FrameNamed, Honest, Resolve
<1>2. CASE n \notin DOMAIN F.local
  BY <1>2, OwnName DEF Resolve
<1> QED
  BY <1>1, <1>2

LEMMA OccurrenceAtWork ==
  ASSUME Walk, frames # <<>>, FrameNamed(F, Len(frames), AllWires, Levels), Len(frames) <= MaxDepth
  PROVE  [at |-> F.at, type |-> F.type] \in Occurrences
<1>1. Len(frames) \in Nat /\ Len(frames) > 0 /\ MaxDepth \in Nat
  BY AtWork, ElaborationConstants
<1>2. Len(frames) - 1 \in 0..(MaxDepth - 1)
  BY <1>1
<1>3. [at |-> F.at, type |-> F.type] \in Levels[Len(frames) - 1]
  BY DEF FrameNamed, Situated
<1> QED
  BY <1>2, <1>3 DEF Occurrences

(* Assignments rename to nets that are wired to those renamed.             *)
LEMMA JoinedHonest ==
  ASSUME PlainNames, Walk, frames # <<>>, Len(frames) <= MaxDepth,
         FrameNamed(F, Len(frames), AllWires, Levels)
  PROVE  Honest(F.at, Joined, AllWires)
<1> DEFINE o == [at |-> F.at, type |-> F.type]
           x(n) == [at |-> F.at, net |-> n]
           G == {r \in [M.nets -> Name] : \A n \in M.nets : Known(AllWires, x(n), r[n])}
<1>1. o \in Occurrences /\ o.at = F.at /\ Modules[o.type] = M
  BY OccurrenceAtWork DEF M
<1>2. Len(M.aliases) \in Nat /\ DOMAIN M.aliases = 1..Len(M.aliases)
  BY AtWork DEF Module
<1>3. Bound \in G
  <2>1. \A n \in M.nets : Bound[n] \in Name
    BY BoundName
  <2>2. Bound \in [M.nets -> Name]
    BY <2>1 DEF Bound
  <2>3. ASSUME NEW n \in M.nets PROVE Known(AllWires, x(n), Bound[n])
    <3>1. CASE n \in DOMAIN F.bindings
      BY <3>1 DEF FrameNamed, Honest, Bound
    <3>2. CASE n \notin DOMAIN F.bindings
      <4>1. n \in Word
        BY PlainKind
      <4>2. Known(AllWires, x(n), F.prefix \o n)
        BY <4>1, OwnName
      <4> QED
        BY <3>2, <4>2 DEF Bound
    <3> QED
      BY <3>1, <3>2
  <2> QED
    BY <2>2, <2>3
<1>4. ASSUME NEW r \in G, NEW i \in 1..Len(M.aliases)
      PROVE  Join(r, M.aliases[i]) \in G
  <2> DEFINE a == M.aliases[i]
  <2>1. r \in [M.nets -> Name] /\ \A n \in M.nets : Known(AllWires, x(n), r[n])
    OBVIOUS
  <2>2. a \in Range(M.aliases)
    BY <1>2 DEF Range
  <2> HIDE DEF a, G
  <2>3. CASE ~{a[1], a[2]} \subseteq M.nets
    BY <2>3 DEF Join, a
  <2>4. CASE {a[1], a[2]} \subseteq M.nets
    <3>1. <<x(a[1]), x(a[2])>> \in AllWires
      BY <1>1, <2>2, <2>4, AliasWire
    <3>2. Linked(AllWires, x(a[1]), x(a[2])) /\ Linked(AllWires, x(a[2]), x(a[1]))
      <4> DEFINE e == <<x(a[1]), x(a[2])>>
      <4>1. e \in AllWires /\ e[1] = x(a[1]) /\ e[2] = x(a[2])
        BY <3>1
      <4> HIDE DEF e, x
      <4> QED
        BY <4>1, LinkedAlong
    <3>3. ASSUME NEW old \in M.nets, NEW new \in M.nets, Linked(AllWires, x(old), x(new))
          PROVE  [n \in DOMAIN r |-> IF r[n] = r[old] THEN r[new] ELSE r[n]] \in G
      <4> DEFINE s == [n \in DOMAIN r |-> IF r[n] = r[old] THEN r[new] ELSE r[n]]
      <4>1. s \in [M.nets -> Name]
        BY <2>1
      <4>2. ASSUME NEW n \in M.nets PROVE Known(AllWires, x(n), s[n])
        <5>1. CASE r[n] = r[old]
          <6>1. Linked(AllWires, x(n), x(old))
            <7>1. Known(AllWires, x(n), r[old]) /\ Known(AllWires, x(old), r[old])
              BY <2>1, <5>1
            <7> HIDE DEF x
            <7> QED
              BY <7>1, KnownFacts
          <6>2. Known(AllWires, x(new), r[new])
            BY <2>1
          <6>3. s[n] = r[new]
            BY <2>1, <5>1
          <6> HIDE DEF x, s
          <6>4. Linked(AllWires, x(n), x(new))
            BY <3>3, <6>1, LinkedAlong
          <6> QED
            BY <6>2, <6>3, <6>4, KnownFacts
        <5>2. CASE r[n] # r[old]
          BY <2>1, <5>2
        <5> QED
          BY <5>1, <5>2
      <4> HIDE DEF s, x
      <4>3. s \in G
        BY <4>1, <4>2 DEF G
      <4> QED
        BY <4>3 DEF s
    <3>4. \/ Join(r, a) = [n \in DOMAIN r |-> IF r[n] = r[a[2]] THEN r[a[1]] ELSE r[n]]
          \/ Join(r, a) = [n \in DOMAIN r |-> IF r[n] = r[a[1]] THEN r[a[2]] ELSE r[n]]
      BY <2>4 DEF Join
    <3> HIDE DEF x
    <3>5. Join(r, a) \in G
      BY <2>4, <3>2, <3>3, <3>4
    <3> QED
      BY <3>5 DEF a
  <2> QED
    BY <2>3, <2>4
<1> HIDE DEF G
<1>5. Joined \in G
  BY <1>2, <1>3, <1>4, JoinedKeeps
<1> QED
  BY <1>5 DEF G, Honest

(* Activations end, go on and call others.                                 *)
(* What the activations become when the one at work ends, goes on as f, or *)
(* also calls g.                                                           *)
Kept(k, f) ==
  k \in DOMAIN frames /\ frames'[k] = IF k = Len(frames) THEN f ELSE frames[k]

LEMMA FramesBecome ==
  ASSUME Walk, frames # <<>>
  PROVE  /\ frames' = Front(frames) =>
              \A k \in DOMAIN frames' : k \in DOMAIN frames /\ frames'[k] = frames[k]
         /\ \A f : frames' = [frames EXCEPT ![Len(frames)] = f] =>
              \A k \in DOMAIN frames' : Kept(k, f)
         /\ \A f, g \in Activation : frames' = Append([frames EXCEPT ![Len(frames)] = f], g) =>
              \A k \in DOMAIN frames' : Kept(k, f) \/ (k = Len(frames) + 1 /\ frames'[k] = g)
<1>1. frames \in Seq(Activation)
  BY DEF Walk
<1>2. Len(frames) \in Nat /\ DOMAIN frames = 1..Len(frames) /\ Len(frames) \in DOMAIN frames
  BY <1>1, LastElement
<1>3. ASSUME frames' = Front(frames)
      PROVE  \A k \in DOMAIN frames' : k \in DOMAIN frames /\ frames'[k] = frames[k]
  <2>1. /\ DOMAIN Front(frames) = 1..(Len(frames) - 1)
        /\ \A k \in DOMAIN Front(frames) : Front(frames)[k] = frames[k]
    BY <1>1, LastElement
  <2>2. 1..(Len(frames) - 1) \subseteq 1..Len(frames)
    BY <1>2
  <2> QED
    BY <1>2, <1>3, <2>1, <2>2
<1>4. ASSUME NEW f, frames' = [frames EXCEPT ![Len(frames)] = f]
      PROVE  \A k \in DOMAIN frames' : Kept(k, f)
  BY <1>2, <1>4 DEF Kept
<1>5. ASSUME NEW f \in Activation, NEW g \in Activation,
             frames' = Append([frames EXCEPT ![Len(frames)] = f], g)
      PROVE  \A k \in DOMAIN frames' : Kept(k, f) \/ (k = Len(frames) + 1 /\ frames'[k] = g)
  <2> DEFINE n == Len(frames)
             on == [frames EXCEPT ![n] = f]
  <2>1. /\ on \in Seq(Activation) /\ Len(on) = n
        /\ \A k \in DOMAIN frames : on[k] = IF k = n THEN f ELSE frames[k]
    BY <1>1, <1>2
  <2>2. frames' = Append(on, g)
    BY <1>5
  <2> HIDE DEF on, n
  <2>3. n \in Nat
    BY <1>2 DEF n
  <2>4. /\ DOMAIN frames' = 1..(n + 1) /\ frames'[n + 1] = g
        /\ \A k \in 1..n : frames'[k] = on[k]
    BY <2>1, <2>2, <2>3
  <2> SUFFICES ASSUME NEW k \in DOMAIN frames'
               PROVE  Kept(k, f) \/ (k = n + 1 /\ frames'[k] = g)
    BY DEF n
  <2>5. k = n + 1 \/ k \in 1..n
    BY <2>3, <2>4
  <2>6. CASE k \in 1..n
    BY <1>2, <2>1, <2>4, <2>6 DEF n, Kept
  <2> QED
    BY <2>4, <2>5, <2>6
<1> QED
  BY <1>3, <1>4, <1>5

LEMMA FramesStillNamed ==
  ASSUME Walk, Naming, frames # <<>>, netlist' = netlist,
         \/ frames' = Front(frames)
         \/ \E f : /\ FrameNamed(f, Len(frames), AllWires, Levels)
                   /\ \/ frames' = [frames EXCEPT ![Len(frames)] = f]
                      \/ \E g : /\ FrameNamed(g, Len(frames) + 1, AllWires, Levels)
                                /\ f \in Activation /\ g \in Activation
                                /\ frames' = Append([frames EXCEPT ![Len(frames)] = f], g)
  PROVE  FramesNamed(AllWires, Levels)'
<1> SUFFICES ASSUME NEW k \in DOMAIN frames' PROVE FrameNamed(frames'[k], k, AllWires, Levels)
  BY StructureStays DEF FramesNamed
<1>1. \A i \in DOMAIN frames : FrameNamed(frames[i], i, AllWires, Levels)
  BY DEF Naming, FramesNamed
<1>2. CASE frames' = Front(frames)
  BY <1>1, <1>2, FramesBecome
<1>3. CASE \E f : /\ FrameNamed(f, Len(frames), AllWires, Levels)
                  /\ frames' = [frames EXCEPT ![Len(frames)] = f]
  BY <1>1, <1>3, FramesBecome DEF Kept
<1>4. ASSUME NEW f \in Activation, FrameNamed(f, Len(frames), AllWires, Levels),
             NEW g \in Activation, FrameNamed(g, Len(frames) + 1, AllWires, Levels),
             frames' = Append([frames EXCEPT ![Len(frames)] = f], g)
      PROVE  FrameNamed(frames'[k], k, AllWires, Levels)
  BY <1>1, <1>4, FramesBecome DEF Kept
<1> QED
  BY <1>2, <1>3, <1>4

LEMMA NamedAtWork ==
  ASSUME Walk, Naming, frames # <<>>
  PROVE  FrameNamed(F, Len(frames), AllWires, Levels)
  BY AtWork DEF Naming, FramesNamed

LEMMA AdvancedNamed ==
  ASSUME Walk, Naming, frames # <<>>, F.next > 0
  PROVE  \E f \in Activation : /\ FrameNamed(f, Len(frames), AllWires, Levels)
                               /\ Advance = [frames EXCEPT ![Len(frames)] = f]
<1>1. PICK f \in Activation : /\ Advance = [frames EXCEPT ![Len(frames)] = f]
                              /\ f = [F EXCEPT !.next = F.next + 1]
  BY Advanced
<1>2. FrameNamed(F, Len(frames), AllWires, Levels) /\ F \in Activation
  BY NamedAtWork, AtWork
<1>3. /\ f.at = F.at /\ f.prefix = F.prefix /\ f.type = F.type /\ f.bindings = F.bindings
      /\ f.local = F.local
  BY <1>1, <1>2 DEF Activation
<1>4. FrameNamed(f, Len(frames), AllWires, Levels)
  BY <1>2, <1>3 DEF FrameNamed, Situated
<1> QED
  BY <1>1, <1>4

LEMMA OpenedNamed ==
  ASSUME PlainNames, Walk, Naming, frames # <<>>, Len(frames) <= MaxDepth
  PROVE  FrameNamed([F EXCEPT !.local = Joined, !.next = 1], Len(frames), AllWires, Levels)
<1> DEFINE f == [F EXCEPT !.local = Joined, !.next = 1]
<1>1. FrameNamed(F, Len(frames), AllWires, Levels) /\ F \in Activation
  BY NamedAtWork, AtWork
<1>2. Honest(F.at, Joined, AllWires)
  BY <1>1, JoinedHonest
<1>3. /\ f.at = F.at /\ f.prefix = F.prefix /\ f.type = F.type /\ f.bindings = F.bindings
      /\ f.local = Joined
  BY <1>1 DEF Activation
<1> HIDE DEF f
<1>4. FrameNamed(f, Len(frames), AllWires, Levels)
  BY <1>1, <1>2, <1>3 DEF FrameNamed, Situated
<1> QED
  BY <1>4 DEF f

LEMMA CalledNamed ==
  ASSUME PlainNames, Walk, Naming, frames # <<>>, F.next \in DOMAIN M.children,
         Child.type \in DOMAIN Modules
  PROVE  FrameNamed(Call(Child.type, Append(F.at, Child.name), Path,
                         [p \in Signals |-> Resolve(Child.connections[p])]),
                    Len(frames) + 1, AllWires, Levels)
<1> DEFINE o == [at |-> F.at, type |-> F.type]
           b == [p \in Signals |-> Resolve(Child.connections[p])]
           at == Append(F.at, Child.name)
           g == Call(Child.type, at, Path, b)
<1>1. FrameNamed(F, Len(frames), AllWires, Levels)
  BY NamedAtWork
<1>2. /\ Len(frames) \in Nat /\ Len(frames) > 0 /\ Module(M) /\ MaxDepth \in Nat
      /\ netlist \in Netlists /\ F.next > 0
  BY AtWork, ElaborationConstants DEF Walk, Module
<1>3. Len(frames) <= MaxDepth
  BY <1>1, <1>2 DEF FrameNamed, Situated
<1>4. Child.name \in Word /\ \A p \in Signals : Child.connections[p] \in Word
  BY PlainKind
<1>5. at \in Seq(Word) /\ Path = Flat(at)
  <2>1. F.at \in Seq(Word) /\ F.prefix = Flat(F.at)
    BY <1>1 DEF FrameNamed, Situated
  <2>2. Flat(at) = Flat(F.at) \o Child.name
    BY <1>4, <2>1, FlatPath
  <2>3. at \in Seq(Word)
    BY <1>4, <2>1
  <2>4. Path = Flat(F.at) \o Child.name
    BY <2>1 DEF Path
  <2> HIDE DEF at
  <2> QED
    BY <2>2, <2>3, <2>4
<1>6. Child \in Children(o)
  BY DEF Children, Range, Child, M
<1>7. [at |-> at, type |-> Child.type] \in Levels[Len(frames)]
  <2>1. o \in Levels[Len(frames) - 1]
    BY <1>1 DEF FrameNamed, Situated
  <2>2. [at |-> at, type |-> Child.type] \in Inside(o)
    BY <1>6 DEF Inside
  <2>3. Len(frames) \in 1..MaxDepth
    BY <1>2, <1>3
  <2>4. Levels[Len(frames)] = UNION {Inside(q) : q \in Levels[Len(frames) - 1]}
    BY <1>2, <2>3, LevelsAre
  <2> HIDE DEF o, at
  <2> QED
    BY <2>1, <2>2, <2>4
<1>8. o \in Occurrences
  BY <1>1, <1>3, OccurrenceAtWork
<1>9. ASSUME NEW p \in Signals
      PROVE  Known(AllWires, [at |-> at, net |-> p], b[p])
  <2> DEFINE x == [at |-> at, net |-> p]
             y == [at |-> F.at, net |-> Child.connections[p]]
             e == <<x, y>>
  <2>1. p \in DOMAIN Child.connections /\ Child.connections[p] # NoSignal
    BY DEF Signals
  <2>2. e \in AllWires
    BY <1>6, <1>8, <2>1, PortWire
  <2>3. Known(AllWires, y, Resolve(Child.connections[p]))
    BY <1>1, <1>4, ResolvedKnown
  <2>4. b[p] = Resolve(Child.connections[p]) /\ e[1] = x /\ e[2] = y
    OBVIOUS
  <2> HIDE DEF x, y, e, b
  <2>5. Linked(AllWires, x, y)
    BY <2>2, <2>4, LinkedAlong
  <2>6. Known(AllWires, x, Resolve(Child.connections[p]))
    BY <2>3, <2>5, KnownFacts
  <2>7. Known(AllWires, x, b[p])
    BY <2>4, <2>6
  <2> QED
    BY <2>7 DEF x
<1>10. Honest(at, b, AllWires) /\ DOMAIN Empty = {}
  BY <1>9 DEF Honest, Empty
<1>11. /\ g.at = at /\ g.prefix = Path /\ g.type = Child.type /\ g.bindings = b
       /\ g.local = Empty /\ g.next = 0
  BY DEF Call
<1>12. (Len(frames) + 1) - 1 = Len(frames) /\ Len(frames) \in 0..MaxDepth /\ ~(0 > 0)
  BY <1>2, <1>3
<1> HIDE DEF g, at, b
<1>13. Situated(g, Len(frames) + 1, Levels)
  BY <1>5, <1>7, <1>11, <1>12 DEF Situated
<1>14. Honest(at, Empty, AllWires)
  BY <1>10 DEF Honest
<1>15. FrameNamed(g, Len(frames) + 1, AllWires, Levels)
  BY <1>10, <1>11, <1>13, <1>14 DEF FrameNamed
<1> QED
  BY <1>15 DEF g, at, b

-----------------------------------------------------------------------------
(* The ports take the nets of the top, and pins those they are given.      *)
LEMMA PortsStillNamed ==
  ASSUME PlainNames, Walk, PortsPlaced, Naming, frames # <<>>, netlist' = netlist,
         ports' = ports \/ Opens
  PROVE  PortsNamed(AllWires)'
<1> SUFFICES \A p \in DOMAIN ports' : Known(AllWires, [at |-> <<>>, net |-> p], ports'[p].net)
  BY StructureStays DEF PortsNamed
<1>1. CASE ports' = ports
  BY <1>1 DEF Naming, PortsNamed
<1>2. CASE ports' # ports
  <2>1. Opens /\ F.prefix = <<>>
    BY <1>2 DEF Opens
  <2>2. ports' = [p \in DOMAIN ports |-> [ports[p] EXCEPT !.net = Joined[p]]]
    BY <2>1 DEF Opens
  <2>3. \A p \in DOMAIN ports : DOMAIN ports[p] = {"direction", "net"}
    BY DEF PortsPlaced
  <2>4. DOMAIN ports' = DOMAIN ports /\ \A p \in DOMAIN ports : ports'[p].net = Joined[p]
    BY <2>2, <2>3
  <2>5. Placed(F, Len(frames), netlist, nets) /\ Module(M)
    BY AtWork
  <2>6. M = Top
    BY <2>1, <2>5 DEF Placed, M, Top
  <2>7. \A p \in DOMAIN ports : p \in M.nets
    BY <2>5, <2>6 DEF PortsPlaced, Module
  <2>8. FrameNamed(F, Len(frames), AllWires, Levels)
    BY NamedAtWork
  <2>9. Honest(F.at, Joined, AllWires)
    BY <2>1, <2>8, JoinedHonest DEF Opens
  <2>10. DOMAIN Joined = M.nets
    BY JoinedKind
  <2>11. F.at = <<>>
    <3>1. F.at \in Seq(Word) /\ F.prefix = Flat(F.at)
      BY <2>8 DEF FrameNamed, Situated
    <3>2. Len(F.at) = Len(<<>>)
      BY <2>1, <3>1, FlatPath
    <3> QED
      BY <3>1, <3>2
  <2> QED
    BY <2>4, <2>7, <2>9, <2>10, <2>11 DEF Honest
<1> QED
  BY <1>1, <1>2

(* The pins built earlier stay, and a new one is on the net of its signal. *)
LEMMA PinsBecome ==
  ASSUME PlainNames, Walk, Tables, frames # <<>>, F.next \in DOMAIN M.children,
         Child.type \notin DOMAIN Modules, Path \notin DOMAIN instances, Places,
         NEW b \in origin', b.signal # NoSignal
  PROVE  \/ b \in origin /\ (b.path \in DOMAIN pins => b.path \in DOMAIN pins'
                                                       /\ pins'[b.path] = pins[b.path])
         \/ /\ b.path \in DOMAIN pins' /\ b.at = F.at /\ b.signal \in Word
            /\ pins'[b.path].net = Resolve(b.signal)
<1>1. PinsAdded
  BY PlainNamesPlainPins, PlacesPins
<1>2. CASE b \in origin
  BY <1>1, <1>2 DEF PinsAdded
<1>3. CASE b \notin origin
  <2>1. PICK p \in Given : b = [path |-> Path \o p, at |-> F.at, child |-> F.next, pin |-> p,
                                signal |-> Child.connections[p]]
    BY <1>3 DEF Places
  <2>2. b.path = Path \o p /\ b.at = F.at /\ b.signal = Child.connections[p]
    BY <2>1
  <2>3. p \in Signals
    BY <2>2 DEF Signals, Given
  <2>4. Path \o p \in DOMAIN pins' /\ pins'[Path \o p].net = NetOf(p)
    <3>1. p \in Given
      OBVIOUS
    <3>2. Path \o p \in DOMAIN pins' /\ pins'[Path \o p] = Built[p]
      BY <1>1, <3>1 DEF PinsAdded
    <3>3. Built[p].net = NetOf(p)
      BY <3>1 DEF Built
    <3> QED
      BY <3>2, <3>3
  <2>5. NetOf(p) = Resolve(Child.connections[p])
    BY <2>3 DEF NetOf
  <2>6. Child.connections[p] \in Word
    BY <2>3, PlainKind
  <2> QED
    BY <2>2, <2>4, <2>5, <2>6
<1> QED
  BY <1>2, <1>3

LEMMA PinsStillNamed ==
  ASSUME PlainNames, Walk, Tables, Naming, frames # <<>>, F.next \in DOMAIN M.children,
         Child.type \notin DOMAIN Modules, Path \notin DOMAIN instances, Places,
         netlist' = netlist
  PROVE  PinsNamed(AllWires)'
<1> SUFFICES ASSUME NEW b \in origin', b.signal # NoSignal
             PROVE  /\ b.path \in DOMAIN pins'
                    /\ Known(AllWires, [at |-> b.at, net |-> b.signal], pins'[b.path].net)
  BY StructureStays DEF PinsNamed
<1>1. CASE b \in origin /\ (b.path \in DOMAIN pins => b.path \in DOMAIN pins'
                                                     /\ pins'[b.path] = pins[b.path])
  BY <1>1 DEF Naming, PinsNamed
<1>2. CASE /\ b.path \in DOMAIN pins' /\ b.at = F.at /\ b.signal \in Word
           /\ pins'[b.path].net = Resolve(b.signal)
  BY <1>2, NamedAtWork, ResolvedKnown
<1> QED
  BY <1>1, <1>2, PinsBecome

LEMMA NamingInit == PlainNames /\ Init => Naming
<1> SUFFICES ASSUME PlainNames, Init PROVE Naming
  OBVIOUS
<1>1. Netlist(netlist) /\ netlist \in Netlists /\ netlist.top \in DOMAIN netlist.modules
  BY ElaborationConstants DEF Init, Netlist
<1>2. DOMAIN Top.direction \subseteq Word
  <2>1. Module(Top)
    BY <1>1 DEF Netlist, Top, Modules
  <2>2. \A n \in Top.nets : Len(n) = 1
    BY <1>1 DEF PlainNames, Top, Modules
  <2> QED
    BY <2>1, <2>2 DEF Module, Word
<1>3. <<>> \in Seq(Word) /\ Flat(<<>>) = <<>>
  <2>1. <<>> \in Seq(Word) /\ Len(<<>>) = 0
    OBVIOUS
  <2>2. Flat(<<>>) \in Seq(STRING) /\ Len(Flat(<<>>)) = Len(<<>>)
    BY <2>1, FlatPath
  <2> QED
    BY <2>1, <2>2
<1>4. ASSUME NEW p \in DOMAIN Top.direction PROVE Known(AllWires, [at |-> <<>>, net |-> p], p)
  <2> DEFINE x == [at |-> <<>>, net |-> p]
  <2>1. x \in Node
    BY <1>2, <1>3 DEF Node
  <2>2. NameOf(x) = p
    <3>1. p \in Seq(STRING)
      BY <1>2 DEF Word, Name
    <3>2. <<>> \o p = p
      BY <3>1
    <3> QED
      BY <1>3, <3>2 DEF NameOf
  <2> HIDE DEF x
  <2>3. Known(AllWires, x, NameOf(x))
    BY <2>1, KnownFacts
  <2> QED
    BY <2>2, <2>3 DEF x
<1> DEFINE b == [p \in DOMAIN Top.direction |-> p]
           f == Call(netlist.top, <<>>, <<>>, b)
<1>5. frames = <<f>>
  BY DEF Init
<1>6. FrameNamed(f, 1, AllWires, Levels)
  <2>1. /\ f.at = <<>> /\ f.prefix = <<>> /\ f.type = netlist.top /\ f.bindings = b
        /\ f.local = Empty /\ f.next = 0
    BY DEF Call
  <2>2. Honest(<<>>, b, AllWires) /\ Honest(<<>>, Empty, AllWires)
    BY <1>4 DEF Honest, Empty
  <2>3. [at |-> <<>>, type |-> netlist.top] \in Levels[0]
    BY <1>1, LevelsAre
  <2>4. 1 - 1 = 0 /\ 0 \in 0..MaxDepth /\ ~(0 > 0)
    BY ElaborationConstants
  <2> HIDE DEF f, b
  <2>5. Situated(f, 1, Levels)
    BY <1>3, <2>1, <2>3, <2>4 DEF Situated
  <2> QED
    BY <2>1, <2>2, <2>5 DEF FrameNamed
<1>7. FramesNamed(AllWires, Levels)
  <2> HIDE DEF f
  <2> QED
    BY <1>5, <1>6 DEF FramesNamed
<1>8. PortsNamed(AllWires)
  <2>1. ports = [p \in DOMAIN Top.direction |-> [direction |-> Top.direction[p], net |-> p]]
    BY DEF Init
  <2>2. DOMAIN ports = DOMAIN Top.direction /\ \A p \in DOMAIN ports : ports[p].net = p
    BY <2>1
  <2> QED
    BY <1>4, <2>2 DEF PortsNamed
<1>9. PinsNamed(AllWires)
  BY DEF Init, PinsNamed
<1> QED
  BY <1>7, <1>8, <1>9 DEF Naming

LEMMA NamingNext == PlainNames /\ Walk /\ Tables /\ Naming /\ [Next]_vars => Naming'
<1> SUFFICES ASSUME PlainNames, Walk, Tables, Naming, [Next]_vars PROVE Naming'
  OBVIOUS
<1>1. ASSUME netlist' = netlist, UNCHANGED index PROVE PinsNamed(AllWires)'
  BY <1>1, StructureStays DEF Naming, PinsNamed, index
<1>2. ASSUME netlist' = netlist, ports' = ports PROVE PortsNamed(AllWires)'
  BY <1>2, StructureStays DEF Naming, PortsNamed
<1>3. PortsPlaced
  BY DEF Tables
<1>4. ASSUME EnterModule PROVE Naming'
  <2>1. /\ frames # <<>> /\ netlist' = netlist /\ UNCHANGED index
        /\ \/ frames' = Front(frames) /\ ports' = ports
           \/ Opens
    BY <1>4, EnterModuleIs
  <2>2. PinsNamed(AllWires)' /\ PortsNamed(AllWires)'
    BY <1>1, <1>3, <2>1, PortsStillNamed
  <2>3. FramesNamed(AllWires, Levels)'
    <3>1. CASE frames' = Front(frames)
      BY <2>1, <3>1, FramesStillNamed
    <3>2. CASE Opens
      BY <2>1, <3>2, OpenedNamed, FramesStillNamed DEF Opens
    <3> QED
      BY <2>1, <3>1, <3>2
  <2> QED
    BY <2>2, <2>3 DEF Naming
<1>5. ASSUME LeaveModule PROVE Naming'
  <2>1. /\ frames # <<>> /\ netlist' = netlist /\ UNCHANGED index /\ ports' = ports
        /\ frames' = Front(frames)
    BY <1>5 DEF LeaveModule, Return
  <2>2. FramesNamed(AllWires, Levels)'
    BY <2>1, FramesStillNamed
  <2> QED
    BY <1>1, <1>2, <2>1, <2>2 DEF Naming
<1>6. ASSUME frames # <<>>, F.next \in DOMAIN M.children PROVE F.next > 0
  BY <1>6, AtWork DEF Module
<1>7. ASSUME EnterChild PROVE Naming'
  <2> DEFINE g == Call(Child.type, Append(F.at, Child.name), Path,
                       [p \in Signals |-> Resolve(Child.connections[p])])
  <2>1. /\ frames # <<>> /\ netlist' = netlist /\ UNCHANGED index /\ ports' = ports
        /\ F.next \in DOMAIN M.children /\ Child.type \in DOMAIN Modules
        /\ frames' = Append(Advance, g)
    BY <1>7 DEF EnterChild
  <2>2. FrameNamed(g, Len(frames) + 1, AllWires, Levels) /\ g \in Activation
    BY <2>1, CalledNamed, CalledFrame
  <2>3. \E f \in Activation : /\ FrameNamed(f, Len(frames), AllWires, Levels)
                              /\ Advance = [frames EXCEPT ![Len(frames)] = f]
    BY <1>6, <2>1, AdvancedNamed
  <2> HIDE DEF g
  <2>4. FramesNamed(AllWires, Levels)'
    BY <2>1, <2>2, <2>3, FramesStillNamed
  <2> QED
    BY <1>1, <1>2, <2>1, <2>4 DEF Naming
<1>8. ASSUME frames # <<>>, F.next \in DOMAIN M.children, netlist' = netlist, frames' = Advance
      PROVE  FramesNamed(AllWires, Levels)'
  <2>1. \E f \in Activation : /\ FrameNamed(f, Len(frames), AllWires, Levels)
                              /\ Advance = [frames EXCEPT ![Len(frames)] = f]
    BY <1>6, <1>8, AdvancedNamed
  <2> QED
    BY <1>8, <2>1, FramesStillNamed
<1>9. ASSUME Collide PROVE Naming'
  BY <1>1, <1>2, <1>8, <1>9 DEF Collide, AtLeaf, Naming
<1>10. ASSUME PlaceLeaf PROVE Naming'
  <2>1. /\ frames # <<>> /\ F.next \in DOMAIN M.children /\ Child.type \notin DOMAIN Modules
        /\ Path \notin DOMAIN instances /\ netlist' = netlist /\ ports' = ports
        /\ \/ frames' = Front(frames) /\ UNCHANGED index
           \/ Places
    BY <1>10, PlaceLeafIs
  <2>2. CASE frames' = Front(frames) /\ UNCHANGED index
    BY <1>1, <1>2, <2>1, <2>2, FramesStillNamed DEF Naming
  <2>3. CASE Places
    BY <1>2, <1>8, <2>1, <2>3, PinsStillNamed DEF Naming, Places
  <2> QED
    BY <2>1, <2>2, <2>3
<1>11. ASSUME Finish PROVE Naming'
  <2>1. netlist' = netlist /\ frames' = frames /\ ports' = ports /\ pins' = pins /\ origin' = origin
    BY <1>11 DEF Finish
  <2> QED
    BY <2>1, StructureStays DEF Naming, FramesNamed, PortsNamed, PinsNamed
<1>12. CASE UNCHANGED vars
  BY <1>12, StructureStays DEF vars, Naming, FramesNamed, PortsNamed, PinsNamed
<1> QED
  BY <1>4, <1>5, <1>7, <1>9, <1>10, <1>11, <1>12 DEF Next

(* Nothing is shorted, however far an elaboration came: two pins or ports  *)
(* that have one net in the index are wired together in the structure, by  *)
(* assignments and connections.                                            *)
THEOREM NothingIsShorted ==
  ASSUME PlainNames
  PROVE  Spec => []NetsSound
<1>1. Init => Walk /\ Tables /\ Naming
  BY WalkInit, TablesInit, NamingInit
<1>2. Walk /\ Tables /\ Naming /\ [Next]_vars => (Walk /\ Tables /\ Naming)'
  BY PlainNamesPlainPins, WalkNext, TablesNext, NamingNext
<1>3. Walk /\ Tables /\ Naming => NetsSound
  <2> SUFFICES ASSUME Walk, Naming,
                      NEW x \in Probes, NEW y \in Probes, x.net = y.net
               PROVE  Class[x.node] = Class[y.node]
    BY DEF NetsSound
  <2>1. ASSUME NEW z \in Probes PROVE Known(AllWires, z.node, z.net)
    <3>1. CASE \E b \in origin : /\ b.signal # NoSignal
                                 /\ z = [node |-> [at |-> b.at, net |-> b.signal],
                                         net |-> pins[b.path].net]
      BY <3>1 DEF Naming, PinsNamed
    <3>2. CASE \E p \in DOMAIN ports : z = [node |-> [at |-> <<>>, net |-> p],
                                            net |-> ports[p].net]
      BY <3>2 DEF Naming, PortsNamed
    <3> QED
      BY <3>1, <3>2 DEF Probes
  <2>2. Known(AllWires, x.node, x.net) /\ Known(AllWires, y.node, x.net)
    BY <2>1
  <2>3. Linked(AllWires, x.node, y.node)
    BY <2>2, KnownFacts
  <2>4. Respects(Class, AllWires)
    BY ClassPartition DEF Walk
  <2> QED
    BY <2>3, <2>4 DEF Linked
<1> QED
  BY <1>1, <1>2, <1>3, PTL DEF Spec

-----------------------------------------------------------------------------
(* That nothing is cut.  An assignment gives its two nets one root, and    *)
(* parts no nets that have one.                                            *)
Coarser(r, s, S) == \A x, y \in S : r[x] = r[y] => s[x] = s[y]

Meets(s, a, S) == {a[1], a[2]} \subseteq S => s[a[1]] = s[a[2]]

LEMMA JoinFacts ==
  ASSUME NEW m, NEW b, NEW W, NEW r \in [m.nets -> W], NEW a
  PROVE  /\ JoinOf(m, b, r, a) \in [m.nets -> W]
         /\ Coarser(r, JoinOf(m, b, r, a), m.nets) /\ Meets(JoinOf(m, b, r, a), a, m.nets)
<1> DEFINE s == JoinOf(m, b, r, a)
           Rename(old, new) == [n \in DOMAIN r |-> IF r[n] = old THEN new ELSE r[n]]
<1>1. CASE ~{a[1], a[2]} \subseteq m.nets
  <2>1. s = r
    BY <1>1 DEF JoinOf
  <2> HIDE DEF s
  <2>2. s \in [m.nets -> W] /\ Coarser(r, s, m.nets) /\ Meets(s, a, m.nets)
    BY <1>1, <2>1 DEF Coarser, Meets
  <2> QED
    BY <2>2 DEF s
<1>2. CASE {a[1], a[2]} \subseteq m.nets
  <2>1. s = Rename(r[a[2]], r[a[1]]) \/ s = Rename(r[a[1]], r[a[2]])
    BY <1>2 DEF JoinOf
  <2> HIDE DEF s
  <2>2. /\ s \in [m.nets -> W]
        /\ \A x, y \in m.nets : r[x] = r[y] => s[x] = s[y]
        /\ s[a[1]] = s[a[2]]
    <3>1. CASE s = Rename(r[a[2]], r[a[1]])
      BY <1>2, <3>1
    <3>2. CASE s = Rename(r[a[1]], r[a[2]])
      BY <1>2, <3>2
    <3> QED
      BY <2>1, <3>1, <3>2
  <2>3. Coarser(r, s, m.nets) /\ Meets(s, a, m.nets)
    BY <2>2 DEF Coarser, Meets
  <2> QED
    BY <2>2, <2>3 DEF s
<1> QED
  BY <1>1, <1>2

LEMMA RootsAliased ==
  ASSUME NEW m, NEW b, NEW prefix, Module(m), NEW a \in Range(m.aliases),
         {a[1], a[2]} \subseteq m.nets
  PROVE  RootsOf(m, b, prefix)[a[1]] = RootsOf(m, b, prefix)[a[2]]
<1> DEFINE n == Len(m.aliases)
           W == {BoundOf(m, b, prefix)[x] : x \in m.nets}
           V == [m.nets -> W]
<1>1. n \in Nat /\ DOMAIN m.aliases = 1..n
  BY DEF Module
<1>2. BoundOf(m, b, prefix) \in V
  BY DEF BoundOf
<1> HIDE DEF W
<1>3. \A r \in V : \A i \in 1..n : JoinOf(m, b, r, m.aliases[i]) \in V
  BY JoinFacts
<1>4. PICK f \in [0..n -> V] : /\ f[n] = RootsOf(m, b, prefix)
                               /\ \A i \in 1..n : f[i] = JoinOf(m, b, f[i - 1], m.aliases[i])
  <2> HIDE DEF V
  <2> QED
    BY <1>1, <1>2, <1>3, RootsAre
<1>5. PICK j \in 1..n : m.aliases[j] = a
  BY <1>1 DEF Range
<1>6. ASSUME NEW i \in 1..n
      PROVE  /\ i - 1 \in 0..n /\ f[i - 1] \in V
             /\ \A x, y \in m.nets : f[i - 1][x] = f[i - 1][y] => f[i][x] = f[i][y]
             /\ i = j => f[i][a[1]] = f[i][a[2]]
  <2>1. i - 1 \in 0..n
    BY <1>1
  <2>2. f[i - 1] \in V /\ f[i] = JoinOf(m, b, f[i - 1], m.aliases[i])
    BY <1>4, <2>1
  <2> DEFINE g == f[i - 1]  c == m.aliases[i]  h == f[i]
  <2>3. g \in [m.nets -> W] /\ h = JoinOf(m, b, g, c)
    BY <2>2
  <2> HIDE DEF g, c, h
  <2>4. /\ \A x, y \in m.nets : g[x] = g[y] => h[x] = h[y]
        /\ {c[1], c[2]} \subseteq m.nets => h[c[1]] = h[c[2]]
    <3>1. Coarser(g, h, m.nets) /\ Meets(h, c, m.nets)
      BY <2>3, JoinFacts
    <3> QED
      BY <3>1 DEF Coarser, Meets
  <2> QED
    BY <1>5, <2>1, <2>2, <2>4 DEF g, c, h
<1> DEFINE G == {i \in Nat : j <= i /\ i <= n => f[i][a[1]] = f[i][a[2]]}
<1> HIDE DEF n, V
<1>7. 0 \in G
  BY <1>1
<1>8. ASSUME NEW k \in Nat, k \in G PROVE k + 1 \in G
  <2> SUFFICES ASSUME j <= k + 1, k + 1 <= n PROVE f[k + 1][a[1]] = f[k + 1][a[2]]
    OBVIOUS
  <2>1. k + 1 \in 1..n /\ (k + 1) - 1 = k /\ k <= n
    BY <1>1
  <2>2. CASE k + 1 = j
    BY <1>6, <2>1, <2>2
  <2>3. CASE k + 1 # j
    <3>1. j <= k
      BY <1>1, <2>3
    <3>2. f[k][a[1]] = f[k][a[2]]
      BY <1>8, <2>1, <3>1
    <3> QED
      BY <1>6, <2>1, <3>2
  <2> QED
    BY <2>2, <2>3
<1> HIDE DEF G
<1>9. n \in G
  BY <1>1, <1>7, <1>8, Naturals
<1>10. f[n][a[1]] = f[n][a[2]]
  BY <1>1, <1>9 DEF G
<1> QED
  BY <1>4, <1>10

(* The assignments that are made, and prefixes that bound nets do not have. *)
Real(m) == {a \in Range(m.aliases) : {a[1], a[2]} \subseteq m.nets}

Apart(m, b, prefix) ==
  /\ \A p \in DOMAIN b \cap m.nets : \A n \in m.nets : b[p] # prefix \o n
  /\ \A x, y \in m.nets : prefix \o x = prefix \o y => x = y

(* Where assignments are direct, connected ports keep what they are bound  *)
(* to: an assignment never renames a net from outside.                     *)
Shielded(m, b, class) ==
  \A p \in DOMAIN b \cap m.nets : \A a \in Real(m) :
    class[a[1]] = class[p] => {a[1], a[2]} \cap DOMAIN b = {p}

LEMMA RootsKeepBound ==
  ASSUME NEW m, NEW b, NEW prefix, NEW class, Module(m), Shielded(m, b, class),
         Respects(class, Real(m)), Apart(m, b, prefix)
  PROVE  \A p \in DOMAIN b \cap m.nets : RootsOf(m, b, prefix)[p] = b[p]
<1> DEFINE B == DOMAIN b \cap m.nets
           W == {BoundOf(m, b, prefix)[x] : x \in m.nets}
           Inner(r, n) == \E x \in m.nets : r[n] = prefix \o x /\ class[n] = class[x]
           Outer(r, n) == \E p \in B : r[n] = b[p] /\ class[n] = class[p]
           V == {r \in [m.nets -> W] : /\ \A p \in B : r[p] = b[p]
                                       /\ \A n \in m.nets \ B : Inner(r, n) \/ Outer(r, n)}
<1>1. Len(m.aliases) \in Nat /\ DOMAIN m.aliases = 1..Len(m.aliases)
  BY DEF Module
<1>2. BoundOf(m, b, prefix) \in V
  BY DEF BoundOf
<1> HIDE DEF W
<1>3. ASSUME NEW r \in V, NEW i \in 1..Len(m.aliases)
      PROVE  JoinOf(m, b, r, m.aliases[i]) \in V
  <2> DEFINE a == m.aliases[i]  s == JoinOf(m, b, r, a)
  <2>1. /\ r \in [m.nets -> W] /\ \A p \in B : r[p] = b[p]
        /\ \A n \in m.nets \ B : Inner(r, n) \/ Outer(r, n)
    OBVIOUS
  <2>2. {a[1], a[2]} \subseteq m.nets => a \in Real(m)
    BY <1>1 DEF Range, Real
  <2>3. s \in [m.nets -> W]
    BY <2>1, JoinFacts
  <2> HIDE DEF a, V
  <2>4. CASE ~{a[1], a[2]} \subseteq m.nets
    BY <2>4 DEF JoinOf, a
  <2>5. CASE {a[1], a[2]} \subseteq m.nets
    (* Either the net renamed has an outer name, and then nothing changes, *)
    (* or it has an inner one, which no port is bound to.                  *)
    <3>1. class[a[1]] = class[a[2]]
      BY <2>2, <2>5 DEF Respects
    <3>2. ASSUME NEW from \in m.nets, NEW to \in m.nets, {from, to} = {a[1], a[2]},
                 from \in DOMAIN b => to \in DOMAIN b,
                 s = [n \in m.nets |-> IF r[n] = r[from] THEN r[to] ELSE r[n]]
          PROVE  s \in V
      <4>1. class[from] = class[to]
        BY <3>1, <3>2
      <4>2. \A p \in B : class[p] = class[a[1]] => {from, to} \cap DOMAIN b = {p}
        BY <2>2, <2>5, <3>2 DEF Shielded
      <4>3. \A p \in B : class[p] = class[from] => {from, to} \cap DOMAIN b = {p}
        BY <3>1, <3>2, <4>2
      <4>4. CASE from \in B
        <5>1. to = from
          BY <3>2, <4>3, <4>4
        <5>2. s = r
          BY <2>1, <3>2, <5>1
        <5> QED
          BY <5>2
      <4>5. CASE from \notin B /\ Outer(r, from)
        <5>1. PICK p \in B : r[from] = b[p] /\ class[from] = class[p]
          BY <4>5
        <5>2. {from, to} \cap DOMAIN b = {p}
          BY <4>3, <5>1
        <5>3. to = p
          BY <4>5, <5>2
        <5>4. r[to] = r[from]
          BY <2>1, <5>1, <5>3
        <5>5. s = r
          BY <2>1, <3>2, <5>4
        <5> QED
          BY <5>5
      <4>6. CASE from \notin B /\ Inner(r, from)
        <5>1. PICK x \in m.nets : r[from] = prefix \o x /\ class[from] = class[x]
          BY <4>6
        <5>2. \A p \in B : s[p] = b[p]
          <6>1. \A p \in B : r[p] = b[p] /\ r[p] # r[from]
            <7>1. \A p \in B : b[p] # prefix \o x
              BY Zenon DEF Apart
            <7> QED
              BY <2>1, <5>1, <7>1
          <6> HIDE DEF s
          <6> QED
            BY <3>2, <6>1
        <5>3. Inner(r, to) \/ Outer(r, to)
          BY <2>1
        <5>4. ASSUME NEW n \in m.nets \ B PROVE Inner(s, n) \/ Outer(s, n)
          <6>1. CASE r[n] = r[from]
            <7>1. ~Outer(r, n)
              BY <5>1, <6>1 DEF Apart
            <7>2. class[n] = class[from]
              <8>1. PICK y \in m.nets : r[n] = prefix \o y /\ class[n] = class[y]
                BY <2>1, <7>1
              <8>2. x = y
                BY <5>1, <6>1, <8>1 DEF Apart
              <8> QED
                BY <5>1, <8>1, <8>2
            <7>3. s[n] = r[to] /\ class[n] = class[to]
              BY <3>2, <4>1, <6>1, <7>2
            <7>4. CASE to \in B
              BY <2>1, <7>3, <7>4
            <7>5. CASE to \notin B
              BY <5>3, <7>3
            <7> QED
              BY <7>4, <7>5
          <6>2. CASE r[n] # r[from]
            <7>1. s[n] = r[n] /\ (Inner(r, n) \/ Outer(r, n))
              BY <2>1, <3>2, <6>2
            <7> HIDE DEF s
            <7> QED
              BY <7>1
          <6> QED
            BY <6>1, <6>2
        <5> HIDE DEF Inner, Outer, B, s
        <5> QED
          BY <2>3, <5>2, <5>4 DEF V
      <4> QED
        BY <2>1, <4>4, <4>5, <4>6
    <3>3. DOMAIN r = m.nets
      BY <2>1
    <3>4. CASE a[1] \in DOMAIN b \/ (a[2] \notin DOMAIN b /\ a[1] \in Outputs(m))
      <4>1. s = [n \in m.nets |-> IF r[n] = r[a[2]] THEN r[a[1]] ELSE r[n]]
        BY <2>5, <3>3, <3>4 DEF JoinOf
      <4>2. a[2] \in DOMAIN b => a[1] \in DOMAIN b
        BY <3>4
      <4> HIDE DEF s
      <4>3. s \in V
        BY <2>5, <3>2, <4>1, <4>2
      <4> QED
        BY <4>3 DEF s, a
    <3>5. CASE ~(a[1] \in DOMAIN b \/ (a[2] \notin DOMAIN b /\ a[1] \in Outputs(m)))
      <4>1. s = [n \in m.nets |-> IF r[n] = r[a[1]] THEN r[a[2]] ELSE r[n]]
        BY <2>5, <3>3, <3>5 DEF JoinOf
      <4>2. a[1] \notin DOMAIN b
        BY <3>5
      <4> HIDE DEF s
      <4>3. s \in V
        BY <2>5, <3>2, <4>1, <4>2
      <4> QED
        BY <4>3 DEF s, a
    <3> QED
      BY <3>4, <3>5
  <2> QED
    BY <2>4, <2>5
<1> HIDE DEF V
<1>4. RootsOf(m, b, prefix) \in V
  BY <1>1, <1>2, <1>3, RootsKeep
<1> QED
  BY <1>4 DEF V

-----------------------------------------------------------------------------
(* The activations that the structure asks for, level by level, each with  *)
(* what its ports are bound to.                                            *)
Signalled(c) == {p \in DOMAIN c.connections : c.connections[p] # NoSignal}

RootsIn(a) == RootsOf(Modules[a.type], a.bindings, Flat(a.at))

NetIn(a, n) == IF n \in Modules[a.type].nets THEN RootsIn(a)[n] ELSE Flat(a.at) \o n

Called(a, c) ==
  [at |-> Append(a.at, c.name), type |-> c.type,
   bindings |-> [p \in Signalled(c) |-> NetIn(a, c.connections[p])]]

Below(a) == {Called(a, c) : c \in {k \in Children(a) : k.type \in DOMAIN Modules}}

Plans[d \in 0..MaxDepth] ==
  IF d = 0
  THEN {[at |-> <<>>, type |-> netlist.top, bindings |-> [p \in DOMAIN Top.direction |-> p]]}
  ELSE UNION {Below(a) : a \in Plans[d - 1]}

(* An activation below the top is bound to shorter names than its own.     *)
Plan ==
  {a \in [at : Seq(Word), type : DOMAIN Modules, bindings : Nets] :
     \A p \in DOMAIN a.bindings : /\ Len(a.bindings[p]) <= Len(a.at) + 1
                                  /\ a.at # <<>> => Len(a.bindings[p]) <= Len(a.at)}

LEMMA PlanModule ==
  ASSUME PlainNames, netlist \in Netlists, NEW a \in Plan
  PROVE  /\ Module(Modules[a.type]) /\ Modules[a.type].nets \subseteq Word
         /\ a.at \in Seq(Word) /\ a.type \in DOMAIN Modules /\ a.bindings \in Nets
         /\ [at |-> a.at, type |-> a.type] \in Occurrence
         /\ \A c \in Children(a) :
              /\ c.type \in DOMAIN Modules => c.name \in Word
              /\ DOMAIN c.connections \subseteq Word
              /\ \A p \in Signalled(c) : c.connections[p] \in Word
<1> DEFINE o == [at |-> a.at, type |-> a.type]
           m == Modules[a.type]
<1>1. a.at \in Seq(Word) /\ a.type \in DOMAIN Modules /\ a.bindings \in Nets
  BY DEF Plan
<1>2. o \in Occurrence
  <2>1. Word \subseteq Name
    BY DEF Word
  <2>2. a.at \in Seq(Name)
    BY <1>1, <2>1
  <2> QED
    BY <1>1, <2>2 DEF Occurrence
<1>3. Children(a) = Children(o) /\ Modules[o.type] = m
  BY DEF Children
<1>4. Module(m) /\ \A c \in Children(a) : Instantiation(c)
  BY <1>2, <1>3, ModuleKind
<1>5. m.nets \subseteq Word
  <2>1. m.nets \subseteq Name
    BY <1>4 DEF Module
  <2>2. \A n \in m.nets : Len(n) = 1
    BY <1>1 DEF PlainNames, Modules
  <2> QED
    BY <2>1, <2>2 DEF Word
<1>6. ASSUME NEW c \in Children(a)
      PROVE  /\ c.type \in DOMAIN Modules => c.name \in Word
             /\ DOMAIN c.connections \subseteq Word
             /\ \A p \in Signalled(c) : c.connections[p] \in Word
  <2>1. PICK i \in DOMAIN m.children : c = m.children[i]
    BY DEF Children, Range
  <2>2. /\ c.type \in DOMAIN Modules => Len(c.name) = 1
        /\ \A p \in DOMAIN c.connections :
             /\ Len(p) = 1
             /\ c.connections[p] # NoSignal => Len(c.connections[p]) = 1
    BY <1>1, <2>1 DEF PlainNames, Modules
  <2>3. /\ c.name \in Name /\ DOMAIN c.connections \subseteq Name
        /\ \A p \in DOMAIN c.connections : c.connections[p] \in Name \cup {NoSignal}
    BY <1>4 DEF Instantiation
  <2> QED
    BY <2>2, <2>3 DEF Word, Signalled
<1> QED
  BY <1>1, <1>2, <1>4, <1>5, <1>6

(* The names of an activation's nets are not longer than its own.          *)
LEMMA NetInKind ==
  ASSUME PlainNames, netlist \in Netlists, NEW a \in Plan
  PROVE  /\ DOMAIN RootsIn(a) = Modules[a.type].nets
         /\ \A n \in Word : NetIn(a, n) \in Name /\ Len(NetIn(a, n)) <= Len(a.at) + 1
<1> DEFINE m == Modules[a.type]
           S == {n \in Name : Len(n) <= Len(a.at) + 1}
<1>1. /\ Module(m) /\ m.nets \subseteq Word /\ a.at \in Seq(Word) /\ a.bindings \in Nets
  BY PlanModule
<1>2. Flat(a.at) \in Seq(STRING) /\ Len(Flat(a.at)) = Len(a.at)
  BY <1>1, FlatPath
<1>3. ASSUME NEW n \in Word PROVE Flat(a.at) \o n \in S
  <2>1. n \in Name /\ n \in Seq(STRING) /\ Len(n) = 1
    BY DEF Word, Name
  <2>2. Flat(a.at) \o n \in Name
    BY <1>2, <2>1, Longer
  <2> DEFINE f == Flat(a.at)
  <2>3. Len(f \o n) = Len(f) + 1
    <3> HIDE DEF f
    <3>1. f \in Seq(STRING)
      BY <1>2 DEF f
    <3> QED
      BY <2>1, <3>1, ConcatOne
  <2>4. Len(f \o n) = Len(a.at) + 1 /\ Len(a.at) \in Nat
    BY <1>1, <1>2, <2>3
  <2>5. Len(f \o n) <= Len(a.at) + 1
    <3> DEFINE x == Len(f \o n)  y == Len(a.at)
    <3> HIDE DEF x, y
    <3> QED
      BY <2>4 DEF x, y
  <2> QED
    BY <2>2, <2>5
<1>4. BoundOf(m, a.bindings, Flat(a.at)) \in [m.nets -> S]
  <2>1. \A n \in DOMAIN a.bindings : a.bindings[n] \in Name
    BY <1>1 DEF Nets
  <2>2. \A n \in DOMAIN a.bindings : a.bindings[n] \in S
    BY <2>1 DEF Plan
  <2> HIDE DEF S
  <2> QED
    BY <1>1, <1>3, <2>2 DEF BoundOf
<1> HIDE DEF S, m
<1>5. \A r \in [m.nets -> S] : \A i \in 1..Len(m.aliases) :
        JoinOf(m, a.bindings, r, m.aliases[i]) \in [m.nets -> S]
  BY JoinFacts
<1>6. RootsIn(a) \in [m.nets -> S]
  <2>1. Len(m.aliases) \in Nat
    BY <1>1 DEF Module
  <2>2. RootsOf(m, a.bindings, Flat(a.at)) \in [m.nets -> S]
    BY <1>4, <1>5, <2>1, RootsKeep
  <2> QED
    BY <2>2 DEF RootsIn, m
<1>7. \A n \in Word : NetIn(a, n) \in S
  BY <1>3, <1>6 DEF NetIn, m
<1> QED
  BY <1>6, <1>7 DEF S, m

LEMMA BelowKind ==
  ASSUME PlainNames, netlist \in Netlists, NEW a \in Plan
  PROVE  Below(a) \subseteq Plan
<1> SUFFICES ASSUME NEW c \in Children(a), c.type \in DOMAIN Modules
             PROVE  Called(a, c) \in Plan
  BY DEF Below
<1> DEFINE b == [p \in Signalled(c) |-> NetIn(a, c.connections[p])]
           at == Append(a.at, c.name)
<1>1. /\ c.name \in Word /\ DOMAIN c.connections \subseteq Word /\ a.at \in Seq(Word)
      /\ \A p \in Signalled(c) : c.connections[p] \in Word
  BY PlanModule
<1>2. \A p \in Signalled(c) : b[p] \in Name /\ Len(b[p]) <= Len(a.at) + 1
  BY <1>1, NetInKind
<1>3. at \in Seq(Word) /\ Len(at) = Len(a.at) + 1 /\ Len(a.at) \in Nat
  BY <1>1
<1>4. b \in [Signalled(c) -> Name] /\ Signalled(c) \subseteq Name /\ DOMAIN b = Signalled(c)
  BY <1>1, <1>2 DEF Signalled, Word
<1>5. Called(a, c) = [at |-> at, type |-> c.type, bindings |-> b]
  BY DEF Called
<1> HIDE DEF b, at
<1>6. b \in Nets
  BY <1>4 DEF Nets
<1>7. \A p \in DOMAIN b : Len(b[p]) <= Len(at) + 1 /\ Len(b[p]) <= Len(at)
  <2>1. \A p \in DOMAIN b : Len(b[p]) \in Nat
    BY <1>2, <1>4 DEF Name
  <2> QED
    BY <1>2, <1>3, <1>4, <2>1
<1> DEFINE r == Called(a, c)
<1>8. r.at = at /\ r.bindings = b /\ r \in [at : Seq(Word), type : DOMAIN Modules, bindings : Nets]
  BY <1>3, <1>5, <1>6
<1> HIDE DEF r
<1>9. r \in Plan
  BY <1>7, <1>8 DEF Plan
<1> QED
  BY <1>9 DEF r

LEMMA TopPlan ==
  ASSUME PlainNames, netlist \in Netlists
  PROVE  [at |-> <<>>, type |-> netlist.top, bindings |-> [p \in DOMAIN Top.direction |-> p]] \in Plan
<1> DEFINE b == [p \in DOMAIN Top.direction |-> p]
           r == [at |-> <<>>, type |-> netlist.top, bindings |-> b]
<1>1. Netlist(netlist) /\ netlist.top \in DOMAIN Modules
  BY ElaborationConstants DEF Netlist, Modules
<1>2. Module(Top) /\ \A n \in Top.nets : Len(n) = 1
  BY <1>1 DEF Netlist, Top, Modules, PlainNames
<1>3. DOMAIN Top.direction \subseteq Name /\ \A p \in DOMAIN Top.direction : Len(p) = 1
  BY <1>2 DEF Module
<1>4. b \in [DOMAIN Top.direction -> Name] /\ DOMAIN b = DOMAIN Top.direction
  BY <1>3
<1>5. \A p \in DOMAIN b : Len(b[p]) = 1
  BY <1>3
<1> HIDE DEF b
<1>6. b \in Nets
  BY <1>3, <1>4 DEF Nets
<1>7. <<>> \in Seq(Word) /\ Len(<<>>) = 0
  OBVIOUS
<1>8. /\ r.at = <<>> /\ r.bindings = b
      /\ r \in [at : Seq(Word), type : DOMAIN Modules, bindings : Nets]
  BY <1>1, <1>6, <1>7
<1> HIDE DEF r
<1>10. \A p \in DOMAIN r.bindings : Len(r.bindings[p]) <= Len(r.at) + 1
  <2>1. r.at = <<>> /\ \A p \in DOMAIN r.bindings : Len(r.bindings[p]) = 1
    BY <1>5, <1>8
  <2>2. ASSUME NEW p \in DOMAIN r.bindings PROVE Len(r.bindings[p]) <= Len(r.at) + 1
    <3> DEFINE x == Len(r.bindings[p])  y == Len(r.at)
    <3>1. x = 1 /\ y = 0
      BY <1>7, <2>1
    <3> HIDE DEF x, y
    <3>2. x <= y + 1
      BY <3>1
    <3> QED
      BY <3>2 DEF x, y
  <2> QED
    BY <2>2
<1>9. r \in Plan
  BY <1>8, <1>10 DEF Plan
<1> QED
  BY <1>9 DEF r, b

LEMMA PlansAre ==
  ASSUME PlainNames, netlist \in Netlists
  PROVE  /\ Plans[0] = {[at |-> <<>>, type |-> netlist.top,
                         bindings |-> [p \in DOMAIN Top.direction |-> p]]}
         /\ \A d \in 1..MaxDepth : Plans[d] = UNION {Below(a) : a \in Plans[d - 1]}
<1> DEFINE V == SUBSET Plan
           start == {[at |-> <<>>, type |-> netlist.top,
                      bindings |-> [p \in DOMAIN Top.direction |-> p]]}
           step == [d \in 1..MaxDepth |-> [S \in V |-> UNION {Below(a) : a \in S}]]
           Eq(f) == f = [d \in 0..MaxDepth |-> IF d = 0 THEN start
                                               ELSE UNION {Below(a) : a \in f[d - 1]}]
<1>1. MaxDepth \in Nat
  BY ElaborationConstants
<1>2. start \in V
  BY TopPlan
<1>3. step \in [1..MaxDepth -> [V -> V]]
  BY BelowKind
<1>4. PICK f \in [0..MaxDepth -> V] : Follows(f, start, step, MaxDepth)
  <2> HIDE DEF V, step, start
  <2> QED
    BY <1>1, <1>2, <1>3, StepsExist
<1>5. ASSUME NEW d \in 0..MaxDepth
      PROVE  f[d] = IF d = 0 THEN start ELSE UNION {Below(a) : a \in f[d - 1]}
  <2>1. f[d] = IF d = 0 THEN start ELSE step[d][f[d - 1]]
    BY <1>4 DEF Follows
  <2>2. d # 0 => d \in 1..MaxDepth /\ d - 1 \in 0..MaxDepth
    BY <1>1
  <2>3. d # 0 => f[d - 1] \in V
    BY <1>4, <2>2
  <2>4. d # 0 => step[d][f[d - 1]] = UNION {Below(a) : a \in f[d - 1]}
    BY <2>2, <2>3
  <2> HIDE DEF step, start
  <2> QED
    BY <2>1, <2>4
<1>6. Eq(f)
  BY <1>4, <1>5
<1>7. Plans = CHOOSE g : Eq(g)
  BY DEF Plans
<1>8. Eq(Plans)
  <2> HIDE DEF Eq
  <2> QED
    BY <1>6, <1>7
<1> HIDE DEF start
<1>9. ASSUME NEW d \in 0..MaxDepth
      PROVE  Plans[d] = IF d = 0 THEN start ELSE UNION {Below(a) : a \in Plans[d - 1]}
  BY <1>8
<1>10. Plans[0] = start
  <2>1. 0 \in 0..MaxDepth
    BY <1>1
  <2> QED
    BY <1>9, <2>1
<1>11. ASSUME NEW d \in 1..MaxDepth
       PROVE  Plans[d] = UNION {Below(a) : a \in Plans[d - 1]}
  <2>1. d \in 0..MaxDepth /\ d # 0
    BY <1>1
  <2> QED
    BY <1>9, <2>1
<1> QED
  BY <1>10, <1>11 DEF start

(* What the plans say of occurrences, and the other way round.             *)
LEMMA PlansKind ==
  ASSUME PlainNames, netlist \in Netlists, NEW d \in 0..MaxDepth
  PROVE  /\ \A a \in Plans[d] : /\ a \in Plan /\ Len(a.at) = d
                                /\ [at |-> a.at, type |-> a.type] \in Levels[d]
         /\ \A o \in Levels[d] : \E a \in Plans[d] : a.at = o.at /\ a.type = o.type
<1> DEFINE P(k, a) == /\ a \in Plan /\ Len(a.at) = k
                      /\ [at |-> a.at, type |-> a.type] \in Levels[k]
           Q(k) == /\ \A a \in Plans[k] : P(k, a)
                   /\ \A o \in Levels[k] : \E a \in Plans[k] : a.at = o.at /\ a.type = o.type
           G == {k \in Nat : k <= MaxDepth => Q(k)}
<1>1. MaxDepth \in Nat
  BY ElaborationConstants
<1>2. 0 \in G
  <2> DEFINE r == [at |-> <<>>, type |-> netlist.top, bindings |-> [p \in DOMAIN Top.direction |-> p]]
  <2>1. Plans[0] = {r} /\ r \in Plan /\ Levels[0] = {[at |-> <<>>, type |-> netlist.top]}
    BY PlansAre, TopPlan, LevelsAre
  <2>2. r.at = <<>> /\ r.type = netlist.top /\ Len(<<>>) = 0
    OBVIOUS
  <2> HIDE DEF r
  <2>3. Q(0)
    BY <2>1, <2>2
  <2> QED
    BY <2>3
<1>3. ASSUME NEW k \in Nat, k \in G PROVE k + 1 \in G
  <2> SUFFICES ASSUME k + 1 <= MaxDepth PROVE Q(k + 1)
    OBVIOUS
  <2>1. k + 1 \in 1..MaxDepth /\ (k + 1) - 1 = k /\ k <= MaxDepth
    BY <1>1
  <2>2. /\ Plans[k + 1] = UNION {Below(a) : a \in Plans[k]}
        /\ Levels[k + 1] = UNION {Inside(o) : o \in Levels[k]}
    BY <2>1, PlansAre, LevelsAre
  <2>3. Q(k)
    BY <1>3, <2>1
  <2>4. ASSUME NEW e \in Plans[k + 1] PROVE P(k + 1, e)
    <3>1. PICK a \in Plans[k] : e \in Below(a)
      BY <2>2
    <3>2. PICK c \in Children(a) : c.type \in DOMAIN Modules /\ e = Called(a, c)
      BY <3>1 DEF Below
    <3>3. P(k, a)
      BY <2>3
    <3>4. e \in Plan
      BY <3>1, <3>3, BelowKind
    <3>5. e.at = Append(a.at, c.name) /\ e.type = c.type
      BY <3>2 DEF Called
    <3>6. a.at \in Seq(Word) /\ c.name \in Word
      BY <3>2, <3>3, PlanModule
    <3>7. Len(e.at) = k + 1
      BY <3>3, <3>5, <3>6
    <3>8. [at |-> e.at, type |-> e.type] \in Inside([at |-> a.at, type |-> a.type])
      BY <3>2, <3>5 DEF Inside, Children
    <3> QED
      BY <2>2, <3>3, <3>4, <3>7, <3>8
  <2>5. ASSUME NEW e \in Levels[k + 1]
        PROVE  \E a \in Plans[k + 1] : a.at = e.at /\ a.type = e.type
    <3>1. PICK o \in Levels[k] : e \in Inside(o)
      BY <2>2
    <3>2. PICK c \in Children(o) : /\ c.type \in DOMAIN Modules
                                   /\ e = [at |-> Append(o.at, c.name), type |-> c.type]
      BY <3>1 DEF Inside
    <3>3. PICK a \in Plans[k] : a.at = o.at /\ a.type = o.type
      BY <2>3
    <3>4. Called(a, c) \in Below(a)
      BY <3>2, <3>3 DEF Below, Children
    <3>5. Called(a, c).at = e.at /\ Called(a, c).type = e.type
      BY <3>2, <3>3 DEF Called
    <3> QED
      BY <2>2, <3>4, <3>5
  <2> QED
    BY <2>4, <2>5
<1> HIDE DEF G
<1>4. Nat \subseteq G
  BY <1>2, <1>3, Naturals
<1>5. d \in Nat /\ d <= MaxDepth
  BY <1>1
<1> QED
  BY <1>4, <1>5 DEF G

(* Modules within one module that have the same name are one.              *)
DistinctNames ==
  \A v \in Netlists : \A type \in DOMAIN v.modules :
    \A i, j \in DOMAIN v.modules[type].children :
      LET c == v.modules[type].children[i]  d == v.modules[type].children[j]
      IN  c.type \in DOMAIN v.modules /\ d.type \in DOMAIN v.modules /\ c.name = d.name => i = j

AllPlans == UNION {Plans[d] : d \in 0..MaxDepth}

LEMMA PlanIsUnique ==
  ASSUME PlainNames, DistinctNames, netlist \in Netlists,
         NEW x \in AllPlans, NEW y \in AllPlans, x.at = y.at
  PROVE  x = y
<1> DEFINE Q(k) == \A a, b \in Plans[k] : a.at = b.at => a = b
           G == {k \in Nat : k <= MaxDepth => Q(k)}
<1>1. MaxDepth \in Nat
  BY ElaborationConstants
<1>2. 0 \in G
  BY PlansAre
<1>3. ASSUME NEW k \in Nat, k \in G PROVE k + 1 \in G
  <2> SUFFICES ASSUME k + 1 <= MaxDepth, NEW a \in Plans[k + 1], NEW b \in Plans[k + 1],
                      a.at = b.at
               PROVE  a = b
    OBVIOUS
  <2>1. k + 1 \in 1..MaxDepth /\ (k + 1) - 1 = k /\ k <= MaxDepth /\ k \in 0..MaxDepth
    BY <1>1
  <2>2. Plans[k + 1] = UNION {Below(e) : e \in Plans[k]}
    BY <2>1, PlansAre
  <2>3. PICK e \in Plans[k] : a \in Below(e)
    BY <2>2
  <2>4. PICK f \in Plans[k] : b \in Below(f)
    BY <2>2
  <2>5. PICK c \in Children(e) : c.type \in DOMAIN Modules /\ a = Called(e, c)
    BY <2>3 DEF Below
  <2>6. PICK g \in Children(f) : g.type \in DOMAIN Modules /\ b = Called(f, g)
    BY <2>4 DEF Below
  <2>7. Append(e.at, c.name) = Append(f.at, g.name)
    BY <2>5, <2>6 DEF Called
  <2>8. e \in Plan /\ f \in Plan
    BY <2>1, PlansKind
  <2>9. e.at \in Seq(Word) /\ f.at \in Seq(Word) /\ c.name \in Word /\ g.name \in Word
    BY <2>5, <2>6, <2>8, PlanModule
  <2>10. e.at = f.at /\ c.name = g.name
    <3> DEFINE p == e.at  q == f.at  u == c.name  v == g.name
    <3>1. p \in Seq(Word) /\ q \in Seq(Word) /\ u \in Word /\ v \in Word
          /\ Append(p, u) = Append(q, v)
      BY <2>7, <2>9
    <3> HIDE DEF p, q, u, v
    <3>2. /\ Len(Append(p, u)) = Len(p) + 1 /\ Len(Append(q, v)) = Len(q) + 1
          /\ Append(p, u)[Len(p) + 1] = u /\ Append(q, v)[Len(q) + 1] = v
          /\ \A i \in 1..Len(p) : Append(p, u)[i] = p[i]
          /\ \A i \in 1..Len(q) : Append(q, v)[i] = q[i]
      BY <3>1
    <3>3. Len(p) = Len(q) /\ u = v
      BY <3>1, <3>2
    <3>4. p = q
      BY <3>1, <3>2, <3>3
    <3> QED
      BY <3>3, <3>4 DEF p, q, u, v
  <2>11. e = f
    BY <1>3, <2>1, <2>10
  <2>12. c = g
    <3> DEFINE m == Modules[e.type]
    <3>1. e.type \in DOMAIN Modules
      BY <2>8, PlanModule
    <3>2. PICK i \in DOMAIN m.children : c = m.children[i]
      BY DEF Children, Range
    <3>3. PICK j \in DOMAIN m.children : g = m.children[j]
      BY <2>11 DEF Children, Range
    <3>4. i = j
      BY <2>5, <2>6, <2>10, <3>1, <3>2, <3>3 DEF DistinctNames, Modules
    <3> QED
      BY <3>2, <3>3, <3>4
  <2> QED
    BY <2>5, <2>6, <2>11, <2>12
<1> HIDE DEF G
<1>4. Nat \subseteq G
  BY <1>2, <1>3, Naturals
<1>5. PICK d \in 0..MaxDepth : x \in Plans[d]
  BY DEF AllPlans
<1>6. PICK e \in 0..MaxDepth : y \in Plans[e]
  BY DEF AllPlans
<1>7. d = e
  <2>1. Len(x.at) = d
    BY <1>5, PlansKind
  <2>2. Len(y.at) = e
    BY <1>6, PlansKind
  <2> QED
    BY <2>1, <2>2
<1>8. d \in Nat /\ d <= MaxDepth
  BY <1>1
<1> QED
  BY <1>4, <1>5, <1>6, <1>7, <1>8 DEF G

(* An instance connects ports that its module has.                         *)
KnownPorts ==
  \A v \in Netlists : \A type \in DOMAIN v.modules :
    \A i \in DOMAIN v.modules[type].children :
      LET c == v.modules[type].children[i]
      IN  c.type \in DOMAIN v.modules => Signalled(c) \subseteq v.modules[c.type].nets

(* The one name that a net of the structure gets.  An activation that is   *)
(* too deep to be opened has no roots.                                     *)
Final(a, n) ==
  IF Len(a.at) < MaxDepth THEN NetIn(a, n)
  ELSE IF n \in DOMAIN a.bindings THEN a.bindings[n] ELSE Flat(a.at) \o n

Global == [x \in Node |-> Final(CHOOSE a \in AllPlans : a.at = x.at, x.net)]

LEMMA GlobalIs ==
  ASSUME PlainNames, DistinctNames, netlist \in Netlists, NEW a \in AllPlans, NEW n \in Word
  PROVE  /\ [at |-> a.at, net |-> n] \in Node
         /\ Global[[at |-> a.at, net |-> n]] = Final(a, n)
<1> DEFINE x == [at |-> a.at, net |-> n]
           c == CHOOSE b \in AllPlans : b.at = x.at
<1>1. PICK d \in 0..MaxDepth : a \in Plans[d]
  BY DEF AllPlans
<1>2. a \in Plan
  BY <1>1, PlansKind
<1>3. x \in Node /\ x.at = a.at /\ x.net = n
  BY <1>2, PlanModule DEF Node
<1> HIDE DEF x
<1>4. c \in AllPlans /\ c.at = a.at
  BY <1>3
<1>5. c = a
  <2> HIDE DEF c
  <2> QED
    BY <1>4, PlanIsUnique
<1>6. Global[x] = Final(c, x.net)
  BY <1>3 DEF Global
<1> HIDE DEF c
<1> QED
  BY <1>3, <1>5, <1>6 DEF x

(* An occurrence has its activation, and that of a child is one deeper.    *)
LEMMA PlanOf ==
  ASSUME PlainNames, netlist \in Netlists
  PROVE  /\ \A o \in Occurrences : \E d \in 0..(MaxDepth - 1) : \E a \in Plans[d] :
              a.at = o.at /\ a.type = o.type
         /\ \A d \in 0..(MaxDepth - 1) : \A a \in Plans[d] :
              /\ a \in AllPlans /\ a \in Plan /\ Len(a.at) = d
              /\ [at |-> a.at, type |-> a.type] \in Occurrences
              /\ \A c \in Children(a) : c.type \in DOMAIN Modules =>
                   d + 1 \in 1..MaxDepth /\ Called(a, c) \in Plans[d + 1]
                   /\ Called(a, c) \in AllPlans
<1>1. MaxDepth \in Nat
  BY ElaborationConstants
<1>2. ASSUME NEW o \in Occurrences
      PROVE  \E d \in 0..(MaxDepth - 1) : \E a \in Plans[d] : a.at = o.at /\ a.type = o.type
  <2>1. PICK d \in 0..(MaxDepth - 1) : o \in Levels[d]
    BY DEF Occurrences
  <2>2. d \in 0..MaxDepth
    BY <1>1
  <2>3. \E a \in Plans[d] : a.at = o.at /\ a.type = o.type
    BY <2>1, <2>2, PlansKind
  <2> QED
    BY <2>3
<1>3. ASSUME NEW d \in 0..(MaxDepth - 1), NEW a \in Plans[d]
      PROVE  /\ a \in AllPlans /\ a \in Plan /\ Len(a.at) = d
             /\ [at |-> a.at, type |-> a.type] \in Occurrences
             /\ \A c \in Children(a) : c.type \in DOMAIN Modules =>
                   d + 1 \in 1..MaxDepth /\ Called(a, c) \in Plans[d + 1]
                   /\ Called(a, c) \in AllPlans
  <2>1. d \in 0..MaxDepth /\ d + 1 \in 1..MaxDepth /\ d + 1 \in 0..MaxDepth /\ (d + 1) - 1 = d
    BY <1>1
  <2>2. /\ a \in Plan /\ Len(a.at) = d
        /\ [at |-> a.at, type |-> a.type] \in Levels[d]
    BY <2>1, PlansKind
  <2>3. a \in AllPlans /\ [at |-> a.at, type |-> a.type] \in Occurrences
    BY <2>1, <2>2 DEF AllPlans, Occurrences
  <2>4. Plans[d + 1] = UNION {Below(b) : b \in Plans[d]}
    BY <2>1, PlansAre
  <2>5. ASSUME NEW c \in Children(a), c.type \in DOMAIN Modules
        PROVE  Called(a, c) \in Plans[d + 1] /\ Called(a, c) \in AllPlans
    <3>1. Called(a, c) \in Below(a)
      BY <2>5 DEF Below
    <3>2. Called(a, c) \in Plans[d + 1]
      BY <2>4, <3>1
    <3> QED
      BY <2>1, <3>2 DEF AllPlans
  <2> QED
    BY <2>1, <2>2, <2>3, <2>5
<1> QED
  BY <1>2, <1>3

(* Below the top, where assignments are direct, a connected port is what   *)
(* it is bound to.                                                         *)
AllDirect == \A o \in Occurrences : o.at # <<>> => Direct(o)

LEMMA DirectShields ==
  ASSUME PlainNames, netlist \in Netlists, AllDirect, NEW d \in 1..(MaxDepth - 1), NEW e \in Plans[d]
  PROVE  LET m == Modules[e.type]
         IN  Shielded(m, e.bindings, Merged(m.nets, Real(m)))
<1> DEFINE o == [at |-> e.at, type |-> e.type]
           m == Modules[o.type]
           class == Merged(m.nets, Real(m))
           bound == {w[1].net : w \in {v \in AllWires : v[1].at = o.at /\ v[2].at # o.at}}
<1>1. MaxDepth \in Nat /\ d \in 0..(MaxDepth - 1) /\ d - 1 \in 0..(MaxDepth - 1) /\ d \in 1..MaxDepth
  BY ElaborationConstants
<1>2. e \in Plan /\ Len(e.at) = d /\ o \in Occurrences
  BY <1>1, PlanOf
<1>3. o.at = e.at /\ o.type = e.type /\ e.at # <<>>
  BY <1>1, <1>2
<1> HIDE DEF o
<1>4. DOMAIN e.bindings \subseteq bound
  <2>1. PICK f \in Plans[d - 1] : e \in Below(f)
    BY <1>1, PlansAre
  <2>2. PICK c \in Children(f) : c.type \in DOMAIN Modules /\ e = Called(f, c)
    BY <2>1 DEF Below
  <2> DEFINE q == [at |-> f.at, type |-> f.type]
  <2>3. q \in Occurrences /\ Len(f.at) = d - 1 /\ f \in Plan
    BY <1>1, PlanOf
  <2>4. c \in Children(q) /\ q.at = f.at
    BY <2>2 DEF Children
  <2>5. e.at = Append(f.at, c.name) /\ DOMAIN e.bindings = Signalled(c)
    BY <2>2 DEF Called
  <2> HIDE DEF q
  <2>6. ASSUME NEW p \in Signalled(c) PROVE p \in bound
    <3> DEFINE x == [at |-> Append(q.at, c.name), net |-> p]
               y == [at |-> q.at, net |-> c.connections[p]]
               w == <<x, y>>
    <3>1. w \in AllWires
      BY <2>2, <2>3, <2>4, PortWire DEF Signalled
    <3>2. w[1].at = o.at /\ w[1].net = p /\ w[2].at = f.at
      BY <1>3, <2>4, <2>5
    <3>3. f.at # e.at
      BY <1>1, <1>2, <2>3
    <3> HIDE DEF w
    <3> QED
      BY <1>3, <3>1, <3>2, <3>3
  <2> QED
    BY <2>5, <2>6
<1>5. Direct(o)
  BY <1>2, <1>3 DEF AllDirect
<1>6. \A p \in bound \cap m.nets : \A a \in Real(m) :
        class[a[1]] = class[p] => {a[1], a[2]} \cap bound = {p}
  BY <1>5, Zenon DEF Direct, AllWires, Real
<1> HIDE DEF class, bound, m
<1>7. Shielded(m, e.bindings, class)
  <2> SUFFICES ASSUME NEW p \in DOMAIN e.bindings \cap m.nets, NEW a \in Real(m),
                      class[a[1]] = class[p]
               PROVE  {a[1], a[2]} \cap DOMAIN e.bindings = {p}
    BY DEF Shielded
  <2>1. {a[1], a[2]} \cap bound = {p}
    BY <1>4, <1>6
  <2>2. {a[1], a[2]} \cap DOMAIN e.bindings \subseteq {p}
    BY <1>4, <2>1
  <2> QED
    BY <2>1, <2>2
<1>8. m = Modules[e.type]
  BY <1>3 DEF m
<1> QED
  BY <1>7, <1>8 DEF class

LEMMA BoundIsKept ==
  ASSUME PlainNames, netlist \in Netlists, AllDirect,
         NEW d \in 1..(MaxDepth - 1), NEW e \in Plans[d],
         NEW p \in DOMAIN e.bindings, p \in Modules[e.type].nets
  PROVE  RootsIn(e)[p] = e.bindings[p]
<1> DEFINE m == Modules[e.type]
           class == Merged(m.nets, Real(m))
           b == e.bindings
           prefix == Flat(e.at)
<1>1. MaxDepth \in Nat /\ d \in 0..(MaxDepth - 1)
  BY ElaborationConstants
<1>2. e \in Plan /\ Len(e.at) = d
  BY <1>1, PlanOf
<1>3. /\ Module(m) /\ m.nets \subseteq Word /\ e.at \in Seq(Word) /\ b \in Nets
      /\ [at |-> e.at, type |-> e.type] \in Occurrence
  BY <1>2, PlanModule
<1>4. Shielded(m, b, class)
  BY DirectShields
<1>5. Respects(class, Real(m))
  <2>1. IsFiniteSet(Range(m.aliases))
    BY <1>3, ModuleKind
  <2>2. IsFiniteSet(Real(m))
    BY <2>1, FS_Subset DEF Real
  <2>3. Ends(Real(m), m.nets)
    BY DEF Ends, Real
  <2> QED
    BY <2>2, <2>3, MergedPartition
<1>6. prefix \in Seq(STRING) /\ Len(prefix) = d
  BY <1>2, <1>3, FlatPath
<1>7. \A n \in m.nets : n \in Seq(STRING) /\ Len(n) = 1
  BY <1>3 DEF Word, Name
<1>8. \A q \in DOMAIN b : Len(b[q]) <= d
  BY <1>1, <1>2 DEF Plan
<1> HIDE DEF class, b, prefix, m
<1>9. \A n \in m.nets : Len(prefix \o n) = d + 1
  BY <1>6, <1>7, ConcatOne
<1>10. \A q \in DOMAIN b \cap m.nets : \A n \in m.nets : b[q] # prefix \o n
  <2> SUFFICES ASSUME NEW q \in DOMAIN b, NEW n \in m.nets, b[q] = prefix \o n PROVE FALSE
    OBVIOUS
  <2> DEFINE x == b[q]
  <2>1. Len(x) <= d
    BY <1>8
  <2>2. Len(x) = d + 1
    BY <1>9
  <2> HIDE DEF x
  <2> QED
    BY <2>1, <2>2
<1>11. \A x, y \in m.nets : prefix \o x = prefix \o y => x = y
  BY <1>6, <1>7, SameEnd
<1>a. Apart(m, b, prefix)
  BY <1>10, <1>11, Zenon DEF Apart
<1>12. \A q \in DOMAIN b \cap m.nets : RootsOf(m, b, prefix)[q] = b[q]
  BY <1>3, <1>4, <1>5, <1>a, RootsKeepBound
<1> QED
  BY <1>12 DEF RootsIn, m, b, prefix

(* The one name is the same at both ends of a wire.                        *)
LEMMA GlobalAlongWires ==
  ASSUME PlainNames, DistinctNames, KnownPorts, netlist \in Netlists, AllDirect
  PROVE  \A e \in AllWires : e[1] \in Node /\ e[2] \in Node /\ Global[e[1]] = Global[e[2]]
<1> SUFFICES ASSUME NEW e \in AllWires
             PROVE  e[1] \in Node /\ e[2] \in Node /\ Global[e[1]] = Global[e[2]]
  OBVIOUS
<1>1. MaxDepth \in Nat
  BY ElaborationConstants
<1>2. PICK o \in Occurrences :
        \/ \E a \in Range(Modules[o.type].aliases) :
             /\ a[1] \in Modules[o.type].nets /\ a[2] \in Modules[o.type].nets
             /\ e = <<[at |-> o.at, net |-> a[1]], [at |-> o.at, net |-> a[2]]>>
        \/ \E c \in Children(o) : \E p \in DOMAIN c.connections :
             /\ c.type \in DOMAIN Modules /\ c.connections[p] # NoSignal
             /\ e = <<[at |-> Append(o.at, c.name), net |-> p],
                      [at |-> o.at, net |-> c.connections[p]]>>
  BY WireCases
<1>3. PICK d \in 0..(MaxDepth - 1) : \E f \in Plans[d] : f.at = o.at /\ f.type = o.type
  BY <1>2, PlanOf
<1>4. PICK f \in Plans[d] : f.at = o.at /\ f.type = o.type
  BY <1>3
<1>5. /\ f \in AllPlans /\ f \in Plan /\ Len(f.at) = d /\ d < MaxDepth
      /\ Modules[f.type].nets \subseteq Word /\ Module(Modules[f.type])
  <2>1. f \in AllPlans /\ f \in Plan /\ Len(f.at) = d
    BY PlanOf
  <2>2. d < MaxDepth
    BY <1>1
  <2> QED
    BY <2>1, <2>2, PlanModule
<1>6. \A n \in Word : /\ [at |-> o.at, net |-> n] \in Node
                      /\ Global[[at |-> o.at, net |-> n]] = NetIn(f, n)
  <2>1. \A n \in Word : Final(f, n) = NetIn(f, n)
    BY <1>5 DEF Final
  <2> QED
    BY <1>4, <1>5, <2>1, GlobalIs
<1>7. ASSUME NEW a \in Range(Modules[o.type].aliases),
             a[1] \in Modules[o.type].nets, a[2] \in Modules[o.type].nets,
             e = <<[at |-> o.at, net |-> a[1]], [at |-> o.at, net |-> a[2]]>>
      PROVE  e[1] \in Node /\ e[2] \in Node /\ Global[e[1]] = Global[e[2]]
  <2> DEFINE x == [at |-> o.at, net |-> a[1]]
             y == [at |-> o.at, net |-> a[2]]
  <2>1. a[1] \in Word /\ a[2] \in Word
    BY <1>4, <1>5, <1>7
  <2>2. RootsIn(f)[a[1]] = RootsIn(f)[a[2]]
    BY <1>4, <1>5, <1>7, RootsAliased DEF RootsIn
  <2>3. NetIn(f, a[1]) = NetIn(f, a[2])
    BY <1>4, <1>7, <2>2 DEF NetIn
  <2>4. /\ x \in Node /\ Global[x] = NetIn(f, a[1])
        /\ y \in Node /\ Global[y] = NetIn(f, a[2])
    BY <1>6, <2>1
  <2>5. e[1] = x /\ e[2] = y
    BY <1>7
  <2> HIDE DEF x, y
  <2> QED
    BY <2>3, <2>4, <2>5
<1>8. ASSUME NEW c \in Children(o), NEW p \in DOMAIN c.connections,
             c.type \in DOMAIN Modules, c.connections[p] # NoSignal,
             e = <<[at |-> Append(o.at, c.name), net |-> p],
                   [at |-> o.at, net |-> c.connections[p]]>>
      PROVE  e[1] \in Node /\ e[2] \in Node /\ Global[e[1]] = Global[e[2]]
  <2> DEFINE x == [at |-> Append(o.at, c.name), net |-> p]
             y == [at |-> o.at, net |-> c.connections[p]]
             g == Called(f, c)
  <2>1. c \in Children(f) /\ p \in Signalled(c)
    BY <1>4, <1>8 DEF Children, Signalled
  <2>2. p \in Word /\ c.connections[p] \in Word /\ c.name \in Word
    BY <1>5, <1>8, <2>1, PlanModule
  <2>3. y \in Node /\ Global[y] = NetIn(f, c.connections[p])
    BY <1>6, <2>2
  <2>4. d + 1 \in 1..MaxDepth /\ g \in Plans[d + 1] /\ g \in AllPlans
    BY <1>8, <2>1, PlanOf
  <2>5. /\ g.at = Append(o.at, c.name) /\ g.type = c.type /\ p \in DOMAIN g.bindings
        /\ g.bindings[p] = NetIn(f, c.connections[p])
    BY <1>4, <2>1 DEF Called
  <2> HIDE DEF g
  <2>6. x \in Node /\ Global[x] = Final(g, p)
    BY <2>2, <2>4, <2>5, GlobalIs
  <2>7. Final(g, p) = g.bindings[p]
    <3>1. d + 1 \in 0..MaxDepth
      BY <1>1, <2>4
    <3>2. Len(g.at) = d + 1
      BY <2>4, <3>1, PlansKind
    <3>3. CASE d + 1 < MaxDepth
      <4>1. p \in Modules[g.type].nets
        <5>1. PICK i \in DOMAIN Modules[f.type].children : c = Modules[f.type].children[i]
          BY <2>1 DEF Children, Range
        <5>2. f.type \in DOMAIN Modules
          BY <1>5, PlanModule
        <5>3. Signalled(c) \subseteq Modules[c.type].nets
          BY <1>8, <5>1, <5>2 DEF KnownPorts, Modules
        <5> QED
          BY <2>1, <2>5, <5>3
      <4>2. d + 1 \in 1..(MaxDepth - 1)
        BY <1>1, <2>4, <3>3
      <4>3. RootsIn(g)[p] = g.bindings[p]
        BY <2>4, <2>5, <4>1, <4>2, BoundIsKept
      <4> QED
        BY <3>2, <3>3, <4>1, <4>3 DEF Final, NetIn
    <3>4. CASE ~(d + 1 < MaxDepth)
      BY <2>5, <3>2, <3>4 DEF Final
    <3> QED
      BY <3>3, <3>4
  <2>8. e[1] = x /\ e[2] = y
    BY <1>8
  <2> HIDE DEF x, y
  <2> QED
    BY <2>3, <2>5, <2>6, <2>7, <2>8
<1> QED
  BY <1>2, <1>7, <1>8

-----------------------------------------------------------------------------
(* Each activation is the one planned for it, and gives its nets the names *)
(* planned; so have pins and ports, once the top is open.                  *)
PlanOfFrame(f) == [at |-> f.at, type |-> f.type, bindings |-> f.bindings]

Planned(f, k, plans, modules) ==
  /\ PlanOfFrame(f) \in plans[k - 1]
  /\ f.next > 0 => f.local = RootsOf(modules[f.type], f.bindings, f.prefix)

FramesPlanned(plans, modules) ==
  \A k \in DOMAIN frames : Planned(frames[k], k, plans, modules)

PinsSettled(global) ==
  \A b \in origin : b.signal # NoSignal =>
    b.path \in DOMAIN pins /\ pins[b.path].net = global[[at |-> b.at, net |-> b.signal]]

Pending == warnings \cap Cuts # {} \/ (Len(frames) = 1 /\ frames[1].next = 0)

PortsSettled(global) ==
  Pending \/ \A p \in DOMAIN ports : ports[p].net = global[[at |-> <<>>, net |-> p]]

Settled == FramesPlanned(Plans, Modules) /\ PinsSettled(Global) /\ PortsSettled(Global)

LEMMA PlansStay ==
  ASSUME netlist' = netlist
  PROVE  Plans' = Plans /\ Modules' = Modules /\ Global' = Global
<1>1. Modules' = Modules /\ Top' = Top
  BY DEF Modules, Top
<1>2. Plans' = Plans
  BY <1>1 DEF Plans, Below, Called, NetIn, RootsIn, Children
<1>3. Global' = Global
  BY <1>1, <1>2 DEF Global, AllPlans, Final, NetIn, RootsIn
<1> QED
  BY <1>1, <1>2, <1>3

(* A signal at work has its planned name.                                  *)
LEMMA PlanAtWork ==
  ASSUME PlainNames, Walk, Naming, FramesPlanned(Plans, Modules), frames # <<>>
  PROVE  /\ FrameNamed(F, Len(frames), AllWires, Levels)
         /\ Planned(F, Len(frames), Plans, Modules)
         /\ PlanOfFrame(F) \in Plans[Len(frames) - 1]
         /\ Len(frames) - 1 \in 0..MaxDepth /\ F.prefix = Flat(F.at)
         /\ Len(frames) <= MaxDepth => Len(frames) - 1 \in 0..(MaxDepth - 1)
         /\ F.next > 0 => Len(frames) <= MaxDepth
<1>1. F = frames[Len(frames)] /\ Len(frames) \in DOMAIN frames /\ Len(frames) \in Nat
  BY AtWork
<1>2. FrameNamed(F, Len(frames), AllWires, Levels) /\ Planned(F, Len(frames), Plans, Modules)
  BY <1>1, NamedAtWork DEF FramesPlanned
<1>3. MaxDepth \in Nat
  BY ElaborationConstants
<1> QED
  BY <1>1, <1>2, <1>3 DEF FrameNamed, Situated, Planned

LEMMA JoinedPlanned ==
  ASSUME PlainNames, DistinctNames, Walk, Naming, FramesPlanned(Plans, Modules), frames # <<>>,
         Len(frames) <= MaxDepth
  PROVE  /\ Joined = RootsIn(PlanOfFrame(F))
         /\ \A n \in M.nets : Joined[n] = Global[[at |-> F.at, net |-> n]]
<1> DEFINE a == PlanOfFrame(F)
           d == Len(frames) - 1
<1>1. a \in Plans[d] /\ d \in 0..(MaxDepth - 1) /\ F.prefix = Flat(F.at)
  BY PlanAtWork
<1>2. a.at = F.at /\ a.type = F.type /\ a.bindings = F.bindings /\ Modules[a.type] = M
  BY DEF PlanOfFrame, M
<1> HIDE DEF a, d
<1>3. netlist \in Netlists /\ MaxDepth \in Nat
  BY ElaborationConstants DEF Walk
<1>4. a \in AllPlans /\ a \in Plan /\ Len(a.at) = d /\ d < MaxDepth /\ M.nets \subseteq Word
  <2>1. a \in AllPlans /\ a \in Plan /\ Len(a.at) = d
    BY <1>1, <1>3, PlanOf
  <2>2. d < MaxDepth
    BY <1>1, <1>3
  <2> QED
    BY <1>2, <1>3, <2>1, <2>2, PlanModule
<1>5. Joined = RootsIn(a)
  BY <1>1, <1>2, JoinedIs DEF RootsIn
<1>6. ASSUME NEW n \in M.nets PROVE Joined[n] = Global[[at |-> F.at, net |-> n]]
  <2>1. Final(a, n) = Joined[n]
    BY <1>2, <1>4, <1>5 DEF Final, NetIn
  <2>2. Global[[at |-> a.at, net |-> n]] = Final(a, n)
    BY <1>3, <1>4, GlobalIs
  <2> QED
    BY <1>2, <2>1, <2>2
<1> QED
  BY <1>5, <1>6 DEF a

LEMMA ResolvedPlanned ==
  ASSUME PlainNames, DistinctNames, Walk, Naming, FramesPlanned(Plans, Modules), frames # <<>>,
         F.next > 0, NEW n \in Word
  PROVE  /\ Resolve(n) = NetIn(PlanOfFrame(F), n)
         /\ Resolve(n) = Global[[at |-> F.at, net |-> n]]
<1> DEFINE a == PlanOfFrame(F)
           d == Len(frames) - 1
<1>1. a \in Plans[d] /\ d \in 0..(MaxDepth - 1) /\ F.prefix = Flat(F.at)
  BY PlanAtWork
<1>2. a.at = F.at /\ a.type = F.type /\ a.bindings = F.bindings /\ Modules[a.type] = M
  BY DEF PlanOfFrame, M
<1>3. F.local = RootsOf(M, F.bindings, F.prefix) /\ DOMAIN F.local = M.nets
  BY PlanAtWork, AtWork DEF Planned, Placed, M, Modules
<1> HIDE DEF a, d
<1>4. netlist \in Netlists /\ MaxDepth \in Nat
  BY ElaborationConstants DEF Walk
<1>5. a \in AllPlans /\ a \in Plan /\ Len(a.at) = d /\ d < MaxDepth
  <2>1. a \in AllPlans /\ a \in Plan /\ Len(a.at) = d
    BY <1>1, <1>4, PlanOf
  <2>2. d < MaxDepth
    BY <1>1, <1>4
  <2> QED
    BY <2>1, <2>2
<1>6. F.local = RootsIn(a)
  BY <1>1, <1>2, <1>3 DEF RootsIn
<1>7. Resolve(n) = NetIn(a, n)
  BY <1>1, <1>2, <1>3, <1>6 DEF Resolve, NetIn
<1>8. Final(a, n) = NetIn(a, n)
  BY <1>5 DEF Final
<1>9. Global[[at |-> a.at, net |-> n]] = Final(a, n)
  BY <1>4, <1>5, GlobalIs
<1> QED
  BY <1>2, <1>7, <1>8, <1>9 DEF a

LEMMA FramesStillPlanned ==
  ASSUME Walk, FramesPlanned(Plans, Modules), frames # <<>>, netlist' = netlist,
         \/ frames' = Front(frames)
         \/ \E f : /\ Planned(f, Len(frames), Plans, Modules)
                   /\ \/ frames' = [frames EXCEPT ![Len(frames)] = f]
                      \/ \E g : /\ Planned(g, Len(frames) + 1, Plans, Modules)
                                /\ f \in Activation /\ g \in Activation
                                /\ frames' = Append([frames EXCEPT ![Len(frames)] = f], g)
  PROVE  FramesPlanned(Plans, Modules)'
<1> SUFFICES ASSUME NEW k \in DOMAIN frames' PROVE Planned(frames'[k], k, Plans, Modules)
  BY PlansStay DEF FramesPlanned
<1>1. \A i \in DOMAIN frames : Planned(frames[i], i, Plans, Modules)
  BY DEF FramesPlanned
<1>2. CASE frames' = Front(frames)
  BY <1>1, <1>2, FramesBecome
<1>3. CASE \E f : /\ Planned(f, Len(frames), Plans, Modules)
                  /\ frames' = [frames EXCEPT ![Len(frames)] = f]
  BY <1>1, <1>3, FramesBecome DEF Kept
<1>4. ASSUME NEW f \in Activation, Planned(f, Len(frames), Plans, Modules),
             NEW g \in Activation, Planned(g, Len(frames) + 1, Plans, Modules),
             frames' = Append([frames EXCEPT ![Len(frames)] = f], g)
      PROVE  Planned(frames'[k], k, Plans, Modules)
  BY <1>1, <1>4, FramesBecome DEF Kept
<1> QED
  BY <1>2, <1>3, <1>4

LEMMA AdvancedPlanned ==
  ASSUME Walk, FramesPlanned(Plans, Modules), frames # <<>>, F.next > 0
  PROVE  \E f \in Activation : /\ Planned(f, Len(frames), Plans, Modules)
                               /\ Advance = [frames EXCEPT ![Len(frames)] = f]
<1>1. PICK f \in Activation : /\ Advance = [frames EXCEPT ![Len(frames)] = f]
                              /\ f = [F EXCEPT !.next = F.next + 1]
  BY Advanced
<1>2. F \in Activation /\ Planned(F, Len(frames), Plans, Modules)
  BY AtWork DEF FramesPlanned
<1>3. /\ f.at = F.at /\ f.prefix = F.prefix /\ f.type = F.type /\ f.bindings = F.bindings
      /\ f.local = F.local
  BY <1>1, <1>2 DEF Activation
<1>4. Planned(f, Len(frames), Plans, Modules)
  BY <1>2, <1>3 DEF Planned, PlanOfFrame
<1> QED
  BY <1>1, <1>4

LEMMA OpenedPlanned ==
  ASSUME Walk, FramesPlanned(Plans, Modules), frames # <<>>
  PROVE  Planned([F EXCEPT !.local = Joined, !.next = 1], Len(frames), Plans, Modules)
<1> DEFINE f == [F EXCEPT !.local = Joined, !.next = 1]
<1>1. F \in Activation /\ Planned(F, Len(frames), Plans, Modules)
  BY AtWork DEF FramesPlanned
<1>2. /\ f.at = F.at /\ f.prefix = F.prefix /\ f.type = F.type /\ f.bindings = F.bindings
      /\ f.local = Joined
  BY <1>1 DEF Activation
<1>3. Joined = RootsOf(Modules[F.type], F.bindings, F.prefix)
  BY JoinedIs DEF M
<1> HIDE DEF f
<1>4. Planned(f, Len(frames), Plans, Modules)
  BY <1>1, <1>2, <1>3 DEF Planned, PlanOfFrame
<1> QED
  BY <1>4 DEF f

LEMMA CalledPlanned ==
  ASSUME PlainNames, DistinctNames, Walk, Naming, FramesPlanned(Plans, Modules), frames # <<>>,
         F.next \in DOMAIN M.children, F.next > 0, Child.type \in DOMAIN Modules
  PROVE  Planned(Call(Child.type, Append(F.at, Child.name), Path,
                      [p \in Signals |-> Resolve(Child.connections[p])]),
                 Len(frames) + 1, Plans, Modules)
<1> DEFINE a == PlanOfFrame(F)
           d == Len(frames) - 1
           g == Call(Child.type, Append(F.at, Child.name), Path,
                     [p \in Signals |-> Resolve(Child.connections[p])])
<1>1. a \in Plans[d] /\ d \in 0..(MaxDepth - 1)
  BY PlanAtWork
<1>2. netlist \in Netlists /\ Len(frames) \in Nat
  BY AtWork DEF Walk
<1>3. Child \in Children(a) /\ a.at = F.at
  BY DEF Children, Range, Child, M, PlanOfFrame
<1>4. \A p \in Signals : Resolve(Child.connections[p]) = NetIn(a, Child.connections[p])
  <2>1. \A p \in Signals : Child.connections[p] \in Word
    BY PlainKind
  <2> QED
    BY <2>1, ResolvedPlanned
<1>5. PlanOfFrame(g) = Called(a, Child)
  BY <1>3, <1>4 DEF PlanOfFrame, Call, Called, Signals, Signalled
<1>6. g.next = 0
  BY DEF Call
<1> HIDE DEF g, a, d
<1>7. Called(a, Child) \in Plans[d + 1]
  BY <1>1, <1>2, <1>3, PlanOf
<1>8. d + 1 = (Len(frames) + 1) - 1
  BY <1>2 DEF d
<1>9. Planned(g, Len(frames) + 1, Plans, Modules)
  BY <1>5, <1>6, <1>7, <1>8 DEF Planned
<1> QED
  BY <1>9 DEF g

(* Warnings stay, and only the top is not opened yet.                      *)
LEMMA PortsKeepNets ==
  ASSUME PortsSettled(Global), netlist' = netlist, ports' = ports, warnings \subseteq warnings',
         ~(Len(frames) = 1 /\ frames[1].next = 0)
  PROVE  PortsSettled(Global)'
<1>1. Global' = Global
  BY PlansStay
<1>2. CASE warnings \cap Cuts # {}
  <2>1. Pending'
    BY <1>2 DEF Pending, Cuts
  <2> QED
    BY <2>1 DEF PortsSettled
<1>3. CASE warnings \cap Cuts = {}
  <2>1. ~Pending
    BY <1>3 DEF Pending
  <2> QED
    BY <1>1, <2>1 DEF PortsSettled
<1> QED
  BY <1>2, <1>3

LEMMA OpenedPorts ==
  ASSUME PlainNames, DistinctNames, Walk, PortsPlaced, Naming, FramesPlanned(Plans, Modules),
         PortsSettled(Global), frames # <<>>, netlist' = netlist, warnings \subseteq warnings',
         Opens
  PROVE  PortsSettled(Global)'
<1>1. Placed(F, Len(frames), netlist, nets) /\ Module(M) /\ F = frames[Len(frames)]
  BY AtWork
<1>2. CASE F.prefix # <<>>
  <2>1. ports' = ports
    BY <1>2 DEF Opens
  <2>2. Len(frames) # 1
    BY <1>1, <1>2 DEF Placed
  <2> QED
    BY <2>1, <2>2, PortsKeepNets
<1>3. CASE F.prefix = <<>>
  <2>1. ports' = [p \in DOMAIN ports |-> [ports[p] EXCEPT !.net = Joined[p]]]
    BY <1>3 DEF Opens
  <2>2. \A p \in DOMAIN ports : DOMAIN ports[p] = {"direction", "net"}
    BY DEF PortsPlaced
  <2>3. DOMAIN ports' = DOMAIN ports /\ \A p \in DOMAIN ports : ports'[p].net = Joined[p]
    BY <2>1, <2>2
  <2>4. M = Top
    BY <1>1, <1>3 DEF Placed, M, Top
  <2>5. \A p \in DOMAIN ports : p \in M.nets
    BY <1>1, <2>4 DEF PortsPlaced, Module
  <2>6. \A n \in M.nets : Joined[n] = Global[[at |-> F.at, net |-> n]]
    BY JoinedPlanned DEF Opens
  <2>7. F.at = <<>>
    <3>1. F.at \in Seq(Word) /\ F.prefix = Flat(F.at)
      BY PlanAtWork DEF FrameNamed, Situated
    <3>2. Len(F.at) = Len(<<>>)
      BY <1>3, <3>1, FlatPath
    <3> QED
      BY <3>1, <3>2
  <2>8. \A p \in DOMAIN ports' : ports'[p].net = Global'[[at |-> <<>>, net |-> p]]
    BY <2>3, <2>5, <2>6, <2>7, PlansStay
  <2> QED
    BY <2>8 DEF PortsSettled
<1> QED
  BY <1>2, <1>3

LEMMA PinsStillSettled ==
  ASSUME PlainNames, DistinctNames, Walk, Tables, Naming, FramesPlanned(Plans, Modules),
         PinsSettled(Global), frames # <<>>, F.next \in DOMAIN M.children, F.next > 0,
         Child.type \notin DOMAIN Modules, Path \notin DOMAIN instances, Places,
         netlist' = netlist
  PROVE  PinsSettled(Global)'
<1> SUFFICES ASSUME NEW b \in origin', b.signal # NoSignal
             PROVE  /\ b.path \in DOMAIN pins'
                    /\ pins'[b.path].net = Global[[at |-> b.at, net |-> b.signal]]
  BY PlansStay DEF PinsSettled
<1>1. CASE b \in origin /\ (b.path \in DOMAIN pins => b.path \in DOMAIN pins'
                                                     /\ pins'[b.path] = pins[b.path])
  BY <1>1 DEF PinsSettled
<1>2. CASE /\ b.path \in DOMAIN pins' /\ b.at = F.at /\ b.signal \in Word
           /\ pins'[b.path].net = Resolve(b.signal)
  BY <1>2, ResolvedPlanned
<1> QED
  BY <1>1, <1>2, PinsBecome

LEMMA SettledInit == PlainNames /\ Init => Settled
<1> SUFFICES ASSUME PlainNames, Init PROVE Settled
  OBVIOUS
<1> DEFINE b == [p \in DOMAIN Top.direction |-> p]
           f == Call(netlist.top, <<>>, <<>>, b)
<1>1. frames = <<f>> /\ netlist \in Netlists
  BY DEF Init
<1>2. PlanOfFrame(f) \in Plans[0] /\ f.next = 0
  <2>1. Plans[0] = {[at |-> <<>>, type |-> netlist.top, bindings |-> b]}
    BY <1>1, PlansAre
  <2> HIDE DEF b
  <2> QED
    BY <2>1 DEF PlanOfFrame, Call
<1> HIDE DEF f
<1>3. Len(frames) = 1 /\ DOMAIN frames = {1} /\ frames[1] = f
  BY <1>1
<1>4. FramesPlanned(Plans, Modules)
  BY <1>2, <1>3 DEF FramesPlanned, Planned
<1>5. PortsSettled(Global)
  BY <1>2, <1>3 DEF PortsSettled, Pending
<1>6. PinsSettled(Global)
  BY DEF Init, PinsSettled
<1> QED
  BY <1>4, <1>5, <1>6 DEF Settled

LEMMA WarningsStay ==
  ASSUME [Next]_vars
  PROVE  warnings \subseteq warnings'
<1>1. CASE EnterModule
  BY <1>1 DEF EnterModule, Warn, Reserve
<1>2. CASE PlaceLeaf
  BY <1>2 DEF PlaceLeaf, Warn, Reserve
<1>3. CASE Collide
  BY <1>3 DEF Collide, Warn
<1>4. CASE LeaveModule \/ EnterChild \/ Finish \/ UNCHANGED vars
  BY <1>4 DEF LeaveModule, EnterChild, Finish, vars
<1> QED
  BY <1>1, <1>2, <1>3, <1>4 DEF Next

LEMMA SettledNext ==
  PlainNames /\ DistinctNames /\ Walk /\ Tables /\ Naming /\ Settled /\ [Next]_vars => Settled'
<1> SUFFICES ASSUME PlainNames, DistinctNames, Walk, Tables, Naming, Settled, [Next]_vars
             PROVE  Settled'
  OBVIOUS
<1>1. FramesPlanned(Plans, Modules) /\ PinsSettled(Global) /\ PortsSettled(Global) /\ PortsPlaced
  BY DEF Settled, Tables
<1>2. warnings \subseteq warnings'
  BY WarningsStay
<1>3. ASSUME netlist' = netlist, UNCHANGED index PROVE PinsSettled(Global)'
  BY <1>1, <1>3, PlansStay DEF PinsSettled, index
<1>4. ASSUME netlist' = netlist, ports' = ports, frames = <<>> \/ F.next > 0
      PROVE  PortsSettled(Global)'
  <2>1. ~(Len(frames) = 1 /\ frames[1].next = 0)
    <3>1. CASE frames = <<>>
      BY <3>1
    <3>2. CASE frames # <<>>
      BY <1>4, <3>2, AtWork
    <3> QED
      BY <3>1, <3>2
  <2> QED
    BY <1>1, <1>2, <1>4, <2>1, PortsKeepNets
<1>5. ASSUME frames # <<>>, F.next \in DOMAIN M.children PROVE F.next > 0
  BY <1>5, AtWork DEF Module
<1>6. ASSUME frames # <<>>, F.next \in DOMAIN M.children, netlist' = netlist, frames' = Advance
      PROVE  FramesPlanned(Plans, Modules)'
  <2>1. \E f \in Activation : /\ Planned(f, Len(frames), Plans, Modules)
                              /\ Advance = [frames EXCEPT ![Len(frames)] = f]
    BY <1>1, <1>5, <1>6, AdvancedPlanned
  <2> QED
    BY <1>1, <1>6, <2>1, FramesStillPlanned
<1>7. ASSUME EnterModule PROVE Settled'
  <2>1. /\ frames # <<>> /\ netlist' = netlist /\ UNCHANGED index
        /\ \/ frames' = Front(frames) /\ warnings' \cap Cuts # {}
           \/ Opens
    BY <1>7, EnterModuleIs
  <2>2. PinsSettled(Global)'
    BY <1>3, <2>1
  <2>3. CASE frames' = Front(frames) /\ warnings' \cap Cuts # {}
    <3>1. PortsSettled(Global)'
      BY <2>3 DEF PortsSettled, Pending, Cuts
    <3>2. FramesPlanned(Plans, Modules)'
      BY <1>1, <2>1, <2>3, FramesStillPlanned
    <3> QED
      BY <2>2, <3>1, <3>2 DEF Settled
  <2>4. CASE Opens
    <3>1. PortsSettled(Global)'
      BY <1>1, <1>2, <2>1, <2>4, OpenedPorts
    <3>2. FramesPlanned(Plans, Modules)'
      BY <1>1, <2>1, <2>4, OpenedPlanned, FramesStillPlanned DEF Opens
    <3> QED
      BY <2>2, <3>1, <3>2 DEF Settled
  <2> QED
    BY <2>1, <2>3, <2>4
<1>8. ASSUME LeaveModule PROVE Settled'
  <2>1. /\ frames # <<>> /\ netlist' = netlist /\ UNCHANGED index /\ ports' = ports
        /\ frames' = Front(frames) /\ F.next > Len(M.children)
    BY <1>8 DEF LeaveModule, Return
  <2>2. F.next > 0
    BY <2>1, AtWork DEF Module
  <2>3. FramesPlanned(Plans, Modules)'
    BY <1>1, <2>1, FramesStillPlanned
  <2> QED
    BY <1>3, <1>4, <2>1, <2>2, <2>3 DEF Settled
<1>9. ASSUME EnterChild PROVE Settled'
  <2> DEFINE g == Call(Child.type, Append(F.at, Child.name), Path,
                       [p \in Signals |-> Resolve(Child.connections[p])])
  <2>1. /\ frames # <<>> /\ netlist' = netlist /\ UNCHANGED index /\ ports' = ports
        /\ F.next \in DOMAIN M.children /\ Child.type \in DOMAIN Modules
        /\ frames' = Append(Advance, g)
    BY <1>9 DEF EnterChild
  <2>2. F.next > 0
    BY <1>5, <2>1
  <2>3. Planned(g, Len(frames) + 1, Plans, Modules) /\ g \in Activation
    BY <1>1, <2>1, <2>2, CalledPlanned, CalledFrame
  <2>4. \E f \in Activation : /\ Planned(f, Len(frames), Plans, Modules)
                              /\ Advance = [frames EXCEPT ![Len(frames)] = f]
    BY <1>1, <2>1, <2>2, AdvancedPlanned
  <2> HIDE DEF g
  <2>5. FramesPlanned(Plans, Modules)'
    BY <1>1, <2>1, <2>3, <2>4, FramesStillPlanned
  <2> QED
    BY <1>3, <1>4, <2>1, <2>2, <2>5 DEF Settled
<1>10. ASSUME Collide PROVE Settled'
  <2>1. /\ frames # <<>> /\ F.next \in DOMAIN M.children /\ netlist' = netlist
        /\ frames' = Advance /\ ports' = ports /\ UNCHANGED index
    BY <1>10 DEF Collide, AtLeaf
  <2> QED
    BY <1>3, <1>4, <1>5, <1>6, <2>1 DEF Settled
<1>11. ASSUME PlaceLeaf PROVE Settled'
  <2>1. /\ frames # <<>> /\ F.next \in DOMAIN M.children /\ Child.type \notin DOMAIN Modules
        /\ Path \notin DOMAIN instances /\ netlist' = netlist /\ ports' = ports
        /\ \/ frames' = Front(frames) /\ UNCHANGED index
           \/ Places
    BY <1>11, PlaceLeafIs
  <2>2. PortsSettled(Global)' /\ F.next > 0
    BY <1>4, <1>5, <2>1
  <2>3. CASE frames' = Front(frames) /\ UNCHANGED index
    <3>1. FramesPlanned(Plans, Modules)'
      BY <1>1, <2>1, <2>3, FramesStillPlanned
    <3> QED
      BY <1>3, <2>1, <2>2, <2>3, <3>1 DEF Settled
  <2>4. CASE Places
    <3>1. FramesPlanned(Plans, Modules)'
      BY <1>6, <2>1, <2>4 DEF Places
    <3>2. PinsSettled(Global)'
      BY <1>1, <2>1, <2>2, <2>4, PinsStillSettled
    <3> QED
      BY <2>2, <3>1, <3>2 DEF Settled
  <2> QED
    BY <2>1, <2>3, <2>4
<1>12. ASSUME Finish PROVE Settled'
  <2>1. /\ frames = <<>> /\ netlist' = netlist /\ frames' = frames /\ ports' = ports
        /\ pins' = pins /\ origin' = origin
    BY <1>12 DEF Finish
  <2>2. FramesPlanned(Plans, Modules)' /\ PinsSettled(Global)'
    BY <1>1, <2>1, PlansStay DEF FramesPlanned, PinsSettled
  <2> QED
    BY <1>4, <2>1, <2>2 DEF Settled
<1>13. CASE UNCHANGED vars
  BY <1>1, <1>13, PlansStay
     DEF vars, Settled, FramesPlanned, PinsSettled, PortsSettled, Pending, Cuts
<1> QED
  BY <1>7, <1>8, <1>9, <1>10, <1>11, <1>12, <1>13 DEF Next

(* Nothing is cut: in an elaboration that was not cut short, of modules    *)
(* below the top that assign directly, pins and ports that are wired       *)
(* together in the structure have one net in the index.                    *)
THEOREM NothingIsCut ==
  ASSUME PlainNames, DistinctNames, KnownPorts
  PROVE  Spec => []NetsComplete
<1>1. Init => Walk /\ Tables /\ Naming /\ Settled
  BY WalkInit, TablesInit, NamingInit, SettledInit
<1>2. Walk /\ Tables /\ Naming /\ Settled /\ [Next]_vars => (Walk /\ Tables /\ Naming /\ Settled)'
  BY PlainNamesPlainPins, WalkNext, TablesNext, NamingNext, SettledNext
<1>3. Walk /\ Tables /\ Naming /\ Settled => NetsComplete
  <2> SUFFICES ASSUME Walk, Tables, Naming, Settled, done, warnings \cap Cuts = {}, AllDirect,
                      NEW x \in Probes, NEW y \in Probes, Class[x.node] = Class[y.node]
               PROVE  x.net = y.net
    BY DEF NetsComplete, AllDirect
  <2>1. netlist \in Netlists /\ frames = <<>>
    BY DEF Walk
  <2>2. \A p \in DOMAIN ports : ports[p].net = Global[[at |-> <<>>, net |-> p]]
    <3>1. Len(frames) = 0
      BY <2>1
    <3>2. ~Pending
      BY <3>1 DEF Pending
    <3> QED
      BY <3>2 DEF Settled, PortsSettled
  <2>3. ASSUME NEW z \in Probes PROVE z.node \in Nodes /\ z.net = Global[z.node]
    <3>1. CASE \E b \in origin : /\ b.signal # NoSignal
                                 /\ z = [node |-> [at |-> b.at, net |-> b.signal],
                                         net |-> pins[b.path].net]
      BY <3>1 DEF Settled, PinsSettled, Nodes
    <3>2. CASE \E p \in DOMAIN ports : z = [node |-> [at |-> <<>>, net |-> p],
                                            net |-> ports[p].net]
      <4>1. PICK p \in DOMAIN ports : z = [node |-> [at |-> <<>>, net |-> p],
                                           net |-> ports[p].net]
        BY <3>2
      <4> DEFINE o == [at |-> <<>>, type |-> netlist.top]
      <4>2. o \in Occurrences
        <5>1. 0 \in 0..(MaxDepth - 1)
          BY ElaborationConstants
        <5>2. o \in Levels[0]
          BY <2>1, LevelsAre
        <5> QED
          BY <5>1, <5>2 DEF Occurrences
      <4>3. p \in Top.nets /\ netlist.top \in DOMAIN Modules
        BY <2>1, ElaborationConstants DEF Tables, PortsPlaced, Netlist, Module, Top, Modules
      <4>4. p \in UNION {Modules[t].nets : t \in DOMAIN Modules}
        BY <4>3 DEF Top
      <4>5. o.at = <<>>
        OBVIOUS
      <4> HIDE DEF o
      <4>6. [at |-> <<>>, net |-> p] \in Nodes
        BY <4>2, <4>4, <4>5 DEF Nodes
      <4> QED
        BY <2>2, <4>1, <4>6
    <3> QED
      BY <3>1, <3>2 DEF Probes
  <2>4. Linked(AllWires, x.node, y.node)
    BY <2>1, <2>3, ClassPartition
  <2>5. Respects(Global, AllWires)
    BY <2>1, GlobalAlongWires DEF Respects
  <2>6. Global[x.node] = Global[y.node]
    BY <2>4, <2>5 DEF Linked
  <2> QED
    BY <2>3, <2>6
<1> QED
  BY <1>1, <1>2, <1>3, PTL DEF Spec
-----------------------------------------------------------------------------
(* That an elaboration is cut short exactly if it says so.  The account of *)
(* it is kept in two sets that the code does not have: the occurrences of  *)
(* modules that were opened, and the cells that were placed.               *)
Spot(f) == [at |-> f.at, type |-> f.type]

LeafOf(o, i) == [at |-> o.at, index |-> i, child |-> Modules[o.type].children[i]]

Inner(o, c) == [at |-> Append(o.at, c.name), type |-> c.type]

ChildrenOf(f) == Modules[f.type].children

(* Each activation was called by the one before it, for the child that it  *)
(* has just gone past.                                                     *)
Caller(f, g) ==
  /\ f.next - 1 \in DOMAIN ChildrenOf(f)
  /\ Spot(g) = Inner(f, ChildrenOf(f)[f.next - 1])
  /\ g.type \in DOMAIN Modules

Chained == \A k \in DOMAIN frames : k + 1 \in DOMAIN frames => Caller(frames[k], frames[k + 1])

(* What was opened or placed is in the structure, and lies behind the      *)
(* activations.                                                            *)
Rooted(opened, placed) ==
  /\ opened \subseteq Occurrences /\ placed \subseteq Leaves
  /\ \A o \in opened : o.at # <<>> => \E q \in opened, n \in Name : o.at = Append(q.at, n)
  /\ \A l \in placed : \E q \in opened : q.at = l.at

Behind(f, opened, placed) ==
  /\ f.next > 0 => Spot(f) \in opened
  /\ f.next = 0 => \A o \in opened : o.at # f.at
  /\ \A o \in opened : \A i \in DOMAIN ChildrenOf(f) :
       ChildrenOf(f)[i].type \in DOMAIN Modules /\ o.at = Append(f.at, ChildrenOf(f)[i].name)
         => i < f.next
  /\ \A l \in placed : l.at = f.at => l.index < f.next

AllBehind(opened, placed) == \A k \in DOMAIN frames : Behind(frames[k], opened, placed)

(* Without a cut, what was called for is open, placed or being worked at.  *)
Ahead(o, i) == \E k \in DOMAIN frames : Spot(frames[k]) = o /\ i >= frames[k].next

Reached(o, opened) == o \in opened \/ \E k \in DOMAIN frames : Spot(frames[k]) = o

Handled(o, i, opened, placed) ==
  LET c == Modules[o.type].children[i]
  IN  IF c.type \in DOMAIN Modules THEN Reached(Inner(o, c), opened) ELSE LeafOf(o, i) \in placed

Closed(opened, placed) ==
  warnings \cap Cuts = {} =>
    /\ Reached([at |-> <<>>, type |-> netlist.top], opened)
    /\ \A o \in opened : \A i \in DOMAIN Modules[o.type].children :
         Ahead(o, i) \/ Handled(o, i, opened, placed)

(* What was charged, and what the index has from it.                       *)
Charged(opened, placed) ==
  "limit" \notin warnings => remaining + Cardinality(Objects(opened, placed)) = limit

Pinned(l) == {[at |-> l.at, child |-> l.index, pin |-> p] : p \in DOMAIN l.child.connections}

Seen(built) == {[at |-> b.at, child |-> b.child, pin |-> b.pin] : b \in built}

Stored(placed) ==
  /\ DOMAIN instances = {LeafPath(l) : l \in placed}
  /\ \A k, l \in placed : LeafPath(k) = LeafPath(l) => k = l
  /\ Seen(origin) = UNION {Pinned(l) : l \in placed}

(* Each warning of a cut has its reason in the structure.                  *)
Reasons ==
  /\ {"recursive", "depth"} \cap warnings # {} => ~Bounded
  /\ "limit" \in warnings => Cost > limit
  /\ "collision" \in warnings => ~Unambiguous

Account(opened, placed) ==
  /\ Rooted(opened, placed) /\ AllBehind(opened, placed) /\ Closed(opened, placed)
  /\ Charged(opened, placed) /\ Stored(placed)

Accounted ==
  Chained /\ Reasons /\ limit \in Nat /\ \E opened, placed : Account(opened, placed)

(* Two sequences made longer by one element are equal only if they were.   *)
LEMMA AppendsEqual ==
  ASSUME NEW A, NEW a \in Seq(A), NEW b \in Seq(A), NEW x \in A, NEW y \in A,
         Append(a, x) = Append(b, y)
  PROVE  a = b /\ x = y
<1> DEFINE c == Append(a, x)
           d == Append(b, y)
<1>1. /\ Len(a) \in Nat /\ Len(c) = Len(a) + 1 /\ c[Len(a) + 1] = x
      /\ \A k \in 1..Len(a) : c[k] = a[k]
  OBVIOUS
<1>2. /\ Len(b) \in Nat /\ Len(d) = Len(b) + 1 /\ d[Len(b) + 1] = y
      /\ \A k \in 1..Len(b) : d[k] = b[k]
  OBVIOUS
<1>3. c = d
  OBVIOUS
<1> HIDE DEF c, d
<1>4. Len(a) = Len(b) /\ x = y
  BY <1>1, <1>2, <1>3
<1>5. \A k \in 1..Len(a) : a[k] = b[k]
  BY <1>1, <1>2, <1>3, <1>4
<1> QED
  BY <1>4, <1>5

(* The path that a place spells, made by the library's function.           *)
LEMMA FlattenIs ==
  ASSUME NEW at \in Seq(Word)
  PROVE  FlattenSeq(at) = Flat(at)
<1> DEFINE n == Len(at)
           Eq(f) == f = [i \in 1..n |-> IF i = 1 THEN at[i] ELSE f[i - 1] \o at[i]]
           Fl == CHOOSE f : Eq(f)
           pre(i) == [k \in 1..i |-> at[k][1]]
           h == [i \in 1..n |-> pre(i)]
<1>1. n \in Nat /\ \A k \in 1..n : at[k] \in Seq(STRING) /\ Len(at[k]) = 1 /\ at[k][1] \in STRING
  <2>1. \A w \in Word : w \in Seq(STRING) /\ Len(w) = 1 /\ w[1] \in STRING
    BY DEF Word, Name
  <2> QED
    BY <2>1
<1>2. CASE n = 0
  <2>1. at = <<>>
    BY <1>2
  <2>2. Flat(at) = <<>>
    BY <2>1 DEF Flat
  <2> QED
    BY <1>2, <2>1, <2>2 DEF FlattenSeq
<1>3. CASE n > 0
  <2>1. FlattenSeq(at) = Fl[n]
    <3>1. Len(at) # 0
      BY <1>3
    <3> QED
      BY <3>1 DEF FlattenSeq
  <2>2. \A i \in 1..n : pre(i) \in Seq(STRING) /\ Len(pre(i)) = i
    BY <1>1
  <2>3. pre(1) = at[1]
    <3>1. 1 \in 1..n
      BY <1>1, <1>3
    <3>2. at[1] \in Seq(STRING) /\ Len(at[1]) = 1
      BY <1>1, <3>1
    <3>3. pre(1) \in Seq(STRING) /\ Len(pre(1)) = 1 /\ pre(1)[1] = at[1][1]
      BY <2>2, <3>1
    <3> HIDE DEF pre
    <3>4. \A k \in 1..1 : k = 1
      OBVIOUS
    <3> QED
      BY <3>2, <3>3, <3>4
  <2>4. ASSUME NEW i \in 1..n, i # 1 PROVE pre(i) = pre(i - 1) \o at[i]
    <3>1. i - 1 \in 1..n /\ i \in Nat /\ (i - 1) + 1 = i
      BY <1>1, <2>4
    <3>2. /\ pre(i - 1) \in Seq(STRING) /\ Len(pre(i - 1)) = i - 1 /\ at[i] \in Seq(STRING)
          /\ Len(at[i]) = 1 /\ pre(i) \in Seq(STRING) /\ Len(pre(i)) = i
      BY <1>1, <2>2, <3>1
    <3>3. /\ \A k \in 1..(i - 1) : pre(i)[k] = pre(i - 1)[k]
          /\ pre(i)[i] = at[i][1]
      BY <3>1
    <3> DEFINE q == pre(i - 1) \o at[i]
    <3> HIDE DEF pre
    <3>4. /\ q \in Seq(STRING) /\ Len(q) = Len(pre(i - 1)) + 1
          /\ q[Len(pre(i - 1)) + 1] = at[i][1]
          /\ \A k \in 1..Len(pre(i - 1)) : q[k] = pre(i - 1)[k]
      BY <3>2, ConcatOne
    <3> HIDE DEF q
    <3>5. Len(q) = i /\ q[i] = at[i][1] /\ \A k \in 1..(i - 1) : q[k] = pre(i - 1)[k]
      BY <3>1, <3>2, <3>4
    <3>6. \A k \in 1..i : k = i \/ k \in 1..(i - 1)
      BY <3>1
    <3>7. \A k \in 1..i : q[k] = pre(i)[k]
      BY <3>3, <3>5, <3>6
    <3>8. q = pre(i)
      BY <3>2, <3>4, <3>5, <3>7
    <3> QED
      BY <3>8 DEF q
  <2> HIDE DEF pre
  <2>5. Eq(h)
    <3>1. \A i \in 1..n : i # 1 => i - 1 \in 1..n
      BY <1>1
    <3>2. \A i \in 1..n : h[i] = IF i = 1 THEN at[i] ELSE h[i - 1] \o at[i]
      BY <2>3, <2>4, <3>1
    <3> QED
      BY <3>2
  <2> HIDE DEF h
  <2>6. Eq(Fl)
    BY <2>5
  <2> HIDE DEF Fl
  <2>7. \A i \in 1..n : Fl[i] = pre(i)
    <3> DEFINE G == {k \in Nat : k + 1 \in 1..n => Fl[k + 1] = pre(k + 1)}
    <3>1. 0 \in G
      <4>1. 1 \in 1..n
        BY <1>1, <1>3
      <4>2. Fl[1] = at[1]
        BY <2>6, <4>1
      <4> QED
        BY <2>3, <4>2
    <3>2. ASSUME NEW k \in Nat, k \in G PROVE k + 1 \in G
      <4> SUFFICES ASSUME (k + 1) + 1 \in 1..n PROVE Fl[(k + 1) + 1] = pre((k + 1) + 1)
        OBVIOUS
      <4>1. k + 1 \in 1..n /\ ((k + 1) + 1) - 1 = k + 1 /\ (k + 1) + 1 # 1
        BY <1>1
      <4>2. Fl[k + 1] = pre(k + 1)
        BY <3>2, <4>1
      <4>3. Fl[(k + 1) + 1] = Fl[k + 1] \o at[(k + 1) + 1]
        BY <2>6, <4>1
      <4> QED
        BY <2>4, <4>1, <4>2, <4>3
    <3> HIDE DEF G
    <3>3. Nat \subseteq G
      BY <3>1, <3>2, Naturals
    <3>4. ASSUME NEW i \in 1..n PROVE Fl[i] = pre(i)
      <4>1. i - 1 \in Nat /\ (i - 1) + 1 = i
        BY <1>1
      <4> QED
        BY <3>3, <4>1 DEF G
    <3> QED
      BY <3>4
  <2>8. pre(n) = Flat(at)
    BY DEF pre, Flat
  <2>9. n \in 1..n
    BY <1>1, <1>3
  <2> QED
    BY <2>1, <2>7, <2>8, <2>9
<1> QED
  BY <1>1, <1>2, <1>3

(* The levels: how far down they are, and what is below them.              *)
LEMMA LevelLength ==
  ASSUME netlist \in Netlists
  PROVE  \A d \in 0..MaxDepth : \A o \in Levels[d] : Len(o.at) = d
<1> DEFINE G == {d \in Nat : d \in 0..MaxDepth => \A o \in Levels[d] : Len(o.at) = d}
<1>1. 0 \in G
  <2>1. \A o \in Levels[0] : o.at = <<>>
    BY LevelsAre
  <2> QED
    BY <2>1
<1>2. ASSUME NEW d \in Nat, d \in G PROVE d + 1 \in G
  <2> SUFFICES ASSUME d + 1 \in 0..MaxDepth, NEW o \in Levels[d + 1] PROVE Len(o.at) = d + 1
    OBVIOUS
  <2>1. d \in 0..MaxDepth /\ d + 1 \in 1..MaxDepth /\ (d + 1) - 1 = d
    BY ElaborationConstants
  <2>2. PICK q \in Levels[d] : o \in Inside(q)
    BY <2>1, LevelsAre
  <2>3. PICK c \in Children(q) : o = [at |-> Append(q.at, c.name), type |-> c.type]
    BY <2>2 DEF Inside
  <2>4. q \in Occurrence
    BY <2>1, LevelsKind
  <2>5. q.at \in Seq(Name) /\ c.name \in Name /\ Len(q.at) = d
    BY <1>2, <2>1, <2>4, ModuleKind
  <2>6. o.at = Append(q.at, c.name)
    BY <2>3
  <2> QED
    BY <2>5, <2>6
<1> HIDE DEF G
<1>3. Nat \subseteq G
  BY <1>1, <1>2, Naturals
<1>4. \A d \in 0..MaxDepth : d \in Nat
  OBVIOUS
<1> QED
  BY <1>3, <1>4 DEF G

LEMMA LevelBelow ==
  ASSUME netlist \in Netlists, NEW d \in 0..(MaxDepth - 1), NEW o \in Levels[d],
         NEW i \in DOMAIN Modules[o.type].children,
         Modules[o.type].children[i].type \in DOMAIN Modules
  PROVE  d + 1 \in 0..MaxDepth /\ Inner(o, Modules[o.type].children[i]) \in Levels[d + 1]
<1> DEFINE c == Modules[o.type].children[i]
<1>1. d + 1 \in 1..MaxDepth /\ (d + 1) - 1 = d /\ d + 1 \in 0..MaxDepth
  BY ElaborationConstants
<1>2. c \in Children(o)
  BY DEF Children, Range
<1>3. c.type \in DOMAIN Modules
  OBVIOUS
<1> HIDE DEF c
<1>4. Inner(o, c) \in Inside(o)
  BY <1>2, <1>3 DEF Inside, Inner
<1>5. Inner(o, c) \in Levels[d + 1]
  BY <1>1, <1>4, LevelsAre
<1> QED
  BY <1>1, <1>5 DEF c

LEMMA LevelOf ==
  ASSUME netlist \in Netlists
  PROVE  /\ \A o \in Occurrences : /\ \E d \in 0..(MaxDepth - 1) : o \in Levels[d]
                                   /\ o \in Occurrence /\ o = [at |-> o.at, type |-> o.type]
                                   /\ Len(o.at) < MaxDepth
         /\ \A d \in 0..(MaxDepth - 1) : Levels[d] \subseteq Occurrences
<1>1. \A o \in Occurrences : \E d \in 0..(MaxDepth - 1) : o \in Levels[d]
  BY DEF Occurrences
<1>2. \A o \in Occurrences : o \in Occurrence
  BY OccurrencesKind
<1>3. \A o \in Occurrence : o = [at |-> o.at, type |-> o.type]
  BY DEF Occurrence
<1>4. \A d \in 0..(MaxDepth - 1) : d \in 0..MaxDepth /\ d < MaxDepth
  BY ElaborationConstants
<1>5. \A o \in Occurrences : Len(o.at) < MaxDepth
  BY <1>1, <1>4, LevelLength
<1>6. \A d \in 0..(MaxDepth - 1) : Levels[d] \subseteq Occurrences
  BY DEF Occurrences
<1> QED
  BY <1>1, <1>2, <1>3, <1>5, <1>6

(* The cells of the structure.                                             *)
LEMMA LeavesAre ==
  ASSUME netlist \in Netlists
  PROVE  /\ \A l \in Leaves : \E o \in Occurrences : \E i \in DOMAIN Modules[o.type].children :
              /\ Modules[o.type].children[i].type \notin DOMAIN Modules
              /\ l = LeafOf(o, i)
         /\ \A o \in Occurrences : \A i \in DOMAIN Modules[o.type].children :
              Modules[o.type].children[i].type \notin DOMAIN Modules => LeafOf(o, i) \in Leaves
         /\ IsFiniteSet(Leaves)
         /\ \A l \in Leaves : Instantiation(l.child)
<1> DEFINE I(o) == {k \in DOMAIN Modules[o.type].children :
                      Modules[o.type].children[k].type \notin DOMAIN Modules}
           S(o) == {LeafOf(o, i) : i \in I(o)}
<1>1. Leaves = UNION {S(o) : o \in Occurrences}
  BY DEF Leaves, LeafOf
<1>2. \A o \in Occurrences : IsFiniteSet(S(o))
  <2> TAKE o \in Occurrences
  <2>1. Module(Modules[o.type])
    BY OccurrencesKind, ModuleKind
  <2>2. IsFiniteSet(DOMAIN Modules[o.type].children)
    BY <2>1, FS_Interval DEF Module
  <2>3. IsFiniteSet(I(o))
    BY <2>2, FS_Subset
  <2> DEFINE J == I(o)
             f == [i \in J |-> LeafOf(o, i)]
  <2>4. f = [i \in J |-> f[i]] /\ S(o) \subseteq {f[i] : i \in J}
    OBVIOUS
  <2>5. IsFiniteSet(J)
    BY <2>3
  <2> HIDE DEF f, J
  <2> QED
    BY <2>4, <2>5, ImageIsFinite
<1>3. IsFiniteSet(Leaves)
  <2> DEFINE f == [o \in Occurrences |-> S(o)]
  <2>1. f = [o \in Occurrences |-> f[o]] /\ \A o \in Occurrences : IsFiniteSet(f[o])
    BY <1>2
  <2>2. Leaves = UNION {f[o] : o \in Occurrences}
    BY <1>1
  <2>3. IsFiniteSet(Occurrences)
    BY OccurrencesKind
  <2> HIDE DEF f
  <2> QED
    BY <2>1, <2>2, <2>3, FamilyIsFinite
<1>4. \A l \in Leaves : \E o \in Occurrences : \E i \in I(o) : l = LeafOf(o, i)
  BY <1>1
<1>5. \A o \in Occurrences : \A i \in I(o) : LeafOf(o, i) \in Leaves
  BY <1>1
<1>6. \A l \in Leaves : Instantiation(l.child)
  <2> TAKE l \in Leaves
  <2>1. PICK o \in Occurrences : \E i \in I(o) : l = LeafOf(o, i)
    BY <1>4
  <2>2. PICK i \in I(o) : l = LeafOf(o, i)
    BY <2>1
  <2>3. Module(Modules[o.type])
    BY OccurrencesKind, ModuleKind
  <2>4. l.child = Modules[o.type].children[i]
    BY <2>2 DEF LeafOf
  <2> QED
    BY <2>3, <2>4 DEF Module
<1> QED
  BY <1>3, <1>4, <1>5, <1>6

-----------------------------------------------------------------------------
(* How much is built.                                                      *)
LEMMA PartsCount ==
  ASSUME NEW x, NEW names \in SUBSET Name, IsFiniteSet(names)
  PROVE  /\ IsFiniteSet(Parts(x, names)) /\ Cardinality(names) \in Nat
         /\ Cardinality(Parts(x, names)) = Cardinality(names) + 1
<1> DEFINE S == names \cup {<<>>}
           f == [n \in S |-> <<x, n>>]
<1>1. <<>> \notin names
  BY DEF Name
<1>2. IsFiniteSet(S) /\ Cardinality(S) = Cardinality(names) + 1 /\ Cardinality(names) \in Nat
  BY <1>1, FS_AddElement, FS_CardinalityType
<1>3. f \in Bijection(S, Parts(x, names))
  <2>1. f \in [S -> Parts(x, names)]
    BY DEF Parts
  <2>2. \A a, b \in S : f[a] = f[b] => a = b
    OBVIOUS
  <2>3. \A t \in Parts(x, names) : \E a \in S : f[a] = t
    BY DEF Parts
  <2> QED
    BY <2>1, <2>2, <2>3 DEF Bijection, Injection, Surjection, IsInjective
<1> HIDE DEF S, f
<1> QED
  BY <1>2, <1>3, FS_Bijection DEF ExistsBijection

OpenParts(opened) == UNION {Parts(o, Modules[o.type].nets) : o \in opened}
PlacedParts(placed) == UNION {Parts(l, DOMAIN l.child.connections) : l \in placed}

LEMMA ObjectsAre ==
  ASSUME NEW opened, NEW placed
  PROVE  Objects(opened, placed) = OpenParts(opened) \cup PlacedParts(placed)
  BY DEF Objects, OpenParts, PlacedParts

LEMMA PartsKind ==
  ASSUME netlist \in Netlists
  PROVE  /\ \A o \in Occurrences :
              /\ Modules[o.type].nets \in SUBSET Name /\ IsFiniteSet(Modules[o.type].nets)
              /\ IsFiniteSet(Parts(o, Modules[o.type].nets))
         /\ \A l \in Leaves :
              /\ DOMAIN l.child.connections \in SUBSET Name /\ IsFiniteSet(DOMAIN l.child.connections)
              /\ IsFiniteSet(Parts(l, DOMAIN l.child.connections))
         /\ \A o \in Occurrences, l \in Leaves : o # l
<1>1. ASSUME NEW o \in Occurrences
      PROVE  Modules[o.type].nets \in SUBSET Name /\ IsFiniteSet(Modules[o.type].nets)
  <2>1. Module(Modules[o.type])
    BY OccurrencesKind, ModuleKind
  <2> QED
    BY <2>1 DEF Module
<1>2. ASSUME NEW l \in Leaves
      PROVE  DOMAIN l.child.connections \in SUBSET Name /\ IsFiniteSet(DOMAIN l.child.connections)
  <2>1. Instantiation(l.child)
    BY LeavesAre
  <2> QED
    BY <2>1 DEF Instantiation
<1>3. ASSUME NEW o \in Occurrences, NEW l \in Leaves PROVE o # l
  <2>1. DOMAIN o = {"at", "type"}
    <3>1. o = [at |-> o.at, type |-> o.type]
      BY LevelOf
    <3> QED
      BY <3>1
  <2>2. DOMAIN l = {"at", "index", "child"}
    <3>1. PICK q \in Occurrences : \E i \in DOMAIN Modules[q.type].children : l = LeafOf(q, i)
      BY LeavesAre
    <3> QED
      BY <3>1 DEF LeafOf
  <2> QED
    BY <2>1, <2>2
<1> QED
  BY <1>1, <1>2, <1>3, PartsCount

LEMMA ObjectsFinite ==
  ASSUME netlist \in Netlists, NEW opened \in SUBSET Occurrences, NEW placed \in SUBSET Leaves
  PROVE  /\ IsFiniteSet(Objects(opened, placed)) /\ Cardinality(Objects(opened, placed)) \in Nat
         /\ Cardinality(Objects(opened, placed)) <= Cost /\ Cost \in Nat
<1>1. ASSUME NEW O \in SUBSET Occurrences, NEW P \in SUBSET Leaves
      PROVE  IsFiniteSet(Objects(O, P))
  <2>1. IsFiniteSet(O) /\ IsFiniteSet(P)
    BY OccurrencesKind, LeavesAre, FS_Subset
  <2>2. IsFiniteSet(OpenParts(O))
    <3> DEFINE f == [o \in O |-> Parts(o, Modules[o.type].nets)]
    <3>1. f = [o \in O |-> f[o]] /\ OpenParts(O) = UNION {f[o] : o \in O}
      BY DEF OpenParts
    <3>2. \A o \in O : IsFiniteSet(f[o])
      BY PartsKind
    <3> HIDE DEF f
    <3> QED
      BY <2>1, <3>1, <3>2, FamilyIsFinite
  <2>3. IsFiniteSet(PlacedParts(P))
    <3> DEFINE f == [l \in P |-> Parts(l, DOMAIN l.child.connections)]
    <3>1. f = [l \in P |-> f[l]] /\ PlacedParts(P) = UNION {f[l] : l \in P}
      BY DEF PlacedParts
    <3>2. \A l \in P : IsFiniteSet(f[l])
      BY PartsKind
    <3> HIDE DEF f
    <3> QED
      BY <2>1, <3>1, <3>2, FamilyIsFinite
  <2> QED
    BY <2>2, <2>3, ObjectsAre, FS_Union
<1>2. IsFiniteSet(Objects(Occurrences, Leaves)) /\ IsFiniteSet(Objects(opened, placed))
  BY <1>1
<1>3. Objects(opened, placed) \subseteq Objects(Occurrences, Leaves)
  BY DEF Objects
<1>4. Objects(opened, placed) \in SUBSET Objects(Occurrences, Leaves)
  BY <1>3
<1> QED
  BY <1>2, <1>4, FS_Subset, FS_CardinalityType DEF Cost

(* A module opened, or a cell placed, that was not before.                 *)
LEMMA CountAdds ==
  ASSUME NEW S, NEW T, IsFiniteSet(S), IsFiniteSet(T), S \cap T = {}
  PROVE  Cardinality(S \cup T) = Cardinality(S) + Cardinality(T)
<1>1. Cardinality(S \cup T) = Cardinality(S) + Cardinality(T) - Cardinality(S \cap T)
  BY FS_Union
<1>2. Cardinality(S \cap T) = 0
  BY FS_EmptySet
<1>3. Cardinality(S) \in Nat /\ Cardinality(T) \in Nat
  BY FS_CardinalityType
<1> QED
  BY <1>1, <1>2, <1>3

LEMMA ObjectsOpened ==
  ASSUME netlist \in Netlists, NEW opened \in SUBSET Occurrences, NEW placed \in SUBSET Leaves,
         NEW o \in Occurrences, o \notin opened
  PROVE  Cardinality(Objects(opened \cup {o}, placed))
           = Cardinality(Objects(opened, placed)) + (Cardinality(Modules[o.type].nets) + 1)
<1> DEFINE S == Objects(opened, placed)
           T == Parts(o, Modules[o.type].nets)
<1>1. Objects(opened \cup {o}, placed) = S \cup T
  <2>1. OpenParts(opened \cup {o}) = OpenParts(opened) \cup T
    BY DEF OpenParts
  <2> QED
    BY <2>1, ObjectsAre
<1>2. S \cap T = {}
  <2> SUFFICES ASSUME NEW t \in S, t \in T PROVE FALSE
    OBVIOUS
  <2>1. t[1] = o
    BY DEF Parts
  <2>2. CASE t \in OpenParts(opened)
    BY <2>1, <2>2 DEF OpenParts, Parts
  <2>3. CASE t \in PlacedParts(placed)
    <3>1. t[1] \in Leaves
      BY <2>3 DEF PlacedParts, Parts
    <3> QED
      BY <2>1, <3>1, PartsKind
  <2> QED
    BY <2>2, <2>3, ObjectsAre
<1>3. IsFiniteSet(S) /\ IsFiniteSet(T)
  BY ObjectsFinite, PartsKind
<1>4. Cardinality(T) = Cardinality(Modules[o.type].nets) + 1
  BY PartsKind, PartsCount
<1> HIDE DEF S, T
<1>5. Cardinality(S \cup T) = Cardinality(S) + Cardinality(T)
  BY <1>2, <1>3, CountAdds
<1> QED
  BY <1>1, <1>4, <1>5 DEF S

LEMMA ObjectsPlaced ==
  ASSUME netlist \in Netlists, NEW opened \in SUBSET Occurrences, NEW placed \in SUBSET Leaves,
         NEW l \in Leaves, l \notin placed
  PROVE  Cardinality(Objects(opened, placed \cup {l}))
           = Cardinality(Objects(opened, placed)) + (Cardinality(DOMAIN l.child.connections) + 1)
<1> DEFINE S == Objects(opened, placed)
           T == Parts(l, DOMAIN l.child.connections)
<1>1. Objects(opened, placed \cup {l}) = S \cup T
  <2>1. PlacedParts(placed \cup {l}) = PlacedParts(placed) \cup T
    BY DEF PlacedParts
  <2> QED
    BY <2>1, ObjectsAre
<1>2. S \cap T = {}
  <2> SUFFICES ASSUME NEW t \in S, t \in T PROVE FALSE
    OBVIOUS
  <2>1. t[1] = l
    BY DEF Parts
  <2>2. CASE t \in OpenParts(opened)
    <3>1. t[1] \in Occurrences
      BY <2>2 DEF OpenParts, Parts
    <3> QED
      BY <2>1, <3>1, PartsKind
  <2>3. CASE t \in PlacedParts(placed)
    BY <2>1, <2>3 DEF PlacedParts, Parts
  <2> QED
    BY <2>2, <2>3, ObjectsAre
<1>3. IsFiniteSet(S) /\ IsFiniteSet(T)
  BY ObjectsFinite, PartsKind
<1>4. Cardinality(T) = Cardinality(DOMAIN l.child.connections) + 1
  BY PartsKind, PartsCount
<1> HIDE DEF S, T
<1>5. Cardinality(S \cup T) = Cardinality(S) + Cardinality(T)
  BY <1>2, <1>3, CountAdds
<1> QED
  BY <1>1, <1>4, <1>5 DEF S

-----------------------------------------------------------------------------
(* The activations as places in the structure.                             *)
LEMMA SpotsAre ==
  ASSUME Walk, Naming, NEW k \in DOMAIN frames
  PROVE  /\ k \in Nat /\ k - 1 \in 0..MaxDepth /\ frames[k] \in Activation
         /\ Spot(frames[k]) \in Levels[k - 1] /\ Spot(frames[k]) \in Occurrence
         /\ frames[k].at \in Seq(Word) /\ frames[k].at \in Seq(Name) /\ Len(frames[k].at) = k - 1
         /\ frames[k].type \in DOMAIN Modules /\ Module(Modules[frames[k].type])
         /\ frames[k].next \in Nat
         /\ frames[k].next > 0 => k - 1 \in 0..(MaxDepth - 1) /\ Spot(frames[k]) \in Occurrences
<1>1. frames \in Seq(Activation) /\ netlist \in Netlists /\ MaxDepth \in Nat
  BY ElaborationConstants DEF Walk
<1>2. k \in Nat /\ frames[k] \in Activation
  BY <1>1
<1>3. Situated(frames[k], k, Levels)
  BY DEF Naming, FramesNamed, FrameNamed
<1>4. k - 1 \in 0..MaxDepth /\ Spot(frames[k]) \in Levels[k - 1] /\ frames[k].at \in Seq(Word)
  BY <1>3 DEF Situated, Spot
<1>5. Spot(frames[k]) \in Occurrence /\ Len(Spot(frames[k]).at) = k - 1
  BY <1>1, <1>4, LevelsKind, LevelLength
<1>6. Spot(frames[k]).at = frames[k].at /\ Spot(frames[k]).type = frames[k].type
  BY DEF Spot
<1>7. Module(Modules[frames[k].type]) /\ frames[k].type \in DOMAIN Modules /\ frames[k].at \in Seq(Name)
  BY <1>1, <1>5, <1>6, ModuleKind
<1>8. frames[k].next \in Nat
  BY <1>2 DEF Activation
<1>9. ASSUME frames[k].next > 0
      PROVE  k - 1 \in 0..(MaxDepth - 1) /\ Spot(frames[k]) \in Occurrences
  <2>1. k - 1 \in 0..(MaxDepth - 1)
    BY <1>1, <1>2, <1>3, <1>4, <1>9 DEF Situated
  <2> QED
    BY <1>1, <1>4, <2>1, LevelOf
<1> QED
  BY <1>2, <1>4, <1>5, <1>6, <1>7, <1>8, <1>9

LEMMA StructureKept ==
  ASSUME netlist' = netlist
  PROVE  /\ Modules' = Modules /\ Occurrences' = Occurrences /\ Leaves' = Leaves
         /\ Bounded' = Bounded /\ Unambiguous' = Unambiguous /\ Cost' = Cost
<1>1. Levels' = Levels /\ Modules' = Modules
  BY StructureStays DEF Modules
<1>2. Occurrences' = Occurrences
  BY <1>1 DEF Occurrences
<1>3. Leaves' = Leaves
  BY <1>1, <1>2 DEF Leaves
<1>4. Bounded' = Bounded
  BY <1>1 DEF Bounded
<1>5. Unambiguous' = Unambiguous
  BY <1>3 DEF Unambiguous, LeafPath
<1>6. Cost' = Cost
  BY <1>1, <1>2, <1>3 DEF Cost, Objects
<1> QED
  BY <1>1, <1>2, <1>3, <1>4, <1>5, <1>6

LEMMA ObjectsKept ==
  ASSUME netlist' = netlist, NEW opened, NEW placed
  PROVE  Objects(opened, placed)' = Objects(opened, placed)
  BY StructureKept DEF Objects

(* An activation deeper than may be, or of a module that is being opened   *)
(* already, is one of a structure without bound.                           *)
LEMMA TooDeep ==
  ASSUME Walk, Naming, frames # <<>>, Len(frames) > MaxDepth
  PROVE  ~Bounded
<1>1. Len(frames) \in DOMAIN frames /\ Len(frames) \in Nat /\ MaxDepth \in Nat
  BY AtWork, ElaborationConstants
<1>2. Len(frames) - 1 \in 0..MaxDepth /\ Spot(frames[Len(frames)]) \in Levels[Len(frames) - 1]
  BY <1>1, SpotsAre
<1>3. Len(frames) - 1 = MaxDepth
  BY <1>1, <1>2
<1> QED
  BY <1>2, <1>3 DEF Bounded

LEMMA Circular ==
  ASSUME Walk, Naming, Chained, frames # <<>>,
         NEW i \in DOMAIN frames, i < Len(frames), frames[i].type = F.type
  PROVE  ~Bounded
<1> DEFINE n == Len(frames)
           Met(o) == \E k \in DOMAIN frames : o.type = frames[k].type
           G == {d \in Nat : d \in 0..MaxDepth => \E o \in Levels[d] : Met(o)}
<1>1. /\ n \in Nat /\ n \in DOMAIN frames /\ DOMAIN frames = 1..n /\ F = frames[n]
      /\ netlist \in Netlists /\ MaxDepth \in Nat
  BY AtWork, ElaborationConstants DEF Walk
<1>2. ASSUME NEW k \in DOMAIN frames
      PROVE  \E j \in DOMAIN Modules[frames[k].type].children :
               LET c == Modules[frames[k].type].children[j]
               IN  c.type \in DOMAIN Modules /\ \E q \in DOMAIN frames : c.type = frames[q].type
  <2>1. PICK h \in DOMAIN frames : h < n /\ frames[h].type = frames[k].type
    <3>1. CASE k = n
      BY <1>1, <3>1
    <3>2. CASE k # n
      BY <1>1, <3>2
    <3> QED
      BY <3>1, <3>2
  <2>2. h + 1 \in DOMAIN frames
    BY <1>1, <2>1
  <2>3. Caller(frames[h], frames[h + 1])
    BY <2>2 DEF Chained
  <2> DEFINE j == frames[h].next - 1
             c == Modules[frames[h].type].children[j]
  <2>4. j \in DOMAIN Modules[frames[h].type].children /\ Spot(frames[h + 1]) = Inner(frames[h], c)
        /\ frames[h + 1].type \in DOMAIN Modules
    BY <2>3 DEF Caller, ChildrenOf
  <2> HIDE DEF j
  <2>5. c.type = frames[h + 1].type
    <3>1. Spot(frames[h + 1]).type = frames[h + 1].type /\ Inner(frames[h], c).type = c.type
      BY DEF Spot, Inner
    <3> QED
      BY <2>4, <3>1
  <2> QED
    BY <2>1, <2>2, <2>4, <2>5
<1>3. 0 \in G
  <2>1. 1 \in DOMAIN frames /\ 1 - 1 = 0
    BY <1>1
  <2>2. Spot(frames[1]) \in Levels[0]
    BY <2>1, SpotsAre
  <2>3. Spot(frames[1]).type = frames[1].type
    BY DEF Spot
  <2> QED
    BY <2>1, <2>2, <2>3
<1>4. ASSUME NEW d \in Nat, d \in G PROVE d + 1 \in G
  <2> SUFFICES ASSUME d + 1 \in 0..MaxDepth PROVE \E o \in Levels[d + 1] : Met(o)
    OBVIOUS
  <2>1. d \in 0..MaxDepth /\ d \in 0..(MaxDepth - 1)
    BY <1>1
  <2>2. PICK o \in Levels[d] : Met(o)
    BY <1>4, <2>1
  <2>3. PICK k \in DOMAIN frames : o.type = frames[k].type
    BY <2>2
  <2>4. PICK j \in DOMAIN Modules[o.type].children :
          /\ Modules[o.type].children[j].type \in DOMAIN Modules
          /\ \E q \in DOMAIN frames : Modules[o.type].children[j].type = frames[q].type
    <3>1. Modules[o.type] = Modules[frames[k].type]
      BY <2>3
    <3>2. PICK j \in DOMAIN Modules[frames[k].type].children :
            /\ Modules[frames[k].type].children[j].type \in DOMAIN Modules
            /\ \E q \in DOMAIN frames : Modules[frames[k].type].children[j].type = frames[q].type
      BY <1>2
    <3> QED
      BY <3>1, <3>2
  <2> DEFINE c == Modules[o.type].children[j]
  <2>5. Inner(o, c) \in Levels[d + 1]
    BY <1>1, <2>1, <2>4, LevelBelow
  <2>6. Inner(o, c).type = c.type
    BY DEF Inner
  <2> QED
    BY <2>4, <2>5, <2>6
<1> HIDE DEF G
<1>5. MaxDepth \in G
  BY <1>1, <1>3, <1>4, Naturals
<1>6. MaxDepth \in 0..MaxDepth
  BY <1>1
<1> QED
  BY <1>5, <1>6 DEF G, Bounded

(* What the two steps that are charged do.                                 *)
LEMMA EnterModuleCases ==
  ASSUME Walk, EnterModule
  PROVE  /\ frames # <<>> /\ F.next = 0 /\ netlist' = netlist /\ limit' = limit
         /\ instances' = instances /\ origin' = origin /\ done' = done
         /\ \/ /\ frames' = Front(frames) /\ warnings' = warnings \cup {"recursive"}
               /\ remaining' = remaining
               /\ \E i \in DOMAIN frames : i < Len(frames) /\ frames[i].type = F.type
            \/ /\ frames' = Front(frames) /\ warnings' = warnings \cup {"depth"}
               /\ remaining' = remaining
               /\ Len(frames) > MaxDepth
            \/ /\ frames' = Front(frames) /\ warnings' = warnings \cup {"limit"}
               /\ Len(frames) <= MaxDepth /\ Cardinality(M.nets) + 1 > remaining
            \/ /\ frames' = [frames EXCEPT ![Len(frames)] = [F EXCEPT !.local = Joined, !.next = 1]]
               /\ warnings' = warnings /\ Len(frames) <= MaxDepth
               /\ remaining' = remaining - (Cardinality(M.nets) + 1)
<1>1. /\ frames # <<>> /\ F.next = 0 /\ netlist' = netlist /\ limit' = limit /\ done' = done
      /\ instances' = instances /\ origin' = origin
  BY DEF EnterModule, index
<1> DEFINE rec == \E i \in DOMAIN frames : i < Len(frames) /\ frames[i].type = F.type
<1>2. CASE rec
  BY <1>1, <1>2 DEF EnterModule, Warn, Return
<1>3. CASE ~rec /\ Len(frames) > MaxDepth
  BY <1>1, <1>3 DEF EnterModule, Warn, Return
<1>4. Len(frames) \in Nat /\ MaxDepth \in Nat
  BY <1>1, AtWork, ElaborationConstants
<1>5. CASE ~rec /\ ~(Len(frames) > MaxDepth)
  <2>1. /\ Reserve(Cardinality(M.nets) + 1, {})
        /\ IF Cardinality(M.nets) + 1 > remaining
           THEN frames' = Front(frames)
           ELSE frames' = [frames EXCEPT ![Len(frames)].local = Joined, ![Len(frames)].next = 1]
    BY <1>5 DEF EnterModule, Return
  <2>2. Cardinality(M.nets) \in Nat /\ remaining \in Nat /\ frames \in Seq(Activation)
    BY <1>1, AtWork, FS_CardinalityType DEF Walk, Module
  <2>3. CASE Cardinality(M.nets) + 1 > remaining
    <3>1. warnings' = warnings \cup {"limit"}
      BY <2>1, <2>2, <2>3 DEF Reserve, Warn
    <3> QED
      BY <1>1, <1>4, <1>5, <2>1, <2>3, <3>1
  <2>4. CASE ~(Cardinality(M.nets) + 1 > remaining)
    <3>1. warnings' = warnings /\ remaining' = remaining - (Cardinality(M.nets) + 1)
      BY <2>1, <2>2, <2>4 DEF Reserve, Warn
    <3>2. frames' = [frames EXCEPT ![Len(frames)] = [F EXCEPT !.local = Joined, !.next = 1]]
      <4>1. F = frames[Len(frames)]
        BY <1>1, AtWork
      <4>2. frames' = [frames EXCEPT ![Len(frames)].local = Joined, ![Len(frames)].next = 1]
        BY <2>1, <2>4
      <4> QED
        BY <4>1, <4>2
    <3> QED
      BY <1>1, <1>4, <1>5, <3>1, <3>2
  <2> QED
    BY <2>3, <2>4
<1> QED
  BY <1>2, <1>3, <1>5

LEMMA PlaceLeafCases ==
  ASSUME Walk, PlaceLeaf
  PROVE  /\ frames # <<>> /\ F.next \in DOMAIN M.children /\ Child.type \notin DOMAIN Modules
         /\ Path \notin DOMAIN instances
         /\ netlist' = netlist /\ limit' = limit /\ done' = done
         /\ \/ /\ frames' = Front(frames) /\ warnings' \cap Cuts = (warnings \cap Cuts) \cup {"limit"}
               /\ Cardinality(DOMAIN Child.connections) + 1 > remaining
               /\ instances' = instances /\ origin' = origin
            \/ /\ Places /\ warnings' \cap Cuts = warnings \cap Cuts
               /\ remaining' = remaining - (Cardinality(DOMAIN Child.connections) + 1)
<1>1. /\ frames # <<>> /\ F.next \in DOMAIN M.children /\ Child.type \notin DOMAIN Modules
      /\ Path \notin DOMAIN instances
      /\ netlist' = netlist /\ limit' = limit /\ done' = done
  BY DEF PlaceLeaf, AtLeaf
<1>2. Cardinality(DOMAIN Child.connections) \in Nat /\ remaining \in Nat
  BY <1>1, ChildKind, FS_CardinalityType DEF Walk
<1>3. CASE ~Fits
  <2>1. PICK guessed \in SUBSET {"inferred"} :
          Reserve(Cardinality(DOMAIN Child.connections) + 1, guessed)
    <3>1. Reserve(Cardinality(DOMAIN Child.connections) + 1,
                  IF Cells[Child.type].known THEN {} ELSE {"inferred"})
      BY <1>3 DEF PlaceLeaf
    <3> QED
      BY <3>1
  <2>2. warnings' = warnings \cup ({"limit"} \cup guessed)
    BY <1>2, <1>3, <2>1 DEF Fits, Reserve, Warn
  <2>3. warnings' \cap Cuts = (warnings \cap Cuts) \cup {"limit"}
    BY <2>2 DEF Cuts
  <2>4. frames' = Front(frames) /\ instances' = instances /\ origin' = origin
    BY <1>3 DEF PlaceLeaf, Return, index
  <2>5. Cardinality(DOMAIN Child.connections) + 1 > remaining
    BY <1>2, <1>3 DEF Fits
  <2> QED
    BY <1>1, <2>3, <2>4, <2>5
<1>4. CASE Fits
  <2>1. Places
    <3>1. frames' = Advance
      BY <1>4 DEF PlaceLeaf
    <3>2. frames' # Front(frames)
      <4>1. frames \in Seq(Activation)
        BY DEF Walk
      <4>2. DOMAIN Advance = DOMAIN frames
        BY DEF Advance
      <4>3. DOMAIN Front(frames) # DOMAIN frames
        <5>1. /\ Len(frames) \in Nat /\ Len(frames) \in DOMAIN frames
              /\ DOMAIN Front(frames) = 1..(Len(frames) - 1)
          BY <1>1, <4>1, LastElement
        <5>2. Len(frames) \notin 1..(Len(frames) - 1)
          BY <5>1
        <5> QED
          BY <5>1, <5>2
      <4> QED
        BY <3>1, <4>2, <4>3
    <3> QED
      BY <3>2, PlaceLeafIs
  <2>2. PICK more \in SUBSET {"inferred", "arcs"} : Warn(more)
    <3> DEFINE cell == Cells[Child.type]
               inputs == Connected({"input", "inout"})
               blind == {p \in Connected({"output", "inout"}) : p \notin DOMAIN cell.depends}
               more == (IF cell.known THEN {} ELSE {"inferred"}) \cup
                       (IF ~cell.sequential /\ blind # {} /\ inputs # {} THEN {"arcs"} ELSE {})
    <3>1. Warn(more)
      BY <1>4 DEF PlaceLeaf
    <3>2. more \in SUBSET {"inferred", "arcs"}
      OBVIOUS
    <3> QED
      BY <3>1, <3>2
  <2>3. warnings' \cap Cuts = warnings \cap Cuts
    BY <2>2 DEF Warn, Cuts
  <2>4. remaining' = remaining - (Cardinality(DOMAIN Child.connections) + 1)
    BY <1>4 DEF PlaceLeaf
  <2> QED
    BY <1>1, <2>1, <2>3, <2>4
<1> QED
  BY <1>3, <1>4

-----------------------------------------------------------------------------
(* What becomes of the activations, seen from the ones before the step.    *)
LEMMA FramesRemain ==
  ASSUME Walk, frames # <<>>
  PROVE  /\ frames' = Front(frames) =>
              /\ \A k \in DOMAIN frames : k # Len(frames) => k \in DOMAIN frames' /\ frames'[k] = frames[k]
              /\ \A k \in DOMAIN frames' : k \in DOMAIN frames /\ k # Len(frames) /\ frames'[k] = frames[k]
         /\ \A f : frames' = [frames EXCEPT ![Len(frames)] = f] =>
              /\ DOMAIN frames' = DOMAIN frames
              /\ \A k \in DOMAIN frames : Kept(k, f)
         /\ \A f, g \in Activation : frames' = Append([frames EXCEPT ![Len(frames)] = f], g) =>
              /\ DOMAIN frames' = DOMAIN frames \cup {Len(frames) + 1}
              /\ \A k \in DOMAIN frames : Kept(k, f)
              /\ frames'[Len(frames) + 1] = g
<1>1. frames \in Seq(Activation) /\ netlist \in Netlists
  BY DEF Walk
<1>2. Len(frames) \in Nat /\ DOMAIN frames = 1..Len(frames) /\ Len(frames) \in DOMAIN frames
  BY <1>1, LastElement
<1>3. ASSUME frames' = Front(frames)
      PROVE  /\ \A k \in DOMAIN frames : k # Len(frames) => k \in DOMAIN frames' /\ frames'[k] = frames[k]
             /\ \A k \in DOMAIN frames' : k \in DOMAIN frames /\ k # Len(frames) /\ frames'[k] = frames[k]
  <2>1. /\ DOMAIN Front(frames) = 1..(Len(frames) - 1)
        /\ \A k \in DOMAIN Front(frames) : Front(frames)[k] = frames[k]
    BY <1>1, LastElement
  <2> DEFINE n == Len(frames)
  <2>s. n \in Nat
    BY <1>2
  <2> HIDE DEF n
  <2>2. /\ \A k \in 1..n : k # n => k \in 1..(n - 1)
        /\ \A k \in 1..(n - 1) : k \in 1..n /\ k # n
    BY <2>s
  <2> USE DEF n
  <2> QED
    BY <1>2, <1>3, <2>1, <2>2
<1>4. ASSUME NEW f, frames' = [frames EXCEPT ![Len(frames)] = f]
      PROVE  DOMAIN frames' = DOMAIN frames /\ \A k \in DOMAIN frames : Kept(k, f)
  BY <1>2, <1>4 DEF Kept
<1>5. ASSUME NEW f \in Activation, NEW g \in Activation,
             frames' = Append([frames EXCEPT ![Len(frames)] = f], g)
      PROVE  /\ DOMAIN frames' = DOMAIN frames \cup {Len(frames) + 1}
             /\ \A k \in DOMAIN frames : Kept(k, f)
             /\ frames'[Len(frames) + 1] = g
  <2> DEFINE s == [frames EXCEPT ![Len(frames)] = f]
  <2>1. s \in Seq(Activation) /\ Len(s) = Len(frames)
    BY <1>1, <1>2
  <2>2. \A k \in DOMAIN frames : s[k] = IF k = Len(frames) THEN f ELSE frames[k]
    BY <1>2
  <2> HIDE DEF s
  <2>3. /\ DOMAIN Append(s, g) = 1..(Len(s) + 1)
        /\ \A k \in 1..Len(s) : Append(s, g)[k] = s[k]
        /\ Append(s, g)[Len(s) + 1] = g
    BY <2>1
  <2>4. frames' = Append(s, g)
    BY <1>5 DEF s
  <2>5. 1..(Len(frames) + 1) = 1..Len(frames) \cup {Len(frames) + 1}
    BY <1>2
  <2> QED
    BY <1>2, <2>1, <2>2, <2>3, <2>4, <2>5 DEF Kept
<1> QED
  BY <1>3, <1>4, <1>5

(* An activation with another above it has called it.                      *)
LEMMA CallerOf ==
  ASSUME Walk, Naming, Chained, NEW k \in DOMAIN frames, k # Len(frames)
  PROVE  /\ k + 1 \in DOMAIN frames /\ frames[k].next > 0
         /\ frames[k].next - 1 \in DOMAIN ChildrenOf(frames[k])
         /\ Spot(frames[k + 1]) = Inner(frames[k], ChildrenOf(frames[k])[frames[k].next - 1])
         /\ frames[k + 1].type \in DOMAIN Modules
<1>1. k \in Nat /\ Len(frames) \in Nat /\ DOMAIN frames = 1..Len(frames)
      /\ frames[k].next \in Nat /\ Module(Modules[frames[k].type])
  BY SpotsAre DEF Walk
<1>2. k + 1 \in DOMAIN frames
  BY <1>1
<1>3. Caller(frames[k], frames[k + 1])
  BY <1>2 DEF Chained
<1>4. frames[k].next - 1 \in DOMAIN ChildrenOf(frames[k])
  BY <1>3 DEF Caller
<1>5. frames[k].next - 1 >= 1
  BY <1>1, <1>4 DEF ChildrenOf, Module
<1> QED
  BY <1>1, <1>2, <1>3, <1>4, <1>5 DEF Caller

LEMMA ChainedKept ==
  ASSUME Walk, Chained, netlist' = netlist, frames # <<>>,
         \/ frames' = Front(frames)
         \/ \E f : /\ Spot(f) = Spot(F)
                   /\ \/ frames' = [frames EXCEPT ![Len(frames)] = f]
                      \/ \E g : /\ Caller(f, g) /\ f \in Activation /\ g \in Activation
                                /\ frames' = Append([frames EXCEPT ![Len(frames)] = f], g)
  PROVE  Chained'
<1> SUFFICES ASSUME NEW k \in DOMAIN frames', k + 1 \in DOMAIN frames'
             PROVE  Caller(frames'[k], frames'[k + 1])
  BY StructureKept DEF Chained, Caller, ChildrenOf, Spot, Inner
<1>1. Len(frames) \in Nat /\ DOMAIN frames = 1..Len(frames) /\ F = frames[Len(frames)]
  BY AtWork DEF Walk
<1>2. \A i \in DOMAIN frames : i + 1 \in DOMAIN frames => Caller(frames[i], frames[i + 1])
  BY DEF Chained
<1>3. CASE frames' = Front(frames)
  BY <1>2, <1>3, FramesRemain
<1>4. ASSUME NEW f, NEW g, Spot(f) = Spot(g), NEW h, Caller(h, g) PROVE Caller(h, f)
  <2>1. f.type = g.type
    BY <1>4 DEF Spot
  <2> QED
    BY <1>4, <2>1 DEF Caller
<1>5. ASSUME NEW f, Spot(f) = Spot(F), k \in DOMAIN frames, k + 1 \in DOMAIN frames,
             Kept(k, f), Kept(k + 1, f)
      PROVE  Caller(frames'[k], frames'[k + 1])
  <2>1. k # Len(frames)
    BY <1>1, <1>5
  <2>2. frames'[k] = frames[k] /\ Caller(frames[k], frames[k + 1])
    BY <1>2, <1>5, <2>1 DEF Kept
  <2>3. CASE k + 1 = Len(frames)
    <3>1. frames'[k + 1] = f /\ frames[k + 1] = F
      BY <1>1, <1>5, <2>3 DEF Kept
    <3> QED
      BY <1>4, <1>5, <2>2, <3>1
  <2>4. CASE k + 1 # Len(frames)
    BY <1>5, <2>2, <2>4 DEF Kept
  <2> QED
    BY <2>3, <2>4
<1>6. ASSUME NEW f, Spot(f) = Spot(F), frames' = [frames EXCEPT ![Len(frames)] = f]
      PROVE  Caller(frames'[k], frames'[k + 1])
  <2>1. DOMAIN frames' = DOMAIN frames /\ \A i \in DOMAIN frames : Kept(i, f)
    BY <1>6, FramesRemain
  <2> QED
    BY <1>5, <1>6, <2>1
<1>7. ASSUME NEW f \in Activation, Spot(f) = Spot(F), NEW g \in Activation, Caller(f, g),
             frames' = Append([frames EXCEPT ![Len(frames)] = f], g)
      PROVE  Caller(frames'[k], frames'[k + 1])
  <2>1. /\ DOMAIN frames' = DOMAIN frames \cup {Len(frames) + 1}
        /\ \A i \in DOMAIN frames : Kept(i, f)
        /\ frames'[Len(frames) + 1] = g
    BY <1>7, FramesRemain
  <2>2. CASE k + 1 \in DOMAIN frames
    <3>1. k \in DOMAIN frames
      BY <1>1, <2>1, <2>2
    <3> QED
      BY <1>5, <1>7, <2>1, <2>2, <3>1
  <2>3. CASE k + 1 \notin DOMAIN frames
    <3>1. k + 1 = Len(frames) + 1
      BY <2>1, <2>3
    <3>2. k = Len(frames) /\ k \in DOMAIN frames
      BY <1>1, <2>1, <3>1
    <3>3. frames'[k] = f
      BY <2>1, <3>2 DEF Kept
    <3> QED
      BY <1>7, <2>1, <3>1, <3>3
  <2> QED
    BY <2>2, <2>3
<1> QED
  BY <1>3, <1>6, <1>7

-----------------------------------------------------------------------------
(* What was opened or placed stays behind the activations.                 *)
LEMMA BehindSteps ==
  ASSUME Walk, frames # <<>>, netlist' = netlist, NEW opened, NEW placed,
         \A k \in DOMAIN frames : k # Len(frames) => Behind(frames[k], opened, placed),
         \/ frames' = Front(frames)
         \/ \E f : /\ Behind(f, opened, placed)
                   /\ \/ frames' = [frames EXCEPT ![Len(frames)] = f]
                      \/ \E g : /\ Behind(g, opened, placed) /\ f \in Activation /\ g \in Activation
                                /\ frames' = Append([frames EXCEPT ![Len(frames)] = f], g)
  PROVE  AllBehind(opened, placed)'
<1> SUFFICES ASSUME NEW k \in DOMAIN frames' PROVE Behind(frames'[k], opened, placed)
  BY StructureKept DEF AllBehind, Behind, ChildrenOf, Spot
<1>1. CASE frames' = Front(frames)
  BY <1>1, FramesRemain
<1>2. ASSUME NEW f, Behind(f, opened, placed), frames' = [frames EXCEPT ![Len(frames)] = f]
      PROVE  Behind(frames'[k], opened, placed)
  <2>1. DOMAIN frames' = DOMAIN frames /\ \A i \in DOMAIN frames : Kept(i, f)
    BY <1>2, FramesRemain
  <2> QED
    BY <1>2, <2>1 DEF Kept
<1>3. ASSUME NEW f \in Activation, Behind(f, opened, placed),
             NEW g \in Activation, Behind(g, opened, placed),
             frames' = Append([frames EXCEPT ![Len(frames)] = f], g)
      PROVE  Behind(frames'[k], opened, placed)
  <2>1. /\ DOMAIN frames' = DOMAIN frames \cup {Len(frames) + 1}
        /\ \A i \in DOMAIN frames : Kept(i, f)
        /\ frames'[Len(frames) + 1] = g
    BY <1>3, FramesRemain
  <2> QED
    BY <1>3, <2>1 DEF Kept
<1> QED
  BY <1>1, <1>2, <1>3

LEMMA BehindLater ==
  ASSUME NEW f, NEW g, NEW opened, NEW placed, Behind(f, opened, placed),
         f.next \in Nat, g.next \in Nat, f.next > 0, g.next >= f.next, Spot(g) = Spot(f),
         \A l \in placed : l.index \in Nat,
         \A i \in DOMAIN ChildrenOf(f) : i \in Nat
  PROVE  Behind(g, opened, placed)
<1>1. g.at = f.at /\ g.type = f.type
  BY DEF Spot
<1>2. ChildrenOf(g) = ChildrenOf(f) /\ g.next # 0 /\ g.next > 0
  BY <1>1 DEF ChildrenOf
<1>3. \A i \in Nat : i < f.next => i < g.next
  OBVIOUS
<1>4. \A o \in opened : \A i \in DOMAIN ChildrenOf(f) :
        ChildrenOf(f)[i].type \in DOMAIN Modules /\ o.at = Append(f.at, ChildrenOf(f)[i].name)
          => i < g.next
  BY <1>3 DEF Behind
<1>5. \A l \in placed : l.at = f.at => l.index < g.next
  BY <1>3 DEF Behind
<1> QED
  BY <1>1, <1>2, <1>4, <1>5 DEF Behind

(* Kinds of what is in the account.                                        *)
LEMMA RootedKinds ==
  ASSUME Walk, NEW opened, NEW placed, Rooted(opened, placed)
  PROVE  /\ netlist \in Netlists /\ opened \in SUBSET Occurrences /\ placed \in SUBSET Leaves
         /\ \A o \in opened : o \in Occurrence /\ o.at \in Seq(Name)
         /\ \A l \in placed : l.index \in Nat /\ l.at \in Seq(Name)
<1>1. netlist \in Netlists /\ opened \in SUBSET Occurrences /\ placed \in SUBSET Leaves
  BY DEF Walk, Rooted
<1>2. \A o \in Occurrences : o \in Occurrence /\ o.at \in Seq(Name)
  BY <1>1, OccurrencesKind DEF Occurrence
<1>3. \A l \in Leaves : l.index \in Nat /\ l.at \in Seq(Name)
  <2> TAKE l \in Leaves
  <2>1. PICK o \in Occurrences : \E i \in DOMAIN Modules[o.type].children : l = LeafOf(o, i)
    BY <1>1, LeavesAre
  <2>2. PICK i \in DOMAIN Modules[o.type].children : l = LeafOf(o, i)
    BY <2>1
  <2>3. Module(Modules[o.type]) /\ o.at \in Seq(Name)
    BY <1>1, <1>2, ModuleKind
  <2>4. i \in Nat
    BY <2>3 DEF Module
  <2> QED
    BY <2>2, <2>3, <2>4 DEF LeafOf
<1> QED
  BY <1>1, <1>2, <1>3

(* The children of an activation, with what they are called.               *)
LEMMA ChildrenKind ==
  ASSUME Walk, Naming, NEW k \in DOMAIN frames, NEW i \in DOMAIN ChildrenOf(frames[k])
  PROVE  i \in Nat /\ i > 0 /\ ChildrenOf(frames[k])[i].name \in Name
<1>1. Module(Modules[frames[k].type])
  BY SpotsAre
<1> QED
  BY <1>1 DEF Module, ChildrenOf, Instantiation

LEMMA NamesDiffer ==
  ASSUME DistinctNames, Walk, Naming, NEW k \in DOMAIN frames,
         NEW i \in DOMAIN ChildrenOf(frames[k]), NEW j \in DOMAIN ChildrenOf(frames[k]),
         ChildrenOf(frames[k])[i].type \in DOMAIN Modules,
         ChildrenOf(frames[k])[j].type \in DOMAIN Modules,
         ChildrenOf(frames[k])[i].name = ChildrenOf(frames[k])[j].name
  PROVE  i = j
<1>1. netlist \in Netlists /\ frames[k].type \in DOMAIN netlist.modules
  BY SpotsAre DEF Walk, Modules
<1> QED
  BY <1>1 DEF DistinctNames, ChildrenOf, Modules

(* The activation at work, as a place.                                     *)
LEMMA SpotAtWork ==
  ASSUME Walk, Naming, frames # <<>>
  PROVE  /\ Len(frames) \in DOMAIN frames /\ F = frames[Len(frames)] /\ F.next \in Nat
         /\ Len(frames) \in Nat /\ DOMAIN frames = 1..Len(frames)
         /\ Spot(F) \in Occurrence /\ Spot(F) = [at |-> F.at, type |-> F.type]
         /\ Spot(F).at = F.at /\ Spot(F).type = F.type
         /\ F.at \in Seq(Name) /\ F.at \in Seq(Word) /\ Len(F.at) = Len(frames) - 1
         /\ F.type \in DOMAIN Modules /\ M = Modules[F.type] /\ ChildrenOf(F) = M.children
         /\ Len(frames) <= MaxDepth => Spot(F) \in Occurrences
         /\ F.next > 0 => Spot(F) \in Occurrences
         /\ F.next \in DOMAIN M.children => F.next > 0
         /\ Modules[Spot(F).type] = M
         /\ \A k \in DOMAIN frames : k # Len(frames) => frames[k].at # F.at
<1>1. /\ Len(frames) \in DOMAIN frames /\ F = frames[Len(frames)] /\ Len(frames) \in Nat
      /\ DOMAIN frames = 1..Len(frames) /\ netlist \in Netlists /\ MaxDepth \in Nat
  BY AtWork, ElaborationConstants DEF Walk
<1>2. Spot(F) = [at |-> F.at, type |-> F.type] /\ Spot(F).at = F.at /\ Spot(F).type = F.type
  BY DEF Spot
<1>3. M = Modules[F.type] /\ ChildrenOf(F) = M.children /\ Modules[Spot(F).type] = M
  BY <1>2 DEF M, ChildrenOf
<1>4. ASSUME Len(frames) <= MaxDepth PROVE Spot(F) \in Occurrences
  BY <1>2, <1>4, NamedAtWork, OccurrenceAtWork
<1>5. ASSUME F.next \in DOMAIN M.children PROVE F.next > 0
  BY <1>1, <1>3, <1>5, ChildrenKind
<1>6. ASSUME NEW k \in DOMAIN frames, k # Len(frames) PROVE frames[k].at # F.at
  <2>1. Len(frames[k].at) = k - 1 /\ k \in Nat /\ Len(F.at) = Len(frames) - 1
    BY <1>1, SpotsAre
  <2>2. \A a, b \in Nat : a # b => a - 1 # b - 1
    OBVIOUS
  <2>3. k - 1 # Len(frames) - 1
    BY <1>1, <1>6, <2>1, <2>2
  <2> QED
    BY <2>1, <2>3
<1> QED
  BY <1>1, <1>2, <1>3, <1>4, <1>5, <1>6, SpotsAre

(* A module is opened.                                                     *)
LEMMA OpenedAbove ==
  ASSUME Walk, Naming, Chained, frames # <<>>, Len(frames) # 1
  PROVE  \E k \in DOMAIN frames :
           /\ k + 1 = Len(frames) /\ k # Len(frames) /\ frames[k].next > 0
           /\ frames[k].next - 1 \in DOMAIN ChildrenOf(frames[k])
           /\ ChildrenOf(frames[k])[frames[k].next - 1].type \in DOMAIN Modules
           /\ F.at = Append(frames[k].at, ChildrenOf(frames[k])[frames[k].next - 1].name)
<1> DEFINE k == Len(frames) - 1
<1>1. k \in DOMAIN frames /\ k # Len(frames) /\ k + 1 = Len(frames) /\ F = frames[Len(frames)]
  <2>1. \A n \in Nat : n \in 1..n /\ n # 1 => n - 1 \in 1..n /\ n - 1 # n /\ (n - 1) + 1 = n
    OBVIOUS
  <2>2. /\ Len(frames) \in Nat /\ DOMAIN frames = 1..Len(frames) /\ Len(frames) \in DOMAIN frames
        /\ F = frames[Len(frames)]
    BY SpotAtWork
  <2> QED
    BY <2>1, <2>2
<1> HIDE DEF k
<1>2. /\ frames[k].next > 0 /\ frames[k].next - 1 \in DOMAIN ChildrenOf(frames[k])
      /\ Spot(F) = Inner(frames[k], ChildrenOf(frames[k])[frames[k].next - 1])
      /\ F.type \in DOMAIN Modules
  BY <1>1, CallerOf
<1>3. /\ ChildrenOf(frames[k])[frames[k].next - 1].type = F.type
      /\ F.at = Append(frames[k].at, ChildrenOf(frames[k])[frames[k].next - 1].name)
  BY <1>2 DEF Spot, Inner
<1> QED
  BY <1>1, <1>2, <1>3

LEMMA OpenedRooted ==
  ASSUME Walk, Naming, Chained, frames # <<>>, Len(frames) <= MaxDepth,
         NEW opened, NEW placed, Rooted(opened, placed), AllBehind(opened, placed)
  PROVE  Rooted(opened \cup {Spot(F)}, placed)
<1>1. Spot(F) \in Occurrences /\ Spot(F).at = F.at /\ Len(F.at) = Len(frames) - 1
      /\ Len(frames) \in Nat
  BY SpotAtWork
<1>2. ASSUME F.at # <<>> PROVE \E q \in opened, n \in Name : F.at = Append(q.at, n)
  <2>1. Len(frames) # 1
    <3>1. F.at \in Seq(Name)
      BY SpotAtWork
    <3>2. Len(F.at) # 0
      BY <1>2, <3>1
    <3> QED
      BY <1>1, <3>2
  <2>2. PICK k \in DOMAIN frames :
          /\ frames[k].next > 0 /\ frames[k].next - 1 \in DOMAIN ChildrenOf(frames[k])
          /\ F.at = Append(frames[k].at, ChildrenOf(frames[k])[frames[k].next - 1].name)
    BY <2>1, OpenedAbove
  <2>3. Spot(frames[k]) \in opened
    BY <2>2 DEF AllBehind, Behind
  <2>4. Spot(frames[k]).at = frames[k].at
    BY DEF Spot
  <2>5. ChildrenOf(frames[k])[frames[k].next - 1].name \in Name
    BY <2>2, ChildrenKind
  <2> QED
    BY <2>2, <2>3, <2>4, <2>5
<1> QED
  BY <1>1, <1>2 DEF Rooted

LEMMA OpenedBehind ==
  ASSUME DistinctNames, Walk, Naming, Chained, frames # <<>>, F.next = 0, netlist' = netlist,
         NEW opened, NEW placed, Rooted(opened, placed), AllBehind(opened, placed),
         frames' = [frames EXCEPT ![Len(frames)] = [F EXCEPT !.local = Joined, !.next = 1]],
         NEW all, all = opened \cup {Spot(F)}
  PROVE  AllBehind(all, placed)'
<1> DEFINE f == [F EXCEPT !.local = Joined, !.next = 1]
<1>1. /\ Len(frames) \in DOMAIN frames /\ F = frames[Len(frames)] /\ Len(frames) \in Nat
      /\ F.at \in Seq(Name) /\ Len(F.at) = Len(frames) - 1 /\ Spot(F).at = F.at
      /\ \A k \in DOMAIN frames : k # Len(frames) => frames[k].at # F.at
  BY SpotAtWork
<1>2. Behind(F, opened, placed)
  BY <1>1 DEF AllBehind
<1>3. ASSUME NEW k \in DOMAIN frames, k # Len(frames) PROVE Behind(frames[k], all, placed)
  <2>1. Behind(frames[k], opened, placed) /\ frames[k].next > 0 /\ frames[k].next \in Nat
    BY <1>3, CallerOf, SpotsAre DEF AllBehind
  <2>2. ASSUME NEW i \in DOMAIN ChildrenOf(frames[k]),
               ChildrenOf(frames[k])[i].type \in DOMAIN Modules,
               F.at = Append(frames[k].at, ChildrenOf(frames[k])[i].name)
        PROVE  i < frames[k].next
    <3>1. /\ Len(frames[k].at) = k - 1 /\ k \in Nat /\ frames[k].at \in Seq(Name)
          /\ ChildrenOf(frames[k])[i].name \in Name
      BY SpotsAre, ChildrenKind
    <3>2. Len(F.at) = (k - 1) + 1
      BY <2>2, <3>1
    <3>3. k + 1 = Len(frames) /\ Len(frames) # 1
      BY <1>1, <1>3, <3>1, <3>2
    <3>4. /\ frames[k].next - 1 \in DOMAIN ChildrenOf(frames[k])
          /\ ChildrenOf(frames[k])[frames[k].next - 1].type \in DOMAIN Modules
          /\ F.at = Append(frames[k].at, ChildrenOf(frames[k])[frames[k].next - 1].name)
      <4>1. PICK h \in DOMAIN frames :
              /\ h + 1 = Len(frames)
              /\ frames[h].next - 1 \in DOMAIN ChildrenOf(frames[h])
              /\ ChildrenOf(frames[h])[frames[h].next - 1].type \in DOMAIN Modules
              /\ F.at = Append(frames[h].at, ChildrenOf(frames[h])[frames[h].next - 1].name)
        BY <3>3, OpenedAbove
      <4>2. h \in Nat
        BY SpotsAre
      <4>3. h = k
        BY <3>1, <3>3, <4>1, <4>2
      <4> QED
        BY <4>1, <4>3
    <3>5. ChildrenOf(frames[k])[frames[k].next - 1].name \in Name
      BY <3>4, ChildrenKind
    <3>6. ChildrenOf(frames[k])[i].name = ChildrenOf(frames[k])[frames[k].next - 1].name
      <4>1. \A x, y \in Name : Append(frames[k].at, x) = Append(frames[k].at, y) => x = y
        BY <3>1, AppendsEqual
      <4>2. Append(frames[k].at, ChildrenOf(frames[k])[i].name)
              = Append(frames[k].at, ChildrenOf(frames[k])[frames[k].next - 1].name)
        BY <2>2, <3>4
      <4> QED
        BY <3>1, <3>5, <4>1, <4>2
    <3>7. i = frames[k].next - 1
      BY <2>2, <3>4, <3>6, NamesDiffer
    <3> QED
      BY <2>1, <3>7
  <2>3. \A o \in all : \A i \in DOMAIN ChildrenOf(frames[k]) :
          ChildrenOf(frames[k])[i].type \in DOMAIN Modules
          /\ o.at = Append(frames[k].at, ChildrenOf(frames[k])[i].name) => i < frames[k].next
    BY <1>1, <2>1, <2>2 DEF Behind
  <2> QED
    BY <2>1, <2>3 DEF Behind
<1>4. f.next = 1 /\ f.at = F.at /\ f.type = F.type
  BY AtWork DEF Activation
<1>5. \A o \in opened : o.at # F.at
  BY <1>2 DEF Behind
<1>6. Behind(f, all, placed)
  <2>1. Spot(f) = Spot(F) /\ ChildrenOf(f) = ChildrenOf(F)
    BY <1>4 DEF Spot, ChildrenOf
  <2>2. ASSUME NEW o \in all, NEW i \in DOMAIN ChildrenOf(F),
               ChildrenOf(F)[i].type \in DOMAIN Modules,
               o.at = Append(F.at, ChildrenOf(F)[i].name)
        PROVE  FALSE
    <3>1. i \in Nat /\ i > 0 /\ ChildrenOf(F)[i].name \in Name
      BY <1>1, ChildrenKind
    <3>2. CASE o \in opened
      <4>1. i < F.next
        BY <1>2, <2>2, <3>2 DEF Behind
      <4> QED
        BY <3>1, <4>1
    <3>3. CASE o = Spot(F)
      <4>1. Len(Append(F.at, ChildrenOf(F)[i].name)) = Len(F.at) + 1 /\ Len(F.at) \in Nat
        BY <1>1, <3>1
      <4> QED
        BY <1>1, <2>2, <3>3, <4>1
    <3> QED
      BY <3>2, <3>3
  <2>3. \A l \in placed : l.at # F.at
    BY <1>5 DEF Rooted
  <2>4. f.next > 0 /\ f.next # 0
    BY <1>4
  <2> HIDE DEF f
  <2> QED
    BY <1>4, <2>1, <2>2, <2>3, <2>4 DEF Behind
<1> HIDE DEF f
<1>7. frames' = [frames EXCEPT ![Len(frames)] = f]
  BY DEF f
<1> QED
  BY <1>3, <1>6, <1>7, BehindSteps

(* Activations that end, or go past a child.                               *)
LEMMA ReturnedBehind ==
  ASSUME Walk, frames # <<>>, netlist' = netlist, frames' = Front(frames),
         NEW opened, NEW placed, AllBehind(opened, placed)
  PROVE  AllBehind(opened, placed)'
<1>1. \A k \in DOMAIN frames : k # Len(frames) => Behind(frames[k], opened, placed)
  BY DEF AllBehind
<1> QED
  BY <1>1, BehindSteps

LEMMA GoneOn ==
  ASSUME Walk, frames # <<>>, F.next > 0
  PROVE  \E f \in Activation : /\ Advance = [frames EXCEPT ![Len(frames)] = f]
                               /\ Spot(f) = Spot(F) /\ f.next = F.next + 1
<1>1. PICK f \in Activation : /\ Advance = [frames EXCEPT ![Len(frames)] = f]
                              /\ f = [F EXCEPT !.next = F.next + 1]
  BY Advanced
<1>2. F \in Activation
  BY AtWork
<1>3. f.at = F.at /\ f.type = F.type /\ f.next = F.next + 1
  BY <1>1, <1>2 DEF Activation
<1> QED
  BY <1>1, <1>3 DEF Spot

LEMMA GoneOnBehind ==
  ASSUME Walk, Naming, frames # <<>>, F.next > 0,
         NEW opened, NEW placed, Rooted(opened, placed), AllBehind(opened, placed),
         NEW f \in Activation, Spot(f) = Spot(F), f.next = F.next + 1
  PROVE  Behind(f, opened, placed)
<1>1. Len(frames) \in DOMAIN frames /\ F = frames[Len(frames)] /\ F.next \in Nat
  BY SpotAtWork
<1>2. Behind(F, opened, placed)
  BY <1>1 DEF AllBehind
<1>3. \A i \in DOMAIN ChildrenOf(F) : i \in Nat
  BY <1>1, ChildrenKind
<1>4. \A l \in placed : l.index \in Nat
  BY RootedKinds
<1>5. f.next \in Nat /\ f.next >= F.next
  BY <1>1
<1> QED
  BY <1>1, <1>2, <1>3, <1>4, <1>5, BehindLater

LEMMA CalledBehind ==
  ASSUME Walk, Naming, frames # <<>>, F.next \in DOMAIN M.children, Child.type \in DOMAIN Modules,
         NEW opened, NEW placed, Rooted(opened, placed), AllBehind(opened, placed),
         NEW g, Spot(g) = Inner(F, Child), g.next = 0
  PROVE  Behind(g, opened, placed)
<1>1. /\ Len(frames) \in DOMAIN frames /\ F = frames[Len(frames)] /\ F.next \in Nat
      /\ F.at \in Seq(Name) /\ ChildrenOf(F) = M.children
  BY SpotAtWork
<1>2. Behind(F, opened, placed)
  BY <1>1 DEF AllBehind
<1>3. g.at = Append(F.at, Child.name) /\ Child.name \in Name /\ Child = ChildrenOf(F)[F.next]
  BY <1>1, ChildKind DEF Spot, Inner, Child
<1>4. \A o \in opened : o.at # g.at
  <2> SUFFICES ASSUME NEW o \in opened, o.at = g.at PROVE FALSE
    OBVIOUS
  <2>1. F.next < F.next
    BY <1>1, <1>2, <1>3 DEF Behind
  <2> QED
    BY <1>1, <2>1
<1>5. ASSUME NEW o \in opened, NEW i \in DOMAIN ChildrenOf(g),
             o.at = Append(g.at, ChildrenOf(g)[i].name), ChildrenOf(g)[i].type \in DOMAIN Modules
      PROVE  FALSE
  <2>1. o.at \in Seq(Name) /\ g.at \in Seq(Name)
    BY <1>1, <1>3, RootedKinds
  <2>2. ChildrenOf(g)[i].name \in Name
    <3>1. g.type = Child.type /\ netlist \in Netlists
      BY DEF Spot, Inner, Walk
    <3>2. Module(Modules[g.type])
      BY <3>1, ElaborationConstants DEF Netlist, Modules
    <3> QED
      BY <3>2 DEF Module, ChildrenOf, Instantiation
  <2>3. o.at # <<>>
    <3>1. Len(Append(g.at, ChildrenOf(g)[i].name)) = Len(g.at) + 1 /\ Len(g.at) \in Nat
      BY <2>1
    <3>2. Len(o.at) # 0
      BY <1>5, <3>1
    <3> QED
      BY <3>2
  <2>4. PICK q \in opened, n \in Name : o.at = Append(q.at, n)
    BY <2>3 DEF Rooted
  <2>5. q.at \in Seq(Name)
    BY RootedKinds
  <2>6. Append(q.at, n) = Append(g.at, ChildrenOf(g)[i].name)
    BY <1>5, <2>4
  <2>7. q.at = g.at
    <3>1. \A x, y \in Name : Append(q.at, x) = Append(g.at, y) => q.at = g.at
      BY <2>1, <2>5, AppendsEqual
    <3> QED
      BY <2>2, <2>4, <2>6, <3>1
  <2> QED
    BY <1>4, <2>7
<1>6. \A l \in placed : l.at # g.at
  BY <1>4 DEF Rooted
<1> QED
  BY <1>4, <1>5, <1>6 DEF Behind

(* A cell is placed.                                                       *)
LEMMA PlacedRooted ==
  ASSUME Walk, Naming, frames # <<>>, F.next \in DOMAIN M.children, Child.type \notin DOMAIN Modules,
         NEW opened, NEW placed, Rooted(opened, placed), AllBehind(opened, placed)
  PROVE  /\ LeafOf(Spot(F), F.next) \in Leaves /\ LeafOf(Spot(F), F.next) \notin placed
         /\ Rooted(opened, placed \cup {LeafOf(Spot(F), F.next)})
<1> DEFINE l == LeafOf(Spot(F), F.next)
<1>1. /\ Len(frames) \in DOMAIN frames /\ F = frames[Len(frames)] /\ F.next \in Nat /\ F.next > 0
      /\ Spot(F) \in Occurrences /\ Spot(F).at = F.at /\ Modules[Spot(F).type] = M
  BY SpotAtWork
<1>2. Behind(F, opened, placed)
  BY <1>1 DEF AllBehind
<1>3. l \in Leaves
  <2>1. netlist \in Netlists
    BY DEF Walk
  <2>2. Modules[Spot(F).type].children[F.next].type \notin DOMAIN Modules
    BY <1>1 DEF Child
  <2> QED
    BY <1>1, <2>1, <2>2, LeavesAre
<1>4. l.at = F.at /\ l.index = F.next
  BY <1>1 DEF LeafOf
<1>5. Spot(F) \in opened
  BY <1>1, <1>2 DEF Behind
<1> HIDE DEF l
<1>6. l \notin placed
  <2> SUFFICES ASSUME l \in placed PROVE FALSE
    OBVIOUS
  <2>1. F.next < F.next
    BY <1>2, <1>4 DEF Behind
  <2> QED
    BY <1>1, <2>1
<1>7. Rooted(opened, placed \cup {l})
  BY <1>1, <1>3, <1>4, <1>5 DEF Rooted
<1> QED
  BY <1>3, <1>6, <1>7 DEF l

LEMMA PlacedBehind ==
  ASSUME Walk, Naming, frames # <<>>, F.next \in DOMAIN M.children, netlist' = netlist,
         NEW opened, NEW placed, Rooted(opened, placed), AllBehind(opened, placed),
         frames' = Advance, NEW all, all = placed \cup {LeafOf(Spot(F), F.next)}
  PROVE  AllBehind(opened, all)'
<1> DEFINE l == LeafOf(Spot(F), F.next)
<1>1. /\ Len(frames) \in DOMAIN frames /\ F = frames[Len(frames)] /\ F.next \in Nat /\ F.next > 0
      /\ Spot(F).at = F.at /\ \A k \in DOMAIN frames : k # Len(frames) => frames[k].at # F.at
  BY SpotAtWork
<1>2. l.at = F.at /\ l.index = F.next
  BY <1>1 DEF LeafOf
<1> HIDE DEF l
<1>3. all = placed \cup {l}
  BY DEF l
<1>4. ASSUME NEW k \in DOMAIN frames, k # Len(frames) PROVE Behind(frames[k], opened, all)
  <2>1. Behind(frames[k], opened, placed) /\ frames[k].at # F.at
    BY <1>1, <1>4 DEF AllBehind
  <2> QED
    BY <1>2, <1>3, <2>1 DEF Behind
<1>5. PICK f \in Activation : /\ Advance = [frames EXCEPT ![Len(frames)] = f]
                              /\ Spot(f) = Spot(F) /\ f.next = F.next + 1
  BY <1>1, GoneOn
<1>6. Behind(f, opened, placed)
  BY <1>1, <1>5, GoneOnBehind
<1>7. Behind(f, opened, all)
  <2>1. F.next < f.next /\ f.at = F.at
    BY <1>1, <1>5 DEF Spot
  <2> QED
    BY <1>2, <1>3, <1>6, <2>1 DEF Behind
<1> QED
  BY <1>4, <1>5, <1>7, BehindSteps

-----------------------------------------------------------------------------
(* What was called for is open, placed or being worked at.                 *)
LEMMA StillReached ==
  ASSUME NEW opened, NEW all, opened \subseteq all, NEW o, Reached(o, opened),
         \A k \in DOMAIN frames :
           Spot(frames[k]) \in all \/ (k \in DOMAIN frames' /\ Spot(frames'[k]) = Spot(frames[k]))
  PROVE  Reached(o, all)'
<1>1. CASE o \in opened
  BY <1>1 DEF Reached
<1>2. CASE \E k \in DOMAIN frames : Spot(frames[k]) = o
  <2>1. PICK k \in DOMAIN frames : Spot(frames[k]) = o
    BY <1>2
  <2>2. CASE o \in all
    BY <2>2 DEF Reached
  <2>3. CASE o \notin all
    <3>1. k \in DOMAIN frames' /\ Spot(frames'[k]) = o
      BY <2>1, <2>3
    <3> QED
      BY <3>1 DEF Reached, Spot
  <2> QED
    BY <2>2, <2>3
<1> QED
  BY <1>1, <1>2 DEF Reached

(* A step keeps the account closed if it deals with each child that was    *)
(* ahead and is not any more.                                              *)
LEMMA ClosedKept ==
  ASSUME netlist' = netlist, warnings \subseteq warnings', NEW opened, NEW placed, NEW all, NEW every,
         Closed(opened, placed), opened \subseteq all, placed \subseteq every,
         \A k \in DOMAIN frames :
           Spot(frames[k]) \in all \/ (k \in DOMAIN frames' /\ Spot(frames'[k]) = Spot(frames[k])),
         \A o \in opened : \A i \in DOMAIN Modules[o.type].children :
           Ahead(o, i) => Ahead(o, i)' \/ Handled(o, i, all, every)',
         \A o \in all \ opened : \A i \in DOMAIN Modules[o.type].children : Ahead(o, i)'
  PROVE  Closed(all, every)'
<1>1. Modules' = Modules /\ netlist'.top = netlist.top
  BY StructureKept
<1> SUFFICES ASSUME warnings \cap Cuts = {}
             PROVE  /\ Reached([at |-> <<>>, type |-> netlist.top], all)'
                    /\ \A o \in all : \A i \in DOMAIN Modules[o.type].children :
                         Ahead(o, i)' \/ Handled(o, i, all, every)'
  <2>1. warnings' \cap Cuts' = {} => warnings \cap Cuts = {}
    BY DEF Cuts
  <2> QED
    BY <1>1, <2>1 DEF Closed
<1>2. /\ Reached([at |-> <<>>, type |-> netlist.top], opened)
      /\ \A o \in opened : \A i \in DOMAIN Modules[o.type].children :
           Ahead(o, i) \/ Handled(o, i, opened, placed)
  BY DEF Closed
<1>3. \A o : Reached(o, opened) => Reached(o, all)'
  BY StillReached
<1>4. Reached([at |-> <<>>, type |-> netlist.top], all)'
  <2> DEFINE root == [at |-> <<>>, type |-> netlist.top]
  <2>1. PICK r : r = root
    OBVIOUS
  <2>2. Reached(r, all)'
    BY <1>2, <1>3, <2>1
  <2> QED
    BY <1>1, <2>1, <2>2 DEF Reached
<1>5. ASSUME NEW o \in opened, NEW i \in DOMAIN Modules[o.type].children
      PROVE  Ahead(o, i)' \/ Handled(o, i, all, every)'
  <2>1. CASE Ahead(o, i)
    BY <1>5, <2>1
  <2>2. CASE Handled(o, i, opened, placed)
    <3>1. PICK c, x, l : /\ c = Modules[o.type].children[i]
                         /\ x = Inner(o, c) /\ l = LeafOf(o, i)
      OBVIOUS
    <3>2. /\ c.type \in DOMAIN Modules => Reached(x, opened)
          /\ c.type \notin DOMAIN Modules => l \in placed
      BY <2>2, <3>1 DEF Handled
    <3>3. /\ c.type \in DOMAIN Modules => Reached(x, all)'
          /\ c.type \notin DOMAIN Modules => l \in every
      BY <1>3, <3>2
    <3>4. /\ c = Modules'[o.type].children[i] /\ x = Inner(o, c)' /\ l = LeafOf(o, i)'
      BY <1>1, <3>1 DEF Inner, LeafOf
    <3>5. Handled(o, i, all, every)'
      BY <1>1, <3>3, <3>4 DEF Handled
    <3> QED
      BY <3>5
  <2> QED
    BY <1>2, <2>1, <2>2
<1> QED
  BY <1>4, <1>5

LEMMA LeftClosed ==
  ASSUME Walk, Naming, frames # <<>>, netlist' = netlist, warnings' = warnings,
         frames' = Front(frames), F.next > Len(M.children),
         NEW opened, NEW placed, AllBehind(opened, placed), Closed(opened, placed)
  PROVE  Closed(opened, placed)'
<1>1. /\ Len(frames) \in DOMAIN frames /\ F = frames[Len(frames)] /\ F.next \in Nat
      /\ M = Modules[F.type] /\ Spot(F).type = F.type
  BY SpotAtWork
<1>2. Len(M.children) \in Nat /\ DOMAIN M.children = 1..Len(M.children)
  BY AtWork DEF Module
<1>3. Behind(F, opened, placed) /\ F.next > 0
  BY <1>1, <1>2 DEF AllBehind
<1>4. \A k \in DOMAIN frames : k # Len(frames) => k \in DOMAIN frames' /\ frames'[k] = frames[k]
  BY FramesRemain
<1>5. \A k \in DOMAIN frames :
        Spot(frames[k]) \in opened \/ (k \in DOMAIN frames' /\ Spot(frames'[k]) = Spot(frames[k]))
  BY <1>1, <1>3, <1>4 DEF Behind
<1>6. ASSUME NEW o \in opened, NEW i \in DOMAIN Modules[o.type].children, Ahead(o, i)
      PROVE  Ahead(o, i)'
  <2>1. PICK k \in DOMAIN frames : Spot(frames[k]) = o /\ i >= frames[k].next
    BY <1>6 DEF Ahead
  <2>2. k # Len(frames)
    <3> SUFFICES ASSUME k = Len(frames) PROVE FALSE
      OBVIOUS
    <3>1. o.type = F.type /\ i >= F.next
      BY <1>1, <2>1
    <3>2. i \in 1..Len(M.children)
      BY <1>1, <1>2, <3>1
    <3> QED
      BY <1>1, <1>2, <3>1, <3>2
  <2>3. k \in DOMAIN frames' /\ Spot(frames'[k]) = o /\ i >= frames'[k].next
    BY <1>4, <2>1, <2>2
  <2> QED
    BY <2>3 DEF Ahead, Spot
<1> QED
  BY <1>5, <1>6, ClosedKept

LEMMA OpenedClosed ==
  ASSUME Walk, Naming, frames # <<>>, netlist' = netlist, warnings' = warnings, F.next = 0,
         frames' = [frames EXCEPT ![Len(frames)] = [F EXCEPT !.local = Joined, !.next = 1]],
         NEW opened, NEW placed, AllBehind(opened, placed), Closed(opened, placed),
         NEW all, all = opened \cup {Spot(F)}
  PROVE  Closed(all, placed)'
<1> DEFINE f == [F EXCEPT !.local = Joined, !.next = 1]
<1>1. /\ Len(frames) \in DOMAIN frames /\ F = frames[Len(frames)]
      /\ M = Modules[F.type] /\ Spot(F).type = F.type
  BY SpotAtWork
<1>2. Spot(f) = Spot(F) /\ f.next = 1
  BY AtWork DEF Activation, Spot
<1> HIDE DEF f
<1>3. DOMAIN frames' = DOMAIN frames /\ \A k \in DOMAIN frames : Kept(k, f)
  <2>1. frames' = [frames EXCEPT ![Len(frames)] = f]
    BY DEF f
  <2> QED
    BY <2>1, FramesRemain
<1>4. \A k \in DOMAIN frames : k \in DOMAIN frames' /\ Spot(frames'[k]) = Spot(frames[k])
  BY <1>1, <1>2, <1>3 DEF Kept
<1>5. ASSUME NEW o \in all, NEW i \in DOMAIN Modules[o.type].children,
             NEW k \in DOMAIN frames, Spot(frames[k]) = o, i >= frames[k].next
      PROVE  Ahead(o, i)'
  <2>1. CASE k = Len(frames)
    <3>1. frames'[k] = f /\ o = Spot(F) /\ i \in DOMAIN ChildrenOf(F)
      BY <1>1, <1>3, <1>5, <2>1 DEF Kept, ChildrenOf, Spot
    <3>2. i \in Nat /\ i > 0
      BY <1>1, <3>1, ChildrenKind
    <3>3. k \in DOMAIN frames' /\ Spot(frames'[k]) = o /\ i >= frames'[k].next
      BY <1>2, <1>4, <1>5, <3>1, <3>2
    <3> QED
      BY <3>3 DEF Ahead, Spot
  <2>2. CASE k # Len(frames)
    <3>1. frames'[k] = frames[k]
      BY <1>3, <2>2 DEF Kept
    <3>2. k \in DOMAIN frames' /\ Spot(frames'[k]) = o /\ i >= frames'[k].next
      BY <1>4, <1>5, <3>1
    <3> QED
      BY <3>2 DEF Ahead, Spot
  <2> QED
    BY <2>1, <2>2
<1>6. \A o \in opened : \A i \in DOMAIN Modules[o.type].children : Ahead(o, i) => Ahead(o, i)'
  BY <1>5 DEF Ahead
<1>7. \A o \in all \ opened : \A i \in DOMAIN Modules[o.type].children : Ahead(o, i)'
  <2> TAKE o \in all \ opened
  <2> TAKE i \in DOMAIN Modules[o.type].children
  <2>1. o = Spot(frames[Len(frames)])
    BY <1>1
  <2>2. i \in DOMAIN ChildrenOf(F)
    BY <1>1, <2>1 DEF ChildrenOf
  <2>3. i \in Nat /\ i >= F.next
    BY <1>1, <2>2, ChildrenKind
  <2> QED
    BY <1>1, <1>5, <2>1, <2>3
<1> QED
  BY <1>4, <1>6, <1>7, ClosedKept

(* The child at hand is called or placed.                                  *)
LEMMA PassedClosed ==
  ASSUME Walk, Naming, frames # <<>>, netlist' = netlist, warnings \subseteq warnings',
         F.next \in DOMAIN M.children,
         NEW f \in Activation, Spot(f) = Spot(F), f.next = F.next + 1,
         \A k \in DOMAIN frames : k \in DOMAIN frames' /\ Kept(k, f),
         NEW opened, NEW placed, Closed(opened, placed), NEW every, placed \subseteq every,
         NEW spot, spot = Spot(F), NEW next, next = F.next, Handled(spot, next, opened, every)'
  PROVE  Closed(opened, every)'
<1>1. /\ Len(frames) \in DOMAIN frames /\ F = frames[Len(frames)] /\ F.next \in Nat
      /\ M = Modules[F.type] /\ Spot(F).type = F.type
  BY SpotAtWork
<1>2. \A k \in DOMAIN frames : k \in DOMAIN frames' /\ Spot(frames'[k]) = Spot(frames[k])
  BY <1>1 DEF Kept
<1>3. ASSUME NEW o \in opened, NEW i \in DOMAIN Modules[o.type].children, Ahead(o, i)
      PROVE  Ahead(o, i)' \/ Handled(o, i, opened, every)'
  <2>1. PICK k \in DOMAIN frames : Spot(frames[k]) = o /\ i >= frames[k].next
    BY <1>3 DEF Ahead
  <2>2. CASE k # Len(frames)
    <3>1. k \in DOMAIN frames' /\ Spot(frames'[k]) = o /\ i >= frames'[k].next
      BY <1>2, <2>1, <2>2 DEF Kept
    <3> QED
      BY <3>1 DEF Ahead, Spot
  <2>3. CASE k = Len(frames)
    <3>1. o = Spot(F) /\ i >= F.next /\ frames'[k] = f
      BY <1>1, <2>1, <2>3 DEF Kept
    <3>2. i \in Nat
      <4>1. i \in DOMAIN ChildrenOf(F)
        BY <1>1, <3>1 DEF ChildrenOf
      <4> QED
        BY <1>1, <4>1, ChildrenKind
    <3>3. CASE i = F.next
      BY <3>1, <3>3
    <3>4. CASE i # F.next
      <4>1. i >= F.next + 1
        BY <1>1, <3>1, <3>2, <3>4
      <4>2. k \in DOMAIN frames' /\ Spot(frames'[k]) = o /\ i >= frames'[k].next
        BY <1>2, <2>1, <3>1, <4>1
      <4> QED
        BY <4>2 DEF Ahead, Spot
    <3> QED
      BY <3>3, <3>4
  <2> QED
    BY <2>2, <2>3
<1> QED
  BY <1>2, <1>3, ClosedKept

-----------------------------------------------------------------------------
(* What is charged and what is stored.                                     *)
LEMMA ChargedKept ==
  ASSUME netlist' = netlist, limit' = limit, warnings \subseteq warnings',
         remaining' = remaining \/ "limit" \in warnings',
         NEW opened, NEW placed, Charged(opened, placed)
  PROVE  Charged(opened, placed)'
<1>1. Objects(opened, placed)' = Objects(opened, placed)
  BY ObjectsKept
<1> QED
  BY <1>1 DEF Charged

LEMMA ChargedMore ==
  ASSUME Walk, netlist' = netlist, limit' = limit, warnings \subseteq warnings',
         NEW opened, NEW placed, Charged(opened, placed), Rooted(opened, placed),
         NEW all, NEW every, NEW amount \in Nat, remaining' = remaining - amount,
         Cardinality(Objects(all, every)) = Cardinality(Objects(opened, placed)) + amount
  PROVE  Charged(all, every)'
<1>1. Objects(all, every)' = Objects(all, every)
  BY ObjectsKept
<1>2. Cardinality(Objects(opened, placed)) \in Nat /\ remaining \in Nat
  BY RootedKinds, ObjectsFinite DEF Walk
<1> SUFFICES ASSUME "limit" \notin warnings
             PROVE  remaining' + Cardinality(Objects(all, every)) = limit
  BY <1>1 DEF Charged
<1>3. remaining + Cardinality(Objects(opened, placed)) = limit
  BY DEF Charged
<1> QED
  BY <1>2, <1>3

(* What does not fit any more was too much from the start.                 *)
LEMMA TooDear ==
  ASSUME Walk, NEW opened, NEW placed, Charged(opened, placed), Rooted(opened, placed),
         NEW all, NEW every, Rooted(all, every), NEW amount \in Nat, amount > remaining,
         Cardinality(Objects(all, every)) = Cardinality(Objects(opened, placed)) + amount,
         "limit" \notin warnings
  PROVE  Cost > limit
<1>1. Cardinality(Objects(opened, placed)) \in Nat /\ remaining \in Nat
  BY RootedKinds, ObjectsFinite DEF Walk
<1>2. Cardinality(Objects(all, every)) <= Cost /\ Cost \in Nat
  BY RootedKinds, ObjectsFinite
<1>3. remaining + Cardinality(Objects(opened, placed)) = limit
  BY DEF Charged
<1> QED
  BY <1>1, <1>2, <1>3

LEMMA StoredKept ==
  ASSUME instances' = instances, origin' = origin, NEW placed, Stored(placed)
  PROVE  Stored(placed)'
  BY DEF Stored, Seen

LEMMA PathOfLeaf ==
  ASSUME Walk, Naming, frames # <<>>
  PROVE  LeafPath(LeafOf(Spot(F), F.next)) = Path
<1>1. /\ Len(frames) \in DOMAIN frames /\ F = frames[Len(frames)] /\ F.at \in Seq(Word)
      /\ Spot(F).at = F.at /\ Modules[Spot(F).type] = M
  BY SpotAtWork
<1>2. F.prefix = Flat(F.at)
  BY NamedAtWork DEF FrameNamed, Situated
<1>3. FlattenSeq(F.at) = F.prefix
  BY <1>1, <1>2, FlattenIs
<1>4. LeafOf(Spot(F), F.next).at = F.at /\ LeafOf(Spot(F), F.next).child = Child
  BY <1>1 DEF LeafOf, Child
<1> QED
  BY <1>3, <1>4 DEF LeafPath, Path

LEMMA StoredMore ==
  ASSUME Walk, Naming, frames # <<>>, Path \notin DOMAIN instances, Places,
         NEW placed, Stored(placed), NEW l, l = LeafOf(Spot(F), F.next),
         NEW every, every = placed \cup {l}
  PROVE  Stored(every)'
<1>1. LeafPath(l) = Path
  BY PathOfLeaf
<1>2. DOMAIN instances' = DOMAIN instances \cup {Path}
  BY DEF Places, Override
<1>3. DOMAIN instances' = {LeafPath(k) : k \in every}
  BY <1>1, <1>2 DEF Stored
<1>4. \A k \in placed : LeafPath(k) # LeafPath(l)
  BY <1>1 DEF Stored
<1>5. \A j, k \in every : LeafPath(j) = LeafPath(k) => j = k
  BY <1>4 DEF Stored
<1>6. Seen(origin)' = Seen(origin) \cup Pinned(l)
  <2> DEFINE new == {[path |-> Path \o p, at |-> F.at, child |-> F.next, pin |-> p,
                      signal |-> Child.connections[p]] : p \in Given}
  <2>1. origin' = origin \cup new
    BY DEF Places
  <2>2. l.at = F.at /\ l.index = F.next /\ DOMAIN l.child.connections = Given
    <3>1. Spot(F).at = F.at /\ Modules[Spot(F).type] = M
      BY SpotAtWork
    <3> QED
      BY <3>1 DEF LeafOf, Child, Given
  <2>3. Seen(new) = Pinned(l)
    <3>1. Pinned(l) = {[at |-> F.at, child |-> F.next, pin |-> p] : p \in Given}
      BY <2>2 DEF Pinned
    <3>2. \A b \in new : \E p \in Given : b.at = F.at /\ b.child = F.next /\ b.pin = p
      OBVIOUS
    <3>3. \A p \in Given : \E b \in new : b.at = F.at /\ b.child = F.next /\ b.pin = p
      <4> TAKE p \in Given
      <4> DEFINE b == [path |-> Path \o p, at |-> F.at, child |-> F.next, pin |-> p,
                       signal |-> Child.connections[p]]
      <4>1. b \in new /\ b.at = F.at /\ b.child = F.next /\ b.pin = p
        OBVIOUS
      <4> QED
        BY <4>1
    <3> HIDE DEF new
    <3> QED
      BY <3>1, <3>2, <3>3 DEF Seen
  <2> HIDE DEF new
  <2>4. Seen(origin \cup new) = Seen(origin) \cup Seen(new)
    BY DEF Seen
  <2>5. Seen(origin)' = Seen(origin')
    BY DEF Seen
  <2> QED
    BY <2>1, <2>3, <2>4, <2>5
<1>7. UNION {Pinned(k) : k \in every} = (UNION {Pinned(k) : k \in placed}) \cup Pinned(l)
  OBVIOUS
<1>8. Seen(origin)' = UNION {Pinned(k) : k \in every}
  BY <1>6, <1>7 DEF Stored
<1> QED
  BY <1>3, <1>5, <1>8 DEF Stored

Explained(more) ==
  /\ {"recursive", "depth"} \cap more # {} => ~Bounded
  /\ "limit" \in more => "limit" \in warnings \/ Cost > limit
  /\ "collision" \in more => ~Unambiguous

LEMMA ReasonsKept ==
  ASSUME netlist' = netlist, limit' = limit, Reasons, NEW more, Explained(more),
         warnings' \cap Cuts = (warnings \cap Cuts) \cup more
  PROVE  Reasons'
<1>1. Bounded' = Bounded /\ Unambiguous' = Unambiguous /\ Cost' = Cost
  BY StructureKept
<1>2. \A w \in Cuts : w \in warnings' <=> w \in warnings \/ w \in more
  OBVIOUS
<1>3. /\ "recursive" \in warnings' <=> "recursive" \in warnings \/ "recursive" \in more
      /\ "depth" \in warnings' <=> "depth" \in warnings \/ "depth" \in more
      /\ "limit" \in warnings' <=> "limit" \in warnings \/ "limit" \in more
      /\ "collision" \in warnings' <=> "collision" \in warnings \/ "collision" \in more
  BY <1>2 DEF Cuts
<1> QED
  BY <1>1, <1>3 DEF Reasons, Explained

-----------------------------------------------------------------------------
(* The account is kept.                                                    *)
LEMMA AccountInit == PlainNames /\ Init => Accounted
<1> SUFFICES ASSUME PlainNames, Init PROVE Accounted
  OBVIOUS
<1>1. netlist \in Netlists /\ limit \in Nat /\ remaining = limit /\ warnings = {}
  BY ElaborationConstants DEF Init
<1>2. Len(frames) = 1 /\ DOMAIN frames = {1}
  <2>1. \E f : frames = <<f>>
    BY DEF Init
  <2> QED
    BY <2>1
<1>3. /\ Spot(frames[1]) = [at |-> <<>>, type |-> netlist.top] /\ frames[1].next = 0
      /\ frames[1].at = <<>>
  BY DEF Init, Call, Spot
<1>4. Chained
  <2>1. \A k \in DOMAIN frames : k + 1 \notin DOMAIN frames
    BY <1>2
  <2> QED
    BY <2>1 DEF Chained
<1>5. Reasons
  BY <1>1 DEF Reasons
<1>6. Rooted({}, {}) /\ AllBehind({}, {})
  BY <1>2, <1>3 DEF Rooted, AllBehind, Behind
<1>7. Closed({}, {})
  BY <1>2, <1>3 DEF Closed, Reached
<1>8. Charged({}, {})
  <2>1. Objects({}, {}) = {}
    BY DEF Objects
  <2> QED
    BY <1>1, <2>1, FS_EmptySet DEF Charged
<1>9. Stored({})
  BY DEF Init, Stored, Seen, Empty
<1>10. Account({}, {})
  BY <1>6, <1>7, <1>8, <1>9 DEF Account
<1> QED
  BY <1>1, <1>4, <1>5, <1>10 DEF Accounted

LEMMA AccountMade ==
  ASSUME NEW opened, NEW placed, Chained', Reasons', limit' = limit, limit \in Nat,
         netlist' = netlist, Rooted(opened, placed),
         AllBehind(opened, placed)', Closed(opened, placed)', Charged(opened, placed)',
         Stored(placed)'
  PROVE  Accounted'
<1>1. Rooted(opened, placed)'
  BY StructureKept DEF Rooted
<1>2. Account(opened, placed)'
  BY <1>1 DEF Account
<1>3. (\E o, p : Account(o, p))'
  BY <1>2
<1> QED
  BY <1>3 DEF Accounted

(* An activation ends because of a cut.                                    *)
LEMMA AccountCut ==
  ASSUME Walk, Naming, Chained, limit \in Nat, netlist' = netlist, limit' = limit, frames # <<>>,
         \/ frames' = Front(frames)
         \/ F.next > 0 /\ frames' = Advance,
         warnings \subseteq warnings', warnings' \cap Cuts # {},
         remaining' = remaining \/ "limit" \in warnings',
         instances' = instances, origin' = origin,
         NEW opened, NEW placed, Account(opened, placed), Reasons'
  PROVE  Accounted'
<1>1. /\ Rooted(opened, placed) /\ AllBehind(opened, placed)
      /\ Charged(opened, placed) /\ Stored(placed)
  BY DEF Account
<1>2. Closed(opened, placed)'
  BY DEF Closed, Cuts
<1>3. Charged(opened, placed)' /\ Stored(placed)'
  BY <1>1, ChargedKept, StoredKept
<1>4. CASE frames' = Front(frames)
  <2>1. Chained'
    BY <1>4, ChainedKept
  <2>2. AllBehind(opened, placed)'
    BY <1>1, <1>4, ReturnedBehind
  <2> QED
    BY <1>1, <1>2, <1>3, <2>1, <2>2, AccountMade
<1>5. CASE F.next > 0 /\ frames' = Advance
  <2>1. PICK f \in Activation : /\ Advance = [frames EXCEPT ![Len(frames)] = f]
                                /\ Spot(f) = Spot(F) /\ f.next = F.next + 1
    BY <1>5, GoneOn
  <2>2. Behind(f, opened, placed)
    BY <1>1, <1>5, <2>1, GoneOnBehind
  <2>3. Chained'
    BY <1>5, <2>1, ChainedKept
  <2>4. \A k \in DOMAIN frames : k # Len(frames) => Behind(frames[k], opened, placed)
    BY <1>1 DEF AllBehind
  <2>5. AllBehind(opened, placed)'
    BY <1>5, <2>1, <2>2, <2>4, BehindSteps
  <2> QED
    BY <1>1, <1>2, <1>3, <2>3, <2>5, AccountMade
<1> QED
  BY <1>4, <1>5

LEMMA AccountEnterModule ==
  ASSUME DistinctNames, Walk, Naming, Chained, Reasons, limit \in Nat, EnterModule,
         NEW opened, NEW placed, Account(opened, placed)
  PROVE  Accounted'
<1>1. /\ Rooted(opened, placed) /\ AllBehind(opened, placed) /\ Closed(opened, placed)
      /\ Charged(opened, placed) /\ Stored(placed) /\ netlist \in Netlists
  BY DEF Account, Walk
<1>2. /\ frames # <<>> /\ F.next = 0 /\ netlist' = netlist /\ limit' = limit
      /\ instances' = instances /\ origin' = origin
  BY EnterModuleCases
<1>3. /\ Len(frames) \in DOMAIN frames /\ F = frames[Len(frames)]
      /\ Modules[Spot(F).type] = M /\ Spot(F).at = F.at
      /\ Len(frames) <= MaxDepth => Spot(F) \in Occurrences
  BY <1>2, SpotAtWork
<1>4. Spot(F) \notin opened
  <2>1. Behind(F, opened, placed)
    BY <1>1, <1>3 DEF AllBehind
  <2> QED
    BY <1>2, <1>3, <2>1 DEF Behind
<1>5. PICK all : all = opened \cup {Spot(F)}
  OBVIOUS
<1>6. PICK amount : amount = Cardinality(M.nets) + 1
  OBVIOUS
<1>7. amount \in Nat
  BY <1>2, <1>6, AtWork, FS_CardinalityType DEF Module
<1>8. ASSUME Len(frames) <= MaxDepth
      PROVE  /\ Rooted(all, placed)
             /\ Cardinality(Objects(all, placed)) = Cardinality(Objects(opened, placed)) + amount
  <2>1. Rooted(all, placed)
    BY <1>1, <1>2, <1>5, <1>8, OpenedRooted
  <2>2. opened \in SUBSET Occurrences /\ placed \in SUBSET Leaves
    BY <1>1, RootedKinds
  <2>3. Cardinality(Objects(all, placed)) = Cardinality(Objects(opened, placed)) + amount
    BY <1>1, <1>3, <1>4, <1>5, <1>6, <1>8, <2>2, ObjectsOpened
  <2> QED
    BY <2>1, <2>3
<1>9. CASE /\ frames' = Front(frames) /\ warnings' = warnings \cup {"recursive"}
           /\ remaining' = remaining
           /\ \E i \in DOMAIN frames : i < Len(frames) /\ frames[i].type = F.type
  <2>1. ~Bounded
    BY <1>2, <1>9, Circular
  <2>2. Reasons'
    <3>1. warnings' \cap Cuts = (warnings \cap Cuts) \cup {"recursive"}
      BY <1>9 DEF Cuts
    <3>2. Explained({"recursive"})
      BY <2>1 DEF Explained
    <3> QED
      BY <1>2, <3>1, <3>2, ReasonsKept
  <2>3. warnings \subseteq warnings' /\ warnings' \cap Cuts # {}
    BY <1>9 DEF Cuts
  <2> QED
    BY <1>2, <1>9, <2>2, <2>3, AccountCut
<1>10. CASE /\ frames' = Front(frames) /\ warnings' = warnings \cup {"depth"}
            /\ remaining' = remaining /\ Len(frames) > MaxDepth
  <2>1. ~Bounded
    BY <1>2, <1>10, TooDeep
  <2>2. Reasons'
    <3>1. warnings' \cap Cuts = (warnings \cap Cuts) \cup {"depth"}
      BY <1>10 DEF Cuts
    <3>2. Explained({"depth"})
      BY <2>1 DEF Explained
    <3> QED
      BY <1>2, <3>1, <3>2, ReasonsKept
  <2>3. warnings \subseteq warnings' /\ warnings' \cap Cuts # {}
    BY <1>10 DEF Cuts
  <2> QED
    BY <1>2, <1>10, <2>2, <2>3, AccountCut
<1>11. CASE /\ frames' = Front(frames) /\ warnings' = warnings \cup {"limit"}
            /\ Len(frames) <= MaxDepth /\ Cardinality(M.nets) + 1 > remaining
  <2>1. "limit" \in warnings \/ Cost > limit
    BY <1>1, <1>6, <1>7, <1>8, <1>11, TooDear
  <2>2. Reasons'
    <3>1. warnings' \cap Cuts = (warnings \cap Cuts) \cup {"limit"}
      BY <1>11 DEF Cuts
    <3>2. Explained({"limit"})
      BY <2>1 DEF Explained
    <3> QED
      BY <1>2, <3>1, <3>2, ReasonsKept
  <2>3. warnings \subseteq warnings' /\ warnings' \cap Cuts # {} /\ "limit" \in warnings'
    BY <1>11 DEF Cuts
  <2> QED
    BY <1>2, <1>11, <2>2, <2>3, AccountCut
<1>12. CASE /\ frames' = [frames EXCEPT ![Len(frames)] = [F EXCEPT !.local = Joined, !.next = 1]]
            /\ warnings' = warnings /\ Len(frames) <= MaxDepth
            /\ remaining' = remaining - (Cardinality(M.nets) + 1)
  <2>1. Reasons'
    <3>1. warnings' \cap Cuts = (warnings \cap Cuts) \cup {}
      BY <1>12
    <3>2. Explained({})
      BY DEF Explained
    <3> QED
      BY <1>2, <3>1, <3>2, ReasonsKept
  <2>2. Chained'
    <3>1. Spot([F EXCEPT !.local = Joined, !.next = 1]) = Spot(F)
      BY <1>2, AtWork DEF Activation, Spot
    <3> QED
      BY <1>2, <1>12, <3>1, ChainedKept
  <2>3. AllBehind(all, placed)'
    BY <1>1, <1>2, <1>5, <1>12, OpenedBehind
  <2>4. Closed(all, placed)'
    BY <1>1, <1>2, <1>5, <1>12, OpenedClosed
  <2>5. Charged(all, placed)'
    BY <1>1, <1>2, <1>6, <1>7, <1>8, <1>12, ChargedMore
  <2>6. Stored(placed)'
    BY <1>1, <1>2, StoredKept
  <2> QED
    BY <1>2, <1>8, <1>12, <2>1, <2>2, <2>3, <2>4, <2>5, <2>6, AccountMade
<1> QED
  BY <1>9, <1>10, <1>11, <1>12, EnterModuleCases

LEMMA AccountLeaveModule ==
  ASSUME Walk, Naming, Chained, Reasons, limit \in Nat, LeaveModule,
         NEW opened, NEW placed, Account(opened, placed)
  PROVE  Accounted'
<1>1. /\ Rooted(opened, placed) /\ AllBehind(opened, placed) /\ Closed(opened, placed)
      /\ Charged(opened, placed) /\ Stored(placed)
  BY DEF Account
<1>2. /\ frames # <<>> /\ F.next > Len(M.children) /\ frames' = Front(frames)
      /\ netlist' = netlist /\ limit' = limit /\ remaining' = remaining /\ warnings' = warnings
      /\ instances' = instances /\ origin' = origin
  BY DEF LeaveModule, Return, index
<1>3. Chained' /\ AllBehind(opened, placed)' /\ Closed(opened, placed)'
  BY <1>1, <1>2, ChainedKept, ReturnedBehind, LeftClosed
<1>4. Charged(opened, placed)' /\ Stored(placed)'
  BY <1>1, <1>2, ChargedKept, StoredKept
<1>5. Reasons'
  <2>1. warnings' \cap Cuts = (warnings \cap Cuts) \cup {}
    BY <1>2
  <2>2. Explained({})
    BY DEF Explained
  <2> QED
    BY <1>2, <2>1, <2>2, ReasonsKept
<1> QED
  BY <1>1, <1>2, <1>3, <1>4, <1>5, AccountMade

LEMMA AccountEnterChild ==
  ASSUME Walk, Naming, Chained, Reasons, limit \in Nat, EnterChild,
         NEW opened, NEW placed, Account(opened, placed)
  PROVE  Accounted'
<1> DEFINE call == Call(Child.type, Append(F.at, Child.name), Path,
                        [p \in Signals |-> Resolve(Child.connections[p])])
<1>1. /\ Rooted(opened, placed) /\ AllBehind(opened, placed) /\ Closed(opened, placed)
      /\ Charged(opened, placed) /\ Stored(placed)
  BY DEF Account
<1>2. /\ frames # <<>> /\ F.next \in DOMAIN M.children /\ Child.type \in DOMAIN Modules
      /\ frames' = Append(Advance, call)
      /\ netlist' = netlist /\ limit' = limit /\ remaining' = remaining /\ warnings' = warnings
      /\ instances' = instances /\ origin' = origin
  BY DEF EnterChild, index
<1>3. call \in Activation /\ call.next = 0 /\ Spot(call) = Inner(F, Child)
  BY <1>2, CalledFrame DEF Call, Spot, Inner
<1> HIDE DEF call
<1>4. /\ F.next > 0 /\ Len(frames) \in DOMAIN frames /\ F = frames[Len(frames)] /\ F.next \in Nat
      /\ Modules[Spot(F).type] = M /\ ChildrenOf(F) = M.children
      /\ Spot(F).at = F.at /\ Spot(F).type = F.type
  BY <1>2, SpotAtWork
<1>5. PICK f \in Activation : /\ Advance = [frames EXCEPT ![Len(frames)] = f]
                              /\ Spot(f) = Spot(F) /\ f.next = F.next + 1
  BY <1>2, <1>4, GoneOn
<1>6. f.next - 1 = F.next /\ f.at = F.at /\ f.type = F.type
  BY <1>4, <1>5 DEF Spot
<1>7. Chained'
  <2>1. Caller(f, call)
    <3>1. ChildrenOf(f)[f.next - 1] = Child /\ f.next - 1 \in DOMAIN ChildrenOf(f)
      BY <1>2, <1>4, <1>6 DEF ChildrenOf, Child
    <3>2. Inner(f, Child) = Inner(F, Child)
      BY <1>6 DEF Inner
    <3>3. call.type = Child.type
      BY <1>3 DEF Spot, Inner
    <3> QED
      BY <1>2, <1>3, <3>1, <3>2, <3>3 DEF Caller
  <2> QED
    BY <1>2, <1>3, <1>5, <2>1, ChainedKept
<1>8. AllBehind(opened, placed)'
  <2>1. Behind(f, opened, placed)
    BY <1>1, <1>2, <1>4, <1>5, GoneOnBehind
  <2>2. Behind(call, opened, placed)
    BY <1>1, <1>2, <1>3, CalledBehind
  <2>3. \A k \in DOMAIN frames : k # Len(frames) => Behind(frames[k], opened, placed)
    BY <1>1 DEF AllBehind
  <2> QED
    BY <1>2, <1>3, <1>5, <2>1, <2>2, <2>3, BehindSteps
<1>9. Closed(opened, placed)'
  <2>1. /\ DOMAIN frames' = DOMAIN frames \cup {Len(frames) + 1}
        /\ \A k \in DOMAIN frames : Kept(k, f)
        /\ frames'[Len(frames) + 1] = call
    BY <1>2, <1>3, <1>5, FramesRemain
  <2>2. PICK spot, next, x, c : spot = Spot(F) /\ next = F.next /\ x = Inner(F, Child) /\ c = Child
    OBVIOUS
  <2>3. Modules' = Modules
    BY <1>2, StructureKept
  <2>4. c = Modules'[spot.type].children[next] /\ x = Inner(spot, c)' /\ c.type \in DOMAIN Modules'
    BY <1>2, <1>4, <2>2, <2>3 DEF Child, Inner
  <2>5. Reached(x, opened)'
    <3>1. Len(frames) + 1 \in DOMAIN frames' /\ Spot(frames'[Len(frames) + 1]) = x
      BY <1>3, <2>1, <2>2
    <3> QED
      BY <3>1 DEF Reached, Spot
  <2>6. Handled(spot, next, opened, placed)'
    BY <2>4, <2>5 DEF Handled
  <2>7. \A k \in DOMAIN frames : k \in DOMAIN frames' /\ Kept(k, f)
    BY <2>1
  <2> QED
    BY <1>1, <1>2, <1>5, <2>2, <2>6, <2>7, PassedClosed
<1>10. Charged(opened, placed)' /\ Stored(placed)'
  BY <1>1, <1>2, ChargedKept, StoredKept
<1>11. Reasons'
  <2>1. warnings' \cap Cuts = (warnings \cap Cuts) \cup {}
    BY <1>2
  <2>2. Explained({})
    BY DEF Explained
  <2> QED
    BY <1>2, <2>1, <2>2, ReasonsKept
<1> QED
  BY <1>1, <1>2, <1>7, <1>8, <1>9, <1>10, <1>11, AccountMade

LEMMA AccountCollide ==
  ASSUME Walk, Naming, Chained, Reasons, limit \in Nat, Collide,
         NEW opened, NEW placed, Account(opened, placed)
  PROVE  Accounted'
<1>1. Rooted(opened, placed) /\ AllBehind(opened, placed) /\ Stored(placed)
  BY DEF Account
<1>2. /\ frames # <<>> /\ F.next \in DOMAIN M.children /\ Child.type \notin DOMAIN Modules
      /\ Path \in DOMAIN instances /\ frames' = Advance /\ warnings' = warnings \cup {"collision"}
      /\ netlist' = netlist /\ limit' = limit /\ remaining' = remaining
      /\ instances' = instances /\ origin' = origin
  BY DEF Collide, AtLeaf, Warn, index
<1>3. F.next > 0
  BY <1>2, SpotAtWork
<1>4. PICK l : l = LeafOf(Spot(F), F.next)
  OBVIOUS
<1>5. l \in Leaves /\ l \notin placed /\ LeafPath(l) = Path
  BY <1>1, <1>2, <1>4, PlacedRooted, PathOfLeaf
<1>6. PICK k \in placed : LeafPath(k) = Path
  BY <1>1, <1>2 DEF Stored
<1>7. ~Unambiguous
  BY <1>1, <1>5, <1>6 DEF Unambiguous, Rooted
<1>8. Reasons'
  <2>1. warnings' \cap Cuts = (warnings \cap Cuts) \cup {"collision"}
    BY <1>2 DEF Cuts
  <2>2. Explained({"collision"})
    BY <1>7 DEF Explained
  <2> QED
    BY <1>2, <2>1, <2>2, ReasonsKept
<1>9. warnings \subseteq warnings' /\ warnings' \cap Cuts # {}
  BY <1>2 DEF Cuts
<1> QED
  BY <1>2, <1>3, <1>8, <1>9, AccountCut

LEMMA AccountPlaceLeaf ==
  ASSUME Walk, Naming, Chained, Reasons, limit \in Nat, PlaceLeaf,
         NEW opened, NEW placed, Account(opened, placed)
  PROVE  Accounted'
<1>1. /\ Rooted(opened, placed) /\ AllBehind(opened, placed) /\ Closed(opened, placed)
      /\ Charged(opened, placed) /\ Stored(placed) /\ netlist \in Netlists
  BY DEF Account, Walk
<1>2. /\ frames # <<>> /\ F.next \in DOMAIN M.children /\ Child.type \notin DOMAIN Modules
      /\ Path \notin DOMAIN instances /\ netlist' = netlist /\ limit' = limit
  BY PlaceLeafCases
<1>3. /\ F.next > 0 /\ F.next \in Nat /\ Modules[Spot(F).type] = M
  BY <1>2, SpotAtWork
<1>4. PICK l : l = LeafOf(Spot(F), F.next)
  OBVIOUS
<1>5. PICK every : every = placed \cup {l}
  OBVIOUS
<1>6. l \in Leaves /\ l \notin placed /\ Rooted(opened, every)
  BY <1>1, <1>2, <1>4, <1>5, PlacedRooted
<1>7. PICK amount : amount = Cardinality(DOMAIN Child.connections) + 1
  OBVIOUS
<1>8. amount \in Nat
  BY <1>2, <1>7, ChildKind, FS_CardinalityType
<1>9. Cardinality(Objects(opened, every)) = Cardinality(Objects(opened, placed)) + amount
  <2>1. l.child = Child
    BY <1>3, <1>4 DEF LeafOf, Child
  <2>2. opened \in SUBSET Occurrences /\ placed \in SUBSET Leaves
    BY <1>1, RootedKinds
  <2> QED
    BY <1>1, <1>5, <1>6, <1>7, <2>1, <2>2, ObjectsPlaced
<1>10. CASE /\ frames' = Front(frames) /\ warnings' \cap Cuts = (warnings \cap Cuts) \cup {"limit"}
            /\ Cardinality(DOMAIN Child.connections) + 1 > remaining
            /\ instances' = instances /\ origin' = origin
  <2>1. "limit" \in warnings \/ Cost > limit
    BY <1>1, <1>6, <1>7, <1>8, <1>9, <1>10, TooDear
  <2>2. Reasons'
    <3>1. Explained({"limit"})
      BY <2>1 DEF Explained
    <3> QED
      BY <1>2, <1>10, <3>1, ReasonsKept
  <2>3. warnings \subseteq warnings'
    BY WarningsStay DEF Next
  <2>4. warnings' \cap Cuts # {} /\ "limit" \in warnings'
    BY <1>10 DEF Cuts
  <2> QED
    BY <1>2, <1>10, <2>2, <2>3, <2>4, AccountCut
<1>11. CASE /\ Places /\ warnings' \cap Cuts = warnings \cap Cuts
            /\ remaining' = remaining - (Cardinality(DOMAIN Child.connections) + 1)
  <2>1. frames' = Advance /\ warnings \subseteq warnings'
    BY <1>11, WarningsStay DEF Places, Next
  <2>2. PICK f \in Activation : /\ Advance = [frames EXCEPT ![Len(frames)] = f]
                                /\ Spot(f) = Spot(F) /\ f.next = F.next + 1
    BY <1>2, <1>3, GoneOn
  <2>3. Chained'
    BY <1>2, <2>1, <2>2, ChainedKept
  <2>4. AllBehind(opened, every)'
    BY <1>1, <1>2, <1>4, <1>5, <2>1, PlacedBehind
  <2>5. Closed(opened, every)'
    <3>1. DOMAIN frames' = DOMAIN frames /\ \A k \in DOMAIN frames : Kept(k, f)
      BY <1>2, <2>1, <2>2, FramesRemain
    <3>2. PICK spot, next : spot = Spot(F) /\ next = F.next
      OBVIOUS
    <3>3. Modules' = Modules
      BY <1>2, StructureKept
    <3>4. l = LeafOf(spot, next)' /\ Modules[spot.type].children[next].type \notin DOMAIN Modules
      BY <1>2, <1>3, <1>4, <3>2, <3>3 DEF LeafOf, Child
    <3>5. Handled(spot, next, opened, every)'
      BY <1>5, <3>3, <3>4 DEF Handled
    <3>6. \A k \in DOMAIN frames : k \in DOMAIN frames' /\ Kept(k, f)
      BY <3>1
    <3>7. placed \subseteq every
      BY <1>5
    <3> QED
      BY <1>1, <1>2, <2>1, <2>2, <3>2, <3>5, <3>6, <3>7, PassedClosed
  <2>6. Charged(opened, every)'
    BY <1>1, <1>2, <1>7, <1>8, <1>9, <1>11, <2>1, ChargedMore
  <2>7. Stored(every)'
    BY <1>1, <1>2, <1>4, <1>5, <1>11, StoredMore
  <2>8. Reasons'
    <3>1. warnings' \cap Cuts = (warnings \cap Cuts) \cup {}
      BY <1>11
    <3>2. Explained({})
      BY DEF Explained
    <3> QED
      BY <1>2, <3>1, <3>2, ReasonsKept
  <2> QED
    BY <1>2, <1>6, <2>3, <2>4, <2>5, <2>6, <2>7, <2>8, AccountMade
<1> QED
  BY <1>10, <1>11, PlaceLeafCases

LEMMA AccountRests ==
  ASSUME Chained, Reasons, limit \in Nat, netlist' = netlist, limit' = limit, frames' = frames,
         remaining' = remaining, warnings' = warnings, instances' = instances, origin' = origin,
         NEW opened, NEW placed, Account(opened, placed)
  PROVE  Accounted'
<1>1. /\ Rooted(opened, placed) /\ AllBehind(opened, placed) /\ Closed(opened, placed)
      /\ Charged(opened, placed) /\ Stored(placed)
  BY DEF Account
<1>2. Modules' = Modules
  BY StructureKept
<1>3. Chained' /\ AllBehind(opened, placed)'
  BY <1>1, <1>2 DEF Chained, AllBehind, Caller, Behind, ChildrenOf, Spot, Inner
<1>4. Closed(opened, placed)'
  <2>1. \A k \in DOMAIN frames : k \in DOMAIN frames' /\ Spot(frames'[k]) = Spot(frames[k])
    OBVIOUS
  <2>2. \A o \in opened : \A i \in DOMAIN Modules[o.type].children : Ahead(o, i) => Ahead(o, i)'
    BY DEF Ahead, Spot
  <2>3. \A o \in opened \ opened : \A i \in DOMAIN Modules[o.type].children : Ahead(o, i)'
    OBVIOUS
  <2> QED
    BY <1>1, <2>1, <2>2, <2>3, ClosedKept
<1>5. Charged(opened, placed)' /\ Stored(placed)'
  BY <1>1, ChargedKept, StoredKept
<1>6. Reasons'
  BY StructureKept DEF Reasons
<1> QED
  BY <1>1, <1>3, <1>4, <1>5, <1>6, AccountMade

LEMMA AccountNext == DistinctNames /\ Walk /\ Naming /\ Accounted /\ [Next]_vars => Accounted'
<1> SUFFICES ASSUME DistinctNames, Walk, Naming, Accounted, [Next]_vars PROVE Accounted'
  OBVIOUS
<1>1. Chained /\ Reasons /\ limit \in Nat
  BY DEF Accounted
<1>2. PICK opened, placed : Account(opened, placed)
  BY DEF Accounted
<1>3. CASE EnterModule
  BY <1>1, <1>2, <1>3, AccountEnterModule
<1>4. CASE LeaveModule
  BY <1>1, <1>2, <1>4, AccountLeaveModule
<1>5. CASE EnterChild
  BY <1>1, <1>2, <1>5, AccountEnterChild
<1>6. CASE Collide
  BY <1>1, <1>2, <1>6, AccountCollide
<1>7. CASE PlaceLeaf
  BY <1>1, <1>2, <1>7, AccountPlaceLeaf
<1>8. CASE Finish
  <2>1. /\ netlist' = netlist /\ limit' = limit /\ frames' = frames /\ remaining' = remaining
        /\ warnings' = warnings /\ instances' = instances /\ origin' = origin
    BY <1>8 DEF Finish
  <2> QED
    BY <1>1, <1>2, <2>1, AccountRests
<1>9. CASE UNCHANGED vars
  <2>1. /\ netlist' = netlist /\ limit' = limit /\ frames' = frames /\ remaining' = remaining
        /\ warnings' = warnings /\ instances' = instances /\ origin' = origin
    BY <1>9 DEF vars
  <2> QED
    BY <1>1, <1>2, <2>1, AccountRests
<1> QED
  BY <1>3, <1>4, <1>5, <1>6, <1>7, <1>8, <1>9 DEF Next

(* When the walk is over and nothing was cut, the account is that of the   *)
(* whole structure, which therefore ends before the bound on the depth.    *)
LEMMA AllAccounted ==
  ASSUME Walk, frames = <<>>, warnings \cap Cuts = {},
         NEW opened, NEW placed, Rooted(opened, placed), Closed(opened, placed)
  PROVE  Bounded /\ opened = Occurrences /\ placed = Leaves
<1>1. /\ netlist \in Netlists /\ MaxDepth \in Nat /\ MaxDepth # 0 /\ opened \subseteq Occurrences
      /\ placed \subseteq Leaves
  BY ElaborationConstants DEF Walk, Rooted
<1>2. DOMAIN frames = {}
  BY <1>1
<1>3. /\ [at |-> <<>>, type |-> netlist.top] \in opened
      /\ \A o \in opened : \A i \in DOMAIN Modules[o.type].children : Handled(o, i, opened, placed)
  BY <1>2 DEF Closed, Reached, Ahead
<1>4. \A o \in opened : \A i \in DOMAIN Modules[o.type].children :
        LET c == Modules[o.type].children[i]
        IN  IF c.type \in DOMAIN Modules THEN Inner(o, c) \in opened ELSE LeafOf(o, i) \in placed
  BY <1>2, <1>3 DEF Handled, Reached
<1> DEFINE G == {d \in Nat : d \in 0..MaxDepth => Levels[d] \subseteq opened}
<1>5. 0 \in G
  BY <1>1, <1>3, LevelsAre
<1>6. ASSUME NEW d \in Nat, d \in G PROVE d + 1 \in G
  <2> SUFFICES ASSUME d + 1 \in 0..MaxDepth, NEW x \in Levels[d + 1] PROVE x \in opened
    OBVIOUS
  <2>1. d \in 0..MaxDepth /\ d + 1 \in 1..MaxDepth /\ (d + 1) - 1 = d
    BY <1>1
  <2>2. PICK o \in Levels[d] : x \in Inside(o)
    BY <1>1, <2>1, LevelsAre
  <2>3. PICK c \in Children(o) : c.type \in DOMAIN Modules /\ x = Inner(o, c)
    BY <2>2 DEF Inside, Inner
  <2>4. PICK i \in DOMAIN Modules[o.type].children : c = Modules[o.type].children[i]
    BY <2>3 DEF Children, Range
  <2>5. o \in opened
    BY <1>6, <2>1
  <2> QED
    BY <1>4, <2>3, <2>4, <2>5
<1>7. \A d \in 0..MaxDepth : Levels[d] \subseteq opened
  <2> HIDE DEF G
  <2>1. Nat \subseteq G
    BY <1>5, <1>6, Naturals
  <2>2. \A d \in 0..MaxDepth : d \in Nat
    OBVIOUS
  <2> QED
    BY <2>1, <2>2 DEF G
<1>8. Bounded
  <2> SUFFICES ASSUME NEW x \in Levels[MaxDepth] PROVE FALSE
    BY DEF Bounded
  <2>1. MaxDepth \in 0..MaxDepth
    BY <1>1
  <2>2. Len(x.at) = MaxDepth
    BY <1>1, <2>1, LevelLength
  <2>3. x \in Occurrences
    BY <1>1, <1>7, <2>1
  <2>4. Len(x.at) < MaxDepth
    BY <1>1, <2>3, LevelOf
  <2> QED
    BY <1>1, <2>2, <2>4
<1>9. opened = Occurrences
  <2>1. \A d \in 0..(MaxDepth - 1) : d \in 0..MaxDepth
    BY <1>1
  <2> QED
    BY <1>1, <1>7, <2>1 DEF Occurrences
<1>10. Leaves \subseteq placed
  <2> SUFFICES ASSUME NEW l \in Leaves PROVE l \in placed
    OBVIOUS
  <2>1. PICK o \in Occurrences : \E i \in DOMAIN Modules[o.type].children :
          Modules[o.type].children[i].type \notin DOMAIN Modules /\ l = LeafOf(o, i)
    BY <1>1, LeavesAre
  <2> QED
    BY <1>4, <1>9, <2>1
<1> QED
  BY <1>1, <1>8, <1>9, <1>10

(* An elaboration is cut short exactly when a warning of it says so: when  *)
(* there is none, all that the structure has was built, and it fits.       *)
THEOREM NoSilentCut ==
  ASSUME PlainNames, DistinctNames
  PROVE  Spec => []CutIffWarned
<1>1. Init => Walk /\ Tables /\ Naming /\ Accounted
  BY WalkInit, TablesInit, NamingInit, AccountInit
<1>2. Walk /\ Tables /\ Naming /\ Accounted /\ [Next]_vars
        => (Walk /\ Tables /\ Naming /\ Accounted)'
  BY PlainNamesPlainPins, WalkNext, TablesNext, NamingNext, AccountNext
<1>3. Walk /\ Accounted => CutIffWarned
  <2> SUFFICES ASSUME Walk, Accounted, done PROVE CutIffWarned
    BY DEF CutIffWarned
  <2>1. frames = <<>> /\ netlist \in Netlists /\ Reasons /\ limit \in Nat /\ remaining \in Nat
    BY DEF Walk, Accounted
  <2>2. PICK opened, placed : Account(opened, placed)
    BY DEF Accounted
  <2>3. /\ Rooted(opened, placed) /\ Closed(opened, placed)
        /\ Charged(opened, placed) /\ Stored(placed)
    BY <2>2 DEF Account
  <2>4. ASSUME warnings \cap Cuts = {}
        PROVE  /\ Bounded /\ Unambiguous /\ Cost <= limit
               /\ Seen(origin) = UNION {Pinned(l) : l \in Leaves}
    <3>1. Bounded /\ opened = Occurrences /\ placed = Leaves
      BY <2>1, <2>3, <2>4, AllAccounted
    <3>2. Unambiguous
      BY <2>3, <3>1 DEF Stored, Unambiguous
    <3>3. Cost <= limit
      <4>1. "limit" \notin warnings
        BY <2>4 DEF Cuts
      <4>2. remaining + Cost = limit
        BY <2>3, <3>1, <4>1 DEF Charged, Cost
      <4>3. Cost \in Nat
        BY <2>1, ObjectsFinite
      <4> QED
        BY <2>1, <4>2, <4>3
    <3>4. Seen(origin) = UNION {Pinned(l) : l \in Leaves}
      BY <2>3, <3>1 DEF Stored
    <3> QED
      BY <3>1, <3>2, <3>3, <3>4
  <2>5. ASSUME Bounded, Unambiguous, Cost <= limit PROVE warnings \cap Cuts = {}
    <3>1. Cost \in Nat
      BY <2>1, ObjectsFinite
    <3>2. ~(Cost > limit)
      BY <2>1, <2>5, <3>1
    <3> QED
      BY <2>1, <2>5, <3>2 DEF Reasons, Cuts
  <2> QED
    BY <2>4, <2>5 DEF CutIffWarned, Seen, Pinned
<1> QED
  BY <1>1, <1>2, <1>3, PTL DEF Spec
=============================================================================
