--------------------------- MODULE PublicationProofs ---------------------------
(***************************************************************************)
(* That staging and renaming implements atomic files, for any number of    *)
(* writers, paths, staging names and files, and any interference.          *)
(***************************************************************************)
EXTENDS Publication, TLAPS

Labels == {"idle", "resolve", "stat", "probe", "reserve", "write", "chmod", "replace", "cleanup"}
Staging == {"write", "chmod", "replace", "cleanup"}

Typed ==
  /\ dir \in [Paths \cup Temps -> Files \cup Paths \cup {None, Directory}]
  /\ file \in [Files -> [content : Values \cup {Torn}, mode : Modes]]
  /\ pc \in [Writers -> Labels]
  /\ call \in [Writers -> [path : Paths, value : Values] \cup {None}]
  /\ target \in [Writers -> Paths \cup {None}]
  /\ mode \in [Writers -> Modes \cup {NoMode}]
  /\ temp \in [Writers -> Temps \cup {None}]
  /\ abandoned \subseteq Temps /\ meddled \in Nat

(* What a writer holds at each of its calls.                               *)
Held(w) ==
  /\ pc[w] = "idle" <=> call[w] = None
  /\ pc[w] \notin {"idle", "resolve"} => target[w] \in Paths
  /\ pc[w] \in Staging <=> temp[w] # None
  /\ pc[w] \in Staging => dir[temp[w]] \in Files /\ temp[w] \notin abandoned
  /\ pc[w] \in {"chmod", "replace"} => file[dir[temp[w]]].content = call[w].value

(* No staging entry shares its file with any other entry; what has been    *)
(* abandoned stays.                                                        *)
Private ==
  \A t \in Temps :
    /\ dir[t] \in Files \cup {None} /\ (t \in abandoned => dir[t] # None)
    /\ dir[t] # None =>
         /\ \A u \in Temps \ {t} : dir[u] # dir[t]
         /\ \A p \in Paths : dir[p] # dir[t]

NotShared == \A w, u \in Writers : w # u /\ temp[w] # None => temp[u] # temp[w]

Used == \A t \in Temps : dir[t] # None /\ t \notin abandoned => \E w \in Writers : temp[w] = t

(* Without interference the place found by a writer stays where it is.     *)
Settled ==
  meddled = 0 =>
    \A w \in Writers : pc[w] \notin {"idle", "resolve"} =>
      target[w] = Resolved(call[w].path) /\ dir[target[w]] \notin Paths

Inv == Typed /\ (\A w \in Writers : Held(w)) /\ Private /\ NotShared /\ Used /\ Settled

-----------------------------------------------------------------------------
LEMMA InitInv == Init => Inv
<1> SUFFICES ASSUME Init PROVE Inv
  OBVIOUS
<1>1. PICK d \in Disks : dir = d.dir /\ file = d.file
  BY DEF Init
<1>2. Disk(d)
  BY PublicationConstants
<1>3. Typed
  BY <1>1, <1>2, PublicationConstants DEF Init, Typed, Disk, Labels, NoCall
<1> QED
  BY <1>1, <1>2, <1>3, PublicationConstants
     DEF Inv, Init, Held, Private, NotShared, Used, Settled, Disk, Staging, NoCall

(* A step of one writer that ends its call, with the disk as it was.       *)
LEMMA EndInv ==
  ASSUME Inv, NEW w \in Writers, End(w), UNCHANGED <<file, meddled>>,
         \/ dir' = dir /\ abandoned' = abandoned \cup ({temp[w]} \ {None})
         \/ temp[w] # None /\ dir' = [dir EXCEPT ![temp[w]] = None] /\ abandoned' = abandoned
  PROVE  Inv'
<1> USE PublicationConstants DEF Inv, End, Goto, NoCall
<1>1. Typed'
  BY DEF Typed, Labels
<1>2. \A u \in Writers : Held(u)'
  <2> SUFFICES ASSUME NEW u \in Writers PROVE Held(u)'
    OBVIOUS
  <2>1. CASE u = w
    BY <2>1 DEF Typed, Held, Staging
  <2>2. CASE u # w
    <3>1. temp[u] # None => temp[u] # temp[w]
      BY <2>2 DEF NotShared
    <3>2. /\ pc'[u] = pc[u] /\ call'[u] = call[u] /\ target'[u] = target[u] /\ temp'[u] = temp[u]
      BY <2>2 DEF Typed
    <3>3. temp[u] # None => dir'[temp[u]] = dir[temp[u]] /\ (temp[u] \in abandoned' => temp[u] \in abandoned)
      BY <3>1 DEF Typed
    <3> QED
      BY <3>2, <3>3 DEF Held, Staging
  <2> QED
    BY <2>1, <2>2
<1>3. Private'
  BY DEF Typed, Private, Held, Staging
<1>4. NotShared'
  BY DEF Typed, NotShared
<1>5. Used'
  <2> SUFFICES ASSUME NEW t \in Temps, dir'[t] # None, t \notin abandoned'
               PROVE  \E u \in Writers : temp'[u] = t
    BY DEF Used
  <2>1. dir[t] # None /\ t \notin abandoned /\ temp[w] # t
    BY DEF Typed
  <2>2. PICK u \in Writers : temp[u] = t
    BY <2>1 DEF Used
  <2> QED
    BY <2>1, <2>2 DEF Typed
<1>6. Settled'
  <2> SUFFICES ASSUME meddled = 0, NEW u \in Writers, pc'[u] \notin {"idle", "resolve"}
               PROVE  (target[u] = Resolved(call[u].path) /\ dir[target[u]] \notin Paths)'
    BY DEF Settled
  <2>1. u # w /\ pc'[u] = pc[u] /\ call'[u] = call[u] /\ target'[u] = target[u]
    BY DEF Typed
  <2>2. call[u].path \in Paths /\ target[u] \in Paths
    BY <2>1 DEF Held, Typed
  <2>3. \A p \in Paths : dir'[p] = dir[p]
    BY DEF Typed
  <2> QED
    BY <2>1, <2>2, <2>3 DEF Settled, Resolved
<1> QED
  BY <1>1, <1>2, <1>3, <1>4, <1>5, <1>6

(* A step of one writer that continues its call, in a table of what such   *)
(* steps leave alone; `new' is the label it goes to.                       *)
LEMMA ProgressInv ==
  ASSUME Inv, NEW w \in Writers, NEW new \in Labels \ {"idle", "resolve"}, Goto(w, new),
         pc[w] # "idle", UNCHANGED <<dir, call, abandoned, meddled, temp>>,
         \/ target' = target /\ pc[w] # "resolve"
         \/ /\ pc[w] = "resolve" /\ ~Loops(call[w].path)
            /\ target' = [target EXCEPT ![w] = Resolved(call[w].path)],
         pc[w] \in Staging <=> new \in Staging,
         mode' \in [Writers -> Modes \cup {NoMode}],
         \/ file' = file /\ pc[w] \in {"chmod", "replace"}
         \/ file' = file /\ new \notin {"chmod", "replace"}
         \/ /\ pc[w] \in Staging /\ pc[w] # "cleanup"
            /\ \E c \in [content : Values \cup {Torn}, mode : Modes] :
                 file' = [file EXCEPT ![Staged(w)] = c] /\ c.content = call[w].value
  PROVE  Inv'
<1> USE PublicationConstants DEF Inv, Goto
<1>1. call[w] \in [path : Paths, value : Values]
  BY DEF Held, Typed
<1>2. target' \in [Writers -> Paths \cup {None}] /\ target'[w] \in Paths
        /\ \A u \in Writers \ {w} : target'[u] = target[u]
  BY <1>1 DEF Held, Typed, Resolved
<1>3. Typed'
  <2>1. file' \in [Files -> [content : Values \cup {Torn}, mode : Modes]]
    BY DEF Typed
  <2>2. pc' \in [Writers -> Labels]
    BY DEF Typed
  <2> QED
    BY <2>1, <2>2, <1>2 DEF Typed
<1>4. \A u \in Writers : Held(u)'
  <2> SUFFICES ASSUME NEW u \in Writers PROVE Held(u)'
    OBVIOUS
  <2>1. CASE u = w
    <3>1. new \in {"chmod", "replace"} => file'[dir[temp[w]]].content = call[w].value
      BY DEF Typed, Held, Staging, Staged
    <3> QED
      BY <2>1, <3>1, <1>1, <1>2 DEF Typed, Held, Staging
  <2>2. CASE u # w
    <3>1. pc[u] \in {"chmod", "replace"} => file'[dir[temp[u]]].content = file[dir[temp[u]]].content
      <4> SUFFICES ASSUME pc[u] \in {"chmod", "replace"}
                   PROVE  file'[dir[temp[u]]].content = file[dir[temp[u]]].content
        OBVIOUS
      <4>1. temp[u] \in Temps /\ dir[temp[u]] \in Files
        BY DEF Typed, Held, Staging
      <4>2. pc[w] \in Staging => temp[w] \in Temps /\ temp[w] # temp[u] /\ dir[temp[w]] # dir[temp[u]]
        BY <4>1, <2>2 DEF Typed, Held, NotShared, Private
      <4> QED
        BY <4>1, <4>2 DEF Typed, Staged
    <3>2. pc'[u] = pc[u] /\ target'[u] = target[u]
      BY <2>2, <1>2 DEF Typed
    <3> QED
      BY <3>1, <3>2 DEF Held
  <2> QED
    BY <2>1, <2>2
<1>5. Private' /\ NotShared' /\ Used'
  BY DEF Private, NotShared, Used
<1>6. Settled'
  <2> SUFFICES ASSUME meddled = 0, NEW u \in Writers, pc'[u] \notin {"idle", "resolve"}
               PROVE  (target[u] = Resolved(call[u].path) /\ dir[target[u]] \notin Paths)'
    BY DEF Settled
  <2>1. CASE u = w
    <3>1. CASE target' = target /\ pc[w] # "resolve"
      BY <2>1, <3>1, <1>1 DEF Settled, Resolved, Typed
    <3>2. CASE /\ pc[w] = "resolve" /\ ~Loops(call[w].path)
               /\ target' = [target EXCEPT ![w] = Resolved(call[w].path)]
      <4>1. target'[w] = Resolved(call[w].path)
        BY <3>2 DEF Typed
      <4> QED
        BY <2>1, <3>2, <4>1 DEF Resolved, Loops
    <3> QED
      BY <3>1, <3>2
  <2>2. CASE u # w
    <3>1. pc'[u] = pc[u] /\ target'[u] = target[u]
      BY <2>2, <1>2 DEF Typed
    <3>2. target[u] = Resolved(call[u].path) /\ dir[target[u]] \notin Paths
      BY <3>1 DEF Settled
    <3> QED
      BY <3>1, <3>2 DEF Resolved
  <2> QED
    BY <2>1, <2>2
<1> QED
  BY <1>3, <1>4, <1>5, <1>6

LEMMA BeginInv ==
  ASSUME Inv, NEW w \in Writers, NEW p \in Paths, NEW v \in Values, Begin(w, p, v)
  PROVE  Inv'
<1> USE PublicationConstants DEF Inv, Begin, Goto, disk
<1>1. Typed'
  BY DEF Typed, Labels
<1>2. \A u \in Writers : Held(u)'
  BY DEF Typed, Held, Staging
<1>3. Private' /\ NotShared' /\ Used'
  BY DEF Private, NotShared, Used
<1>4. Settled'
  BY DEF Settled, Resolved, Typed
<1> QED
  BY <1>1, <1>2, <1>3, <1>4

LEMMA ReserveInv ==
  ASSUME Inv, NEW w \in Writers, pc[w] = "reserve", UNCHANGED bounds,
         NEW t \in Temps, NEW f \in Free, dir[t] = None,
         dir' = [dir EXCEPT ![t] = f],
         file' = [file EXCEPT ![f] = [content |-> Torn, mode |-> NewMode]],
         temp' = [temp EXCEPT ![w] = t], Goto(w, "write"), UNCHANGED <<call, target, mode>>
  PROVE  Inv'
<1> USE PublicationConstants DEF Inv, Goto, bounds
<1>1. f \in Files /\ \A e \in Paths \cup Temps : dir[e] # f
  BY DEF Free
<1>2. Typed'
  BY <1>1 DEF Typed, Labels
<1>3. \A u \in Writers \ {w} : temp[u] # t
  BY DEF Held, Typed
<1>4. \A u \in Writers : Held(u)'
  <2> SUFFICES ASSUME NEW u \in Writers PROVE Held(u)'
    OBVIOUS
  <2>1. CASE u = w
    BY <2>1, <1>1, <1>2 DEF Typed, Held, Staging, Private
  <2>2. CASE u # w
    <3>1. pc'[u] = pc[u] /\ temp'[u] = temp[u] /\ temp[u] # t
      BY <2>2, <1>3 DEF Typed
    <3>2. temp[u] # None => temp[u] \in Temps /\ dir'[temp[u]] = dir[temp[u]]
      BY <3>1 DEF Typed
    <3>3. temp[u] # None => file'[dir[temp[u]]] = file[dir[temp[u]]]
      BY <3>2, <1>1 DEF Typed, Held
    <3> QED
      BY <3>1, <3>2, <3>3 DEF Held, Staging
  <2> QED
    BY <2>1, <2>2
<1>5. Private' /\ NotShared'
  BY <1>1, <1>3 DEF Private, NotShared, Typed
<1>6. Used'
  BY <1>3 DEF Used, Typed, Held, Staging
<1>7. Settled'
  BY DEF Settled, Resolved, Typed, Held
<1> QED
  BY <1>2, <1>4, <1>5, <1>6, <1>7

LEMMA ReplaceInv ==
  ASSUME Inv, NEW w \in Writers, Replace(w)
  PROVE  Inv'
<1> USE PublicationConstants DEF Inv, Replace, End, Goto, NoCall, bounds, Staged
<1>1. temp[w] \in Temps /\ target[w] \in Paths /\ dir[temp[w]] \in Files
  BY DEF Held, Typed, Staging
<1>2. Typed'
  BY <1>1 DEF Typed, Labels
<1>3. \A u \in Writers \ {w} : temp[u] # temp[w]
  BY <1>1 DEF NotShared
<1>4. \A u \in Writers : Held(u)'
  <2> SUFFICES ASSUME NEW u \in Writers PROVE Held(u)'
    OBVIOUS
  <2>1. CASE u = w
    BY <2>1 DEF Typed, Held, Staging
  <2>2. CASE u # w
    <3>1. /\ pc'[u] = pc[u] /\ call'[u] = call[u] /\ target'[u] = target[u] /\ temp'[u] = temp[u]
      BY <2>2 DEF Typed
    <3>2. temp[u] # None => dir'[temp[u]] = dir[temp[u]]
      BY <1>1, <1>3, <2>2 DEF Typed
    <3> QED
      BY <3>1, <3>2 DEF Held, Staging
  <2> QED
    BY <2>1, <2>2
<1>5. Private'
  <2>1. temp[w] \notin abandoned
    BY DEF Held, Staging
  <2>2. \A t \in Temps : dir'[t] = IF t = temp[w] THEN None ELSE dir[t]
    BY <1>1 DEF Typed
  <2>3. \A p \in Paths : dir'[p] = IF p = target[w] THEN dir[temp[w]] ELSE dir[p]
    BY <1>1 DEF Typed
  <2>4. \A t \in Temps \ {temp[w]} : dir[t] # None => dir[t] # dir[temp[w]]
    BY <1>1 DEF Private
  <2>5. SUFFICES ASSUME NEW t \in Temps
                 PROVE  /\ dir'[t] \in Files \cup {None} /\ (t \in abandoned' => dir'[t] # None)
                        /\ dir'[t] # None => /\ \A u \in Temps \ {t} : dir'[u] # dir'[t]
                                             /\ \A p \in Paths : dir'[p] # dir'[t]
    BY DEF Private
  <2>6. CASE t = temp[w]
    BY <2>1, <2>2, <2>6
  <2>7. CASE t # temp[w]
    <3>1. dir'[t] = dir[t] /\ abandoned' = abandoned /\ dir[t] \in Files \cup {None}
      BY <2>2, <2>7 DEF Private
    <3>2. t \in abandoned' => dir'[t] # None
      BY <3>1 DEF Private
    <3>3. ASSUME dir[t] # None, NEW u \in Temps \ {t} PROVE dir'[u] # dir[t]
      <4>1. dir[u] # None => dir[u] # dir[t]
        BY <3>3 DEF Private
      <4>2. dir'[u] = None \/ dir'[u] = dir[u]
        BY <2>2, <3>3
      <4> QED
        BY <3>3, <4>1, <4>2
    <3>4. ASSUME dir[t] # None, NEW p \in Paths PROVE dir'[p] # dir[t]
      <4>1. CASE p = target[w]
        BY <2>3, <2>4, <2>7, <3>4, <4>1
      <4>2. CASE p # target[w]
        <5>1. dir'[p] = dir[p]
          BY <2>3, <4>2
        <5> QED
          BY <5>1, <3>4 DEF Private
      <4> QED
        BY <4>1, <4>2
    <3> QED
      BY <3>1, <3>2, <3>3, <3>4
  <2> QED
    BY <2>6, <2>7
<1>6. NotShared'
  BY DEF NotShared, Typed
<1>7. Used'
  BY <1>1 DEF Used, Typed
<1>8. Settled'
  <2> SUFFICES ASSUME meddled = 0, NEW u \in Writers, pc'[u] \notin {"idle", "resolve"}
               PROVE  (target[u] = Resolved(call[u].path) /\ dir[target[u]] \notin Paths)'
    BY DEF Settled
  <2>1. /\ u # w /\ pc'[u] = pc[u] /\ call'[u] = call[u] /\ target'[u] = target[u]
    BY DEF Typed
  <2>2. call[u].path \in Paths /\ target[u] \in Paths
    BY <2>1 DEF Held, Typed
  <2>3. dir[target[w]] \notin Paths
    BY DEF Settled
  <2>4. \A p \in Paths : dir'[p] = IF p = target[w] THEN dir[temp[w]] ELSE dir[p]
    BY <1>1 DEF Typed
  <2>5. target[u] = Resolved(call[u].path) /\ dir[target[u]] \notin Paths
    BY <2>1 DEF Settled
  <2>6. dir[temp[w]] \notin Paths
    BY <1>1
  <2>7. dir'[target[u]] \notin Paths
    BY <2>2, <2>4, <2>5, <2>6
  <2>8. Resolved(call[u].path)' = target[u]
    <3>1. CASE call[u].path = target[w]
      BY <3>1, <2>1, <2>2, <2>3, <2>4, <2>5, <2>6 DEF Resolved
    <3>2. CASE call[u].path # target[w]
      BY <3>2, <2>1, <2>2, <2>4, <2>5 DEF Resolved
    <3> QED
      BY <3>1, <3>2
  <2> QED
    BY <2>1, <2>7, <2>8
<1> QED
  BY <1>2, <1>4, <1>5, <1>6, <1>7, <1>8

LEMMA MeddleInv ==
  ASSUME Inv, Meddle
  PROVE  Inv'
<1> USE PublicationConstants DEF Inv, Elsewhere
<1>1. /\ UNCHANGED <<pc, call, target, mode, temp, abandoned>> /\ meddled' = meddled + 1
  BY DEF Meddle
<1> DEFINE Spared ==
  /\ \A t \in Temps : dir'[t] = dir[t] /\ (dir[t] \in Files => file'[dir[t]].content = file[dir[t]].content)
  /\ \A t \in Temps, p \in Paths : dir[t] # None => dir'[p] # dir[t]
  /\ dir' \in [Paths \cup Temps -> Files \cup Paths \cup {None, Directory}]
  /\ file' \in [Files -> [content : Values \cup {Torn}, mode : Modes]]
<1>2. Spared
  <2>1. ASSUME NEW p \in Paths, NEW e \in {None, Directory} \cup {dir[q] : q \in Paths} \cup Paths,
               dir' = [dir EXCEPT ![p] = e], file' = file
        PROVE  Spared
    BY <2>1 DEF Typed, Private
  <2>2. ASSUME NEW p \in Paths, NEW f \in Free, NEW v \in Values, NEW m \in Modes,
               dir' = [dir EXCEPT ![p] = f],
               file' = [file EXCEPT ![f] = [content |-> v, mode |-> m]]
        PROVE  Spared
    <3>1. f \in Files /\ \A e \in Paths \cup Temps : dir[e] # f
      BY DEF Free
    <3>2. file' \in [Files -> [content : Values \cup {Torn}, mode : Modes]]
      BY <2>2, <3>1 DEF Typed
    <3> QED
      BY <2>2, <3>1, <3>2 DEF Typed, Private
  <2>3. ASSUME NEW p \in Paths, NEW m \in Modes, dir[p] \in Files,
               file' = [file EXCEPT ![dir[p]].mode = m], dir' = dir
        PROVE  Spared
    BY <2>3 DEF Typed, Private
  <2> QED
    BY <2>1, <2>2, <2>3 DEF Meddle
<1>3. Typed'
  BY <1>1, <1>2 DEF Typed
<1>4. \A u \in Writers : Held(u)'
  BY <1>1, <1>2 DEF Held, Typed, Staging
<1>5. Private'
  BY <1>1, <1>2 DEF Private, Typed
<1>6. NotShared' /\ Used'
  BY <1>1, <1>2 DEF NotShared, Used
<1>7. Settled'
  BY <1>1 DEF Settled, Typed
<1> QED
  BY <1>3, <1>4, <1>5, <1>6, <1>7

LEMMA NextInv == Inv /\ [Next]_vars => Inv'
<1> SUFFICES ASSUME Inv, [Next]_vars PROVE Inv'
  OBVIOUS
<1>1. CASE Meddle
  BY <1>1, MeddleInv
<1>2. ASSUME NEW w \in Writers, Step(w) PROVE Inv'
  <2> USE DEF disk, bounds
  <2>1. ASSUME NEW p \in Paths, NEW v \in Values, Begin(w, p, v) PROVE Inv'
    BY <2>1, BeginInv
  <2>2. CASE Resolve(w)
    <3>1. CASE Loops(call[w].path)
      BY <2>2, <3>1, EndInv DEF Resolve, Inv, Held, Staging
    <3>2. CASE ~Loops(call[w].path)
      BY <2>2, <3>2, ProgressInv DEF Resolve, Inv, Typed, Labels, Staging
    <3> QED
      BY <3>1, <3>2
  <2>3. CASE Stat(w)
    <3>1. CASE End(w)
      BY <2>3, <3>1, EndInv DEF Stat, Inv, Held, Staging
    <3>2. CASE ~End(w)
      <4>1. /\ pc[w] = "stat" /\ UNCHANGED <<dir, file, abandoned, meddled, call, target, mode, temp>>
            /\ Goto(w, "reserve") \/ Goto(w, "probe")
        BY <2>3, <3>2 DEF Stat
      <4> QED
        BY <4>1, ProgressInv DEF Inv, Typed, Labels, Staging
    <3> QED
      BY <3>1, <3>2
  <2>4. CASE Probe(w)
    <3>1. CASE End(w)
      BY <2>4, <3>1, EndInv DEF Probe, Inv, Held, Staging
    <3>2. CASE ~End(w)
      <4>1. /\ pc[w] = "probe" /\ UNCHANGED <<dir, file, abandoned, meddled, call, target, temp>>
            /\ Goto(w, "reserve") /\ mode' = [mode EXCEPT ![w] = file[dir[target[w]]].mode]
            /\ dir[target[w]] \in Files
        BY <2>4, <3>2 DEF Probe
      <4>2. mode' \in [Writers -> Modes \cup {NoMode}]
        BY <4>1 DEF Inv, Typed
      <4> QED
        BY <4>1, <4>2, ProgressInv DEF Inv, Labels, Staging
    <3> QED
      BY <3>1, <3>2
  <2>5. CASE Reserve(w)
    <3>1. CASE End(w) /\ UNCHANGED disk
      BY <2>5, <3>1, EndInv DEF Reserve, Inv, Held, Staging
    <3>2. CASE ~(End(w) /\ UNCHANGED disk)
      BY <2>5, <3>2, ReserveInv DEF Reserve
    <3> QED
      BY <3>1, <3>2
  <2>6. CASE Write(w)
    <3> DEFINE c == [file[Staged(w)] EXCEPT !.content = call[w].value]
    <3>1. Staged(w) \in Files /\ call[w].value \in Values
      BY <2>6 DEF Write, Inv, Held, Typed, Staging, Staged
    <3>2. c \in [content : Values \cup {Torn}, mode : Modes] /\ c.content = call[w].value
            /\ file' = [file EXCEPT ![Staged(w)] = c]
      BY <2>6, <3>1 DEF Write, Inv, Typed
    <3> HIDE DEF c
    <3> QED
      BY <2>6, <3>2, ProgressInv DEF Write, Inv, Typed, Labels, Staging
  <2>7. CASE Chmod(w)
    <3>1. CASE mode[w] = NoMode
      BY <2>7, <3>1, ProgressInv DEF Chmod, Inv, Typed, Labels, Staging
    <3>2. CASE mode[w] # NoMode
      <4> DEFINE c == [file[Staged(w)] EXCEPT !.mode = mode[w]]
      <4>1. Staged(w) \in Files /\ file[Staged(w)].content = call[w].value
        BY <2>7 DEF Chmod, Inv, Held, Staging, Staged
      <4>2. mode[w] \in Modes
        BY <3>2 DEF Inv, Typed
      <4>3. c \in [content : Values \cup {Torn}, mode : Modes] /\ c.content = call[w].value
              /\ file' = [file EXCEPT ![Staged(w)] = c]
        BY <2>7, <3>2, <4>1, <4>2 DEF Chmod, Inv, Typed
      <4> HIDE DEF c
      <4> QED
        BY <2>7, <4>3, ProgressInv DEF Chmod, Inv, Typed, Labels, Staging
    <3> QED
      BY <3>1, <3>2
  <2>8. CASE Replace(w)
    BY <2>8, ReplaceInv
  <2>9. CASE Fail(w)
    BY <2>9, ProgressInv DEF Fail, Inv, Typed, Labels, Staging
  <2>10. CASE Cleanup(w)
    <3>1. temp[w] # None
      BY <2>10 DEF Cleanup, Inv, Held, Staging
    <3> QED
      BY <2>10, <3>1, EndInv DEF Cleanup
  <2>11. CASE Die(w)
    BY <2>11, EndInv DEF Die
  <2> QED
    BY <1>2, <2>1, <2>2, <2>3, <2>4, <2>5, <2>6, <2>7, <2>8, <2>9, <2>10, <2>11 DEF Step
<1>3. CASE UNCHANGED vars
  <2> USE <1>3 DEF Inv, vars
  <2>1. Typed' /\ Private' /\ NotShared' /\ Used'
    BY DEF Typed, Private, NotShared, Used
  <2>2. (\A w \in Writers : Held(w)') /\ Settled'
    BY DEF Held, Settled, Resolved
  <2> QED
    BY <2>1, <2>2
<1> QED
  BY <1>1, <1>2, <1>3 DEF Next

(* A staging file has an owner, and one only, unless it was abandoned.     *)
(* (_write's exclusive creation and its cleanup)                           *)
THEOREM StagingOwned == Spec => []StagingIsOwned
<1>1. Inv => StagingIsOwned
  BY PublicationConstants DEF Inv, Typed, Held, Private, NotShared, Used, StagingIsOwned
<1> QED
  BY <1>1, InitInv, NextInv, PTL DEF Spec

-----------------------------------------------------------------------------
(* Steps that leave the entries of the paths and the contents of their     *)
(* files alone are invisible.                                              *)
LEMMA Invisible ==
  ASSUME \A p \in Paths : dir'[p] = dir[p],
         \A p \in Paths : dir[p] \in Files => file'[dir[p]].content = file[dir[p]].content
  PROVE  /\ \A p \in Paths : Resolved(p)' = Resolved(p) /\ Seen(p)' = Seen(p)
         /\ [p \in Paths |-> Seen(p)]' = [p \in Paths |-> Seen(p)]
         /\ [p \in Paths |-> Resolved(p)]' = [p \in Paths |-> Resolved(p)]
<1>1. \A p \in Paths : Resolved(p) \in Paths /\ Resolved(p)' = Resolved(p)
  BY DEF Resolved
<1>2. \A p \in Paths : Seen(p)' = Seen(p)
  BY <1>1 DEF Seen
<1> QED
  BY <1>1, <1>2

(* A replacement is a publication of the abstract specification.           *)
LEMMA ReplacePublishes ==
  ASSUME Inv, NEW w \in Writers, Replace(w)
  PROVE  Atomic!Publish(w)
<1> USE PublicationConstants DEF Inv
<1>1. /\ temp[w] \in Temps /\ target[w] \in Paths /\ dir[temp[w]] \in Files
      /\ call[w] # None /\ file[dir[temp[w]]].content = call[w].value
  BY DEF Replace, Held, Typed, Staging
<1>2. /\ call' = [call EXCEPT ![w] = None] /\ meddled' = meddled /\ file' = file
      /\ \A p \in Paths : dir'[p] = IF p = target[w] THEN dir[temp[w]] ELSE dir[p]
  BY <1>1 DEF Replace, End, NoCall, bounds, Staged, Typed
<1>3. \A p \in Paths :
        /\ Resolved(p) \in Paths /\ Resolved(p)' \in Paths
        /\ Resolved(p)' \in {Resolved(p), target[w]}
  BY <1>1, <1>2 DEF Resolved
<1>4. \A p \in Paths :
        Seen(p)' = IF Resolved(p)' = target[w] THEN call[w].value ELSE Seen(p)
  BY <1>1, <1>2, <1>3 DEF Seen
<1>5. meddled = 0 =>
        target[w] = Resolved(call[w].path) /\ \A p \in Paths : Resolved(p)' = Resolved(p)
  BY <1>1, <1>2 DEF Settled, Resolved, Replace
<1>6. call[w].path \in Paths
  BY <1>1 DEF Typed
<1>7. [p \in Paths |-> Seen(p)]' =
        [p \in Paths |-> IF [q \in Paths |-> Resolved(q)]'[p] = target[w]
                         THEN call[w].value ELSE [q \in Paths |-> Seen(q)][p]]
  BY <1>4
<1>8. \A p \in Paths : [q \in Paths |-> Resolved(q)]'[p] \in {[q \in Paths |-> Resolved(q)][p], target[w]}
  BY <1>3
<1>9. meddled = 0 => /\ target[w] = [q \in Paths |-> Resolved(q)][call[w].path]
                     /\ [q \in Paths |-> Resolved(q)]' = [q \in Paths |-> Resolved(q)]
  BY <1>5, <1>6
<1> QED
  BY <1>1, <1>2, <1>7, <1>8, <1>9 DEF Atomic!Publish

(* Every step of a writer is a step of an atomic writer, or none.          *)
LEMMA StepRefines ==
  ASSUME Inv, NEW w \in Writers, Step(w)
  PROVE  [Atomic!Next]_(Atomic!vars)
<1> USE PublicationConstants DEF Inv
<1> DEFINE Hidden == /\ \A p \in Paths : dir'[p] = dir[p]
                     /\ \A p \in Paths : dir[p] \in Files => file'[dir[p]].content = file[dir[p]].content
                     /\ meddled' = meddled
<1>1. ASSUME Hidden, call' = call PROVE UNCHANGED Atomic!vars
  BY <1>1, Invisible DEF Atomic!vars
<1>2. ASSUME Hidden, call[w] # None, call' = [call EXCEPT ![w] = None] PROVE Atomic!GiveUp(w)
  BY <1>2, Invisible DEF Atomic!GiveUp
<1>3. ASSUME NEW p \in Paths, NEW v \in Values, Begin(w, p, v) PROVE Atomic!Ask(w)
  <2>1. Hidden /\ call[w] = None
    BY <1>3 DEF Begin, disk, Held
  <2> QED
    BY <1>3, <2>1, Invisible DEF Begin, Atomic!Ask
<1>4. pc[w] # "idle" => call[w] # None
  BY DEF Held
<1>5. ASSUME Hidden, pc[w] # "idle", End(w) PROVE Atomic!GiveUp(w)
  BY <1>2, <1>4, <1>5 DEF End, NoCall
<1> HIDE DEF Hidden
<1>6. Resolve(w) => UNCHANGED Atomic!vars \/ Atomic!GiveUp(w)
  BY <1>1, <1>5 DEF Hidden, Resolve, disk, bounds
<1>7. Stat(w) => UNCHANGED Atomic!vars \/ Atomic!GiveUp(w)
  BY <1>1, <1>5 DEF Hidden, Stat, disk, bounds
<1>8. Probe(w) => UNCHANGED Atomic!vars \/ Atomic!GiveUp(w)
  BY <1>1, <1>5 DEF Hidden, Probe, disk, bounds
<1>9. Reserve(w) => UNCHANGED Atomic!vars \/ Atomic!GiveUp(w)
  <2> SUFFICES ASSUME Reserve(w) PROVE UNCHANGED Atomic!vars \/ Atomic!GiveUp(w)
    OBVIOUS
  <2>1. CASE End(w) /\ UNCHANGED disk
    BY <2>1, <1>5 DEF Hidden, Reserve, disk, bounds
  <2>2. CASE ~(End(w) /\ UNCHANGED disk)
    <3>1. PICK t \in Temps, f \in Free :
            /\ dir' = [dir EXCEPT ![t] = f]
            /\ file' = [file EXCEPT ![f] = [content |-> Torn, mode |-> NewMode]]
            /\ call' = call
      BY <2>2 DEF Reserve
    <3>2. \A e \in Paths \cup Temps : dir[e] # f
      BY DEF Free
    <3>3. Hidden
      BY <3>1, <3>2 DEF Hidden, Reserve, bounds, Typed
    <3> QED
      BY <3>1, <3>3, <1>1
  <2> QED
    BY <2>1, <2>2
<1>10. pc[w] \in Staging => temp[w] \in Temps /\ \A p \in Paths : dir[p] # dir[temp[w]]
  BY DEF Held, Private, Typed
<1>11. Write(w) => UNCHANGED Atomic!vars
  BY <1>1, <1>10 DEF Hidden, Write, Staging, Staged, bounds, Typed
<1>12. Chmod(w) => UNCHANGED Atomic!vars
  BY <1>1, <1>10 DEF Hidden, Chmod, Staging, Staged, bounds, Typed
<1>13. Fail(w) => UNCHANGED Atomic!vars
  BY <1>1 DEF Hidden, Fail, disk, bounds
<1>14. Cleanup(w) => Atomic!GiveUp(w)
  BY <1>5, <1>10 DEF Hidden, Cleanup, Staging, Typed
<1>15. Die(w) => Atomic!GiveUp(w)
  BY <1>5 DEF Hidden, Die, disk
<1>16. Replace(w) => Atomic!Publish(w)
  BY ReplacePublishes
<1> QED
  BY <1>3, <1>6, <1>7, <1>8, <1>9, <1>11, <1>12, <1>13, <1>14, <1>15, <1>16
     DEF Step, Atomic!Next

(* Whatever fails, dies or interferes, publication is atomic: _write       *)
(* implements AtomicFiles.  (_write, docs/security-model.md:62-75)         *)
THEOREM WriteIsAtomic == Spec => PublicationIsAtomic
<1>1. Init => Atomic!Init
  <2> SUFFICES ASSUME Init PROVE Atomic!Init
    OBVIOUS
  <2>1. PICK d \in Disks : dir = d.dir /\ file = d.file
    BY DEF Init
  <2>2. /\ dir \in [Paths \cup Temps -> Files \cup Paths \cup {None, Directory}]
        /\ file \in [Files -> [content : Values, mode : Modes]]
    BY <2>1, PublicationConstants DEF Disk
  <2>3. \A p \in Paths : Resolved(p) \in Paths /\ Seen(p) \in Values \cup {None}
    BY <2>2 DEF Resolved, Seen
  <2> QED
    BY <2>3 DEF Init, NoCall, Atomic!Init
<1>2. Inv /\ [Next]_vars => [Atomic!Next]_(Atomic!vars)
  <2> SUFFICES ASSUME Inv, [Next]_vars PROVE [Atomic!Next]_(Atomic!vars)
    OBVIOUS
  <2>1. CASE Meddle
    BY <2>1 DEF Meddle, Elsewhere, Atomic!Next, Atomic!Meddle
  <2>2. CASE UNCHANGED vars
    BY <2>2, Invisible DEF vars, Atomic!vars
  <2> QED
    BY <2>1, <2>2, StepRefines DEF Next
<1> QED
  BY <1>1, <1>2, InitInv, NextInv, PTL DEF Spec, PublicationIsAtomic, Atomic!Spec

-----------------------------------------------------------------------------
(* The modes, while no other program interferes.  What a writer has found  *)
(* out about its place stays true, although others publish to it: they     *)
(* found out the same, or a new file appeared, which has the mode that the *)
(* writer's own file has.                                                  *)
Kept(w) == IF mode[w] = NoMode THEN NewMode ELSE mode[w]

Agrees(w) ==
  /\ pc[w] \in {"idle", "resolve", "stat", "probe"} => mode[w] = NoMode
  /\ pc[w] \in {"reserve", "write", "chmod", "replace"} =>
       /\ mode[w] # NoMode => dir[target[w]] \in Files /\ mode[w] \in Writable
       /\ dir[target[w]] \in Files => file[dir[target[w]]].mode = Kept(w)
  /\ pc[w] \in {"write", "chmod"} => file[dir[temp[w]]].mode = NewMode
  /\ pc[w] = "replace" => file[dir[temp[w]]].mode = Kept(w)

Agreed == meddled = 0 => \A w \in Writers : Agrees(w)

(* A step that leaves the entries and modes alone that a writer depends on,*)
(* or gives its place a file of the right mode, leaves the writer right.   *)
LEMMA StillAgrees ==
  ASSUME Inv, NEW u \in Writers, Agrees(u),
         pc'[u] = pc[u], target'[u] = target[u], mode'[u] = mode[u], temp'[u] = temp[u],
         pc[u] \in {"reserve", "write", "chmod", "replace"} =>
           /\ dir[target[u]] \in Files => dir'[target[u]] \in Files
           /\ dir'[target[u]] \in Files => file'[dir'[target[u]]].mode = Kept(u),
         temp[u] # None => /\ dir'[temp[u]] = dir[temp[u]]
                           /\ file'[dir[temp[u]]].mode = file[dir[temp[u]]].mode
  PROVE  Agrees(u)'
<1>1. Kept(u)' = Kept(u)
  BY DEF Kept
<1>2. pc[u] \in {"write", "chmod", "replace"} => temp[u] # None
  BY DEF Inv, Held, Staging
<1> QED
  BY <1>1, <1>2 DEF Agrees

(* Most steps change nothing of the entries and modes of the paths.        *)
LEMMA OthersAgree ==
  ASSUME Inv, NEW w \in Writers, NEW u \in Writers \ {w}, Agrees(u),
         pc'[u] = pc[u], target'[u] = target[u], mode'[u] = mode[u], temp'[u] = temp[u],
         \A p \in Paths : dir'[p] = dir[p],
         \A f \in Files : file'[f].mode # file[f].mode =>
           f \in Free \/ (temp[w] # None /\ f = dir[temp[w]]),
         temp[u] # None => dir'[temp[u]] = dir[temp[u]]
  PROVE  Agrees(u)'
<1> DEFINE Touched == {f \in Files : file'[f].mode # file[f].mode}
<1>1. ASSUME NEW p \in Paths, dir[p] \in Files PROVE dir[p] \notin Touched
  <2>1. dir[p] \notin Free
    BY DEF Free
  <2>2. temp[w] # None => dir[p] # dir[temp[w]]
    BY PublicationConstants DEF Inv, Typed, Private, Held, Staging
  <2> QED
    BY <2>1, <2>2
<1>2. ASSUME temp[u] # None PROVE dir[temp[u]] \in Files /\ dir[temp[u]] \notin Touched
  <2>1. temp[u] \in Temps /\ dir[temp[u]] \in Files
    BY <1>2 DEF Inv, Typed, Held, Staging
  <2>2. dir[temp[u]] \notin Free
    BY <2>1 DEF Free
  <2>3. temp[w] # None => temp[w] \in Temps /\ temp[w] # temp[u]
    BY <1>2 DEF Inv, Typed, NotShared
  <2>4. temp[w] # None => dir[temp[u]] # dir[temp[w]]
    BY <2>1, <2>3, PublicationConstants DEF Inv, Private
  <2> QED
    BY <2>1, <2>2, <2>4
<1>3. pc[u] \in {"reserve", "write", "chmod", "replace"} =>
        /\ target[u] \in Paths
        /\ dir[target[u]] \in Files => file[dir[target[u]]].mode = Kept(u)
  BY DEF Inv, Held, Agrees
<1>4. pc[u] \in {"reserve", "write", "chmod", "replace"} =>
        /\ dir[target[u]] \in Files => dir'[target[u]] \in Files
        /\ dir'[target[u]] \in Files => file'[dir'[target[u]]].mode = Kept(u)
  BY <1>1, <1>3
<1>5. temp[u] # None => /\ dir'[temp[u]] = dir[temp[u]]
                        /\ file'[dir[temp[u]]].mode = file[dir[temp[u]]].mode
  BY <1>2
<1> QED
  BY <1>4, <1>5, StillAgrees

(* The staging file is gone, or there is none yet.                         *)
LEMMA EndAgrees ==
  ASSUME Inv, NEW w \in Writers, End(w) PROVE Agrees(w)'
BY DEF Inv, Typed, End, Goto, Agrees

(* The replaced file had the mode of the one that replaces it.             *)
LEMMA ReplaceKeepsMode ==
  ASSUME Inv, NEW w \in Writers, Agrees(w), Replace(w)
  PROVE  /\ temp[w] \in Temps /\ target[w] \in Paths /\ dir[temp[w]] \in Files
         /\ file' = file /\ file[dir[temp[w]]].mode = Kept(w) /\ Kept(w) \in Writable
         /\ \A p \in Paths : dir'[p] = IF p = target[w] THEN dir[temp[w]] ELSE dir[p]
         /\ \A t \in Temps : dir'[t] = IF t = temp[w] THEN None ELSE dir[t]
         /\ dir[target[w]] \in Files => file[dir[target[w]]].mode = Kept(w)
<1>1. temp[w] \in Temps /\ target[w] \in Paths /\ dir[temp[w]] \in Files /\ temp[w] \notin Paths
  BY PublicationConstants DEF Inv, Replace, Held, Typed, Staging
<1>2. /\ file' = file
      /\ \A p \in Paths : dir'[p] = IF p = target[w] THEN dir[temp[w]] ELSE dir[p]
      /\ \A t \in Temps : dir'[t] = IF t = temp[w] THEN None ELSE dir[t]
  BY <1>1, PublicationConstants DEF Replace, Staged, Inv, Typed
<1>3. /\ file[dir[temp[w]]].mode = Kept(w)
      /\ dir[target[w]] \in Files => file[dir[target[w]]].mode = Kept(w)
      /\ Kept(w) \in Writable
  BY PublicationConstants DEF Agrees, Replace, Kept
<1> QED
  BY <1>1, <1>2, <1>3

LEMMA StepAgrees ==
  ASSUME Inv, Agreed, NEW w \in Writers, Step(w)
  PROVE  Agreed'
<1>1. meddled' = meddled
  BY DEF Step, Begin, Resolve, Stat, Probe, Reserve, Write, Chmod, Replace, Fail, Cleanup, Die, bounds
<1>2. SUFFICES ASSUME meddled = 0, \A u \in Writers : Agrees(u)
               PROVE  \A u \in Writers : Agrees(u)'
  BY <1>1 DEF Agreed
<1>3. /\ pc \in [Writers -> Labels] /\ target \in [Writers -> Paths \cup {None}]
      /\ mode \in [Writers -> Modes \cup {NoMode}] /\ temp \in [Writers -> Temps \cup {None}]
  BY DEF Inv, Typed
<1>4. temp[w] # None => temp[w] \in Temps /\ dir[temp[w]] \in Files
  BY DEF Inv, Typed, Held
<1>5. pc[w] \in Staging => temp[w] # None
  BY DEF Inv, Held
(* Nobody else is disturbed, unless the step is a replacement.             *)
<1> DEFINE Apart == \A u \in Writers \ {w} : /\ pc'[u] = pc[u] /\ target'[u] = target[u]
                                            /\ mode'[u] = mode[u] /\ temp'[u] = temp[u]
           Beside == /\ \A p \in Paths : dir'[p] = dir[p]
                     /\ \A t \in Temps : dir[t] # None /\ t # temp[w] => dir'[t] = dir[t]
                     /\ \A f \in Files : file'[f].mode # file[f].mode =>
                          f \in Free \/ (temp[w] # None /\ f = dir[temp[w]])
<1>6. ASSUME Apart, Beside, Agrees(w)' PROVE \A u \in Writers : Agrees(u)'
  <2> SUFFICES ASSUME NEW u \in Writers \ {w} PROVE Agrees(u)'
    BY <1>6
  <2>1. temp[u] # None => temp[u] \in Temps /\ temp[u] # temp[w] /\ dir[temp[u]] # None
    BY PublicationConstants DEF Inv, Typed, Held, Staging, NotShared
  <2>2. temp[u] # None => dir'[temp[u]] = dir[temp[u]]
    BY <1>6, <2>1
  <2> QED
    BY <1>2, <1>6, <2>2, OthersAgree
<1>7. UNCHANGED disk => Beside
  BY DEF disk
<1>8. End(w) => Apart /\ Agrees(w)'
  BY <1>3, EndAgrees DEF End, Goto
<1>9. ASSUME NEW p \in Paths, NEW v \in Values, Begin(w, p, v)
      PROVE  UNCHANGED disk /\ Apart /\ Agrees(w)'
  BY <1>2, <1>3, <1>9 DEF Begin, Goto, Agrees
<1>10. ASSUME Resolve(w) PROVE UNCHANGED disk /\ Apart /\ Agrees(w)'
  <2>1. CASE Loops(call[w].path)
    BY <1>8, <1>10, <2>1 DEF Resolve
  <2>2. CASE ~Loops(call[w].path)
    BY <1>2, <1>3, <1>10, <2>2 DEF Resolve, Goto, Agrees
  <2> QED
    BY <2>1, <2>2
(* A place without a file stays so until a writer replaces it.             *)
<1>11. ASSUME Stat(w) PROVE UNCHANGED disk /\ Apart /\ Agrees(w)'
  <2>1. CASE End(w)
    BY <1>8, <1>11, <2>1 DEF Stat
  <2>2. CASE ~End(w)
    <3>1. /\ pc[w] = "stat" /\ UNCHANGED <<disk, call, target, mode, temp>>
          /\ \/ Goto(w, "probe")
             \/ Goto(w, "reserve") /\ dir[Resolved(target[w])] = None
      BY <1>11, <2>2, PublicationConstants DEF Stat
    <3>2. mode[w] = NoMode
      BY <1>2, <3>1 DEF Agrees
    <3>3. Resolved(target[w]) = target[w]
      BY <1>2, <3>1 DEF Inv, Settled, Resolved
    <3>4. Apart
      BY <1>3, <3>1 DEF Goto
    <3>5. pc'[w] \in {"probe", "reserve"} /\ mode'[w] = NoMode
      BY <1>3, <3>1, <3>2 DEF Goto
    <3>6. pc'[w] = "reserve" => dir'[target'[w]] \notin Files
      BY <1>3, <3>1, <3>3, PublicationConstants DEF Goto, disk
    <3> QED
      BY <3>1, <3>4, <3>5, <3>6 DEF Agrees
  <2> QED
    BY <2>1, <2>2
<1>12. ASSUME Probe(w) PROVE UNCHANGED disk /\ Apart /\ Agrees(w)'
  <2>1. CASE End(w)
    BY <1>8, <1>12, <2>1 DEF Probe
  <2>2. CASE ~End(w)
    <3>1. /\ UNCHANGED <<disk, call, target, temp>> /\ Goto(w, "reserve")
          /\ dir[target[w]] \in Files /\ file[dir[target[w]]].mode \in Writable
          /\ mode' = [mode EXCEPT ![w] = file[dir[target[w]]].mode]
      BY <1>12, <2>2 DEF Probe
    <3>2. Apart
      BY <1>3, <3>1 DEF Goto
    <3>3. pc'[w] = "reserve" /\ mode'[w] = file[dir[target[w]]].mode /\ mode'[w] # NoMode
      BY <1>3, <3>1, PublicationConstants DEF Goto
    <3> QED
      BY <3>1, <3>2, <3>3 DEF Agrees, Kept, disk
  <2> QED
    BY <2>1, <2>2
<1>13. ASSUME Reserve(w) PROVE Apart /\ Beside /\ Agrees(w)'
  <2>1. CASE End(w) /\ UNCHANGED disk
    BY <1>7, <1>8, <2>1
  <2>2. CASE ~(End(w) /\ UNCHANGED disk)
    <3>1. PICK t \in Temps, f \in Free :
            /\ dir[t] = None /\ dir' = [dir EXCEPT ![t] = f]
            /\ file' = [file EXCEPT ![f] = [content |-> Torn, mode |-> NewMode]]
            /\ temp' = [temp EXCEPT ![w] = t]
            /\ Goto(w, "write") /\ UNCHANGED <<call, target, mode>>
      BY <1>13, <2>2 DEF Reserve
    <3>2. pc[w] = "reserve"
      BY <1>13 DEF Reserve
    <3>3. f \in Files /\ \A p \in Paths : dir[p] # f
      BY DEF Free
    <3>4. Apart
      BY <1>3, <3>1 DEF Goto
    <3>5. Beside
      BY <3>1, <3>3, PublicationConstants DEF Inv, Typed
    <3>6. /\ pc'[w] = "write" /\ target'[w] = target[w] /\ mode'[w] = mode[w] /\ temp'[w] = t
          /\ dir'[t] = f /\ file'[f].mode = NewMode
      BY <1>3, <3>1, <3>3 DEF Goto, Inv, Typed
    <3>7. target[w] \in Paths
      BY <3>2 DEF Inv, Held
    <3>8. dir'[target[w]] = dir[target[w]]
      BY <3>5, <3>7
    <3>9. dir[target[w]] \in Files => file'[dir[target[w]]] = file[dir[target[w]]]
      BY <3>1, <3>3, <3>7 DEF Inv, Typed
    <3>10. Kept(w)' = Kept(w)
      BY <3>6 DEF Kept
    <3> HIDE DEF Apart, Beside
    <3>11. Agrees(w)'
      BY <1>2, <3>2, <3>6, <3>8, <3>9, <3>10 DEF Agrees
    <3> QED
      BY <3>4, <3>5, <3>11
  <2> QED
    BY <2>1, <2>2
(* Writing and closing the staging file: only its content, and then only   *)
(* its mode, changes.                                                      *)
<1>14. ASSUME Write(w) \/ Chmod(w) PROVE Apart /\ Beside /\ Agrees(w)'
  <2>1. /\ pc[w] \in {"write", "chmod"} /\ UNCHANGED <<dir, call, target, mode, temp>>
        /\ pc' = [pc EXCEPT ![w] = IF pc[w] = "write" THEN "chmod" ELSE "replace"]
    BY <1>14 DEF Write, Chmod, Goto
  <2>2. Apart
    BY <1>3, <2>1
  <2>3. /\ temp[w] # None /\ dir[temp[w]] \in Files /\ temp[w] \in Temps
        /\ target[w] \in Paths
    BY <1>4, <1>5, <2>1 DEF Inv, Held, Staging
  <2>4. /\ \A f \in Files : f # dir[temp[w]] => file'[f].mode = file[f].mode
        /\ pc[w] = "write" => file'[dir[temp[w]]].mode = file[dir[temp[w]]].mode
        /\ pc[w] = "chmod" => file'[dir[temp[w]]].mode =
             IF mode[w] = NoMode THEN file[dir[temp[w]]].mode ELSE mode[w]
    <3>1. CASE Write(w)
      BY <2>3, <3>1 DEF Write, Staged, Inv, Typed
    <3>2. CASE Chmod(w)
      BY <2>3, <3>2 DEF Chmod, Staged, Inv, Typed
    <3> QED
      BY <1>14, <3>1, <3>2
  <2>5. Beside
    BY <2>1, <2>3, <2>4
  <2>6. dir[target[w]] # dir[temp[w]]
    BY <2>3, PublicationConstants DEF Inv, Private
  <2>7. Kept(w)' = Kept(w) /\ pc'[w] \in {"chmod", "replace"} /\ (pc'[w] = "chmod" <=> pc[w] = "write")
    BY <1>3, <2>1 DEF Kept
  <2> HIDE DEF Apart, Beside
  <2>8. dir[target[w]] \in Files => file'[dir[target[w]]].mode = Kept(w)
    BY <1>2, <2>1, <2>4, <2>6 DEF Agrees
  <2>9. pc[w] = "write" => file'[dir[temp[w]]].mode = NewMode
    BY <1>2, <2>4 DEF Agrees
  <2>10. pc[w] = "chmod" => file'[dir[temp[w]]].mode = Kept(w)
    BY <1>2, <2>4 DEF Agrees, Kept
  <2>11. mode[w] # NoMode => dir[target[w]] \in Files /\ mode[w] \in Writable
    BY <1>2, <2>1 DEF Agrees
  <2>12. Agrees(w)'
    BY <2>1, <2>7, <2>8, <2>9, <2>10, <2>11 DEF Agrees
  <2> QED
    BY <2>2, <2>5, <2>12
<1>15. ASSUME Fail(w) PROVE UNCHANGED disk /\ Apart /\ Agrees(w)'
  BY <1>3, <1>15 DEF Fail, Goto, Agrees
<1>16. ASSUME Cleanup(w) \/ Die(w) PROVE Apart /\ Beside /\ Agrees(w)'
  <2>1. End(w) /\ file' = file
    BY <1>16 DEF Cleanup, Die, disk
  <2>2. dir' = dir \/ (temp[w] \in Temps /\ dir' = [dir EXCEPT ![temp[w]] = None])
    BY <1>4, <1>5, <1>16 DEF Cleanup, Die, disk, Staging
  <2>3. Beside
    BY <2>1, <2>2, PublicationConstants DEF Inv, Typed
  <2> QED
    BY <1>8, <2>1, <2>3
(* The others whose place is replaced have found out the same of it.       *)
<1>17. ASSUME Replace(w) PROVE \A u \in Writers : Agrees(u)'
  <2>1. End(w)
    BY <1>17 DEF Replace
  <2> SUFFICES ASSUME NEW u \in Writers \ {w} PROVE Agrees(u)'
    BY <1>8, <2>1
  <2>2. pc'[u] = pc[u] /\ target'[u] = target[u] /\ mode'[u] = mode[u] /\ temp'[u] = temp[u]
    BY <1>8, <2>1
  <2>3. /\ temp[w] \in Temps /\ target[w] \in Paths /\ dir[temp[w]] \in Files
        /\ file' = file /\ file[dir[temp[w]]].mode = Kept(w)
        /\ \A p \in Paths : dir'[p] = IF p = target[w] THEN dir[temp[w]] ELSE dir[p]
        /\ \A t \in Temps : dir'[t] = IF t = temp[w] THEN None ELSE dir[t]
        /\ dir[target[w]] \in Files => file[dir[target[w]]].mode = Kept(w)
    BY <1>2, <1>17, ReplaceKeepsMode
  <2>4. temp[u] # None => /\ dir'[temp[u]] = dir[temp[u]]
                          /\ file'[dir[temp[u]]].mode = file[dir[temp[u]]].mode
    <3>1. temp[u] # None => temp[u] \in Temps /\ temp[u] # temp[w]
      BY <1>3 DEF Inv, NotShared
    <3> QED
      BY <2>3, <3>1
  <2>5. ASSUME pc[u] \in {"reserve", "write", "chmod", "replace"}
        PROVE  /\ dir[target[u]] \in Files => dir'[target[u]] \in Files
               /\ dir'[target[u]] \in Files => file'[dir'[target[u]]].mode = Kept(u)
    <3>1. /\ target[u] \in Paths
          /\ mode[u] # NoMode => dir[target[u]] \in Files
          /\ dir[target[u]] \in Files => file[dir[target[u]]].mode = Kept(u)
      BY <1>2, <2>5 DEF Inv, Held, Agrees
    <3>2. CASE target[u] = target[w]
      <4>1. dir'[target[u]] = dir[temp[w]]
        BY <2>3, <3>1, <3>2
      <4>2. Kept(u) = Kept(w)
        <5>1. CASE dir[target[u]] \in Files
          BY <2>3, <3>1, <3>2, <5>1
        <5>2. CASE dir[target[u]] \notin Files
          <6>1. mode[u] = NoMode
            BY <3>1, <5>2
          <6>2. mode[w] = NoMode
            BY <1>2, <1>17, <3>2, <5>2 DEF Agrees, Replace
          <6> QED
            BY <6>1, <6>2 DEF Kept
        <5> QED
          BY <5>1, <5>2
      <4> QED
        BY <2>3, <4>1, <4>2
    <3>3. CASE target[u] # target[w]
      BY <2>3, <3>1, <3>3
    <3> QED
      BY <3>2, <3>3
  <2> QED
    BY <1>2, <2>2, <2>4, <2>5, StillAgrees
<1> HIDE DEF Apart, Beside
<1> QED
  BY <1>6, <1>7, <1>9, <1>10, <1>11, <1>12, <1>13, <1>14, <1>15, <1>16, <1>17 DEF Step

(* docs/security-model.md:66-69: no call changes the mode of an existing   *)
(* output, or replaces one that may not be written, whatever other writers *)
(* publish at the same time, unless another program interferes (ModesKept).*)
THEOREM ModesAreKept == Spec => ModesKept
<1>1. Init => Agreed
  BY DEF Init, Agreed, Agrees
<1>2. Inv /\ Agreed /\ [Next]_vars => Agreed'
  <2> SUFFICES ASSUME Inv, Agreed, [Next]_vars PROVE Agreed'
    OBVIOUS
  <2>1. CASE Meddle
    <3>1. meddled' # 0
      BY <2>1 DEF Meddle, Inv, Typed
    <3> QED
      BY <3>1 DEF Agreed
  <2>2. CASE UNCHANGED vars
    BY <2>2 DEF vars, Agreed, Agrees, Kept
  <2> QED
    BY <2>1, <2>2, StepAgrees DEF Next
<1>3. Inv /\ Agreed /\ [Next]_vars =>
        [\A p \in Paths : meddled' = 0 /\ dir[p] \in Files /\ dir'[p] # dir[p] =>
           /\ dir'[p] \in Files /\ file'[dir'[p]].mode = file[dir[p]].mode
           /\ file[dir[p]].mode \in Writable]_vars
  <2> SUFFICES ASSUME Inv, Agreed, Next, NEW p \in Paths, meddled' = 0,
                      dir[p] \in Files, dir'[p] # dir[p]
               PROVE  /\ dir'[p] \in Files /\ file'[dir'[p]].mode = file[dir[p]].mode
                      /\ file[dir[p]].mode \in Writable
    OBVIOUS
  <2>1. ~Meddle
    BY DEF Meddle, Inv, Typed
  <2>2. PICK w \in Writers : Step(w)
    BY <2>1 DEF Next
  <2>3. meddled = 0
    BY <2>2 DEF Step, Begin, Resolve, Stat, Probe, Reserve, Write, Chmod, Replace, Fail,
                Cleanup, Die, bounds
  <2>4. pc[w] \in Staging => temp[w] \in Temps
    BY DEF Inv, Typed, Held
  <2>5. Replace(w)
    BY <2>2, <2>4, PublicationConstants
       DEF Step, Begin, Resolve, Stat, Probe, Reserve, Write, Chmod, Fail,
           Cleanup, Die, disk, Staging, Inv, Typed
  <2>6. Agrees(w)
    BY <2>3 DEF Agreed
  <2> QED
    BY <2>5, <2>6, ReplaceKeepsMode
<1> QED
  BY <1>1, <1>2, <1>3, InitInv, NextInv, PTL DEF Spec, ModesKept
=============================================================================
