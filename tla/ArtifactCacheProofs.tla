------------------------ MODULE ArtifactCacheProofs -------------------------
(***************************************************************************)
(* What holds of every cache, however many processes share it, however     *)
(* often they call and die and whatever damages it between calls: a tree   *)
(* that passes its fingerprint is made from good bytes, a call that runs   *)
(* alone gets a whole tree or a permitted failure, and processes that      *)
(* disturb each other never all fail of it.                                *)
(***************************************************************************)
EXTENDS ArtifactCache, TLAPS

BlobLabels == {"need blob", "download", "publish blob"}

TreeLabels == {"read marker", "fingerprint", "remove", "remove contents",
               "remove directory", "extract", "publish tree"}

Labels == Resting \cup {"find blob", "validate", "unlink"} \cup BlobLabels \cup TreeLabels

Contents == {"absent", "emptied", "damaged", "whole", "poisoned"}

Reasons == {"none", "interference", "network", "uncached"}

TypeOK ==
  /\ blob \in {"absent", "good", "bad"}
  /\ tree \in [Trees -> Contents]
  /\ pc \in [Processes -> Labels]
  /\ temp \in [Processes -> {"absent", "good", "bad"}]
  /\ offline \in [Processes -> BOOLEAN] /\ alone \in [Processes -> BOOLEAN]
  /\ why \in [Processes -> Reasons]
  /\ calls \in [Processes -> Nat] /\ crashes \in Nat /\ damages \in Nat
  /\ wants \in [Processes -> Trees \cup {CHOOSE t \in Trees : TRUE}]
  /\ \A p \in Processes : pc[p] # "idle" => wants[p] \in Trees

(* A process that has passed the check of the blob, or has seen there was  *)
(* none, keeps it from being bad: it is damaged only while nothing runs.   *)
Validated ==
  \A p \in Processes : pc[p] \in BlobLabels \cup TreeLabels => blob # "bad"

GoodTemporaries == \A p \in Processes : pc[p] = "publish tree" => temp[p] = "good"

Sound == TypeOK /\ Validated /\ GoodTemporaries /\ NeverPoisoned

(* A call still marked as alone is the only one under way.                 *)
Alone ==
  \A p, q \in Processes : alone[p] /\ p \in Active /\ q # p => q \notin Active

OnlineDownloads ==
  \A p \in Processes : pc[p] \in {"download", "publish blob"} => ~offline[p]

(* What the process p has found out or done at each label, when nobody     *)
(* has come between.                                                       *)
AsLeft(p) ==
  /\ pc[p] \in {"validate", "unlink"} => blob # "absent"
  /\ pc[p] = "need blob" => blob = "absent"
  /\ pc[p] \in TreeLabels => blob = "good"
  /\ pc[p] = "remove contents" => tree[wants[p]] \in {"damaged", "emptied"}
  /\ pc[p] = "remove directory" => tree[wants[p]] = "emptied"
  /\ pc[p] \in {"extract", "publish tree"} => tree[wants[p]] = "absent"
  /\ pc[p] = "done" => tree[wants[p]] = "whole"
  /\ pc[p] = "failed" => \/ why[p] = "network" /\ ~offline[p]
                         \/ why[p] = "uncached" /\ offline[p]

LoneStepsHold == \A p \in Processes : alone[p] => AsLeft(p)

Lone == Sound /\ Alone /\ OnlineDownloads /\ LoneStepsHold

(* The call of p ended for another reason than interference, or it has     *)
(* made two.                                                               *)
Settled(p) ==
  \/ calls[p] > 1
  \/ calls[p] = 1 /\ pc[p] \in {"idle", "done"}
  \/ calls[p] = 1 /\ pc[p] = "failed" /\ why[p] # "interference"

(* Nothing done so far stands in the way of p: if the others stop, it does *)
(* not fail of interference.                                               *)
Clear(p) ==
  \/ pc[p] \in {"find blob"} \cup BlobLabels
  \/ /\ pc[p] \in {"validate", "unlink", "read marker", "fingerprint", "remove"}
     /\ blob # "absent"
  \/ /\ pc[p] = "remove contents" /\ blob # "absent"
     /\ tree[wants[p]] \in {"damaged", "emptied"}
  \/ pc[p] = "remove directory" /\ blob # "absent" /\ tree[wants[p]] = "emptied"
  \/ /\ pc[p] = "extract" /\ blob # "absent"
     /\ tree[wants[p]] \in {"absent", "emptied"}
  \/ pc[p] = "publish tree" /\ tree[wants[p]] \in {"absent", "emptied"}

Undisturbed == crashes = 0 /\ damages = 0

(* Unless a call has come to its end, a tree whose removal has begun is    *)
(* not whole again.                                                        *)
RemovalsLast ==
  Undisturbed /\ (\A q \in Processes : ~Settled(q)) =>
    \A p \in Processes :
      /\ pc[p] = "remove contents" => tree[wants[p]] \in {"damaged", "emptied", "absent"}
      /\ pc[p] = "remove directory" => tree[wants[p]] \in {"emptied", "absent"}

SomebodyIsClear ==
  Undisturbed =>
    (\A p \in Processes : calls[p] = 0) \/ (\E p \in Processes : Settled(p) \/ Clear(p))

Called == \A p \in Processes : pc[p] # "idle" => calls[p] # 0

Hope == Sound /\ Called /\ RemovalsLast /\ SomebodyIsClear

(* How a step of p may change its tree while no call has ended well: it    *)
(* takes a removal further, and when the tree is gone p itself is clear.   *)
RemovesOnly(p) ==
  LET t == wants[p]
  IN  \/ tree'[t] = tree[t]
      \/ tree[t] \in {"whole", "damaged"} /\ tree'[t] = "damaged"
      \/ tree[t] = "damaged" /\ tree'[t] = "emptied"
      \/ tree[t] = "emptied" /\ tree'[t] = "absent" /\ (blob # "absent" => Clear(p)')

-----------------------------------------------------------------------------
USE DEF Contents, Reasons

LEMMA InitSound == Init => Sound
BY DEF Init, Sound, TypeOK, Labels, Resting, BlobLabels, TreeLabels, Validated,
       GoodTemporaries, NeverPoisoned

(* What the two ways to leave a label change.                              *)
LEMMA Going ==
  ASSUME TypeOK, NEW p \in Processes, NEW label, Goto(p, label)
  PROVE  /\ pc'[p] = label /\ why' = why /\ \A q \in Processes \ {p} : pc'[q] = pc[q]
         /\ label \in Labels => pc' \in [Processes -> Labels]
BY DEF Goto, TypeOK

LEMMA Failing ==
  ASSUME TypeOK, NEW p \in Processes, NEW reason, Fail(p, reason)
  PROVE  /\ pc'[p] = "failed" /\ why'[p] = reason
         /\ \A q \in Processes \ {p} : pc'[q] = pc[q] /\ why'[q] = why[q]
         /\ pc' \in [Processes -> Labels]
         /\ reason \in Reasons => why' \in [Processes -> Reasons]
BY DEF Fail, TypeOK, Labels, Resting

(* A step of p leaves the other processes and the requests as they are.    *)
LEMMA Frame ==
  ASSUME TypeOK, NEW p \in Processes, Step(p) \/ Finish(p) \/ Crash(p)
  PROVE  /\ \A q \in Processes \ {p} :
              pc'[q] = pc[q] /\ temp'[q] = temp[q] /\ why'[q] = why[q]
         /\ wants' = wants /\ offline' = offline /\ alone' = alone /\ calls' = calls
         /\ damages' = damages /\ wants[p] \in Trees
         /\ \A t \in Trees \ {wants[p]} : tree'[t] = tree[t]
<1> USE DEF At, request, bounds
<1>0. /\ temp \in [Processes -> {"absent", "good", "bad"}]
      /\ pc[p] # "idle" => wants[p] \in Trees
      /\ tree \in [Trees -> Contents]
  BY DEF TypeOK
<1>1. CASE FindBlob(p)
  <2>1. \A q \in Processes \ {p} : pc'[q] = pc[q] /\ why'[q] = why[q]
    BY <1>1, Going DEF FindBlob
  <2> QED
    BY <1>1, <1>0, <2>1 DEF FindBlob
<1>2. CASE Validate(p)
  <2>1. \A q \in Processes \ {p} : pc'[q] = pc[q] /\ why'[q] = why[q]
    BY <1>2, Going, Failing DEF Validate
  <2> QED
    BY <1>2, <1>0, <2>1 DEF Validate
<1>3. CASE UnlinkBlob(p)
  <2>1. \A q \in Processes \ {p} : pc'[q] = pc[q] /\ why'[q] = why[q]
    BY <1>3, Going, Failing DEF UnlinkBlob
  <2> QED
    BY <1>3, <1>0, <2>1 DEF UnlinkBlob
<1>4. CASE NeedBlob(p)
  <2>1. \A q \in Processes \ {p} : pc'[q] = pc[q] /\ why'[q] = why[q]
    BY <1>4, Going, Failing DEF NeedBlob
  <2> QED
    BY <1>4, <1>0, <2>1 DEF NeedBlob
<1>5. CASE Download(p)
  <2>1. \A q \in Processes \ {p} : pc'[q] = pc[q] /\ why'[q] = why[q]
    BY <1>5, Going, Failing DEF Download
  <2> QED
    BY <1>5, <1>0, <2>1 DEF Download
<1>6. CASE PublishBlob(p)
  <2>1. \A q \in Processes \ {p} : pc'[q] = pc[q] /\ why'[q] = why[q]
    BY <1>6, Going DEF PublishBlob
  <2> QED
    BY <1>6, <1>0, <2>1 DEF PublishBlob
<1>7. CASE ReadMarker(p)
  <2>1. \A q \in Processes \ {p} : pc'[q] = pc[q] /\ why'[q] = why[q]
    BY <1>7, Going DEF ReadMarker
  <2> QED
    BY <1>7, <1>0, <2>1 DEF ReadMarker
<1>8. CASE Fingerprint(p)
  <2>1. \A q \in Processes \ {p} : pc'[q] = pc[q] /\ why'[q] = why[q]
    BY <1>8, Going DEF Fingerprint
  <2> QED
    BY <1>8, <1>0, <2>1 DEF Fingerprint
<1>9. CASE BeginRemoval(p)
  <2>1. \A q \in Processes \ {p} : pc'[q] = pc[q] /\ why'[q] = why[q]
    BY <1>9, Going DEF BeginRemoval
  <2> QED
    BY <1>9, <1>0, <2>1 DEF BeginRemoval
<1>10. CASE RemoveContents(p)
  <2>1. \A q \in Processes \ {p} : pc'[q] = pc[q] /\ why'[q] = why[q]
    BY <1>10, Going, Failing DEF RemoveContents
  <2> QED
    BY <1>10, <1>0, <2>1 DEF RemoveContents
<1>11. CASE RemoveDirectory(p)
  <2>1. \A q \in Processes \ {p} : pc'[q] = pc[q] /\ why'[q] = why[q]
    BY <1>11, Going, Failing DEF RemoveDirectory
  <2> QED
    BY <1>11, <1>0, <2>1 DEF RemoveDirectory
<1>12. CASE Extract(p)
  <2>1. \A q \in Processes \ {p} : pc'[q] = pc[q] /\ why'[q] = why[q]
    BY <1>12, Going, Failing DEF Extract
  <2> QED
    BY <1>12, <1>0, <2>1 DEF Extract
<1>13. CASE PublishTree(p)
  <2>1. \A q \in Processes \ {p} : pc'[q] = pc[q] /\ why'[q] = why[q]
    BY <1>13, Going, Failing DEF PublishTree
  <2> QED
    BY <1>13, <1>0, <2>1 DEF PublishTree
<1>14. CASE Finish(p)
  <2>1. \A q \in Processes \ {p} : pc'[q] = pc[q] /\ why'[q] = why[q]
    BY <1>14, Going DEF Finish
  <2> QED
    BY <1>14, <1>0, <2>1 DEF Finish
<1>15. CASE Crash(p)
  BY <1>15, <1>0 DEF Crash, TypeOK, Resting
<1> QED
  BY <1>1, <1>2, <1>3, <1>4, <1>5, <1>6, <1>7, <1>8, <1>9, <1>10, <1>11, <1>12, <1>13, <1>14, <1>15
     DEF Step

(* What a step may change, and where.                                      *)
LEMMA StepChanges ==
  ASSUME TypeOK, NEW p \in Processes, Step(p)
  PROVE  /\ pc[p] \notin Resting /\ crashes' = crashes
         /\ tree' = tree \/ BeginRemoval(p) \/ RemoveContents(p)
                         \/ RemoveDirectory(p) \/ PublishTree(p)
         /\ blob' = blob \/ UnlinkBlob(p) \/ PublishBlob(p)
         /\ temp' = temp \/ Extract(p) \/ PublishTree(p)
<1> USE DEF At, Resting, bounds
<1>1. CASE FindBlob(p)
  BY <1>1 DEF FindBlob
<1>2. CASE Validate(p)
  BY <1>2 DEF Validate
<1>3. CASE UnlinkBlob(p)
  BY <1>3 DEF UnlinkBlob
<1>4. CASE NeedBlob(p)
  BY <1>4 DEF NeedBlob
<1>5. CASE Download(p)
  BY <1>5 DEF Download
<1>6. CASE PublishBlob(p)
  BY <1>6 DEF PublishBlob
<1>7. CASE ReadMarker(p)
  BY <1>7 DEF ReadMarker
<1>8. CASE Fingerprint(p)
  BY <1>8 DEF Fingerprint
<1>9. CASE BeginRemoval(p)
  BY <1>9 DEF BeginRemoval
<1>10. CASE RemoveContents(p)
  BY <1>10 DEF RemoveContents
<1>11. CASE RemoveDirectory(p)
  BY <1>11 DEF RemoveDirectory
<1>12. CASE Extract(p)
  BY <1>12 DEF Extract
<1>13. CASE PublishTree(p)
  BY <1>13 DEF PublishTree
<1> QED
  BY <1>1, <1>2, <1>3, <1>4, <1>5, <1>6, <1>7, <1>8, <1>9, <1>10, <1>11, <1>12, <1>13
     DEF Step

LEMMA StepTypeOK ==
  ASSUME TypeOK, NEW p \in Processes, Step(p) PROVE TypeOK'
<1>s. TypeOK /\ Step(p)
  OBVIOUS
<1>a. /\ tree \in [Trees -> Contents] /\ temp \in [Processes -> {"absent", "good", "bad"}]
      /\ blob \in {"absent", "good", "bad"} /\ wants[p] \in Trees
      /\ why \in [Processes -> Reasons]
  BY <1>s, Frame DEF TypeOK
<1>0. /\ wants' = wants /\ offline' = offline /\ alone' = alone /\ calls' = calls
      /\ damages' = damages /\ crashes' = crashes /\ pc[p] \notin Resting
      /\ \A q \in Processes \ {p} : pc'[q] = pc[q]
  BY <1>s, Frame, StepChanges
<1>1. pc' \in [Processes -> Labels] /\ why' \in [Processes -> Reasons]
  <2> USE <1>s, Going, Failing DEF Labels, Resting, BlobLabels, TreeLabels, Reasons
  <2>1. CASE FindBlob(p)
    BY <2>1, <1>a DEF FindBlob
  <2>2. CASE Validate(p)
    BY <2>2, <1>a DEF Validate
  <2>3. CASE UnlinkBlob(p)
    BY <2>3, <1>a DEF UnlinkBlob
  <2>4. CASE NeedBlob(p)
    BY <2>4, <1>a DEF NeedBlob
  <2>5. CASE Download(p)
    BY <2>5, <1>a DEF Download
  <2>6. CASE PublishBlob(p)
    BY <2>6, <1>a DEF PublishBlob
  <2>7. CASE ReadMarker(p)
    BY <2>7, <1>a DEF ReadMarker
  <2>8. CASE Fingerprint(p)
    BY <2>8, <1>a DEF Fingerprint
  <2>9. CASE BeginRemoval(p)
    BY <2>9, <1>a DEF BeginRemoval
  <2>10. CASE RemoveContents(p)
    BY <2>10, <1>a DEF RemoveContents
  <2>11. CASE RemoveDirectory(p)
    BY <2>11, <1>a DEF RemoveDirectory
  <2>12. CASE Extract(p)
    BY <2>12, <1>a DEF Extract
  <2>13. CASE PublishTree(p)
    BY <2>13, <1>a DEF PublishTree
  <2> QED
    BY <2>1, <2>2, <2>3, <2>4, <2>5, <2>6, <2>7, <2>8, <2>9, <2>10, <2>11, <2>12, <2>13
       DEF Step
<1>2. tree' \in [Trees -> Contents]
  <2>1. CASE BeginRemoval(p)
    BY <2>1, <1>a DEF BeginRemoval, Contents
  <2>2. CASE RemoveContents(p)
    BY <2>2, <1>a DEF RemoveContents, Contents
  <2>3. CASE RemoveDirectory(p)
    BY <2>3, <1>a DEF RemoveDirectory, Contents
  <2>4. CASE PublishTree(p)
    BY <2>4, <1>a DEF PublishTree, Contents
  <2> QED
    BY <1>s, <1>a, <2>1, <2>2, <2>3, <2>4, StepChanges
<1>3. blob' \in {"absent", "good", "bad"}
  BY <1>s, <1>a, StepChanges DEF UnlinkBlob, PublishBlob
<1>4. temp' \in [Processes -> {"absent", "good", "bad"}]
  BY <1>s, <1>a, StepChanges DEF Extract, PublishTree
<1>5. \A q \in Processes : pc'[q] # "idle" => wants'[q] \in Trees
  BY <1>s, <1>0, <1>a DEF TypeOK
<1> QED
  BY <1>s, <1>0, <1>1, <1>2, <1>3, <1>4, <1>5 DEF TypeOK

LEMMA NextTypeOK == TypeOK /\ [Next]_vars => TypeOK'
<1>s. SUFFICES ASSUME TypeOK, [Next]_vars PROVE TypeOK'
  OBVIOUS
<1>0. calls \in [Processes -> Nat] /\ crashes \in Nat /\ damages \in Nat
  BY <1>s DEF TypeOK
<1> USE DEF TypeOK, Labels, Resting, BlobLabels, TreeLabels, At, Goto, Fail, request, bounds
<1>1. ASSUME NEW p \in Processes, NEW t \in Trees, NEW o \in BOOLEAN, Call(p, t, o)
      PROVE  TypeOK'
  <2>1. /\ pc' \in [Processes -> Labels]
        /\ wants' \in [Processes -> Trees \cup {CHOOSE u \in Trees : TRUE}]
    BY <1>1, <1>s DEF Call
  <2>2. calls'[p] = calls[p] + 1 /\ calls' = [calls EXCEPT ![p] = calls'[p]]
    BY <1>1, <1>0 DEF Call
  <2>3. calls' \in [Processes -> Nat]
    BY <2>2, <1>0
  <2>4. alone' \in [Processes -> BOOLEAN] /\ offline' \in [Processes -> BOOLEAN]
    BY <1>1, <1>s DEF Call
  <2>5. \A q \in Processes : pc'[q] # "idle" => wants'[q] \in Trees
    BY <1>1, <1>s DEF Call
  <2> QED
    BY <1>1, <1>s, <2>1, <2>3, <2>4, <2>5 DEF Call
<1>2. ASSUME NEW p \in Processes, Step(p) PROVE TypeOK'
  BY <1>2, <1>s, StepTypeOK
<1>3. ASSUME NEW p \in Processes, Finish(p) PROVE TypeOK'
  BY <1>3, <1>s DEF Finish
<1>4. ASSUME NEW p \in Processes, Crash(p) PROVE TypeOK'
  <2>1. pc' \in [Processes -> Labels] /\ temp' \in [Processes -> {"absent", "good", "bad"}]
    BY <1>4, <1>s DEF Crash
  <2>2. crashes' \in Nat
    BY <1>4, <1>0 DEF Crash
  <2>3. \A q \in Processes : pc'[q] # "idle" => wants'[q] \in Trees
    BY <1>4, <1>s DEF Crash
  <2> QED
    BY <1>4, <1>s, <2>1, <2>2, <2>3 DEF Crash
<1>5. CASE Damage
  <2>1. tree' \in [Trees -> Contents]
    BY <1>5, <1>s DEF Damage
  <2>2. blob' \in {"absent", "good", "bad"}
    BY <1>5, <1>s DEF Damage
  <2>3. damages' \in Nat
    BY <1>5, <1>0 DEF Damage
  <2> QED
    BY <1>5, <1>s, <2>1, <2>2, <2>3 DEF Damage
<1>6. CASE UNCHANGED vars
  BY <1>6, <1>s DEF vars
<1> HIDE DEF TypeOK, Labels, Resting, BlobLabels, TreeLabels, At, Goto, Fail, request, bounds
<1> QED
  BY <1>s, <1>1, <1>2, <1>3, <1>4, <1>5, <1>6 DEF Next

(* What a step or the end of a call must not do to keep all sound.         *)
LEMMA NextFrom ==
  ASSUME TypeOK, TypeOK', Validated, GoodTemporaries, NeverPoisoned, NEW p \in Processes,
         Step(p) \/ Finish(p) \/ Crash(p),
         pc'[p] \in BlobLabels \cup TreeLabels => blob' # "bad",
         blob' # "bad" \/ blob' = blob,
         pc'[p] = "publish tree" => temp'[p] = "good",
         tree'[wants[p]] # "poisoned"
  PROVE  Sound'
<1>0. /\ \A q \in Processes \ {p} : pc'[q] = pc[q] /\ temp'[q] = temp[q]
      /\ \A t \in Trees \ {wants[p]} : tree'[t] = tree[t]
  BY Frame
<1>1. Validated'
  BY <1>0 DEF Validated
<1>2. GoodTemporaries'
  BY <1>0 DEF GoodTemporaries
<1>3. NeverPoisoned'
  BY <1>0 DEF NeverPoisoned
<1> QED
  BY <1>1, <1>2, <1>3 DEF Sound

LEMMA StepSound ==
  ASSUME Sound, TypeOK', NEW p \in Processes, Step(p) PROVE Sound'
<1>s. Step(p)
  OBVIOUS
<1>0. TypeOK /\ Validated /\ GoodTemporaries /\ NeverPoisoned
  BY DEF Sound
<1>a. /\ pc \in [Processes -> Labels]
      /\ temp \in [Processes -> {"absent", "good", "bad"}]
      /\ tree \in [Trees -> Contents]
      /\ blob \in {"absent", "good", "bad"}
      /\ \A q \in Processes : pc[q] # "idle" => wants[q] \in Trees
  BY <1>0 DEF TypeOK
<1> USE DEF At, Goto, Fail
<1>1. pc'[p] \in BlobLabels \cup TreeLabels => blob' # "bad"
  <2>1. CASE FindBlob(p)
    BY <2>1, <1>0, <1>a DEF FindBlob, Validated, BlobLabels, TreeLabels
  <2>2. CASE Validate(p)
    BY <2>2, <1>0, <1>a DEF Validate, Validated, BlobLabels, TreeLabels
  <2>3. CASE UnlinkBlob(p)
    BY <2>3, <1>0, <1>a DEF UnlinkBlob, Validated, BlobLabels, TreeLabels
  <2>4. CASE NeedBlob(p)
    BY <2>4, <1>0, <1>a DEF NeedBlob, Validated, BlobLabels, TreeLabels
  <2>5. CASE Download(p)
    BY <2>5, <1>0, <1>a DEF Download, Validated, BlobLabels, TreeLabels
  <2>6. CASE PublishBlob(p)
    BY <2>6, <1>0, <1>a DEF PublishBlob, Validated, BlobLabels, TreeLabels
  <2>7. CASE ReadMarker(p)
    BY <2>7, <1>0, <1>a DEF ReadMarker, Validated, BlobLabels, TreeLabels
  <2>8. CASE Fingerprint(p)
    BY <2>8, <1>0, <1>a DEF Fingerprint, Validated, BlobLabels, TreeLabels
  <2>9. CASE BeginRemoval(p)
    BY <2>9, <1>0, <1>a DEF BeginRemoval, Validated, BlobLabels, TreeLabels
  <2>10. CASE RemoveContents(p)
    BY <2>10, <1>0, <1>a DEF RemoveContents, Validated, BlobLabels, TreeLabels
  <2>11. CASE RemoveDirectory(p)
    BY <2>11, <1>0, <1>a DEF RemoveDirectory, Validated, BlobLabels, TreeLabels
  <2>12. CASE Extract(p)
    BY <2>12, <1>0, <1>a DEF Extract, Validated, BlobLabels, TreeLabels
  <2>13. CASE PublishTree(p)
    BY <2>13, <1>0, <1>a DEF PublishTree, Validated, BlobLabels, TreeLabels
  <2> QED
    BY <1>s, <2>1, <2>2, <2>3, <2>4, <2>5, <2>6, <2>7, <2>8, <2>9, <2>10, <2>11, <2>12, <2>13
       DEF Step
<1>2. blob' # "bad" \/ blob' = blob
  BY <1>0, <1>s, StepChanges DEF UnlinkBlob, PublishBlob
<1>3. pc'[p] = "publish tree" => temp'[p] = "good"
  <2>1. CASE Extract(p)
    BY <2>1, <1>0, <1>a DEF Extract, Validated, TreeLabels
  <2>2. CASE ~Extract(p)
    <3>1. pc'[p] # "publish tree"
      <4>1. CASE FindBlob(p)
        BY <4>1, <1>a DEF FindBlob
      <4>2. CASE Validate(p)
        BY <4>2, <1>a DEF Validate
      <4>3. CASE UnlinkBlob(p)
        BY <4>3, <1>a DEF UnlinkBlob
      <4>4. CASE NeedBlob(p)
        BY <4>4, <1>a DEF NeedBlob
      <4>5. CASE Download(p)
        BY <4>5, <1>a DEF Download
      <4>6. CASE PublishBlob(p)
        BY <4>6, <1>a DEF PublishBlob
      <4>7. CASE ReadMarker(p)
        BY <4>7, <1>a DEF ReadMarker
      <4>8. CASE Fingerprint(p)
        BY <4>8, <1>a DEF Fingerprint
      <4>9. CASE BeginRemoval(p)
        BY <4>9, <1>a DEF BeginRemoval
      <4>10. CASE RemoveContents(p)
        BY <4>10, <1>a DEF RemoveContents
      <4>11. CASE RemoveDirectory(p)
        BY <4>11, <1>a DEF RemoveDirectory
      <4>12. CASE Extract(p)
        BY <4>12, <2>2
      <4>13. CASE PublishTree(p)
        BY <4>13, <1>a DEF PublishTree
      <4> QED
        BY <1>s, <4>1, <4>2, <4>3, <4>4, <4>5, <4>6, <4>7, <4>8, <4>9, <4>10, <4>11, <4>12, <4>13
           DEF Step
    <3> QED
      BY <3>1
  <2> QED
    BY <2>1, <2>2
<1>4. tree'[wants[p]] # "poisoned"
  <2>0. wants[p] \in Trees
    BY <1>0, <1>s, Frame
  <2>1. CASE tree' = tree
    BY <2>1, <2>0, <1>0 DEF NeverPoisoned
  <2>2. CASE BeginRemoval(p)
    BY <2>2, <2>0, <1>0, <1>a DEF BeginRemoval, NeverPoisoned
  <2>3. CASE RemoveContents(p)
    BY <2>3, <2>0, <1>0, <1>a DEF RemoveContents, NeverPoisoned
  <2>4. CASE RemoveDirectory(p)
    BY <2>4, <2>0, <1>0, <1>a DEF RemoveDirectory, NeverPoisoned
  <2>5. CASE PublishTree(p)
    BY <2>5, <2>0, <1>0, <1>a DEF PublishTree, NeverPoisoned, GoodTemporaries
  <2> QED
    BY <1>0, <1>s, <2>1, <2>2, <2>3, <2>4, <2>5, StepChanges
<1> HIDE DEF At, Goto, Fail
<1> QED
  BY <1>0, <1>1, <1>2, <1>3, <1>4, NextFrom

(* Every step keeps the blob and the trees sound.                          *)
LEMMA NextSound == Sound /\ [Next]_vars => Sound'
<1>s. SUFFICES ASSUME Sound, [Next]_vars PROVE Sound'
  OBVIOUS
<1>0. TypeOK /\ TypeOK' /\ Validated /\ GoodTemporaries /\ NeverPoisoned
  BY <1>s, NextTypeOK DEF Sound
<1>a. /\ pc \in [Processes -> Labels]
      /\ temp \in [Processes -> {"absent", "good", "bad"}]
      /\ tree \in [Trees -> Contents]
      /\ blob \in {"absent", "good", "bad"}
      /\ \A p \in Processes : pc[p] # "idle" => wants[p] \in Trees
  BY <1>0 DEF TypeOK
<1>1. ASSUME NEW p \in Processes, NEW t \in Trees, NEW o \in BOOLEAN, Call(p, t, o)
      PROVE  Sound'
  <2>1. /\ pc'[p] = "find blob" /\ \A q \in Processes \ {p} : pc'[q] = pc[q]
        /\ UNCHANGED <<blob, tree, temp>>
    BY <1>1, <1>0, Going DEF Call
  <2> QED
    BY <1>0, <2>1
       DEF Sound, Validated, GoodTemporaries, NeverPoisoned, BlobLabels, TreeLabels
<1>2. ASSUME NEW p \in Processes, Step(p) PROVE Sound'
  BY <1>2, <1>s, <1>0, StepSound
<1>3. ASSUME NEW p \in Processes, Finish(p) PROVE Sound'
  <2>1. pc'[p] = "idle" /\ UNCHANGED <<blob, tree, temp>> /\ wants[p] \in Trees
    BY <1>3, <1>a DEF Finish, Goto, At
  <2> QED
    BY <1>3, <1>0, <2>1, NextFrom DEF BlobLabels, TreeLabels, NeverPoisoned
<1>4. ASSUME NEW p \in Processes, Crash(p) PROVE Sound'
  <2>1. pc'[p] = "idle" /\ UNCHANGED <<blob, tree>> /\ wants[p] \in Trees
    BY <1>4, <1>a DEF Crash, Resting
  <2> QED
    BY <1>4, <1>0, <2>1, NextFrom DEF BlobLabels, TreeLabels, NeverPoisoned
<1>5. CASE Damage
  <2>1. Validated'
    BY <1>5 DEF Damage, Validated, BlobLabels, TreeLabels
  <2>2. NeverPoisoned'
    BY <1>5, <1>0, <1>a DEF Damage, NeverPoisoned
  <2> QED
    BY <1>5, <1>0, <2>1, <2>2 DEF Damage, Sound, GoodTemporaries
<1>6. CASE UNCHANGED vars
  BY <1>6, <1>0 DEF vars, Sound, Validated, GoodTemporaries, NeverPoisoned
<1> QED
  BY <1>s, <1>1, <1>2, <1>3, <1>4, <1>5, <1>6 DEF Next


-----------------------------------------------------------------------------
LEMMA InitLone == Init => Lone
<1>1. Init => Alone /\ OnlineDownloads /\ LoneStepsHold
  BY DEF Init, Active, Alone, OnlineDownloads, LoneStepsHold, AsLeft, TreeLabels
<1> QED
  BY <1>1, InitSound DEF Lone

(* A step of p leaves what other lone calls rely on, since there is none   *)
(* under way; what p itself relies on is the step's own concern.           *)
LEMMA LoneFrom ==
  ASSUME Lone, Sound', NEW p \in Processes, Step(p) \/ Finish(p) \/ Crash(p),
         pc[p] \notin {"idle", "failed"},
         pc'[p] \in {"download", "publish blob"} => ~offline[p],
         alone[p] => AsLeft(p)'
  PROVE  Lone'
<1>0. TypeOK
  BY DEF Lone, Sound
<1>1. Alone'
  <2> SUFFICES ASSUME NEW a \in Processes, NEW b \in Processes, alone'[a], a \in Active', b # a
               PROVE  b \notin Active'
    BY DEF Alone
  <2>1. p \in Active /\ alone[a] /\ (alone[a] /\ a \in Active => b \notin Active)
    BY <1>0, Frame DEF Lone, Alone, Active
  <2>2. a # p => a \in Active
    BY <1>0, Frame DEF Active
  <2>3. a = p
    BY <2>1, <2>2 DEF Lone, Alone
  <2> QED
    BY <1>0, <2>1, <2>3, Frame DEF Active
<1>2. OnlineDownloads'
  BY <1>0, Frame DEF Lone, OnlineDownloads
<1>3. LoneStepsHold'
  <2> SUFFICES ASSUME NEW q \in Processes, alone'[q] PROVE AsLeft(q)'
    BY DEF LoneStepsHold
  <2>1. CASE q = p
    BY <2>1, <1>0, Frame
  <2>2. CASE q # p
    <3>1. AsLeft(q) /\ pc[q] \in {"idle", "failed"} /\ alone[q]
      BY <2>2, <1>0, Frame DEF Lone, Alone, Active, LoneStepsHold
    <3>2. pc'[q] = pc[q] /\ why'[q] = why[q] /\ offline'[q] = offline[q]
      BY <2>2, <1>0, Frame
    <3> QED
      BY <3>1, <3>2 DEF AsLeft, TreeLabels
  <2> QED
    BY <2>1, <2>2
<1> QED
  BY <1>1, <1>2, <1>3 DEF Lone


(* A call that nothing runs beside finds the blob and the tree at each     *)
(* step as it left them.                                                   *)
LEMMA StepLone ==
  ASSUME Lone, Sound', NEW p \in Processes, Step(p) PROVE Lone'
<1>s. Step(p)
  OBVIOUS
<1>0. TypeOK /\ Lone /\ Validated /\ GoodTemporaries /\ NeverPoisoned
  BY DEF Lone, Sound
<1>a. /\ pc \in [Processes -> Labels]
      /\ why \in [Processes -> Reasons]
      /\ tree \in [Trees -> Contents]
      /\ blob \in {"absent", "good", "bad"} /\ wants[p] \in Trees
      /\ wants' = wants /\ offline' = offline
  BY <1>0, <1>s, Frame DEF TypeOK
<1>c. pc[p] \notin Resting
  BY <1>0, <1>s, StepChanges
<1>1. pc'[p] \in {"download", "publish blob"} => ~offline[p]
  <2> USE DEF At, Goto, Fail
  <2>0. pc[p] \in {"download", "publish blob"} => ~offline[p]
    BY <1>0 DEF Lone, OnlineDownloads
  <2>1. CASE FindBlob(p)
    BY <2>1, <1>a, <2>0 DEF FindBlob
  <2>2. CASE Validate(p)
    BY <2>2, <1>a, <2>0 DEF Validate
  <2>3. CASE UnlinkBlob(p)
    BY <2>3, <1>a, <2>0 DEF UnlinkBlob
  <2>4. CASE NeedBlob(p)
    BY <2>4, <1>a, <2>0 DEF NeedBlob
  <2>5. CASE Download(p)
    BY <2>5, <1>a, <2>0 DEF Download
  <2>6. CASE PublishBlob(p)
    BY <2>6, <1>a, <2>0 DEF PublishBlob
  <2>7. CASE ReadMarker(p)
    BY <2>7, <1>a, <2>0 DEF ReadMarker
  <2>8. CASE Fingerprint(p)
    BY <2>8, <1>a, <2>0 DEF Fingerprint
  <2>9. CASE BeginRemoval(p)
    BY <2>9, <1>a, <2>0 DEF BeginRemoval
  <2>10. CASE RemoveContents(p)
    BY <2>10, <1>a, <2>0 DEF RemoveContents
  <2>11. CASE RemoveDirectory(p)
    BY <2>11, <1>a, <2>0 DEF RemoveDirectory
  <2>12. CASE Extract(p)
    BY <2>12, <1>a, <2>0 DEF Extract
  <2>13. CASE PublishTree(p)
    BY <2>13, <1>a, <2>0 DEF PublishTree
  <2> QED
    BY <1>s, <2>1, <2>2, <2>3, <2>4, <2>5, <2>6, <2>7, <2>8, <2>9, <2>10, <2>11, <2>12, <2>13
       DEF Step
<1>2. ASSUME alone[p] PROVE AsLeft(p)'
  <2> USE DEF At, Goto, Fail, AsLeft, TreeLabels
  <2>b. AsLeft(p) /\ alone[p] /\ (pc[p] = "download" => ~offline[p])
    BY <1>0, <1>2 DEF Lone, LoneStepsHold, OnlineDownloads
  <2>1. CASE FindBlob(p)
    BY <2>1, <1>a, <2>b, <1>0 DEF FindBlob, Validated, NeverPoisoned, BlobLabels
  <2>2. CASE Validate(p)
    <3>1. CASE blob = "absent"
      BY <3>1, <2>2, <1>a, <2>b, <1>0 DEF Validate
    <3>2. CASE blob = "good"
      BY <3>2, <2>2, <1>a, <2>b, <1>0 DEF Validate
    <3>3. CASE blob = "bad" /\ offline[p]
      BY <3>3, <2>2, <1>a, <2>b, <1>0 DEF Validate, request
    <3>4. CASE blob = "bad" /\ ~offline[p]
      BY <3>4, <2>2, <1>a, <2>b, <1>0 DEF Validate
    <3> QED
      BY <3>1, <3>2, <3>3, <3>4, <1>a
  <2>3. CASE UnlinkBlob(p)
    BY <2>3, <1>a, <2>b, <1>0 DEF UnlinkBlob
  <2>4. CASE NeedBlob(p)
    <3>1. CASE blob # "absent"
      BY <3>1, <2>4, <1>a, <2>b, <1>0 DEF NeedBlob
    <3>2. CASE blob = "absent" /\ offline[p]
      BY <3>2, <2>4, <1>a, <2>b, <1>0 DEF NeedBlob, request
    <3>3. CASE blob = "absent" /\ ~offline[p]
      BY <3>3, <2>4, <1>a, <2>b, <1>0 DEF NeedBlob
    <3> QED
      BY <3>1, <3>2, <3>3, <1>a
  <2>5. CASE Download(p)
    BY <2>5, <1>a, <2>b, <1>0 DEF Download, request
  <2>6. CASE PublishBlob(p)
    BY <2>6, <1>a, <2>b, <1>0 DEF PublishBlob
  <2>7. CASE ReadMarker(p)
    BY <2>7, <1>a, <2>b, <1>0 DEF ReadMarker, Validated, NeverPoisoned, BlobLabels
  <2>8. CASE Fingerprint(p)
    BY <2>8, <1>a, <2>b, <1>0 DEF Fingerprint, Validated, NeverPoisoned, BlobLabels
  <2>9. CASE BeginRemoval(p)
    BY <2>9, <1>a, <2>b, <1>0 DEF BeginRemoval
  <2>10. CASE RemoveContents(p)
    <3>1. ~Contested(p)
      BY <1>0, <2>b, <1>c DEF Lone, Alone, Active, Contested, Resting
    <3> QED
      BY <3>1, <2>10, <1>a, <2>b, <1>0 DEF RemoveContents
  <2>11. CASE RemoveDirectory(p)
    BY <2>11, <1>a, <2>b, <1>0 DEF RemoveDirectory
  <2>12. CASE Extract(p)
    BY <2>12, <1>a, <2>b, <1>0 DEF Extract, Validated, NeverPoisoned, BlobLabels
  <2>13. CASE PublishTree(p)
    <3>1. CASE tree[wants[p]] \in {"absent", "emptied"} /\ temp[p] = "good"
      <4>1. pc'[p] = "done" /\ tree'[wants[p]] = "whole"
        BY <3>1, <2>13, <1>a DEF PublishTree
      <4> QED
        BY <4>1, <1>a
    <3>2. CASE tree[wants[p]] \in {"absent", "emptied"} /\ temp[p] # "good"
      BY <3>2, <2>13, <1>a, <2>b, <1>0 DEF PublishTree, GoodTemporaries
    <3>3. CASE tree[wants[p]] \notin {"absent", "emptied"}
      BY <3>3, <2>13, <1>a, <2>b, <1>0 DEF PublishTree
    <3> QED
      BY <3>1, <3>2, <3>3, <1>a
  <2> QED
    BY <1>s, <2>1, <2>2, <2>3, <2>4, <2>5, <2>6, <2>7, <2>8, <2>9, <2>10, <2>11, <2>12, <2>13
       DEF Step
<1> QED
  BY <1>0, <1>c, <1>1, <1>2, LoneFrom DEF Resting

LEMMA NextLone == Lone /\ [Next]_vars => Lone'
<1>s. SUFFICES ASSUME Lone, [Next]_vars PROVE Lone'
  OBVIOUS
<1>0. TypeOK /\ Sound'
  BY <1>s, NextSound DEF Lone, Sound
<1>b. \A p \in Processes : alone[p] => AsLeft(p)
  BY <1>s DEF Lone, LoneStepsHold
<1>c. \A p \in Processes : pc[p] \in {"download", "publish blob"} => ~offline[p]
  BY <1>s DEF Lone, OnlineDownloads
<1>1. ASSUME NEW p \in Processes, NEW t \in Trees, NEW o \in BOOLEAN, Call(p, t, o)
      PROVE  Lone'
  <2>0. pc[p] \in Resting /\ pc'[p] = "find blob" /\ \A q \in Processes \ {p} : pc'[q] = pc[q]
    BY <1>1, <1>0, Going DEF Call
  <2>1. /\ alone'[p] = (Active \subseteq {p})
        /\ \A q \in Processes \ {p} : alone'[q] = (alone[q] /\ q \notin Active)
    BY <1>1 DEF Call
  <2>2. \A q \in Processes \ {p} : wants'[q] = wants[q] /\ offline'[q] = offline[q]
    BY <1>1, <1>0 DEF Call, TypeOK
  <2>3. UNCHANGED <<blob, tree, why>>
    BY <1>1 DEF Call, Goto
  <2>4. Alone'
    BY <2>0, <2>1 DEF Alone, Active
  <2>5. OnlineDownloads'
    BY <2>0, <2>2, <1>c DEF OnlineDownloads
  <2>6. LoneStepsHold'
    <3> SUFFICES ASSUME NEW q \in Processes, alone'[q] PROVE AsLeft(q)'
      BY DEF LoneStepsHold
    <3>1. CASE q = p
      BY <3>1, <2>0 DEF AsLeft, TreeLabels
    <3>2. CASE q # p
      <4>1. alone[q] /\ pc[q] \in {"idle", "failed"} /\ AsLeft(q)
        BY <3>2, <2>1, <1>b DEF Active
      <4> QED
        BY <4>1, <3>2, <2>0, <2>2, <2>3 DEF AsLeft, TreeLabels
    <3> QED
      BY <3>1, <3>2
  <2> QED
    BY <1>0, <2>4, <2>5, <2>6 DEF Lone
<1>2. ASSUME NEW p \in Processes, Step(p) PROVE Lone'
  BY <1>2, <1>s, <1>0, StepLone
<1>3. ASSUME NEW p \in Processes, Finish(p) \/ Crash(p) PROVE Lone'
  <2>1. pc[p] \notin {"idle", "failed"} /\ pc'[p] = "idle"
    BY <1>3, <1>0 DEF Finish, Crash, Goto, At, Resting, TypeOK
  <2>2. AsLeft(p)'
    BY <2>1 DEF AsLeft, TreeLabels
  <2> QED
    BY <1>s, <1>0, <1>3, <2>1, <2>2, LoneFrom
<1>4. CASE Damage
  <2>1. \A p \in Processes : pc[p] \in {"idle", "failed"}
    BY <1>4 DEF Damage
  <2>2. UNCHANGED <<pc, why, alone, offline, wants>>
    BY <1>4 DEF Damage, request
  <2>3. LoneStepsHold'
    BY <2>1, <2>2, <1>b DEF LoneStepsHold, AsLeft, TreeLabels
  <2> QED
    BY <1>s, <1>0, <2>2, <2>3 DEF Lone, Alone, Active, OnlineDownloads
<1>5. CASE UNCHANGED vars
  BY <1>5, <1>s, <1>0 DEF vars, Lone, Alone, Active, OnlineDownloads, LoneStepsHold, AsLeft
<1> QED
  BY <1>s, <1>1, <1>2, <1>3, <1>4, <1>5 DEF Next

-----------------------------------------------------------------------------
LEMMA InitHope == Init => Hope
<1>1. Init => Called /\ RemovalsLast /\ SomebodyIsClear
  BY DEF Init, Called, RemovalsLast, SomebodyIsClear
<1> QED
  BY <1>1, InitSound DEF Hope

(* Once a call has come to its end, this stays so.                         *)
LEMMA SettledStays ==
  ASSUME TypeOK, NEW p \in Processes, Step(p) \/ Finish(p),
         pc[p] \notin {"idle", "failed"}, pc[p] = "done" => pc'[p] = "idle",
         NEW q \in Processes, Settled(q)
  PROVE  Settled(q)'
<1>1. calls'[q] = calls[q] /\ (q # p => pc'[q] = pc[q] /\ why'[q] = why[q])
  BY Frame
<1> QED
  BY <1>1 DEF Settled

(* What a step of p must do, while no call has come to its end, to leave   *)
(* some process clear.                                                     *)
LEMMA HopeFrom ==
  ASSUME Hope, Sound', NEW p \in Processes, Step(p) \/ Finish(p), crashes' = crashes,
         pc[p] \notin {"idle", "failed"}, pc[p] = "done" => pc'[p] = "idle",
         Undisturbed /\ (\A q \in Processes : ~Settled(q)) /\ ~Settled(p)' =>
           /\ RemovesOnly(p)
           /\ pc'[p] = "remove contents" => tree'[wants[p]] \in {"damaged", "emptied", "absent"}
           /\ pc'[p] = "remove directory" => tree'[wants[p]] \in {"emptied", "absent"}
           /\ blob' = "absent" /\ blob # "absent" => Clear(p)'
           /\ Clear(p) => \E q \in Processes : Clear(q)'
  PROVE  Hope'
<1>0. TypeOK
  BY DEF Hope, Sound
<1>1. Undisturbed' = Undisturbed /\ (\A q \in Processes : Settled(q) => Settled(q)')
  BY <1>0, Frame, SettledStays DEF Undisturbed
<1>2. RemovalsLast'
  <2> SUFFICES ASSUME Undisturbed, \A q \in Processes : ~Settled(q), ~Settled(p)',
                      NEW q \in Processes
               PROVE  /\ pc'[q] = "remove contents" => tree'[wants'[q]] \in {"damaged", "emptied", "absent"}
                      /\ pc'[q] = "remove directory" => tree'[wants'[q]] \in {"emptied", "absent"}
    BY <1>1 DEF RemovalsLast
  <2>1. CASE q = p
    BY <2>1, <1>0, Frame
  <2>2. CASE q # p
    <3>1. wants'[q] = wants[q] /\ pc'[q] = pc[q]
      BY <2>2, <1>0, Frame
    <3>2. tree'[wants[q]] = tree[wants[q]] \/ wants[q] = wants[p] \/ pc[q] = "idle"
      BY <1>0, Frame DEF TypeOK
    <3> QED
      BY <3>1, <3>2 DEF Hope, RemovalsLast, RemovesOnly
  <2> QED
    BY <2>1, <2>2
<1>3. SomebodyIsClear'
  <2> SUFFICES ASSUME Undisturbed, \A q \in Processes : ~Settled(q), ~Settled(p)'
               PROVE  \E q \in Processes : Clear(q)'
    BY <1>1 DEF SomebodyIsClear
  <2>1. PICK q \in Processes : Clear(q)
    <3>1. ~ \A q \in Processes : calls[q] = 0
      BY DEF Hope, Called
    <3> QED
      BY <3>1 DEF Hope, SomebodyIsClear
  <2>2. CASE q = p
    BY <2>1, <2>2
  <2>3. CASE q # p
    <3>1. wants'[q] = wants[q] /\ pc'[q] = pc[q]
      BY <2>3, <1>0, Frame
    <3>2. tree'[wants[q]] = tree[wants[q]] \/ wants[q] = wants[p] \/ pc[q] = "idle"
      BY <1>0, Frame DEF TypeOK
    <3>3. CASE blob' = "absent" /\ blob # "absent"
      BY <3>3
    <3>4. CASE blob' # "absent" \/ blob = "absent"
      <4>1. RemovesOnly(p) /\ wants'[q] = wants[q] /\ pc'[q] = pc[q]
        BY <3>1
      <4>2. CASE pc[q] \in {"find blob"} \cup BlobLabels
        BY <4>1, <4>2 DEF Clear
      <4>3. CASE pc[q] \in {"validate", "unlink", "read marker", "fingerprint", "remove"}
        BY <2>1, <3>4, <4>1, <4>3 DEF Clear, BlobLabels
      <4>4. CASE pc[q] \in {"remove contents", "remove directory"}
        <5>1. /\ blob # "absent" /\ tree[wants[q]] \in {"damaged", "emptied"}
              /\ pc[q] = "remove directory" => tree[wants[q]] = "emptied"
          BY <2>1, <4>4 DEF Clear, BlobLabels
        <5>2. \/ Clear(p)' \/ /\ tree'[wants[q]] \in {"damaged", "emptied"}
                              /\ tree[wants[q]] = "emptied" => tree'[wants[q]] = "emptied"
          BY <5>1, <3>2, <4>4, <4>1 DEF RemovesOnly
        <5> QED
          BY <5>1, <5>2, <3>4, <4>1, <4>4 DEF Clear
      <4>5. CASE pc[q] \in {"extract", "publish tree"}
        <5>1. /\ tree[wants[q]] \in {"absent", "emptied"}
              /\ pc[q] = "extract" => blob # "absent"
          BY <2>1, <4>5 DEF Clear, BlobLabels
        <5>2. tree'[wants[q]] \in {"absent", "emptied"}
          BY <5>1, <3>2, <4>5, <4>1 DEF RemovesOnly
        <5> QED
          BY <5>1, <5>2, <3>4, <4>1, <4>5 DEF Clear
      <4>6. \/ pc[q] \in {"find blob"} \cup BlobLabels
            \/ pc[q] \in {"validate", "unlink", "read marker", "fingerprint", "remove"}
            \/ pc[q] \in {"remove contents", "remove directory"}
            \/ pc[q] \in {"extract", "publish tree"}
        BY <2>1 DEF Clear
      <4> QED
        BY <4>2, <4>3, <4>4, <4>5, <4>6
    <3> QED
      BY <3>3, <3>4
  <2> QED
    BY <2>2, <2>3
<1>4. Called'
  BY <1>0, Frame DEF Hope, Called
<1> QED
  BY <1>2, <1>3, <1>4 DEF Hope


LEMMA CalledOnce ==
  ASSUME TypeOK, Called, NEW p \in Processes, pc[p] # "idle", ~Settled(p) PROVE calls[p] = 1
<1>1. calls[p] # 0 /\ ~(calls[p] > 1)
  BY DEF Called, Settled
<1>2. calls[p] \in Nat
  BY DEF TypeOK
<1> QED
  BY <1>1, <1>2

(* While nothing dies and nothing is damaged, some process is clear until  *)
(* a call has come to its end.                                             *)
LEMMA StepHope ==
  ASSUME Hope, Sound', NEW p \in Processes, Step(p) PROVE Hope'
<1>s. Step(p) /\ Hope
  OBVIOUS
<1>0. TypeOK /\ NeverPoisoned /\ Called /\ RemovalsLast
  BY <1>s DEF Hope, Sound
<1>b. /\ pc[p] \notin Resting /\ wants[p] \in Trees /\ crashes' = crashes
      /\ wants'[p] = wants[p] /\ calls'[p] = calls[p]
  BY <1>0, <1>s, Frame, StepChanges
<1>a. /\ pc \in [Processes -> Labels]
      /\ why \in [Processes -> Reasons]
      /\ tree \in [Trees -> Contents]
      /\ blob \in {"absent", "good", "bad"}
  BY <1>0 DEF TypeOK
<1>1. SUFFICES ASSUME Undisturbed, \A q \in Processes : ~Settled(q), ~Settled(p)'
      PROVE  /\ RemovesOnly(p)
             /\ pc'[p] = "remove contents" => tree'[wants[p]] \in {"damaged", "emptied", "absent"}
             /\ pc'[p] = "remove directory" => tree'[wants[p]] \in {"emptied", "absent"}
             /\ blob' = "absent" /\ blob # "absent" => Clear(p)'
             /\ Clear(p) => \E q \in Processes : Clear(q)'
  BY <1>s, <1>0, <1>b, HopeFrom DEF Resting
<1>c. calls'[p] = 1
  BY <1>0, <1>1, <1>b, CalledOnce DEF Resting
<1> USE DEF At, Goto, Fail
<1>2. RemovesOnly(p)
  <2>1. CASE tree' = tree
    BY <2>1 DEF RemovesOnly
  <2>2. CASE BeginRemoval(p)
    BY <2>2, <1>0, <1>a, <1>b DEF BeginRemoval, RemovesOnly, NeverPoisoned
  <2>3. CASE RemoveContents(p)
    BY <2>3, <1>a, <1>b DEF RemoveContents, RemovesOnly
  <2>4. CASE RemoveDirectory(p)
    <3>1. CASE tree[wants[p]] = "emptied"
      <4>1. pc'[p] = "extract" /\ tree'[wants[p]] = "absent" /\ blob' = blob
        BY <2>4, <3>1, <1>a, <1>b DEF RemoveDirectory
      <4> QED
        BY <3>1, <4>1, <1>b DEF RemovesOnly, Clear
    <3>2. CASE tree[wants[p]] # "emptied"
      BY <2>4, <3>2 DEF RemoveDirectory, RemovesOnly
    <3> QED
      BY <3>1, <3>2
  <2>5. CASE PublishTree(p)
    BY <2>5, <1>1, <1>a, <1>c DEF PublishTree, RemovesOnly, Settled
  <2> QED
    BY <1>0, <1>s, <2>1, <2>2, <2>3, <2>4, <2>5, StepChanges
<1>3. /\ pc'[p] = "remove contents" => tree'[wants[p]] \in {"damaged", "emptied", "absent"}
      /\ pc'[p] = "remove directory" => tree'[wants[p]] \in {"emptied", "absent"}
  <2>1. CASE FindBlob(p)
    BY <2>1, <1>0, <1>a, <1>b DEF FindBlob
  <2>2. CASE Validate(p)
    BY <2>2, <1>0, <1>a, <1>b DEF Validate
  <2>3. CASE UnlinkBlob(p)
    BY <2>3, <1>0, <1>a, <1>b DEF UnlinkBlob
  <2>4. CASE NeedBlob(p)
    BY <2>4, <1>0, <1>a, <1>b DEF NeedBlob
  <2>5. CASE Download(p)
    BY <2>5, <1>0, <1>a, <1>b DEF Download
  <2>6. CASE PublishBlob(p)
    BY <2>6, <1>0, <1>a, <1>b DEF PublishBlob
  <2>7. CASE ReadMarker(p)
    BY <2>7, <1>0, <1>a, <1>b DEF ReadMarker
  <2>8. CASE Fingerprint(p)
    BY <2>8, <1>0, <1>a, <1>b DEF Fingerprint
  <2>9. CASE BeginRemoval(p)
    BY <2>9, <1>0, <1>a, <1>b DEF BeginRemoval, NeverPoisoned
  <2>10. CASE RemoveContents(p)
    BY <2>10, <1>0, <1>1, <1>a, <1>b DEF RemoveContents, RemovalsLast
  <2>11. CASE RemoveDirectory(p)
    BY <2>11, <1>0, <1>a, <1>b DEF RemoveDirectory
  <2>12. CASE Extract(p)
    BY <2>12, <1>0, <1>a, <1>b DEF Extract
  <2>13. CASE PublishTree(p)
    BY <2>13, <1>0, <1>a, <1>b DEF PublishTree
  <2> QED
    BY <1>s, <2>1, <2>2, <2>3, <2>4, <2>5, <2>6, <2>7, <2>8, <2>9, <2>10, <2>11, <2>12, <2>13
       DEF Step
<1>4. blob' = "absent" /\ blob # "absent" => Clear(p)'
  <2>1. CASE UnlinkBlob(p)
    BY <2>1, <1>a DEF UnlinkBlob, Clear, BlobLabels
  <2> QED
    BY <1>0, <1>s, <2>1, StepChanges DEF PublishBlob
<1>5. ASSUME Clear(p) PROVE \E q \in Processes : Clear(q)'
  <2> USE DEF Clear, BlobLabels
  <2>1. CASE FindBlob(p)
    BY <2>1, <1>5, <1>1, <1>0, <1>a, <1>b, <1>c DEF FindBlob
  <2>2. CASE Validate(p)
    BY <2>2, <1>5, <1>1, <1>0, <1>a, <1>b, <1>c DEF Validate, Settled
  <2>3. CASE UnlinkBlob(p)
    BY <2>3, <1>5, <1>1, <1>0, <1>a, <1>b, <1>c DEF UnlinkBlob
  <2>4. CASE NeedBlob(p)
    BY <2>4, <1>5, <1>1, <1>0, <1>a, <1>b, <1>c DEF NeedBlob, Settled
  <2>5. CASE Download(p)
    BY <2>5, <1>5, <1>1, <1>0, <1>a, <1>b, <1>c DEF Download, Settled
  <2>6. CASE PublishBlob(p)
    BY <2>6, <1>5, <1>1, <1>0, <1>a, <1>b, <1>c DEF PublishBlob
  <2>7. CASE ReadMarker(p)
    BY <2>7, <1>5, <1>1, <1>0, <1>a, <1>b, <1>c DEF ReadMarker
  <2>8. CASE Fingerprint(p)
    BY <2>8, <1>5, <1>1, <1>0, <1>a, <1>b, <1>c DEF Fingerprint, NeverPoisoned, Settled
  <2>9. CASE BeginRemoval(p)
    BY <2>9, <1>5, <1>1, <1>0, <1>a, <1>b, <1>c DEF BeginRemoval
  <2>10. CASE RemoveContents(p)
    <3>0. blob # "absent" /\ tree[wants[p]] \in {"damaged", "emptied"}
      BY <2>10, <1>5 DEF RemoveContents, Clear, BlobLabels
    <3>1. CASE /\ Goto(p, "remove directory")
               /\ tree' = [tree EXCEPT ![wants[p]] = IF @ = "damaged" THEN "emptied" ELSE @]
      <4>1. pc'[p] = "remove directory" /\ tree'[wants[p]] = "emptied" /\ blob' = blob
        BY <3>0, <3>1, <2>10, <1>a, <1>b DEF RemoveContents
      <4> QED
        BY <3>0, <4>1, <1>b DEF Clear
    <3>2. CASE Contested(p) /\ Fail(p, "interference") /\ UNCHANGED tree
      <4>1. PICK q \in Processes \ {p} :
              wants[q] = wants[p] /\ pc[q] \in {"remove contents", "remove directory"}
        BY <3>2 DEF Contested
      <4>2. pc'[q] = pc[q] /\ wants'[q] = wants[q] /\ blob' = blob /\ tree' = tree
        BY <4>1, <3>2, <2>10, <1>a DEF RemoveContents, request
      <4>3. pc[q] = "remove directory" => tree[wants[q]] \in {"emptied", "absent"}
        BY <1>0, <1>1 DEF RemovalsLast
      <4> QED
        BY <3>0, <4>1, <4>2, <4>3 DEF Clear
    <3> QED
      BY <3>1, <3>2, <2>10 DEF RemoveContents
  <2>11. CASE RemoveDirectory(p)
    <3>1. tree[wants[p]] = "emptied" /\ blob # "absent"
      BY <2>11, <1>5 DEF RemoveDirectory
    <3>2. pc'[p] = "extract" /\ tree'[wants[p]] = "absent" /\ blob' = blob
      BY <2>11, <3>1, <1>a, <1>b DEF RemoveDirectory
    <3> QED
      BY <3>1, <3>2, <1>b
  <2>12. CASE Extract(p)
    BY <2>12, <1>5, <1>1, <1>0, <1>a, <1>b, <1>c DEF Extract
  <2>13. CASE PublishTree(p)
    BY <2>13, <1>5, <1>1, <1>0, <1>a, <1>b, <1>c DEF PublishTree, Settled
  <2> QED
    BY <1>s, <2>1, <2>2, <2>3, <2>4, <2>5, <2>6, <2>7, <2>8, <2>9, <2>10, <2>11, <2>12, <2>13
       DEF Step
<1> HIDE DEF At, Goto, Fail
<1> QED
  BY <1>2, <1>3, <1>4, <1>5

LEMMA NextHope == Hope /\ [Next]_vars => Hope'
<1>s. SUFFICES ASSUME Hope, [Next]_vars PROVE Hope'
  OBVIOUS
<1>0. TypeOK /\ Sound' /\ Called /\ RemovalsLast
  BY <1>s, NextSound DEF Hope, Sound
<1>b. calls \in [Processes -> Nat] /\ crashes \in Nat /\ damages \in Nat
  BY <1>0 DEF TypeOK
<1>1. ASSUME NEW p \in Processes, NEW t \in Trees, NEW o \in BOOLEAN, Call(p, t, o)
      PROVE  Hope'
  <2>0. pc[p] \in Resting /\ pc'[p] = "find blob" /\ \A q \in Processes \ {p} : pc'[q] = pc[q]
    BY <1>1, <1>0, Going DEF Call
  <2>1. calls'[p] = calls[p] + 1 /\ \A q \in Processes \ {p} : calls'[q] = calls[q]
    BY <1>1, <1>b DEF Call
  <2>2. \A q \in Processes \ {p} : wants'[q] = wants[q]
    BY <1>1, <1>0 DEF Call, TypeOK
  <2>3. UNCHANGED <<blob, tree, why, crashes, damages>>
    BY <1>1 DEF Call, Goto, bounds
  <2>4. \A q \in Processes : Settled(q) => Settled(q)'
    <3>1. \A q \in Processes \ {p} : Settled(q) => Settled(q)'
      BY <2>0, <2>1, <2>3 DEF Settled
    <3>2. Settled(p) => calls[p] \in Nat /\ calls[p] # 0
      BY <1>b DEF Settled
    <3>3. Settled(p) => calls'[p] > 1
      BY <2>1, <3>2
    <3> QED
      BY <3>1, <3>3 DEF Settled
  <2>5. Called'
    <3>1. calls[p] \in Nat
      BY <1>b
    <3>2. calls'[p] # 0
      BY <2>1, <3>1
    <3> QED
      BY <2>0, <2>1, <3>2, <1>0 DEF Called
  <2>6. RemovalsLast'
    BY <2>0, <2>2, <2>3, <2>4, <1>0 DEF RemovalsLast, Undisturbed
  <2>7. Clear(p)'
    BY <2>0 DEF Clear
  <2> QED
    BY <1>0, <2>5, <2>6, <2>7 DEF Hope, SomebodyIsClear
<1>2. ASSUME NEW p \in Processes, Step(p) PROVE Hope'
  BY <1>2, <1>s, <1>0, StepHope
<1>3. ASSUME NEW p \in Processes, Finish(p) PROVE Hope'
  <2>1. pc[p] = "done" /\ pc'[p] = "idle" /\ crashes' = crashes
    BY <1>3, <1>0 DEF Finish, Goto, At, bounds, TypeOK
  <2>2. Settled(p)
    BY <2>1, <1>0, CalledOnce DEF Settled
  <2> QED
    BY <1>3, <1>s, <1>0, <2>1, <2>2, HopeFrom
<1>4. ASSUME NEW p \in Processes, Crash(p) PROVE Hope'
  <2>1. pc'[p] = "idle" /\ (\A q \in Processes \ {p} : pc'[q] = pc[q]) /\ calls' = calls
    BY <1>4, <1>0, Frame DEF Crash, TypeOK
  <2>2. ~Undisturbed'
    BY <1>4, <1>b DEF Crash, Undisturbed
  <2> QED
    BY <1>0, <2>1, <2>2 DEF Hope, Called, RemovalsLast, SomebodyIsClear
<1>5. CASE Damage
  <2>1. ~Undisturbed' /\ calls' = calls /\ pc' = pc
    BY <1>5, <1>b DEF Damage, Undisturbed, request
  <2> QED
    BY <1>0, <2>1 DEF Hope, Called, RemovalsLast, SomebodyIsClear
<1>6. CASE UNCHANGED vars
  BY <1>6, <1>s, <1>0
     DEF vars, Hope, Called, RemovalsLast, SomebodyIsClear, Undisturbed, Settled, Clear
<1> QED
  BY <1>s, <1>1, <1>2, <1>3, <1>4, <1>5, <1>6 DEF Next

-----------------------------------------------------------------------------
(* Every state of every behaviour is sound, and the steps of lone and of   *)
(* concurrent calls rest on what the two invariants above say.             *)
THEOREM AlwaysSound == Spec => []Sound
BY InitSound, NextSound, PTL DEF Spec

(* NeverPoisoned: no tree that passes the fingerprint is made from a blob  *)
(* that fails its pinned hash, though acquire_artifact validates the blob  *)
(* long before it extracts it.                                             *)
THEOREM NoPoison == Spec => []NeverPoisoned
<1>1. Sound => NeverPoisoned
  BY DEF Sound
<1> QED
  BY AlwaysSound, <1>1, PTL

(* ReturnedIsWhole: a call that nothing ran beside returns a whole tree,   *)
(* whatever crashes and damages came before it.                            *)
THEOREM LoneCallsReturnWhole == Spec => []ReturnedIsWhole
<1>1. Lone => ReturnedIsWhole
  BY DEF Lone, LoneStepsHold, AsLeft, ReturnedIsWhole
<1> QED
  BY InitLone, NextLone, <1>1, PTL DEF Spec

(* LoneCallsRecover: such a call fails only for want of a valid blob.      *)
THEOREM LoneCallsFailFairly == Spec => []LoneCallsRecover
<1>1. Lone => LoneCallsRecover
  BY DEF Lone, LoneStepsHold, AsLeft, LoneCallsRecover
<1> QED
  BY InitLone, NextLone, <1>1, PTL DEF Spec

(* NotAllFail: however many processes start together, they do not all fail *)
(* of each other's interference when nothing dies and the cache is left    *)
(* alone.                                                                  *)
THEOREM SomebodySucceeds == Spec => []NotAllFail
<1>1. Hope => NotAllFail
  <2> SUFFICES ASSUME SomebodyIsClear, Undisturbed,
                      \A p \in Processes : calls[p] = 1 /\ pc[p] = "failed" /\ why[p] = "interference"
               PROVE  FALSE
    BY DEF Hope, NotAllFail, Undisturbed
  <2>1. ASSUME NEW p \in Processes PROVE ~Settled(p) /\ ~Clear(p)
    <3>1. calls[p] = 1 /\ pc[p] = "failed" /\ why[p] = "interference"
      OBVIOUS
    <3> QED
      BY ONLY <3>1 DEF Settled, Clear, BlobLabels
  <2>2. ~ \A p \in Processes : calls[p] = 0
    BY CacheConstants
  <2> QED
    BY <2>1, <2>2 DEF SomebodyIsClear
<1> QED
  BY InitHope, NextHope, <1>1, PTL DEF Spec
=============================================================================
