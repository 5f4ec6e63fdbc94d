--------------------------- MODULE ArtifactCache ----------------------------
(***************************************************************************)
(* The benchmark cache: processes that call benchmark.acquire_artifact on  *)
(* one cache directory.  The artifacts share a downloaded blob and differ  *)
(* in how it is materialized, so each has a source tree of its own.  There *)
(* is no lock; os.replace publishes a blob or a tree in one step.  A step  *)
(* here is one file-system operation, or a run of reads of one object.     *)
(*                                                                         *)
(* A tree is "whole" (its content matches the fingerprint in its marker),  *)
(* "damaged" (it does not, or has no marker), "emptied" (a directory that  *)
(* shutil.rmtree has not removed yet), "absent", or "poisoned": it matches *)
(* its marker but was made from a bad blob.  Hidden temporaries have names *)
(* of their own and are not represented; a crash leaks them.               *)
(***************************************************************************)
EXTENDS Naturals

CONSTANTS
  Processes,
  Trees,       \* materialization directories
  MaxCalls,    \* bound on the calls of one process
  MaxCrashes,  \* bound on the crashes of all
  MaxDamages   \* bound on the damages by others

ASSUME CacheConstants ==
  /\ Processes # {}
  /\ MaxCalls \in Nat /\ MaxCrashes \in Nat /\ MaxDamages \in Nat

VARIABLES
  blob,     \* "absent", "good", "bad"
  tree,     \* Trees -> see above
  pc,       \* where a process is in acquire_artifact
  wants,    \* the tree a process asks for
  offline,  \* whether its call has --offline
  temp,     \* quality of the blob a process made its temporary tree from
  why,      \* why the last call failed
  alone,    \* history: no other process was active since the call began
  calls, crashes, damages

vars == <<blob, tree, pc, wants, offline, temp, why, alone, calls, crashes, damages>>
bounds == <<crashes, damages>>
request == <<wants, offline, alone, calls>>

Resting == {"idle", "done", "failed"}

Active == {p \in Processes : pc[p] \notin {"idle", "failed"}}

Init ==
  /\ blob \in {"absent", "good", "bad"}
  /\ tree \in [Trees -> {"absent", "whole", "damaged"}]
  /\ wants = [p \in Processes |-> CHOOSE t \in Trees : TRUE]
  /\ offline = [p \in Processes |-> FALSE]
  /\ pc = [p \in Processes |-> "idle"] /\ temp = [p \in Processes |-> "absent"]
  /\ why = [p \in Processes |-> "none"] /\ alone = [p \in Processes |-> TRUE]
  /\ calls = [p \in Processes |-> 0] /\ crashes = 0 /\ damages = 0

Goto(p, label) == pc' = [pc EXCEPT ![p] = label] /\ UNCHANGED why

Fail(p, reason) ==
  /\ pc' = [pc EXCEPT ![p] = "failed"] /\ why' = [why EXCEPT ![p] = reason]

At(p, label) == pc[p] = label /\ UNCHANGED <<request, bounds>>

-----------------------------------------------------------------------------
(* A call of acquire_artifact for the tree t, perhaps with --offline.      *)
Call(p, t, o) ==
  /\ pc[p] \in Resting /\ calls[p] < MaxCalls
  /\ calls' = [calls EXCEPT ![p] = @ + 1]
  /\ alone' = [q \in Processes |-> IF q = p THEN Active \subseteq {p}
                                   ELSE alone[q] /\ q \notin Active]
  /\ wants' = [wants EXCEPT ![p] = t] /\ offline' = [offline EXCEPT ![p] = o]
  /\ Goto(p, "find blob") /\ UNCHANGED <<blob, tree, temp, bounds>>

(* Layer one: the blob.                                                    *)
FindBlob(p) ==
  /\ At(p, "find blob")
  /\ Goto(p, IF blob = "absent" THEN "need blob" ELSE "validate")
  /\ UNCHANGED <<blob, tree, temp>>

ValidateNothing(p) ==   \* faulty variant: a blob that exists is used
  At(p, "validate") /\ UNCHANGED <<blob, tree, temp>> /\ Goto(p, "read marker")

Validate(p) ==
  /\ At(p, "validate") /\ UNCHANGED <<blob, tree, temp>>
  /\ CASE blob = "absent"               -> Fail(p, "interference")
       [] blob = "good"                 -> Goto(p, "read marker")
       [] blob = "bad" /\ offline[p]    -> Fail(p, "uncached")
       [] OTHER                         -> Goto(p, "unlink")

UnlinkBlob(p) ==
  /\ At(p, "unlink") /\ blob' = "absent" /\ UNCHANGED <<tree, temp>>
  /\ IF blob = "absent" THEN Fail(p, "interference") ELSE Goto(p, "need blob")

(* A blob that has appeared since is used without another validation.      *)
NeedBlob(p) ==
  /\ At(p, "need blob") /\ UNCHANGED <<blob, tree, temp>>
  /\ CASE blob # "absent"                -> Goto(p, "read marker")
       [] blob = "absent" /\ offline[p]   -> Fail(p, "uncached")
       [] OTHER                           -> Goto(p, "download")

(* The download goes to a temporary file and is validated there.  The      *)
(* faulty variant tries again for ever.                                    *)
DownloadRetrying(p) ==
  /\ At(p, "download") /\ UNCHANGED <<blob, tree, temp>>
  /\ Goto(p, "publish blob") \/ Goto(p, "need blob")

Download(p) ==
  /\ At(p, "download") /\ UNCHANGED <<blob, tree, temp>>
  /\ Goto(p, "publish blob") \/ Fail(p, "network")

PublishBlob(p) ==
  /\ At(p, "publish blob") /\ blob' = "good"
  /\ Goto(p, "read marker") /\ UNCHANGED <<tree, temp>>

-----------------------------------------------------------------------------
(* Layer two: the tree.  A damaged one may have kept its marker.           *)
ReadMarker(p) ==
  /\ At(p, "read marker") /\ UNCHANGED <<blob, tree, temp>>
  /\ \/ tree[wants[p]] \in {"whole", "poisoned", "damaged"} /\ Goto(p, "fingerprint")
     \/ tree[wants[p]] \in {"damaged", "emptied", "absent"} /\ Goto(p, "remove")

FingerprintNothing(p) ==   \* faulty variant: trusts the marker
  At(p, "fingerprint") /\ UNCHANGED <<blob, tree, temp>> /\ Goto(p, "done")

Fingerprint(p) ==
  /\ At(p, "fingerprint") /\ UNCHANGED <<blob, tree, temp>>
  /\ Goto(p, IF tree[wants[p]] \in {"whole", "poisoned"} THEN "done" ELSE "remove")

(* _remove_materialization: os.path.lexists and the first file that goes,  *)
(* the rest of the contents, the directory.  A second rmtree of the tree   *)
(* may fail on a file the first has removed.                               *)
BeginNoRemoval(p) ==   \* faulty variant: extracts over what is there
  At(p, "remove") /\ UNCHANGED <<blob, tree, temp>> /\ Goto(p, "extract")

BeginRemoval(p) ==
  /\ At(p, "remove") /\ UNCHANGED <<blob, temp>>
  /\ IF tree[wants[p]] = "absent"
     THEN Goto(p, "extract") /\ UNCHANGED tree
     ELSE /\ Goto(p, "remove contents")
          /\ tree' = [tree EXCEPT ![wants[p]] = IF @ = "emptied" THEN @ ELSE "damaged"]

Contested(p) ==
  \E q \in Processes \ {p} :
    wants[q] = wants[p] /\ pc[q] \in {"remove contents", "remove directory"}

RemoveContents(p) ==
  /\ At(p, "remove contents") /\ UNCHANGED <<blob, temp>>
  /\ \/ /\ Goto(p, "remove directory")
        /\ tree' = [tree EXCEPT ![wants[p]] = IF @ = "damaged" THEN "emptied" ELSE @]
     \/ Contested(p) /\ Fail(p, "interference") /\ UNCHANGED tree

RemoveDirectory(p) ==
  /\ At(p, "remove directory") /\ UNCHANGED <<blob, temp>>
  /\ IF tree[wants[p]] = "emptied"
     THEN Goto(p, "extract") /\ tree' = [tree EXCEPT ![wants[p]] = "absent"]
     ELSE Fail(p, "interference") /\ UNCHANGED tree

Extract(p) ==
  /\ At(p, "extract") /\ UNCHANGED <<blob, tree>>
  /\ temp' = [temp EXCEPT ![p] = blob]
  /\ IF blob = "absent" THEN Fail(p, "interference") ELSE Goto(p, "publish tree")

(* os.replace of a directory succeeds on an absent or an empty target.     *)
PublishTree(p) ==
  /\ At(p, "publish tree") /\ UNCHANGED blob
  /\ temp' = [temp EXCEPT ![p] = "absent"]
  /\ IF tree[wants[p]] \in {"absent", "emptied"}
     THEN /\ Goto(p, "done")
          /\ tree' = [tree EXCEPT ![wants[p]] = IF temp[p] = "good" THEN "whole" ELSE "poisoned"]
     ELSE Fail(p, "interference") /\ UNCHANGED tree

-----------------------------------------------------------------------------
(* A process dies; what it has published or half removed stays.            *)
Crash(p) ==
  /\ pc[p] \notin Resting /\ crashes < MaxCrashes
  /\ crashes' = crashes + 1
  /\ pc' = [pc EXCEPT ![p] = "idle"] /\ temp' = [temp EXCEPT ![p] = "absent"]
  /\ UNCHANGED <<blob, tree, why, request, damages>>

(* Somebody edits or deletes cached files between uses.                    *)
Damage ==
  /\ \A p \in Processes : pc[p] \in {"idle", "failed"}
  /\ damages < MaxDamages /\ damages' = damages + 1
  /\ \/ blob' \in {"absent", "bad"} /\ UNCHANGED tree
     \/ \E t \in Trees : \E x \in {"absent", "damaged"} :
          tree' = [tree EXCEPT ![t] = x] /\ UNCHANGED blob
  /\ UNCHANGED <<pc, temp, why, request, crashes>>

(* The caller has read its inputs from the tree.                           *)
Finish(p) ==
  /\ At(p, "done") /\ Goto(p, "idle") /\ UNCHANGED <<blob, tree, temp>>

Step(p) ==
  \/ FindBlob(p) \/ Validate(p) \/ UnlinkBlob(p) \/ NeedBlob(p)
  \/ Download(p) \/ PublishBlob(p)
  \/ ReadMarker(p) \/ Fingerprint(p)
  \/ BeginRemoval(p) \/ RemoveContents(p) \/ RemoveDirectory(p)
  \/ Extract(p) \/ PublishTree(p)

Next ==
  \/ \E p \in Processes : \/ \E t \in Trees, o \in BOOLEAN : Call(p, t, o)
                          \/ Step(p) \/ Finish(p) \/ Crash(p)
  \/ Damage

(* The operating system runs every process that has not died.              *)
Spec == Init /\ [][Next]_vars /\ \A p \in Processes : WF_vars(Step(p))

-----------------------------------------------------------------------------
(* No tree that passes the fingerprint was made from bytes that fail the   *)
(* pinned SHA-256, although the blob is validated long before it is read,  *)
(* and not at all when another process has just put it there.              *)
NeverPoisoned == \A t \in Trees : tree[t] # "poisoned"

(* benchmarks/README.md:70-82: what a call that nothing ran beside returns *)
(* is complete while its caller reads it, whatever earlier crashes and     *)
(* damages have left behind.                                               *)
ReturnedIsWhole ==
  \A p \in Processes : pc[p] = "done" /\ alone[p] => tree[wants[p]] = "whole"

(* benchmarks/README.md:74-77: such a call fails only for want of a valid  *)
(* blob: the network refuses it, or the call is offline.  In particular an *)
(* offline call rebuilds any tree, also one half removed by a crash.       *)
LoneCallsRecover ==
  \A p \in Processes : pc[p] = "failed" /\ alone[p] =>
    \/ why[p] = "network" /\ ~offline[p]
    \/ why[p] = "uncached" /\ offline[p]

(* Concurrent callers can make each other fail, but they never all fail:   *)
(* whatever is in the cache at first, when the network works and nothing   *)
(* dies, somebody gets what it asked for.                                  *)
NotAllFail ==
  ~ /\ crashes = 0 /\ damages = 0
    /\ \A p \in Processes : calls[p] = 1 /\ pc[p] = "failed" /\ why[p] = "interference"

(* Every call ends, however the others interfere.                          *)
CallsEnd == \A p \in Processes : [](pc[p] \notin Resting => <>(pc[p] \in Resting))
=============================================================================
