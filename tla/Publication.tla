----------------------------- MODULE Publication -----------------------------
(***************************************************************************)
(* cli._write: reports, baselines, schemas and benchmark results are       *)
(* staged in a new file beside the output and then renamed over it.  Some  *)
(* processes do this at the same time, in one directory; a system call is  *)
(* an action.  Calls may fail, processes may die, and other programs may   *)
(* change the directory.                                                   *)
(*                                                                         *)
(* A directory entry is nothing, a directory, a file or a symbolic link,   *)
(* which is the path it names.  A file may have several entries.  A chain  *)
(* of links is taken as one link, a link to itself is a loop.              *)
(***************************************************************************)
EXTENDS Naturals, FiniteSets

CONSTANTS
  Writers,
  Paths, Temps,    \* entries: what outputs may name, and the hidden names for staging
  Files,
  Values,          \* what is published
  Modes, Writable, \* permissions of a file, those that let it be written
  NewMode,         \* the permissions that the umask leaves a new file
  None, Directory, \* entries that are no file
  Torn,            \* the content of a file that is being written
  NoMode,
  Disks,           \* what the directory may be at first, see Disk
  MaxCalls, MaxMeddles  \* bounds on calls and on changes by other programs

(* Nothing is staged, and no link leads to another link.                   *)
Disk(d) ==
  /\ d.dir \in [Paths \cup Temps -> Files \cup Paths \cup {None, Directory}]
  /\ d.file \in [Files -> [content : Values, mode : Modes]]
  /\ \A t \in Temps : d.dir[t] = None
  /\ \A p \in Paths : d.dir[p] \in Paths => d.dir[p] = p \/ d.dir[d.dir[p]] \notin Paths

ASSUME PublicationConstants ==
  /\ Writable \subseteq Modes /\ NewMode \in Writable /\ NoMode \notin Modes
  /\ Paths \cap Temps = {} /\ Paths \cap Files = {}
  /\ {None, Directory} \cap (Files \cup Paths) = {} /\ None # Directory
  /\ {Torn, None} \cap Values = {} /\ Torn # None
  /\ None \notin Paths \cup Temps \cup [path : Paths, value : Values]
  /\ \A d \in Disks : Disk(d)
  /\ MaxCalls \in Nat /\ MaxMeddles \in Nat

VARIABLES
  dir,      \* entry -> what it is
  file,     \* file -> its content and mode
  pc,       \* writer -> the next system call of its _write
  call,     \* writer -> the path and value given to _write
  target,   \* writer -> what the path was resolved to
  mode,     \* writer -> existing_mode
  temp,     \* writer -> its staging entry
  abandoned, \* history: staging entries that a death or a failed cleanup left
  calls, meddled

vars == <<dir, file, pc, call, target, mode, temp, abandoned, calls, meddled>>
disk == <<dir, file>>
bounds == <<abandoned, calls, meddled>>

NoCall == None

(* Where a path leads.  In a loop that is a link again.                    *)
Resolved(p) == IF dir[p] \in Paths THEN dir[p] ELSE p
Loops(p) == dir[Resolved(p)] \in Paths

(* The files that have no entry.                                           *)
Free == Files \ {dir[e] : e \in Paths \cup Temps}

Init ==
  /\ \E d \in Disks : dir = d.dir /\ file = d.file
  /\ pc = [w \in Writers |-> "idle"] /\ call = [w \in Writers |-> NoCall]
  /\ target = [w \in Writers |-> None] /\ mode = [w \in Writers |-> NoMode]
  /\ temp = [w \in Writers |-> None]
  /\ abandoned = {} /\ calls = 0 /\ meddled = 0

-----------------------------------------------------------------------------
Goto(w, label) == pc' = [pc EXCEPT ![w] = label]

(* _write returns or raises.                                               *)
End(w) ==
  /\ Goto(w, "idle") /\ call' = [call EXCEPT ![w] = NoCall]
  /\ target' = [target EXCEPT ![w] = None] /\ mode' = [mode EXCEPT ![w] = NoMode]
  /\ temp' = [temp EXCEPT ![w] = None]

Begin(w, p, v) ==
  /\ pc[w] = "idle" /\ calls < MaxCalls /\ calls' = calls + 1
  /\ Goto(w, "resolve") /\ call' = [call EXCEPT ![w] = [path |-> p, value |-> v]]
  /\ UNCHANGED <<disk, target, mode, temp, abandoned, meddled>>

Resolve(w) ==
  /\ pc[w] = "resolve" /\ UNCHANGED <<disk, bounds>>
  /\ IF Loops(call[w].path) THEN End(w)
     ELSE /\ target' = [target EXCEPT ![w] = Resolved(call[w].path)]
          /\ Goto(w, "stat") /\ UNCHANGED <<call, mode, temp>>

(* target.stat follows a link that has appeared since.                     *)
Stat(w) ==
  /\ pc[w] = "stat" /\ UNCHANGED <<disk, bounds>>
  /\ LET found == dir[Resolved(target[w])]
     IN  CASE found = None   -> Goto(w, "reserve") /\ UNCHANGED <<call, target, mode, temp>>
           [] found \in Files -> Goto(w, "probe") /\ UNCHANGED <<call, target, mode, temp>>
           [] OTHER           -> End(w)

(* Open for writing, not following links, and take the mode.               *)
Probe(w) ==
  /\ pc[w] = "probe" /\ UNCHANGED <<disk, bounds>>
  /\ IF dir[target[w]] \in Files /\ file[dir[target[w]]].mode \in Writable
     THEN /\ mode' = [mode EXCEPT ![w] = file[dir[target[w]]].mode]
          /\ Goto(w, "reserve") /\ UNCHANGED <<call, target, temp>>
     ELSE End(w)

ReserveAny(w) ==   \* faulty variant: opens the staging file with "w", not "x"
  /\ pc[w] = "reserve" /\ UNCHANGED bounds
  /\ \E t \in Temps : \E f \in IF dir[t] \in Files THEN {dir[t]} ELSE Free :
       /\ dir' = [dir EXCEPT ![t] = f]
       /\ file' = [file EXCEPT ![f] = [content |-> Torn, mode |-> NewMode]]
       /\ temp' = [temp EXCEPT ![w] = t]
       /\ Goto(w, "write") /\ UNCHANGED <<call, target, mode>>

(* A name is drawn until it is a new one; all draws or the open may fail.  *)
Reserve(w) ==
  /\ pc[w] = "reserve" /\ UNCHANGED bounds
  /\ \/ \E t \in Temps, f \in Free :
          /\ dir[t] = None
          /\ dir' = [dir EXCEPT ![t] = f]
          /\ file' = [file EXCEPT ![f] = [content |-> Torn, mode |-> NewMode]]
          /\ temp' = [temp EXCEPT ![w] = t]
          /\ Goto(w, "write") /\ UNCHANGED <<call, target, mode>>
     \/ End(w) /\ UNCHANGED disk

Staged(w) == dir[temp[w]]

Write(w) ==
  /\ pc[w] = "write" /\ UNCHANGED <<dir, call, target, mode, temp, bounds>>
  /\ file' = [file EXCEPT ![Staged(w)].content = call[w].value] /\ Goto(w, "chmod")

ChmodNew(w) ==   \* faulty variant: leaves the mode of a new file
  /\ pc[w] = "chmod" /\ Goto(w, "replace")
  /\ UNCHANGED <<disk, call, target, mode, temp, bounds>>

Chmod(w) ==
  /\ pc[w] = "chmod" /\ Goto(w, "replace") /\ UNCHANGED <<dir, call, target, mode, temp, bounds>>
  /\ file' = IF mode[w] = NoMode THEN file
             ELSE [file EXCEPT ![Staged(w)].mode = mode[w]]

(* os.replace: the entry is the new file from now on, whatever it was.     *)
Replace(w) ==
  /\ pc[w] = "replace" /\ dir[target[w]] # Directory
  /\ dir' = [dir EXCEPT ![target[w]] = Staged(w), ![temp[w]] = None]
  /\ End(w) /\ UNCHANGED <<file, bounds>>

(* A write, flush, chmod, close or replacement fails.                      *)
FailKeeping(w) ==   \* faulty variant: no cleanup
  /\ pc[w] \in {"write", "chmod", "replace"} /\ End(w) /\ UNCHANGED <<disk, bounds>>

Fail(w) ==
  /\ pc[w] \in {"write", "chmod", "replace"} /\ Goto(w, "cleanup")
  /\ UNCHANGED <<disk, call, target, mode, temp, bounds>>

(* temporary.unlink, on the way out; if that fails too the file stays.     *)
Cleanup(w) ==
  /\ pc[w] = "cleanup" /\ End(w) /\ UNCHANGED <<file, calls, meddled>>
  /\ \/ dir' = [dir EXCEPT ![temp[w]] = None] /\ UNCHANGED abandoned
     \/ abandoned' = abandoned \cup {temp[w]} /\ UNCHANGED dir

Die(w) ==
  /\ pc[w] # "idle" /\ End(w) /\ UNCHANGED <<disk, calls, meddled>>
  /\ abandoned' = abandoned \cup ({temp[w]} \ {None})

-----------------------------------------------------------------------------
(* Other programs: they remove, make directories, files, hard links and    *)
(* symbolic links, and change modes.  They leave the hidden names alone.   *)
Elsewhere == UNCHANGED <<pc, call, target, mode, temp, abandoned, calls>>

Meddle ==
  /\ meddled < MaxMeddles /\ meddled' = meddled + 1 /\ Elsewhere
  /\ \/ \E p \in Paths, e \in {None, Directory} \cup {dir[q] : q \in Paths} \cup Paths :
          /\ e \in Paths => e = p \/ /\ dir[e] \notin Paths
                                     /\ \A q \in Paths \ {p} : dir[q] # p
          /\ dir' = [dir EXCEPT ![p] = e] /\ UNCHANGED file
     \/ \E p \in Paths, f \in Free, v \in Values, m \in Modes :
          /\ dir' = [dir EXCEPT ![p] = f]
          /\ file' = [file EXCEPT ![f] = [content |-> v, mode |-> m]]
     \/ \E p \in Paths, m \in Modes :
          /\ dir[p] \in Files /\ file' = [file EXCEPT ![dir[p]].mode = m] /\ UNCHANGED dir

Step(w) ==
  \/ \E p \in Paths, v \in Values : Begin(w, p, v)
  \/ Resolve(w) \/ Stat(w) \/ Probe(w) \/ Reserve(w) \/ Write(w) \/ Chmod(w) \/ Replace(w)
  \/ Fail(w) \/ Cleanup(w) \/ Die(w)

Next == Meddle \/ \E w \in Writers : Step(w)

Spec == Init /\ [][Next]_vars

-----------------------------------------------------------------------------
(* What a reader of a path sees.                                           *)
Seen(p) ==
  LET e == dir[Resolved(p)] IN IF e \in Files THEN file[e].content ELSE None

Atomic == INSTANCE AtomicFiles WITH
  Nothing <- None,
  content <- [p \in Paths |-> Seen(p)],
  leads   <- [p \in Paths |-> Resolved(p)],
  wanted  <- call

(* docs/security-model.md:62-75: a published path holds what was there     *)
(* before or the whole new value, for all paths that lead to it and no     *)
(* other, whatever fails, dies or runs at the same time; a name that       *)
(* shares a file with the output keeps it.  (_write)                       *)
PublicationIsAtomic == Atomic!Spec

(* docs/security-model.md:66-69: publishing neither changes the mode of an *)
(* existing output nor replaces one that may not be written, also when two *)
(* processes publish to it or it appears meanwhile, as long as no other    *)
(* program interferes.  (_write's probe and fchmod)                        *)
ModesKept ==
  [][\A p \in Paths : meddled' = 0 /\ dir[p] \in Files /\ dir'[p] # dir[p] =>
       /\ dir'[p] \in Files /\ file'[dir'[p]].mode = file[dir[p]].mode
       /\ file[dir[p]].mode \in Writable]_vars

(* docs/security-model.md:74-77: a staging file is somebody's, and nobody  *)
(* else's, unless a process died or could not remove it.  So nothing       *)
(* hidden piles up in output directories, and no writer publishes the      *)
(* staging file of another.  (_write's exclusive creation and cleanup)     *)
StagingIsOwned ==
  /\ \A t \in Temps : dir[t] # None /\ t \notin abandoned => \E w \in Writers : temp[w] = t
  /\ \A w \in Writers : temp[w] # None =>
       /\ dir[temp[w]] \in Files /\ temp[w] \notin abandoned
       /\ \A u \in Writers \ {w} : temp[u] # temp[w]
       /\ \A p \in Paths : dir[p] # dir[temp[w]]
=============================================================================
