-------------------------- MODULE AdoptionControls --------------------------
(***************************************************************************)
(* Diagnostic baselines and waivers over a history of `openconstraint      *)
(* audit' invocations: adoption.py, and in cli.py the order in which       *)
(* _audit_command loads controls, audits, writes a baseline or applies     *)
(* controls, reports and chooses an exit code.  Between invocations the    *)
(* audited sources change, days pass, and waivers are approved.            *)
(*                                                                         *)
(* `note' is a diagnostic's line and message; columns are always 1.  The   *)
(* SHA-256 prefix in a fingerprint is taken to be injective, so that a     *)
(* fingerprint is the record that is hashed.  A path is a sequence of      *)
(* characters, because what a baseline keeps of it is cut at one.  Of the  *)
(* loader's checks only those are left out that nothing this program       *)
(* writes can fail (JSON syntax, field names, versions, formats), and the  *)
(* limits on the size of waiver files.                                     *)
(***************************************************************************)
EXTENDS Integers, Sequences, FiniteSets, SequencesExt

CONSTANTS
  Workspaces,   \* what may be audited, see Workspace
  Ids,          \* waiver ids
  PathLimit,    \* characters of a portable path
  SuffixParts,  \* components of a portable path
  FieldLimit,   \* characters of a path in a control file
  Refused,      \* texts that are blank, padded or too long for their field
  MaxEntries,   \* entries of a baseline file
  Oversize,     \* baselines that render to more than MAX_CONTROL_BYTES
  MaxDay,       \* bound on the days; a waiver for MaxDay + 1 has no expiry
  MaxRuns,      \* bound on the invocations
  MaxEdits,     \* bound on the changes between them
  Invocations   \* the arguments to try, see Arguments

Severities == {"note", "warning", "error"}

(* A path is not empty, and one in angle brackets is no file.  A top that  *)
(* is called "none" would look like no baseline file, see NoFile.          *)
Diagnostic ==
  [rule : STRING, note : STRING, mode : STRING, path : Seq(STRING) \ {<<>>},
   severity : Severities]

Workspace ==
  [findings : Seq(Diagnostic), top : STRING \ {"none"}, low : BOOLEAN,
   modes : SUBSET STRING]

Arguments ==
  {a \in [waivers : BOOLEAN, baseline : BOOLEAN, write : BOOLEAN, strict : BOOLEAN,
          failOn : {"never", "warning", "error"}, gate : BOOLEAN] :
     ~(a.baseline /\ a.write)}

ASSUME ControlConstants ==
  /\ Workspaces \subseteq Workspace
  /\ PathLimit \in Nat \ {0} /\ SuffixParts \in Nat \ {0}
  /\ FieldLimit \in Nat /\ PathLimit <= FieldLimit
  /\ Refused \subseteq STRING /\ MaxEntries \in Nat
  /\ MaxDay \in Nat /\ MaxRuns \in Nat /\ MaxEdits \in Nat
  /\ Invocations \subseteq Arguments

NoFile == [top |-> "none", entries |-> {}]

VARIABLES
  workspace,  \* the sources, as the raw result an audit of them has
  today,
  waivers,    \* the waiver files
  file,       \* the baseline file
  snapshot,   \* history: the workspace the baseline file was made from
  staged,     \* whether `_write' has a complete temporary file
  args,       \* arguments of the invocation
  pc,         \* where the invocation is
  controls,   \* what it has loaded
  result,     \* its result, raw and then after adoption controls
  report,     \* the active diagnostics of the last report written
  exit,       \* its end: "pass", "fail" (exit code 1), or an input error
  runs, edits

vars == <<workspace, today, waivers, file, snapshot, staged, args, pc, controls,
          result, report, exit, runs, edits>>
world == <<workspace, today, waivers, runs, edits>>
process == <<args, pc, controls, result, exit>>
disk == <<file, snapshot, staged>>

-----------------------------------------------------------------------------
(* The elements of s that are in P, and those at the positions D, in order *)
(* (a recursive function, because nothing can be proved of SelectSeq).     *)
Only(s, P) ==
  LET kept[i \in 0..Len(s)] ==
        IF i = 0 THEN <<>>
        ELSE IF s[i] \in P THEN Append(kept[i - 1], s[i]) ELSE kept[i - 1]
  IN  kept[Len(s)]

Pick(s, D) ==
  LET order == Only([i \in DOMAIN s |-> i], D)
  IN  [k \in DOMAIN order |-> s[order[k]]]

(* "/".join(part for part in path.split("/") if part)                      *)
Squeeze(path) ==
  Pick(path, {i \in 1..Len(path) :
    path[i] = "/" => /\ i > 1 /\ path[i-1] # "/"
                     /\ \E j \in i..Len(path) : path[j] # "/"})

Suffix(path) == SubSeq(path, IF Len(path) > PathLimit THEN Len(path) - PathLimit + 1 ELSE 1, Len(path))

Slashes(path, i) == {j \in i..Len(path) : path[j] = "/"}

LastParts(path) ==
  SubSeq(path, Min({i \in 1..(Len(path) + 1) : Cardinality(Slashes(path, i)) < SuffixParts}),
         Len(path))

Portable(path) == IF path[1] = "<" THEN path ELSE LastParts(Suffix(Squeeze(path)))

FingerprintOfWholePath(f) ==   \* faulty variant: not the path a baseline keeps
  [rule |-> f.rule, note |-> f.note, mode |-> f.mode, path |-> f.path]

Fingerprint(f) ==
  [rule |-> f.rule, note |-> f.note, mode |-> f.mode, path |-> Portable(f.path)]

(* The snapshot of a diagnostic; its fingerprint is the field `of'.        *)
IdentityUngraded(f) ==   \* faulty variant: forgets the severity
  [of |-> Fingerprint(f), severity |-> "error"]

Identity(f) == [of |-> Fingerprint(f), severity |-> f.severity]

(* The fingerprint the loader computes from an entry's fields.             *)
Recomputed(e) == [e.of EXCEPT !.path = Portable(@)]

Reviewable(path) ==
  path # <<>> /\ Len(path) <= FieldLimit /\ path[1] # " " /\ path[Len(path)] # " "

-----------------------------------------------------------------------------
BaselineOf(w) ==
  [top |-> w.top, entries |-> {Identity(w.findings[i]) : i \in DOMAIN w.findings}]

Collides(w) ==
  \E d, e \in BaselineOf(w).entries : d.of = e.of /\ d # e

(* load_waivers, but for the limits of a waiver file.                      *)
WaiversRejected ==
  \/ \E v \in waivers : v.expires < today \/ v.of.mode \in Refused
  \/ \E v, u \in waivers : v # u /\ (v.id = u.id \/ v.of = u.of)

(* load_diagnostic_baseline.  No limit here is enforced by the writer.     *)
BaselineRejected ==
  \/ file \in Oversize \/ Cardinality(file.entries) > MaxEntries
  \/ file.top \in Refused
  \/ \E e \in file.entries :
       {e.of.mode, e.of.note} \cap Refused # {} \/ ~Reviewable(e.of.path) \/ Recomputed(e) # e.of

NoArguments == [waivers |-> FALSE, baseline |-> FALSE, write |-> FALSE, strict |-> FALSE,
                failOn |-> "error", gate |-> FALSE]

NoControls == [waivers |-> {}, top |-> "none", entries |-> {}]

NoResult == [active |-> <<>>, views |-> [m \in {} |-> <<>>], waived |-> <<>>,
             baselined |-> <<>>, unused |-> {}, stale |-> {}]

-----------------------------------------------------------------------------
Init ==
  /\ workspace \in Workspaces /\ today = 0 /\ waivers = {}
  /\ file = NoFile /\ snapshot = workspace /\ staged = FALSE
  /\ args = NoArguments /\ controls = NoControls
  /\ result = NoResult /\ report = <<>>
  /\ pc = "idle" /\ exit = "none" /\ runs = 0 /\ edits = 0

(* The memory of the process is gone when it stops.                        *)
Stop(why) ==
  /\ pc' = "idle" /\ exit' = why
  /\ args' = NoArguments /\ controls' = NoControls /\ result' = NoResult

Goto(label) == pc' = label /\ exit' = "none" /\ UNCHANGED args

Start(a) ==
  /\ pc = "idle" /\ runs < MaxRuns /\ runs' = runs + 1
  /\ IF \/ a.write /\ (a.waivers \/ a.strict)
        \/ a.strict /\ ~a.waivers /\ ~a.baseline
     THEN Stop("usage")
     ELSE /\ pc' = "load" /\ exit' = "none" /\ args' = a /\ UNCHANGED <<controls, result>>
  /\ UNCHANGED <<workspace, today, waivers, edits, disk, report>>

(* load_waivers and load_diagnostic_baseline, before anything is audited.  *)
Load ==
  /\ pc = "load" /\ UNCHANGED <<world, disk, report>>
  /\ IF args.waivers /\ WaiversRejected THEN Stop("waivers rejected") ELSE
     CASE args.baseline /\ file = NoFile -> Stop("no such file")
       [] args.baseline /\ file # NoFile /\ BaselineRejected -> Stop("baseline rejected")
       [] OTHER ->
            /\ controls' = [waivers |-> IF args.waivers THEN waivers ELSE {},
                            top |-> IF args.baseline THEN file.top ELSE "none",
                            entries |-> IF args.baseline THEN file.entries ELSE {}]
            /\ Goto("audit") /\ UNCHANGED result

Reported == ToSet(workspace.findings)

Tagged(m) == Only(workspace.findings, {f \in Reported : f.mode = m})

(* engine.audit and, on request, cli._merge_opensta: the raw result.       *)
Audit ==
  /\ pc = "audit" /\ UNCHANGED <<world, disk, controls, report>>
  /\ result' = [NoResult EXCEPT !.active = workspace.findings,
                                !.views = [m \in workspace.modes |-> Tagged(m)]]
  /\ Goto(CASE args.write -> "stage"
            [] ~args.write /\ (args.waivers \/ args.baseline) -> "apply"
            [] OTHER -> "report")

Stage ==
  /\ pc = "stage" /\ UNCHANGED <<world, file, snapshot, report>>
  /\ IF Collides(workspace)
     THEN Stop("collision") /\ UNCHANGED staged
     ELSE staged' = TRUE /\ Goto("publish") /\ UNCHANGED <<controls, result>>

Publish ==
  /\ pc = "publish" /\ UNCHANGED <<world, controls, result, report>>
  /\ file' = BaselineOf(workspace) /\ snapshot' = workspace /\ staged' = FALSE
  /\ Goto("report")

(* apply_adoption_controls.  A diagnostic with a matching fingerprint must *)
(* match in everything else, or the whole invocation fails.                *)
WaiversFor(f) == {v \in controls.waivers : v.of = Fingerprint(f)}
EntriesFor(f) == {e \in controls.entries : e.of = Fingerprint(f)}

Mismatched(f) ==
  \/ \E v \in WaiversFor(f) : v.severity # f.severity
  \/ WaiversFor(f) = {} /\ \E e \in EntriesFor(f) : e # Identity(f)

Overlap == \E v \in controls.waivers, e \in controls.entries : v.of = e.of

ViewsOfWaived ==   \* faulty variant: keeps baselined diagnostics in the modes
  [m \in workspace.modes |-> Only(Tagged(m), {f \in Reported : WaiversFor(f) = {}})]

Views ==
  LET controlled == {Fingerprint(f) : f \in {g \in Reported : WaiversFor(g) \cup EntriesFor(g) # {}}}
  IN  [m \in workspace.modes |->
        Only(Tagged(m), {f \in Reported : Fingerprint(f) \notin controlled})]

Apply ==
  /\ pc = "apply" /\ UNCHANGED <<world, disk, report>>
  /\ IF \/ args.baseline /\ controls.top # workspace.top
        \/ Overlap
        \/ \E f \in Reported : Mismatched(f)
     THEN Stop("mismatch")
     ELSE /\ Goto("report") /\ UNCHANGED controls
          /\ result' =
               [active    |-> Only(workspace.findings,
                                {f \in Reported : WaiversFor(f) \cup EntriesFor(f) = {}}),
                views     |-> Views,
                waived    |-> Only(workspace.findings, {f \in Reported : WaiversFor(f) # {}}),
                baselined |-> Only(workspace.findings,
                                {f \in Reported : WaiversFor(f) = {} /\ EntriesFor(f) # {}}),
                unused    |-> controls.waivers \ UNION {WaiversFor(f) : f \in Reported},
                stale     |-> {e \in controls.entries :
                                 ~ \E f \in Reported : Fingerprint(f) = e.of}]

StrictFailure == args.strict /\ (result.unused # {} \/ result.stale # {})

Severe(severity) ==
  CASE args.failOn = "error"   -> severity = "error"
    [] args.failOn = "warning" -> severity \in {"error", "warning"}
    [] OTHER                   -> FALSE

Report ==
  /\ pc = "report" /\ UNCHANGED <<world, disk>> /\ report' = result.active
  /\ Stop(IF \/ args.gate /\ workspace.low
             \/ StrictFailure
             \/ \E i \in DOMAIN result.active : Severe(result.active[i].severity)
          THEN "fail" ELSE "pass")

(* The baseline or the report cannot be written; `_write' removes its      *)
(* temporary file.                                                         *)
WriteFails ==
  /\ pc \in {"stage", "publish", "report"} /\ Stop("cannot write") /\ staged' = FALSE
  /\ UNCHANGED <<world, file, snapshot, report>>

(* The process dies; a temporary file it leaves has a name of its own.     *)
Crash ==
  /\ pc # "idle" /\ Stop("died") /\ staged' = FALSE
  /\ UNCHANGED <<world, file, snapshot, report>>

-----------------------------------------------------------------------------
(* The sources, or the program that audits them, change.                   *)
Edit ==
  /\ pc = "idle" /\ edits < MaxEdits /\ edits' = edits + 1
  /\ workspace' \in Workspaces \ {workspace}
  /\ UNCHANGED <<today, waivers, runs, disk, process, report>>

NextDay ==
  /\ pc = "idle" /\ today < MaxDay /\ today' = today + 1
  /\ UNCHANGED <<workspace, waivers, runs, edits, disk, process, report>>

(* Somebody copies an active diagnostic of a report into a waiver file.    *)
Approve(id, last) ==
  /\ pc = "idle" /\ edits < MaxEdits /\ edits' = edits + 1
  /\ \E f \in ToSet(report) :
       waivers' = waivers \cup {[id |-> id, of |-> Fingerprint(f),
                                 severity |-> f.severity, expires |-> last]}
  /\ UNCHANGED <<workspace, today, runs, disk, process, report>>

Next ==
  \/ \E a \in Invocations : Start(a)
  \/ Load \/ Audit \/ Stage \/ Publish \/ Apply \/ Report \/ WriteFails \/ Crash
  \/ Edit \/ NextDay \/ \E id \in Ids, last \in 0..(MaxDay + 1) : Approve(id, last)

Spec == Init /\ [][Next]_vars

-----------------------------------------------------------------------------
Times(f, s) == Cardinality({i \in DOMAIN s : s[i] = f})

(* docs/adoption-controls.md:110-112, 126-129: nothing gets lost between   *)
(* the lists of apply_adoption_controls.  A report shows each diagnostic   *)
(* as often as the audit found it, a mode shows the active ones that name  *)
(* it, and whatever was loaded and controls nothing is listed as debt.     *)
NothingVanishes ==
  pc = "report" =>
    /\ \A f \in Reported :
         Times(f, workspace.findings) =
           Times(f, result.active) + Times(f, result.waived) + Times(f, result.baselined)
    /\ \A m \in workspace.modes :
         result.views[m] = Only(result.active, {f \in ToSet(result.active) : f.mode = m})
    /\ {x.of : x \in controls.waivers \cup controls.entries} =
         {Fingerprint(f) : f \in ToSet(result.waived) \cup ToSet(result.baselined)}
           \cup {x.of : x \in result.unused \cup result.stale}

(* docs/adoption-controls.md:64-65, 92-94: whatever is controlled has been *)
(* reviewed with the severity it has now, however the sources and the      *)
(* grading have changed since: in a waiver that is still valid, or in the  *)
(* audit the baseline was made from, of the same top.                      *)
ReviewedOnly ==
  pc = "report" =>
    /\ \A f \in ToSet(result.waived) : \E v \in waivers :
         v.of = Fingerprint(f) /\ v.severity = f.severity /\ v.expires >= today
    /\ \A f \in ToSet(result.baselined) : \E g \in ToSet(snapshot.findings) :
         /\ Fingerprint(g) = Fingerprint(f) /\ g.severity = f.severity
         /\ snapshot.top = workspace.top

(* What a workspace must be for its baseline to be read back: within the   *)
(* limits, with readable texts, and no path cut right before a component.  *)
Loadable(w) ==
  /\ BaselineOf(w) \notin Oversize /\ Cardinality(BaselineOf(w).entries) <= MaxEntries
  /\ w.top \notin Refused
  /\ \A f \in ToSet(w.findings) :
       LET kept == Portable(f.path)
       IN  f.mode \notin Refused /\ f.note \notin Refused /\ Reviewable(kept) /\ kept[1] # "/"

(* README.md:128-129: a baseline is of use at once.  While the sources are *)
(* what they were when it was written, an invocation that loads it does    *)
(* not fail, in strict mode neither, unless coverage is too low or its     *)
(* report cannot be written; for that the baseline must be loadable, and   *)
(* one that is not is refused, never half used.                            *)
UnchangedIsQuiet ==
  [][ /\ pc # "idle" /\ pc' = "idle" /\ file # NoFile /\ snapshot = workspace
      /\ args.baseline /\ ~args.waivers
      => IF Loadable(workspace)
         THEN exit' \in {"pass", "cannot write", "died"} \/ (args.gate /\ workspace.low)
         ELSE exit' \in {"baseline rejected", "died"} ]_vars
=============================================================================
