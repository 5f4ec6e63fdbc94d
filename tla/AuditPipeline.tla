---------------------------- MODULE AuditPipeline ---------------------------
(***************************************************************************)
(* One `openconstraint audit': engine.audit reads the files of each mode   *)
(* within a byte budget and judges the mode; on request                    *)
(* opensta.validate_with_opensta runs an OpenSTA process per mode and      *)
(* cli._merge_opensta adds what it shows; cli._quality_exit decides.       *)
(*                                                                         *)
(* A file is a record of what the rules see in it.  A diagnostic keeps its *)
(* rule (for rule, message and evidence), severity, mode and place: "file",*)
(* "design", "modes", "opensta" or "effective".  Adoption controls are in  *)
(* a module of their own; fields of the report that nothing reads are left *)
(* out.  An argument is chosen where it is first used.                     *)
(***************************************************************************)
EXTENDS Integers, Sequences, FiniteSets, SequencesExt

CONSTANTS
  ModeList,     \* the names of the modes, in order
  Files,        \* what a file can be, see File
  Inputs,       \* what the lists of files of the modes can be
  Snapshots,    \* files that OpenSTA can emit
  Limit,        \* MAX_SDC_INPUT_BYTES
  Thresholds,   \* what --min-coverage may ask for; 0 is as good as nothing
  MaxRewrites   \* bound on the files that change while they are read

Names == ToSet(ModeList)

(* `clock' is the definition of the one clock, 0 if there is none;         *)
(* `opaque' says that it contains something the reader does not understand *)
(* (OC0001, OC0003, OC1003, OC1004), `warns' that a rule warns of it.      *)
File == [size : Nat, utf8 : BOOLEAN, opaque : BOOLEAN, warns : BOOLEAN,
         clock : Nat, exception : BOOLEAN]

ASSUME PipelineConstants ==
  /\ ModeList \in Seq(STRING) \ {<<>>} /\ IsInjective(ModeList)
  /\ Files \subseteq File
  /\ Snapshots \subseteq {f \in File : f.utf8}
  /\ Inputs \subseteq [Names -> Seq(Files) \ {<<>>}]
  /\ Limit \in Nat /\ Thresholds \subseteq 0..100 /\ MaxRewrites \in Nat

VARIABLES
  files,      \* mode -> its files on disk
  incomplete, \* whether the design has warnings
  pc,
  mode,       \* number of the mode at hand
  remaining,  \* bytes left for this mode
  documents,  \* the documents of this mode: files, or <<Rejected>>
  judged,     \* mode -> its ModeResult
  extra,      \* diagnostics of the result that are in no mode
  result,     \* all diagnostics of the result
  outcome,    \* mode -> how OpenSTA ended
  effective,  \* history: mode -> the findings of the effective audit
  policy,     \* --fail-on and --min-coverage
  exit,
  seen,       \* history: mode -> every byte read from its files was understood
  rewrites

vars == <<files, incomplete, pc, mode, remaining, documents, judged, extra, result,
          outcome, effective, policy, exit, seen, rewrites>>
source == <<files, incomplete, rewrites>>
verdict == <<policy, exit>>
engine == <<outcome, effective>>

Rejected == [size |-> 0, utf8 |-> FALSE, opaque |-> TRUE, warns |-> FALSE,
             clock |-> 0, exception |-> FALSE]

(* _effective_sdc returns no text for a snapshot that is missing, too      *)
(* large or not UTF-8.                                                     *)
NoSnapshot == Rejected

NotRun == [timedOut |-> FALSE, code |-> "none", snapshot |-> NoSnapshot]

(* There may be a snapshot or not whatever the status is; a process that   *)
(* timed out has no exit status.                                           *)
Outcomes ==
  [timedOut : {FALSE}, code : {"0", "2"}, snapshot : Snapshots \cup {NoSnapshot}] \cup
  [timedOut : {TRUE}, code : {"none"}, snapshot : Snapshots \cup {NoSnapshot}]

Diag(rule, severity, m, at) == [rule |-> rule, severity |-> severity, mode |-> m, at |-> at]

Init ==
  /\ files \in Inputs /\ incomplete \in BOOLEAN
  /\ pc = "stat" /\ mode = 1 /\ remaining = Limit /\ documents = <<>>
  /\ judged = [m \in {} |-> <<>>] /\ extra = <<>> /\ result = <<>>
  /\ outcome = [m \in Names |-> NotRun] /\ effective = [m \in Names |-> <<>>]
  /\ policy = [failOn |-> "error", atLeast |-> 0] /\ exit = "none"
  /\ seen = [m \in Names |-> TRUE] /\ rewrites = 0

-----------------------------------------------------------------------------
(* _audit_mode: read the files of the mode in order.                       *)
Name == ModeList[mode]
Position == Len(documents) + 1   \* of the file at hand
Current == files[Name][Position]

(* A rejected file discards the documents before it.                       *)
RejectKeepingPrefix ==   \* faulty variant: audits what it has read
  /\ documents' = Append(documents, Rejected) /\ pc' = "judge"
  /\ seen' = [seen EXCEPT ![Name] = FALSE] /\ UNCHANGED remaining

Reject ==
  /\ documents' = <<Rejected>> /\ pc' = "judge"
  /\ seen' = [seen EXCEPT ![Name] = FALSE] /\ UNCHANGED remaining

Stat ==
  /\ pc = "stat" /\ UNCHANGED <<source, mode, judged, extra, result, engine, verdict>>
  /\ IF Current.size > remaining
     THEN Reject
     ELSE pc' = "read" /\ UNCHANGED <<remaining, documents, seen>>

(* The file has been replaced since its size was checked.                  *)
Rewrite ==
  /\ pc = "read" /\ rewrites < MaxRewrites /\ rewrites' = rewrites + 1
  /\ \E f \in Files : files' = [files EXCEPT ![Name][Position] = f]
  /\ UNCHANGED <<incomplete, pc, mode, remaining, documents, judged, extra, result,
                 engine, verdict, seen>>

Read ==
  /\ pc = "read" /\ UNCHANGED <<source, mode, judged, extra, result, engine, verdict>>
  /\ IF Current.size > remaining \/ ~Current.utf8
     THEN Reject
     ELSE /\ documents' = Append(documents, Current)
          /\ remaining' = remaining - Current.size
          /\ seen' = [seen EXCEPT ![Name] = @ /\ ~Current.opaque]
          /\ pc' = IF Position = Len(files[Name]) THEN "judge" ELSE "stat"

-----------------------------------------------------------------------------
(* Lists one after the other, and those elements of a list that are in P   *)
(* (a recursive function, because of FlattenSeq and SelectSeq nothing can  *)
(* be proved).                                                             *)
Flat(lists) ==
  LET flat[i \in 0..Len(lists)] == IF i = 0 THEN <<>> ELSE flat[i - 1] \o lists[i]
  IN  flat[Len(lists)]

Only(s, P) == Flat([i \in DOMAIN s |-> IF s[i] \in P THEN <<s[i]>> ELSE <<>>])

(* _audit_documents.  The clock of a mode is the one defined last; without *)
(* one the endpoints are unconstrained (OC2101).                           *)
ClockOf(docs) ==
  LET defined == {i \in DOMAIN docs : docs[i].clock # 0}
  IN  IF defined = {} THEN 0 ELSE docs[Max(defined)].clock

OfDocument(m, d, place) ==
  (IF d.opaque THEN <<Diag("OC0001", "error", m, place)>> ELSE <<>>) \o
  (IF d.warns THEN <<Diag("OC1002", "warning", m, place)>> ELSE <<>>)

Findings(m, docs, place) ==
  Flat([i \in DOMAIN docs |-> OfDocument(m, docs[i], place)]) \o
  (IF ClockOf(docs) = 0 THEN <<Diag("OC2101", "error", m, "design")>> ELSE <<>>)

(* _audit_coverage: the score is forced to 0 and the grade to F when the   *)
(* input was not understood.  A clock covers everything here.              *)
ScoreOfRest(docs) ==   \* faulty variant: leaves out what it cannot read
  IF ClockOf(docs) # 0 THEN 100 ELSE 50

Score(docs) ==
  IF incomplete \/ \E i \in DOMAIN docs : docs[i].opaque THEN 0
  ELSE IF ClockOf(docs) # 0 THEN 100 ELSE 50

ModeResult(m, docs, place) ==
  [findings |-> Findings(m, docs, place), score |-> Score(docs), clock |-> ClockOf(docs),
   exceptions |-> \E i \in DOMAIN docs : docs[i].exception]

Judge ==
  /\ pc = "judge" /\ UNCHANGED <<source, extra, result, engine, verdict, seen>>
  /\ judged' = [m \in DOMAIN judged \cup {Name} |->
       IF m = Name THEN ModeResult(m, documents, "file") ELSE judged[m]]
  /\ remaining' = Limit /\ documents' = <<>>
  /\ IF mode < Len(ModeList) THEN mode' = mode + 1 /\ pc' = "stat"
     ELSE mode' = 1 /\ pc' = "compare"

(* audit: the diagnostics of the modes, of their comparison, of the design.*)
CrossMode ==
  LET clocks == {judged[m].clock : m \in Names}
      differing == {m \in Names : judged[m].exceptions # judged[ModeList[1]].exceptions}
  IN  (IF Cardinality(clocks) > 1 THEN <<Diag("OC5001", "note", "cross-mode", "modes")>> ELSE <<>>) \o
      [i \in 1..Cardinality(differing) |-> Diag("OC5002", "note", "cross-mode", "modes")]

OfModes == Flat([i \in DOMAIN ModeList |-> judged[ModeList[i]].findings])

Compare ==
  /\ pc = "compare"
  /\ extra' = CrossMode \o
       (IF incomplete THEN <<Diag("OC0002", "error", "design", "design")>> ELSE <<>>)
  /\ result' = OfModes \o extra'
  /\ pc' \in {"validate", "decide"}
  /\ UNCHANGED <<source, mode, remaining, documents, judged, engine, verdict, seen>>

-----------------------------------------------------------------------------
(* validate_with_opensta: a process per mode, before anything is merged.   *)
(* It fails as a whole when OpenSTA cannot be started.                     *)
Validate ==
  /\ pc = "validate" /\ UNCHANGED <<source, remaining, documents, judged, extra, result,
                                    effective, policy, seen>>
  /\ \/ /\ \E o \in Outcomes : outcome' = [outcome EXCEPT ![Name] = o]
        /\ UNCHANGED exit
        /\ IF mode < Len(ModeList) THEN mode' = mode + 1 /\ UNCHANGED pc
           ELSE mode' = 1 /\ pc' = "merge"
     \/ pc' = "end" /\ exit' = "input error" /\ UNCHANGED <<outcome, mode>>

SucceededAtLast(o) ==   \* faulty variant: takes what a killed process wrote
  o.code # "2" /\ o.snapshot \in Snapshots

Succeeded(o) == ~o.timedOut /\ o.code = "0" /\ o.snapshot \in Snapshots

Add(m, new) ==
  /\ judged' = [judged EXCEPT ![m].findings = @ \o new]
  /\ result' = result \o new

EffectiveAudit(m) == ModeResult(m, <<outcome[m].snapshot>>, "effective").findings

Absent(m) ==
  LET found == ToSet(judged[m].findings)
  IN  Only(EffectiveAudit(m), {d \in ToSet(EffectiveAudit(m)) : \A f \in found : f.rule # d.rule})

Merge ==
  /\ pc = "merge" /\ UNCHANGED <<source, remaining, documents, extra, outcome, verdict, seen>>
  /\ IF Succeeded(outcome[Name])
     THEN /\ Add(Name, Absent(Name))
          /\ effective' = [effective EXCEPT ![Name] = EffectiveAudit(Name)]
     ELSE /\ Add(Name, <<Diag("OC6001", "error", Name, "opensta")>>)
          /\ UNCHANGED effective
  /\ IF mode < Len(ModeList) THEN mode' = mode + 1 /\ UNCHANGED pc
     ELSE mode' = 1 /\ pc' = "decide"

Rank(severity) == CASE severity = "error" -> 3 [] severity = "warning" -> 2 [] OTHER -> 1

(* _quality_exit                                                           *)
Decide ==
  /\ pc = "decide" /\ pc' = "end"
  /\ policy' \in [failOn : {"never", "warning", "error"}, atLeast : Thresholds]
  /\ exit' = IF \/ \E m \in Names : judged[m].score < policy'.atLeast
                \/ /\ policy'.failOn # "never"
                   /\ \E i \in DOMAIN result :
                        Rank(result[i].severity) >= Rank(policy'.failOn)
             THEN "fail" ELSE "pass"
  /\ UNCHANGED <<source, mode, remaining, documents, judged, extra, result, engine, seen>>

Next == Stat \/ Rewrite \/ Read \/ Judge \/ Compare \/ Validate \/ Merge \/ Decide

Spec == Init /\ [][Next]_vars

-----------------------------------------------------------------------------
Bytes(docs) ==
  LET bytes[i \in 0..Len(docs)] == IF i = 0 THEN 0 ELSE bytes[i - 1] + docs[i].size
  IN  bytes[Len(docs)]

(* engine.py:2531-2538: a mode is judged from all its files or from none.  *)
(* All together they fit the budget, although a file may grow after its    *)
(* size was checked, and a rejected file leaves nothing of those before it.*)
AllOrNothing ==
  pc = "judge" =>
    \/ documents = files[Name] /\ Bytes(documents) = Limit - remaining
    \/ documents = <<Rejected>>

Times(d, s) == Cardinality({i \in DOMAIN s : s[i] = d})

(* docs/opensta-validation.md:70-76: a mode that OpenSTA did not accept is *)
(* reported once, and nothing of a snapshot that is late, partial or from  *)
(* a failed process is used; what the effective audit of any other mode    *)
(* finds is among the findings of the mode.  The result, which the gate    *)
(* reads, still lists what the modes and their comparison do, as often.    *)
FailureIsReported ==
  pc = "decide" /\ outcome[ModeList[1]] # NotRun =>
    /\ LET all == OfModes \o extra
       IN  \A d \in ToSet(result) \cup ToSet(all) : Times(d, result) = Times(d, all)
    /\ \A m \in Names :
       LET found == ToSet(judged[m].findings)
           clean == outcome[m].code = "0" /\ outcome[m].snapshot \in Snapshots
       IN  /\ Cardinality({i \in DOMAIN judged[m].findings :
                             judged[m].findings[i].rule = "OC6001"}) = IF clean THEN 0 ELSE 1
           /\ ~clean => \A d \in found : d.at # "effective"
           /\ {d.rule : d \in ToSet(effective[m])} \subseteq {d.rule : d \in found}

(* docs/coverage-methodology.md:44-49: no gate passes blindly.  With the   *)
(* severity gate or any coverage gate, an audit passes only if the design  *)
(* is complete and every byte of every mode was read and understood; with  *)
(* the severity gate, only if OpenSTA, when asked, accepted every mode and *)
(* nothing in the effective snapshots was opaque.                          *)
NoBlindPass ==
  exit = "pass" =>
    /\ policy.atLeast > 0 \/ policy.failOn # "never" =>
         ~incomplete /\ \A m \in Names : seen[m]
    /\ policy.failOn # "never" => \A m \in Names : outcome[m] # NotRun =>
         ~outcome[m].timedOut /\ outcome[m].code = "0"
           /\ outcome[m].snapshot \in Snapshots /\ ~outcome[m].snapshot.opaque
=============================================================================
