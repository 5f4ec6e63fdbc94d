# OpenConstraint in TLA+

OpenConstraint is a static auditor for SDC timing constraints. It reads a
structural netlist, cell metadata and constraint files, replays the constraint
commands of each mode into a state, and judges that state with rules. Nothing is
executed and most of the program is one sequential pipeline; what makes it hard
is *replayed history*: clocks are redefined, exceptions reset, delays overwritten,
and several pieces of code derive the same fact from different state. Two parts
are concurrent: the benchmark cache, a directory that several processes share
without a lock, and the output files, which anybody may write or change. And
everywhere Python sets are iterated in an order that string hashing changes from
one run to the next.

The modules here model that core, TLC checks them on small instances, and TLAPS
proves the main results for every value of the constants. Source paths below are
relative to `src/openconstraint/` of the repository.

## Inventory

| Component | State | Operations | What is hard, and what makes it correct |
|---|---|---|---|
| Verilog reader, elaborator (`parsers/verilog.py`) | module table, alias union-find, object budget | `parse_verilog`, `elaborate` | recursion, exhaustion, renamed nets: a truncated design carries a warning, the index has the wires of the structure |
| Liberty reader (`parsers/liberty.py`) | cell library | `parse_liberty`, `merge` | malformed groups; merge order |
| Design index (`model.py`) | ports, pins, nets, loads, arcs | read only | ports and nets share names |
| Tcl lexer, SDC parser (`parsers/tcl.py`, `parsers/sdc.py`) | token and selector budgets | `parse_tcl`, `parse_sdc` | three word scanners that must agree; byte and work budgets |
| Query resolver (`query.py`) | per-command work budget, universe cache | `resolve_selector_forest` | one budget shared by all selectors of a command, charged in hash order: an answer is whole or refused |
| Clock definitions (`engine._build_clocks`) | `clocks`, `invalid_clocks`, `duplicate_clocks` | `create_clock`, `create_generated_clock` | redefinition, `-add`, masters: nothing is lost silently |
| Clock propagation, audit (`engine._propagate_clock`, `_audit_clocks`) | worklist; `clock_reach`, `valid_clocks` | one traversal per clock | hash order, loops, audit order: the least fixpoint, valid masters |
| Exceptions (`engine`) | `exceptions`, `multicycles` | four path commands, clock groups, `-reset_path` | two lists filtered by different keys: they stay in step, no overlap is missed |
| I/O delays (`engine`, `model.py`) | `io_delays`, `delayed_*` | two commands, two replays | both replays agree with the storage rule and the coverage |
| Coverage, graph (`engine._audit_coverage`, `_make_graph`) | none | once per mode | score forced to 0/F when input was not understood |
| Mode input, orchestration (`engine._audit_mode`, `audit`) | remaining bytes, documents | once per mode, cross-mode comparison | a rejected file discards the whole mode |
| OpenSTA adapter, merge (`opensta.py`, `cli._merge_opensta`) | one subprocess per mode | run, capture, merge | timeout against a complete answer |
| Adoption controls (`adoption.py`) | waivers, baseline | load, write, apply | a written baseline loads and matches; every diagnostic has one disposition |
| CLI, publication (`cli.py`) | output files | `_write`, `_write_all`, exit code | failures, deaths, concurrent writers and links: the old file or the whole new one |
| Reporters, rules, schemas | none | formatting | pure |
| Benchmark cache (`benchmark.acquire_artifact`) | blobs, source trees on disk | acquire | concurrent processes, crashes, damage: never bad data, always recovery |
| Benchmark and accuracy suites, fuzzing | results | compare | sequential |

The parsers turn text into command records; the resolver turns selectors into
sets of design objects; the clock builder, the clock audit, the collector of the
other commands and the five judging passes then run in that order over one
`_ModeState`. Modes are independent until the cross-mode comparison. The CLI runs
adoption controls and reporters on the result, and OpenSTA before them on request.

## Modules

`ClockGraph` holds the part of the design index a clock travels on, as a record
type, and the operators that `_target_nets` and the loop body compute. `Reach` and
`ReachPins` say what a traversal promises without traversing: the least set of
nets around the targets that is closed under one step.

`ClockPropagation` extends it with the worklist of `_propagate_clock`. One action,
`Visit`, is one iteration. The code seeds a queue from a Python set and iterates
sets in the body, so `Visit` takes any queued net; every hash order is one of its
behaviours.

`ClockDefinitions` extends `ClockGraph` with `_build_clocks` and `_audit_clocks`.
`DefinePrimary` and `DefineGenerated` are the two passes, `Record` the tail both
share (additive merge, in-place redefinition, invalid flag), `AuditClock` one
iteration of the audit in dict order, `ReportDuplicates` the OC2003 loop. Clock
objects are shared and mutated, so the dict maps names to indices of `objects`.
The traversal enters as `Reach`, which `ClockPropagation` justifies. A waveform is
abstracted to its period and a generated transform to a divisor; `accepted` is a
history variable.

`ExceptionHistory` models the collection of the exception commands: `AddPath` is
the whole handler (multicycle record, filter by `-reset_path`, append), `AddGroups`
that of `set_clock_groups`, and `Audit` the two judging passes. The lists are sets
of records with the position `at` of their command; `program` is history.
`SharedLines` says whether a semicolon may put two commands on one line, which is
visible in the code because a location has no column (`parse_tcl` gives 1 to all).
An end of a path is the set of objects by which an exception can name it, such as a
launch clock and a start pin. Two exceptions may apply to one path and name its end by
different objects; the code does not compare these, which is the structural approximation
of docs/rules/OC4001.md:32-36, and `OverlapsReported` does not claim that it does.

`IODelays` models `_collect_io_delay`, then the two replays of the list: the
audit's, which remembers commands (`ledger`), and the semantic one, which
remembers values (`active`) and compacts them to `Records`; coverage is counted
from the records. `Touches`, `Overrules` and `Speaking` state the storage rule
without a replay. A step handles one command for all its ports: the ports' keys
are disjoint, so their order does not matter.

`ArtifactCache` models processes in `acquire_artifact`. A step is one file-system
operation, or a run of reads of one object: find, validate, unlink and publish the
blob; read the marker and fingerprint the tree; remove it in three steps, because
`shutil.rmtree` is not atomic; extract aside and publish. `Crash` stops a process
anywhere; `Damage` edits the cache between uses.

`AuditPipeline` models one `openconstraint audit` around the rules. `Stat` and
`Read` are the two halves of `parse_sdc`, between which `Rewrite` may replace the
file; `Reject` leaves one rejected document of the whole mode; `Judge` is
`_audit_documents` with a few rules that stand for the others; `Compare` is the
rest of `audit`. `Validate` is one `_validate_mode`: any exit status or timeout,
with or without a snapshot. `Merge` is one iteration of `_merge_opensta`, `Decide`
is `_quality_exit`. A file is what the rules see of it: its size, whether it is
UTF-8, whether it holds something that is not understood or warned of, its clock
and whether it has exceptions. `seen` and `effective` are history.

`AdoptionControls` models a history of audits that write, load and apply baselines
and waivers. `Load`, `Audit`, `Stage`, `Publish`, `Apply` and `Report` are the parts
of `_audit_command` in order; between audits the sources or the grading change
(`Edit`), days pass (`NextDay`), and waivers are written for active diagnostics
(`Approve`). What `AuditPipeline` computes enters as `workspace`, the raw result.
The hash in a fingerprint is taken to be injective, `note` stands for message and
line, columns are always 1 as in the code. Paths are sequences of characters,
because `_portable_path` cuts them at one. `BaselineRejected` is every check of the
loader that a written baseline can fail: the size of the file and the number of entries,
texts that are blank, padded or too long (`Refused`), and fingerprints that differ when
they are computed again. `snapshot` is history: the workspace the baseline file was made
from.

Both choose an argument where it is first used and leave out report fields that no
later step reads.

`SelectorForest` models `resolve_selector_forest` and `_audit_queries` for the
selectors of one command. `Traverse` collects the tree; what does not fit ends the
traversal, and the last selector is refused after the others have been asked
(`RefuseLast`). `Call`, `ResolveSource` and `Return` are the recursion of
`_resolve_selector` with its cache; `Enter` to `Finish` are the parts of
`_resolve_selector_uncached`, each of which charges the budget before it goes on. Charges
made one after the other in one step are one sequence, of which `Pay` takes the longest
part that fits. `Relate`, `Route` and `Scan` handle one element of a set, in any order.
What a pattern matches is its field `hits`; names have a width, which is what comparisons
cost, and a depth, which is what a wildcard is routed by. A pin or port on a net is
either a driver or a load of it, an inout too, so `Fanout` counts each once; no port has
the name of a pin. `Reference` and `Price` say what
a selector denotes and costs without a budget, a cache or an order; a sum over a set is
the number of its units (`Total`). `Report` is `_audit_queries` on the selectors that the
traversal came to, `Repeat` audits the same input again.

`Elaboration` models `elaborate`. `frames` are the activations of `visit`;
`EnterModule` is everything before its loop (recursion, depth, budget, local nets,
assignments), `EnterChild`, `Collide` and `PlaceLeaf` are the three ways through the
loop, `Finish` the code after it. A flattened path, a string joined by slashes, is
the concatenation of names; an escaped name may have several components, so paths
collide as in the code. Union-find is abstracted to the root of each net.
`Occurrences`, `Leaves` and `Wires` describe the structure without elaborating it, and
`Class` is the partition that the wires make of its nets; `origin` is history.

`Publication` models `_write` by several processes, one system call at a time:
`Resolve`, `Stat`, `Probe`, `Reserve`, `Write`, `Chmod`, `Replace`, and `Fail`,
`Cleanup` and `Die` for what may go wrong at each. An entry of the directory is
nothing, a directory, a file or a link; files may have several entries. `Meddle` is
any other program. `AtomicFiles` is what it promises: readers of a path see a value
replaced in one step, at all paths that lead there and no other.
`PublicationIsAtomic` is its specification under the mapping that reads every path
through the directory.

Every `MC*` module gives the constants of one component values for TLC. Each
checked module also contains operators marked *faulty variant* before the
definition they imitate. They are plausible mistakes in that code; put in place of
the definition, each makes the property it was written for fail, which shows that
the property can tell the difference.

## Runs

| Run | Instance | Shows |
|---|---|---|
| `clock_propagation` | 2 buffers, 1 cell that is a register or not, 4 nets, 864 wirings per role set, 4 target sets | `NoLeak`, `ResultIsReach`, `Terminates` |
| `clock_definitions` | port, buffer, register; 2 names; every program of at most 3 of some 70 commands | `NoSilentLoss`, `BuildAndAuditAgree`, `DerivedPeriodCurrent`, `NoValidMasterRing` |
| `exception_history` | 2 objects; every program of at most 3 commands, one per line | `MulticyclesFollowExceptions`, `ResetHistoryExact`, `OverlapsReported`, `ConflictsReported` |
| `io_delays` | input, inout, clock port; real and virtual clock; at most 3 commands | `ReplaysAgree`, `ActiveIsHistory`, `OverwritesReported`, `SnapshotExact`, `FullCoverageIsClean` |
| `artifact_cache` | 2 processes, 2 calls each, 1 tree, 1 crash, 1 damage, any initial cache | `NeverPoisoned`, `ReturnedIsWhole`, `LoneCallsRecover`, `NotAllFail`, `CallsEnd` |
| `audit_pipeline` | 2 modes, of at most 2 files and of 1; 4 kinds of files, 1 rewrite; 9 ends of each OpenSTA process, or none starts; coverage gates at 0, 1 and 100 | `AllOrNothing`, `FailureIsReported`, `NoBlindPass` |
| `adoption_controls` | 14 workspaces, the baselines of 7 of which do not load; 3 audits with any controls and 3 policies, 2 edits or waivers, 2 days | `NothingVanishes`, `ReviewedOnly`, `UnchangedIsQuiet` |
| `selector_forest` | 11 forests of at most 5 selectors over 12 objects, every limit from 0 to 96, 2 audits | `AnswersAreExact`, `ExhaustedIffTooDear`, `SameVerdict`, `CommandEnds` |
| `elaboration` | 1548 wirings of a top with one child, 40 shapes of 2 to 4 modules with a port of unknown direction; every limit from 0 to 31, depth 3 | `CutIffWarned`, `IndexConsistent`, `NetsSound`, `NetsComplete` |
| `publication` | 2 writers, 2 calls, 2 paths, 4 files, 12 disks, 1 change by others | `StagingIsOwned`, `PublicationIsAtomic`, `ModesKept` |
| `exception_shared_line` | as `exception_history`, with `SharedLines` | violates `ConflictsReported` |
| `query_order` | as `selector_forest` | violates `SameFindings` |

**Bounds.** Three commands are the shortest programs in which something can be
defined, changed and changed back, or in which a clock, its master and a
redefinition of either occur; the violation of `ConflictsReported` needs three. Two names,
two objects and two values are enough to be equal or different, and sets over two
objects to be empty, disjoint, overlapping or nested. In the propagation instance
there are combinational loops, several drivers of one net, both pins of a cell on
one net and unconnected pins. In the cache, two processes show every pairwise race;
a second call sees what the first left; more processes, calls or trees add no new
pair. In the pipeline two of the smallest files use up the byte budget, so a third
file, or a file that grows, exceeds it. Three audits are one that writes a baseline,
one that uses it and one that replaces it or uses it after another change; two
edits allow a finding to come and go, and two waivers to share an id, a fingerprint
or neither. A portable path has 4 characters and 2 components in place of 240 and 4,
so that a path is cut inside a component, right before one and not at all, by either of
the two cuts. A baseline has at most 2 entries and one is too large, so that each limit of
the loader is met and exceeded. A coverage gate is off, met by any coverage at all, or met
by full coverage only. The limits of a selector forest and of an
elaboration run from nothing to more than the dearest instance costs, so the budget
runs out at every charge. Two audits are enough to differ. The wirings take every
sequence of at most two assignments over an input, an output and an inner net, which
with those of the top makes chains over the boundary; the shapes have recursion, a
module below the depth, cells of each kind, colliding names, and ports and pins of unknown direction. Two paths are enough
for an output, a link to it, a second name of its file, a loop and a directory; one
change by another program may fall between any two system calls. The publication run
uses the symmetry of writers, of staging names and of the files that no initial disk
names; `ModesKept` and `PublicationIsAtomic` mention none of them. All the bounds are `MaxCommands`, `MaxProgram`,
`MaxCalls`, `MaxCrashes`, `MaxDamages`, `MaxRewrites`, `MaxDay`, `MaxRuns`,
`MaxEdits`, `MaxAudits`, `MaxMeddles`, and the constants `Limit`, `Limits`,
`MaxDepth`, `PathLimit`, `SuffixParts`, `FieldLimit`, `MaxEntries`, `Thresholds` and those named `Broad` made small.

**Termination and fairness.** Every program modelled ends, so deadlock is not
checked: a final state is a finished run (in `AdoptionControls`, the bounds are
used up). `ClockPropagation` assumes weak fairness
of its loop, which nothing suspends. `ArtifactCache` assumes weak fairness of each
process's own steps: the operating system schedules a process that has not died.
Nothing is assumed of `Call`, `Finish`, `Crash` or `Damage`, nor of the network: a
download may always fail, and it ends either way because the socket has a timeout
(`benchmark.py:569`). `SelectorForest` assumes weak fairness of the resolver's steps,
which run in the auditing thread; nothing is assumed of `Repeat`. The other
specifications are checked for safety only.

**Assumptions of the cache model.** A blob with the pinned SHA-256 extracts (the
manifest fits the archive), the disk is not full, and other programs damage the
cache only between uses. The last one matters: the blob is validated before the
marker is read and is not read again until extraction, so a blob damaged in
between would be extracted and given a marker that fits. The documentation claims
no protection against that, only a recheck at every use.

**Assumptions of the publication model.** Other programs leave the hidden staging
names alone (they carry 64 random bits) and do not rename the parent directory,
which docs/security-model.md:79-80 excludes. A rename is atomic and a link is not
followed by it. Power loss is out of the documented promise and of the model.

## What the violations say of the code

* **Resets and semicolons.** `-reset_path` filters multicycles by line, so a
  multicycle that shares a line with a removed exception is lost and its conflict is
  not reported (docs/rules/OC4012.md:7, `engine.py:1963`).
* **Budgets and hash order.** Charges are made candidate by candidate while a Python
  set is iterated, and a charge that does not fit leaves the budget as it is. When
  the limit falls inside a set of names of different lengths, the order of hashing
  decides how much is left, and a later, cheaper selector of the command is answered
  in one run and refused in another (docs/report-formats.md:97-98, `query.py:586`).
  `SameVerdict` shows what survives: whether the command as a whole is refused is
  the same in both runs.
Observations without a run; each was found while modelling:

* A name redefined as a generated clock keeps its early place in the dict, so it may
  be audited before its master and be told that a reachable source is not reachable
  (`engine.py:970-976`; `create_clock g`, `create_clock m`, `create_generated_clock g`
  from `m`). A clock may also keep a period copied from a master that was redefined
  since. `BuildAndAuditAgree` and `DerivedPeriodCurrent` say that OC2003 then reports
  the redefinition that explains it; the finding about the reach is still misleading.
* A master need not be valid itself: the audit asks only whether it reaches the
  source (`engine.py:970`, against docs/compatibility.md:136).
* A baseline may be refused unchanged. `_portable_path` is not idempotent: a path cut
  right before a component keeps a leading slash, which the loader's second application
  drops, so the recomputed fingerprint differs and the next audit rejects the baseline
  just written for it (`adoption.py:116`, `adoption.py:135`, docs/adoption-controls.md:42).
  The loader also refuses what the writer does not check: files of more than 8 MiB,
  100000 entries, and texts that are blank, padded or too long (`adoption.py:157-164`,
  `198-203`, `346-359`); the documentation names the first two
  (docs/adoption-controls.md:147-149). `Loadable` says exactly which baselines load, and
  `UnchangedIsQuiet` that an unchanged audit passes with those and is rejected, as a
  whole, with the others; the run has workspaces of both kinds.
* In the reset signature a side that matches nothing equals an omitted one
  (`engine.py:1933`).
* Below the top a chain of assignments cuts connectivity silently:
  `assign y = w; assign w = v;` makes `w` the root of `y` and then renames the outer
  net inside the child only (`verilog.py:637`). The condition `Direct` of
  `NetsComplete` is exactly what is needed; a child that passes an input through by
  `assign y = a` does not tell its parent either. The documentation calls assignments
  "not fully modeled" (docs/compatibility.md:294-296). `NetsSound` needs no such
  condition: assignments and connections never short nets. Names may: with an escaped
  net or instance name that contains a divider, two nets can have one flattened path.
* The collision warning of docs/compatibility.md:279-282 is made for instances only
  (`verilog.py:685`); nets and pins with colliding paths merge without one. The
  instances of the run contain collisions of instances.
* Nets that only a pin connection introduces are not charged to the object budget.
* A module defined in two files is replaced by the later one without a warning
  (`verilog.py:507`).
* Clock-group pairs of two commands on one line are never compared with each other
  (`engine.py:2141`); OC2003's page speaks of period and targets, the code compares
  the whole signature; a clockless invalid `-clock_fall` delay is an obligation of its
  own in the coverage although the replay normalises the edge away (`engine.py:2311`,
  `model.py:338`).

## Proofs

Eight modules, each named after the component it extends with `Proofs` at the end, hold
the theorems; `ClockProofs` is about both `ClockPropagation` and `ClockDefinitions`,
`ConstraintProofs` about `ExceptionHistory` and `IODelays`. Since it extends both, the
specification of the exceptions is `ExceptionReplay` there, from `Unconstrained` by
`HistoryStep`, and `Spec` is that of the delays. TLAPS checks them for every value of
the constants that satisfies the component's named assumption (`NoNetAssumption`,
`DesignsAssumption`, `ClockConstants`, `ExceptionConstants`, `IODelayConstants`,
`CacheConstants`, `PipelineConstants`, `ControlConstants`, `SelectorConstants`,
`ElaborationConstants`, `PublicationConstants`), so for designs, netlists, programs,
selectors, workspaces and directories of any size and any number of processes; TLC
evaluates the assumptions on every run. The assumptions say of what kind the constants
are; beyond that, `CacheConstants` wants a process, `IODelayConstants` finitely many ports,
`SelectorConstants` a finite design and commands that hold nothing but their arguments and
what is nested in them, `PipelineConstants` a mode and a different name for each.

Every safety theorem has one shape: an invariant that says more than the property,
shown to hold at first and to be kept by each action, then the property from it. Where a
definition is recursive or speaks of all sequences, induction is by least elements: the
counterexamples, as a set of numbers, have no least one (`LeastNatural`, `Naturals`,
`SequencesByAppend`).

*Clock propagation.* `NoLeak` is inductive with typing, but `ResultIsReach` is not:
it speaks of the end only. The invariant `WorklistInv` adds that the target nets
are reached, that the successors of every visited net are reached, and that the
reached pins are those of the targets and of the visited nets. When the queue is
empty every reached net is visited, so the reached set is closed and, being within
the least closed set by `NoLeak`, equal to it (`ReachIsLeastClosed`). `VisitedOnce`
follows because only nets not yet reached are queued. `ReachOfUnion` shows that
merging targets merges propagations, which the in-place `-add` relies on.

*Exceptions.* `ListsStayInStep` needs to know that a line identifies a command.
`IInv` therefore adds `Positions`: positions of the records do not exceed `count`,
the exceptions come from the program, and without shared lines the line of a record
is its position. With it the filter by line removes exactly the multicycles whose
exception the filter by scope removes; `ResetsAreExact` follows in the same
induction without any assumption on lines. `OverlapsMatchHistory` says that OC4001 names
two exceptions of kinds it compares exactly if the history lets both stand and some path
has both apply to it and name its ends alike. It combines `ResetsAreExact` with
`OverlapIsCommonPath`: two exceptions pass the pairwise set tests if and only if such a
path exists. It assumes `~SharedLines`, and fails without.

*Publication.* `StagingIsOwned` is not inductive: it does not say at which steps of a
call a staging entry exists, nor that staging files have one entry each. `Inv` is the
conjunction of `Typed`, `Held` (what the local variables of a writer are at each step,
and that the staged file holds the whole value from `Chmod` on), `Private` (a staging
entry is a file without any other entry), `NotShared` (writers have different ones),
`Used` (an entry in use belongs to a writer or is abandoned) and `Settled` (while
nobody interferes, the place a writer has found is still where its path leads).
`NextInv` has one case per action. `WriteIsAtomic` maps `Begin` to `Ask`, `Replace` to
`Publish`, every other end of a call to `GiveUp` and `Meddle` to `Meddle`; that all
other steps change nothing a reader sees (`Invisible`) needs `Private`, and that a
replacement shows the whole value in one place (`ReplacePublishes`) needs `Held` and
`Settled`.

`ModesKept` needs in addition what `Agrees` says of a writer: the file at its place, the
mode it has noted and the mode of its staging file agree step by step (`StepAgrees`),
also while other writers replace that file, because they keep its mode too. A change by
another program ends that, so the theorem speaks of the states before one.

*Exceptions, the conflicts.* `ConflictsAreComplete` is the theorem the violating run is
about: without shared lines each multicycle is compared only with the one before it in
its scope, and yet any two that differ leave a finding. `NeighboursDiffer` shows that
between two records that differ there are two neighbours that do. With shared lines it
is false.

*Clock definitions.* `NoSilentLoss` is inductive only together with the shape of the
dict (`Shape`: its entries name the object they point to, its order lists each name once). `BuildAndAuditAgree` and
`DerivedPeriodCurrent` need `Derived`, per clock: a derived period rests on a master that
reaches the source and still has the period that was copied, unless a later command took
the master's name, and the master stands *earlier* in the dict unless the clock itself
took the place of another. Either exception leaves a pair behind, which `Told` follows
to its OC2003. `Progress` says that the audit has done the first names of
the order and `Judged` that a valid generated clock with a named master comes after that
master; the valid clock of a ring that stands first would contradict it
(`MastersAreRooted`).

The audit of the model takes `Reach`, where the code runs the worklist.
`AuditUsesPropagation` closes that gap: started at the target nets that the audit of a
clock starts at, every finished propagation has reached, together with its targets,
exactly the objects that `ClockDefinitions` uses, whatever the order of the queue.

*I/O delays.* `Speaking(key, slot, n)` is who still speaks for a slot after `n` commands.
`Inv` says that the ledger and the replayed state are, at each moment, the strictest of
those who speak after the commands replayed so far, and that a slot is set exactly if
somebody does. `SpeakingNext` is the change by one command, and `AuditStep` and
`ReplayStep` show that the two pieces of code compute just that. `ReplaysAgree`,
`ActiveIsHistory` and `OverwritesReported` are then statements about one function of the
history. The compaction is recursive: `RectanglesPartition` shows, by the size of the set
of cells, that the rectangles exist, cover each cell and never overlap, because the four
single cells are among the candidates; `SnapshotsAreExact` follows. `FullCoverageIsClean`
is a counting argument: the covered slots lie in a set of four per attempted
relationship, so covered = total leaves no port untouched and no slot out
(`FullIsComplete`); what that says of the findings of the *other* replay needs that both
have the same relationships.

*Artifact cache.* `NeverPoisoned` needs `Validated`: a process past the check of the
blob keeps it from being bad, since damage happens between uses only. The two properties
of lone calls need `Alone` (a call marked alone is the only one) and `AsLeft`, which says
for each step of such a call what it has found or made so far. `NotAllFail` needs
`SomebodyIsClear`: until a call has ended other than by interference, some process is
*clear*, that is, nothing done so far stands in its way. Each step either
leaves a clear process clear, or is a removal that takes a tree further and in the end
clears the way of the remover itself (`RemovesOnly`, `RemovalsLast`). The argument is not
about two processes: it does not count them.

*Adoption controls.* `Inv` says that the baseline file is that of the workspace it was
written from (`Stored`), that what an invocation has loaded is what the files still hold
(`Loaded`), and that its result is the partition by waivers, then baseline (`Sorted`).
`ReviewedOnly` and `NothingVanishes` follow, the latter because the three lists of a
partition together have each diagnostic as often as the workspace. `UnchangedStaysQuiet`
has no hypothesis about paths or limits. It needs to know when the loader accepts what the
writer wrote: `LoadableIsNotRejected` shows that this is so exactly if the workspace is
`Loadable`. Its core is `KeptPathStays`: what is kept of a path is kept again unchanged
exactly if it does not begin with a slash, because it has no empty component, is short
enough and has few enough components (`PortableForm`), and only a leading slash is
squeezed out.

*Elaboration.* `Walk` says what the activations are (the first is that of the top, a
module at work has a root per net) and that the budget is not overdrawn. `Tables` is
`IndexConsistent` said at every moment, not only at the end: `PinsAgree` for pins and
instances, `ViewsAgree` for drivers and loads, whose entries are compared net by net with
the pins that are on the net; ports come last, so until `done` they are in no entry. A
cell's pins land in entries of their own because paths of pins determine instance and
pin, which needs pin names of one component (`PlainPins`).

`NothingIsShorted` rests on names. `Naming` adds that an activation is at an occurrence
of the structure with the prefix that its place spells (`Situated`), and that each name
it gives a net is the name of a net that is *linked* with it (`Honest`, `Known`): the two
have the same image under every function that all wires respect. Assignments rename a root
to a root, connections pass a name inward, so both go along wires. At the end one name
means one node (`NameIsUnique`), so nets with one name are linked, and `ClassPartition`
says that `Class` is the finest partition the wires respect: linked is same class.

`NothingIsCut` is the other direction. `Plans` are the activations that the structure
asks for, level by level, with the bindings that visiting would give; `Global` is the one
name that a net of an occurrence then has. `Settled` says that the walk follows the plan:
each activation is the planned one, a pin has the `Global` name of its net, and so have
the ports once the top is open. That `Global` is the same at both ends of each wire
(`GlobalAlongWires`) has two parts: after the assignments of a module its assigned pairs
have one root (`RootsAliased`), and a connected port still has the root that it was bound
to (`RootsKeepBound`). The second is where `Direct` is needed: no assignment may then
rename a net from outside, because what it renames has a name of the module's own, which
is longer than any from outside.

Both assume what Verilog names are (`PlainNames`): nets, module instances and their ports
have names of one component. With escaped names that contain dividers `a` + `b/c` and
`a/b` + `c` are one path, in the code as here, and nets do get shorted (see above);
cells may have such names. `NothingIsCut` assumes besides that the module instances of one
module have different names and connect ports that exist (`DistinctNames`, `KnownPorts`).
The checked instances satisfy all of this.

*Audit pipeline.* `AllOrNothing` is about files that change between their size check and
their reading. `Reading` adds the account that makes it inductive: while files are read,
the documents are the first files of the mode, and their bytes are what the budget has
lost. `Understanding` and `Judged` carry what was not understood from a document to an
error and a score of 0, `Merged` and `Unmerged` say which modes `_merge_opensta` has
dealt with, and `Listed` that the result has what the modes have, each as often.
`FailureIsReported` and `NoBlindPass` are read off at the end. The two sums over
sequences (`Bytes`, `Flat`) are recursive functions of the model, because the folds and
`SelectSeq` of the libraries take operators, about which nothing can be proved here.

*Elaboration, the budget.* `NoSilentCut` compares what is left of the budget with the size
of a set. `Accounted` therefore keeps the occurrences that were opened and the leaves that
were placed: both are in the structure (`Rooted`), what the budget has lost is the size of
their parts unless a charge failed (`Charged`), and the instances and pins of the index are
those of the placed leaves (`Stored`). Nothing is opened twice, because all of it lies
behind the activations (`Behind`). As long as no warning of a cut was given, what is not
ahead of an activation was handled (`Closed`); when no activation is left, that is the
whole structure (`AllAccounted`). Each warning has its reason in the structure (`Reasons`).
The converse needs that the children of one module have different names (`DistinctNames`):
the model's `Cost` would count twins once.

*Query resolver.* None of the three properties is inductive: they speak of answers and of
the end, not of a selector half resolved. `IInv` adds `Balanced`, a bill. As long as nothing
was cut, `used` is the price of what is settled (selectors seen, answers kept, collections
materialized) plus what the selector at work was charged, and `Progress` says for each phase
how much that is and what its local variables hold: the reference, applied to the part of
the set that was walked, whichever part that is. Because the sums are sizes of sets
(`Units`), they grow by one element in any order, and so do the multiplicities of `Related`
and `Matched`. When a phase ends the part is the whole, so the answer kept is the reference
and the bill grows by its `work`. Once a charge does not fit (`Cut`), the bill and that
charge are within the price of the command, hence the price exceeds the limit, whatever
other selectors still get. Without a cut all is settled in the end, and the price is what
was used. That *all* is settled is `Traversed`: the traversal is closed under nesting, and
`Forest` says that a command holds nothing else. `WorkEndsIffTooDear` is this equivalence,
`NoPartialAnswer` is `Answered`, and `OrderKeepsTheVerdict` follows because both sides of
"some selector is refused or unmatched" are then functions of the command and the limit
(`Complains`). What `SameFindings` says is false, see the run `query_order`.

**Only model-checked.** `Terminates`, `CallsEnd` and `CommandEnds` are liveness under
fairness, which the prover does not reach. Every safety property of a passing run is a
theorem. That the recursive definitions of the models compute what their names say for
all data is not proved either, where it is not one of the lemmas.

## Not modelled, and why

Text processing (lexing, globbing, regular expressions, rendering) has no state
that several steps share and is far from what a model checker can reach usefully;
the formats are covered by the repository's unit and property tests. In the modelled
components these are left out: through lists and per-side edges of exceptions (more
components of the same signature and the same pairwise test), waveform arithmetic,
latency-inclusion flags, commands with opaque operands (they are recorded and rolled
back at once, `engine.py:1086-1098`), a constraint file listed twice in one mode
(its commands share locations across the copies), and archive member limits.

`_write_all` has no atomicity to check (docs/security-model.md:80-81). Of the query
resolver the matching engines are left out, of the elaborator parsing, packed buses,
positional connections and the choice of a top; of the CLI the path checks, which
compare the spelling and identity of paths once before anything is written.

## Plan

1. *Done.* `ClockGraph`, `ClockPropagation` with proofs; `ClockDefinitions`;
   `ExceptionHistory` with proofs; `IODelays`; `ArtifactCache`; `AuditPipeline`;
   `AdoptionControls`; `SelectorForest`; `Elaboration`; `AtomicFiles`, `Publication`
   with proofs.
2. *Done.* All safety properties of all components, in the eight `Proofs` modules.
3. Open: liveness. `CommandEnds` and `CallsEnd` could be reduced to a measure that each
   step lowers, proved as an action property.
4. Abstract specifications: an I/O-delay store whose `Set` and `Add` are single
   steps, implemented by both replays; a cache of whole trees, implemented by
   `ArtifactCache` for lone callers.

A deeper property takes the place of a weaker one, and runs of one module are joined
rather than multiplied.
