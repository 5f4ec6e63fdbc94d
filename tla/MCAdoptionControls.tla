------------------------ MODULE MCAdoptionControls --------------------------
(***************************************************************************)
(* Diagnostics of two modes and of the design.  Portable paths have at     *)
(* most 4 characters and 2 components: d/x/a and e//x/a have one portable  *)
(* path, x/a; d/xxxx is cut inside a component and d/xxx right before one, *)
(* so that it keeps a leading slash, which the loader does not.  A file    *)
(* has at most 2 entries; one note makes it too large, another one and a   *)
(* mode have no readable text, and <ddd> is longer than a path may be.     *)
(***************************************************************************)
EXTENDS AdoptionControls

D(note, mode, path, severity) ==
  [rule |-> "OC2003", note |-> note, mode |-> mode, path |-> path, severity |-> severity]

W(findings, top, low) ==
  [findings |-> findings, top |-> top, low |-> low, modes |-> {"m", "n"}]

DX == <<"d", "/", "x", "/", "a">>
EX == <<"e", "/", "/", "x", "/", "a">>
DXX == <<"d", "/", "x", "x", "x", "x">>
Cut == <<"d", "/", "x", "x", "x">>
Design == <<"<", "d", ">">>
LongDesign == <<"<", "d", "d", "d", ">">>

Usual ==
  { W(<<>>, "t", FALSE),
    W(<<D("1", "m", DX, "warning")>>, "t", FALSE),
    W(<<D("1", "m", DX, "warning"), D("1", "m", EX, "warning")>>, "t", FALSE),
    W(<<D("1", "m", DX, "error"), D("1", "n", DX, "error")>>, "t", TRUE),
    W(<<D("1", "m", DX, "warning"), D("1", "m", DX, "error")>>, "t", FALSE),
    W(<<D("1", "n", DXX, "note"), D("2", "design", Design, "error")>>, "t", TRUE),
    W(<<D("1", "m", DX, "warning")>>, "u", FALSE) }

CutRightBefore == W(<<D("1", "m", Cut, "warning")>>, "t", FALSE)
Large == W(<<D("large", "m", DX, "note")>>, "t", FALSE)

Unloadable ==
  { CutRightBefore, Large,
    W(<<D("1", "m", DX, "warning"), D("2", "m", DX, "note"), D("3", "n", DX, "error")>>, "t", TRUE),
    W(<<D("padded ", "m", DX, "warning")>>, "t", FALSE),
    W(<<D("1", " m", DX, "note")>>, "t", FALSE),
    W(<<D("1", "m", DX, "note")>>, " t", FALSE),
    W(<<D("1", "design", LongDesign, "note")>>, "t", FALSE) }

Everything == Usual \cup Unloadable

Illegible == {"", "padded ", " m", " t"}
LargeFiles == {BaselineOf(Large)}

(* Every combination of controls, and three policies.                      *)
MCInvocations ==
  {a \in Arguments : <<a.failOn, a.gate>> \in {<<"error", FALSE>>, <<"warning", TRUE>>, <<"never", FALSE>>}}

TwoIds == {"i", "j"}
=============================================================================
