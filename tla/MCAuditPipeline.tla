-------------------------- MODULE MCAuditPipeline ---------------------------
(***************************************************************************)
(* Two modes, of one or two files and of one.  Two of the smallest files   *)
(* use up the budget.                                                      *)
(***************************************************************************)
EXTENDS AuditPipeline

F(size, utf8, opaque, warns, clock, exception) ==
  [size |-> size, utf8 |-> utf8, opaque |-> opaque, warns |-> warns,
   clock |-> clock, exception |-> exception]

Plain  == F(1, TRUE, FALSE, FALSE, 1, FALSE)
Large  == F(2, TRUE, FALSE, TRUE, 2, TRUE)
Opaque == F(1, TRUE, TRUE, FALSE, 0, FALSE)
Binary == F(1, FALSE, FALSE, FALSE, 1, FALSE)

MCFiles == {Plain, Large, Opaque, Binary}
MCModes == <<"m", "n">>

MCInputs ==
  {[x \in {"m", "n"} |-> IF x = "m" THEN s ELSE <<f>>] :
     s \in {<<e>> : e \in MCFiles} \cup {<<d, e>> : d \in MCFiles, e \in MCFiles},
     f \in MCFiles}

MCThresholds == {0, 1, 100}

MCSnapshots == {Plain, F(1, TRUE, TRUE, TRUE, 1, FALSE)}
=============================================================================
