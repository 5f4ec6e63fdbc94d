----------------------------- MODULE AtomicFiles -----------------------------
(***************************************************************************)
(* What publishing a file promises (docs/security-model.md:62-80): whoever *)
(* reads an output path sees what was there before or all of what was      *)
(* published, never a part, and no other path changes.                     *)
(*                                                                         *)
(* Paths `lead' to one another by symbolic links.  Other programs may      *)
(* change everything at any time; `meddled' counts the times they do, so   *)
(* that their steps are not taken for steps of a writer.                   *)
(***************************************************************************)
EXTENDS Naturals

CONSTANTS Writers, Paths, Values, Nothing

VARIABLES
  content,  \* path -> what reading it gives, Nothing if it is no file
  leads,    \* path -> the path that it stands for
  wanted,   \* writer -> what it was asked to publish, or Nothing
  meddled

vars == <<content, leads, wanted, meddled>>

Init ==
  /\ content \in [Paths -> Values \cup {Nothing}] /\ leads \in [Paths -> Paths]
  /\ wanted = [w \in Writers |-> Nothing] /\ meddled = 0

Ask(w) ==
  /\ wanted[w] = Nothing
  /\ \E p \in Paths, v \in Values : wanted' = [wanted EXCEPT ![w] = [path |-> p, value |-> v]]
  /\ UNCHANGED <<content, leads, meddled>>

(* A success shows at every path that leads to the place asked for.  When  *)
(* other programs have changed links in between, the place may be another  *)
(* one, and a link may give way to the file; it is one place all the same. *)
Publish(w) ==
  /\ wanted[w] # Nothing /\ wanted' = [wanted EXCEPT ![w] = Nothing] /\ UNCHANGED meddled
  /\ \E place \in Paths :
       /\ meddled = 0 => place = leads[wanted[w].path] /\ leads' = leads
       /\ \A p \in Paths : leads'[p] \in {leads[p], place}
       /\ content' = [p \in Paths |-> IF leads'[p] = place THEN wanted[w].value ELSE content[p]]

GiveUp(w) ==
  /\ wanted[w] # Nothing /\ wanted' = [wanted EXCEPT ![w] = Nothing]
  /\ UNCHANGED <<content, leads, meddled>>

Meddle == meddled' = meddled + 1 /\ UNCHANGED wanted

Next == Meddle \/ \E w \in Writers : Ask(w) \/ Publish(w) \/ GiveUp(w)

Spec == Init /\ [][Next]_vars
=============================================================================
