---------------------------- MODULE MCPublication ----------------------------
(* Two writers and two paths, which may be one file, two, a link and what  *)
(* it leads to, a loop, a directory or absent; a file may have the mode of *)
(* a new one, another that may be written, or one that may not.            *)
EXTENDS Publication, TLC

CONSTANTS p1, p2, f1, f2, v1

MCDisks ==
  {[dir  |-> [e \in Paths \cup Temps |-> IF e = p1 THEN d[1] ELSE IF e = p2 THEN d[2] ELSE None],
    file |-> [f \in Files |-> [content |-> v1, mode |-> IF f = f1 THEN m ELSE NewMode]]] :
     d \in {<<f1, None>>, <<f1, f2>>, <<f1, f1>>, <<f1, p1>>, <<None, p1>>, <<Directory, p2>>},
     m \in {"private", "readonly"}}

Alike == Permutations(Writers) \cup Permutations(Files \ {f1, f2}) \cup Permutations(Temps)
=============================================================================
