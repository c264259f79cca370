---------------------------- MODULE MCParseFiles ----------------------------
(***************************************************************************)
(* Small instances of ParseFiles.                                          *)
(*                                                                         *)
(* Two threads race on one path, so that both the winner and the loser of  *)
(* register_file occur, or on two paths.  Three entities per thread are a  *)
(* file, a container and a member of it, or a file, a template and its     *)
(* templated entity: enough for a registered entity to be destroyed by an  *)
(* error of its container, and for a thread to parse a second file.        *)
(***************************************************************************)
EXTENDS ParseFiles, TLC

CONSTANTS t1, t2, p1, p2, a

MCThread == {t1, t2}
MCPath == {p1, p2}
MCId == MCPath \cup {a}
MCCapacity == (t1 :> 3) @@ (t2 :> 3)
MCObject == UNION {{t} \X (1 .. MCCapacity[t]) : t \in MCThread}

Symmetry == Permutations(MCPath) \cup Permutations(MCThread)
=============================================================================
