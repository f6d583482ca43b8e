------------------------------ MODULE MCFileState ------------------------------
(***************************************************************************)
(* Instances of FileState for TLC: one file, two names of it that are not  *)
(* the same to the tracker and a third one that file_read does not clean.  *)
(***************************************************************************)
EXTENDS FileState, TLC

CONSTANTS f1, c1, c2
MCFile  == [p \in {"f", "/d/f", "./f"} |-> f1]
MCClean == [p \in {"f", "/d/f", "./f"} |-> IF p = "./f" THEN "f" ELSE p]
Symmetry == Permutations(Callers)

================================================================================
