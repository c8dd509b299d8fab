--------------------------- MODULE MCStoredImages ---------------------------
(* Instances of StoredImages for TLC. *)
EXTENDS StoredImages, TLC

\* rows, names and workers are interchangeable
Symmetry == Permutations(Profile) \cup Permutations(Setting) \cup
            Permutations(Name) \cup Permutations(DiskName) \cup Permutations(Worker)
=============================================================================
