------------------------------- MODULE MCKyc --------------------------------
(* Instances of Kyc for TLC.  The bounds are in the configurations. *)
EXTENDS KycTables, TLC

CONSTANTS street, city, s1, s2, c1, c2

At(s, c) == street :> s @@ city :> c
Old == At(s1, c1)
New == At(s2, c2)

\* A filing gives the place that is taken or a free one; two updates of one
\* column each lead from the free one to the one taken.
TwoPlaces == {Old, New}
OneColumn == {street :> s1, city :> c1}
OldRow == <<Old>>
NoRow == << >>

\* users and workers are interchangeable
Symmetry == Permutations(User) \cup Permutations(Worker)
=============================================================================
