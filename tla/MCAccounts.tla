----------------------------- MODULE MCAccounts -----------------------------
(* Accounts with part of the plan: two ways down from one admin, and two    *)
(* users to whose entries the plan gives the same port.                     *)
EXTENDS Accounts, SeedPlan, TLC

CONSTANTS w1, w2

PartOfPlan ==
  <<Admins[1], StateHeads[1], DirectMasterDistributors[1], Distributors[3]>>
PartOfRoles == SubSeq(Roles, 1, 5)

Wishes ==
  {[c \in Unique |-> <<"new", c>>],
   [c \in {"username", "lastName"} |-> <<"distributorA1", c>>]}
EditSymmetry == Permutations(Worker)
=============================================================================
