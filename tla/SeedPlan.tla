------------------------------ MODULE SeedPlan ------------------------------
(* What prisma/seed.ts plants: its roles, and its users with their parents, *)
(* roles and the port of the domain their IP whitelist entry names.         *)
EXTENDS Integers, Sequences

User(key, parent, role, port) ==
  [key |-> key, parent |-> parent, role |-> role, port |-> port]

RootPort == 5174

Roles == <<"ROOT", "ADMIN", "STATE HEAD", "MASTER DISTRIBUTOR", "DISTRIBUTOR", "RETAILER">>
LevelOf == [r \in {Roles[i] : i \in DOMAIN Roles} |-> (CHOOSE i \in DOMAIN Roles : Roles[i] = r) - 1]

Admins ==
  <<User("admin", "root", "ADMIN", 5173), User("admin2", "root", "ADMIN", 5175)>>

StateHeads ==
  <<User("statehead", "admin", "STATE HEAD", 5182),
    User("statehead2", "admin2", "STATE HEAD", 5183)>>

MasterDistributors ==
  <<User("masterdistributor1", "statehead", "MASTER DISTRIBUTOR", 5176),
    User("masterdistributor2", "statehead2", "MASTER DISTRIBUTOR", 5177)>>
DirectMasterDistributors ==
  <<User("masterdistributorA", "admin", "MASTER DISTRIBUTOR", 5178),
    User("masterdistributorX", "admin2", "MASTER DISTRIBUTOR", 5179)>>

Distributors ==
  <<User("distributor1", "masterdistributor1", "DISTRIBUTOR", 5180),
    User("distributor2", "masterdistributor2", "DISTRIBUTOR", 5181),
    User("distributorA1", "masterdistributorA", "DISTRIBUTOR", 5182)>>
DirectDistributors ==
  <<User("distributorB", "admin", "DISTRIBUTOR", 5183),
    User("distributorY", "admin2", "DISTRIBUTOR", 5184)>>

Retailers ==
  <<User("retailer1", "distributor1", "RETAILER", 5185),
    User("retailer2", "distributor2", "RETAILER", 5186),
    User("retailerA1", "distributorA1", "RETAILER", 5187),
    User("retailerB1", "distributorB", "RETAILER", 5188)>>
DirectRetailers ==
  <<User("retailerC", "admin", "RETAILER", 5189), User("retailerZ", "admin2", "RETAILER", 5190)>>

Users ==
  Admins \o StateHeads \o MasterDistributors \o DirectMasterDistributors
    \o Distributors \o DirectDistributors \o Retailers \o DirectRetailers

\* what the PRIMARY wallet of a role is created with
WalletOf(role) ==
  CASE role = "ADMIN" ->
         [balance |-> 100000, perTransaction |-> 500000, daily |-> 1000000, monthly |-> 10000000]
    [] role = "STATE HEAD" ->
         [balance |-> 50000, perTransaction |-> 200000, daily |-> 500000, monthly |-> 3000000]
    [] role = "MASTER DISTRIBUTOR" ->
         [balance |-> 25000, perTransaction |-> 100000, daily |-> 250000, monthly |-> 1500000]
    [] role = "DISTRIBUTOR" ->
         [balance |-> 10000, perTransaction |-> 50000, daily |-> 100000, monthly |-> 500000]
    [] role = "RETAILER" ->
         [balance |-> 5000, perTransaction |-> 25000, daily |-> 50000, monthly |-> 200000]

LevelAt(key) ==
  IF key = "root" THEN LevelOf["ROOT"]
  ELSE LevelOf[(CHOOSE u \in {Users[i] : i \in DOMAIN Users} : u.key = key).role]

\* The check the seed itself logs at its end, for every user: its parent stands higher.
HierarchyValid == \A i \in DOMAIN Users : LevelAt(Users[i].parent) < LevelAt(Users[i].key)

\* A user is created after its parent, whose id it needs.
ParentFirst ==
  \A i \in DOMAIN Users :
    Users[i].parent = "root" \/ \E j \in 1 .. i - 1 : Users[j].key = Users[i].parent

ASSUME PlanAssumption == HierarchyValid /\ ParentFirst
ASSUME WalletAssumption ==
  \A i \in DOMAIN Users :
    LET w == WalletOf(Users[i].role)
    IN w.perTransaction <= w.daily /\ w.daily <= w.monthly
=============================================================================
