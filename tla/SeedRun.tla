------------------------------ MODULE SeedRun ------------------------------
(***************************************************************************)
(* A run of prisma/seed.ts: one upsert after the other, each by a unique   *)
(* key and with nothing to update, so that a row that is there stays as it *)
(* is.  A run may end at any step and be started again.  The database may  *)
(* also refuse a row; the run then ends with what it wrote so far.         *)
(*                                                                         *)
(* Every run draws a customerId for every user before its upsert, and      *)
(* writes it into the paths of that user and those below, whether or not   *)
(* the user's row is new.                                                  *)
(***************************************************************************)
EXTENDS AccountTables

CONSTANTS RoleNames, RootDomain  \* the roles, in the seed's order; the port of the root's domain

ASSUME RoleAssumption ==
  /\ RoleNames \in Seq(Range(RoleNames)) /\ "ROOT" \in Range(RoleNames)
  /\ \A i \in DOMAIN Plan : Plan[i].role \in Range(RoleNames)

VARIABLES
  run,        \* the number of the last run, 0 before the first
  left,       \* the steps it has left
  through,    \* the last run came to its end
  got,        \* the rows its upserts answered
  role,       \* the roles table: who a role was created by
  wallet,     \* the rows that have a PRIMARY wallet
  list,       \* the ip_whitelists table: the owner, by port of the domain
  early       \* history: some run ended early

seed == <<run, left, through, got, role, wallet, list, early>>

Port == {RootDomain} \cup {Plan[i].port : i \in DOMAIN Plan}
Entry(k) == CHOOSE p \in Range(Plan) : p.key = k
PortOf(k) == IF k = Root THEN RootDomain ELSE Entry(k).port

Each(do, names) == [i \in DOMAIN names |-> [do |-> do, of |-> names[i]]]
Keys == [i \in DOMAIN Plan |-> Plan[i].key]
Script ==
  Each("root", <<Root>>) \o Each("role", RoleNames) \o Each("assign", <<Root>>)
    \o Each("user", Keys)
    \o Each("wallet", <<Root>> \o Keys) \o Each("list", <<Root>> \o Keys)

Running == left # << >>
Doing(do) == Running /\ Head(left).do = do
Step == /\ left' = Tail(left)
        /\ through' = (Len(left) = 1)
        /\ run' = run /\ early' = early

\* the users of the plan from the top down to k
Chain[k \in Key] == IF Entry(k).parent = Root THEN <<k>> ELSE Append(Chain[Entry(k).parent], k)

\* hierarchyPath, with the customerIds this run drew
\* VARIANT
PathFromParent(k) == [i \in {1} |-> <<k, run>>]
Path(k) == [i \in DOMAIN Chain[k] |-> <<Chain[k][i], run>>]

\* VARIANT
ParentDrawn(k) == <<Entry(k).parent, run>>
ParentRow(k) == got[Entry(k).parent]

NewPlace(k) ==
  IF k = Root
  THEN [parent |-> None, root |-> None, role |-> None, path |-> << >>]
  ELSE [parent |-> IF Entry(k).parent = Root THEN None ELSE ParentRow(k),
        root |-> got[Root], role |-> Entry(k).role, path |-> Path(k)]

Start ==
  /\ ~Running /\ run < MaxRun
  /\ run' = run + 1 /\ left' = Script /\ through' = FALSE
  /\ got' = [k \in Key \cup {Root} |-> None]
  /\ UNCHANGED <<role, wallet, list, early>>

\* the process dies, or a query throws
Stop ==
  /\ Running
  /\ left' = << >> /\ early' = TRUE
  /\ UNCHANGED <<run, through, got, role, wallet, list>>

\* root.upsert and user.upsert, by username
Found(k) == Holders(<<k, run>>, "username", Planned(k)["username"])
Creates(k) == Found(k) = {}
Refused(k) == Creates(k) /\ Clash(<<k, run>>, Planned(k))

Account ==
  /\ Doing("root") \/ Doing("user")
  /\ LET k == Head(left).of
         id == <<k, run>>
     IN /\ ~Refused(k)
        /\ IF Creates(k)
           THEN Create(id, Planned(k), NewPlace(k)) /\ got' = [got EXCEPT ![k] = id]
           ELSE UNCHANGED tables /\ \E i \in Found(k) : got' = [got EXCEPT ![k] = i]
        /\ Step
        /\ UNCHANGED <<role, wallet, list>>

AccountRefused ==
  /\ Doing("root") \/ Doing("user")
  /\ Refused(Head(left).of)
  /\ Stop
  /\ UNCHANGED tables

\* an upsert into a table by its key
\* VARIANT
Overwrite(table, key, value) ==
  [k \in DOMAIN table \cup {key} |-> IF k = key THEN value ELSE table[k]]
Upsert(table, key, value) ==
  [k \in DOMAIN table \cup {key} |-> IF k \in DOMAIN table THEN table[k] ELSE value]

PlantRole ==
  /\ Doing("role")
  /\ role' = Upsert(role, Head(left).of, got[Root])
  /\ Step
  /\ UNCHANGED <<got, wallet, list>>

\* the one update of the seed
AssignRole ==
  /\ Doing("assign")
  /\ place' = [place EXCEPT ![got[Root]].role = "ROOT"]
  /\ Step
  /\ UNCHANGED <<profile, asked, edited, got, role, wallet, list>>

PlantWallet ==
  /\ Doing("wallet")
  /\ wallet' = wallet \cup {got[Head(left).of]}
  /\ Step
  /\ UNCHANGED <<got, role, list>>

PlantList ==
  /\ Doing("list")
  /\ list' = Upsert(list, PortOf(Head(left).of), got[Head(left).of])
  /\ Step
  /\ UNCHANGED <<got, role, wallet>>
=============================================================================
