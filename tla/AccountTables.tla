--------------------------- MODULE AccountTables ---------------------------
(***************************************************************************)
(* The rows of the roots and users tables: the columns their owners may    *)
(* edit, and their place in the hierarchy.  prisma/seed.ts is the only     *)
(* code that creates such rows (module SeedRun); updateProfile edits them  *)
(* (module ProfileEdits); nothing deletes one.                             *)
(*                                                                         *)
(* A row is named by the user of the plan it was created for and by the    *)
(* run of the seed that drew its customerId.                               *)
(***************************************************************************)
EXTENDS Naturals, Sequences, FiniteSetsExt, Functions

CONSTANTS
  Root,    \* the root's username
  Plan,    \* the users the seed plants, in its order: key, parent, role, port
  MaxRun,  \* bound: runs of the seed
  None

Key == {Plan[i].key : i \in DOMAIN Plan}
Id == (Key \cup {Root}) \X (1 .. MaxRun)

ASSUME PlanningAssumption ==
  /\ Root \notin Key /\ None \notin Key \cup {Root} \cup Id
  /\ Plan \in Seq(Range(Plan))
  /\ \A i \in DOMAIN Plan :
       /\ Plan[i].parent \in {Root} \cup {Plan[j].key : j \in 1 .. i - 1}
       /\ \A j \in DOMAIN Plan : Plan[i].key = Plan[j].key => i = j
  /\ MaxRun \in Nat

Column == {"firstName", "lastName", "username", "phoneNumber", "email"}
\* the columns with a unique index
Unique == {"username", "phoneNumber", "email"}

\* the values of the plan, all different
\* VARIANT
PlannedSharing(k) == [c \in Column |-> <<IF c = "phoneNumber" THEN Root ELSE k, c>>]
Planned(k) == [c \in Column |-> <<k, c>>]

VARIABLES
  profile,  \* the columns of each row
  place,    \* its parentId, rootParentId, role and hierarchyPath
  \* History, read by no guard.
  asked,    \* what its creation or the last edit of a column asked for
  edited    \* the columns an edit gave another value, as <<row, column>>

tables == <<profile, place, asked, edited>>

IsRoot(id) == id[1] = Root
\* the rows of the table that id is a row of
Peers(id) == {i \in DOMAIN profile : IsRoot(i) = IsRoot(id)}

\* what findUnique by a unique column answers: at most one row
Holders(id, c, value) == {i \in Peers(id) : profile[i][c] = value}
\* the database refuses a row that repeats a unique value of another
\* VARIANT
ClashOfUsername(id, columns) == Holders(id, "username", columns["username"]) \ {id} # {}
Clash(id, columns) == \E c \in Unique : Holders(id, c, columns[c]) \ {id} # {}

Create(id, columns, where) ==
  /\ profile' = [i \in DOMAIN profile \cup {id} |-> IF i = id THEN columns ELSE profile[i]]
  /\ place' = [i \in DOMAIN place \cup {id} |-> IF i = id THEN where ELSE place[i]]
  /\ asked' = [i \in DOMAIN asked \cup {id} |-> IF i = id THEN columns ELSE asked[i]]
  /\ UNCHANGED edited
=============================================================================
