----------------------------- MODULE KycListing -----------------------------
(***************************************************************************)
(* UserKycService.getAllKyc and BusinessKycService.getAll: which KYCs a    *)
(* caller may see, the statistics and the page of an answer, and a client  *)
(* that reads page after page until one is not full, while KYCs are filed, *)
(* verified and deleted (module Kyc).                                      *)
(*                                                                         *)
(* One table is listed in a run.  Nothing in this code changes the tree of *)
(* users, so only the walk through it takes a step per query, for the sake *)
(* of its end.  page is at least 1 and limit positive: getAllKyc makes them *)
(* so, and getAll defaults only those not given, so its clients are the    *)
(* ones that ask for such pages.  search only narrows the rows and is left *)
(* out.                                                                    *)
(***************************************************************************)
EXTENDS Naturals, Sequences, FiniteSetsExt

CONSTANTS
  Kind,       \* the services listed: "user", "business"
  Root, User, \* the accounts of either table
  Tree,       \* the hierarchies: parent, root, role and path, by user; linked, begins
  Filer,      \* the users who may file a KYC
  Status,     \* the values of the status column
  Shown,      \* those an answer of getAllKyc counts
  Filter,     \* those a client may filter by, None for no filter
  Limit,      \* rows of a page
  None,       \* SQL NULL, no status filter
  MaxTime,    \* bound: last millisecond of the clock
  MaxFiling   \* bound: KYCs ever filed

Account == Root \cup User
Count == Shown \cup {"total"}

ASSUME TreeAssumption ==
  \A t \in Tree : /\ t.parent \in [User -> User \cup {None}]
                  /\ t.root \in [User -> Root]
                  /\ DOMAIN t.role = User
                  /\ t.path \in [User -> Seq(User)]
                  /\ t.linked \subseteq User
                  /\ t.begins \subseteq User \X User
ASSUME BoundsAssumption == {MaxTime, MaxFiling} \subseteq Nat /\ Limit \in Nat \ {0}
ASSUME FiniteAssumption == IsFiniteSet(User) /\ IsFiniteSet(Shown)
ASSUME NoneAssumption == None \notin Status \cup Account /\ Root \cap User = {}
ASSUME ChoiceAssumption ==
  /\ Kind \subseteq {"user", "business"} /\ Filer \subseteq User
  /\ "PENDING" \in Status /\ Shown \subseteq Status /\ Status \cap {"total", "rows"} = {}
  /\ Filter \subseteq Status \cup {None}

VARIABLES
  kind,    \* whose table is listed
  tree,    \* the users: parentId, rootParentId, role, hierarchyPath; who an employee
           \* row names; whose customerId begins another's
  now,     \* the clock
  kyc,     \* the listed table: status and createdAt, by its unique user_id
  filings, \* how many KYCs were filed
  client,  \* who reads, its status filter, its order, and the page it is at
  req,     \* its request in flight
  \* History of a reading, from before its first page; read by no guard.
  due,     \* the KYCs that matched all the time
  seen,    \* the KYCs on its pages
  twice,   \* those that came on two of them
  event    \* "changed" during a request; "left", "entered", "tied" during the reading

config == <<kind, tree>>
table == <<now, kyc, filings>>
history == <<due, seen, twice, event>>
vars == <<config, table, client, req, history>>

Client == [who : Account \cup {None}, filter : Filter,
           order : {"asc", "desc"}, page : Nat]
Request == [at : {"idle", "scope", "walk", "query"}, todo : SUBSET (Count \cup {"rows"}),
            scope : SUBSET User, queue : SUBSET User,
            count : [Count -> Nat], rows : SUBSET User]
Away == [page |-> 0]
Idle == [at |-> "idle", todo |-> {}, scope |-> {}, queue |-> {},
         count |-> [c \in Count |-> 0], rows |-> {}]

Reading == client # Away
Finished == Reading /\ client.page = 0
Answered == req.at = "query" /\ req.todo = {}

Init ==
  /\ kind \in Kind /\ tree \in Tree
  /\ now = 0 /\ kyc = << >> /\ filings = 0
  /\ client = Away /\ req = Idle
  /\ due = {} /\ seen = {} /\ twice = {} /\ event = {}

-----------------------------------------------------------------------------
(* The queries.  An operator marked VARIANT is a plausible slip of the one  *)
(* after it, used to see that the properties notice.                       *)

Role(a) == IF a \in Root THEN "ROOT" ELSE tree.role[a]
Children(us) == {u \in User : tree.parent[u] \in us}

\* hierarchyPath is "0", then the customerIds from the top, each after a dot
\* VARIANT
NotShorter(p, q) == Len(p) >= Len(q)
StartsWith(p, q) ==
  /\ Len(p) >= Len(q)
  /\ \A i \in 1 .. Len(q) : p[i] = q[i] \/ (i = Len(q) /\ <<q[i], p[i]>> \in tree.begins)

\* getDownlineUsers
Downline(a) == {u \in User \ {a} : StartsWith(tree.path[u], tree.path[a])}

\* the where clause of every query of an answer
Matching(t, filter) == {u \in DOMAIN t : filter \in {None, t[u].status}}
Match == Matching(kyc, client.filter) \cap req.scope

Counted(c) == Cardinality({u \in Match : c \in {"total", kyc[u].status}})

\* VARIANT
Unordered(u, v) == TRUE
InOrder(u, v) == IF client.order = "desc" THEN kyc[u].at >= kyc[v].at
                                          ELSE kyc[u].at <= kyc[v].at

\* VARIANT
PagesFromZero == client.page * Limit
Skip == (client.page - 1) * Limit

Least(m, n) == IF m < n THEN m ELSE n

\* orderBy, skip and take: rows of one createdAt come in any order
IsPage(rows) ==
  /\ rows \subseteq Match
  /\ \E before \in SUBSET (Match \ rows) :
       /\ Cardinality(before) = Least(Skip, Cardinality(Match))
       /\ Cardinality(rows) = Least(Limit, Cardinality(Match \ before))
       /\ \A u \in before, v \in Match \ before : InOrder(u, v)
       /\ \A u \in rows, v \in Match \ (before \cup rows) : InOrder(u, v)

-----------------------------------------------------------------------------
(* The client: a status filter and an order for all its pages.  getAllKyc   *)
(* fixes the order, getAll does not look at who is asking.                 *)

Open(who, filter, order) ==
  /\ ~Reading
  /\ IF kind = "user" THEN who # None /\ order = "desc" ELSE who = None
  /\ client' = [who |-> who, filter |-> filter, order |-> order, page |-> 1]
  /\ due' = Matching(kyc, filter)
  /\ UNCHANGED <<config, table, req, seen, twice, event>>

\* the business service asks for no scope
Ask ==
  /\ Reading /\ client.page > 0 /\ req = Idle
  /\ req' = IF kind = "user" THEN [Idle EXCEPT !.at = "scope"]
            ELSE [Idle EXCEPT !.at = "query", !.scope = User, !.todo = {"total", "rows"}]
  /\ event' = event \ {"changed"}
  /\ UNCHANGED <<config, table, client, due, seen, twice>>

\* the last page is the first that is not full
Receive ==
  /\ Answered
  /\ req' = Idle
  /\ client' = [client EXCEPT !.page = IF Cardinality(req.rows) = Limit THEN @ + 1 ELSE 0]
  /\ UNCHANGED <<config, table, history>>

\* it has read all pages, or a request failed and it gives up
Leave ==
  /\ Finished \/ req # Idle
  /\ client' = Away /\ req' = Idle
  /\ due' = {} /\ seen' = {} /\ twice' = {} /\ event' = {}
  /\ UNCHANGED <<config, table>>

-----------------------------------------------------------------------------
(* getAccessibleScope.  created_by_root_id is never null, so a user whom    *)
(* an employee row names sees everything, whoever created that row.        *)

Scoped(scope) == req' = [req EXCEPT !.at = "query", !.scope = scope, !.todo = Count]

Scope ==
  LET who == client.who
      children == Children({who})
  IN /\ req.at = "scope"
     /\ CASE who \in tree.linked -> Scoped(User)
          [] who \notin tree.linked /\ Role(who) = "ROOT" -> Scoped(children)
          [] who \notin tree.linked /\ Role(who) = "ADMIN" ->
               req' = [req EXCEPT !.at = "walk", !.scope = {who}, !.queue = {who}]
          [] OTHER -> Scoped(children \cup Children(children))
     /\ UNCHANGED <<config, table, client, history>>

\* one turn of collectDescendants
\* VARIANT
AllOf(children, result) == children
Fresh(children, result) == children \ result

\* VARIANT
LastLevel(result, ids) == ids
Collected(result, ids) == result \cup ids

Walk ==
  LET ids == Fresh(Children(req.queue), req.scope)
  IN /\ req.at = "walk"
     /\ IF ids = {} THEN Scoped(req.scope)
        ELSE req' = [req EXCEPT !.scope = Collected(@, ids), !.queue = ids]
     /\ UNCHANGED <<config, table, client, history>>

-----------------------------------------------------------------------------
(* The counts, all at once, and the rows: after the counts in getAllKyc,   *)
(* beside the count in getAll.                                             *)

CountRows(c) ==
  /\ req.at = "query" /\ c \in req.todo
  /\ req' = [req EXCEPT !.count[c] = Counted(c),
                        !.todo = IF @ = {c} /\ kind = "user" THEN {"rows"} ELSE @ \ {c}]
  /\ UNCHANGED <<config, table, client, history>>

FindRows(rows) ==
  /\ req.at = "query" /\ "rows" \in req.todo
  /\ IsPage(rows)
  /\ req' = [req EXCEPT !.rows = rows, !.todo = @ \ {"rows"}]
  /\ event' = IF \E u, v \in Match : u # v /\ kyc[u].at = kyc[v].at
              THEN event \cup {"tied"} ELSE event
  /\ seen' = seen \cup rows /\ twice' = twice \cup (seen \cap rows)
  /\ UNCHANGED <<config, table, client, due>>

-----------------------------------------------------------------------------
(* The table changes under the reading: actions InsertKyc, VerifyWrite and *)
(* DeleteRow of module Kyc.  A filing comes last in ascending order, where *)
(* it moves no row to another page.                                        *)

Observe(filed) ==
  LET old == Matching(kyc, client.filter)
      new == Matching(kyc', client.filter)
      last == filed /\ client.order = "asc"
  IN IF Reading
     THEN /\ due' = due \cap new
          /\ event' = event \cup {"changed"}
                                   \cup (IF old \subseteq new THEN {} ELSE {"left"})
                                   \cup (IF new \subseteq old \/ last THEN {} ELSE {"entered"})
     ELSE UNCHANGED <<due, event>>

\* the columns with a default
\* VARIANT
RowWithoutStatus == [status |-> None, at |-> now]
NewRow == [status |-> "PENDING", at |-> now]

File(u) ==
  /\ u \notin DOMAIN kyc /\ filings < MaxFiling
  /\ filings' = filings + 1
  /\ kyc' = [v \in DOMAIN kyc \cup {u} |->
               IF v = u THEN NewRow ELSE kyc[v]]
  /\ Observe(TRUE)
  /\ UNCHANGED <<config, now, client, req, seen, twice>>

\* no business KYC is ever verified: see VerifyWrite
Verify(u, status) ==
  /\ kind = "user"
  /\ u \in DOMAIN kyc /\ kyc[u].status # status
  /\ kyc' = [kyc EXCEPT ![u].status = status]
  /\ Observe(FALSE)
  /\ UNCHANGED <<config, now, filings, client, req, seen, twice>>

Delete(u) ==
  /\ u \in DOMAIN kyc
  /\ kyc' = [v \in DOMAIN kyc \ {u} |-> kyc[v]]
  /\ seen' = seen \ {u}
  /\ Observe(FALSE)
  /\ UNCHANGED <<config, now, filings, client, req, twice>>

Tick ==
  /\ now < MaxTime
  /\ now' = now + 1
  /\ UNCHANGED <<config, kyc, filings, client, req, history>>

Handler ==
  \/ Scope
  \/ Walk
  \/ \E c \in Count : CountRows(c)
  \/ \E rows \in SUBSET User : FindRows(rows)

Next ==
  \/ \E who \in Account \cup {None}, filter \in Filter, order \in {"asc", "desc"} :
        Open(who, filter, order)
  \/ Ask
  \/ Handler
  \/ Receive
  \/ Leave
  \/ \E u \in Filer : File(u) \/ Delete(u) \/ \E s \in Status : Verify(u, s)
  \/ Tick

Spec == Init /\ [][Next]_vars

(* The queries of a request return. *)
FairSpec == Spec /\ WF_vars(Handler)

-----------------------------------------------------------------------------
(* What an answer may show, told from the tree alone. *)

Descendants(a) ==
  LET reach[n \in Nat] == IF n = 0 THEN {a} ELSE reach[n - 1] \cup Children(reach[n - 1])
  IN reach[Cardinality(User)]

Visible(a) ==
  CASE kind = "business" \/ a \in tree.linked -> User
    [] kind = "user" /\ a \notin tree.linked /\ Role(a) = "ADMIN" -> Descendants(a)
    [] OTHER -> {u \in User : \/ tree.parent[u] = a
                             \/ /\ Role(a) # "ROOT"
                                /\ \E v \in User : tree.parent[u] = v /\ tree.parent[v] = a}

\* every path is its parent's path and the user, as the seed writes it
Grown == \A u \in User :
           tree.path[u] = (IF tree.parent[u] = None THEN <<>> ELSE tree.path[tree.parent[u]]) \o <<u>>

Sum == MapThenSumSet(LAMBDA s : req.count[s], Shown)
Uncounted == {u \in Match : kyc[u].status \notin Shown}

(* Every variable keeps its type. *)
TypeOK ==
  /\ kind \in Kind /\ tree \in Tree
  /\ now \in 0 .. MaxTime /\ filings \in 0 .. MaxFiling
  /\ DOMAIN kyc \subseteq User
  /\ \A u \in DOMAIN kyc : kyc[u] \in [status : Status, at : 0 .. now]
  /\ client \in Client \cup {Away}
  /\ req \in Request
  /\ {due, seen, twice} \subseteq SUBSET User
  /\ event \subseteq {"changed", "left", "entered", "tied"}

(* The scope of an answer is the subtree of an ADMIN, the children of a    *)
(* ROOT, and the children and grandchildren of any other user: the walk,   *)
(* level by level and also where the rows of the tree form a cycle, finds  *)
(* each descendant.                                                        *)
ScopeExact ==
  req.at = "query" => req.scope = Visible(client.who)

(* getDownlineUsers, which compares paths, and the walk of getAllKyc, which *)
(* follows parents, find the same users below an ADMIN.  The comparison of *)
(* strings finds more where the customerId of the ADMIN begins another one.*)
ScopeIsDownline ==
  LET a == client.who
      found == Downline(a) \cup {a}
  IN req.at = "query" /\ kind = "user" /\ Role(a) = "ADMIN" /\ a \notin tree.linked /\ Grown =>
       /\ req.scope \subseteq found
       /\ (\A u \in User : <<a, u>> \notin tree.begins) => req.scope = found

(* Unless a KYC is filed, verified or deleted between its queries, an      *)
(* answer agrees with itself: the statuses add up to the total but for the *)
(* KYCs in a status that is not shown, and the page has as many rows as the*)
(* total leaves for it.                                                    *)
AnswerConsistent ==
  LET total == req.count["total"]
      before == (client.page - 1) * Limit
  IN Answered /\ "changed" \notin event =>
       /\ kind = "user" => total = Sum + Cardinality(Uncounted)
       /\ Cardinality(req.rows) = IF total <= before THEN 0 ELSE Least(Limit, total - before)

(* A client that reads until a page is not full misses a KYC that matched  *)
(* all the time only if another one stopped matching meanwhile or two were *)
(* filed in the same millisecond.  New filings hide nothing from it.       *)
MissedOnlyByRemoval ==
  Finished /\ (due \ seen) \cap Visible(client.who) # {} =>
    event \cap {"left", "tied"} # {}

(* A KYC comes on two pages only if another one started matching meanwhile *)
(* (in ascending order: other than by being filed) or two were filed in the*)
(* same millisecond.                                                       *)
TwiceOnlyByEntry == twice # {} => event \cap {"entered", "tied"} # {}

(* collectDescendants ends for every tree, a cycle of parents included.    *)
WalkEnds == req.at = "walk" ~> req.at # "walk"

(* user-kyc.service.ts: "ROOT ... DIRECT CHILDREN ONLY": the scope of a     *)
(* ROOT is the users that have it as their root and no parent.             *)
RootSeesChildren ==
  req.at = "query" /\ kind = "user" /\ client.who \in Root =>
    {u \in User : tree.root[u] = client.who /\ tree.parent[u] = None} \subseteq req.scope
=============================================================================
