-------------------------- MODULE KycListingProofs --------------------------
(***************************************************************************)
(* What KycListing guarantees for any tree of users, cycles included, any  *)
(* filters, any size of a page and any filings, verifications and          *)
(* deletions between two queries.                                          *)
(***************************************************************************)
EXTENDS KycListing, FiniteSetTheorems, TLAPS

(* Induction over the naturals, stated of a set: a number that is missing  *)
(* from it would have a least one.                                         *)
Earlier == {ss \in Nat \X Nat : ss[1] < ss[2]}

LEMMA Induction ==
  ASSUME NEW S \in SUBSET Nat, 0 \in S, \A n \in S : n + 1 \in S
  PROVE  S = Nat
<1>1. IsWellFoundedOn(Earlier, Nat)
  BY Zenon, NatLessThanWellFounded DEF OpToRel, Earlier
<1>2. SUFFICES ASSUME Nat \ S # {} PROVE FALSE
  OBVIOUS
<1>3. PICK m \in Nat \ S : \A n \in Nat \ S : <<n, m>> \notin Earlier
  BY <1>1, <1>2, WFMin, Zenon
<1>4. m # 0 /\ m - 1 \in Nat /\ <<m - 1, m>> \in Earlier
  BY DEF Earlier
<1>5. m - 1 \in S /\ m = (m - 1) + 1
  BY <1>3, <1>4
<1> QED BY <1>3, <1>5

-----------------------------------------------------------------------------
(* Types, and what a request and a reading can be. *)

ReadingInv ==
  /\ client \in Client \cup {Away}
  /\ client = Away => req = Idle /\ due = {} /\ seen = {} /\ twice = {} /\ event = {}
  /\ req # Idle => client # Away /\ client.page > 0
  /\ client # Away /\ kind = "user" => client.who \in Account

RequestInv ==
  /\ req \in Request
  /\ req.at = "idle" => req = Idle
  /\ req.at \in {"scope", "walk"} => kind = "user"
  /\ kind # "user" /\ req.at = "query" => req.scope = User /\ req.todo \subseteq {"total", "rows"}
  /\ kind = "user" => req.todo \subseteq Count \/ req.todo \subseteq {"rows"}

TypeInv == TypeOK /\ ReadingInv /\ RequestInv

LEMMA Naming ==
  /\ Count \subseteq Shown \cup {"total"} /\ Shown \subseteq Count
  /\ "rows" \notin Count /\ "total" \notin Shown /\ "total" \in Count
  BY ChoiceAssumption DEF Count

LEMMA AwayIsNone == Away \notin Client
  BY DEF Away, Client

LEMMA IdleRequest == Idle \in Request /\ Idle.at = "idle"
  BY DEF Idle, Request

(* Every set of users is finite, and so is what is counted of it.          *)
LEMMA Finite ==
  ASSUME NEW S \in SUBSET User
  PROVE  IsFiniteSet(S) /\ Cardinality(S) \in Nat
  BY FiniteAssumption, FS_Subset, FS_CardinalityType

LEMMA CountedType == ASSUME TypeOK, NEW c \in Count PROVE Counted(c) \in Nat
<1>1. {u \in Match : c \in {"total", kyc[u].status}} \in SUBSET User
  BY DEF TypeOK, Match, Matching
<1> QED BY <1>1, Finite DEF Counted

LEMMA TypeInit == Init => TypeInv
<1> SUFFICES ASSUME Init PROVE TypeInv
  OBVIOUS
<1>1. 0 \in 0 .. MaxTime /\ 0 \in 0 .. MaxFiling
  BY BoundsAssumption
<1>2. DOMAIN kyc = {}
  BY DEF Init
<1> QED
  BY <1>1, <1>2, IdleRequest DEF Init, TypeInv, TypeOK, ReadingInv, RequestInv, Idle

LEMMA OpenType ==
  ASSUME TypeInv, NEW who \in Account \cup {None}, NEW filter \in Filter,
         NEW order \in {"asc", "desc"}, Open(who, filter, order)
  PROVE  TypeInv'
<1>1. client' \in Client /\ client'.page = 1 /\ client'.who = who
  BY DEF Open, Client
<1>2. Matching(kyc, filter) \subseteq User
  BY DEF TypeInv, TypeOK, Matching
<1>3. TypeOK'
  BY <1>1, <1>2 DEF TypeInv, TypeOK, Open, config, table
<1>4. client = Away /\ req = Idle
  BY DEF Open, Reading, TypeInv, ReadingInv
<1>5. ReadingInv'
  BY <1>1, <1>4, AwayIsNone DEF Open, ReadingInv, config
<1>6. RequestInv'
  BY DEF Open, TypeInv, RequestInv, config
<1> QED BY <1>3, <1>5, <1>6 DEF TypeInv

LEMMA AskType == TypeInv /\ Ask => TypeInv'
<1> SUFFICES ASSUME TypeInv, Ask PROVE TypeInv'
  OBVIOUS
<1>1. /\ req' \in Request
      /\ req'.at \in {"scope", "query"}
      /\ req'.at = "scope" <=> kind = "user"
      /\ kind = "user" => req'.todo = {}
      /\ kind # "user" => req'.scope = User /\ req'.todo = {"total", "rows"}
  BY Naming DEF Ask, Request, Idle
<1>2. TypeOK'
  BY <1>1 DEF TypeInv, TypeOK, Ask, config, table
<1>3. ReadingInv'
  BY DEF TypeInv, ReadingInv, Ask, config, Reading
<1>4. RequestInv'
  BY <1>1 DEF RequestInv, Ask, config
<1> QED BY <1>2, <1>3, <1>4 DEF TypeInv

LEMMA ReceiveType == TypeInv /\ Receive => TypeInv'
<1> SUFFICES ASSUME TypeInv, Receive PROVE TypeInv'
  OBVIOUS
<1>1. client \in Client /\ client.page > 0
  BY IdleRequest DEF Receive, Answered, TypeInv, ReadingInv
<1>2. client' \in Client /\ client'.who = client.who
  BY <1>1 DEF Receive, Client
<1>3. TypeOK'
  BY <1>2, IdleRequest DEF TypeInv, TypeOK, Receive, config, table, history
<1>4. ReadingInv'
  BY <1>1, <1>2, AwayIsNone DEF TypeInv, ReadingInv, Receive, config
<1>5. RequestInv'
  BY IdleRequest DEF TypeInv, RequestInv, Receive, config, Idle
<1> QED BY <1>3, <1>4, <1>5 DEF TypeInv

LEMMA LeaveType == TypeInv /\ Leave => TypeInv'
<1> SUFFICES ASSUME TypeInv, Leave PROVE TypeInv'
  OBVIOUS
<1>1. TypeOK'
  BY IdleRequest DEF TypeInv, TypeOK, Leave, config, table
<1>2. ReadingInv' /\ RequestInv'
  BY IdleRequest DEF TypeInv, ReadingInv, RequestInv, Leave, config, Idle
<1> QED BY <1>1, <1>2 DEF TypeInv

(* A step of a handler leaves the client at its page, and is sound when    *)
(* the request that it leaves behind is.                                   *)
LEMMA HandlerType ==
  ASSUME TypeInv, req.at # "idle",
         UNCHANGED <<config, table, client, due>>,
         req' \in Request, req'.at \in {"walk", "query"},
         req'.at = "walk" => kind = "user",
         kind = "user" => req'.todo \subseteq Count \/ req'.todo \subseteq {"rows"},
         kind # "user" => req'.scope = User /\ req'.todo \subseteq {"total", "rows"},
         seen' \subseteq User, twice' \subseteq User,
         event' \subseteq event \cup {"tied"}
  PROVE  TypeInv'
<1>1. TypeOK'
  BY DEF TypeInv, TypeOK, config, table
<1>2. client # Away /\ client.page > 0
  BY IdleRequest DEF TypeInv, ReadingInv
<1>3. ReadingInv'
  BY <1>2 DEF TypeInv, ReadingInv, config
<1>4. RequestInv'
  BY DEF RequestInv, config
<1> QED BY <1>1, <1>3, <1>4 DEF TypeInv

LEMMA ScopeType == TypeInv /\ Scope => TypeInv'
<1> SUFFICES ASSUME TypeInv, Scope PROVE TypeInv'
  OBVIOUS
<1> DEFINE who == client.who
<1>0. req \in Request /\ req.at = "scope" /\ kind = "user"
  BY DEF TypeInv, RequestInv, Scope
<1>1. client # Away /\ who \in Account
  BY <1>0, IdleRequest DEF TypeInv, ReadingInv
<1>2. ASSUME NEW S \in SUBSET User, Scoped(S)
      PROVE  req' \in Request /\ req'.at = "query" /\ req'.todo = Count
  BY <1>0, <1>2 DEF Scoped, Request
<1>3. CASE \E S \in SUBSET User : Scoped(S)
  <2>1. req' \in Request /\ req'.at = "query" /\ req'.todo = Count
    BY <1>2, <1>3
  <2> QED BY <1>0, <2>1, HandlerType DEF Scope, history, TypeInv, TypeOK
<1>4. CASE /\ who \in User
           /\ req' = [req EXCEPT !.at = "walk", !.scope = {who}, !.queue = {who}]
  <2>1. req' \in Request /\ req'.at = "walk" /\ req'.todo = req.todo
    BY <1>0, <1>4 DEF Request
  <2> QED
    BY <1>0, <2>1, HandlerType DEF Scope, history, TypeInv, TypeOK, RequestInv
<1>5. \A us : Children(us) \in SUBSET User
  BY DEF Children
<1>6. Role(who) = "ADMIN" => who \in User
  BY <1>1 DEF Role, Account
<1>7. Children({who}) \cup Children(Children({who})) \in SUBSET User
  BY <1>5
<1> HIDE DEF who
<1> QED BY <1>3, <1>4, <1>5, <1>6, <1>7 DEF Scope, who

LEMMA WalkType == TypeInv /\ Walk => TypeInv'
<1> SUFFICES ASSUME TypeInv, Walk PROVE TypeInv'
  OBVIOUS
<1> DEFINE ids == Fresh(Children(req.queue), req.scope)
<1>0. req \in Request /\ req.at = "walk" /\ kind = "user" /\ ids \in SUBSET User
  BY DEF TypeInv, RequestInv, Walk, Fresh, Children
<1>1. CASE Scoped(req.scope)
  <2>1. req' \in Request /\ req'.at = "query" /\ req'.todo = Count
    BY <1>0, <1>1 DEF Scoped, Request
  <2> QED BY <1>0, <2>1, HandlerType DEF Walk, history, TypeInv, TypeOK
<1>2. CASE req' = [req EXCEPT !.scope = Collected(@, ids), !.queue = ids]
  <2>1. req' \in Request /\ req'.at = "walk" /\ req'.todo = req.todo
    BY <1>0, <1>2 DEF Request, Collected
  <2> QED
    BY <1>0, <2>1, HandlerType DEF Walk, history, TypeInv, TypeOK, RequestInv
<1> QED BY <1>1, <1>2 DEF Walk

LEMMA CountRowsType ==
  ASSUME TypeInv, NEW c \in Count, CountRows(c)
  PROVE  TypeInv'
<1>0. req \in Request /\ req.at = "query" /\ c \in req.todo
  BY DEF TypeInv, RequestInv, CountRows
<1>1. Counted(c) \in Nat
  BY CountedType DEF TypeInv
<1>2. /\ req' \in Request /\ req'.at = "query" /\ req'.scope = req.scope
      /\ req'.todo = IF req.todo = {c} /\ kind = "user" THEN {"rows"} ELSE req.todo \ {c}
  BY <1>0, <1>1 DEF CountRows, Request
<1>3. kind = "user" => req.todo \subseteq Count
  BY <1>0, Naming DEF TypeInv, RequestInv
<1> QED
  BY <1>0, <1>2, <1>3, HandlerType DEF CountRows, history, TypeInv, TypeOK, RequestInv

LEMMA FindRowsType ==
  ASSUME TypeInv, NEW rows \in SUBSET User, FindRows(rows)
  PROVE  TypeInv'
<1>0. req \in Request /\ req.at = "query" /\ "rows" \in req.todo
  BY DEF TypeInv, RequestInv, FindRows
<1>1. /\ req' \in Request /\ req'.at = "query" /\ req'.scope = req.scope
      /\ req'.todo = req.todo \ {"rows"}
  BY <1>0 DEF FindRows, Request
<1>2. seen' \subseteq User /\ twice' \subseteq User /\ event' \subseteq event \cup {"tied"}
  BY DEF FindRows, TypeInv, TypeOK
<1> QED
  BY <1>0, <1>1, <1>2, HandlerType DEF FindRows, TypeInv, RequestInv

(* A step of the table leaves the request alone and only shrinks what is   *)
(* due or seen.                                                            *)
LEMMA TableType ==
  ASSUME TypeInv, NEW filed \in BOOLEAN, Observe(filed),
         UNCHANGED <<config, client, req, twice>>, seen' \subseteq seen,
         now' \in 0 .. MaxTime, filings' \in 0 .. MaxFiling,
         DOMAIN kyc' \subseteq User,
         \A u \in DOMAIN kyc' : kyc'[u] \in [status : Status, at : 0 .. now']
  PROVE  TypeInv'
<1>1. /\ due' \subseteq due
      /\ event' \subseteq event \cup {"changed", "left", "entered"}
      /\ client = Away => due' = due /\ event' = event
  BY Zenon DEF Observe, Reading
<1>2. TypeOK'
  BY <1>1 DEF TypeInv, TypeOK, config
<1>3. ReadingInv'
  BY <1>1 DEF TypeInv, ReadingInv, config
<1>4. RequestInv'
  BY DEF TypeInv, RequestInv, config
<1> QED BY <1>2, <1>3, <1>4 DEF TypeInv

LEMMA FileType == ASSUME TypeInv, NEW u \in Filer, File(u) PROVE TypeInv'
<1>1. DOMAIN kyc' = DOMAIN kyc \cup {u} /\ u \in User
  BY ChoiceAssumption DEF File
<1>2. NewRow \in [status : Status, at : 0 .. now]
  BY ChoiceAssumption DEF NewRow, TypeInv, TypeOK
<1>3. \A v \in DOMAIN kyc' : kyc'[v] \in [status : Status, at : 0 .. now]
  BY <1>1, <1>2 DEF File, TypeInv, TypeOK
<1>4. filings' \in 0 .. MaxFiling
  BY BoundsAssumption DEF File, TypeInv, TypeOK
<1> QED BY <1>1, <1>3, <1>4, TableType DEF File, TypeInv, TypeOK

LEMMA VerifyType ==
  ASSUME TypeInv, NEW u \in Filer, NEW s \in Status, Verify(u, s)
  PROVE  TypeInv'
<1>1. DOMAIN kyc' = DOMAIN kyc
  BY DEF Verify
<1>2. \A v \in DOMAIN kyc' : kyc'[v] \in [status : Status, at : 0 .. now]
  BY DEF Verify, TypeInv, TypeOK
<1> QED BY <1>1, <1>2, TableType DEF Verify, TypeInv, TypeOK

LEMMA DeleteType == ASSUME TypeInv, NEW u \in Filer, Delete(u) PROVE TypeInv'
<1>1. DOMAIN kyc' \subseteq DOMAIN kyc
  BY DEF Delete
<1>2. \A v \in DOMAIN kyc' : kyc'[v] \in [status : Status, at : 0 .. now]
  BY DEF Delete, TypeInv, TypeOK
<1> QED BY <1>1, <1>2, TableType DEF Delete, TypeInv, TypeOK

LEMMA TickType == TypeInv /\ Tick => TypeInv'
<1> SUFFICES ASSUME TypeInv, Tick PROVE TypeInv'
  OBVIOUS
<1>1. now' \in 0 .. MaxTime /\ 0 .. now \subseteq 0 .. now'
  BY BoundsAssumption DEF Tick, TypeInv, TypeOK
<1>2. TypeOK'
  BY <1>1 DEF Tick, TypeInv, TypeOK, config, history
<1>3. ReadingInv' /\ RequestInv'
  BY DEF Tick, TypeInv, ReadingInv, RequestInv, config, history
<1> QED BY <1>2, <1>3 DEF TypeInv

LEMMA TypeNext == TypeInv /\ [Next]_vars => TypeInv'
<1> SUFFICES ASSUME TypeInv, [Next]_vars PROVE TypeInv'
  OBVIOUS
<1>1. CASE UNCHANGED vars
  <2>1. TypeOK' /\ ReadingInv' /\ RequestInv'
    BY <1>1 DEF vars, config, table, history, TypeInv, TypeOK, ReadingInv, RequestInv
  <2> QED BY <2>1 DEF TypeInv
<1>2. CASE Handler
  BY <1>2, ScopeType, WalkType, CountRowsType, FindRowsType DEF Handler
<1> QED
  BY <1>1, <1>2, OpenType, AskType, ReceiveType, LeaveType, FileType, DeleteType,
     VerifyType, TickType DEF Next

(* Every variable keeps its type. *)
THEOREM TypeCorrect == Spec => []TypeOK
<1>1. TypeInv => TypeOK
  BY DEF TypeInv
<1> QED BY <1>1, TypeInit, TypeNext, PTL DEF Spec

-----------------------------------------------------------------------------
(* The descendants of a user: the least set of users with it that holds    *)
(* the children of its members.                                            *)

(* The users that n steps reach, each to a child or nowhere.               *)
Steps(a, n) == {p \in [0 .. n -> User] :
                  p[0] = a /\ \A i \in 1 .. n : p[i] = p[i - 1] \/ tree.parent[p[i]] = p[i - 1]}
Reached(a, n) == {p[n] : p \in Steps(a, n)}

LEMMA ReachedZero == ASSUME NEW a \in User PROVE Reached(a, 0) = {a}
<1>1. [i \in 0 .. 0 |-> a] \in Steps(a, 0)
  BY DEF Steps
<1>2. a \in Reached(a, 0)
  BY <1>1 DEF Reached
<1>3. \A p \in Steps(a, 0) : p[0] = a
  BY DEF Steps
<1> QED BY <1>2, <1>3 DEF Reached

LEMMA ReachedStep ==
  ASSUME NEW a \in User, NEW n \in Nat
  PROVE  Reached(a, n + 1) = Reached(a, n) \cup Children(Reached(a, n))
<1>1. ASSUME NEW u \in Reached(a, n + 1)
      PROVE  u \in Reached(a, n) \cup Children(Reached(a, n))
  <2>1. PICK p \in Steps(a, n + 1) : u = p[n + 1]
    BY <1>1 DEF Reached
  <2> DEFINE q == [i \in 0 .. n |-> p[i]]
  <2>2. q \in Steps(a, n) /\ q[n] = p[n]
    BY <2>1 DEF Steps
  <2>3. p[n] \in Reached(a, n)
    BY <2>2 DEF Reached
  <2>4. u \in User /\ (u = p[n] \/ tree.parent[u] = p[n])
    BY <2>1 DEF Steps
  <2> QED BY <2>3, <2>4 DEF Children
<1>2. ASSUME NEW v \in Reached(a, n), NEW u \in User, u = v \/ tree.parent[u] = v
      PROVE  u \in Reached(a, n + 1)
  <2>1. PICK p \in Steps(a, n) : v = p[n]
    BY <1>2 DEF Reached
  <2> DEFINE q == [i \in 0 .. n + 1 |-> IF i = n + 1 THEN u ELSE p[i]]
  <2>2. q \in [0 .. n + 1 -> User] /\ q[0] = a /\ q[n + 1] = u
    BY <2>1 DEF Steps
  <2>3. ASSUME NEW i \in 1 .. n + 1
        PROVE  q[i] = q[i - 1] \/ tree.parent[q[i]] = q[i - 1]
    <3>1. CASE i = n + 1
      BY <1>2, <2>1, <3>1
    <3>2. CASE i # n + 1
      <4>1. i \in 1 .. n /\ i - 1 \in 0 .. n
        BY <3>2
      <4>2. q[i] = p[i] /\ q[i - 1] = p[i - 1]
        BY <4>1
      <4> QED BY <2>1, <4>1, <4>2 DEF Steps
    <3> QED BY <3>1, <3>2
  <2>4. q \in Steps(a, n + 1)
    <3> HIDE DEF q
    <3> QED BY <2>2, <2>3 DEF Steps
  <2> QED BY <2>2, <2>4 DEF Reached
<1>3. Reached(a, n) \subseteq User
  BY DEF Reached, Steps
<1> QED BY <1>1, <1>2, <1>3 DEF Children

LEMMA DescendantsReached ==
  ASSUME NEW a \in User
  PROVE  Descendants(a) = Reached(a, Cardinality(User))
<1> DEFINE reach[n \in Nat] ==
             IF n = 0 THEN {a} ELSE reach[n - 1] \cup Children(reach[n - 1])
           R(f) == [n \in Nat |-> IF n = 0 THEN {a} ELSE f[n - 1] \cup Children(f[n - 1])]
           f0 == [n \in Nat |-> Reached(a, n)]
<1>1. f0 = R(f0)
  <2>1. ASSUME NEW n \in Nat PROVE f0[n] = R(f0)[n]
    <3>1. CASE n = 0
      BY <3>1, ReachedZero
    <3>2. CASE n # 0
      <4>1. n - 1 \in Nat /\ n = (n - 1) + 1
        BY <3>2
      <4>2. Reached(a, n) = Reached(a, n - 1) \cup Children(Reached(a, n - 1))
        BY <4>1, ReachedStep
      <4> QED BY <3>2, <4>1, <4>2
    <3> QED BY <3>1, <3>2
  <2> QED BY <2>1
<1>2. reach = R(reach)
  <2>1. reach = CHOOSE f : f = R(f)
    OBVIOUS
  <2> HIDE DEF reach, R, f0
  <2> QED BY <1>1, <2>1
<1>3. \A n \in Nat : reach[n] = f0[n]
  <2> DEFINE S == {n \in Nat : reach[n] = f0[n]}
  <2>1. 0 \in S
    BY <1>2, ReachedZero
  <2>2. ASSUME NEW n \in S PROVE n + 1 \in S
    <3>1. n \in Nat /\ n + 1 \in Nat /\ n + 1 # 0 /\ (n + 1) - 1 = n
      OBVIOUS
    <3>2. reach[n] = Reached(a, n)
      OBVIOUS
    <3>3. reach[n + 1] = reach[n] \cup Children(reach[n])
      <4> HIDE DEF reach
      <4> QED BY <1>2, <3>1
    <3> HIDE DEF reach
    <3> QED BY <3>1, <3>2, <3>3, ReachedStep
  <2>3. S \in SUBSET Nat
    OBVIOUS
  <2>4. S = Nat
    <3> HIDE DEF S
    <3> QED BY <2>1, <2>2, <2>3, Induction
  <2> QED BY <2>4
<1>4. Descendants(a) = reach[Cardinality(User)]
  BY DEF Descendants
<1> QED BY <1>3, <1>4, Finite

(* A set of users that is closed under children.                           *)
Closed(S) == Children(S) \subseteq S

LEMMA DescendantsInClosed ==
  ASSUME NEW a \in User, NEW T, a \in T, Closed(T)
  PROVE  Descendants(a) \subseteq T
<1> DEFINE S == {n \in Nat : Reached(a, n) \subseteq T}
<1>1. 0 \in S
  BY ReachedZero
<1>2. ASSUME NEW n \in S PROVE n + 1 \in S
  BY ReachedStep DEF Closed, Children
<1>3. S \in SUBSET Nat
  OBVIOUS
<1>4. S = Nat
  <2> HIDE DEF S
  <2> QED BY <1>1, <1>2, <1>3, Induction
<1> QED BY <1>4, DescendantsReached, Finite

(* As long as a step reaches a new user there is one user more: the number *)
(* of users bounds the number of such steps.                               *)
LEMMA DescendantsClosed ==
  ASSUME NEW a \in User
  PROVE  /\ a \in Descendants(a) /\ Descendants(a) \subseteq User
         /\ Closed(Descendants(a))
<1> DEFINE R(n) == Reached(a, n)
           S == {n \in Nat : a \in R(n) /\ (Closed(R(n)) \/ Cardinality(R(n)) >= n + 1)}
<1>0. \A n \in Nat : R(n) \in SUBSET User
  BY DEF Reached, Steps
<1>1. 0 \in S
  <2>1. R(0) = {a} /\ Cardinality({a}) = 1
    BY ReachedZero, FS_Singleton
  <2> HIDE DEF R
  <2> QED BY <2>1
<1>2. ASSUME NEW n \in S PROVE n + 1 \in S
  <2>1. R(n + 1) = R(n) \cup Children(R(n))
    BY ReachedStep
  <2>2. CASE Closed(R(n))
    <3>1. R(n + 1) = R(n)
      BY <2>1, <2>2 DEF Closed
    <3> QED BY <2>2, <3>1
  <2>3. CASE ~Closed(R(n))
    <3>1. R(n) # R(n + 1) /\ R(n) \subseteq R(n + 1)
      BY <2>1, <2>3 DEF Closed
    <3>2. Cardinality(R(n + 1)) > Cardinality(R(n))
      <4> HIDE DEF R
      <4>1. /\ IsFiniteSet(R(n + 1)) /\ Cardinality(R(n + 1)) \in Nat
            /\ Cardinality(R(n)) \in Nat
        BY <1>0, Finite
      <4> QED BY <3>1, <4>1, FS_Subset
    <3>3. Cardinality(R(n)) >= n + 1
      BY <2>3
    <3>4. Cardinality(R(n)) \in Nat /\ Cardinality(R(n + 1)) \in Nat
      BY <1>0, Finite
    <3>5. Cardinality(R(n + 1)) >= (n + 1) + 1
      <4> HIDE DEF R
      <4> QED BY <3>2, <3>3, <3>4
    <3> QED BY <2>1, <3>5
  <2> QED BY <2>2, <2>3
<1>3. S \in SUBSET Nat
  OBVIOUS
<1>4. S = Nat
  <2> HIDE DEF S
  <2> QED BY <1>1, <1>2, <1>3, Induction
<1> DEFINE N == Cardinality(User)
<1>5. N \in Nat /\ R(N) \in SUBSET User /\ Cardinality(R(N)) <= N
  BY <1>0, Finite, FiniteAssumption, FS_Subset
<1>6. Cardinality(R(N)) \in Nat
  BY <1>5, Finite
<1>7. N \in S
  BY <1>4, <1>5
<1>8. a \in R(N) /\ Closed(R(N))
  <2>1. a \in R(N) /\ (Closed(R(N)) \/ Cardinality(R(N)) >= N + 1)
    BY <1>7
  <2> HIDE DEF R, N
  <2> QED BY <1>5, <1>6, <2>1
<1> QED BY <1>5, <1>8, DescendantsReached

-----------------------------------------------------------------------------
(* The scope of an answer. *)

Walks(a) == kind = "user" /\ a \in User \ tree.linked /\ Role(a) = "ADMIN"

(* What a walk has collected lies below its ADMIN, and only the children   *)
(* of its last level may still be missing.                                 *)
WalkInv ==
  req.at = "walk" =>
    /\ Walks(client.who)
    /\ client.who \in req.scope /\ req.scope \subseteq Descendants(client.who)
    /\ req.queue \subseteq req.scope
    /\ Children(req.scope \ req.queue) \subseteq req.scope

ScopeInv == TypeInv /\ WalkInv /\ ScopeExact

LEMMA ScopeInit == Init => ScopeInv
<1>1. Init => WalkInv /\ ScopeExact
  BY DEF Init, WalkInv, ScopeExact, Idle
<1> QED BY <1>1, TypeInit DEF ScopeInv

(* The tree and the services never change, so neither do the sets of users *)
(* that are told from them.                                                *)
LEMMA ScopeKept ==
  ASSUME ScopeInv, UNCHANGED <<config, client>>,
         req'.at = req.at, req'.scope = req.scope, req'.queue = req.queue
  PROVE  WalkInv' /\ ScopeExact'
  BY DEF ScopeInv, WalkInv, ScopeExact, config, Walks, Visible, Descendants, Children, Role

LEMMA ScopeStarts ==
  ASSUME UNCHANGED config, req'.at \in {"idle", "scope"}
  PROVE  WalkInv' /\ ScopeExact'
  BY DEF WalkInv, ScopeExact

LEMMA ScopeScope == ScopeInv /\ Scope => WalkInv' /\ ScopeExact'
<1> SUFFICES ASSUME ScopeInv, Scope PROVE WalkInv' /\ ScopeExact'
  OBVIOUS
<1> DEFINE who == client.who
           children == Children({who})
<1>0. /\ req \in Request /\ req.at = "scope" /\ kind = "user" /\ who \in Account
      /\ who' = who /\ tree' = tree /\ kind' = kind
  BY IdleRequest DEF ScopeInv, TypeInv, RequestInv, ReadingInv, Scope, config
<1>1. ASSUME NEW S, Scoped(S), S = Visible(who)
      PROVE  WalkInv' /\ ScopeExact'
  <2>1. req'.at = "query" /\ req'.scope = S
    BY <1>0, <1>1 DEF Scoped, Request
  <2>2. Visible(who)' = Visible(who)
    BY <1>0 DEF Visible, Descendants, Children, Role
  <2> QED BY <1>0, <1>1, <2>1, <2>2 DEF WalkInv, ScopeExact
<1>3. CASE who \in tree.linked
  <2>1. Scoped(User) /\ Visible(who) = User
    BY <1>3 DEF Scope, Visible
  <2> QED BY <1>1, <2>1
<1>4. CASE who \notin tree.linked /\ Role(who) = "ADMIN"
  <2>1. who \in User
    BY <1>0, <1>4 DEF Role, Account
  <2>2. req' = [req EXCEPT !.at = "walk", !.scope = {who}, !.queue = {who}]
    BY <1>4 DEF Scope
  <2>3. req'.at = "walk" /\ req'.scope = {who} /\ req'.queue = {who}
    BY <1>0, <2>2 DEF Request
  <2>4. /\ Walks(who)' /\ Descendants(who)' = Descendants(who)
        /\ Children({who} \ {who})' = {}
    BY <1>0, <1>4, <2>1 DEF Walks, Descendants, Children, Role
  <2>5. WalkInv'
    BY <1>0, <2>1, <2>3, <2>4, DescendantsClosed DEF WalkInv
  <2> QED BY <2>3, <2>5 DEF ScopeExact
<1>5. CASE who \notin tree.linked /\ Role(who) # "ADMIN"
  <2>1. \/ Role(who) = "ROOT" /\ Scoped(children)
        \/ Role(who) # "ROOT" /\ Scoped(children \cup Children(children))
    BY <1>5 DEF Scope
  <2>2. Visible(who) = {u \in User : \/ tree.parent[u] = who
                                    \/ /\ Role(who) # "ROOT"
                                       /\ \E v \in User : /\ tree.parent[u] = v
                                                          /\ tree.parent[v] = who}
    BY <1>0, <1>5 DEF Visible
  <2>3. Visible(who) = IF Role(who) = "ROOT" THEN children
                       ELSE children \cup Children(children)
    BY <2>2 DEF Children
  <2> QED BY <1>1, <2>1, <2>3
<1> QED BY <1>3, <1>4, <1>5

LEMMA ScopeWalk == ScopeInv /\ Walk => WalkInv' /\ ScopeExact'
<1> SUFFICES ASSUME ScopeInv, Walk PROVE WalkInv' /\ ScopeExact'
  OBVIOUS
<1> DEFINE who == client.who
           D == Descendants(who)
           ids == Fresh(Children(req.queue), req.scope)
<1>0. /\ req \in Request /\ req.at = "walk"
      /\ who' = who /\ tree' = tree /\ kind' = kind
  BY DEF ScopeInv, TypeInv, RequestInv, Walk, config
<1>1. /\ Walks(who) /\ who \in req.scope /\ req.scope \subseteq D
      /\ req.queue \subseteq req.scope /\ Children(req.scope \ req.queue) \subseteq req.scope
  BY <1>0 DEF ScopeInv, WalkInv
<1>2. who \in User /\ D \subseteq User /\ Closed(D)
  BY <1>1, DescendantsClosed DEF Walks
<1>3. Visible(who) = D
  BY <1>1 DEF Visible, Walks
<1>4. /\ D' = D /\ Visible(who)' = Visible(who) /\ Walks(who)' = Walks(who)
      /\ \A S : Children(S)' = Children(S)
  BY <1>0 DEF Visible, Descendants, Children, Role, Walks
<1>5. CASE ids = {}
  <2>1. req'.at = "query" /\ req'.scope = req.scope
    BY <1>0, <1>5 DEF Walk, Scoped, Request
  <2>2. Closed(req.scope)
    BY <1>1, <1>5 DEF Fresh, Closed, Children
  <2>3. D \subseteq req.scope
    BY <1>1, <1>2, <2>2, DescendantsInClosed
  <2> QED
    BY <1>0, <1>1, <1>3, <1>4, <2>1, <2>3 DEF WalkInv, ScopeExact
<1>6. CASE ids # {}
  <2>1. req'.at = "walk" /\ req'.scope = req.scope \cup ids /\ req'.queue = ids
    BY <1>0, <1>6 DEF Walk, Collected, Request
  <2>2. ids \subseteq D
    BY <1>1, <1>2 DEF Fresh, Closed, Children
  <2>3. Children((req.scope \cup ids) \ ids) \subseteq req.scope \cup ids
    BY <1>1 DEF Fresh, Children
  <2> QED
    BY <1>0, <1>1, <1>4, <2>1, <2>2, <2>3 DEF WalkInv, ScopeExact
<1> QED BY <1>5, <1>6

LEMMA ScopeNext == ScopeInv /\ [Next]_vars => ScopeInv'
<1> SUFFICES ASSUME ScopeInv, [Next]_vars PROVE WalkInv' /\ ScopeExact'
  BY TypeNext DEF ScopeInv
<1>0. TypeInv /\ req \in Request /\ Idle.at = "idle"
  BY IdleRequest DEF ScopeInv, TypeInv, RequestInv
<1>1. CASE UNCHANGED vars
  BY <1>1, ScopeKept DEF vars
<1>2. ASSUME NEW who \in Account \cup {None}, NEW filter \in Filter, NEW order \in {"asc", "desc"},
             Open(who, filter, order)
      PROVE  WalkInv' /\ ScopeExact'
  BY <1>0, <1>2, ScopeStarts DEF Open, Reading, TypeInv, ReadingInv
<1>3. CASE Ask
  <2>1. CASE kind = "user"
    BY <1>3, <2>1, IdleRequest, ScopeStarts DEF Ask, Request
  <2>2. CASE kind # "user"
    <3>1. req'.at = "query" /\ req'.scope = User /\ kind' = "business"
      BY <1>0, <1>3, <2>2, IdleRequest, ChoiceAssumption DEF Ask, Request, TypeInv, TypeOK, config
    <3> QED BY <3>1 DEF WalkInv, ScopeExact, Visible
  <2> QED BY <2>1, <2>2
<1>4. CASE Receive \/ Leave
  BY <1>0, <1>4, ScopeStarts DEF Receive, Leave
<1>5. ASSUME NEW c \in Count, CountRows(c) PROVE WalkInv' /\ ScopeExact'
  BY <1>0, <1>5, ScopeKept DEF CountRows, Request
<1>6. ASSUME NEW rows \in SUBSET User, FindRows(rows) PROVE WalkInv' /\ ScopeExact'
  BY <1>0, <1>6, ScopeKept DEF FindRows, Request
<1>7. ASSUME NEW u \in Filer, File(u) \/ Delete(u) \/ \E s \in Status : Verify(u, s)
      PROVE  WalkInv' /\ ScopeExact'
  BY <1>7, ScopeKept DEF File, Delete, Verify
<1>8. CASE Tick
  BY <1>8, ScopeKept DEF Tick
<1> QED
  BY <1>1, <1>2, <1>3, <1>4, <1>5, <1>6, <1>7, <1>8, ScopeScope, ScopeWalk DEF Next, Handler

(* The scope of an answer is what the tree says its caller may see.        *)
THEOREM ScopeTheorem == Spec => []ScopeExact
<1>1. ScopeInv => ScopeExact
  BY DEF ScopeInv
<1> QED BY <1>1, ScopeInit, ScopeNext, PTL DEF Spec

-----------------------------------------------------------------------------
(* The walk and the paths. *)

LEMMA GrownPath ==
  ASSUME tree \in Tree, Grown, NEW u \in User
  PROVE  /\ tree.path[u] \in Seq(User) /\ Len(tree.path[u]) \in Nat \ {0}
         /\ tree.path[u][Len(tree.path[u])] = u
         /\ tree.parent[u] = None => tree.path[u] = <<u>>
         /\ tree.parent[u] # None =>
              /\ tree.parent[u] \in User
              /\ tree.path[u] = tree.path[tree.parent[u]] \o <<u>>
<1>1. tree.parent[u] \in User \cup {None} /\ tree.path \in [User -> Seq(User)]
  BY TreeAssumption
<1>2. tree.path[u] = (IF tree.parent[u] = None THEN <<>> ELSE tree.path[tree.parent[u]]) \o <<u>>
  BY DEF Grown
<1>3. CASE tree.parent[u] = None
  <2>1. tree.path[u] = <<u>>
    BY <1>2, <1>3
  <2> QED BY <1>3, <2>1
<1>4. CASE tree.parent[u] # None
  <2>1. tree.parent[u] \in User /\ tree.path[tree.parent[u]] \in Seq(User)
    BY <1>1, <1>4
  <2>2. tree.path[u] = tree.path[tree.parent[u]] \o <<u>>
    BY <1>2, <1>4
  <2>3. \A p \in Seq(User) : LET q == p \o <<u>>
                            IN q \in Seq(User) /\ Len(q) \in Nat \ {0} /\ q[Len(q)] = u
    OBVIOUS
  <2>4. /\ tree.path[u] \in Seq(User) /\ Len(tree.path[u]) \in Nat \ {0}
        /\ tree.path[u][Len(tree.path[u])] = u
    BY <2>1, <2>2, <2>3, Zenon
  <2> QED BY <1>4, <2>1, <2>2, <2>4
<1> QED BY <1>3, <1>4

LEMMA StartsWithParent ==
  ASSUME NEW p \in Seq(User), NEW q \in Seq(User), NEW u, StartsWith(p, q)
  PROVE  StartsWith(p \o <<u>>, q)
<1>1. Len(p) \in Nat /\ Len(q) \in Nat /\ Len(p \o <<u>>) = Len(p) + 1
  OBVIOUS
<1>2. ASSUME NEW i \in 1 .. Len(q) PROVE (p \o <<u>>)[i] = p[i]
  BY <1>1 DEF StartsWith
<1> QED BY <1>1, <1>2 DEF StartsWith

(* The users whose path starts with that of a hold the children of each.   *)
LEMMA StartsWithClosed ==
  ASSUME tree \in Tree, Grown, NEW a \in User
  PROVE  Descendants(a) \subseteq Downline(a) \cup {a}
<1> DEFINE T == {u \in User : StartsWith(tree.path[u], tree.path[a])}
<1>1. a \in T
  BY GrownPath DEF StartsWith
<1>2. Closed(T)
  <2> SUFFICES ASSUME NEW u \in User, tree.parent[u] \in T
               PROVE u \in T
    BY DEF Closed, Children
  <2>1. /\ tree.parent[u] \in User /\ tree.path[u] = tree.path[tree.parent[u]] \o <<u>>
        /\ tree.path[a] \in Seq(User) /\ tree.path[tree.parent[u]] \in Seq(User)
    <3>1. tree.parent[u] \in User
      OBVIOUS
    <3> QED BY <3>1, GrownPath, NoneAssumption DEF Account
  <2> QED BY <2>1, StartsWithParent
<1>3. Descendants(a) \subseteq T
  <2> HIDE DEF T
  <2> QED BY <1>1, <1>2, DescendantsInClosed
<1> QED BY <1>3 DEF Downline

(* Conversely, where no customerId begins with that of a, a path that      *)
(* starts with that of a is its own or goes through a child of a.          *)
LEMMA DownlineDescends ==
  ASSUME tree \in Tree, Grown, NEW a \in User, \A u \in User : <<a, u>> \notin tree.begins
  PROVE  Downline(a) \cup {a} \subseteq Descendants(a)
<1> DEFINE D == Descendants(a)
           q == tree.path[a]
           S == {n \in Nat : \A u \in User :
                   Len(tree.path[u]) <= n /\ StartsWith(tree.path[u], q) => u \in D}
<1>0. a \in D /\ Closed(D)
  BY DescendantsClosed
<1>q. q \in Seq(User) /\ Len(q) \in Nat \ {0} /\ q[Len(q)] = a
  BY GrownPath
<1>1. 0 \in S
  <2>1. \A u \in User : Len(tree.path[u]) \in Nat \ {0}
    BY GrownPath
  <2> QED BY <2>1
<1>2. ASSUME NEW n \in S PROVE n + 1 \in S
  <2> SUFFICES ASSUME NEW u \in User, Len(tree.path[u]) <= n + 1, StartsWith(tree.path[u], q)
               PROVE  u \in D
    OBVIOUS
  <2> DEFINE p == tree.path[u]
             v == tree.parent[u]
  <2>1. /\ p \in Seq(User) /\ Len(p) \in Nat \ {0} /\ p[Len(p)] = u
        /\ v = None => p = <<u>>
        /\ v # None => v \in User /\ p = tree.path[v] \o <<u>>
    BY GrownPath
  <2>2. Len(p) >= Len(q) /\ \A i \in 1 .. Len(q) : p[i] = q[i]
    <3>1. ASSUME NEW i \in 1 .. Len(q), i = Len(q), <<q[i], p[i]>> \in tree.begins
          PROVE  FALSE
      <4>1. q[i] = a /\ p[i] \in User
        BY <1>q, <2>1, <3>1 DEF StartsWith
      <4> QED BY <3>1, <4>1
    <3> QED BY <3>1 DEF StartsWith
  <2>3. CASE Len(p) = Len(q)
    <3>1. Len(q) \in 1 .. Len(q) /\ p[Len(q)] = u /\ q[Len(q)] = a
      BY <1>q, <2>1, <2>3
    <3>2. u = a
      BY <2>2, <3>1
    <3> QED BY <1>0, <3>2
  <2>4. CASE Len(p) # Len(q)
    <3> HIDE DEF p, v, q
    <3>1. Len(p) > Len(q) /\ Len(p) > 1
      BY <1>q, <2>1, <2>2, <2>4
    <3>2. v # None
      BY <2>1, <3>1
    <3>3. /\ v \in User /\ p = tree.path[v] \o <<u>> /\ tree.path[v] \in Seq(User)
      BY <2>1, <3>2, GrownPath
    <3>4. Len(p) = Len(tree.path[v]) + 1 /\ Len(tree.path[v]) \in Nat
      BY <3>3
    <3>5. \A i \in 1 .. Len(tree.path[v]) : p[i] = tree.path[v][i]
      BY <3>3, <3>4
    <3>6. StartsWith(tree.path[v], q)
      BY <1>q, <2>2, <3>1, <3>4, <3>5 DEF StartsWith
    <3>7. Len(tree.path[v]) <= n
      BY <3>4 DEF p
    <3>8. v \in D
      BY <3>3, <3>6, <3>7
    <3> HIDE DEF D
    <3> QED BY <1>0, <3>8 DEF Closed, Children, v
  <2> QED BY <2>3, <2>4
<1>3. S \in SUBSET Nat
  OBVIOUS
<1>4. S = Nat
  <2> HIDE DEF S
  <2> QED BY <1>1, <1>2, <1>3, Induction
<1>5. ASSUME NEW u \in Downline(a) PROVE u \in D
  <2>1. u \in User /\ StartsWith(tree.path[u], q) /\ Len(tree.path[u]) \in Nat
    BY <1>5, GrownPath DEF Downline
  <2>2. Len(tree.path[u]) \in S
    BY <1>4, <2>1
  <2> QED BY <2>1, <2>2
<1> QED BY <1>0, <1>5

(* Below an ADMIN the paths find what the walk finds, and more only where  *)
(* one customerId begins another.                                          *)
THEOREM DownlineTheorem == Spec => []ScopeIsDownline
<1>1. ScopeInv => ScopeIsDownline
  <2> SUFFICES ASSUME ScopeInv, req.at = "query", kind = "user", Role(client.who) = "ADMIN",
                      client.who \notin tree.linked, Grown
               PROVE  LET a == client.who
                          found == Downline(a) \cup {a}
                      IN  /\ req.scope \subseteq found
                          /\ (\A u \in User : <<a, u>> \notin tree.begins) => req.scope = found
    BY DEF ScopeIsDownline
  <2>1. tree \in Tree /\ req # Idle
    BY IdleRequest DEF ScopeInv, TypeInv, TypeOK
  <2>2. client.who \in User
    BY <2>1 DEF ScopeInv, TypeInv, ReadingInv, Role, Account
  <2>3. req.scope = Descendants(client.who)
    BY DEF ScopeInv, ScopeExact, Visible
  <2> QED BY <2>1, <2>2, <2>3, StartsWithClosed, DownlineDescends
<1> QED BY <1>1, ScopeInit, ScopeNext, PTL DEF Spec

-----------------------------------------------------------------------------
(* An answer agrees with itself. *)

Showing(s) == {u \in Match : kyc[u].status \in s}

LEMMA MatchFinite ==
  ASSUME TypeOK
  PROVE  /\ IsFiniteSet(Match) /\ Cardinality(Match) \in Nat /\ Match \subseteq User
         /\ Counted("total") = Cardinality(Match)
         /\ \A S \in SUBSET Match : IsFiniteSet(S) /\ Cardinality(S) \in Nat
<1>1. Match \in SUBSET User
  BY DEF TypeOK, Match, Matching
<1>2. {u \in Match : "total" \in {"total", kyc[u].status}} = Match
  OBVIOUS
<1> QED BY <1>1, <1>2, Finite DEF Counted

LEMMA CountOfUnion ==
  ASSUME NEW U, IsFiniteSet(U), NEW S \in SUBSET U, NEW T \in SUBSET U, S \cap T = {}
  PROVE  Cardinality(S \cup T) = Cardinality(S) + Cardinality(T)
<1>1. IsFiniteSet(S) /\ IsFiniteSet(T) /\ Cardinality(S) \in Nat /\ Cardinality(T) \in Nat
  BY FS_Subset, FS_CardinalityType
<1>2. Cardinality(S \cap T) = 0
  BY FS_EmptySet
<1>3. Cardinality(S \cup T) = Cardinality(S) + Cardinality(T) - Cardinality(S \cap T)
  BY <1>1, FS_Union
<1> QED BY <1>1, <1>2, <1>3

(* The counts of the shown statuses add up to the rows in one of them.     *)
LEMMA SumOfCounts ==
  ASSUME TypeOK, \A c \in Shown : req.count[c] = Counted(c)
  PROVE  Sum = Cardinality(Showing(Shown))
<1> DEFINE Pick(s) == CHOOSE x \in s : TRUE
           R(f) == [s \in SUBSET Shown |->
                      IF s = {} THEN 0 ELSE req.count[Pick(s)] + f[s \ {Pick(s)}]]
           iter[s \in SUBSET Shown] ==
             IF s = {} THEN 0 ELSE req.count[Pick(s)] + iter[s \ {Pick(s)}]
           f0 == [s \in SUBSET Shown |-> Cardinality(Showing(s))]
<1>1. Sum = iter[Shown]
  BY Zenon DEF Sum, MapThenSumSet, MapThenFoldSet
<1>2. ASSUME NEW s \in SUBSET Shown, s # {}
      PROVE  /\ Pick(s) \in s
             /\ f0[s] = req.count[Pick(s)] + f0[s \ {Pick(s)}]
  <2> DEFINE x == Pick(s)
  <2>1. x \in s /\ x \in Shown /\ x # "total"
    BY <1>2, ChoiceAssumption
  <2>2. Counted(x) = Cardinality(Showing({x}))
    <3>1. {u \in Match : x \in {"total", kyc[u].status}} = Showing({x})
      BY <2>1 DEF Showing
    <3> QED BY <3>1 DEF Counted
  <2>3. /\ Showing(s) = Showing({x}) \cup Showing(s \ {x})
        /\ Showing({x}) \cap Showing(s \ {x}) = {}
    BY <2>1 DEF Showing
  <2>4. /\ Showing({x}) \in SUBSET Match
        /\ Showing(s \ {x}) \in SUBSET Match
    BY DEF Showing
  <2>5. Cardinality(Showing(s)) = Cardinality(Showing({x})) + Cardinality(Showing(s \ {x}))
    <3> HIDE DEF x
    <3> DEFINE A == Showing({x})
               B == Showing(s \ {x})
    <3>1. IsFiniteSet(Match)
      BY MatchFinite
    <3>2. A \in SUBSET Match /\ B \in SUBSET Match /\ A \cap B = {} /\ Showing(s) = A \cup B
      BY <2>3, <2>4
    <3>3. Cardinality(A \cup B) = Cardinality(A) + Cardinality(B)
      <4> HIDE DEF A, B
      <4> QED BY <3>1, <3>2, CountOfUnion
    <3> QED BY <3>2, <3>3
  <2> QED BY <2>1, <2>2, <2>5
<1>3. f0 = R(f0)
  <2>1. ASSUME NEW s \in SUBSET Shown PROVE f0[s] = R(f0)[s]
    <3>1. CASE s = {}
      <4>1. Showing(s) = {}
        BY <3>1 DEF Showing
      <4> QED BY <3>1, <4>1, FS_EmptySet
    <3>2. CASE s # {}
      BY <1>2, <3>2
    <3> QED BY <3>1, <3>2
  <2> QED BY <2>1
<1>4. iter = R(iter)
  <2>1. iter = CHOOSE f : f = R(f)
    OBVIOUS
  <2> HIDE DEF iter, R, f0
  <2> QED BY <1>3, <2>1
<1> DEFINE S == {n \in Nat : \A s \in SUBSET Shown : Cardinality(s) = n => iter[s] = f0[s]}
<1>5. 0 \in S
  <2> SUFFICES ASSUME NEW s \in SUBSET Shown, Cardinality(s) = 0 PROVE iter[s] = f0[s]
    OBVIOUS
  <2>1. s = {}
    BY FiniteAssumption, FS_Subset, FS_EmptySet
  <2>2. iter[s] = 0
    <3> HIDE DEF iter
    <3> QED BY <1>4, <2>1
  <2>3. f0[s] = 0
    BY <1>3, <2>1
  <2> QED BY <2>2, <2>3
<1>6. ASSUME NEW n \in S PROVE n + 1 \in S
  <2> SUFFICES ASSUME NEW s \in SUBSET Shown, Cardinality(s) = n + 1
               PROVE iter[s] = f0[s]
    <3> HIDE DEF iter, f0
    <3> QED OBVIOUS
  <2>1. IsFiniteSet(s)
    BY FiniteAssumption, FS_Subset
  <2>2. s # {}
    BY FS_EmptySet
  <2>3. Pick(s) \in s /\ f0[s] = req.count[Pick(s)] + f0[s \ {Pick(s)}]
    BY <1>2, <2>2
  <2>4. Cardinality(s \ {Pick(s)}) = n
    <3> HIDE DEF Pick
    <3>1. Cardinality(s \ {Pick(s)}) = Cardinality(s) - 1
      BY <2>1, <2>3, FS_RemoveElement
    <3> QED BY <3>1
  <2>5. iter[s \ {Pick(s)}] = f0[s \ {Pick(s)}]
    BY <2>4
  <2>6. iter[s] = req.count[Pick(s)] + iter[s \ {Pick(s)}]
    <3> HIDE DEF iter
    <3> QED BY <1>4, <2>2
  <2> HIDE DEF iter, f0
  <2> QED BY <2>3, <2>5, <2>6
<1>7. S \in SUBSET Nat
  OBVIOUS
<1>8. S = Nat
  <2> HIDE DEF S
  <2> QED BY <1>5, <1>6, <1>7, Induction
<1>9. Cardinality(Shown) \in Nat
  BY FiniteAssumption, FS_CardinalityType
<1> HIDE DEF iter
<1> QED BY <1>1, <1>8, <1>9

(* The rows of the answer are there. *)
RowsFound == req.at = "query" /\ "rows" \notin req.todo /\ (kind = "user" => req.todo = {})

(* What a query has found is still so, unless the table changed since. *)
AnswerInv ==
  "changed" \notin event /\ req.at = "query" =>
    /\ kind = "user" => \A c \in Count \ req.todo : req.count[c] = Counted(c)
    /\ "total" \notin req.todo => req.count["total"] = Counted("total")
    /\ RowsFound => IsPage(req.rows)

AllInv == ScopeInv /\ AnswerInv

(* Everything an answer is told from, but for the request. *)
LEMMA AnswerKept ==
  ASSUME UNCHANGED <<config, table, client>>, req'.scope = req.scope
  PROVE  /\ Match' = Match /\ \A c : Counted(c)' = Counted(c)
         /\ \A rows : IsPage(rows)' = IsPage(rows)
<1>1. Match' = Match
  BY DEF Match, Matching, table
<1>2. \A c : Counted(c)' = Counted(c)
  BY <1>1 DEF Counted, table
<1>3. \A u, v : InOrder(u, v)' = InOrder(u, v)
  BY DEF InOrder, table
<1>4. Skip' = Skip
  BY DEF Skip
<1>5. \A rows : IsPage(rows)' = IsPage(rows)
  BY <1>1, <1>3, <1>4 DEF IsPage
<1> QED BY <1>1, <1>2, <1>5

LEMMA AnswerHandler == ScopeInv /\ AnswerInv /\ Handler => AnswerInv'
<1> SUFFICES ASSUME ScopeInv, AnswerInv, Handler PROVE AnswerInv'
  OBVIOUS
<1>0. TypeOK /\ req \in Request /\ RequestInv
  BY DEF ScopeInv, TypeInv, RequestInv
<1>1. ASSUME Scope \/ Walk PROVE AnswerInv'
  <2>1. /\ req'.at = "query" => req'.todo = Count
        /\ kind' = "user"
    BY <1>0, <1>1 DEF Scope, Walk, Scoped, Request, RequestInv, config
  <2> QED BY <2>1, Naming DEF AnswerInv, RowsFound
<1>2. ASSUME NEW c \in Count, CountRows(c) PROVE AnswerInv'
  <2>1. /\ req.at = "query" /\ c \in req.todo
        /\ UNCHANGED <<config, table, client, history>>
    BY <1>2 DEF CountRows
  <2>2. /\ req'.scope = req.scope /\ req'.rows = req.rows /\ req'.at = "query"
        /\ req'.todo = IF req.todo = {c} /\ kind = "user" THEN {"rows"} ELSE req.todo \ {c}
        /\ \A d \in Count : req'.count[d] = IF d = c THEN Counted(c) ELSE req.count[d]
    BY <1>0, <1>2 DEF CountRows, Request
  <2>3. /\ \A d : Counted(d)' = Counted(d)
        /\ \A rows : IsPage(rows)' = IsPage(rows)
    BY <2>1, <2>2, AnswerKept
  <2>4. ASSUME kind = "user" PROVE ~RowsFound'
    <3>1. req.todo \subseteq Count /\ "rows" \notin Count
      BY <1>0, <2>1, <2>4, Naming DEF RequestInv
    <3> QED BY <2>1, <2>2, <2>4, <3>1 DEF RowsFound, config
  <2>5. RowsFound' => RowsFound
    BY <2>1, <2>2, <2>4, Naming DEF RowsFound, config
  <2>6. ASSUME NEW d \in Count, d \notin req'.todo, d # c PROVE d \notin req.todo
    <3>1. CASE req.todo = {c}
      BY <2>6, <3>1
    <3>2. CASE req.todo # {c}
      BY <2>2, <2>6, <3>2
    <3> QED BY <3>1, <3>2
  <2>7. ("changed" \notin event)' => "changed" \notin event
    BY <2>1 DEF history
  <2>8. kind' = kind
    BY <2>1 DEF config
  <2> SUFFICES ASSUME "changed" \notin event
               PROVE  /\ kind = "user" => \A d \in Count \ req'.todo : req'.count[d] = Counted(d)
                      /\ "total" \notin req'.todo => req'.count["total"] = Counted("total")
                      /\ RowsFound => IsPage(req.rows)
    BY <2>2, <2>3, <2>5, <2>7, <2>8 DEF AnswerInv
  <2> QED BY <2>1, <2>2, <2>6, Naming DEF AnswerInv
<1>3. ASSUME NEW rows \in SUBSET User, FindRows(rows) PROVE AnswerInv'
  <2>1. /\ req.at = "query" /\ "rows" \in req.todo /\ IsPage(rows)
        /\ UNCHANGED <<config, table, client>> /\ event \subseteq event'
    BY <1>3 DEF FindRows
  <2>2. /\ req'.scope = req.scope /\ req'.rows = rows /\ req'.at = "query"
        /\ req'.todo = req.todo \ {"rows"} /\ req'.count = req.count
    BY <1>0, <1>3 DEF FindRows, Request
  <2>3. /\ \A d : Counted(d)' = Counted(d)
        /\ IsPage(rows)' = IsPage(rows)
    BY <2>1, <2>2, AnswerKept
  <2>4. IsPage(req.rows)'
    BY <2>1, <2>2, <2>3
  <2> QED BY <2>1, <2>2, <2>3, <2>4, Naming DEF AnswerInv, config
<1> QED BY <1>1, <1>2, <1>3 DEF Handler

LEMMA AnswerOther == ScopeInv /\ AnswerInv /\ [Next]_vars /\ ~Handler => AnswerInv'
<1> SUFFICES ASSUME ScopeInv, AnswerInv, [Next]_vars, ~Handler PROVE AnswerInv'
  OBVIOUS
<1>0. ReadingInv /\ RequestInv
  BY DEF ScopeInv, TypeInv
<1>1. ASSUME UNCHANGED <<config, client, req, event>>, kyc' = kyc PROVE AnswerInv'
  <2>1. /\ Match' = Match /\ Skip' = Skip /\ RowsFound' = RowsFound
        /\ \A u, v : InOrder(u, v)' = InOrder(u, v)
    BY <1>1 DEF Match, Matching, Skip, InOrder, RowsFound, config
  <2>2. /\ \A c : Counted(c)' = Counted(c)
        /\ \A rows : IsPage(rows)' = IsPage(rows)
    BY <1>1, <2>1 DEF Counted, IsPage
  <2> QED BY <1>1, <2>1, <2>2 DEF AnswerInv, config
<1>2. CASE UNCHANGED vars \/ Tick
  BY <1>1, <1>2 DEF vars, Tick, table, history
<1>3. CASE \E who \in Account \cup {None}, filter \in Filter, order \in {"asc", "desc"} :
              Open(who, filter, order)
  BY <1>0, <1>3, IdleRequest DEF Open, Reading, ReadingInv, AnswerInv
<1>4. CASE Ask
  <2>1. /\ req'.at = "query" => req'.todo = {"total", "rows"}
        /\ kind = "user" => req'.at = "scope"
        /\ kind' = kind
    BY <1>4 DEF Ask, Idle, config
  <2> QED BY <2>1 DEF AnswerInv, RowsFound
<1>5. CASE Receive \/ Leave
  BY <1>5, IdleRequest DEF Receive, Leave, AnswerInv
<1>6. ASSUME UNCHANGED req, \E filed \in BOOLEAN : Observe(filed) PROVE AnswerInv'
  <2>1. CASE client = Away
    BY <1>0, <1>6, <2>1, IdleRequest DEF ReadingInv, AnswerInv
  <2>2. CASE client # Away
    <3>1. "changed" \in event'
      BY <1>6, <2>2 DEF Observe, Reading
    <3> QED BY <3>1 DEF AnswerInv
  <2> QED BY <2>1, <2>2
<1>7. ASSUME NEW u \in Filer, File(u) \/ Delete(u) \/ \E s \in Status : Verify(u, s)
      PROVE  AnswerInv'
  BY <1>6, <1>7 DEF File, Delete, Verify
<1> QED BY <1>2, <1>3, <1>4, <1>5, <1>7 DEF Next

LEMMA AnswerInit == Init => AnswerInv
  BY DEF Init, Idle, AnswerInv

LEMMA AnswerFits ==
  ASSUME ScopeInv, AnswerInv
  PROVE  AnswerConsistent
<1> SUFFICES ASSUME Answered, "changed" \notin event
             PROVE  LET total == req.count["total"]
                        before == (client.page - 1) * Limit
                    IN /\ kind = "user" => total = Sum + Cardinality(Uncounted)
                       /\ Cardinality(req.rows) =
                            IF total <= before THEN 0 ELSE Least(Limit, total - before)
  BY DEF AnswerConsistent
<1>0. TypeOK /\ req.at = "query" /\ req.todo = {} /\ req # Idle /\ RowsFound
  BY IdleRequest DEF ScopeInv, TypeInv, Answered, RowsFound
<1>1. req.count["total"] = Cardinality(Match) /\ IsPage(req.rows)
  BY <1>0, MatchFinite DEF AnswerInv
<1>2. ASSUME kind = "user" PROVE req.count["total"] = Sum + Cardinality(Uncounted)
  <2>1. \A c \in Shown : req.count[c] = Counted(c)
    BY <1>0, <1>2, Naming DEF AnswerInv
  <2>2. Sum = Cardinality(Showing(Shown))
    BY <1>0, <2>1, SumOfCounts
  <2>3. /\ Match = Showing(Shown) \cup Uncounted /\ Showing(Shown) \cap Uncounted = {}
        /\ Showing(Shown) \in SUBSET Match /\ Uncounted \in SUBSET Match
    BY DEF Showing, Uncounted
  <2>4. Cardinality(Match) = Cardinality(Showing(Shown)) + Cardinality(Uncounted)
    BY <1>0, <2>3, MatchFinite, CountOfUnion
  <2> QED BY <1>1, <2>2, <2>4
<1>3. client.page \in Nat \ {0} /\ Skip \in Nat /\ Limit \in Nat \ {0}
  <2>1. client.page \in Nat \ {0} /\ client.page - 1 \in Nat
    BY <1>0 DEF ScopeInv, TypeInv, ReadingInv, Client
  <2> QED BY <2>1, BoundsAssumption DEF Skip
<1>4. PICK before \in SUBSET (Match \ req.rows) :
         /\ Cardinality(before) = Least(Skip, Cardinality(Match))
         /\ Cardinality(req.rows) = Least(Limit, Cardinality(Match \ before))
  BY <1>1 DEF IsPage
<1>5. Cardinality(Match) = Cardinality(before) + Cardinality(Match \ before)
  <2>1. /\ Match = before \cup (Match \ before) /\ before \cap (Match \ before) = {}
        /\ before \in SUBSET Match /\ Match \ before \in SUBSET Match
    OBVIOUS
  <2> QED BY <1>0, <2>1, MatchFinite, CountOfUnion
<1>6. /\ Cardinality(Match) \in Nat /\ Cardinality(before) \in Nat
      /\ Cardinality(Match \ before) \in Nat
  BY <1>0, MatchFinite
<1>7. Cardinality(req.rows) = IF Cardinality(Match) <= Skip THEN 0
                              ELSE Least(Limit, Cardinality(Match) - Skip)
  BY <1>3, <1>4, <1>5, <1>6 DEF Least
<1> QED BY <1>1, <1>2, <1>7 DEF Skip

(* Unless a KYC is filed, verified or deleted between its queries, the     *)
(* counts and the page of an answer agree.                                 *)
THEOREM AnswerTheorem == Spec => []AnswerConsistent
<1>1. AllInv /\ [Next]_vars => AllInv'
  BY ScopeNext, AnswerHandler, AnswerOther DEF AllInv
<1>2. Init => AllInv
  BY ScopeInit, AnswerInit DEF AllInv
<1>3. AllInv => AnswerConsistent
  BY AnswerFits DEF AllInv
<1> QED BY <1>1, <1>2, <1>3, PTL DEF Spec

-----------------------------------------------------------------------------
(* Page after page. *)

(* The rows a caller may see that match, those of them ahead of a row, and *)
(* the pages that were read.                                               *)
Listed == Matching(kyc, client.filter) \cap Visible(client.who)
Ahead(u) == {v \in Listed : InOrder(v, u) /\ kyc[v].at # kyc[u].at}
Turned == IF RowsFound THEN client.page ELSE client.page - 1
Missing == (due \cap Visible(client.who)) \ seen

HistoryInv == Reading => due \subseteq Matching(kyc, client.filter) /\ seen \subseteq DOMAIN kyc

(* What is still missing stands behind the pages that were read, and       *)
(* nothing is missing after a page that is not full.                       *)
MissInv ==
  Reading /\ event \cap {"left", "tied"} = {} =>
    /\ client.page > 0 => \A d \in Missing : Cardinality(Ahead(d)) >= Turned * Limit
    /\ Finished \/ (RowsFound /\ Cardinality(req.rows) # Limit) => Missing = {}

(* What was seen and still matches stands on the pages that were read.     *)
SeenInv ==
  Reading /\ event \cap {"entered", "tied"} = {} =>
    /\ twice = {}
    /\ client.page > 0 => \A s \in seen \cap Listed : Cardinality(Ahead(s)) < Turned * Limit

PageInv == HistoryInv /\ MissInv /\ SeenInv

LEMMA AheadFinite ==
  ASSUME TypeOK
  PROVE  \A u : IsFiniteSet(Ahead(u)) /\ Cardinality(Ahead(u)) \in Nat
<1>1. \A u : Ahead(u) \in SUBSET User
  BY DEF TypeOK, Ahead, Listed, Matching
<1> QED BY <1>1, Finite

LEMMA PageTimes ==
  ASSUME client \in Client, client.page > 0
  PROVE  /\ client.page \in Nat \ {0} /\ Limit \in Nat \ {0} /\ Skip \in Nat
         /\ client.page * Limit = Skip + Limit
<1>1. client.page \in Nat \ {0} /\ client.page - 1 \in Nat /\ Limit \in Nat \ {0}
  BY BoundsAssumption DEF Client
<1>2. \A n \in Nat, k \in Nat : n * k \in Nat /\ (n + 1) * k = n * k + k
  OBVIOUS
<1>3. client.page = (client.page - 1) + 1
  BY <1>1
<1> QED BY <1>1, <1>2, <1>3 DEF Skip

LEMMA SubsetCount ==
  ASSUME NEW T, IsFiniteSet(T), NEW S \in SUBSET T
  PROVE  /\ IsFiniteSet(S) /\ Cardinality(S) \in Nat /\ Cardinality(T) \in Nat
         /\ Cardinality(S) <= Cardinality(T)
         /\ (Cardinality(S) = Cardinality(T) => S = T)
         /\ (S # T => Cardinality(S) < Cardinality(T))
  BY FS_Subset, FS_CardinalityType

(* A page of rows without a tie: a row with enough rows ahead of it is on  *)
(* it or behind it, and a row of it has fewer ahead than the page reaches. *)
LEMMA PageRanks ==
  ASSUME TypeOK, ReadingInv, req # Idle, Match = Listed, NEW rows, IsPage(rows),
         \A u, v \in Match : u # v => kyc[u].at # kyc[v].at
  PROVE  /\ \A d \in Match \ rows : Cardinality(Ahead(d)) >= Skip =>
              Cardinality(rows) = Limit /\ Cardinality(Ahead(d)) >= Skip + Limit
         /\ \A s \in Match : Cardinality(Ahead(s)) < Skip => s \notin rows
         /\ \A r \in rows : Cardinality(Ahead(r)) < Skip + Limit
<1>1. PICK before \in SUBSET (Match \ rows) :
         /\ Cardinality(before) = Least(Skip, Cardinality(Match))
         /\ Cardinality(rows) = Least(Limit, Cardinality(Match \ before))
         /\ \A u \in before, v \in Match \ before : InOrder(u, v)
         /\ \A u \in rows, v \in Match \ (before \cup rows) : InOrder(u, v)
  BY DEF IsPage
<1> DEFINE both == before \cup rows
           rest == Match \ before
<1>2. /\ rows \in SUBSET rest /\ before \in SUBSET Match /\ both \in SUBSET Match
      /\ rest \in SUBSET Match
  BY <1>1 DEF IsPage
<1>3. IsFiniteSet(Match) /\ IsFiniteSet(rest) /\ IsFiniteSet(both)
  BY <1>2, MatchFinite
<1>4. Cardinality(both) = Cardinality(before) + Cardinality(rows)
  <2>1. before \cap rows = {} /\ rows \in SUBSET Match
    BY <1>2
  <2> QED BY <1>2, <1>3, <2>1, CountOfUnion
<1>5. /\ Cardinality(Match) \in Nat /\ Cardinality(before) \in Nat /\ Cardinality(rows) \in Nat
      /\ Cardinality(rest) \in Nat /\ Cardinality(both) \in Nat
      /\ Skip \in Nat /\ Limit \in Nat \ {0}
  BY <1>2, <1>3, SubsetCount, PageTimes DEF ReadingInv
<1>6. /\ Cardinality(before) <= Skip /\ Cardinality(rows) <= Limit
      /\ before # Match => Cardinality(before) = Skip
      /\ rows # rest => Cardinality(rows) = Limit
  <2>1. before # Match => Cardinality(before) < Cardinality(Match)
    BY <1>2, <1>3, SubsetCount
  <2>2. rows # rest => Cardinality(rows) < Cardinality(rest)
    BY <1>2, <1>3, SubsetCount
  <2> QED BY <1>1, <1>5, <2>1, <2>2 DEF Least
<1>7. \A u, v \in Match : /\ kyc[u].at \in Nat
                          /\ InOrder(u, v) /\ u # v => u \in Ahead(v)
                          /\ InOrder(u, v) => v \notin Ahead(u)
  <2> SUFFICES ASSUME NEW u \in Match, NEW v \in Match
               PROVE  /\ kyc[u].at \in Nat
                      /\ InOrder(u, v) /\ u # v => u \in Ahead(v)
                      /\ InOrder(u, v) => v \notin Ahead(u)
    OBVIOUS
  <2>1. u \in DOMAIN kyc /\ v \in DOMAIN kyc
    BY DEF Match, Matching
  <2>2. kyc[u].at \in 0 .. now /\ kyc[v].at \in 0 .. now
    BY <2>1 DEF TypeOK
  <2>3. kyc[u].at \in Nat /\ kyc[v].at \in Nat
    BY <2>2, BoundsAssumption DEF TypeOK
  <2>4. InOrder(u, v) /\ u # v => u \in Ahead(v)
    BY DEF Ahead
  <2>5. InOrder(u, v) /\ InOrder(v, u) => kyc[u].at = kyc[v].at
    BY <2>3 DEF InOrder
  <2> QED BY <2>3, <2>4, <2>5 DEF Ahead
<1>8. \A u : Ahead(u) \in SUBSET Match /\ IsFiniteSet(Ahead(u)) /\ Cardinality(Ahead(u)) \in Nat
  BY AheadFinite DEF Ahead
<1>9. ASSUME NEW d \in Match \ rows, Cardinality(Ahead(d)) >= Skip
      PROVE  Cardinality(rows) = Limit /\ Cardinality(Ahead(d)) >= Skip + Limit
  <2>1. ASSUME d \in before PROVE FALSE
    <3>1. Ahead(d) \in SUBSET before /\ Ahead(d) # before
      BY <1>1, <1>7, <1>8, <2>1 DEF Ahead
    <3>2. Cardinality(Ahead(d)) < Cardinality(before)
      BY <1>2, <1>3, <3>1, SubsetCount
    <3> QED BY <1>5, <1>6, <1>8, <1>9, <3>2
  <2>2. both \in SUBSET Ahead(d)
    BY <1>1, <1>2, <1>7, <1>9, <2>1
  <2>3. Cardinality(both) <= Cardinality(Ahead(d))
    BY <1>8, <2>2, SubsetCount
  <2>4. before # Match /\ rows # rest
    BY <1>9, <2>1
  <2> HIDE DEF both, rest
  <2> QED BY <1>4, <1>5, <1>6, <1>8, <2>3, <2>4
<1>10. ASSUME NEW s \in Match, Cardinality(Ahead(s)) < Skip, s \in rows PROVE FALSE
  <2>1. s \notin before /\ before # Match
    BY <1>1, <1>10
  <2>2. before \in SUBSET Ahead(s)
    BY <1>1, <1>2, <1>7, <2>1
  <2>3. Cardinality(before) <= Cardinality(Ahead(s))
    BY <1>8, <2>2, SubsetCount
  <2> HIDE DEF both, rest
  <2> QED BY <1>5, <1>6, <1>8, <1>10, <2>1, <2>3
<1>11. ASSUME NEW r \in rows PROVE Cardinality(Ahead(r)) < Skip + Limit
  <2>1. r \in Match /\ r \in both
    BY <1>2
  <2>2. Ahead(r) \in SUBSET both /\ Ahead(r) # both
    BY <1>1, <1>7, <1>8, <2>1 DEF Ahead
  <2>3. Cardinality(Ahead(r)) < Cardinality(both)
    BY <1>3, <2>2, SubsetCount
  <2> HIDE DEF both, rest
  <2> QED BY <1>4, <1>5, <1>6, <1>8, <2>3
<1> QED BY <1>9, <1>10, <1>11

LEMMA HistoryInit == Init => PageInv
  BY DEF Init, Reading, Finished, PageInv, HistoryInv, MissInv, SeenInv

(* A step that touches neither the table nor what was read.                *)
LEMMA PageKept ==
  ASSUME PageInv, kyc' = kyc, UNCHANGED <<config, client, due, seen, twice>>,
         event' \ {"changed"} = event \ {"changed"},
         RowsFound' <=> RowsFound, req'.rows = req.rows
  PROVE  PageInv'
<1>1. /\ Listed' = Listed /\ Turned' = Turned /\ Missing' = Missing
      /\ Reading' = Reading /\ Finished' = Finished
      /\ \A u, v : InOrder(u, v)' = InOrder(u, v)
  BY DEF Listed, Matching, Visible, Descendants, Children, Role, Turned, Missing, InOrder,
         Reading, Finished, config
<1>2. \A u : Ahead(u)' = Ahead(u)
  BY <1>1 DEF Ahead
<1>3. \A e \in {"left", "entered", "tied"} : e \in event' <=> e \in event
  OBVIOUS
<1>4. HistoryInv'
  BY <1>1 DEF PageInv, HistoryInv, Matching
<1>5. MissInv'
  BY <1>1, <1>2, <1>3 DEF PageInv, MissInv
<1>6. SeenInv'
  BY <1>1, <1>2, <1>3 DEF PageInv, SeenInv
<1> QED BY <1>4, <1>5, <1>6 DEF PageInv

LEMMA PageOpen ==
  ASSUME AllInv, PageInv, TypeInv',
         NEW who \in Account \cup {None}, NEW filter \in Filter,
         NEW order \in {"asc", "desc"}, Open(who, filter, order)
  PROVE  PageInv'
<1>0. ReadingInv /\ TypeOK' /\ ReadingInv'
  BY DEF AllInv, ScopeInv, TypeInv
<1>1. /\ client' = [who |-> who, filter |-> filter, order |-> order, page |-> 1]
      /\ due' = Matching(kyc, filter) /\ seen' = {} /\ twice' = {}
      /\ req' = Idle /\ kyc' = kyc
  BY <1>0 DEF Open, Reading, ReadingInv, table
<1>2. HistoryInv'
  BY <1>1 DEF HistoryInv, Matching
<1>3. /\ client'.page = 1 /\ ~RowsFound' /\ ~Finished'
  BY <1>1, IdleRequest DEF RowsFound, Finished
<1>4. (Turned * Limit)' = 0
  BY <1>3, BoundsAssumption DEF Turned
<1>5. \A u : Cardinality(Ahead(u))' \in Nat
  <2>1. \A u : Ahead(u)' \in SUBSET User
    BY <1>0 DEF TypeOK, Ahead, Listed, Matching
  <2> QED BY <2>1, Finite
<1>6. MissInv'
  BY <1>3, <1>4, <1>5 DEF MissInv
<1>7. SeenInv'
  BY <1>1 DEF SeenInv
<1> QED BY <1>2, <1>6, <1>7 DEF PageInv

LEMMA PageReceive == AllInv /\ PageInv /\ Receive => PageInv'
<1> SUFFICES ASSUME AllInv, PageInv, Receive PROVE PageInv'
  OBVIOUS
<1>1. /\ RowsFound /\ Reading /\ client \in Client /\ client.page > 0
      /\ kyc' = kyc /\ UNCHANGED <<config, due, seen, twice, event>> /\ req' = Idle
  BY IdleRequest DEF Receive, Answered, RowsFound, AllInv, ScopeInv, TypeInv, ReadingInv,
                     Reading, table, history
<1>2. /\ client'.who = client.who /\ client'.filter = client.filter
      /\ client'.order = client.order
      /\ client'.page = IF Cardinality(req.rows) = Limit THEN client.page + 1 ELSE 0
  BY <1>1 DEF Receive, Client
<1>3. /\ Listed' = Listed /\ Missing' = Missing
      /\ \A u, v : InOrder(u, v)' = InOrder(u, v)
  BY <1>1, <1>2 DEF Listed, Matching, Visible, Descendants, Children, Role, Missing, InOrder,
                    config
<1>4. \A u : Ahead(u)' = Ahead(u)
  BY <1>1, <1>3 DEF Ahead
<1>5. ~RowsFound'
  BY <1>1, IdleRequest DEF RowsFound
<1>6. client'.page > 0 => Cardinality(req.rows) = Limit /\ Turned' = Turned
  <2>1. client.page \in Nat
    BY <1>1 DEF Client
  <2>2. Turned = client.page
    BY <1>1 DEF Turned
  <2>3. Turned' = client'.page - 1
    BY <1>5 DEF Turned
  <2> QED BY <1>2, <2>1, <2>2, <2>3
<1>7. client'.page = 0 => Cardinality(req.rows) # Limit
  BY <1>1, <1>2 DEF Client
<1>8. HistoryInv'
  BY <1>1, <1>2 DEF PageInv, HistoryInv, Matching
<1>9. MissInv'
  BY <1>1, <1>3, <1>4, <1>5, <1>6, <1>7 DEF PageInv, MissInv, Finished
<1>10. SeenInv'
  BY <1>1, <1>3, <1>4, <1>6 DEF PageInv, SeenInv
<1> QED BY <1>8, <1>9, <1>10 DEF PageInv

LEMMA PageFind ==
  ASSUME AllInv, PageInv, NEW rows \in SUBSET User, FindRows(rows)
  PROVE  PageInv'
<1>0. /\ TypeOK /\ ReadingInv /\ RequestInv /\ req \in Request /\ req # Idle
      /\ Reading /\ client \in Client /\ client.page > 0
  BY IdleRequest DEF FindRows, AllInv, ScopeInv, TypeInv, ReadingInv, RequestInv, Reading
<1>1. /\ req.at = "query" /\ "rows" \in req.todo /\ IsPage(rows)
      /\ kyc' = kyc /\ UNCHANGED <<config, client, due>>
      /\ seen' = seen \cup rows /\ twice' = twice \cup (seen \cap rows)
      /\ event \subseteq event'
  BY DEF FindRows, table
<1>2. Match = Listed
  <2>1. req.scope = Visible(client.who)
    BY <1>1 DEF AllInv, ScopeInv, ScopeExact
  <2> QED BY <2>1 DEF Match, Listed
<1>3. rows \subseteq Listed /\ Listed \subseteq Matching(kyc, client.filter)
  BY <1>1, <1>2 DEF IsPage, Listed
<1>4. /\ Listed' = Listed /\ Reading' = Reading /\ Finished' = Finished
      /\ \A u, v : InOrder(u, v)' = InOrder(u, v)
      /\ Visible(client.who)' = Visible(client.who)
  BY <1>1 DEF Listed, Matching, Visible, Descendants, Children, Role, InOrder,
              Reading, Finished, config
<1>5. \A u : Ahead(u)' = Ahead(u)
  BY <1>1, <1>4 DEF Ahead
<1>6. RowsFound' /\ ~RowsFound /\ req'.rows = rows
  <2>1. /\ req'.at = "query" /\ req'.rows = rows /\ req'.todo = req.todo \ {"rows"}
    BY <1>0, <1>1 DEF FindRows, Request
  <2>2. kind = "user" => req.todo = {"rows"}
    BY <1>0, <1>1, Naming DEF RequestInv
  <2> QED BY <1>1, <2>1, <2>2 DEF RowsFound, config
<1>7. /\ client.page \in Nat \ {0} /\ Limit \in Nat \ {0} /\ Skip \in Nat
      /\ Turned * Limit = Skip /\ Turned' * Limit = Skip + Limit
  BY <1>0, <1>1, <1>6, PageTimes DEF Turned, Skip
<1>8. "tied" \notin event' => \A u, v \in Match : u # v => kyc[u].at # kyc[v].at
  BY DEF FindRows
<1>9. event' \ {"tied"} = event \ {"tied"}
  BY DEF FindRows
<1>10. HistoryInv'
  <2>1. rows \subseteq DOMAIN kyc
    BY <1>3 DEF Matching
  <2> QED BY <1>0, <1>1, <1>4, <2>1 DEF PageInv, HistoryInv, Matching
<1>11. \A u : Cardinality(Ahead(u)) \in Nat
  BY <1>0, AheadFinite
<1>12. ASSUME "left" \notin event', "tied" \notin event'
       PROVE  /\ \A d \in Missing' : Cardinality(Ahead(d)) >= Skip + Limit
              /\ Cardinality(rows) # Limit => Missing' = {}
  <2>1. \A d \in Missing' : d \in Missing /\ d \in Match \ rows
    BY <1>0, <1>1, <1>2, <1>4 DEF Missing, PageInv, HistoryInv, Listed
  <2>2. \A d \in Missing : Cardinality(Ahead(d)) >= Skip
    BY <1>0, <1>1, <1>7, <1>9, <1>12 DEF PageInv, MissInv
  <2> QED BY <1>0, <1>1, <1>2, <1>8, <1>12, <2>1, <2>2, PageRanks
<1>13. ~Finished
  BY <1>0 DEF Finished
<1>14. MissInv'
  BY <1>1, <1>4, <1>5, <1>6, <1>7, <1>12, <1>13 DEF MissInv
<1>15. ASSUME "entered" \notin event', "tied" \notin event'
       PROVE  /\ twice' = {}
              /\ \A s \in seen' \cap Listed : Cardinality(Ahead(s)) < Skip + Limit
  <2>1. twice = {} /\ \A s \in seen \cap Listed : Cardinality(Ahead(s)) < Skip
    BY <1>0, <1>1, <1>7, <1>9, <1>15 DEF PageInv, SeenInv
  <2>2. /\ \A s \in Match : Cardinality(Ahead(s)) < Skip => s \notin rows
        /\ \A r \in rows : Cardinality(Ahead(r)) < Skip + Limit
    BY <1>0, <1>1, <1>2, <1>8, <1>15, PageRanks
  <2>3. seen \cap rows = {}
    BY <1>2, <1>3, <2>1, <2>2
  <2>4. \A n \in Nat : n < Skip => n < Skip + Limit
    BY <1>7
  <2> QED BY <1>1, <1>11, <2>1, <2>2, <2>3, <2>4
<1>16. SeenInv'
  BY <1>1, <1>4, <1>5, <1>7, <1>15 DEF SeenInv
<1> QED BY <1>10, <1>14, <1>16 DEF PageInv

(* A step of the table: rows are added at the end of the clock or removed, *)
(* no row's time changes, and a row that is removed is forgotten.          *)
TableStep(filed) ==
  /\ Observe(filed) /\ UNCHANGED <<config, client, req, twice>>
  /\ seen' = seen \cap DOMAIN kyc'
  /\ \A v \in DOMAIN kyc \cap DOMAIN kyc' : kyc'[v].at = kyc[v].at
  /\ ~filed => DOMAIN kyc' \subseteq DOMAIN kyc
  /\ filed => /\ DOMAIN kyc \subseteq DOMAIN kyc'
              /\ \A v \in DOMAIN kyc : kyc'[v] = kyc[v]
              /\ \A u \in DOMAIN kyc' \ DOMAIN kyc, v \in DOMAIN kyc : kyc'[u].at >= kyc[v].at

LEMMA FileIsTable ==
  ASSUME TypeOK, PageInv, ReadingInv, NEW u \in Filer, File(u) PROVE TableStep(TRUE)
<1>1. /\ DOMAIN kyc' = DOMAIN kyc \cup {u} /\ kyc'[u] = NewRow
      /\ \A v \in DOMAIN kyc : kyc'[v] = kyc[v]
  BY DEF File
<1>2. \A v \in DOMAIN kyc : NewRow.at >= kyc[v].at
  <2> SUFFICES ASSUME NEW v \in DOMAIN kyc PROVE NewRow.at >= kyc[v].at
    OBVIOUS
  <2>1. kyc[v].at \in 0 .. now /\ now \in Nat
    BY BoundsAssumption DEF TypeOK
  <2> QED BY <2>1 DEF NewRow
<1>3. seen \subseteq DOMAIN kyc
  BY DEF PageInv, HistoryInv, Reading, ReadingInv
<1> QED BY <1>1, <1>2, <1>3 DEF File, TableStep

LEMMA VerifyIsTable ==
  ASSUME PageInv, ReadingInv, NEW u \in Filer, NEW s \in Status, Verify(u, s) PROVE TableStep(FALSE)
<1>1. DOMAIN kyc' = DOMAIN kyc /\ \A v \in DOMAIN kyc : kyc'[v].at = kyc[v].at
  BY DEF Verify
<1>2. seen \subseteq DOMAIN kyc
  BY DEF PageInv, HistoryInv, Reading, ReadingInv
<1> QED BY <1>1, <1>2 DEF Verify, TableStep

LEMMA DeleteIsTable ==
  ASSUME PageInv, ReadingInv, NEW u \in Filer, Delete(u) PROVE TableStep(FALSE)
<1>1. DOMAIN kyc' = DOMAIN kyc \ {u} /\ \A v \in DOMAIN kyc' : kyc'[v] = kyc[v]
  BY DEF Delete
<1>2. seen \subseteq DOMAIN kyc
  BY DEF PageInv, HistoryInv, Reading, ReadingInv
<1> QED BY <1>1, <1>2 DEF Delete, TableStep

LEMMA PageTable ==
  ASSUME AllInv, PageInv, TypeInv', NEW filed \in BOOLEAN, TableStep(filed)
  PROVE  PageInv'
<1>0. TypeOK /\ ReadingInv /\ TypeOK' /\ ReadingInv'
  BY DEF AllInv, ScopeInv, TypeInv
<1> DEFINE old == Matching(kyc, client.filter)
           new == Matching(kyc', client.filter)
<1>1. /\ UNCHANGED <<config, client, req, twice>> /\ seen' = seen \cap DOMAIN kyc'
      /\ Reading' = Reading /\ Finished' = Finished
      /\ RowsFound' = RowsFound /\ Turned' = Turned
      /\ Visible(client.who)' = Visible(client.who)
  BY DEF TableStep, Reading, Finished, RowsFound, Turned, config, Visible, Descendants,
         Children, Role
<1>2. ASSUME Reading
      PROVE  /\ due' = due \cap new
             /\ "left" \notin event' => old \subseteq new /\ "left" \notin event
             /\ "entered" \notin event' =>
                  /\ new \subseteq old \/ (filed /\ client.order = "asc")
                  /\ "entered" \notin event
             /\ "tied" \notin event' => "tied" \notin event
  BY <1>2 DEF TableStep, Observe
<1>3. /\ old \subseteq DOMAIN kyc /\ new \subseteq DOMAIN kyc'
      /\ Listed = old \cap Visible(client.who) /\ Listed' = new \cap Visible(client.who)
  BY <1>1 DEF Listed, Matching
<1>4. /\ \A u, v \in DOMAIN kyc \cap DOMAIN kyc' :
           /\ InOrder(u, v)' <=> InOrder(u, v)
           /\ (kyc[u].at # kyc[v].at)' <=> kyc[u].at # kyc[v].at
  BY <1>1 DEF TableStep, InOrder
<1>5. HistoryInv'
  BY <1>1, <1>2 DEF PageInv, HistoryInv
<1>6. /\ \A u : IsFiniteSet(Ahead(u)) /\ IsFiniteSet(Ahead(u)')
      /\ \A u : Cardinality(Ahead(u)) \in Nat /\ Cardinality(Ahead(u)') \in Nat
  <2>1. \A u : Ahead(u)' \in SUBSET User /\ Ahead(u) \in SUBSET User
    BY <1>0 DEF TypeOK, Ahead, Listed, Matching
  <2> QED BY <2>1, Finite
<1>7. ASSUME Reading', (event \cap {"left", "tied"} = {})'
      PROVE  /\ old \subseteq new /\ Missing' \subseteq Missing
             /\ event \cap {"left", "tied"} = {}
             /\ \A d \in Missing' : Cardinality(Ahead(d)') >= Cardinality(Ahead(d))
  <2>1. old \subseteq new /\ event \cap {"left", "tied"} = {} /\ due' = due \cap new
    BY <1>1, <1>2, <1>7
  <2>2. due \subseteq old
    BY <1>1, <1>7 DEF PageInv, HistoryInv
  <2>3. Missing' \subseteq Missing
    BY <1>1, <1>3, <2>1 DEF Missing
  <2>4. ASSUME NEW d \in Missing' PROVE Ahead(d) \in SUBSET Ahead(d)'
    <3>1. d \in old /\ d \in new
      BY <1>1, <2>1, <2>2 DEF Missing
    <3>2. ASSUME NEW v \in Ahead(d) PROVE v \in Ahead(d)'
      <4>1. v \in Listed /\ v \in Listed' /\ v \in old /\ v \in new
        BY <1>3, <2>1 DEF Ahead
      <4>2. {d, v} \subseteq DOMAIN kyc \cap DOMAIN kyc'
        BY <1>3, <3>1, <4>1
      <4>3. InOrder(v, d) /\ kyc[v].at # kyc[d].at
        BY DEF Ahead
      <4>4. InOrder(v, d)' /\ kyc'[v].at # kyc'[d].at
        BY <1>4, <4>2, <4>3
      <4> QED BY <4>1, <4>4 DEF Ahead
    <3> QED BY <3>2
  <2>5. \A d \in Missing' : Cardinality(Ahead(d)) <= Cardinality(Ahead(d)')
    BY <1>6, <2>4, SubsetCount
  <2> QED BY <1>6, <2>1, <2>3, <2>5
<1>8. MissInv'
  <2> SUFFICES ASSUME Reading', (event \cap {"left", "tied"} = {})'
               PROVE  /\ client'.page > 0 => \A d \in Missing' :
                                               Cardinality(Ahead(d)') >= Turned' * Limit
                      /\ Finished' \/ (RowsFound' /\ Cardinality(req'.rows) # Limit) =>
                           Missing' = {}
    BY DEF MissInv
  <2>1. /\ client.page > 0 => \A d \in Missing : Cardinality(Ahead(d)) >= Turned * Limit
        /\ Finished \/ (RowsFound /\ Cardinality(req.rows) # Limit) => Missing = {}
    BY <1>1, <1>7 DEF PageInv, MissInv
  <2>2. ASSUME client.page > 0 PROVE Turned * Limit \in Nat
    <3>1. client.page \in Nat \ {0} /\ Limit \in Nat
      BY <1>0, <1>1, <2>2, PageTimes DEF Reading, ReadingInv
    <3>2. Turned \in Nat
      BY <3>1 DEF Turned
    <3>3. \A m \in Nat, n \in Nat : m * n \in Nat
      OBVIOUS
    <3> QED BY <3>1, <3>2, <3>3
  <2>3. \A i, j, k \in Nat : i >= j /\ j >= k => i >= k
    OBVIOUS
  <2> QED BY <1>1, <1>6, <1>7, <2>1, <2>2, <2>3
<1>9. ASSUME Reading', (event \cap {"entered", "tied"} = {})',
             NEW s \in seen' \cap Listed'
      PROVE  s \in seen \cap Listed /\ Cardinality(Ahead(s)') <= Cardinality(Ahead(s))
  <2>1. new \subseteq old \/ (filed /\ client.order = "asc")
    BY <1>1, <1>2, <1>9
  <2>2. s \in seen /\ s \in DOMAIN kyc /\ s \in DOMAIN kyc' /\ s \in new
    BY <1>1, <1>3, <1>9 DEF PageInv, HistoryInv
  <2>3. \A v \in new \cap DOMAIN kyc : v \in old
    BY <2>1 DEF TableStep, Matching
  <2>4. s \in Listed
    BY <1>1, <1>3, <2>2, <2>3
  <2>5. ASSUME NEW v \in Ahead(s)' PROVE v \in Ahead(s)
    <3>1. v \in new /\ v \in Listed' /\ InOrder(v, s)' /\ kyc'[v].at # kyc'[s].at
      BY <1>3 DEF Ahead
    <3>2. v \in DOMAIN kyc
      <4> SUFFICES ASSUME v \notin DOMAIN kyc PROVE FALSE
        OBVIOUS
      <4>1. filed /\ client.order = "asc"
        BY <1>3, <2>1, <3>1
      <4>2. kyc'[v].at >= kyc[s].at /\ kyc'[s].at = kyc[s].at
        BY <1>3, <2>2, <3>1, <4>1 DEF TableStep
      <4>3. kyc'[v].at <= kyc'[s].at
        BY <1>1, <3>1, <4>1 DEF InOrder
      <4>4. kyc'[v].at \in 0 .. now' /\ kyc'[s].at \in 0 .. now' /\ now' \in Nat
        BY <1>0, <1>3, <2>2, <3>1, BoundsAssumption DEF TypeOK
      <4> QED BY <3>1, <4>2, <4>3, <4>4
    <3>3. v \in Listed /\ v \in DOMAIN kyc'
      BY <1>3, <2>3, <3>1, <3>2
    <3>4. InOrder(v, s) /\ kyc[v].at # kyc[s].at
      BY <1>4, <2>2, <3>1, <3>2, <3>3
    <3> QED BY <3>3, <3>4 DEF Ahead
  <2>6. Ahead(s)' \in SUBSET Ahead(s)
    BY <2>5
  <2> QED BY <1>6, <2>2, <2>4, <2>6, SubsetCount
<1>10. SeenInv'
  <2> SUFFICES ASSUME Reading', (event \cap {"entered", "tied"} = {})'
               PROVE  /\ twice' = {}
                      /\ client'.page > 0 => \A s \in (seen \cap Listed)' :
                                               Cardinality(Ahead(s)') < Turned' * Limit
    BY DEF SeenInv
  <2>1. /\ twice = {}
        /\ client.page > 0 => \A s \in seen \cap Listed : Cardinality(Ahead(s)) < Turned * Limit
    BY <1>1, <1>2 DEF PageInv, SeenInv
  <2>2. ASSUME client.page > 0 PROVE Turned * Limit \in Nat
    <3>1. client.page \in Nat \ {0} /\ Limit \in Nat
      BY <1>0, <1>1, <2>2, PageTimes DEF Reading, ReadingInv
    <3>2. Turned \in Nat
      BY <3>1 DEF Turned
    <3>3. \A m \in Nat, n \in Nat : m * n \in Nat
      OBVIOUS
    <3> QED BY <3>1, <3>2, <3>3
  <2>3. \A i, j, k \in Nat : i <= j /\ j < k => i < k
    OBVIOUS
  <2> QED BY <1>1, <1>6, <1>9, <2>1, <2>2, <2>3
<1> QED BY <1>5, <1>8, <1>10 DEF PageInv

LEMMA PageNext == AllInv /\ PageInv /\ [Next]_vars => PageInv'
<1> SUFFICES ASSUME AllInv, PageInv, [Next]_vars PROVE PageInv'
  OBVIOUS
<1>0. TypeInv /\ TypeOK /\ ReadingInv /\ RequestInv /\ req \in Request /\ TypeInv'
  BY TypeNext DEF AllInv, ScopeInv, TypeInv, RequestInv
<1>1. CASE UNCHANGED vars \/ Tick
  BY <1>1, PageKept DEF vars, Tick, table, history, RowsFound, config
<1>2. CASE \E who \in Account \cup {None}, filter \in Filter, order \in {"asc", "desc"} :
              Open(who, filter, order)
  BY <1>0, <1>2, PageOpen
<1>3. CASE Ask
  <2>1. ~RowsFound /\ ~RowsFound' /\ req'.rows = req.rows
    BY <1>3, IdleRequest DEF Ask, RowsFound, Idle, config
  <2> QED BY <1>3, <2>1, PageKept DEF Ask, table
<1>4. CASE Leave
  BY <1>4 DEF Leave, PageInv, HistoryInv, MissInv, SeenInv, Reading, Finished
<1>5. CASE Scope \/ Walk
  <2>1. /\ req.at \in {"scope", "walk"} /\ kind = "user"
        /\ UNCHANGED <<config, table, client, history>>
    BY <1>0, <1>5 DEF Scope, Walk, RequestInv
  <2>2. req'.rows = req.rows /\ (req'.at = "query" => req'.todo = Count)
    BY <1>0, <1>5 DEF Scope, Walk, Scoped, Request
  <2>3. ~RowsFound /\ ~RowsFound'
    BY <2>1, <2>2, Naming DEF RowsFound, config
  <2> QED BY <2>1, <2>2, <2>3, PageKept DEF table, history
<1>6. ASSUME NEW c \in Count, CountRows(c) PROVE PageInv'
  <2>1. /\ req.at = "query" /\ c \in req.todo
        /\ UNCHANGED <<config, table, client, history>>
    BY <1>6 DEF CountRows
  <2>2. /\ req'.rows = req.rows /\ req'.at = "query"
        /\ req'.todo = IF req.todo = {c} /\ kind = "user" THEN {"rows"} ELSE req.todo \ {c}
    BY <1>0, <1>6 DEF CountRows, Request
  <2>3. CASE kind = "user"
    <3>1. req'.todo # {} /\ req.todo # {}
      BY <2>1, <2>2, <2>3
    <3>2. ~RowsFound /\ ~RowsFound'
      BY <2>1, <2>3, <3>1 DEF RowsFound, config
    <3> QED BY <2>1, <2>2, <3>2, PageKept DEF table, history
  <2>4. CASE kind # "user"
    <3>1. req'.todo = req.todo \ {c} /\ c # "rows"
      BY <2>2, <2>4, Naming
    <3>2. RowsFound' = RowsFound
      BY <2>1, <2>2, <2>4, <3>1 DEF RowsFound, config
    <3> QED BY <2>1, <2>2, <3>2, PageKept DEF table, history
  <2> QED BY <2>3, <2>4
<1>7. ASSUME NEW u \in Filer, File(u) \/ Delete(u) \/ \E s \in Status : Verify(u, s)
      PROVE  PageInv'
  BY <1>0, <1>7, FileIsTable, DeleteIsTable, VerifyIsTable, PageTable
<1> QED
  BY <1>1, <1>2, <1>3, <1>4, <1>5, <1>6, <1>7, PageReceive, PageFind DEF Next, Handler

LEMMA PageSteps ==
  /\ Init => AllInv /\ PageInv
  /\ AllInv /\ PageInv /\ [Next]_vars => (AllInv /\ PageInv)'
  BY ScopeInit, AnswerInit, HistoryInit, ScopeNext, AnswerHandler, AnswerOther, PageNext DEF AllInv

(* A client that reads to the end misses a KYC that matched all the time   *)
(* only by the removal of another or by two of one millisecond.            *)
THEOREM MissedTheorem == Spec => []MissedOnlyByRemoval
<1>1. PageInv => MissedOnlyByRemoval
  BY DEF PageInv, MissInv, MissedOnlyByRemoval, Missing, Finished
<1> QED BY <1>1, PageSteps, PTL DEF Spec

(* No KYC comes on two pages unless another one entered the list or two    *)
(* are of one millisecond.                                                 *)
THEOREM TwiceTheorem == Spec => []TwiceOnlyByEntry
<1>1. AllInv /\ PageInv => TwiceOnlyByEntry
  BY DEF PageInv, SeenInv, TwiceOnlyByEntry, Reading, AllInv, ScopeInv, TypeInv, ReadingInv
<1> QED BY <1>1, PageSteps, PTL DEF Spec

-----------------------------------------------------------------------------
(* The table under the reading.  A row is the status and createdAt of its   *)
(* user's KYC; a table of business KYCs is never verified.                 *)
TableOf ==
  [u \in User |-> IF u \in DOMAIN kyc THEN {[born |-> kyc[u].at, status |-> kyc[u].status]} ELSE {}]
UserTable == INSTANCE KycTable WITH
  table <- TableOf, Moment <- 0 .. MaxTime, Verifiable <- TRUE
BusinessTable == INSTANCE KycTable WITH
  table <- TableOf, Moment <- 0 .. MaxTime, Verifiable <- FALSE
ReadsKycTable == /\ kind = "user" => UserTable!Spec
                 /\ kind = "business" => BusinessTable!Spec

LEMMA TableInit == Init => UserTable!Init /\ BusinessTable!Init
  BY DEF Init, TableOf, UserTable!Init, BusinessTable!Init

LEMMA TableSame == UNCHANGED kyc => UNCHANGED TableOf
  BY DEF TableOf

LEMMA TableFile ==
  ASSUME TypeOK, NEW u \in Filer, File(u)
  PROVE  UserTable!File(u, now) /\ BusinessTable!File(u, now)
<1>1. u \in User /\ u \notin DOMAIN kyc
  BY ChoiceAssumption DEF File
<1>2. TableOf[u] = {}
  BY <1>1 DEF TableOf
<1>3. \A v \in User : \A r \in TableOf[v] : r.born <= now
  <2> SUFFICES ASSUME NEW v \in DOMAIN kyc PROVE kyc[v].at <= now
    BY DEF TableOf
  <2>1. kyc[v].at \in 0 .. now /\ now \in Nat
    BY BoundsAssumption DEF TypeOK
  <2> QED BY <2>1
<1>4. TableOf' = [TableOf EXCEPT ![u] = {[born |-> now, status |-> "PENDING"]}]
  <2>1. /\ DOMAIN kyc' = DOMAIN kyc \cup {u} /\ kyc'[u] = [status |-> "PENDING", at |-> now]
        /\ \A v \in DOMAIN kyc : kyc'[v] = kyc[v]
    BY <1>1 DEF File, NewRow
  <2>2. \A v \in User \ {u} : TableOf'[v] = TableOf[v]
    BY <2>1 DEF TableOf
  <2>3. TableOf'[u] = {[born |-> now, status |-> "PENDING"]}
    BY <1>1, <2>1 DEF TableOf
  <2> QED BY <2>2, <2>3 DEF TableOf
<1> QED BY <1>2, <1>3, <1>4 DEF UserTable!File, BusinessTable!File

LEMMA TableVerify ==
  ASSUME TypeOK, NEW u \in Filer, NEW s \in Status, Verify(u, s)
  PROVE  UserTable!Verify(u, s)
<1>1. u \in User /\ u \in DOMAIN kyc /\ kyc[u] \in [status : Status, at : 0 .. now]
  BY ChoiceAssumption DEF Verify, TypeOK
<1>2. PICK r : r = [born |-> kyc[u].at, status |-> kyc[u].status]
  OBVIOUS
<1>3. r \in TableOf[u]
  BY <1>1, <1>2 DEF TableOf
<1>4. TableOf' = [TableOf EXCEPT ![u] = {[r EXCEPT !.status = s]}]
  <2>1. DOMAIN kyc' = DOMAIN kyc /\ \A v \in DOMAIN kyc : v # u => kyc'[v] = kyc[v]
    BY DEF Verify
  <2>2. kyc'[u].status = s /\ kyc'[u].at = kyc[u].at
    BY <1>1 DEF Verify
  <2>3. \A v \in User \ {u} : TableOf'[v] = TableOf[v]
    BY <2>1 DEF TableOf
  <2>4. TableOf'[u] = {[born |-> kyc[u].at, status |-> s]}
    BY <1>1, <2>1, <2>2 DEF TableOf
  <2>5. [r EXCEPT !.status = s] = [born |-> kyc[u].at, status |-> s]
    BY <1>2
  <2> QED BY <2>3, <2>4, <2>5 DEF TableOf
<1> QED BY <1>3, <1>4 DEF UserTable!Verify

LEMMA TableDelete ==
  ASSUME NEW u \in Filer, Delete(u)
  PROVE  UserTable!Delete(u) /\ BusinessTable!Delete(u)
<1>1. u \in User /\ u \in DOMAIN kyc /\ DOMAIN kyc' = DOMAIN kyc \ {u}
      /\ \A v \in DOMAIN kyc' : kyc'[v] = kyc[v]
  BY ChoiceAssumption DEF Delete
<1>2. [born |-> kyc[u].at, status |-> kyc[u].status] \in TableOf[u] /\ TableOf'[u] = {}
  BY <1>1 DEF TableOf
<1>3. \A v \in User \ {u} : TableOf'[v] = TableOf[v]
  BY <1>1 DEF TableOf
<1>4. TableOf' = [TableOf EXCEPT ![u] = {}]
  BY <1>2, <1>3 DEF TableOf
<1> QED BY <1>2, <1>4 DEF UserTable!Delete, BusinessTable!Delete

LEMMA QuietSteps ==
  [Next]_vars =>
    \/ UNCHANGED kyc /\ UNCHANGED kind
    \/ \E u \in Filer : File(u) \/ Delete(u) \/ \E s \in Status : Verify(u, s)
<1> SUFFICES ASSUME [Next]_vars,
                    ~ \E u \in Filer : File(u) \/ Delete(u) \/ \E s \in Status : Verify(u, s)
             PROVE  UNCHANGED kyc /\ UNCHANGED kind
  OBVIOUS
<1>1. ASSUME NEW who \in Account \cup {None}, NEW filter \in Filter,
             NEW order \in {"asc", "desc"}, Open(who, filter, order)
      PROVE  UNCHANGED table /\ UNCHANGED config
  BY <1>1 DEF Open
<1>2. CASE Ask
  BY <1>2 DEF Ask, table, config
<1>3. CASE Receive \/ Leave
  BY <1>3 DEF Receive, Leave, table, config
<1>4. CASE Scope
  BY <1>4 DEF Scope, table, config
<1>5. CASE Walk
  BY <1>5 DEF Walk, table, config
<1>6. ASSUME NEW c \in Count, CountRows(c)
      PROVE  UNCHANGED table /\ UNCHANGED config
  BY <1>6 DEF CountRows
<1>7. ASSUME NEW rows \in SUBSET User, FindRows(rows)
      PROVE  UNCHANGED table /\ UNCHANGED config
  BY <1>7 DEF FindRows
<1>8. CASE Tick
  BY <1>8 DEF Tick, config
<1>9. CASE UNCHANGED vars
  BY <1>9 DEF vars, table, config
<1>10. UNCHANGED table /\ UNCHANGED config => UNCHANGED kyc /\ UNCHANGED kind
  BY DEF table, config
<1> QED
  BY <1>1, <1>2, <1>3, <1>4, <1>5, <1>6, <1>7, <1>8, <1>9, <1>10 DEF Next, Handler

LEMMA TableNext ==
  TypeOK /\ [Next]_vars =>
    /\ kind = "user" => [UserTable!Next]_TableOf
    /\ kind = "business" => [BusinessTable!Next]_TableOf
<1> SUFFICES ASSUME TypeOK, [Next]_vars
             PROVE  /\ kind = "user" => [UserTable!Next]_TableOf
                    /\ kind = "business" => [BusinessTable!Next]_TableOf
  OBVIOUS
<1>1. CASE UNCHANGED kyc
  BY <1>1, TableSame
<1>2. ASSUME NEW u \in Filer, File(u)
      PROVE  UserTable!Next /\ BusinessTable!Next
  <2>1. u \in User /\ now \in 0 .. MaxTime
    BY ChoiceAssumption DEF TypeOK
  <2> QED BY <1>2, <2>1, TableFile DEF UserTable!Next, BusinessTable!Next
<1>3. ASSUME NEW u \in Filer, NEW s \in Status, Verify(u, s)
      PROVE  UserTable!Next /\ kind # "business"
  <2>1. u \in User /\ kind = "user"
    BY <1>3, ChoiceAssumption DEF Verify
  <2> QED BY <1>3, <2>1, TableVerify DEF UserTable!Next
<1>4. ASSUME NEW u \in Filer, Delete(u)
      PROVE  UserTable!Next /\ BusinessTable!Next
  <2>1. u \in User
    BY ChoiceAssumption
  <2> QED BY <1>4, <2>1, TableDelete DEF UserTable!Next, BusinessTable!Next
<1>5. CASE \E u \in Filer : File(u) \/ Delete(u) \/ \E s \in Status : Verify(u, s)
  BY <1>2, <1>3, <1>4, <1>5
<1> QED BY <1>1, <1>5, QuietSteps

LEMMA KindStays == [Next]_vars => kind' = kind
<1>1. \A u \in Filer : File(u) \/ Delete(u) => kind' = kind
  BY DEF File, Delete, config
<1>2. \A u \in Filer, s \in Status : Verify(u, s) => kind' = kind
  BY DEF Verify, config
<1> QED BY <1>1, <1>2, QuietSteps

(* The table that the client reads changes as KycTable says, which is how   *)
(* the services change theirs (TableRefinement of KycProofs).              *)
THEOREM TableTheorem == Spec => ReadsKycTable
<1>1. kind = "user" /\ [Next]_vars => (kind = "user")'
  BY KindStays
<1>2. kind = "business" /\ [Next]_vars => (kind = "business")'
  BY KindStays
<1>3. Init => UserTable!Init /\ BusinessTable!Init
  BY TableInit
<1>4. /\ TypeOK /\ kind = "user" /\ [Next]_vars => [UserTable!Next]_TableOf
      /\ TypeOK /\ kind = "business" /\ [Next]_vars => [BusinessTable!Next]_TableOf
  BY TableNext
<1> QED
  BY <1>1, <1>2, <1>3, <1>4, TypeCorrect, PTL
     DEF Spec, ReadsKycTable, UserTable!Spec, BusinessTable!Spec

-----------------------------------------------------------------------------
(* What the fairness of the handler needs to end a request: each of its     *)
(* steps leaves less to do.  The stages only go forward, a turn of the walk *)
(* leaves fewer users outside the scope, and a query leaves fewer queries,  *)
(* but that the last count is followed by the rows.                        *)
Forward ==
  \/ req.at = "scope" /\ req'.at \in {"walk", "query"}
  \/ req.at = "walk" /\ req'.at = "query"
  \/ /\ req.at = "walk" /\ req'.at = "walk"
     /\ Cardinality(User \ req'.scope) < Cardinality(User \ req.scope)
  \/ /\ req.at = "query" /\ req'.at = "query"
     /\ \/ req'.todo \subseteq req.todo /\ req'.todo # req.todo
        \/ "rows" \notin req.todo /\ req'.todo = {"rows"}
HandlerGoesForward == [][Handler => Forward]_vars

LEMMA Fewer ==
  ASSUME NEW S, NEW T, IsFiniteSet(S), T \subseteq S, T # S
  PROVE  Cardinality(T) < Cardinality(S)
<1>1. IsFiniteSet(T) /\ Cardinality(T) <= Cardinality(S) /\ Cardinality(T) # Cardinality(S)
  BY FS_Subset
<1>2. Cardinality(S) \in Nat /\ Cardinality(T) \in Nat
  BY <1>1, FS_CardinalityType
<1> QED BY <1>1, <1>2

LEMMA ScopeForward == ASSUME TypeInv, Scope PROVE Forward
<1>1. req \in Request /\ req.at = "scope"
  BY DEF Scope, TypeInv, RequestInv
<1>2. ASSUME NEW s, Scoped(s) PROVE req'.at = "query"
  BY <1>1, <1>2 DEF Scoped, Request
<1>3. ASSUME NEW s, NEW q, req' = [req EXCEPT !.at = "walk", !.scope = s, !.queue = q]
      PROVE  req'.at = "walk"
  BY <1>1, <1>3 DEF Request
<1> QED BY <1>1, <1>2, <1>3 DEF Scope, Forward

LEMMA WalkForward == ASSUME TypeInv, Walk PROVE Forward
<1> DEFINE ids == Fresh(Children(req.queue), req.scope)
<1>1. req \in Request /\ req.at = "walk" /\ ids \subseteq User \ req.scope
  BY DEF Walk, TypeInv, RequestInv, Fresh, Children
<1>2. \/ Scoped(req.scope)
      \/ ids # {} /\ req' = [req EXCEPT !.scope = Collected(@, ids), !.queue = ids]
  BY DEF Walk
<1> HIDE DEF ids
<1>3. CASE Scoped(req.scope)
  <2>1. req'.at = "query"
    BY <1>1, <1>3 DEF Scoped, Request
  <2> QED BY <1>1, <2>1 DEF Forward
<1>4. CASE ids # {} /\ req' = [req EXCEPT !.scope = Collected(@, ids), !.queue = ids]
  <2>1. req'.at = "walk" /\ req'.scope = req.scope \cup ids
    BY <1>1, <1>4 DEF Collected, Request
  <2>2. User \ req'.scope \subseteq User \ req.scope /\ User \ req'.scope # User \ req.scope
    BY <1>1, <1>4, <2>1
  <2>3. IsFiniteSet(User \ req.scope)
    BY FiniteAssumption, FS_Subset, User \ req.scope \subseteq User
  <2>4. Cardinality(User \ req'.scope) < Cardinality(User \ req.scope)
    BY <2>2, <2>3, Fewer
  <2> QED BY <1>1, <2>1, <2>4 DEF Forward
<1> QED BY <1>2, <1>3, <1>4

LEMMA QueryForward ==
  ASSUME TypeInv, (\E c \in Count : CountRows(c)) \/ \E rows \in SUBSET User : FindRows(rows)
  PROVE  Forward
<1>1. req \in Request /\ (kind = "user" => req.todo \subseteq Count \/ req.todo \subseteq {"rows"})
  BY DEF TypeInv, RequestInv
<1>2. ASSUME NEW c \in Count, CountRows(c) PROVE Forward
  <2>1. req.at = "query" /\ c \in req.todo
        /\ req'.at = "query"
        /\ \/ req.todo = {c} /\ kind = "user" /\ req'.todo = {"rows"}
           \/ req'.todo = req.todo \ {c}
    BY <1>1, <1>2 DEF CountRows, Request
  <2>2. c # "rows"
    BY <1>2, Naming
  <2> QED BY <2>1, <2>2 DEF Forward
<1>3. ASSUME NEW rows \in SUBSET User, FindRows(rows) PROVE Forward
  <2>1. req.at = "query" /\ "rows" \in req.todo
        /\ req'.at = "query" /\ req'.todo = req.todo \ {"rows"}
    BY <1>1, <1>3 DEF FindRows, Request
  <2> QED BY <2>1 DEF Forward
<1> QED BY <1>2, <1>3

(* Every step of the handler goes forward, so a request ends after finitely *)
(* many of them, also where parents form a cycle.                          *)
THEOREM ForwardTheorem == Spec => HandlerGoesForward
<1>1. TypeInv /\ [Next]_vars => [Handler => Forward]_vars
  BY ScopeForward, WalkForward, QueryForward DEF Handler
<1>2. ScopeInv => TypeInv
  BY DEF ScopeInv
<1> QED BY <1>1, <1>2, ScopeInit, ScopeNext, PTL DEF Spec, HandlerGoesForward
=============================================================================
