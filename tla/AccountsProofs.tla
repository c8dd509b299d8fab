--------------------------- MODULE AccountsProofs ---------------------------
(***************************************************************************)
(* What is true of the accounts for every plan of the seed, every number   *)
(* of its runs, wherever they end, and any edits beside them.              *)
(***************************************************************************)
EXTENDS Accounts, SequenceTheorems, WellFoundedInduction, TLAPS

Name == Key \cup {Root}
Value == {Planned(k)[c] : k \in Name, c \in Column}
           \cup UNION {{d[c] : c \in DOMAIN d} : d \in Wish}
Columns == [Column -> Value]
Request == [of : Id \cup {None}, dto : Wish \cup {<< >>}, read : Columns \cup {<< >>},
            todo : SUBSET Nat, since : SUBSET Cell]
Task == [do : {"root", "role", "assign", "user", "wallet", "list"},
         of : Name \cup Range(RoleNames)]

(* A script plants the root first and the users in the order of the plan,   *)
(* and then gives out wallets and lists, the lists in the same order.       *)
OfAccount(task) == task.do \in {"root", "user"}
Before(x, y) ==
  /\ OfAccount(y) => y.of # Root
  /\ OfAccount(x) /\ OfAccount(y) => Place(x.of) < Place(y.of)
  /\ x.do \in {"wallet", "list"} => ~OfAccount(y)
  /\ x.do = "list" /\ y.do = "list" => Place(x.of) < Place(y.of)
Orderly(s) ==
  /\ s \in Seq(Task)
  /\ \A i \in 1 .. Len(s) : s[i].of \in IF s[i].do = "role" THEN Range(RoleNames) ELSE Name
  /\ \A i, j \in 1 .. Len(s) : i < j => Before(s[i], s[j])
Accounted(s, k) == \E i \in 1 .. Len(s) : OfAccount(s[i]) /\ s[i].of = k
Asks(s, do, k) == \E i \in 1 .. Len(s) : s[i].do = do /\ s[i].of = k

(* The rows, and which of them the run has yet to plant. *)
TypeInv ==
  /\ DOMAIN profile \subseteq Id /\ profile \in [DOMAIN profile -> Columns]
  /\ DOMAIN asked = DOMAIN profile
  /\ req \in [Worker -> Request]
SeedInv ==
  /\ run \in 0 .. MaxRun /\ Orderly(left)
  /\ \A id \in DOMAIN profile : id[2] <= run
  /\ left # << >> => run # 0
  /\ \A i \in 1 .. Len(left) : OfAccount(left[i]) => <<left[i].of, run>> \notin DOMAIN profile

(* The unique indexes hold, and a row is as planned but for its edits. *)
UniqueInv ==
  \A i, j \in DOMAIN profile : \A c \in Unique :
    i # j /\ (IsRoot(i) <=> IsRoot(j)) => profile[i][c] # profile[j][c]
FromPlan ==
  \A id \in DOMAIN profile, c \in Column :
    <<id, c>> \notin edited => profile[id][c] = Planned(id[1])[c]

(* What a request has read is what the row holds and was asked for, and the *)
(* values it has looked for are free, unless somebody wrote them since.     *)
ReadHolds(r) ==
  \A c \in Column :
    /\ r.read[c] # profile[r.of][c] => <<r.of, c>> \in r.since
    /\ r.read[c] # asked[r.of][c] => <<r.of, c>> \in r.since \cup stale
Free(r) ==
  ~IsRoot(r.of) =>
    \A c \in Unique :
      (\A i \in r.todo : LookedUp[i] # c) =>
        \A id \in Holders(r.of, c, Written(r)[c]) \ {r.of} : <<id, c>> \in r.since
Carries(r) ==
  r # Idle =>
    /\ r.of \in DOMAIN profile /\ r.dto \in Wish /\ r.read \in Columns
    /\ r.todo \subseteq DOMAIN LookedUp /\ \A i \in r.todo : LookedUp[i] \in DOMAIN r.dto
    /\ ReadHolds(r) /\ Free(r)

AccountInv ==
  /\ TypeInv /\ SeedInv /\ UniqueInv /\ FromPlan
  /\ EditLostOnlyByOverlap /\ SecondRowOnlyAfterThreeEdits
  /\ \A w \in Worker : Carries(req[w])

-----------------------------------------------------------------------------
(* Values and requests. *)

LEMMA IdleType == Idle \in Request
  BY DEF Idle, Request

LEMMA PlannedType == \A k \in Name : Planned(k) \in Columns
  BY DEF Planned, Columns, Value

LEMMA WishType ==
  ASSUME NEW d \in Wish, NEW c \in DOMAIN d
  PROVE d[c] \in Value /\ c \in Column
  BY WishAssumption DEF Value

LEMMA WrittenIs ==
  ASSUME NEW r, r.dto \in Wish, r.read \in Columns
  PROVE /\ Written(r) \in Columns
        /\ \A c \in Column : Written(r)[c] = IF c \in DOMAIN r.dto THEN r.dto[c] ELSE r.read[c]
<1>1. \A c \in Column : Written(r)[c] = IF c \in DOMAIN r.dto THEN r.dto[c] ELSE r.read[c]
  BY DEF Written
<1>2. \A c \in Column : (IF c \in DOMAIN r.dto THEN r.dto[c] ELSE r.read[c]) \in Value
  BY WishType DEF Columns
<1> QED BY <1>1, <1>2 DEF Written, Columns

LEMMA IdleCarries == Carries(Idle)
  BY DEF Carries

LEMMA IdIs == \A id \in Id : id[1] \in Name /\ id[2] \in 1 .. MaxRun /\ id = <<id[1], id[2]>>
  BY DEF Id, Name

(* A request goes on, the tables stay. *)
LEMMA Proceeds ==
  ASSUME AccountInv, NEW w \in Worker, NEW s \in Request, Carries(s),
         req' = [req EXCEPT ![w] = s],
         UNCHANGED <<profile, asked, edited, stale, run, left>>
  PROVE AccountInv'
<1>1. /\ req' \in [Worker -> Request] /\ req'[w] = s
      /\ \A v \in Worker : v # w => req'[v] = req[v]
  BY DEF AccountInv, TypeInv
<1>2. \A v \in Worker : Carries(req'[v])
  BY <1>1 DEF AccountInv
<1>3. \A v \in Worker : Carries(req[v])'
  BY <1>2 DEF Carries, ReadHolds, Free, Holders, Peers
<1>4. TypeInv' /\ SeedInv' /\ UniqueInv' /\ FromPlan'
  BY <1>1 DEF AccountInv, TypeInv, SeedInv, UniqueInv, FromPlan
<1>5. EditLostOnlyByOverlap' /\ SecondRowOnlyAfterThreeEdits'
  BY DEF AccountInv, EditLostOnlyByOverlap, SecondRowOnlyAfterThreeEdits
<1> QED BY <1>3, <1>4, <1>5 DEF AccountInv

-----------------------------------------------------------------------------
(* The steps of an edit. *)

LEMMA FinishKeeps ==
  ASSUME AccountInv, NEW w \in Worker, Finish(w),
         UNCHANGED <<profile, asked, edited, stale, run, left>>
  PROVE AccountInv'
  BY IdleType, IdleCarries, Proceeds DEF Finish

LEMMA EditFailsKeeps ==
  ASSUME AccountInv, NEW w \in Worker, EditFails(w), UNCHANGED seed
  PROVE AccountInv'
  BY FinishKeeps DEF EditFails, tables, seed

(* What is read holds, and a value that need not be looked for is the own  *)
(* value of the row: the unique index says that no other row has it.       *)
LEMMA EditReadKeeps ==
  ASSUME AccountInv, NEW w \in Worker, EditRead(w), UNCHANGED seed
  PROVE AccountInv'
<1>1. PICK id \in DOMAIN profile, dto \in Wish :
        req' = [req EXCEPT ![w] =
                  [of |-> id, dto |-> dto, read |-> profile[id], since |-> {},
                   todo |-> {i \in DOMAIN LookedUp :
                               /\ ~IsRoot(id)
                               /\ LookedUp[i] \in DOMAIN dto
                               /\ dto[LookedUp[i]] # profile[id][LookedUp[i]]}]]
  BY DEF EditRead
<1> PICK s : s = [of |-> id, dto |-> dto, read |-> profile[id], since |-> {},
                  todo |-> {i \in DOMAIN LookedUp :
                              /\ ~IsRoot(id)
                              /\ LookedUp[i] \in DOMAIN dto
                              /\ dto[LookedUp[i]] # profile[id][LookedUp[i]]}]
  OBVIOUS
<1>2. id \in Id /\ profile[id] \in Columns /\ DOMAIN LookedUp = 1 .. 3
  BY DEF AccountInv, TypeInv, LookedUp
<1>3. s \in Request
  BY <1>1, <1>2 DEF Request
<1>4. ReadHolds(s)
  BY <1>1 DEF ReadHolds, AccountInv, EditLostOnlyByOverlap
<1>5. Free(s)
  <2> SUFFICES ASSUME ~IsRoot(id), NEW c \in Unique, \A i \in s.todo : LookedUp[i] # c,
                      NEW x \in Holders(id, c, Written(s)[c]), x # id
               PROVE FALSE
    BY <1>1 DEF Free
  <2>1. PICK i \in 1 .. 3 : LookedUp[i] = c
    BY DEF Unique, LookedUp
  <2>2. c \in DOMAIN dto => dto[c] = profile[id][c]
    BY <1>1, <1>2, <2>1
  <2>3. Written(s)[c] = profile[id][c]
    <3>1. c \in Column
      BY DEF Unique, Column
    <3> QED BY <1>1, <1>2, <2>2, <3>1, WrittenIs
  <2> QED BY <2>3 DEF Holders, Peers, AccountInv, UniqueInv
<1>6. Carries(s)
  BY <1>1, <1>2, <1>4, <1>5 DEF Carries
<1> QED BY <1>1, <1>3, <1>6, Proceeds DEF EditRead, tables, seed

(* A value that was looked for and not found is free. *)
LEMMA LookUpKeeps ==
  ASSUME AccountInv, NEW w \in Worker, LookUp(w), UNCHANGED seed
  PROVE AccountInv'
<1> DEFINE r == req[w]
<1>1. PICK i \in r.todo :
        /\ r # Idle
        /\ \/ Finish(w)
           \/ /\ Holders(r.of, LookedUp[i], r.dto[LookedUp[i]]) = {}
              /\ req' = [req EXCEPT ![w].todo = @ \ {i}]
        /\ UNCHANGED <<profile, asked, edited, stale, run, left>>
  BY DEF LookUp, Active, tables, seed
<1> DEFINE c == LookedUp[i]
           s == [r EXCEPT !.todo = @ \ {i}]
<1>2. r \in Request /\ Carries(r)
  BY <1>1 DEF AccountInv, TypeInv
<1>3. /\ s \in Request /\ s.of = r.of /\ s.dto = r.dto /\ s.read = r.read
      /\ s.since = r.since /\ s.todo = r.todo \ {i}
  BY <1>1, <1>2 DEF Request
<1>4. CASE Finish(w)
  BY <1>1, <1>4, FinishKeeps
<1>5. CASE Holders(r.of, c, r.dto[c]) = {} /\ req' = [req EXCEPT ![w].todo = @ \ {i}]
  <2>1. Written(s) = Written(r)
    BY <1>3 DEF Written
  <2>2. ReadHolds(s)
    BY <1>1, <1>2, <1>3 DEF Carries, ReadHolds
  <2>3. Free(s)
    <3> SUFFICES ASSUME ~IsRoot(r.of), NEW d \in Unique, \A j \in s.todo : LookedUp[j] # d,
                        NEW x \in Holders(r.of, d, Written(r)[d]) \ {r.of}
                 PROVE <<x, d>> \in r.since
      BY <1>3, <2>1 DEF Free
    <3>1. CASE \A j \in r.todo : LookedUp[j] # d
      BY <1>1, <1>2, <3>1 DEF Carries, Free
    <3>2. CASE c = d
      <4>1. d \in DOMAIN r.dto /\ r.dto \in Wish /\ r.read \in Columns
        BY <1>1, <1>2, <3>2 DEF Carries
      <4>2. Written(r)[d] = r.dto[d]
        BY <4>1, WishType, WrittenIs
      <4> QED BY <1>5, <3>2, <4>2
    <3> QED BY <1>1, <1>3, <3>1, <3>2
  <2>4. Carries(s)
    BY <1>1, <1>2, <1>3, <2>2, <2>3 DEF Carries
  <2>5. req' = [req EXCEPT ![w] = s]
    BY <1>5
  <2> QED BY <1>1, <1>3, <2>4, <2>5, Proceeds
<1> QED BY <1>1, <1>4, <1>5

(* A request hears of the columns that others wrote. *)
LEMMA OvertakenIs ==
  ASSUME NEW reqs \in [Worker -> Request], NEW cells \in SUBSET Cell
  PROVE /\ Overtaken(reqs, cells) \in [Worker -> Request]
        /\ \A v \in Worker :
             LET r == reqs[v]
                 s == Overtaken(reqs, cells)[v]
             IN IF r = Idle THEN s = Idle
                ELSE s = [r EXCEPT !.since = @ \cup cells]
<1>1. \A v \in Worker :
        LET r == reqs[v]
            s == Overtaken(reqs, cells)[v]
        IN IF r = Idle THEN s = Idle ELSE s = [r EXCEPT !.since = @ \cup cells]
  BY DEF Overtaken
<1>2. \A v \in Worker : [reqs[v] EXCEPT !.since = @ \cup cells] \in Request
  BY DEF Request
<1> QED BY <1>1, <1>2, IdleType DEF Overtaken

LEMMA FieldsStay ==
  ASSUME NEW r \in Request, NEW cells \in SUBSET Cell,
         NEW s, s = [r EXCEPT !.since = @ \cup cells]
  PROVE /\ s.of = r.of /\ s.dto = r.dto /\ s.read = r.read /\ s.todo = r.todo
        /\ s.since = r.since \cup cells
        /\ Written(s) = Written(r)
  BY DEF Request, Written

(* The write of a profile.  A column it was not asked for goes back to what *)
(* was read: others who wrote it since are overruled, which makes it stale. *)
LEMMA EditWriteKeeps ==
  ASSUME AccountInv, NEW w \in Worker, EditWrite(w), UNCHANGED seed
  PROVE AccountInv'
<1> DEFINE r == req[w]
           id == r.of
           new == Written(r)
           changed == {<<id, c>> : c \in {d \in Column : new[d] # profile[id][d]}}
<1>1. r # Idle /\ r.todo = {} /\ Carries(r) /\ r \in Request /\ run' = run /\ left' = left
  BY DEF EditWrite, Writing, Active, AccountInv, TypeInv, seed
<1>2. CASE Clash(id, new)
  BY <1>1, <1>2, FinishKeeps DEF EditWrite, tables
<1>3. CASE ~Clash(id, new)
  <2>1. /\ profile' = [profile EXCEPT ![id] = new]
        /\ asked' = [asked EXCEPT ![id] =
                       [c \in Column |-> IF c \in DOMAIN r.dto THEN r.dto[c] ELSE @[c]]]
        /\ edited' = edited \cup changed
        /\ stale' = (stale \ ({id} \X Column))
                       \cup (({id} \X (Column \ DOMAIN r.dto)) \cap (r.since \cup stale))
        /\ req' = Overtaken([req EXCEPT ![w] = Idle], changed)
    BY <1>3 DEF EditWrite
  <2>2. /\ id \in DOMAIN profile /\ id \in Id /\ r.dto \in Wish /\ r.read \in Columns
        /\ new \in Columns /\ changed \in SUBSET Cell
        /\ \A c \in Column : new[c] = IF c \in DOMAIN r.dto THEN r.dto[c] ELSE r.read[c]
    BY <1>1, WrittenIs DEF Carries, AccountInv, TypeInv, Cell
  <2> HIDE DEF r, new
  <2>3. /\ DOMAIN profile' = DOMAIN profile /\ DOMAIN asked' = DOMAIN profile
        /\ profile'[id] = new
        /\ \A c \in Column :
             asked'[id][c] = IF c \in DOMAIN r.dto THEN new[c] ELSE asked[id][c]
        /\ \A x \in DOMAIN profile : x # id => profile'[x] = profile[x] /\ asked'[x] = asked[x]
    BY <2>1, <2>2 DEF AccountInv, TypeInv
  <2>4. \A c \in Column : <<id, c>> \in changed <=> new[c] # profile[id][c]
    OBVIOUS
  <2>5. \A x \in DOMAIN profile, c \in Column :
          <<x, c>> \in stale' <=>
            IF x = id THEN c \notin DOMAIN r.dto /\ <<id, c>> \in r.since \cup stale
            ELSE <<x, c>> \in stale
    BY <2>1
  <2> DEFINE others == [req EXCEPT ![w] = Idle]
  <2>6. /\ others \in [Worker -> Request] /\ others[w] = Idle
        /\ \A v \in Worker : v # w => others[v] = req[v]
    BY IdleType DEF AccountInv, TypeInv
  <2>7. req' \in [Worker -> Request]
    BY <2>1, <2>2, <2>6, OvertakenIs
  <2>8. TypeInv'
    BY <2>1, <2>2, <2>3, <2>7 DEF AccountInv, TypeInv
  <2>9. SeedInv'
    BY <1>1, <2>3 DEF AccountInv, SeedInv
  <2>10. UniqueInv'
    <3>1. \A x \in DOMAIN profile, c \in Unique :
            x # id /\ (IsRoot(x) <=> IsRoot(id)) => profile[x][c] # new[c]
      BY <1>3 DEF Clash, Holders, Peers, IsRoot, new
    <3> QED BY <2>3, <3>1 DEF AccountInv, UniqueInv
  <2>11. FromPlan'
    BY <2>1, <2>3, <2>4 DEF AccountInv, FromPlan
  <2>12. EditLostOnlyByOverlap'
    <3>1. \A c \in Column : r.read[c] # asked[id][c] => <<id, c>> \in r.since \cup stale
      BY <1>1 DEF Carries, ReadHolds
    <3> SUFFICES ASSUME NEW x \in DOMAIN profile, NEW c \in Column,
                        profile'[x][c] # asked'[x][c]
                 PROVE  <<x, c>> \in stale'
      BY <2>3 DEF EditLostOnlyByOverlap
    <3>2. CASE x = id
      BY <2>2, <2>3, <2>5, <3>1, <3>2
    <3>3. CASE x # id
      <4>1. profile[x][c] # asked[x][c]
        BY <2>3, <3>3
      <4> QED BY <2>5, <3>3, <4>1 DEF AccountInv, EditLostOnlyByOverlap
    <3> QED BY <3>2, <3>3
  <2>13. SecondRowOnlyAfterThreeEdits'
    BY <2>1, <2>3 DEF AccountInv, SecondRowOnlyAfterThreeEdits
  <2>14. ASSUME NEW v \in Worker
         PROVE  Carries(req[v])'
    <3> DEFINE q == req[v]
               s == req'[v]
    <3>1. CASE others[v] = Idle
      BY <2>1, <2>2, <2>6, <3>1, OvertakenIs DEF Carries
    <3>2. CASE others[v] # Idle
      <4>1. /\ q # Idle /\ q \in Request /\ Carries(q)
            /\ s = [q EXCEPT !.since = @ \cup changed]
        BY <2>1, <2>2, <2>6, <3>2, OvertakenIs DEF AccountInv
      <4> HIDE DEF changed, q, s
      <4>2. /\ s.of = q.of /\ s.dto = q.dto /\ s.read = q.read /\ s.todo = q.todo
            /\ s.since = q.since \cup changed /\ Written(s) = Written(q)
        BY <2>2, <4>1, FieldsStay
      <4>3. /\ q.of \in DOMAIN profile /\ q.dto \in Wish /\ q.read \in Columns
            /\ q.todo \subseteq DOMAIN LookedUp /\ \A i \in q.todo : LookedUp[i] \in DOMAIN q.dto
            /\ ReadHolds(q) /\ Free(q)
        BY <4>1 DEF Carries
      <4>4. ASSUME NEW c \in Column
            PROVE  /\ s.read[c] # profile'[s.of][c] => <<s.of, c>> \in s.since
                   /\ s.read[c] # asked'[s.of][c] => <<s.of, c>> \in s.since \cup stale'
        <5>1. /\ q.read[c] # profile[q.of][c] => <<q.of, c>> \in q.since
              /\ q.read[c] # asked[q.of][c] => <<q.of, c>> \in q.since \cup stale
          BY <4>3 DEF ReadHolds
        <5>2. CASE q.of # id
          BY <2>3, <2>5, <4>2, <4>3, <5>1, <5>2
        <5>3. CASE q.of = id
          BY <2>3, <2>4, <2>5, <4>2, <4>3, <5>1, <5>3
        <5> QED BY <5>2, <5>3
      <4>5. ASSUME ~IsRoot(s.of), NEW c \in Unique, \A i \in s.todo : LookedUp[i] # c,
                   NEW x \in DOMAIN profile, x # s.of, ~IsRoot(x),
                   profile'[x][c] = Written(s)[c]
            PROVE  <<x, c>> \in s.since
        <5>1. profile[x][c] = Written(q)[c] => <<x, c>> \in q.since
          BY <4>2, <4>3, <4>5 DEF Free, Holders, Peers, IsRoot
        <5>2. c \in Column
          BY DEF Unique, Column
        <5>3. CASE x # id
          BY <2>3, <4>2, <4>5, <5>1, <5>3
        <5>4. CASE x = id
          BY <2>3, <2>4, <4>2, <4>5, <5>1, <5>2, <5>4
        <5> QED BY <5>3, <5>4
      <4>6. Free(req[v])'
        BY <2>3, <4>5 DEF Free, Holders, Peers, IsRoot, s, Written
      <4>7. ReadHolds(req[v])'
        BY <4>4 DEF ReadHolds, s
      <4> QED BY <2>3, <4>2, <4>3, <4>6, <4>7 DEF Carries, s
    <3> QED BY <3>1, <3>2
  <2> QED BY <2>8, <2>9, <2>10, <2>11, <2>12, <2>13, <2>14 DEF AccountInv
<1> QED BY <1>2, <1>3

-----------------------------------------------------------------------------
(* The steps of a run of the seed. *)

LEMMA TailKeeps ==
  ASSUME NEW s, Orderly(s), s # << >>
  PROVE /\ Orderly(Tail(s)) /\ s[1] = Head(s) /\ 1 \in 1 .. Len(s)
        /\ \A j \in 1 .. Len(Tail(s)) :
             j + 1 \in 1 .. Len(s) /\ Tail(s)[j] = s[j + 1] /\ Before(Head(s), Tail(s)[j])
        /\ Head(s).of \in IF Head(s).do = "role" THEN Range(RoleNames) ELSE Name
<1>1. /\ s[1] = Head(s) /\ 1 \in 1 .. Len(s) /\ Tail(s) \in Seq(Task)
      /\ \A j \in 1 .. Len(Tail(s)) :
           j \in Nat /\ 1 < j + 1 /\ j + 1 \in 1 .. Len(s) /\ Tail(s)[j] = s[j + 1]
  BY DEF Orderly
<1>2. \A i, j \in 1 .. Len(Tail(s)) : i < j => Before(Tail(s)[i], Tail(s)[j])
  BY <1>1 DEF Orderly
<1> QED BY <1>1, <1>2 DEF Orderly

LEMMA TailAsks ==
  ASSUME NEW s, Orderly(s), s # << >>
  PROVE /\ \A k : Accounted(s, k) <=>
                    (OfAccount(Head(s)) /\ Head(s).of = k) \/ Accounted(Tail(s), k)
        /\ \A k, do : Asks(s, do, k) <=>
                        (Head(s).do = do /\ Head(s).of = k) \/ Asks(Tail(s), do, k)
<1>1. /\ s[1] = Head(s) /\ 1 \in 1 .. Len(s)
      /\ \A j \in 1 .. Len(Tail(s)) : j + 1 \in 1 .. Len(s) /\ Tail(s)[j] = s[j + 1]
  BY TailKeeps
<1>2. \A i \in 1 .. Len(s) : i = 1 \/ (i - 1 \in 1 .. Len(Tail(s)) /\ Tail(s)[i - 1] = s[i])
  BY DEF Orderly
<1>3. \A k : Accounted(s, k) <=>
               (OfAccount(Head(s)) /\ Head(s).of = k) \/ Accounted(Tail(s), k)
  BY <1>1, <1>2 DEF Accounted
<1>4. \A k, do : Asks(s, do, k) <=>
                   (Head(s).do = do /\ Head(s).of = k) \/ Asks(Tail(s), do, k)
  BY <1>1, <1>2 DEF Asks
<1> QED BY <1>3, <1>4

LEMMA PlaceIs ==
  /\ \A k \in Name : Place(k) \in Nat
  /\ \A k, m \in Name : Place(k) = Place(m) => k = m
  /\ Place(Root) = 0 /\ Root \notin Key
  /\ Keys \in Seq(Key) /\ \A i \in 1 .. Len(Keys) : Place(Keys[i]) = i
  /\ \A k \in Key : \E i \in 1 .. Len(Keys) : Keys[i] = k
<1>1. /\ Plan \in Seq(Range(Plan)) /\ DOMAIN Plan = 1 .. Len(Plan) /\ Root \notin Key
      /\ Keys \in Seq(Key) /\ Len(Keys) = Len(Plan)
      /\ \A i \in 1 .. Len(Plan) : Keys[i] = Plan[i].key /\ Plan[i].key \in Key
  BY PlanningAssumption DEF Keys, Key
<1>2. \A i, j \in 1 .. Len(Plan) : Plan[i].key = Plan[j].key => i = j
  BY <1>1, PlanningAssumption
<1>3. \A k \in Key : Place(k) \in 1 .. Len(Plan) /\ Plan[Place(k)].key = k
  <2> TAKE k \in Key
  <2>1. \E i \in DOMAIN Plan : Plan[i].key = k
    BY DEF Key
  <2> QED BY <1>1, <2>1 DEF Place
<1>4. Place(Root) = 0
  BY DEF Place
<1>5. \A i \in 1 .. Len(Keys) : Place(Keys[i]) = i
  BY <1>1, <1>2, <1>3
<1>6. \A k \in Key : Place(k) # 0 /\ Place(k) \in Nat
  BY <1>1, <1>3
<1>7. \A k, m \in Name : Place(k) = Place(m) => k = m
  BY <1>1, <1>3, <1>4, <1>6 DEF Name
<1> QED BY <1>1, <1>3, <1>4, <1>5, <1>6, <1>7 DEF Name

LEMMA EachIs ==
  ASSUME NEW do \in {"root", "role", "assign", "user", "wallet", "list"},
         NEW names \in Seq(Name \cup Range(RoleNames))
  PROVE /\ Each(do, names) \in Seq(Task) /\ Len(Each(do, names)) = Len(names)
        /\ \A i \in 1 .. Len(names) : /\ Each(do, names)[i].do = do
                                      /\ Each(do, names)[i].of = names[i]
<1>1. \A i \in 1 .. Len(names) : [do |-> do, of |-> names[i]] \in Task
  BY DEF Task
<1> QED BY <1>1 DEF Each

LEMMA Plain ==
  ASSUME NEW s \in Seq(Task),
         \A i \in 1 .. Len(s) : /\ ~OfAccount(s[i]) /\ s[i].do # "list"
                                /\ s[i].of \in IF s[i].do = "role" THEN Range(RoleNames) ELSE Name
  PROVE Orderly(s)
  BY DEF Orderly, Before

(* Two scripts of which the one comes before the other make one. *)
LEMMA Joins ==
  ASSUME NEW s, NEW t, Orderly(s), Orderly(t),
         \A i \in 1 .. Len(s), j \in 1 .. Len(t) : Before(s[i], t[j])
  PROVE /\ Orderly(s \o t)
        /\ \A n \in 1 .. Len(s \o t) : \/ \E i \in 1 .. Len(s) : (s \o t)[n] = s[i]
                                       \/ \E j \in 1 .. Len(t) : (s \o t)[n] = t[j]
        /\ \A k : Accounted(s, k) \/ Accounted(t, k) => Accounted(s \o t, k)
        /\ \A do, k : Asks(s, do, k) \/ Asks(t, do, k) => Asks(s \o t, do, k)
<1> DEFINE u == s \o t
<1>1. s \in Seq(Task) /\ t \in Seq(Task) /\ Len(s) \in Nat /\ Len(t) \in Nat
  BY DEF Orderly
<1>2. /\ u \in Seq(Task) /\ Len(u) = Len(s) + Len(t)
      /\ \A n \in 1 .. Len(u) :
           \/ n \in 1 .. Len(s) /\ u[n] = s[n]
           \/ n \notin 1 .. Len(s) /\ n - Len(s) \in 1 .. Len(t) /\ u[n] = t[n - Len(s)]
      /\ \A n \in 1 .. Len(s) : n \in 1 .. Len(u) /\ u[n] = s[n]
      /\ \A n \in 1 .. Len(t) : n + Len(s) \in 1 .. Len(u) /\ u[n + Len(s)] = t[n]
  BY <1>1
<1> HIDE DEF u
<1>3. \A n \in 1 .. Len(u) : u[n].of \in IF u[n].do = "role" THEN Range(RoleNames) ELSE Name
  BY <1>2 DEF Orderly
<1>4. ASSUME NEW m \in 1 .. Len(u), NEW n \in 1 .. Len(u), m < n
      PROVE  Before(u[m], u[n])
  <2>1. CASE m \in 1 .. Len(s) /\ n \in 1 .. Len(s)
    BY <1>2, <1>4, <2>1 DEF Orderly
  <2>2. CASE m \notin 1 .. Len(s) /\ n \notin 1 .. Len(s)
    <3>1. m - Len(s) < n - Len(s)
      BY <1>1, <1>4
    <3> QED BY <1>2, <2>2, <3>1 DEF Orderly
  <2>3. CASE m \in 1 .. Len(s) /\ n \notin 1 .. Len(s)
    BY <1>2, <2>3
  <2>4. CASE m \notin 1 .. Len(s) /\ n \in 1 .. Len(s)
    BY <1>1, <1>4, <2>4
  <2> QED BY <2>1, <2>2, <2>3, <2>4
<1>5. \A n \in 1 .. Len(u) : \/ \E i \in 1 .. Len(s) : u[n] = s[i]
                             \/ \E j \in 1 .. Len(t) : u[n] = t[j]
  BY <1>2
<1>6. /\ \A k : Accounted(s, k) \/ Accounted(t, k) => Accounted(u, k)
      /\ \A do, k : Asks(s, do, k) \/ Asks(t, do, k) => Asks(u, do, k)
  BY <1>2 DEF Accounted, Asks
<1> QED BY <1>2, <1>3, <1>4, <1>5, <1>6 DEF Orderly, u

(* The script of a run is orderly, and leaves out no account. *)
LEMMA ScriptIs ==
  /\ Orderly(Script)
  /\ \A k \in Name : Accounted(Script, k) /\ Asks(Script, "wallet", k) /\ Asks(Script, "list", k)
<1> DEFINE S == Name \cup Range(RoleNames)
           all == <<Root>> \o Keys
<1>1. /\ RoleNames \in Seq(S) /\ Keys \in Seq(S)
      /\ \A i \in 1 .. Len(Keys) : Keys[i] \in Key
  BY RoleAssumption, PlaceIs DEF Name
<1>2. /\ all \in Seq(S) /\ \A i \in 1 .. Len(all) : all[i] \in Name /\ Place(all[i]) = i - 1
      /\ \A k \in Name : \E i \in 1 .. Len(all) : all[i] = k
  <2>1. /\ all \in Seq(Name) /\ Len(all) = 1 + Len(Keys) /\ all[1] = Root
        /\ \A i \in 1 .. Len(all) :
             i = 1 \/ (i - 1 \in 1 .. Len(Keys) /\ all[i] = Keys[i - 1])
        /\ \A i \in 1 .. Len(Keys) : i + 1 \in 1 .. Len(all) /\ all[i + 1] = Keys[i]
    <3>1. Keys \in Seq(Name) /\ Len(Keys) \in Nat /\ <<Root>> \in Seq(Name) /\ Len(<<Root>>) = 1
      BY PlaceIs DEF Name
    <3>2. /\ all \in Seq(Name) /\ Len(all) = 1 + Len(Keys)
          /\ \A i \in 1 .. Len(all) : all[i] = IF i <= 1 THEN Root ELSE Keys[i - 1]
      BY <3>1
    <3> HIDE DEF all
    <3> QED BY <3>1, <3>2
  <2> HIDE DEF all
  <2>2. ASSUME NEW i \in 1 .. Len(all)
        PROVE  all[i] \in Name /\ Place(all[i]) = i - 1
    <3>1. CASE i = 1
      BY <2>1, <3>1, PlaceIs DEF Name
    <3>2. CASE i - 1 \in 1 .. Len(Keys) /\ all[i] = Keys[i - 1]
      BY <1>1, <3>2, PlaceIs DEF Name
    <3> QED BY <2>1, <3>1, <3>2
  <2>3. ASSUME NEW k \in Name
        PROVE  \E i \in 1 .. Len(all) : all[i] = k
    <3>1. CASE k = Root
      <4>1. 1 \in 1 .. Len(all)
        BY <2>1, PlaceIs
      <4> QED BY <2>1, <3>1, <4>1
    <3>2. CASE k \in Key
      <4>1. PICK i \in 1 .. Len(Keys) : Keys[i] = k
        BY <3>2, PlaceIs
      <4> QED BY <2>1, <4>1
    <3> QED BY <3>1, <3>2 DEF Name
  <2> QED BY <2>1, <2>2, <2>3
<1> DEFINE one == <<Root>>
<1>3. one \in Seq(S) /\ Len(one) = 1 /\ one[1] = Root /\ 1 \in 1 .. 1 /\ Root \in Name
  BY DEF Name
<1> HIDE DEF all, one
<1> DEFINE a == Each("root", one)
           b == Each("role", RoleNames)
           c == Each("assign", one)
           d == Each("user", Keys)
           e == Each("wallet", all)
           f == Each("list", all)
<1>4. /\ a \in Seq(Task) /\ Len(a) = 1 /\ a[1].do = "root" /\ a[1].of = Root
      /\ \A i \in 1 .. Len(a) : i = 1
  BY <1>3, EachIs
<1>5. b \in Seq(Task) /\ \A i \in 1 .. Len(b) : b[i].do = "role" /\ b[i].of \in Range(RoleNames)
  BY <1>1, EachIs, RoleAssumption
<1>6. /\ c \in Seq(Task)
       /\ \A i \in 1 .. Len(c) : c[i].do = "assign" /\ c[i].of \in Name
  BY <1>3, EachIs
<1>7. /\ d \in Seq(Task) /\ Len(d) = Len(Keys)
       /\ \A i \in 1 .. Len(d) : d[i].do = "user" /\ d[i].of = Keys[i]
  BY <1>1, EachIs
<1>8. /\ e \in Seq(Task) /\ Len(e) = Len(all)
       /\ \A i \in 1 .. Len(e) : e[i].do = "wallet" /\ e[i].of = all[i]
  BY <1>2, EachIs
<1>9. /\ f \in Seq(Task) /\ Len(f) = Len(all)
       /\ \A i \in 1 .. Len(f) : f[i].do = "list" /\ f[i].of = all[i]
  BY <1>2, EachIs
<1>10. Script = ((((a \o b) \o c) \o d) \o e) \o f
  BY DEF Script, one, all
<1> HIDE DEF a, b, c, d, e, f
<1>11. Orderly(a)
  BY <1>3, <1>4 DEF Orderly
<1>12. Orderly(b)
  BY <1>5, Plain DEF OfAccount
<1>13. Orderly(c)
  BY <1>6, Plain DEF OfAccount
<1>14. Orderly(e)
  BY <1>2, <1>8, Plain DEF OfAccount
<1>15. Orderly(d)
  <2>1. \A i, j \in 1 .. Len(d) : i < j => Place(d[i].of) < Place(d[j].of)
    BY <1>7, PlaceIs
  <2>2. \A i \in 1 .. Len(d) : d[i].of \in Name /\ d[i].of # Root
    BY <1>1, <1>7, PlaceIs DEF Name
  <2> QED BY <1>7, <2>1, <2>2 DEF Orderly, Before
<1>16. Orderly(f)
  <2>1. \A i, j \in 1 .. Len(f) : i < j => Place(f[i].of) < Place(f[j].of)
    BY <1>2, <1>9
  <2> QED BY <1>2, <1>9, <2>1 DEF Orderly, Before, OfAccount
<1>17. /\ \A k \in Name : Asks(e, "wallet", k) /\ Asks(f, "list", k)
      /\ \A k \in Name : Accounted(a, k) \/ Accounted(d, k)
  <2>1. \A k \in Name : Asks(e, "wallet", k)
    BY <1>2, <1>8 DEF Asks
  <2>2. \A k \in Name : Asks(f, "list", k)
    BY <1>2, <1>9 DEF Asks
  <2>3. Accounted(a, Root)
    BY <1>4 DEF Accounted, OfAccount
  <2>4. ASSUME NEW k \in Key
        PROVE  Accounted(d, k)
    <3>1. PICK i \in 1 .. Len(Keys) : Keys[i] = k
      BY PlaceIs
    <3> QED BY <1>7, <3>1 DEF Accounted, OfAccount
  <2> QED BY <2>1, <2>2, <2>3, <2>4 DEF Name
<1> DEFINE ab == a \o b
<1>18. /\ Orderly(ab) /\ \A k : Accounted(a, k) => Accounted(ab, k)
       /\ \A i \in 1 .. Len(ab) : ab[i].do \in {"root", "role"} /\ (OfAccount(ab[i]) => ab[i].of = Root)
  <2>1. \A i \in 1 .. Len(a), j \in 1 .. Len(b) : Before(a[i], b[j])
    BY <1>5 DEF Before, OfAccount
  <2>2. /\ Orderly(ab) /\ \A k : Accounted(a, k) => Accounted(ab, k)
        /\ \A n \in 1 .. Len(ab) : \/ \E i \in 1 .. Len(a) : ab[n] = a[i]
                                   \/ \E j \in 1 .. Len(b) : ab[n] = b[j]
    BY <1>11, <1>12, <2>1, Joins
  <2> HIDE DEF ab
  <2> QED BY <1>4, <1>5, <2>2 DEF OfAccount
<1> HIDE DEF ab
<1> DEFINE abc == ab \o c
<1>19. /\ Orderly(abc) /\ \A k : Accounted(ab, k) => Accounted(abc, k)
       /\ \A i \in 1 .. Len(abc) : /\ abc[i].do \in {"root", "role", "assign"}
                                   /\ OfAccount(abc[i]) => abc[i].of = Root
  <2>1. \A i \in 1 .. Len(ab), j \in 1 .. Len(c) : Before(ab[i], c[j])
    BY <1>6 DEF Before, OfAccount
  <2>2. /\ Orderly(abc) /\ \A k : Accounted(ab, k) => Accounted(abc, k)
        /\ \A n \in 1 .. Len(abc) : \/ \E i \in 1 .. Len(ab) : abc[n] = ab[i]
                                    \/ \E j \in 1 .. Len(c) : abc[n] = c[j]
    BY <1>13, <1>18, <2>1, Joins
  <2> HIDE DEF abc
  <2> QED BY <1>6, <1>18, <2>2 DEF OfAccount
<1> HIDE DEF abc
<1> DEFINE abcd == abc \o d
<1>20. /\ Orderly(abcd) /\ \A k : Accounted(abc, k) \/ Accounted(d, k) => Accounted(abcd, k)
       /\ \A i \in 1 .. Len(abcd) : abcd[i].do \in {"root", "role", "assign", "user"}
  <2>1. \A j \in 1 .. Len(d) : d[j].of # Root /\ d[j].do = "user" /\ 0 < Place(d[j].of)
    BY <1>1, <1>7, PlaceIs
  <2>2. \A i \in 1 .. Len(abc), j \in 1 .. Len(d) : Before(abc[i], d[j])
    BY <1>19, <2>1, PlaceIs DEF Before
  <2>3. /\ Orderly(abcd) /\ \A k : Accounted(abc, k) \/ Accounted(d, k) => Accounted(abcd, k)
        /\ \A n \in 1 .. Len(abcd) : \/ \E i \in 1 .. Len(abc) : abcd[n] = abc[i]
                                     \/ \E j \in 1 .. Len(d) : abcd[n] = d[j]
    BY <1>15, <1>19, <2>2, Joins
  <2> HIDE DEF abcd
  <2> QED BY <1>19, <2>1, <2>3
<1> HIDE DEF abcd
<1> DEFINE abcde == abcd \o e
<1>21. /\ Orderly(abcde) /\ \A k : Accounted(abcd, k) => Accounted(abcde, k)
       /\ \A k, do : Asks(e, do, k) => Asks(abcde, do, k)
       /\ \A i \in 1 .. Len(abcde) : abcde[i].do \in {"root", "role", "assign", "user", "wallet"}
  <2>1. \A i \in 1 .. Len(abcd), j \in 1 .. Len(e) : Before(abcd[i], e[j])
    BY <1>8 DEF Before, OfAccount
  <2>2. /\ Orderly(abcde) /\ \A k : Accounted(abcd, k) => Accounted(abcde, k)
        /\ \A k, do : Asks(e, do, k) => Asks(abcde, do, k)
        /\ \A n \in 1 .. Len(abcde) : \/ \E i \in 1 .. Len(abcd) : abcde[n] = abcd[i]
                                      \/ \E j \in 1 .. Len(e) : abcde[n] = e[j]
    BY <1>14, <1>20, <2>1, Joins
  <2> HIDE DEF abcde
  <2> QED BY <1>20, <1>8, <2>2
<1> HIDE DEF abcde
<1>22. /\ Orderly(abcde \o f) /\ \A k : Accounted(abcde, k) => Accounted(abcde \o f, k)
       /\ \A k, do : Asks(abcde, do, k) \/ Asks(f, do, k) => Asks(abcde \o f, do, k)
  <2>1. \A i \in 1 .. Len(abcde), j \in 1 .. Len(f) : Before(abcde[i], f[j])
    BY <1>21, <1>9 DEF Before, OfAccount
  <2> QED BY <1>16, <1>21, <2>1, Joins
<1>23. Script = abcde \o f
  BY <1>10 DEF abcde, abcd, abc, ab
<1> QED BY <1>17, <1>18, <1>19, <1>20, <1>21, <1>22, <1>23

(* Every step of a run but those that plant an account leaves the columns. *)
LEMMA SeedsOn ==
  ASSUME AccountInv, left # << >>, left' = Tail(left) \/ left' = << >>,
         UNCHANGED <<profile, asked, edited, stale, req, run>>
  PROVE AccountInv'
<1>1. SeedInv'
  <2>1. Orderly(<< >>)
    BY DEF Orderly
  <2>2. CASE left' = << >>
    BY <2>1, <2>2 DEF AccountInv, SeedInv
  <2>3. CASE left' = Tail(left)
    BY <2>3, TailKeeps DEF AccountInv, SeedInv
  <2> QED BY <2>2, <2>3
<1>2. \A v \in Worker : Carries(req[v])'
  BY DEF AccountInv, Carries, ReadHolds, Free, Holders, Peers
<1>3. TypeInv' /\ UniqueInv' /\ FromPlan'
  BY DEF AccountInv, TypeInv, UniqueInv, FromPlan
<1>4. EditLostOnlyByOverlap' /\ SecondRowOnlyAfterThreeEdits'
  BY DEF AccountInv, EditLostOnlyByOverlap, SecondRowOnlyAfterThreeEdits
<1> QED BY <1>1, <1>2, <1>3, <1>4 DEF AccountInv

LEMMA StartKeeps ==
  ASSUME AccountInv, Start, UNCHANGED <<profile, asked, edited, stale, req>>
  PROVE AccountInv'
<1>1. SeedInv'
  <2>1. run \in Nat /\ run' = run + 1 /\ run' \in 0 .. MaxRun /\ run' # 0 /\ left' = Script
    BY PlanningAssumption DEF Start, AccountInv, SeedInv
  <2>2. \A id \in DOMAIN profile : id[2] \in Nat /\ id[2] <= run
    BY IdIs DEF AccountInv, TypeInv, SeedInv
  <2>3. \A id \in DOMAIN profile : id[2] <= run' /\ id[2] # run'
    BY <2>1, <2>2
  <2>4. \A k : <<k, run'>> \notin DOMAIN profile
    BY <2>3
  <2> QED BY <2>1, <2>3, <2>4, ScriptIs DEF SeedInv
<1>2. \A v \in Worker : Carries(req[v])'
  BY DEF AccountInv, Carries, ReadHolds, Free, Holders, Peers
<1>3. TypeInv' /\ UniqueInv' /\ FromPlan'
  BY DEF AccountInv, TypeInv, UniqueInv, FromPlan
<1>4. EditLostOnlyByOverlap' /\ SecondRowOnlyAfterThreeEdits'
  BY DEF AccountInv, EditLostOnlyByOverlap, SecondRowOnlyAfterThreeEdits
<1> QED BY <1>1, <1>2, <1>3, <1>4 DEF AccountInv

LEMMA PlannedIs == \A k \in Name, c \in Column : Planned(k)[c] = <<k, c>>
  BY DEF Planned

(* A new row repeats no unique value, or the database had refused it.  An   *)
(* earlier row of the same account would have been found, or have clashed,  *)
(* had it kept one of the three columns.                                    *)
LEMMA PlantingKeeps ==
  ASSUME AccountInv, Planting
  PROVE AccountInv'
<1> DEFINE k == Head(left).of
           id == <<k, run>>
<1>1. /\ left # << >> /\ left' = Tail(left) /\ run' = run /\ OfAccount(Head(left)) /\ ~Refused(k)
      /\ req' = Overtaken(req, ((DOMAIN profile') \ DOMAIN profile) \X Column)
      /\ stale' = stale
      /\ \/ Creates(k) /\ Create(id, Planned(k), NewPlace(k))
         \/ UNCHANGED tables
  BY DEF Planting, Account, Doing, Running, Step, OfAccount
<1>2. k \in Name /\ run \in 1 .. MaxRun /\ id \in Id /\ id \notin DOMAIN profile
  <2>1. Orderly(left) /\ run \in 0 .. MaxRun /\ run # 0
    BY <1>1 DEF AccountInv, SeedInv
  <2>2. left[1] = Head(left) /\ 1 \in 1 .. Len(left)
    BY <1>1, <2>1, TailKeeps
  <2>3. k \in Name /\ id \notin DOMAIN profile
    BY <1>1, <2>1, <2>2, TailKeeps DEF OfAccount, AccountInv, SeedInv
  <2>4. run \in 1 .. MaxRun
    BY <2>1, PlanningAssumption
  <2> QED BY <2>3, <2>4 DEF Id, Name
<1>3. CASE UNCHANGED tables
  <2>1. req' = Overtaken(req, {}) /\ {} \in SUBSET Cell /\ req \in [Worker -> Request]
    BY <1>1, <1>3 DEF tables, AccountInv, TypeInv
  <2>2. \A v \in Worker : req'[v] = req[v]
    <3> TAKE v \in Worker
    <3>1. req[v] # Idle => req'[v] = [req[v] EXCEPT !.since = @ \cup {}]
      BY <2>1, OvertakenIs
    <3>2. req[v] \in Request
      BY <2>1
    <3>3. [req[v] EXCEPT !.since = @ \cup {}] = req[v]
      BY <3>2 DEF Request
    <3> QED BY <2>1, <3>1, <3>3, OvertakenIs
  <2>3. req' = req
    BY <2>1, <2>2, OvertakenIs
  <2> QED BY <1>1, <1>3, <2>3, SeedsOn DEF tables
<1>4. CASE Creates(k) /\ Create(id, Planned(k), NewPlace(k))
  <2> HIDE DEF k
  <2> DEFINE cells == {id} \X Column
  <2>1. /\ DOMAIN profile' = DOMAIN profile \cup {id} /\ DOMAIN asked' = DOMAIN profile \cup {id}
        /\ profile'[id] = Planned(k) /\ asked'[id] = Planned(k)
        /\ \A x \in DOMAIN profile : profile'[x] = profile[x] /\ asked'[x] = asked[x]
        /\ edited' = edited
    BY <1>2, <1>4 DEF Create, AccountInv, TypeInv
  <2>2. req' = Overtaken(req, cells) /\ cells \in SUBSET Cell /\ req \in [Worker -> Request]
    <3>1. (DOMAIN profile') \ DOMAIN profile = {id}
      BY <1>2, <2>1
    <3> QED BY <1>1, <1>2, <3>1 DEF Cell, AccountInv, TypeInv
  <2>3. \A x \in DOMAIN profile, c \in Unique :
          (IsRoot(x) <=> IsRoot(id)) => profile[x][c] # Planned(k)[c]
    BY <1>1, <1>2, <1>4 DEF Refused, Clash, Holders, Peers, IsRoot
  <2>4. TypeInv'
    <3>1. profile' \in [DOMAIN profile' -> Columns]
      BY <1>2, <1>4, <2>1, PlannedType DEF AccountInv, TypeInv, Create
    <3> QED BY <1>2, <2>1, <2>2, <3>1, OvertakenIs DEF AccountInv, TypeInv
  <2>5. SeedInv'
    <3>1. Orderly(left) /\ Orderly(left') /\ left[1] = Head(left) /\ 1 \in 1 .. Len(left)
          /\ \A j \in 1 .. Len(left') : j + 1 \in 1 .. Len(left) /\ left'[j] = left[j + 1]
      BY <1>1, TailKeeps DEF AccountInv, SeedInv
    <3>2. \A j \in 1 .. Len(left') : OfAccount(left'[j]) => left'[j].of # k
      <4>1. \A j \in 1 .. Len(left') : OfAccount(left'[j]) => Place(k) < Place(left'[j].of)
        BY <1>1, <3>1, TailKeeps DEF Before, k, AccountInv, SeedInv
      <4> QED BY <1>2, <4>1, PlaceIs
    <3>3. \A j \in 1 .. Len(left') :
            OfAccount(left'[j]) => <<left'[j].of, run>> \notin DOMAIN profile'
      BY <2>1, <3>1, <3>2 DEF AccountInv, SeedInv
    <3>4. \A x \in DOMAIN profile' : x[2] <= run
      BY <1>2, <2>1 DEF AccountInv, SeedInv
    <3> QED BY <1>1, <1>2, <3>1, <3>3, <3>4 DEF AccountInv, SeedInv
  <2>6. UniqueInv'
    BY <2>1, <2>3 DEF AccountInv, UniqueInv, IsRoot
  <2>7. FromPlan'
    BY <2>1 DEF AccountInv, FromPlan
  <2>8. EditLostOnlyByOverlap'
    BY <1>1, <2>1 DEF AccountInv, EditLostOnlyByOverlap
  <2>9. SecondRowOnlyAfterThreeEdits'
    <3> SUFFICES ASSUME NEW i \in DOMAIN profile', NEW j \in DOMAIN profile', NEW c \in Unique,
                        i[1] = j[1], i[2] < j[2], <<i, c>> \notin edited
                 PROVE FALSE
      BY <2>1 DEF SecondRowOnlyAfterThreeEdits
    <3>1. CASE i = id
      <4>1. j \in DOMAIN profile
        BY <2>1, <3>1, <1>2
      <4>2. j[2] <= run /\ run < j[2] /\ j[2] \in Nat /\ run \in Nat
        BY <1>2, <3>1, <4>1, IdIs DEF AccountInv, SeedInv, TypeInv
      <4> QED BY <4>2
    <3>2. CASE i # id /\ j # id
      BY <2>1, <3>2 DEF AccountInv, SecondRowOnlyAfterThreeEdits
    <3>3. CASE i # id /\ j = id
      <4>1. i \in DOMAIN profile /\ i[1] = k /\ c \in Column
        BY <2>1, <3>3 DEF Unique, Column
      <4>2. profile[i][c] = Planned(k)[c]
        BY <4>1 DEF AccountInv, FromPlan
      <4> QED BY <2>3, <4>1, <4>2 DEF IsRoot
    <3> QED BY <3>1, <3>2, <3>3
  <2>10. ASSUME NEW v \in Worker
         PROVE  Carries(req[v])'
    <3> DEFINE q == req[v]
               s == req'[v]
    <3>1. CASE q = Idle
      BY <2>2, <3>1, OvertakenIs DEF Carries
    <3>2. CASE q # Idle
      <4>1. q \in Request /\ Carries(q) /\ s = [q EXCEPT !.since = @ \cup cells]
        BY <2>2, <3>2, OvertakenIs DEF AccountInv
      <4> HIDE DEF cells, q, s
      <4>2. /\ s.of = q.of /\ s.dto = q.dto /\ s.read = q.read /\ s.todo = q.todo
            /\ s.since = q.since \cup cells /\ Written(s) = Written(q)
        BY <2>2, <4>1, FieldsStay
      <4>3. /\ q.of \in DOMAIN profile /\ q.dto \in Wish /\ q.read \in Columns
            /\ q.todo \subseteq DOMAIN LookedUp /\ \A i \in q.todo : LookedUp[i] \in DOMAIN q.dto
            /\ ReadHolds(q) /\ Free(q)
        BY <3>2, <4>1 DEF Carries, q
      <4>4. ReadHolds(req[v])'
        <5>1. ASSUME NEW c \in Column
              PROVE  /\ s.read[c] # profile'[s.of][c] => <<s.of, c>> \in s.since
                     /\ s.read[c] # asked'[s.of][c] => <<s.of, c>> \in s.since \cup stale'
          BY <1>1, <2>1, <4>2, <4>3 DEF ReadHolds
        <5> QED BY <5>1 DEF ReadHolds, s
      <4>5. ASSUME ~IsRoot(s.of), NEW c \in Unique, \A i \in s.todo : LookedUp[i] # c,
                   NEW x \in DOMAIN profile', x # s.of, ~IsRoot(x),
                   profile'[x][c] = Written(s)[c]
            PROVE  <<x, c>> \in s.since
        <5>1. CASE x = id
          BY <4>2, <5>1 DEF Unique, Column, cells
        <5>2. CASE x # id
          BY <2>1, <4>2, <4>3, <4>5, <5>2 DEF Free, Holders, Peers, IsRoot
        <5> QED BY <5>1, <5>2
      <4>6. Free(req[v])'
        BY <4>5 DEF Free, Holders, Peers, IsRoot, s, Written
      <4> QED BY <2>1, <4>2, <4>3, <4>4, <4>6 DEF Carries, s
    <3> QED BY <3>1, <3>2
  <2> QED BY <2>4, <2>5, <2>6, <2>7, <2>8, <2>9, <2>10 DEF AccountInv
<1> QED BY <1>1, <1>3, <1>4

-----------------------------------------------------------------------------
LEMMA InitHolds == Init => AccountInv
<1> SUFFICES ASSUME Init PROVE AccountInv
  OBVIOUS
<1>1. /\ profile = << >> /\ asked = << >> /\ run = 0 /\ left = << >>
      /\ req = [w \in Worker |-> Idle]
  BY DEF Init
<1>2. DOMAIN profile = {} /\ DOMAIN asked = {}
  BY <1>1
<1>3. TypeInv
  BY <1>1, <1>2, IdleType DEF TypeInv
<1>4. SeedInv
  BY <1>1, <1>2, PlanningAssumption DEF SeedInv, Orderly
<1> QED BY <1>1, <1>2, <1>3, <1>4, IdleCarries
        DEF AccountInv, UniqueInv, FromPlan, EditLostOnlyByOverlap, SecondRowOnlyAfterThreeEdits

LEMMA SeedingKeeps ==
  ASSUME AccountInv, Seeding
  PROVE AccountInv'
<1>1. CASE Planting
  BY <1>1, PlantingKeeps
<1>2. CASE Start /\ UNCHANGED tables /\ UNCHANGED edit
  BY <1>2, StartKeeps DEF tables, edit
<1>3. CASE /\ Stop \/ PlantRole \/ PlantWallet \/ PlantList
           /\ UNCHANGED tables /\ UNCHANGED edit
  BY <1>3, SeedsOn DEF Stop, PlantRole, PlantWallet, PlantList, Doing, Running, Step, tables, edit
<1>4. CASE AccountRefused /\ UNCHANGED edit
  BY <1>4, SeedsOn DEF AccountRefused, Stop, Running, tables, edit
<1>5. CASE AssignRole /\ UNCHANGED edit
  BY <1>5, SeedsOn DEF AssignRole, Doing, Running, Step, edit
<1> QED BY <1>1, <1>2, <1>3, <1>4, <1>5 DEF Seeding

LEMMA StepKeeps == AccountInv /\ [Next]_vars => AccountInv'
<1> SUFFICES ASSUME AccountInv, [Next]_vars PROVE AccountInv'
  OBVIOUS
<1>1. CASE Seeding
  BY <1>1, SeedingKeeps
<1>2. CASE Editing
  BY <1>2, EditReadKeeps, LookUpKeeps, EditWriteKeeps, EditFailsKeeps DEF Editing
<1>3. CASE UNCHANGED vars
  BY <1>3 DEF vars, tables, edit, seed, AccountInv, TypeInv, SeedInv, UniqueInv, FromPlan,
              EditLostOnlyByOverlap, SecondRowOnlyAfterThreeEdits,
              Carries, ReadHolds, Free, Holders, Peers
<1> QED BY <1>1, <1>2, <1>3 DEF Next, Quiet

(* The invariant of the accounts: the unique indexes hold, a row is as       *)
(* planned but for its edits, and what a request in flight has read or       *)
(* looked for is so, unless others wrote it since.                           *)
THEOREM Invariance == Spec => []AccountInv
<1>1. Init => AccountInv
  BY InitHolds
<1>2. AccountInv /\ [Next]_vars => AccountInv'
  BY StepKeeps
<1> QED BY <1>1, <1>2, PTL DEF Spec

(* An edit of a profile is lost only to a request that read before it. *)
THEOREM EditTheorem == Spec => []EditLostOnlyByOverlap
<1>1. AccountInv => EditLostOnlyByOverlap
  BY DEF AccountInv
<1> QED BY <1>1, Invariance, PTL

(* A write that the look-ups let pass is refused by a unique index only if  *)
(* another account took the value in between.                               *)
THEOREM ConflictTheorem == Spec => []ConflictOnlyByOverlap
<1>1. AccountInv => ConflictOnlyByOverlap
  BY DEF AccountInv, ConflictOnlyByOverlap, Writing, Active, Carries, Free
<1> QED BY <1>1, Invariance, PTL

(* The seed plants an account a second time only when its row gave up all   *)
(* three unique columns.                                                    *)
THEOREM SecondRowTheorem == Spec => []SecondRowOnlyAfterThreeEdits
<1>1. AccountInv => SecondRowOnlyAfterThreeEdits
  BY DEF AccountInv
<1> QED BY <1>1, Invariance, PTL

(* A run of the seed that nobody's edits disturb is refused no row: rows as *)
(* planned share a value only with themselves, and those a run finds.       *)
THEOREM RefusedTheorem == Spec => []RefusedOnlyAfterEdit
<1>1. AccountInv => RefusedOnlyAfterEdit
  <2> DEFINE k == Head(left).of
             id == <<k, run>>
  <2> SUFFICES ASSUME AccountInv, Doing("root") \/ Doing("user"), Refused(k)
               PROVE \E cell \in edited : cell[2] \in Unique
    BY DEF RefusedOnlyAfterEdit
  <2>1. k \in Name
    <3>1. Orderly(left) /\ left # << >> /\ OfAccount(Head(left))
      BY DEF Doing, Running, OfAccount, AccountInv, SeedInv
    <3> QED BY <3>1, TailKeeps DEF OfAccount
  <2>2. PICK c \in Unique, x \in Peers(id) : profile[x][c] = Planned(k)[c]
    BY DEF Refused, Clash, Holders
  <2>3. x \in DOMAIN profile /\ x[1] \in Name /\ c \in Column /\ "username" \in Column
    BY IdIs DEF Peers, AccountInv, TypeInv, Unique, Column
  <2>4. CASE <<x, c>> \in edited
    BY <2>4
  <2>5. CASE <<x, c>> \notin edited
    <3>1. x[1] = k
      BY <2>1, <2>2, <2>3, <2>5, PlannedIs DEF AccountInv, FromPlan
    <3>2. profile[x]["username"] # Planned(k)["username"]
      BY <2>2 DEF Refused, Creates, Found, Holders
    <3>3. <<x, "username">> \in edited
      BY <2>3, <3>1, <3>2 DEF AccountInv, FromPlan
    <3> QED BY <3>3 DEF Unique
  <2> QED BY <2>4, <2>5
<1> QED BY <1>1, Invariance, PTL

-----------------------------------------------------------------------------
(* What a run has equipped so far.                                          *)
Kept(id) == <<id, "username">> \notin edited

(* The run met account k: of its rows, the one that kept its username. *)
Met(k) ==
  /\ got[k] \in DOMAIN profile
  /\ Kept(got[k]) => got[k][1] = k
  /\ \A id \in DOMAIN profile : id[1] = k /\ Kept(id) => id = got[k]
Stage(k) ==
  /\ Accounted(left, k) => Asks(left, "wallet", k)
  /\ Accounted(left, k) \/ Met(k)
  /\ Asks(left, "wallet", k) \/ got[k] \in wallet
  /\ Asks(left, "list", k) \/ PortOf(k) \in DOMAIN list
(* A port is held by the first account of the plan that has it. *)
HeldFirst(p) ==
  /\ list[p] \in DOMAIN profile
  /\ Kept(list[p]) =>
       /\ PortOf(list[p][1]) = p
       /\ \A k \in Name : PortOf(k) = p => Place(list[p][1]) <= Place(k)
EquipInv ==
  /\ got \in [Name -> Id \cup {None}]
  /\ left # << >> => ~through
  /\ left # << >> \/ through => \A k \in Name : Stage(k)
  /\ \A p \in DOMAIN list : HeldFirst(p)

LEMMA RowIs ==
  ASSUME AccountInv, NEW id \in DOMAIN profile
  PROVE id[1] \in Name /\ id \in Id /\ id[2] \in Nat
  BY IdIs DEF AccountInv, TypeInv

LEMMA EditsEquip ==
  ASSUME EquipInv, UNCHANGED seed, DOMAIN profile' = DOMAIN profile, edited \subseteq edited'
  PROVE EquipInv'
<1>1. /\ got' = got /\ left' = left /\ through' = through /\ wallet' = wallet /\ list' = list
      /\ \A id : Kept(id)' => Kept(id)
  BY DEF seed, Kept
<1>2. \A k \in Name : Stage(k) => Stage(k)'
  BY <1>1 DEF Stage, Met
<1>3. \A p \in DOMAIN list : HeldFirst(p) => HeldFirst(p)'
  BY <1>1 DEF HeldFirst
<1> QED BY <1>1, <1>2, <1>3 DEF EquipInv

LEMMA StartEquips ==
  ASSUME EquipInv, Start, UNCHANGED tables
  PROVE EquipInv'
<1>1. /\ got' \in [Name -> Id \cup {None}] /\ left' = Script /\ ~through'
      /\ list' = list /\ profile' = profile /\ edited' = edited
  BY DEF Start, tables, Name
<1>2. \A k \in Name : Stage(k)'
  BY <1>1, ScriptIs DEF Stage
<1>3. \A p \in DOMAIN list' : HeldFirst(p)'
  BY <1>1 DEF EquipInv, HeldFirst, Kept
<1> QED BY <1>1, <1>2, <1>3 DEF EquipInv

LEMMA StopEquips ==
  ASSUME EquipInv, Stop, UNCHANGED tables
  PROVE EquipInv'
<1>1. /\ got' = got /\ left' = << >> /\ ~through'
      /\ list' = list /\ profile' = profile /\ edited' = edited
  BY DEF Stop, Running, EquipInv, tables
<1>2. \A p \in DOMAIN list' : HeldFirst(p)'
  BY <1>1 DEF EquipInv, HeldFirst, Kept
<1> QED BY <1>1, <1>2 DEF EquipInv

(* What a step of the script leaves to do. *)
LEMMA StepIs ==
  ASSUME AccountInv, EquipInv, left # << >>, Step
  PROVE /\ left' = Tail(left) /\ (left' # << >> => ~through')
        /\ Orderly(left)
        /\ Head(left).of \in IF Head(left).do = "role" THEN Range(RoleNames) ELSE Name
        /\ \A k \in Name : Stage(k)
        /\ \A k : Accounted(left, k) <=>
                    (OfAccount(Head(left)) /\ Head(left).of = k) \/ Accounted(left', k)
        /\ \A k, do : Asks(left, do, k) <=>
                        (Head(left).do = do /\ Head(left).of = k) \/ Asks(left', do, k)
<1>1. left' = Tail(left) /\ through' = (Len(left) = 1) /\ Orderly(left)
  BY DEF Step, AccountInv, SeedInv
<1>2. left' # << >> => ~through'
  <2>1. left \in Seq(Task) /\ Tail(left) \in Seq(Task) /\ Len(Tail(left)) = Len(left) - 1
    BY <1>1 DEF Orderly
  <2>2. Tail(left) # << >> => Len(Tail(left)) # 0
    BY <2>1, EmptySeq
  <2>3. Tail(left) # << >> => Len(left) # 1
    BY <2>1, <2>2
  <2> QED BY <1>1, <2>3, Zenon
<1> QED BY <1>1, <1>2, TailKeeps, TailAsks DEF EquipInv

(* The steps between the accounts and the wallets. *)
LEMMA OthersEquip ==
  ASSUME AccountInv, EquipInv, left # << >>, Step, Head(left).do \in {"role", "assign"},
         UNCHANGED <<got, wallet, list, profile, edited>>
  PROVE EquipInv'
<1>1. \A k \in Name : Stage(k)'
  BY StepIs DEF Stage, Met, Kept, OfAccount
<1>2. \A p \in DOMAIN list' : HeldFirst(p)'
  BY DEF EquipInv, HeldFirst, Kept
<1> QED BY <1>1, <1>2, StepIs DEF EquipInv

(* When wallets are given out, no account is left to plant. *)
LEMMA NoneLeft ==
  ASSUME AccountInv, EquipInv, left # << >>, Step, Head(left).do \in {"wallet", "list"}
  PROVE \A k : ~Accounted(left, k)
<1>1. Orderly(left) /\ left' = Tail(left)
  BY StepIs
<1>2. \A k : ~Accounted(Tail(left), k)
  BY <1>1, TailKeeps DEF Before, Accounted
<1> QED BY <1>1, <1>2, TailAsks DEF OfAccount

LEMMA WalletEquips ==
  ASSUME AccountInv, EquipInv, PlantWallet, UNCHANGED tables
  PROVE EquipInv'
<1>1. /\ left # << >> /\ Step /\ Head(left).do = "wallet"
      /\ got' = got /\ list' = list /\ wallet' = wallet \cup {got[Head(left).of]}
      /\ profile' = profile /\ edited' = edited
  BY DEF PlantWallet, Doing, Running, tables
<1>2. \A k \in Name : Stage(k)'
  BY <1>1, StepIs, NoneLeft DEF Stage, Met, Kept
<1>3. \A p \in DOMAIN list' : HeldFirst(p)'
  BY <1>1 DEF EquipInv, HeldFirst, Kept
<1> QED BY <1>1, <1>2, <1>3, StepIs DEF EquipInv

(* An entry goes to the account the script names, unless the port has one.  *)
(* Earlier accounts of that port had their turn and would hold it.          *)
LEMMA ListEquips ==
  ASSUME AccountInv, EquipInv, PlantList, UNCHANGED tables
  PROVE EquipInv'
<1> PICK k : k = Head(left).of
  OBVIOUS
<1> DEFINE q == PortOf(k)
<1> HIDE DEF q
<1>1. /\ left # << >> /\ Step /\ Head(left).do = "list"
      /\ got' = got /\ wallet' = wallet /\ list' = Upsert(list, q, got[k])
      /\ profile' = profile /\ edited' = edited
  BY DEF PlantList, Doing, Running, tables, q
<1>2. /\ DOMAIN list' = DOMAIN list \cup {q}
      /\ \A p \in DOMAIN list : list'[p] = list[p]
      /\ q \notin DOMAIN list => list'[q] = got[k]
  BY <1>1 DEF Upsert
<1>3. k \in Name /\ Orderly(left) /\ Met(k)
  <2>1. k \in Name /\ Orderly(left) /\ Stage(k)
    BY <1>1, StepIs
  <2> QED BY <1>1, <2>1, NoneLeft DEF Stage
<1>4. \A m \in Name : Stage(m)'
  BY <1>1, <1>2, StepIs, NoneLeft DEF Stage, Met, Kept, q
<1>5. ASSUME q \notin DOMAIN list, NEW m \in Name, PortOf(m) = q
      PROVE  Place(k) <= Place(m)
  <2>1. Asks(left, "list", m)
    BY <1>1, <1>5, StepIs DEF Stage
  <2>2. m = k \/ Asks(Tail(left), "list", m)
    BY <1>1, <2>1, StepIs
  <2>3. Asks(Tail(left), "list", m) => Place(k) < Place(m)
    BY <1>1, <1>3, TailKeeps DEF Asks, Before
  <2> QED BY <1>3, <2>2, <2>3, PlaceIs
<1>6. ASSUME NEW p \in DOMAIN list'
      PROVE  HeldFirst(p)'
  <2>1. CASE p \in DOMAIN list
    BY <1>1, <1>2, <2>1 DEF EquipInv, HeldFirst, Kept
  <2>2. CASE p \notin DOMAIN list
    <3>1. p = q /\ list'[p] = got[k]
      BY <1>2, <2>2
    <3>2. got[k] \in DOMAIN profile /\ (Kept(got[k]) => got[k][1] = k)
      BY <1>3 DEF Met
    <3> QED BY <1>1, <1>5, <2>2, <3>1, <3>2 DEF HeldFirst, Kept, q
  <2> QED BY <2>1, <2>2
<1> QED BY <1>1, <1>4, <1>6, StepIs DEF EquipInv

(* A run meets the row that holds the username of the account, or makes one. *)
LEMMA PlantingEquips ==
  ASSUME AccountInv, EquipInv, Planting
  PROVE EquipInv'
<1> PICK k : k = Head(left).of
  OBVIOUS
<1> DEFINE id == <<k, run>>
<1>1. /\ left # << >> /\ Step /\ OfAccount(Head(left)) /\ UNCHANGED <<wallet, list>>
      /\ edited' = edited
      /\ \/ /\ Creates(k) /\ DOMAIN profile' = DOMAIN profile \cup {id}
            /\ got' = [got EXCEPT ![k] = id]
         \/ /\ profile' = profile
            /\ \E i \in Found(k) : got' = [got EXCEPT ![k] = i]
  BY DEF Planting, Account, Doing, Running, OfAccount, Create, tables
<1>2. k \in Name /\ Orderly(left) /\ run \in 0 .. MaxRun /\ run # 0
  BY <1>1, StepIs DEF OfAccount, AccountInv, SeedInv
<1>3. id \in Id
  BY <1>2, PlanningAssumption DEF Id, Name
<1>4. ~Accounted(left', k)
  <2>1. Accounted(left', k) => Place(k) < Place(k)
    BY <1>1, <1>2, TailKeeps, StepIs DEF Before, Accounted
  <2> QED BY <1>2, <2>1, PlaceIs
<1>5. \A x \in DOMAIN profile :
        x[1] = k /\ Kept(x) => x \in Peers(id) /\ profile[x]["username"] = Planned(k)["username"]
  BY DEF AccountInv, FromPlan, Kept, Peers, IsRoot, Column
<1>6. \A x : x \in Found(k) <=> x \in Peers(id) /\ profile[x]["username"] = Planned(k)["username"]
  BY DEF Found, Holders
<1>7. got' \in [Name -> Id \cup {None}] /\ \A m \in Name : m # k => got'[m] = got[m]
  <2>1. \A i \in Found(k) : i \in Id
    BY <1>6, RowIs DEF Peers
  <2> QED BY <1>1, <1>3, <2>1 DEF EquipInv
<1>8. Met(k)'
  <2>1. CASE /\ Creates(k) /\ DOMAIN profile' = DOMAIN profile \cup {id}
             /\ got' = [got EXCEPT ![k] = id]
    <3>1. got'[k] = id
      BY <1>2, <2>1 DEF EquipInv
    <3>2. \A x \in DOMAIN profile : ~(x[1] = k /\ Kept(x))
      BY <1>5, <1>6, <2>1 DEF Creates
    <3> QED BY <1>1, <2>1, <3>1, <3>2 DEF Met, Kept
  <2>2. CASE profile' = profile /\ \E i \in Found(k) : got' = [got EXCEPT ![k] = i]
    <3>1. PICK i \in Found(k) : got'[k] = i
      BY <1>2, <2>2 DEF EquipInv
    <3>2. i \in DOMAIN profile /\ i \in Peers(id) /\ profile[i]["username"] = Planned(k)["username"]
      BY <1>6 DEF Peers
    <3>3. Kept(i) => i[1] = k
      <4>1. Kept(i) => profile[i]["username"] = Planned(i[1])["username"]
        BY <3>2 DEF AccountInv, FromPlan, Kept, Column
      <4>2. i[1] \in Name /\ "username" \in Column
        BY <3>2, RowIs DEF Column
      <4> QED BY <1>2, <3>2, <4>1, <4>2, PlannedIs
    <3>4. \A x \in DOMAIN profile : x[1] = k /\ Kept(x) => x = i
      BY <1>5, <3>2 DEF AccountInv, UniqueInv, Unique, Peers, IsRoot
    <3> QED BY <1>1, <2>2, <3>1, <3>2, <3>3, <3>4 DEF Met, Kept
  <2> QED BY <1>1, <2>1, <2>2
<1>9. ASSUME NEW m \in Name, m # k, Met(m)
      PROVE  Met(m)'
  <2>1. /\ got'[m] = got[m] /\ edited' = edited /\ DOMAIN profile \subseteq DOMAIN profile'
        /\ \A x \in DOMAIN profile' : x \in DOMAIN profile \/ x[1] = k
    BY <1>1, <1>7, <1>9
  <2> QED BY <1>9, <2>1 DEF Met, Kept
<1>10. ASSUME NEW m \in Name
       PROVE  Stage(m)'
  <2>1. /\ Stage(m) /\ wallet' = wallet /\ list' = list
        /\ Accounted(left, m) <=> m = k \/ Accounted(left', m)
        /\ \A do : do \in {"wallet", "list"} => (Asks(left, do, m) <=> Asks(left', do, m))
    BY <1>1, StepIs DEF OfAccount
  <2>2. CASE m = k
    BY <1>4, <1>8, <2>1, <2>2 DEF Stage
  <2>3. CASE m # k
    BY <1>7, <1>9, <2>1, <2>3 DEF Stage
  <2> QED BY <2>2, <2>3
<1>11. \A p \in DOMAIN list' : HeldFirst(p)'
  BY <1>1 DEF EquipInv, HeldFirst, Kept
<1> QED BY <1>1, <1>7, <1>10, <1>11, StepIs DEF EquipInv

LEMMA EquipStep == AccountInv /\ EquipInv /\ [Next]_vars => EquipInv'
<1> SUFFICES ASSUME AccountInv, EquipInv, [Next]_vars PROVE EquipInv'
  OBVIOUS
<1>1. CASE Planting
  BY <1>1, PlantingEquips
<1>2. CASE Start /\ UNCHANGED tables
  BY <1>2, StartEquips
<1>3. CASE Stop /\ UNCHANGED tables
  BY <1>3, StopEquips
<1>4. CASE PlantRole /\ UNCHANGED tables
  BY <1>4, OthersEquip DEF PlantRole, Doing, Running, tables
<1>5. CASE PlantWallet /\ UNCHANGED tables
  BY <1>5, WalletEquips
<1>6. CASE PlantList /\ UNCHANGED tables
  BY <1>6, ListEquips
<1>7. CASE AccountRefused
  BY <1>7, StopEquips DEF AccountRefused
<1>8. CASE AssignRole
  BY <1>8, OthersEquip DEF AssignRole, Doing, Running
<1>9. CASE Editing
  <2>1. UNCHANGED seed /\ DOMAIN profile' = DOMAIN profile /\ edited \subseteq edited'
    BY <1>9 DEF Editing, EditRead, LookUp, EditWrite, EditFails, tables
  <2> QED BY <2>1, EditsEquip
<1>10. CASE UNCHANGED vars
  BY <1>10, EditsEquip DEF vars, tables
<1> QED BY <1>1, <1>2, <1>3, <1>4, <1>5, <1>6, <1>7, <1>8, <1>9, <1>10 DEF Next, Seeding, Quiet

(* A run that comes to its end left every account it met with its wallet,   *)
(* and with its entry where the plan gives the domain to no earlier one.    *)
THEOREM EquipTheorem == Spec => []CompletedRunEquips
<1>1. Init => EquipInv
  <2>1. << >> \in [{} -> Id]
    OBVIOUS
  <2> QED BY DEF Init, EquipInv, Name
<1>2. AccountInv /\ EquipInv /\ [Next]_vars => EquipInv'
  BY EquipStep
<1>3. AccountInv /\ EquipInv => CompletedRunEquips
  <2> SUFFICES ASSUME AccountInv, EquipInv, through, NEW k \in Name
               PROVE  /\ got[k] \in wallet /\ PortOf(k) \in DOMAIN list
                      /\ LET holder == list[PortOf(k)]
                         IN \/ holder = got[k]
                            \/ <<holder, "username">> \in edited
                            \/ PortOf(holder[1]) = PortOf(k) /\ Place(holder[1]) < Place(k)
    BY DEF CompletedRunEquips, Name
  <2>1. left = << >> /\ Stage(k)
    BY DEF EquipInv
  <2>2. ~Accounted(left, k) /\ \A do : ~Asks(left, do, k)
    BY <2>1 DEF Accounted, Asks
  <2>3. Met(k) /\ got[k] \in wallet /\ PortOf(k) \in DOMAIN list
    BY <2>1, <2>2 DEF Stage
  <2> DEFINE holder == list[PortOf(k)]
  <2>4. /\ holder \in DOMAIN profile
        /\ Kept(holder) => PortOf(holder[1]) = PortOf(k) /\ Place(holder[1]) <= Place(k)
    BY <2>3 DEF EquipInv, HeldFirst
  <2> HIDE DEF holder
  <2>5. holder[1] \in Name
    BY <2>4, RowIs
  <2>6. CASE Kept(holder) /\ Place(holder[1]) = Place(k)
    <3>1. holder[1] = k
      BY <2>5, <2>6, PlaceIs
    <3> QED BY <2>3, <2>4, <2>6, <3>1 DEF Met, holder
  <2>7. CASE Kept(holder) /\ Place(holder[1]) # Place(k)
    <3>1. Place(holder[1]) < Place(k)
      BY <2>4, <2>5, <2>7, PlaceIs
    <3> QED BY <2>3, <2>4, <2>7, <3>1 DEF holder
  <2> QED BY <2>3, <2>6, <2>7 DEF Kept, holder
<1> QED BY <1>1, <1>2, <1>3, Invariance, PTL DEF Spec

-----------------------------------------------------------------------------
(* Induction over the naturals, stated of a set: a number that is missing  *)
(* from it would have a least one.                                         *)
Earlier == {ss \in Nat \X Nat : ss[1] < ss[2]}

LEMMA Induction ==
  ASSUME NEW S \in SUBSET Nat, 0 \in S, \A n \in S : n + 1 \in S
  PROVE  S = Nat
<1>1. IsWellFoundedOn(Earlier, Nat)
  BY Zenon, NatLessThanWellFounded DEF OpToRel, Earlier
<1>2. SUFFICES ASSUME Nat \ S # {} PROVE FALSE
  OBVIOUS
<1>3. PICK m \in Nat \ S : \A n \in Nat \ S : <<n, m>> \notin Earlier
  BY <1>1, <1>2, WFMin, Zenon
<1>4. m # 0 /\ m - 1 \in Nat /\ <<m - 1, m>> \in Earlier
  BY DEF Earlier
<1>5. m - 1 \in S /\ m = (m - 1) + 1
  BY <1>3, <1>4
<1> QED BY <1>3, <1>5

(* The entry of the plan for a user: its parent comes before it. *)
LEMMA EntryIs ==
  ASSUME NEW k \in Key
  PROVE /\ Entry(k) \in Range(Plan) /\ Entry(k).role \in Range(RoleNames)
        /\ Entry(k).parent \in Name /\ Place(Entry(k).parent) < Place(k)
        /\ Entry(k).port \in Port /\ Place(k) \in 1 .. Len(Plan)
<1>1. /\ DOMAIN Plan = 1 .. Len(Plan) /\ Len(Plan) \in Nat
      /\ \A i \in DOMAIN Plan : \A j \in DOMAIN Plan : Plan[i].key = Plan[j].key => i = j
      /\ \A i \in DOMAIN Plan : Plan[i].parent \in {Root} \cup {Plan[j].key : j \in 1 .. i - 1}
  BY PlanningAssumption
<1>2. PICK i \in DOMAIN Plan : Plan[i].key = k
  BY DEF Key
<1>3. Plan[i] \in Range(Plan) /\ \A p \in Range(Plan) : p.key = k => p = Plan[i]
  BY <1>1, <1>2 DEF Range
<1>4. Entry(k) = Plan[i]
  BY <1>2, <1>3 DEF Entry
<1>5. \A j \in DOMAIN Plan : Plan[j].key \in Key /\ Place(Plan[j].key) = j
  <2> TAKE j \in DOMAIN Plan
  <2>1. Plan[j].key \in Key /\ Plan[j].key # Root
    BY PlaceIs DEF Key
  <2>2. Place(Plan[j].key) = CHOOSE l \in DOMAIN Plan : Plan[l].key = Plan[j].key
    BY <2>1 DEF Place
  <2> QED BY <1>1, <2>1, <2>2
<1>6. Plan[i].parent \in Name /\ Place(Plan[i].parent) < i
  <2>1. CASE Plan[i].parent = Root
    BY <1>1, <2>1, PlaceIs DEF Name
  <2>2. CASE Plan[i].parent \in {Plan[j].key : j \in 1 .. i - 1}
    <3>1. PICK j \in 1 .. i - 1 : Plan[i].parent = Plan[j].key
      BY <2>2
    <3>2. j \in DOMAIN Plan /\ j < i
      BY <1>1, <3>1
    <3> QED BY <1>5, <3>1, <3>2 DEF Name
  <2> QED BY <1>1, <2>1, <2>2
<1>7. Plan[i].role \in Range(RoleNames) /\ Plan[i].port \in Port
  BY RoleAssumption DEF Port
<1> QED BY <1>1, <1>2, <1>3, <1>4, <1>5, <1>6, <1>7

LEMMA PortType == \A k \in Name : PortOf(k) \in Port
  BY EntryIs DEF PortOf, Name, Port

(* The way down to a user: its parent's, and the user.  It is built one     *)
(* place of the plan after the other.                                      *)
Down(f, k) == IF Entry(k).parent = Root THEN <<k>> ELSE Append(f[Entry(k).parent], k)
Upto(n) == {k \in Key : Place(k) <= n}

LEMMA ParentUpto ==
  ASSUME NEW n \in Nat, NEW k \in Upto(n + 1), Entry(k).parent # Root
  PROVE  Entry(k).parent \in Upto(n) /\ Entry(k).parent \in Upto(n + 1)
<1>1. k \in Key /\ Place(k) <= n + 1
  BY DEF Upto
<1>2. /\ Entry(k).parent \in Key /\ Place(Entry(k).parent) < Place(k)
      /\ Place(k) \in Nat /\ Place(Entry(k).parent) \in Nat
  BY <1>1, EntryIs, PlaceIs DEF Name
<1> QED BY <1>1, <1>2 DEF Upto

LEMMA DownType ==
  ASSUME NEW n \in Nat, NEW f, \A k \in Upto(n) : f[k] \in Seq(Key)
  PROVE  \A k \in Upto(n + 1) : Down(f, k) \in Seq(Key)
<1> TAKE k \in Upto(n + 1)
<1>1. k \in Key
  BY DEF Upto
<1>2. CASE Entry(k).parent = Root
  BY <1>1, <1>2 DEF Down
<1>3. CASE Entry(k).parent # Root
  <2>1. f[Entry(k).parent] \in Seq(Key)
    BY <1>3, ParentUpto
  <2> QED BY <1>1, <1>3, <2>1 DEF Down
<1> QED BY <1>2, <1>3

LEMMA ChainExtends ==
  ASSUME NEW n \in Nat, NEW f \in [Upto(n) -> Seq(Key)], \A k \in Upto(n) : f[k] = Down(f, k)
  PROVE  \E g \in [Upto(n + 1) -> Seq(Key)] : \A k \in Upto(n + 1) : g[k] = Down(g, k)
<1> DEFINE g == [k \in Upto(n + 1) |-> Down(f, k)]
<1>1. \A k \in Upto(n) : k \in Upto(n + 1) /\ g[k] = f[k]
  <2> TAKE k \in Upto(n)
  <2>1. k \in Key /\ Place(k) \in Nat /\ Place(k) <= n
    BY PlaceIs DEF Upto, Name
  <2>2. k \in Upto(n + 1)
    BY <2>1 DEF Upto
  <2> QED BY <2>2
<1>2. ASSUME NEW k \in Upto(n + 1)
      PROVE  g[k] = Down(g, k)
  <2>1. g[k] = Down(f, k)
    OBVIOUS
  <2> HIDE DEF g
  <2>2. Entry(k).parent # Root => g[Entry(k).parent] = f[Entry(k).parent]
    BY <1>1, ParentUpto
  <2> QED BY <2>1, <2>2 DEF Down
<1>3. g \in [Upto(n + 1) -> Seq(Key)]
  BY DownType
<1> QED BY <1>2, <1>3

LEMMA ChainIs ==
  /\ Chain \in [Key -> Seq(Key)]
  /\ \A k \in Key : Chain[k] = IF Entry(k).parent = Root THEN <<k>>
                               ELSE Append(Chain[Entry(k).parent], k)
<1> DEFINE S == {n \in Nat : \E f \in [Upto(n) -> Seq(Key)] : \A k \in Upto(n) : f[k] = Down(f, k)}
<1>1. 0 \in S
  <2>1. Upto(0) = {}
    BY EntryIs DEF Upto
  <2>2. << >> \in [Upto(0) -> Seq(Key)]
    BY <2>1
  <2> QED BY <2>1, <2>2
<1>2. \A n \in S : n + 1 \in S
  BY ChainExtends
<1>3. S \in SUBSET Nat
  OBVIOUS
<1>4. Len(Plan) \in Nat /\ Upto(Len(Plan)) = Key
  BY EntryIs, PlanningAssumption DEF Upto
<1> HIDE DEF S
<1>5. Len(Plan) \in S
  BY <1>1, <1>2, <1>3, <1>4, Induction
<1>6. PICK f \in [Key -> Seq(Key)] : \A k \in Key : f[k] = Down(f, k)
  BY <1>4, <1>5 DEF S
<1> DEFINE body(h) == [k \in Key |-> IF Entry(k).parent = Root THEN <<k>>
                                     ELSE Append(h[Entry(k).parent], k)]
<1>7. f = body(f)
  BY <1>6, Zenon DEF Down
<1>8. Chain = CHOOSE h : h = body(h)
  BY DEF Chain
<1> HIDE DEF body
<1>9. Chain = body(Chain)
  BY <1>7, <1>8
<1>10. \A k \in Key : Chain[k] = Down(Chain, k)
  BY <1>9 DEF body, Down
<1> DEFINE T == {n \in Nat : \A k \in Upto(n) : Chain[k] \in Seq(Key)}
<1>11. 0 \in T
  BY EntryIs DEF Upto
<1>12. \A n \in T : n + 1 \in T
  <2> TAKE n \in T
  <2>1. \A k \in Upto(n + 1) : Down(Chain, k) \in Seq(Key) /\ k \in Key
    BY DownType DEF Upto
  <2> QED BY <1>10, <2>1
<1>13. T \in SUBSET Nat
  OBVIOUS
<1> HIDE DEF T
<1>14. Len(Plan) \in T
  BY <1>4, <1>11, <1>12, <1>13, Induction
<1>15. \A k \in Key : Chain[k] \in Seq(Key)
  BY <1>4, <1>14 DEF T
<1>16. Chain = [k \in Key |-> Chain[k]]
  BY <1>9 DEF body
<1> QED BY <1>10, <1>15, <1>16 DEF Down

-----------------------------------------------------------------------------
(* Where a row stands, and what the other tables name: rows there are.      *)
Placed == [parent : Id \cup {None}, root : Id \cup {None}, role : Range(RoleNames) \cup {None},
           path : Seq(Key \X (1 .. MaxRun))]

RowInv ==
  /\ DOMAIN place = DOMAIN profile /\ place \in [DOMAIN place -> Placed]
  /\ \A id \in DOMAIN profile :
       /\ {place[id].parent, place[id].root} \subseteq DOMAIN profile \cup {None}
       /\ DOMAIN asked[id] = Column
  /\ edited \cup stale \subseteq (DOMAIN profile) \X Column
  /\ \A w \in Worker : req[w] # Idle => req[w].since \subseteq (DOMAIN profile) \X Column
TableInv ==
  /\ edits \in 0 .. MaxEdit /\ {early, through} \subseteq BOOLEAN
  /\ \A k \in Name : got[k] \in DOMAIN profile \cup {None}
  /\ DOMAIN role \subseteq Range(RoleNames) /\ \A r \in DOMAIN role : role[r] \in DOMAIN profile
  /\ DOMAIN list \subseteq Port /\ wallet \subseteq DOMAIN profile
AllInv == AccountInv /\ EquipInv /\ RowInv /\ TableInv

LEMMA AllIsTyped == AllInv => TypeOK
<1> SUFFICES ASSUME AllInv PROVE TypeOK
  OBVIOUS
<1>1. /\ DOMAIN profile \subseteq Id /\ DOMAIN asked = DOMAIN profile /\ run \in 0 .. MaxRun
      /\ \A id \in DOMAIN profile : DOMAIN profile[id] = Column
  BY DEF AllInv, AccountInv, TypeInv, SeedInv, Columns
<1>2. ASSUME NEW w \in Worker, Active(w)
      PROVE  /\ req[w].of \in DOMAIN profile /\ req[w].dto \in Wish
             /\ DOMAIN req[w].read = Column /\ req[w].todo \subseteq DOMAIN LookedUp
             /\ req[w].since \subseteq (DOMAIN profile) \X Column
  BY <1>2 DEF Active, AllInv, AccountInv, Carries, RowInv, Columns
<1>3. ASSUME NEW id \in DOMAIN profile
      PROVE  /\ \A i \in DOMAIN place[id].path : place[id].path[i][1] \in Key
             /\ place[id].role \in Range(RoleNames) \cup {None}
  <2>1. place[id] \in Placed
    BY DEF AllInv, RowInv
  <2>2. place[id].path \in Seq(Key \X (1 .. MaxRun)) /\ place[id].role \in Range(RoleNames) \cup {None}
    BY <2>1 DEF Placed
  <2>3. \A i \in DOMAIN place[id].path : place[id].path[i] \in Key \X (1 .. MaxRun)
    BY <2>2
  <2> QED BY <2>2, <2>3
<1>4. Range(got) \subseteq DOMAIN profile \cup {None}
  BY DEF AllInv, EquipInv, TableInv, Range
<1>5. Range(role) \cup Range(list) \cup wallet \subseteq DOMAIN profile
  BY DEF AllInv, EquipInv, TableInv, HeldFirst, Range
<1> QED BY <1>1, <1>2, <1>3, <1>4, <1>5 DEF TypeOK, AllInv, RowInv, TableInv

(* Edits stay within the rows there are. *)
LEMMA EditingTypes ==
  ASSUME AllInv, Editing
  PROVE  RowInv' /\ TableInv'
<1> PICK w \in Worker : EditRead(w) \/ LookUp(w) \/ EditWrite(w) \/ EditFails(w)
  BY DEF Editing
<1>1. req \in [Worker -> Request] /\ Carries(req[w]) /\ UNCHANGED seed
  BY DEF AllInv, AccountInv, TypeInv, Editing
<1> DEFINE cells == (DOMAIN profile) \X Column
<1>2. CASE UNCHANGED <<tables, stale>> /\ edits' \in 0 .. MaxEdit
           /\ \E s : req' = [req EXCEPT ![w] = s] /\ (s = Idle \/ s.since \subseteq cells)
  <2>1. \A v \in Worker : req'[v] # Idle => req'[v].since \subseteq cells
    BY <1>1, <1>2 DEF AllInv, RowInv
  <2> QED BY <1>1, <1>2, <2>1 DEF AllInv, RowInv, TableInv, tables, seed
<1>3. CASE EditRead(w)
  <2>1. edits' \in 0 .. MaxEdit
    BY <1>3, EditAssumption DEF EditRead, AllInv, TableInv
  <2>2. \E s : req' = [req EXCEPT ![w] = s] /\ s.since = {}
    <3>1. PICK id \in DOMAIN profile, dto \in Wish :
            req' = [req EXCEPT ![w] =
                      [of |-> id, dto |-> dto, read |-> profile[id], since |-> {},
                       todo |-> {i \in DOMAIN LookedUp :
                                   /\ ~IsRoot(id)
                                   /\ LookedUp[i] \in DOMAIN dto
                                   /\ dto[LookedUp[i]] # profile[id][LookedUp[i]]}]]
      BY <1>3 DEF EditRead
    <3> DEFINE s == [of |-> id, dto |-> dto, read |-> profile[id], since |-> {},
                     todo |-> {i \in DOMAIN LookedUp :
                                 /\ ~IsRoot(id)
                                 /\ LookedUp[i] \in DOMAIN dto
                                 /\ dto[LookedUp[i]] # profile[id][LookedUp[i]]}]
    <3>2. req' = [req EXCEPT ![w] = s] /\ s.since = {}
      BY <3>1
    <3> HIDE DEF s
    <3> QED BY <3>2
  <2> QED BY <1>2, <1>3, <2>1, <2>2 DEF EditRead
<1>4. CASE Finish(w) /\ UNCHANGED <<tables, edits, stale>>
  BY <1>2, <1>4 DEF Finish, AllInv, TableInv
<1>5. CASE LookUp(w)
  <2>1. CASE Finish(w)
    BY <1>4, <1>5, <2>1 DEF LookUp
  <2>2. CASE \E i : req' = [req EXCEPT ![w].todo = @ \ {i}]
    <3>1. PICK i : req' = [req EXCEPT ![w] = [req[w] EXCEPT !.todo = @ \ {i}]]
      BY <2>2
    <3>2. req[w] \in Request /\ req[w].since \subseteq cells
      BY <1>1, <1>5 DEF LookUp, Active, AllInv, RowInv
    <3>3. [req[w] EXCEPT !.todo = @ \ {i}].since \subseteq cells
      BY <3>2 DEF Request
    <3> QED BY <1>2, <1>5, <3>1, <3>3 DEF LookUp, AllInv, TableInv
  <2> QED BY <1>5, <2>1, <2>2 DEF LookUp
<1>6. CASE EditWrite(w)
  <2> DEFINE id == req[w].of
             new == Written(req[w])
             changed == {<<id, c>> : c \in {d \in Column : new[d] # profile[id][d]}}
  <2>1. CASE Clash(id, new)
    BY <1>4, <1>6, <2>1 DEF EditWrite
  <2>2. CASE ~Clash(id, new)
    <3>1. /\ profile' = [profile EXCEPT ![id] = new] /\ place' = place
          /\ asked' = [asked EXCEPT ![id] =
                         [c \in Column |-> IF c \in DOMAIN req[w].dto THEN req[w].dto[c] ELSE @[c]]]
          /\ edited' = edited \cup changed
          /\ stale' = (stale \ ({id} \X Column))
                        \cup (({id} \X (Column \ DOMAIN req[w].dto)) \cap (req[w].since \cup stale))
          /\ req' = Overtaken([req EXCEPT ![w] = Idle], changed)
          /\ edits' = edits
      BY <1>6, <2>2 DEF EditWrite
    <3>2. id \in DOMAIN profile /\ id \in Id /\ req[w].since \subseteq cells
      BY <1>1, <1>6 DEF EditWrite, Writing, Active, Carries, AllInv, RowInv, AccountInv, TypeInv
    <3>3. changed \subseteq cells /\ changed \in SUBSET Cell
      BY <3>2 DEF Cell
    <3> DEFINE others == [req EXCEPT ![w] = Idle]
    <3>4. /\ others \in [Worker -> Request]
          /\ \A v \in Worker : others[v] # Idle => others[v].since \subseteq cells
      BY <1>1, IdleType DEF AllInv, RowInv
    <3> HIDE DEF others, changed, new
    <3>5. \A v \in Worker : req'[v] # Idle => req'[v].since \subseteq cells
      <4> TAKE v \in Worker
      <4>1. CASE others[v] = Idle
        BY <3>1, <3>3, <3>4, <4>1, OvertakenIs DEF others
      <4>2. CASE others[v] # Idle
        <5>1. others[v] \in Request /\ req'[v] = [others[v] EXCEPT !.since = @ \cup changed]
          BY <3>1, <3>3, <3>4, <4>2, OvertakenIs DEF others
        <5>2. req'[v].since = others[v].since \cup changed
          BY <3>3, <5>1, FieldsStay
        <5> QED BY <3>3, <3>4, <4>2, <5>2
      <4> QED BY <4>1, <4>2
    <3>6. DOMAIN profile' = DOMAIN profile /\ DOMAIN asked' = DOMAIN asked
      BY <3>1
    <3>7. \A x \in DOMAIN profile : DOMAIN asked'[x] = Column
      BY <3>1, <3>2 DEF AllInv, RowInv, AccountInv, TypeInv
    <3>8. edited' \cup stale' \subseteq cells
      BY <3>1, <3>2, <3>3 DEF AllInv, RowInv
    <3> QED BY <1>1, <3>1, <3>5, <3>6, <3>7, <3>8 DEF AllInv, RowInv, TableInv, seed
  <2> QED BY <2>1, <2>2
<1> QED BY <1>3, <1>4, <1>5, <1>6 DEF EditFails

(* An account is planted below rows this run has met: the root and the      *)
(* parent come earlier in the script.                                      *)
LEMMA AboveIsMet ==
  ASSUME AllInv, left # << >>, Step, OfAccount(Head(left)), Head(left).of # Root
  PROVE  /\ Head(left).of \in Key /\ Met(Root) /\ Met(Entry(Head(left).of).parent)
         /\ Entry(Head(left).of).parent \in Name
<1> PICK k : k = Head(left).of
  OBVIOUS
<1>1. /\ k \in Key /\ Orderly(left) /\ left' = Tail(left)
      /\ \A m \in Name : Stage(m)
      /\ \A m : Accounted(left, m) <=> m = k \/ Accounted(Tail(left), m)
  BY StepIs DEF OfAccount, Name, AllInv
<1>2. \A m : Accounted(Tail(left), m) => m # Root /\ Place(k) < Place(m)
  BY <1>1, TailKeeps DEF Before, Accounted, AllInv
<1>3. ASSUME NEW m \in Name, Place(m) < Place(k)
      PROVE  Met(m)
  <2>1. Place(m) \in Nat /\ Place(k) \in Nat
    BY <1>1, PlaceIs DEF Name
  <2>2. m # k /\ ~Accounted(Tail(left), m)
    BY <1>2, <1>3, <2>1
  <2> QED BY <1>1, <2>2 DEF Stage
<1>4. Root \in Name /\ Place(Root) < Place(k)
  BY <1>1, PlaceIs, EntryIs DEF Name
<1> QED BY <1>1, <1>3, <1>4, EntryIs

LEMMA RootIsMet ==
  ASSUME AllInv, left # << >>, Step, Head(left).do \in {"role", "assign"}
  PROVE  Met(Root)
<1>1. /\ Orderly(left) /\ left' = Tail(left) /\ Stage(Root)
      /\ \A m : Accounted(left, m) <=> Accounted(Tail(left), m)
  BY StepIs DEF OfAccount, Name, AllInv
<1>2. ~Accounted(Tail(left), Root)
  BY <1>1, TailKeeps DEF Before, Accounted, AllInv
<1> QED BY <1>1, <1>2 DEF Stage

LEMMA PathType ==
  ASSUME NEW k \in Key, run \in 1 .. MaxRun
  PROVE  Path(k) \in Seq(Key \X (1 .. MaxRun))
<1>1. Chain[k] \in Seq(Key)
  BY ChainIs
<1> PICK way \in Seq(Key) : way = Chain[k]
  BY <1>1
<1>2. \A i \in 1 .. Len(way) : <<way[i], run>> \in Key \X (1 .. MaxRun)
  OBVIOUS
<1>3. [i \in 1 .. Len(way) |-> <<way[i], run>>] \in Seq(Key \X (1 .. MaxRun))
  BY <1>2
<1> QED BY <1>3 DEF Path

LEMMA PlantingTypes ==
  ASSUME AllInv, Planting
  PROVE  RowInv' /\ TableInv'
<1> PICK k : k = Head(left).of
  OBVIOUS
<1> DEFINE id == <<k, run>>
<1>1. /\ left # << >> /\ Step /\ OfAccount(Head(left)) /\ UNCHANGED <<wallet, list, role, stale, edits>>
      /\ edited' = edited
      /\ req' = Overtaken(req, ((DOMAIN profile') \ DOMAIN profile) \X Column)
      /\ \/ /\ Creates(k) /\ Create(id, Planned(k), NewPlace(k))
            /\ got' = [got EXCEPT ![k] = id]
         \/ /\ UNCHANGED tables
            /\ \E i \in Found(k) : got' = [got EXCEPT ![k] = i]
  BY DEF Planting, Account, Doing, Running, OfAccount, Create, tables
<1>2. /\ k \in Name /\ run \in 1 .. MaxRun /\ id \in Id
  <2>1. run \in 0 .. MaxRun /\ run # 0 /\ MaxRun \in Nat /\ k \in Name
    BY <1>1, StepIs, PlanningAssumption DEF OfAccount, AllInv, AccountInv, SeedInv
  <2> QED BY <2>1 DEF Id, Name
<1>3. NewPlace(k) \in Placed /\ {NewPlace(k).parent, NewPlace(k).root} \subseteq DOMAIN profile \cup {None}
  <2>1. CASE k = Root
    <3>1. NewPlace(k) = [parent |-> None, root |-> None, role |-> None, path |-> << >>]
      BY <2>1 DEF NewPlace
    <3> PICK none : none = << >>
      OBVIOUS
    <3>2. none \in Seq(Key \X (1 .. MaxRun))
      OBVIOUS
    <3>3. [parent |-> None, root |-> None, role |-> None, path |-> none] \in Placed
      BY <3>2 DEF Placed
    <3> QED BY <3>1, <3>3
  <2>2. CASE k # Root
    <3>1. /\ k \in Key /\ got[Root] \in DOMAIN profile /\ got[Entry(k).parent] \in DOMAIN profile
          /\ DOMAIN profile \subseteq Id
      BY <1>1, <2>2, AboveIsMet DEF Met, AllInv, AccountInv, TypeInv
    <3>2. Path(k) \in Seq(Key \X (1 .. MaxRun)) /\ Entry(k).role \in Range(RoleNames)
      BY <1>2, <3>1, PathType, EntryIs
    <3>3. NewPlace(k) = [parent |-> IF Entry(k).parent = Root THEN None ELSE got[Entry(k).parent],
                         root |-> got[Root], role |-> Entry(k).role, path |-> Path(k)]
      BY <2>2 DEF NewPlace, ParentRow
    <3> QED BY <3>1, <3>2, <3>3 DEF Placed
  <2> QED BY <2>1, <2>2
<1>4. /\ DOMAIN profile \subseteq DOMAIN profile' /\ DOMAIN place' = DOMAIN profile'
      /\ \A x \in DOMAIN profile' : \/ /\ x \in DOMAIN profile /\ place'[x] = place[x]
                                       /\ DOMAIN asked'[x] = Column
                                    \/ /\ x = id /\ place'[x] = NewPlace(k)
                                       /\ DOMAIN asked'[x] = Column
      /\ place' \in [DOMAIN place' -> Placed]
  <2>1. CASE UNCHANGED tables
    BY <2>1 DEF tables, AllInv, RowInv
  <2>2. CASE Create(id, Planned(k), NewPlace(k))
    <3>1. /\ DOMAIN profile' = DOMAIN profile \cup {id} /\ DOMAIN place' = DOMAIN profile \cup {id}
          /\ place' = [i \in DOMAIN profile \cup {id} |-> IF i = id THEN NewPlace(k) ELSE place[i]]
          /\ asked' = [i \in DOMAIN profile \cup {id} |-> IF i = id THEN Planned(k) ELSE asked[i]]
      BY <2>2 DEF Create, AllInv, RowInv, AccountInv, TypeInv
    <3>2. DOMAIN Planned(k) = Column
      BY DEF Planned
    <3> QED BY <1>3, <3>1, <3>2 DEF AllInv, RowInv
  <2> QED BY <1>1, <2>1, <2>2
<1>5. \A m \in Name : got'[m] \in DOMAIN profile' \cup {None}
  <2>1. \A i \in Found(k) : i \in DOMAIN profile
    BY DEF Found, Holders, Peers
  <2>2. Create(id, Planned(k), NewPlace(k)) => id \in DOMAIN profile'
    BY DEF Create
  <2>3. \A m \in Name : got'[m] = got[m] \/ got'[m] \in DOMAIN profile'
    BY <1>1, <1>4, <2>1, <2>2 DEF AllInv, EquipInv
  <2> QED BY <1>4, <2>3 DEF AllInv, TableInv
<1>6. \A w \in Worker : req'[w] # Idle => req'[w].since \subseteq (DOMAIN profile') \X Column
  <2> DEFINE cells == ((DOMAIN profile') \ DOMAIN profile) \X Column
  <2>1. cells \in SUBSET Cell /\ cells \subseteq (DOMAIN profile') \X Column
    BY <1>2, <1>4 DEF Cell
  <2> HIDE DEF cells
  <2> TAKE w \in Worker
  <2>2. req \in [Worker -> Request] /\ req' = Overtaken(req, cells)
    BY <1>1 DEF AllInv, AccountInv, TypeInv, cells
  <2>3. CASE req[w] = Idle
    BY <2>1, <2>2, <2>3, OvertakenIs
  <2>4. CASE req[w] # Idle
    <3>1. req[w] \in Request /\ req'[w] = [req[w] EXCEPT !.since = @ \cup cells]
      BY <2>1, <2>2, <2>4, OvertakenIs
    <3>2. req'[w].since = req[w].since \cup cells
      BY <2>1, <3>1, FieldsStay
    <3>3. req[w].since \subseteq (DOMAIN profile) \X Column
      BY <2>4 DEF AllInv, RowInv
    <3> QED BY <1>4, <2>1, <3>2, <3>3
  <2> QED BY <2>3, <2>4
<1>7. edited' \cup stale' \subseteq (DOMAIN profile') \X Column
  BY <1>1, <1>4 DEF AllInv, RowInv
<1>8. \A x \in DOMAIN profile' :
        /\ {place'[x].parent, place'[x].root} \subseteq DOMAIN profile' \cup {None}
        /\ DOMAIN asked'[x] = Column
  BY <1>3, <1>4 DEF AllInv, RowInv
<1>9. early' \in BOOLEAN /\ through' \in BOOLEAN
  BY <1>1 DEF Step, AllInv, TableInv
<1>10. RowInv'
  BY <1>4, <1>6, <1>7, <1>8 DEF RowInv
<1>11. /\ DOMAIN role' \subseteq Range(RoleNames) /\ \A r \in DOMAIN role' : role'[r] \in DOMAIN profile'
       /\ DOMAIN list' \subseteq Port /\ wallet' \subseteq DOMAIN profile' /\ edits' \in 0 .. MaxEdit
  BY <1>1, <1>4 DEF AllInv, TableInv
<1> QED BY <1>5, <1>9, <1>10, <1>11 DEF TableInv

(* What else a run writes names rows it has met. *)
LEMMA SeedTypes ==
  ASSUME AllInv, UNCHANGED edit, UNCHANGED tables,
         Start \/ Stop \/ PlantRole \/ PlantWallet \/ PlantList
  PROVE  RowInv' /\ TableInv'
<1>1. RowInv'
  BY DEF AllInv, RowInv, edit, tables
<1>2. profile' = profile /\ edits' = edits
  BY DEF edit, tables
<1>3. CASE Start
  <2>1. got' = [k \in Name |-> None]
    BY <1>3 DEF Start, Name
  <2> QED BY <1>1, <1>2, <1>3, <2>1 DEF Start, AllInv, TableInv
<1>4. CASE Stop
  BY <1>1, <1>2, <1>4 DEF Stop, AllInv, TableInv
<1>5. CASE PlantRole
  <2>1. left # << >> /\ Step /\ Head(left).do = "role"
    BY <1>5 DEF PlantRole, Doing, Running
  <2>2. got[Root] \in DOMAIN profile /\ Head(left).of \in Range(RoleNames)
    BY <2>1, RootIsMet, StepIs DEF Met, AllInv
  <2>3. through' \in BOOLEAN /\ early' = early
    BY <2>1 DEF Step
  <2>4. /\ DOMAIN role' \subseteq Range(RoleNames) /\ \A r \in DOMAIN role' : role'[r] \in DOMAIN profile
    BY <1>5, <2>2 DEF PlantRole, Upsert, AllInv, TableInv
  <2> QED BY <1>1, <1>2, <1>5, <2>3, <2>4 DEF PlantRole, AllInv, TableInv
<1>6. CASE PlantWallet
  <2>1. left # << >> /\ Step /\ Head(left).do = "wallet"
    BY <1>6 DEF PlantWallet, Doing, Running
  <2>2. got[Head(left).of] \in DOMAIN profile
    BY <2>1, StepIs, NoneLeft DEF Stage, Met, AllInv
  <2>3. through' \in BOOLEAN /\ early' = early
    BY <2>1 DEF Step
  <2> QED BY <1>1, <1>2, <1>6, <2>2, <2>3 DEF PlantWallet, AllInv, TableInv
<1>7. CASE PlantList
  <2>1. left # << >> /\ Step /\ Head(left).do = "list"
    BY <1>7 DEF PlantList, Doing, Running
  <2>2. PortOf(Head(left).of) \in Port
    BY <2>1, StepIs, PortType DEF AllInv
  <2>3. through' \in BOOLEAN /\ early' = early
    BY <2>1 DEF Step
  <2>4. DOMAIN list' \subseteq Port
    BY <1>7, <2>2 DEF PlantList, Upsert, AllInv, TableInv
  <2> QED BY <1>1, <1>2, <1>7, <2>3, <2>4 DEF PlantList, AllInv, TableInv
<1> QED BY <1>3, <1>4, <1>5, <1>6, <1>7

LEMMA AssignTypes ==
  ASSUME AllInv, UNCHANGED edit, AssignRole
  PROVE  RowInv' /\ TableInv'
<1> DEFINE id == got[Root]
<1>1. left # << >> /\ Step /\ Head(left).do = "assign"
  BY DEF AssignRole, Doing, Running
<1>2. /\ place' = [place EXCEPT ![id] = [place[id] EXCEPT !.role = "ROOT"]]
      /\ UNCHANGED <<profile, asked, edited, got, role, wallet, list>>
  BY DEF AssignRole
<1>3. id \in DOMAIN profile
  BY <1>1, RootIsMet DEF Met
<1>4. /\ DOMAIN place = DOMAIN profile /\ place \in [DOMAIN profile -> Placed]
      /\ "ROOT" \in Range(RoleNames)
  BY RoleAssumption DEF AllInv, RowInv
<1> HIDE DEF id
<1>5. /\ [place[id] EXCEPT !.role = "ROOT"] \in Placed
      /\ [place[id] EXCEPT !.role = "ROOT"].parent = place[id].parent
      /\ [place[id] EXCEPT !.role = "ROOT"].root = place[id].root
  BY <1>3, <1>4 DEF Placed
<1>6. /\ DOMAIN place' = DOMAIN profile /\ place' \in [DOMAIN profile -> Placed]
      /\ \A x \in DOMAIN profile : place'[x].parent = place[x].parent /\ place'[x].root = place[x].root
  BY <1>2, <1>4, <1>5
<1>7. RowInv'
  BY <1>2, <1>6 DEF AllInv, RowInv, edit
<1>8. through' \in BOOLEAN /\ early' = early
  BY <1>1 DEF Step
<1> QED BY <1>2, <1>7, <1>8 DEF AllInv, TableInv, edit

-----------------------------------------------------------------------------
(* The paths of a system whose runs all came to their end, and whose users  *)
(* kept their usernames: the first run plants every account, with the ids   *)
(* it drew, and later runs find them all.                                   *)
Way(k) == [i \in DOMAIN Chain[k] |-> <<Chain[k][i], 1>>]
Above(k) == IF Entry(k).parent = Root THEN None ELSE <<Entry(k).parent, 1>>
Planted(k) == <<k, 1>> \in DOMAIN profile

PathInv ==
  ~early /\ ~Renamed =>
    /\ \A id \in DOMAIN profile : id[2] = 1
    /\ run # 0 => \A k \in Name : Accounted(left, k) \/ Planted(k)
    /\ run > 1 => \A k \in Name : Planted(k)
    /\ \A k \in Key : Planted(k) =>
         /\ place[<<k, 1>>].path = Way(k) /\ place[<<k, 1>>].parent = Above(k)
         /\ Planted(Entry(k).parent)

LEMMA WayIs ==
  ASSUME NEW k \in Key
  PROVE  Way(k) = IF Entry(k).parent = Root THEN <<<<k, 1>>>>
                  ELSE Append(Way(Entry(k).parent), <<k, 1>>)
<1>1. CASE Entry(k).parent = Root
  <2>1. Chain[k] = <<k>>
    BY <1>1, ChainIs
  <2>2. DOMAIN <<k>> = {1} /\ <<k>>[1] = k
    OBVIOUS
  <2>3. Way(k) = [i \in {1} |-> <<<<k>>[i], 1>>]
    BY <2>1, <2>2 DEF Way
  <2> QED BY <1>1, <2>3
<1>2. CASE Entry(k).parent # Root
  <2>1. Entry(k).parent \in Key
    BY <1>2, EntryIs DEF Name
  <2> PICK s \in Seq(Key) : s = Chain[Entry(k).parent]
    BY <2>1, ChainIs
  <2>2. Chain[k] = Append(s, k)
    BY <1>2, ChainIs
  <2>3. Way(k) = [i \in 1 .. Len(s) + 1 |-> <<Append(s, k)[i], 1>>]
    BY <2>2 DEF Way
  <2>4. Way(Entry(k).parent) = [i \in 1 .. Len(s) |-> <<s[i], 1>>]
    BY DEF Way
  <2>5. [i \in 1 .. Len(s) + 1 |-> <<Append(s, k)[i], 1>>]
          = Append([i \in 1 .. Len(s) |-> <<s[i], 1>>], <<k, 1>>)
    <3> DEFINE f == [i \in 1 .. Len(s) + 1 |-> <<Append(s, k)[i], 1>>]
               g == [i \in 1 .. Len(s) |-> <<s[i], 1>>]
    <3>1. g \in Seq(Key \X {1}) /\ Len(g) = Len(s) /\ <<k, 1>> \in Key \X {1}
      <4>1. Len(s) \in Nat /\ \A i \in 1 .. Len(s) : <<s[i], 1>> \in Key \X {1}
        OBVIOUS
      <4>2. g \in [1 .. Len(s) -> Key \X {1}] /\ DOMAIN g = 1 .. Len(s)
        BY <4>1
      <4> HIDE DEF g
      <4>3. g \in Seq(Key \X {1})
        BY <4>1, <4>2
      <4> QED BY <4>1, <4>2, <4>3
    <3>2. Append(g, <<k, 1>>) = [i \in 1 .. Len(s) + 1 |-> Append(g, <<k, 1>>)[i]]
      BY <3>1
    <3>3. \A i \in 1 .. Len(s) + 1 : Append(g, <<k, 1>>)[i] = f[i]
      <4> TAKE i \in 1 .. Len(s) + 1
      <4>1. CASE i = Len(s) + 1
        <5>1. Append(g, <<k, 1>>)[i] = <<k, 1>>
          BY <3>1, <4>1
        <5>2. Append(s, k)[i] = k
          BY <4>1
        <5> QED BY <5>1, <5>2
      <4>2. CASE i # Len(s) + 1
        <5>1. i \in 1 .. Len(s)
          BY <4>2
        <5>2. Append(g, <<k, 1>>)[i] = g[i]
          BY <3>1, <5>1
        <5>3. Append(s, k)[i] = s[i]
          BY <5>1
        <5> QED BY <5>1, <5>2, <5>3
      <4> QED BY <4>1, <4>2
    <3> QED BY <3>2, <3>3
  <2> QED BY <1>2, <2>3, <2>4, <2>5
<1> QED BY <1>1, <1>2

LEMMA PathHolds == ASSUME AllInv, PathInv PROVE PathBrokenOnlyByInterruption
<1> SUFFICES ASSUME ~early, ~Renamed, NEW id \in DOMAIN profile, ~IsRoot(id)
             PROVE  place[id].path = Append(Parents(id), id)
  BY DEF PathBrokenOnlyByInterruption, AllInv, RowInv
<1> PICK k : k = id[1]
  OBVIOUS
<1>1. k \in Key /\ id = <<k, 1>>
  BY RowIs DEF PathInv, AllInv, IsRoot, Name, Id
<1>2. /\ place[id].path = Way(k) /\ place[id].parent = Above(k) /\ Planted(Entry(k).parent)
  BY <1>1 DEF PathInv, Planted
<1>3. CASE Entry(k).parent = Root
  BY <1>1, <1>2, <1>3, WayIs DEF Parents, Above
<1>4. CASE Entry(k).parent # Root
  <2>1. Entry(k).parent \in Key /\ <<Entry(k).parent, 1>> \in Id
    BY <1>1, <1>2, <1>4, EntryIs DEF Name, Planted, AllInv, AccountInv, TypeInv
  <2>2. place[id].parent = <<Entry(k).parent, 1>> /\ <<Entry(k).parent, 1>> # None
    BY <1>2, <1>4, <2>1, PlanningAssumption DEF Above
  <2>3. Parents(id) = Way(Entry(k).parent)
    BY <1>2, <2>1, <2>2 DEF Parents, PathInv
  <2> QED BY <1>1, <1>2, <1>4, <2>3, WayIs
<1> QED BY <1>3, <1>4

(* The steps that plant no account. *)
LEMMA PathStays ==
  ASSUME PathInv, DOMAIN profile' = DOMAIN profile, edited \subseteq edited', early => early',
         run' = run \/ (run' = run + 1 /\ left = << >>), run \in Nat,
         \A k \in Key : Planted(k) => /\ place'[<<k, 1>>].path = place[<<k, 1>>].path
                                      /\ place'[<<k, 1>>].parent = place[<<k, 1>>].parent,
         run' = run /\ ~early' => \A k \in Name : Accounted(left, k) => Accounted(left', k),
         run' # run => \A k \in Name : Accounted(left', k)
  PROVE  PathInv'
<1> SUFFICES ASSUME ~early', ~Renamed' PROVE PathInv'
  BY DEF PathInv
<1>1. ~early /\ ~Renamed
  BY DEF Renamed
<1>2. \A k : Planted(k)' <=> Planted(k)
  BY DEF Planted
<1>3. \A id \in DOMAIN profile' : id[2] = 1
  BY <1>1 DEF PathInv
<1>4. \A k \in Key : Planted(k) =>
        /\ place'[<<k, 1>>].path = Way(k) /\ place'[<<k, 1>>].parent = Above(k)
        /\ Planted(Entry(k).parent)
  BY <1>1 DEF PathInv
<1>5. run' # 0 => \A k \in Name : Accounted(left', k) \/ Planted(k)
  BY <1>1 DEF PathInv
<1>6. run' > 1 => \A k \in Name : Planted(k)
  <2>1. run' > 1 => run > 1 \/ (run # 0 /\ left = << >>)
    OBVIOUS
  <2>2. left = << >> => \A k : ~Accounted(left, k)
    BY DEF Accounted
  <2> QED BY <1>1, <2>1, <2>2 DEF PathInv
<1> QED BY <1>2, <1>3, <1>4, <1>5, <1>6 DEF PathInv, Way, Above

(* An account is planted by the first run, under the row that run gave its  *)
(* parent: those of a later run find a row that kept its username.          *)
LEMMA PathGrows ==
  ASSUME AllInv, PathInv, Planting
  PROVE  PathInv'
<1> SUFFICES ASSUME ~early', ~Renamed' PROVE PathInv'
  BY DEF PathInv
<1> PICK k : k = Head(left).of
  OBVIOUS
<1> DEFINE id == <<k, run>>
<1>1. /\ left # << >> /\ Step /\ OfAccount(Head(left)) /\ run' = run /\ early' = early
      /\ edited' = edited
      /\ \/ Creates(k) /\ Create(id, Planned(k), NewPlace(k))
         \/ UNCHANGED tables /\ ~Creates(k)
  BY DEF Planting, Account, Doing, Running, OfAccount, Create, tables, Step
<1>2. /\ k \in Name /\ run \in Nat /\ run # 0
      /\ \A m : Accounted(left, m) <=> m = k \/ Accounted(left', m)
  BY <1>1, StepIs DEF OfAccount, AllInv, AccountInv, SeedInv
<1>3. ~early /\ ~Renamed
  <2>1. DOMAIN profile \subseteq DOMAIN profile'
    BY <1>1 DEF Create, tables
  <2> QED BY <1>1, <2>1 DEF Renamed
<1>4. \A x \in DOMAIN profile : Kept(x) /\ profile[x]["username"] = <<x[1], "username">> /\ x[2] = 1
  <2> TAKE x \in DOMAIN profile
  <2>1. Kept(x) /\ x[2] = 1
    BY <1>3 DEF Kept, Renamed, PathInv
  <2>2. profile[x]["username"] = Planned(x[1])["username"] /\ x[1] \in Name /\ "username" \in Column
    BY <2>1, RowIs DEF AllInv, AccountInv, FromPlan, Kept, Column
  <2> QED BY <2>1, <2>2, PlannedIs
<1>5. Creates(k) <=> ~Planted(k)
  <2>1. Planned(k)["username"] = <<k, "username">>
    BY <1>2, PlannedIs DEF Column
  <2>2. \A x \in DOMAIN profile : x \in Found(k) <=> x[1] = k
    BY <1>4, <2>1 DEF Found, Holders, Peers, IsRoot
  <2>3. \A x \in DOMAIN profile : x[1] = k <=> x = <<k, 1>>
    BY <1>4, RowIs DEF AllInv, Id
  <2>4. Found(k) \subseteq DOMAIN profile
    BY DEF Found, Holders, Peers
  <2> QED BY <2>2, <2>3, <2>4 DEF Creates, Planted
<1>6. CASE ~Creates(k)
  <2>1. UNCHANGED tables /\ Planted(k)
    BY <1>1, <1>5, <1>6
  <2> QED BY <1>1, <1>2, <1>3, <2>1 DEF PathInv, tables, Planted, Way, Above
<1>7. CASE Creates(k)
  <2>1. run = 1
    BY <1>2, <1>3, <1>5, <1>7 DEF PathInv
  <2>2. /\ DOMAIN profile' = DOMAIN profile \cup {<<k, 1>>}
        /\ place'[<<k, 1>>] = NewPlace(k)
        /\ \A x \in DOMAIN profile : x # <<k, 1>> => place'[x] = place[x]
    BY <1>1, <1>7, <2>1 DEF Create, AllInv, RowInv
  <2>3. \A m : Planted(m)' <=> m = k \/ Planted(m)
    BY <2>2 DEF Planted
  <2>4. ASSUME k \in Key
        PROVE  /\ NewPlace(k).path = Way(k) /\ NewPlace(k).parent = Above(k)
               /\ Planted(Entry(k).parent)
    <3>1. k # Root /\ Met(Entry(k).parent)
      BY <1>1, <2>4, PlaceIs, AboveIsMet
    <3>2. got[Entry(k).parent] = <<Entry(k).parent, 1>> /\ Planted(Entry(k).parent)
      BY <1>4, <3>1, RowIs DEF Met, AllInv, Id, Planted
    <3>3. NewPlace(k) = [parent |-> IF Entry(k).parent = Root THEN None ELSE got[Entry(k).parent],
                         root |-> got[Root], role |-> Entry(k).role, path |-> Path(k)]
      BY <3>1 DEF NewPlace, ParentRow
    <3> QED BY <2>1, <3>2, <3>3 DEF Above, Way, Path
  <2>5. ASSUME NEW m \in Key, Planted(m)'
        PROVE  /\ place'[<<m, 1>>].path = Way(m) /\ place'[<<m, 1>>].parent = Above(m)
               /\ Planted(Entry(m).parent)'
    <3>1. CASE m = k
      BY <2>2, <2>3, <2>4, <2>5, <3>1
    <3>2. CASE m # k
      BY <1>3, <2>2, <2>3, <2>5, <3>2 DEF PathInv, Planted
    <3> QED BY <3>1, <3>2
  <2>6. \A m \in Name : Accounted(left', m) \/ Planted(m)'
    BY <1>2, <1>3, <2>3 DEF PathInv
  <2>7. \A x \in DOMAIN profile' : x[2] = 1
    BY <1>4, <2>2
  <2> QED BY <1>1, <2>1, <2>5, <2>6, <2>7 DEF PathInv, Way, Above
<1> QED BY <1>6, <1>7

LEMMA AllStep == AllInv /\ PathInv /\ [Next]_vars => AllInv' /\ PathInv'
<1> SUFFICES ASSUME AllInv, PathInv, [Next]_vars PROVE AllInv' /\ PathInv'
  OBVIOUS
<1>1. AccountInv' /\ EquipInv' /\ run \in Nat
  BY StepKeeps, EquipStep DEF AllInv, AccountInv, SeedInv
<1>2. CASE Planting
  BY <1>1, <1>2, PlantingTypes, PathGrows DEF AllInv
<1>3. CASE Start /\ UNCHANGED tables /\ UNCHANGED edit
  <2>1. left = << >> /\ left' = Script /\ run' = run + 1 /\ early' = early
    BY <1>3 DEF Start, Running
  <2>2. PathInv'
    BY <1>1, <1>3, <2>1, ScriptIs, PathStays DEF tables
  <2> QED BY <1>1, <1>3, <2>2, SeedTypes DEF AllInv
<1>4. CASE Stop /\ UNCHANGED tables /\ UNCHANGED edit
  <2>1. Stop /\ run' = run /\ early'
    BY <1>4 DEF Stop
  <2>2. PathInv'
    BY <2>1 DEF PathInv
  <2> QED BY <1>1, <1>4, <2>1, <2>2, SeedTypes DEF AllInv
<1>5. CASE (PlantRole \/ PlantWallet \/ PlantList) /\ UNCHANGED tables /\ UNCHANGED edit
  <2>1. left # << >> /\ Step /\ ~OfAccount(Head(left)) /\ run' = run /\ early' = early
    BY <1>5 DEF PlantRole, PlantWallet, PlantList, Doing, Running, Step, OfAccount
  <2>2. \A k : Accounted(left, k) => Accounted(left', k)
    BY <2>1, StepIs DEF AllInv
  <2>3. PathInv'
    BY <1>1, <1>5, <2>1, <2>2, PathStays DEF tables
  <2> QED BY <1>1, <1>5, <2>3, SeedTypes DEF AllInv
<1>6. CASE AssignRole /\ UNCHANGED edit
  <2>1. /\ left # << >> /\ Step /\ ~OfAccount(Head(left)) /\ run' = run /\ early' = early
        /\ Head(left).do = "assign"
    BY <1>6 DEF AssignRole, Doing, Running, Step, OfAccount
  <2>2. \A k : Accounted(left, k) => Accounted(left', k)
    BY <2>1, StepIs DEF AllInv
  <2>3. \A k \in Key : Planted(k) => /\ place'[<<k, 1>>].path = place[<<k, 1>>].path
                                     /\ place'[<<k, 1>>].parent = place[<<k, 1>>].parent
    <3> PICK id : id = got[Root]
      OBVIOUS
    <3>1. place' = [place EXCEPT ![id] = [place[id] EXCEPT !.role = "ROOT"]]
      BY <1>6 DEF AssignRole
    <3>2. place \in [DOMAIN profile -> Placed] /\ id \in DOMAIN profile
      BY <2>1, RootIsMet DEF Met, AllInv, RowInv
    <3>3. \A x \in DOMAIN profile : place'[x].path = place[x].path /\ place'[x].parent = place[x].parent
      BY <3>1, <3>2 DEF Placed
    <3> QED BY <3>3 DEF Planted
  <2>4. PathInv'
    BY <1>1, <1>6, <2>1, <2>2, <2>3, PathStays DEF AssignRole
  <2> QED BY <1>1, <1>6, <2>4, AssignTypes DEF AllInv
<1>7. CASE Editing
  <2>1. /\ UNCHANGED seed /\ DOMAIN profile' = DOMAIN profile /\ edited \subseteq edited'
        /\ place' = place
    BY <1>7 DEF Editing, EditRead, LookUp, EditWrite, EditFails, tables
  <2>2. PathInv'
    BY <1>1, <2>1, PathStays DEF seed
  <2> QED BY <1>1, <1>7, <2>2, EditingTypes DEF AllInv
<1>8. CASE UNCHANGED vars
  <2>1. UNCHANGED <<profile, place, edited, run, left, early>>
    BY <1>8 DEF vars, tables, seed
  <2>2. PathInv'
    BY <1>1, <2>1, PathStays
  <2>3. RowInv'
    BY <1>8 DEF vars, tables, edit, AllInv, RowInv
  <2>4. TableInv'
    <3>1. UNCHANGED <<profile, edits, early, through, got, role, list, wallet>>
      BY <1>8 DEF vars, tables, edit, seed
    <3>2. TableInv
      BY DEF AllInv
    <3> QED BY <3>1, <3>2 DEF TableInv
  <2> QED BY <1>1, <2>2, <2>3, <2>4 DEF AllInv
<1> QED BY <1>2, <1>3, <1>4, <1>5, <1>6, <1>7, <1>8 DEF Next, Seeding, Quiet, AccountRefused

LEMMA AllInit == Init => AllInv /\ PathInv
<1> SUFFICES ASSUME Init PROVE AllInv /\ PathInv
  OBVIOUS
<1>1. /\ profile = << >> /\ place = << >> /\ asked = << >> /\ edited = {} /\ stale = {}
      /\ req = [w \in Worker |-> Idle] /\ edits = 0 /\ run = 0 /\ left = << >> /\ ~through /\ through = FALSE
      /\ got = [k \in Name |-> None] /\ role = << >> /\ wallet = {} /\ list = << >> /\ early = FALSE
  BY DEF Init, Name
<1>2. DOMAIN profile = {} /\ DOMAIN place = {} /\ DOMAIN list = {} /\ DOMAIN role = {}
  BY <1>1
<1>3. AccountInv /\ EquipInv
  BY <1>1, <1>2, InitHolds DEF EquipInv
<1>4. RowInv
  <2>1. << >> \in [{} -> Placed]
    OBVIOUS
  <2>2. place \in [DOMAIN place -> Placed]
    BY <1>1, <1>2, <2>1
  <2>3. \A w \in Worker : req[w] = Idle
    BY <1>1
  <2> QED BY <1>1, <1>2, <2>2, <2>3 DEF RowInv
<1>5. TableInv
  <2>1. edits \in 0 .. MaxEdit
    BY <1>1, EditAssumption
  <2>2. \A k \in Name : got[k] \in DOMAIN profile \cup {None}
    BY <1>1
  <2>3. {early, through} \subseteq BOOLEAN
    BY <1>1
  <2> QED BY <1>1, <1>2, <2>1, <2>2, <2>3 DEF TableInv
<1>6. PathInv
  BY <1>1, <1>2 DEF PathInv, Planted
<1> QED BY <1>3, <1>4, <1>5, <1>6 DEF AllInv

(* Every row has its columns and its place, and what the rows, the runs and *)
(* the other tables name are rows there are.                                *)
THEOREM TypeCorrect == Spec => []TypeOK
<1> QED BY AllInit, AllStep, AllIsTyped, PTL DEF Spec

(* Without a run that ended early and without a changed username, the path  *)
(* of every user is its parent's and its own id: the seed's later runs plant *)
(* nobody, and the first plants every user below the row it gave its parent. *)
THEOREM PathTheorem == Spec => []PathBrokenOnlyByInterruption
<1>1. AllInv /\ PathInv => PathBrokenOnlyByInterruption
  BY PathHolds
<1> QED BY <1>1, AllInit, AllStep, PTL DEF Spec
=============================================================================
