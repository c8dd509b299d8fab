-------------------------- MODULE PermissionProofs --------------------------
(***************************************************************************)
(* What PermissionCache guarantees for every set of actors, roles and rows, *)
(* every lifetime of an entry and every handler.                           *)
(***************************************************************************)
EXTENDS PermissionCache, TLAPS

(* Whatever a table holds now was in force no time ago. *)
InForceNow ==
  /\ \A a \in Actor, r \in Role : roleOf[a] = r => roleAge[a][r] = 0
  /\ \A r \in Role, g \in RoleGrants : g \in roleRows[r] => rowAge[r][g] = 0
  /\ \A a \in Actor, g \in OwnGrants : g \in ownRows[a] => ownAge[a][g] = 0

(* The i-th demanded permission of a request has evidence young enough. *)
Checked(r, i) ==
  \E g \in Grants : /\ Covers({g}, Required[i], r.service)
                    /\ InForceWithin(r.actor, g, r.age)

(* What a request has read was in force when it began, or later. *)
ReadsYoung(r) ==
  /\ r.role # None => roleAge[r.actor][r.role] <= r.took
  /\ r.roleSet # Unread =>
       \A g \in r.roleSet : r.role # None /\ rowAge[r.role][g] <= r.took
  /\ r.ownSet # Unread => \A g \in r.ownSet : ownAge[r.actor][g] <= r.took

Sound(r) ==
  /\ r.took <= r.age
  /\ r.at = "fill" /\ r.roleSet = Unread => r.role # None
  /\ r.at = "entered" => r.role \in Demanded

AllChecked(r) ==
  \A i \in 1 .. Len(Required) :
    i < r.next \/ r.at \in {"allowed", "entered"} => Checked(r, i)

Evidence(r) == Sound(r) /\ ReadsYoung(r) /\ AllChecked(r)

EvidenceInv == \A w \in Worker : req[w] # Idle => Evidence(req[w])

PermissionInv ==
  TypeOK /\ InForceNow /\ EvidenceInv /\ CachedRecentlyInForce

-----------------------------------------------------------------------------
(* Ages, and what becomes of them in a step. *)

LEMMA OlderType == \A n \in 0 .. Cap : Older(n) \in 0 .. Cap
  BY TimeAssumption DEF Older

LEMMA OlderMonotone ==
  \A m, n \in 0 .. Cap : m <= n => Older(m) <= Older(n)
  BY TimeAssumption DEF Older

LEMMA EntryAgeType ==
  ASSUME NEW e \in [perms : SUBSET Grants, left : 0 .. TTL, took : 0 .. Cap]
  PROVE EntryAge(e) \in 0 .. Cap
  BY TimeAssumption DEF EntryAge

AgesType ==
  /\ roleAge \in [Actor -> [Role -> 0 .. Cap]]
  /\ rowAge \in [Role -> [RoleGrants -> 0 .. Cap]]
  /\ ownAge \in [Actor -> [OwnGrants -> 0 .. Cap]]

(* No age grows, as in every step but Tick. *)
AgesDrop ==
  /\ \A a \in Actor, r \in Role : roleAge'[a][r] <= roleAge[a][r]
  /\ \A r \in Role, g \in RoleGrants : rowAge'[r][g] <= rowAge[r][g]
  /\ \A a \in Actor, g \in OwnGrants : ownAge'[a][g] <= ownAge[a][g]

(* Every age grows by a tick at most. *)
AgesGrow ==
  /\ \A a \in Actor, r \in Role : roleAge'[a][r] <= Older(roleAge[a][r])
  /\ \A r \in Role, g \in RoleGrants : rowAge'[r][g] <= Older(rowAge[r][g])
  /\ \A a \in Actor, g \in OwnGrants : ownAge'[a][g] <= Older(ownAge[a][g])

LEMMA GrowsWithin ==
  ASSUME NEW k \in 0 .. Cap, NEW m \in 0 .. Cap, NEW n \in 0 .. Cap,
         m <= Older(k), k <= n
  PROVE m <= Older(n)
  BY TimeAssumption DEF Older

(* A permission in force within n stays so while no age grows, and within  *)
(* one more after a tick.                                                  *)
LEMMA InForceKept ==
  ASSUME AgesType, AgesType', AgesDrop
  PROVE \A a \in Actor, g \in Grants, n \in 0 .. Cap :
          InForceWithin(a, g, n) => InForceWithin(a, g, n)'
<1> SUFFICES ASSUME NEW a \in Actor, NEW g \in Grants, NEW n \in 0 .. Cap,
                    InForceWithin(a, g, n)
             PROVE InForceWithin(a, g, n)'
  OBVIOUS
<1>1. CASE g \in OwnGrants /\ ownAge[a][g] <= n
  <2>1. /\ ownAge'[a][g] <= ownAge[a][g]
        /\ ownAge'[a][g] \in 0 .. Cap /\ ownAge[a][g] \in 0 .. Cap
    BY <1>1 DEF AgesDrop, AgesType
  <2> QED BY <1>1, <2>1 DEF InForceWithin
<1>2. CASE g \in RoleGrants /\ \E r \in Role : roleAge[a][r] <= n /\ rowAge[r][g] <= n
  <2>1. PICK r \in Role : roleAge[a][r] <= n /\ rowAge[r][g] <= n
    BY <1>2
  <2>2. /\ roleAge'[a][r] <= roleAge[a][r] /\ rowAge'[r][g] <= rowAge[r][g]
        /\ roleAge'[a][r] \in 0 .. Cap /\ roleAge[a][r] \in 0 .. Cap
        /\ rowAge'[r][g] \in 0 .. Cap /\ rowAge[r][g] \in 0 .. Cap
    BY <1>2 DEF AgesDrop, AgesType
  <2>3. roleAge'[a][r] <= n /\ rowAge'[r][g] <= n
    BY <2>1, <2>2
  <2> QED BY <1>2, <2>3 DEF InForceWithin
<1> QED BY <1>1, <1>2 DEF InForceWithin

LEMMA InForceGrows ==
  ASSUME AgesType, AgesType', AgesGrow
  PROVE \A a \in Actor, g \in Grants, n \in 0 .. Cap :
          InForceWithin(a, g, n) => InForceWithin(a, g, Older(n))'
<1> SUFFICES ASSUME NEW a \in Actor, NEW g \in Grants, NEW n \in 0 .. Cap,
                    InForceWithin(a, g, n)
             PROVE InForceWithin(a, g, Older(n))'
  OBVIOUS
<1>1. CASE g \in OwnGrants /\ ownAge[a][g] <= n
  <2>1. /\ ownAge'[a][g] <= Older(ownAge[a][g])
        /\ ownAge'[a][g] \in 0 .. Cap /\ ownAge[a][g] \in 0 .. Cap
    BY <1>1 DEF AgesGrow, AgesType
  <2>2. ownAge'[a][g] <= Older(n)
    BY <1>1, <2>1, GrowsWithin
  <2> QED BY <1>1, <2>2 DEF InForceWithin, Older
<1>2. CASE g \in RoleGrants /\ \E r \in Role : roleAge[a][r] <= n /\ rowAge[r][g] <= n
  <2>1. PICK r \in Role : roleAge[a][r] <= n /\ rowAge[r][g] <= n
    BY <1>2
  <2>2. /\ roleAge'[a][r] <= Older(roleAge[a][r]) /\ rowAge'[r][g] <= Older(rowAge[r][g])
        /\ roleAge'[a][r] \in 0 .. Cap /\ roleAge[a][r] \in 0 .. Cap
        /\ rowAge'[r][g] \in 0 .. Cap /\ rowAge[r][g] \in 0 .. Cap
    BY <1>2 DEF AgesGrow, AgesType
  <2>3. roleAge'[a][r] <= Older(n)
    BY <2>1, <2>2, GrowsWithin
  <2>4. rowAge'[r][g] <= Older(n)
    BY <2>1, <2>2, GrowsWithin
  <2> QED BY <1>2, <2>3, <2>4 DEF InForceWithin, Older
<1> QED BY <1>1, <1>2 DEF InForceWithin

LEMMA InForceLonger ==
  ASSUME AgesType
  PROVE \A a \in Actor, g \in Grants, m, n \in 0 .. Cap :
          m <= n /\ InForceWithin(a, g, m) => InForceWithin(a, g, n)
<1> SUFFICES ASSUME NEW a \in Actor, NEW g \in Grants, NEW m \in 0 .. Cap,
                    NEW n \in 0 .. Cap, m <= n, InForceWithin(a, g, m)
             PROVE InForceWithin(a, g, n)
  OBVIOUS
<1>1. g \in OwnGrants => ownAge[a][g] \in 0 .. Cap
  BY DEF AgesType
<1>2. g \in RoleGrants => \A r \in Role : roleAge[a][r] \in 0 .. Cap /\ rowAge[r][g] \in 0 .. Cap
  BY DEF AgesType
<1> QED BY <1>1, <1>2 DEF InForceWithin

-----------------------------------------------------------------------------
(* The evidence of one request. *)

LEMMA GuardFields ==
  ASSUME NEW r \in Guard
  PROVE /\ r.actor \in Actor /\ r.role \in Role \cup {None}
        /\ r.service \in Service \cup {None}
        /\ r.next \in 1 .. Len(Required)
        /\ r.took \in 0 .. Cap /\ r.age \in 0 .. Cap
        /\ r.roleSet # Unread => r.roleSet \subseteq RoleGrants
        /\ r.ownSet # Unread => r.ownSet \subseteq OwnGrants
        /\ r.at # "idle" /\ r # Idle
  BY DEF Guard, Idle

LEMMA EvidenceKept ==
  ASSUME AgesType, AgesType', AgesDrop, NEW r \in Guard, Evidence(r)
  PROVE Evidence(r)'
<1>1. Sound(r)'
  BY DEF Evidence, Sound, Unread
<1>2. ReadsYoung(r)'
  <2>1. ASSUME r.role # None
        PROVE roleAge'[r.actor][r.role] <= r.took
    <3>1. /\ roleAge[r.actor][r.role] <= r.took
          /\ roleAge'[r.actor][r.role] <= roleAge[r.actor][r.role]
          /\ roleAge[r.actor][r.role] \in 0 .. Cap /\ roleAge'[r.actor][r.role] \in 0 .. Cap
      BY <2>1, GuardFields DEF Evidence, ReadsYoung, AgesDrop, AgesType
    <3> QED BY <3>1, GuardFields
  <2>2. ASSUME r.roleSet # Unread, NEW g \in r.roleSet
        PROVE r.role # None /\ rowAge'[r.role][g] <= r.took
    <3>1. r.role # None /\ rowAge[r.role][g] <= r.took
      BY <2>2 DEF Evidence, ReadsYoung
    <3>2. /\ rowAge'[r.role][g] <= rowAge[r.role][g]
          /\ rowAge[r.role][g] \in 0 .. Cap /\ rowAge'[r.role][g] \in 0 .. Cap
      BY <2>2, <3>1, GuardFields DEF AgesDrop, AgesType
    <3> QED BY <3>1, <3>2, GuardFields
  <2>3. ASSUME r.ownSet # Unread, NEW g \in r.ownSet
        PROVE ownAge'[r.actor][g] <= r.took
    <3>1. /\ ownAge[r.actor][g] <= r.took
          /\ ownAge'[r.actor][g] <= ownAge[r.actor][g]
          /\ ownAge[r.actor][g] \in 0 .. Cap /\ ownAge'[r.actor][g] \in 0 .. Cap
      BY <2>3, GuardFields DEF Evidence, ReadsYoung, AgesDrop, AgesType
    <3> QED BY <3>1, GuardFields
  <2> QED BY <2>1, <2>2, <2>3 DEF ReadsYoung, Unread
<1>3. AllChecked(r)'
  <2> SUFFICES ASSUME NEW i \in 1 .. Len(Required), Checked(r, i)
               PROVE Checked(r, i)'
    BY DEF Evidence, AllChecked
  <2>1. PICK g \in Grants : Covers({g}, Required[i], r.service) /\ InForceWithin(r.actor, g, r.age)
    BY DEF Checked
  <2>2. InForceWithin(r.actor, g, r.age)'
    BY <2>1, InForceKept, GuardFields
  <2> QED BY <2>1, <2>2 DEF Checked, Covers, Grants
<1> QED BY <1>1, <1>2, <1>3 DEF Evidence

LEMMA EvidenceGrows ==
  ASSUME AgesType, AgesType', AgesGrow, NEW r \in Guard, Evidence(r),
         NEW s, s = [r EXCEPT !.took = Older(@), !.age = Older(@)]
  PROVE s \in Guard /\ Evidence(s)'
<1>0. /\ s \in Guard /\ s.took = Older(r.took) /\ s.age = Older(r.age)
      /\ s.at = r.at /\ s.actor = r.actor /\ s.role = r.role /\ s.service = r.service
      /\ s.next = r.next /\ s.roleSet = r.roleSet /\ s.ownSet = r.ownSet
  BY OlderType, GuardFields DEF Guard
<1>1. Sound(s)'
  <2>1. s.took <= s.age
    BY <1>0, OlderMonotone, GuardFields DEF Evidence, Sound
  <2> QED BY <1>0, <2>1 DEF Evidence, Sound, Unread
<1>2. ReadsYoung(s)'
  <2>1. ASSUME r.role # None
        PROVE roleAge'[r.actor][r.role] <= Older(r.took)
    <3>1. /\ roleAge[r.actor][r.role] <= r.took
          /\ roleAge'[r.actor][r.role] <= Older(roleAge[r.actor][r.role])
          /\ roleAge[r.actor][r.role] \in 0 .. Cap /\ roleAge'[r.actor][r.role] \in 0 .. Cap
      BY <2>1, GuardFields DEF Evidence, ReadsYoung, AgesGrow, AgesType
    <3> QED BY <3>1, GuardFields, GrowsWithin
  <2>2. ASSUME r.roleSet # Unread, NEW g \in r.roleSet
        PROVE r.role # None /\ rowAge'[r.role][g] <= Older(r.took)
    <3>1. r.role # None /\ rowAge[r.role][g] <= r.took
      BY <2>2 DEF Evidence, ReadsYoung
    <3>2. /\ rowAge'[r.role][g] <= Older(rowAge[r.role][g])
          /\ rowAge[r.role][g] \in 0 .. Cap /\ rowAge'[r.role][g] \in 0 .. Cap
      BY <2>2, <3>1, GuardFields DEF AgesGrow, AgesType
    <3> QED BY <3>1, <3>2, GuardFields, GrowsWithin
  <2>3. ASSUME r.ownSet # Unread, NEW g \in r.ownSet
        PROVE ownAge'[r.actor][g] <= Older(r.took)
    <3>1. /\ ownAge[r.actor][g] <= r.took
          /\ ownAge'[r.actor][g] <= Older(ownAge[r.actor][g])
          /\ ownAge[r.actor][g] \in 0 .. Cap /\ ownAge'[r.actor][g] \in 0 .. Cap
      BY <2>3, GuardFields DEF Evidence, ReadsYoung, AgesGrow, AgesType
    <3> QED BY <3>1, GuardFields, GrowsWithin
  <2> QED BY <1>0, <2>1, <2>2, <2>3 DEF ReadsYoung, Unread
<1>3. AllChecked(s)'
  <2> SUFFICES ASSUME NEW i \in 1 .. Len(Required), Checked(r, i)
               PROVE Checked(s, i)'
    BY <1>0 DEF Evidence, AllChecked
  <2>1. PICK g \in Grants : Covers({g}, Required[i], r.service) /\ InForceWithin(r.actor, g, r.age)
    BY DEF Checked
  <2>2. InForceWithin(r.actor, g, Older(r.age))'
    BY <2>1, InForceGrows, GuardFields
  <2>3. InForceWithin(s.actor, g, s.age)'
    BY <1>0, <2>2 DEF InForceWithin, Older
  <2>4. Covers({g}, Required[i], s.service)
    BY <1>0, <2>1
  <2> QED BY <2>3, <2>4 DEF Checked, Covers, Grants
<1> QED BY <1>0, <1>1, <1>2, <1>3 DEF Evidence

(* The request after a check that the set perms passed. *)
Aged(r, n) == [r EXCEPT !.age = IF @ > n THEN @ ELSE n, !.roleSet = Unread, !.ownSet = Unread]

Passed(r, n, s) ==
  \/ LastRequired(r.next) /\ s = [Aged(r, n) EXCEPT !.at = "allowed"]
  \/ ~LastRequired(r.next) /\ s = [Aged(r, n) EXCEPT !.at = "check", !.next = @ + 1]

LEMMA CheckPassed ==
  ASSUME AgesType, NEW r \in Guard, Evidence(r),
         NEW perms \in SUBSET Grants, NEW n \in 0 .. Cap,
         \A g \in perms : InForceWithin(r.actor, g, n),
         Covers(perms, Required[r.next], r.service),
         NEW s, Passed(r, n, s)
  PROVE s \in Guard /\ Evidence(s)
<1>0. Len(Required) \in Nat \ {0}
  BY RequiredAssumption
<1>1. /\ s.actor = r.actor /\ s.role = r.role /\ s.service = r.service
      /\ s.took = r.took /\ s.age = (IF r.age > n THEN r.age ELSE n)
      /\ s.roleSet = Unread /\ s.ownSet = Unread /\ s.at \in {"check", "allowed"}
      /\ s.at = "allowed" => r.next = Len(Required)
      /\ s.at = "check" => s.next = r.next + 1
  BY DEF Passed, Aged, Guard, LastRequired
<1>2. s \in Guard
  <2>1. Aged(r, n) \in Guard /\ Aged(r, n).next = r.next
    BY GuardFields DEF Aged, Guard
  <2> DEFINE x == Aged(r, n)
  <2>2. x \in Guard /\ x.next = r.next /\ r.next \in 1 .. Len(Required)
    BY <2>1, GuardFields
  <2> HIDE DEF x
  <2>3. CASE LastRequired(r.next) /\ s = [x EXCEPT !.at = "allowed"]
    BY <2>2, <2>3 DEF Guard
  <2>4. CASE ~LastRequired(r.next) /\ s = [x EXCEPT !.at = "check", !.next = @ + 1]
    <3>1. r.next + 1 \in 1 .. Len(Required)
      BY <1>0, <2>2, <2>4 DEF LastRequired
    <3> QED BY <2>2, <2>4, <3>1 DEF Guard
  <2> QED BY <2>3, <2>4 DEF x, Passed
<1>3. Sound(s)
  BY <1>1, GuardFields DEF Evidence, Sound
<1>4. ReadsYoung(s)
  BY <1>1 DEF Evidence, ReadsYoung
<1>5. ASSUME NEW i \in 1 .. Len(Required), i < s.next \/ s.at \in {"allowed", "entered"}
      PROVE Checked(s, i)
  <2>1. CASE i = r.next
    <3>1. PICK g \in perms : /\ g.permission = Required[i]
                             /\ r.service = None \/ g.service \in {None, r.service}
      BY <2>1 DEF Covers
    <3>2. InForceWithin(s.actor, g, s.age)
      BY <1>1, <3>1, InForceLonger, GuardFields
    <3>3. Covers({g}, Required[i], s.service)
      BY <1>1, <3>1 DEF Covers
    <3> QED BY <3>2, <3>3 DEF Checked
  <2>2. CASE i # r.next
    <3>1. i < r.next
      BY <1>0, <1>1, <1>5, <2>2, GuardFields
    <3>2. PICK g \in Grants : Covers({g}, Required[i], r.service) /\ InForceWithin(r.actor, g, r.age)
      BY <3>1 DEF Evidence, AllChecked, Checked
    <3>3. InForceWithin(s.actor, g, s.age)
      BY <1>1, <3>2, InForceLonger, GuardFields
    <3> QED BY <1>1, <3>2, <3>3 DEF Checked
  <2> QED BY <2>1, <2>2
<1> QED BY <1>2, <1>3, <1>4, <1>5 DEF Evidence, AllChecked

-----------------------------------------------------------------------------
(* The steps. *)

LEMMA NoAgeChange ==
  ASSUME AgesType, UNCHANGED ages
  PROVE AgesType' /\ AgesDrop
<1>1. /\ \A a \in Actor, r \in Role : roleAge[a][r] \in 0 .. Cap
      /\ \A r \in Role, g \in RoleGrants : rowAge[r][g] \in 0 .. Cap
      /\ \A a \in Actor, g \in OwnGrants : ownAge[a][g] \in 0 .. Cap
  BY DEF AgesType
<1>2. roleAge' = roleAge /\ rowAge' = rowAge /\ ownAge' = ownAge
  BY DEF ages
<1> QED BY <1>1, <1>2 DEF AgesDrop, AgesType

LEMMA TypeHasAges == TypeOK => AgesType
  BY DEF TypeOK, AgesType

LEMMA EvidenceOfNext ==
  ASSUME NEW v \in Worker, NEW r, r = req'[v], Evidence(r)'
  PROVE Evidence(req[v])'
<1>1. Sound(req[v])'
  BY DEF Evidence, Sound, Unread
<1>2. ReadsYoung(req[v])'
  BY DEF Evidence, ReadsYoung, Unread
<1>3. AllChecked(req[v])'
  BY DEF Evidence, AllChecked, Checked, Covers, InForceWithin, Grants
<1> QED BY <1>1, <1>2, <1>3 DEF Evidence

(* A step of one request that leaves the tables alone. *)
LEMMA RequestStep ==
  ASSUME TypeOK, EvidenceInv, UNCHANGED ages, NEW w \in Worker,
         NEW s, req' = [req EXCEPT ![w] = s], s = Idle \/ (s \in Guard /\ Evidence(s))
  PROVE req' \in [Worker -> {Idle} \cup Guard] /\ EvidenceInv'
<1>1. req' \in [Worker -> {Idle} \cup Guard]
  BY DEF TypeOK
<1>2. ASSUME NEW v \in Worker, req'[v] # Idle
      PROVE Evidence(req[v])'
  <2>1. PICK r : r = req'[v]
    OBVIOUS
  <2>2. r \in Guard /\ Evidence(r)
    <3>1. CASE v = w
      BY <1>2, <2>1, <3>1 DEF TypeOK
    <3>2. CASE v # w
      BY <1>2, <2>1, <3>2 DEF TypeOK, EvidenceInv
    <3> QED BY <3>1, <3>2
  <2>3. Evidence(r)'
    BY <2>2, EvidenceKept, NoAgeChange, TypeHasAges
  <2> QED BY <2>1, <2>3, EvidenceOfNext
<1>3. Idle' = Idle
  BY DEF Idle
<1> QED BY <1>1, <1>2, <1>3 DEF EvidenceInv

LEMMA InForceNowKept ==
  ASSUME InForceNow, UNCHANGED <<tables, ages>>
  PROVE InForceNow'
<1>1. /\ roleOf' = roleOf /\ roleRows' = roleRows /\ ownRows' = ownRows
      /\ roleAge' = roleAge /\ rowAge' = rowAge /\ ownAge' = ownAge
  BY DEF tables, ages
<1> QED BY <1>1 DEF InForceNow

LEMMA QuietStep ==
  ASSUME PermissionInv, UNCHANGED <<tables, cache, ages>>, NEW w \in Worker,
         NEW s, req' = [req EXCEPT ![w] = s], s = Idle \/ (s \in Guard /\ Evidence(s))
  PROVE PermissionInv'
<1>1. req' \in [Worker -> {Idle} \cup Guard] /\ EvidenceInv'
  BY RequestStep DEF PermissionInv
<1>2. TypeOK'
  BY <1>1 DEF PermissionInv, TypeOK, tables, ages
<1>3. InForceNow'
  BY InForceNowKept DEF PermissionInv
<1>4. CachedRecentlyInForce'
  <2>1. cache' = cache /\ roleAge' = roleAge /\ rowAge' = rowAge /\ ownAge' = ownAge
    BY DEF ages
  <2> QED BY <2>1 DEF PermissionInv, CachedRecentlyInForce, InForceWithin, EntryAge
<1> QED BY <1>1, <1>2, <1>3, <1>4 DEF PermissionInv

(* The request of a worker that is not idle. *)
LEMMA BusyRequest ==
  ASSUME PermissionInv, NEW w \in Worker, req[w].at # "idle"
  PROVE req[w] \in Guard /\ Evidence(req[w])
<1>1. req[w] # Idle
  BY DEF Idle
<1> QED BY <1>1 DEF PermissionInv, TypeOK, EvidenceInv

LEMMA BeginKeeps ==
  ASSUME PermissionInv, NEW w \in Worker, NEW a \in Actor, NEW x \in Service \cup {None},
         Begin(w, a, x)
  PROVE PermissionInv'
<1> DEFINE s == [at |-> "check", actor |-> a, role |-> roleOf[a], service |-> x, next |-> 1,
                 roleSet |-> Unread, ownSet |-> Unread, took |-> 0, age |-> 0]
<1>1. roleOf[a] \in Role \cup {None}
  BY DEF PermissionInv, TypeOK
<1>2. s \in Guard
  BY <1>1, TimeAssumption, RequiredAssumption DEF Guard
<1>3. Sound(s)
  BY DEF Sound
<1>4. ReadsYoung(s)
  BY <1>1 DEF ReadsYoung, PermissionInv, InForceNow
<1>5. AllChecked(s)
  BY DEF AllChecked
<1>6. Evidence(s)
  BY <1>3, <1>4, <1>5 DEF Evidence
<1>7. req' = [req EXCEPT ![w] = s] /\ UNCHANGED <<tables, cache, ages>>
  BY DEF Begin
<1> QED BY <1>2, <1>6, <1>7, QuietStep

LEMMA DecideKeeps ==
  ASSUME PermissionInv, NEW w \in Worker, req[w].at # "idle",
         NEW perms \in SUBSET Grants, NEW n \in 0 .. Cap,
         \A g \in perms : InForceWithin(req[w].actor, g, n),
         Decide(w, perms, n)
  PROVE \E s : /\ req' = [req EXCEPT ![w] = s]
               /\ s = Idle \/ (s \in Guard /\ Evidence(s))
<1>1. req[w] \in Guard /\ Evidence(req[w])
  BY BusyRequest
<1> DEFINE p == Covers(perms, Required[req[w].next], req[w].service)
           last == LastRequired(req[w].next)
           through == [Aged(req[w], n) EXCEPT !.at = "allowed"]
           further == [Aged(req[w], n) EXCEPT !.at = "check", !.next = @ + 1]
<1>2. req' = [req EXCEPT ![w] = IF ~p THEN Idle ELSE IF last THEN through ELSE further]
  BY DEF Decide, Aged
<1>3. AgesType
  BY TypeHasAges DEF PermissionInv
<1>4. CASE ~p
  BY <1>2, <1>4
<1>5. CASE p /\ last
  <2>0. through = [Aged(req[w], n) EXCEPT !.at = "allowed"]
    OBVIOUS
  <2> HIDE DEF through, further
  <2>1. Passed(req[w], n, through)
    BY <1>5, <2>0 DEF Passed
  <2>2. through \in Guard /\ Evidence(through)
    BY <1>1, <1>3, <1>5, <2>1, CheckPassed
  <2> QED BY <1>2, <1>5, <2>2
<1>6. CASE p /\ ~last
  <2>0. further = [Aged(req[w], n) EXCEPT !.at = "check", !.next = @ + 1]
    OBVIOUS
  <2> HIDE DEF through, further
  <2>1. Passed(req[w], n, further)
    BY <1>6, <2>0 DEF Passed
  <2>2. further \in Guard /\ Evidence(further)
    BY <1>1, <1>3, <1>6, <2>1, CheckPassed
  <2> QED BY <1>2, <1>6, <2>2
<1> QED BY <1>4, <1>5, <1>6

LEMMA HitKeeps ==
  ASSUME PermissionInv, NEW w \in Worker, Hit(w)
  PROVE PermissionInv'
<1> DEFINE a == req[w].actor
           e == cache[a]
<1>1. req[w].at # "idle" /\ UNCHANGED <<tables, cache, ages>>
  BY DEF Hit
<1>2. a \in Actor
  BY <1>1, BusyRequest, GuardFields
<1>3. e \in [perms : SUBSET Grants, left : 0 .. TTL, took : 0 .. Cap]
  BY <1>2 DEF PermissionInv, TypeOK
<1>4. EntryAge(e) \in 0 .. Cap
  BY <1>3, EntryAgeType
<1>5. \A g \in e.perms : InForceWithin(a, g, EntryAge(e))
  BY <1>2 DEF Hit, PermissionInv, CachedRecentlyInForce
<1>6. e.perms \in SUBSET Grants
  BY <1>3
<1>7. Decide(w, e.perms, EntryAge(e))
  BY DEF Hit
<1>8. PICK s : req' = [req EXCEPT ![w] = s] /\ (s = Idle \/ (s \in Guard /\ Evidence(s)))
  BY <1>1, <1>4, <1>5, <1>6, <1>7, DecideKeeps
<1> QED BY <1>1, <1>8, QuietStep

LEMMA MissKeeps ==
  ASSUME PermissionInv, NEW w \in Worker, Miss(w)
  PROVE PermissionInv'
<1> DEFINE r == req[w]
<1>1. r.at = "check" /\ UNCHANGED <<tables, cache, ages>>
  BY DEF Miss
<1>2. r \in Guard /\ Evidence(r)
  BY <1>1, BusyRequest
<1>3. CASE r.role = None
  <2> DEFINE s == [r EXCEPT !.at = "fill", !.roleSet = {}, !.ownSet = {}]
  <2>1. s \in Guard
    BY <1>2 DEF Guard
  <2>2. /\ s.at = "fill" /\ s.actor = r.actor /\ s.role = r.role /\ s.service = r.service
        /\ s.next = r.next /\ s.took = r.took /\ s.age = r.age
        /\ s.roleSet = {} /\ s.ownSet = {}
    BY <1>2 DEF Guard
  <2> HIDE DEF s
  <2>3. Sound(s)
    BY <1>2, <2>2, NoneAssumption DEF Evidence, Sound, Unread
  <2>4. ReadsYoung(s)
    BY <1>2, <2>2 DEF Evidence, ReadsYoung
  <2>5. AllChecked(s)
    BY <1>1, <1>2, <2>2 DEF Evidence, AllChecked, Checked
  <2>6. req' = [req EXCEPT ![w] = s]
    BY <1>3 DEF Miss, s
  <2> QED BY <1>1, <2>1, <2>3, <2>4, <2>5, <2>6, QuietStep DEF Evidence
<1>4. CASE r.role # None
  <2> DEFINE s == [r EXCEPT !.at = "fill"]
  <2>1. s \in Guard
    BY <1>2 DEF Guard
  <2>2. /\ s.at = "fill" /\ s.actor = r.actor /\ s.role = r.role /\ s.service = r.service
        /\ s.next = r.next /\ s.took = r.took /\ s.age = r.age
        /\ s.roleSet = r.roleSet /\ s.ownSet = r.ownSet
    BY <1>2 DEF Guard
  <2> HIDE DEF s
  <2>3. Sound(s)
    BY <1>2, <1>4, <2>2 DEF Evidence, Sound
  <2>4. ReadsYoung(s)
    BY <1>2, <2>2 DEF Evidence, ReadsYoung
  <2>5. AllChecked(s)
    BY <1>1, <1>2, <2>2 DEF Evidence, AllChecked, Checked
  <2>6. req' = [req EXCEPT ![w] = s]
    BY <1>4 DEF Miss, s
  <2> QED BY <1>1, <2>1, <2>3, <2>4, <2>5, <2>6, QuietStep DEF Evidence
<1> QED BY <1>3, <1>4

LEMMA ReadRoleKeeps ==
  ASSUME PermissionInv, NEW w \in Worker, ReadRole(w)
  PROVE PermissionInv'
<1> DEFINE r == req[w]
           s == [r EXCEPT !.roleSet = roleRows[r.role]]
<1>1. r.at = "fill" /\ r.roleSet = Unread /\ UNCHANGED <<tables, cache, ages>>
  BY DEF ReadRole
<1>2. r \in Guard /\ Evidence(r)
  BY <1>1, BusyRequest
<1>3. r.role \in Role
  BY <1>1, <1>2, GuardFields DEF Evidence, Sound
<1>4. roleRows[r.role] \subseteq RoleGrants
  BY <1>3 DEF PermissionInv, TypeOK
<1>5. s \in Guard
  BY <1>2, <1>4 DEF Guard
<1>6. /\ s.at = r.at /\ s.actor = r.actor /\ s.role = r.role /\ s.service = r.service
      /\ s.next = r.next /\ s.took = r.took /\ s.age = r.age
      /\ s.roleSet = roleRows[r.role] /\ s.ownSet = r.ownSet
  BY <1>2 DEF Guard
<1>7. req' = [req EXCEPT ![w] = s]
  BY DEF ReadRole
<1> HIDE DEF s
<1>8. r.role # None
  BY <1>3, NoneAssumption
<1>9. Sound(s)
  BY <1>2, <1>6, <1>8 DEF Evidence, Sound
<1>10. ReadsYoung(s)
  <2>1. \A g \in s.roleSet : rowAge[s.role][g] = 0
    BY <1>3, <1>4, <1>6 DEF PermissionInv, InForceNow
  <2>2. 0 <= s.took
    BY <1>5, GuardFields
  <2> QED BY <1>2, <1>6, <1>8, <2>1, <2>2 DEF Evidence, ReadsYoung
<1>11. AllChecked(s)
  BY <1>2, <1>6 DEF Evidence, AllChecked, Checked
<1> QED BY <1>1, <1>5, <1>7, <1>9, <1>10, <1>11, QuietStep DEF Evidence

LEMMA ReadOwnKeeps ==
  ASSUME PermissionInv, NEW w \in Worker, ReadOwn(w)
  PROVE PermissionInv'
<1> DEFINE r == req[w]
           s == [r EXCEPT !.ownSet = ownRows[r.actor]]
<1>1. r.at = "fill" /\ UNCHANGED <<tables, cache, ages>>
  BY DEF ReadOwn
<1>2. r \in Guard /\ Evidence(r) /\ r.actor \in Actor
  BY <1>1, BusyRequest, GuardFields
<1>3. ownRows[r.actor] \subseteq OwnGrants
  BY <1>2 DEF PermissionInv, TypeOK
<1>4. s \in Guard
  BY <1>2, <1>3 DEF Guard
<1>5. /\ s.at = r.at /\ s.actor = r.actor /\ s.role = r.role /\ s.service = r.service
      /\ s.next = r.next /\ s.took = r.took /\ s.age = r.age
      /\ s.roleSet = r.roleSet /\ s.ownSet = ownRows[r.actor]
  BY <1>2 DEF Guard
<1>6. req' = [req EXCEPT ![w] = s]
  BY DEF ReadOwn, ActiveOwn
<1> HIDE DEF s
<1>7. Sound(s)
  BY <1>2, <1>5 DEF Evidence, Sound
<1>8. ReadsYoung(s)
  <2>1. \A g \in s.ownSet : ownAge[s.actor][g] = 0
    BY <1>2, <1>3, <1>5 DEF PermissionInv, InForceNow
  <2>2. 0 <= s.took
    BY <1>4, GuardFields
  <2> QED BY <1>2, <1>5, <2>1, <2>2 DEF Evidence, ReadsYoung
<1>9. AllChecked(s)
  BY <1>2, <1>5 DEF Evidence, AllChecked, Checked
<1> QED BY <1>1, <1>4, <1>6, <1>7, <1>8, <1>9, QuietStep DEF Evidence

LEMMA CheckRoleKeeps ==
  ASSUME PermissionInv, NEW w \in Worker, CheckRole(w)
  PROVE PermissionInv'
<1> DEFINE r == req[w]
           s == [r EXCEPT !.at = "entered"]
<1>1. r.at = "allowed" /\ r.role \in Demanded /\ UNCHANGED <<tables, cache, ages>>
  BY DEF CheckRole
<1>2. r \in Guard /\ Evidence(r)
  BY <1>1, BusyRequest
<1>3. s \in Guard
  BY <1>2 DEF Guard
<1>4. /\ s.at = "entered" /\ s.actor = r.actor /\ s.role = r.role /\ s.service = r.service
      /\ s.next = r.next /\ s.took = r.took /\ s.age = r.age
      /\ s.roleSet = r.roleSet /\ s.ownSet = r.ownSet
  BY <1>2 DEF Guard
<1>5. req' = [req EXCEPT ![w] = s]
  BY DEF CheckRole
<1> HIDE DEF s
<1>6. Sound(s)
  BY <1>1, <1>2, <1>4 DEF Evidence, Sound
<1>7. ReadsYoung(s)
  BY <1>2, <1>4 DEF Evidence, ReadsYoung
<1>8. AllChecked(s)
  BY <1>1, <1>2, <1>4 DEF Evidence, AllChecked, Checked
<1> QED BY <1>1, <1>3, <1>5, <1>6, <1>7, <1>8, QuietStep DEF Evidence

LEMMA EndRequestKeeps ==
  ASSUME PermissionInv, NEW w \in Worker, EndRequest(w)
  PROVE PermissionInv'
<1>1. req' = [req EXCEPT ![w] = Idle] /\ UNCHANGED <<tables, cache, ages>>
  BY DEF EndRequest
<1> QED BY <1>1, QuietStep

LEMMA StoreKeeps ==
  ASSUME PermissionInv, NEW w \in Worker, Store(w)
  PROVE PermissionInv'
<1> DEFINE r == req[w]
           perms == Merge(r.roleSet, r.ownSet)
<1>1. /\ r.at = "fill" /\ r.roleSet # Unread /\ r.ownSet # Unread
      /\ cache' = [cache EXCEPT ![r.actor] = Entry(perms, r.took)]
      /\ Decide(w, perms, r.took)
      /\ UNCHANGED <<tables, ages>>
  BY DEF Store
<1>2. r \in Guard /\ Evidence(r)
  BY <1>1, BusyRequest
<1>3. /\ r.actor \in Actor /\ r.took \in 0 .. Cap /\ r.role \in Role \cup {None}
      /\ r.roleSet \subseteq RoleGrants /\ r.ownSet \subseteq OwnGrants
  BY <1>1, <1>2, GuardFields
<1>4. perms \in SUBSET Grants
  BY <1>3 DEF Merge, Grants
<1>5. \A g \in perms : InForceWithin(r.actor, g, r.took)
  <2>1. ASSUME NEW g \in r.roleSet
        PROVE InForceWithin(r.actor, g, r.took)
    <3>1. r.role \in Role /\ roleAge[r.actor][r.role] <= r.took /\ rowAge[r.role][g] <= r.took
      BY <1>1, <1>2, <1>3 DEF Evidence, ReadsYoung
    <3> QED BY <1>3, <3>1 DEF InForceWithin
  <2>2. ASSUME NEW g \in r.ownSet
        PROVE InForceWithin(r.actor, g, r.took)
    BY <1>1, <1>2, <1>3 DEF Evidence, ReadsYoung, InForceWithin
  <2> QED BY <2>1, <2>2 DEF Merge
<1>6. PICK s : req' = [req EXCEPT ![w] = s] /\ (s = Idle \/ (s \in Guard /\ Evidence(s)))
  BY <1>1, <1>3, <1>4, <1>5, DecideKeeps
<1>7. req' \in [Worker -> {Idle} \cup Guard] /\ EvidenceInv'
  BY <1>1, <1>6, RequestStep DEF PermissionInv
<1> HIDE DEF r, perms
<1>8. /\ Entry(perms, r.took) \in [perms : SUBSET Grants, left : 0 .. TTL, took : 0 .. Cap]
      /\ EntryAge(Entry(perms, r.took)) = r.took
      /\ Entry(perms, r.took).perms = perms
  BY <1>3, <1>4, TimeAssumption DEF Entry, EntryAge
<1>9. TypeOK'
  BY <1>1, <1>7, <1>8 DEF PermissionInv, TypeOK, tables, ages
<1>10. InForceNow'
  BY <1>1, InForceNowKept DEF PermissionInv
<1>11. CachedRecentlyInForce'
  <2>1. roleAge' = roleAge /\ rowAge' = rowAge /\ ownAge' = ownAge
    BY <1>1 DEF ages
  <2>2. cache \in [Actor -> [perms : SUBSET Grants, left : 0 .. TTL, took : 0 .. Cap]]
    BY DEF PermissionInv, TypeOK
  <2>3. ASSUME NEW a \in Actor, cache'[a].left > 0, NEW g \in cache'[a].perms
        PROVE InForceWithin(a, g, EntryAge(cache'[a]))
    <3>1. CASE a = r.actor
      BY <1>1, <1>3, <1>5, <1>8, <2>2, <2>3, <3>1
    <3>2. CASE a # r.actor
      BY <1>1, <2>2, <2>3, <3>2 DEF PermissionInv, CachedRecentlyInForce
    <3> QED BY <3>1, <3>2
  <2> QED BY <2>1, <2>3 DEF CachedRecentlyInForce, InForceWithin, EntryAge
<1> QED BY <1>7, <1>9, <1>10, <1>11 DEF PermissionInv

(* A change of the tables: the ages of the changed rows are set to 0. *)
LEMMA TablesChange ==
  ASSUME PermissionInv, TypeOK', InForceNow', AgesDrop, UNCHANGED <<cache, req>>
  PROVE PermissionInv'
<1>1. AgesType /\ AgesType'
  BY DEF PermissionInv, TypeOK, AgesType
<1>2. EvidenceInv'
  <2> SUFFICES ASSUME NEW v \in Worker, req'[v] # Idle
               PROVE Evidence(req[v])'
    BY DEF EvidenceInv, Idle
  <2>1. PICK r : r = req'[v]
    OBVIOUS
  <2>2. r \in Guard /\ Evidence(r)
    BY <2>1 DEF PermissionInv, TypeOK, EvidenceInv
  <2>3. Evidence(r)'
    BY <1>1, <2>2, EvidenceKept
  <2> QED BY <2>1, <2>3, EvidenceOfNext
<1>3. CachedRecentlyInForce'
  <2> SUFFICES ASSUME NEW a \in Actor, cache[a].left > 0, NEW g \in cache[a].perms
               PROVE InForceWithin(a, g, EntryAge(cache[a]))'
    BY DEF CachedRecentlyInForce
  <2>1. PICK n : n = EntryAge(cache[a])
    OBVIOUS
  <2>2. n \in 0 .. Cap /\ g \in Grants
    BY <2>1, EntryAgeType DEF PermissionInv, TypeOK
  <2>3. InForceWithin(a, g, n)'
    BY <1>1, <2>1, <2>2, InForceKept DEF PermissionInv, CachedRecentlyInForce
  <2>4. EntryAge(cache[a])' = n
    BY <2>1 DEF EntryAge
  <2> QED BY <2>3, <2>4 DEF InForceWithin
<1> QED BY <1>2, <1>3 DEF PermissionInv

LEMMA SetRoleKeeps ==
  ASSUME PermissionInv, NEW a \in Actor, NEW r \in Role \cup {None}, SetRole(a, r)
  PROVE PermissionInv'
<1>1. /\ roleOf' = [roleOf EXCEPT ![a] = r]
      /\ roleAge' = IF r = None THEN roleAge ELSE [roleAge EXCEPT ![a][r] = 0]
      /\ UNCHANGED <<roleRows, ownRows, cache, req, rowAge, ownAge>>
  BY DEF SetRole
<1>2. roleAge' \in [Actor -> [Role -> 0 .. Cap]]
  BY <1>1, TimeAssumption DEF PermissionInv, TypeOK
<1>3. TypeOK'
  BY <1>1, <1>2 DEF PermissionInv, TypeOK
<1>4. ASSUME NEW b \in Actor, NEW q \in Role
      PROVE /\ roleOf'[b] = q => roleAge'[b][q] = 0
            /\ roleAge'[b][q] <= roleAge[b][q]
  <2>1. roleAge'[b][q] = roleAge[b][q] \/ (roleAge'[b][q] = 0 /\ b = a /\ q = r)
    BY <1>1 DEF PermissionInv, TypeOK
  <2>2. roleAge[b][q] \in 0 .. Cap /\ roleAge'[b][q] \in 0 .. Cap
    BY <1>2 DEF PermissionInv, TypeOK
  <2>3. roleAge'[b][q] <= roleAge[b][q]
    BY <2>1, <2>2
  <2>4. CASE b = a /\ q = r
    BY <1>1, <2>3, <2>4, NoneAssumption DEF PermissionInv, TypeOK
  <2>5. CASE ~(b = a /\ q = r)
    BY <1>1, <2>1, <2>3, <2>5 DEF PermissionInv, TypeOK, InForceNow
  <2> QED BY <2>4, <2>5
<1>5. /\ \A q \in Role, g \in RoleGrants : rowAge[q][g] \in 0 .. Cap
      /\ \A b \in Actor, g \in OwnGrants : ownAge[b][g] \in 0 .. Cap
  BY DEF PermissionInv, TypeOK
<1>6. AgesDrop
  BY <1>1, <1>4, <1>5 DEF AgesDrop
<1>7. InForceNow'
  BY <1>1, <1>4 DEF PermissionInv, InForceNow
<1> QED BY <1>1, <1>3, <1>6, <1>7, TablesChange

(* Rows of a role, or own rows, that only lose members need no new age. *)
LEMMA RowsDrop ==
  ASSUME PermissionInv, UNCHANGED <<roleOf, cache, req, ages>>,
         roleRows' \in [Role -> SUBSET RoleGrants],
         ownRows' \in [Actor -> SUBSET OwnGrants],
         \A r \in Role : roleRows'[r] \subseteq roleRows[r],
         \A a \in Actor : ownRows'[a] \subseteq ownRows[a]
  PROVE PermissionInv'
<1>1. roleAge' = roleAge /\ rowAge' = rowAge /\ ownAge' = ownAge
  BY DEF ages
<1>2. TypeOK'
  BY <1>1 DEF PermissionInv, TypeOK
<1>3. AgesDrop
  BY NoAgeChange, TypeHasAges DEF PermissionInv
<1>4. InForceNow'
  BY <1>1 DEF PermissionInv, InForceNow
<1> QED BY <1>2, <1>3, <1>4, TablesChange

LEMMA RevokeRoleKeeps ==
  ASSUME PermissionInv, NEW r \in Role, NEW g \in RoleGrants, RevokeRole(r, g)
  PROVE PermissionInv'
<1>1. /\ roleRows' = [roleRows EXCEPT ![r] = @ \ {g}]
      /\ UNCHANGED <<roleOf, ownRows, cache, req, ages>>
  BY DEF RevokeRole
<1>2. /\ roleRows \in [Role -> SUBSET RoleGrants] /\ ownRows \in [Actor -> SUBSET OwnGrants]
  BY DEF PermissionInv, TypeOK
<1>3. /\ roleRows' \in [Role -> SUBSET RoleGrants]
      /\ \A q \in Role : roleRows'[q] \subseteq roleRows[q]
  BY <1>1, <1>2
<1> QED BY <1>1, <1>2, <1>3, RowsDrop

LEMMA RevokeOwnKeeps ==
  ASSUME PermissionInv, NEW a \in Actor, NEW g \in OwnGrants, RevokeOwn(a, g)
  PROVE PermissionInv'
<1>1. /\ ownRows' = [ownRows EXCEPT ![a] = @ \ {g}]
      /\ UNCHANGED <<roleOf, roleRows, cache, req, ages>>
  BY DEF RevokeOwn
<1>2. /\ roleRows \in [Role -> SUBSET RoleGrants] /\ ownRows \in [Actor -> SUBSET OwnGrants]
  BY DEF PermissionInv, TypeOK
<1>3. /\ ownRows' \in [Actor -> SUBSET OwnGrants]
      /\ \A b \in Actor : ownRows'[b] \subseteq ownRows[b]
  BY <1>1, <1>2
<1> QED BY <1>1, <1>2, <1>3, RowsDrop

LEMMA GrantRoleKeeps ==
  ASSUME PermissionInv, NEW r \in Role, NEW g \in RoleGrants, GrantRole(r, g)
  PROVE PermissionInv'
<1>1. /\ roleRows' = [roleRows EXCEPT ![r] = @ \cup {g}]
      /\ rowAge' = [rowAge EXCEPT ![r][g] = 0]
      /\ UNCHANGED <<roleOf, ownRows, cache, req, roleAge, ownAge>>
  BY DEF GrantRole
<1>2. rowAge' \in [Role -> [RoleGrants -> 0 .. Cap]]
  BY <1>1, TimeAssumption DEF PermissionInv, TypeOK
<1>3. TypeOK'
  BY <1>1, <1>2 DEF PermissionInv, TypeOK
<1>4. ASSUME NEW q \in Role, NEW h \in RoleGrants
      PROVE /\ h \in roleRows'[q] => rowAge'[q][h] = 0
            /\ rowAge'[q][h] <= rowAge[q][h]
  <2>1. rowAge[q][h] \in 0 .. Cap
    BY DEF PermissionInv, TypeOK
  <2>2. CASE q = r /\ h = g
    BY <1>1, <2>1, <2>2 DEF PermissionInv, TypeOK
  <2>3. CASE ~(q = r /\ h = g)
    BY <1>1, <2>1, <2>3 DEF PermissionInv, TypeOK, InForceNow
  <2> QED BY <2>2, <2>3
<1>5. /\ \A a \in Actor, q \in Role : roleAge[a][q] \in 0 .. Cap
      /\ \A a \in Actor, h \in OwnGrants : ownAge[a][h] \in 0 .. Cap
  BY DEF PermissionInv, TypeOK
<1>6. AgesDrop
  BY <1>1, <1>4, <1>5 DEF AgesDrop
<1>7. InForceNow'
  BY <1>1, <1>4 DEF PermissionInv, InForceNow
<1> QED BY <1>1, <1>3, <1>6, <1>7, TablesChange

LEMMA GrantOwnKeeps ==
  ASSUME PermissionInv, NEW a \in Actor, NEW g \in OwnGrants, GrantOwn(a, g)
  PROVE PermissionInv'
<1>1. /\ ownRows' = [ownRows EXCEPT ![a] = @ \cup {g}]
      /\ ownAge' = [ownAge EXCEPT ![a][g] = 0]
      /\ UNCHANGED <<roleOf, roleRows, cache, req, roleAge, rowAge>>
  BY DEF GrantOwn
<1>2. ownAge' \in [Actor -> [OwnGrants -> 0 .. Cap]]
  BY <1>1, TimeAssumption DEF PermissionInv, TypeOK
<1>3. TypeOK'
  BY <1>1, <1>2 DEF PermissionInv, TypeOK
<1>4. ASSUME NEW b \in Actor, NEW h \in OwnGrants
      PROVE /\ h \in ownRows'[b] => ownAge'[b][h] = 0
            /\ ownAge'[b][h] <= ownAge[b][h]
  <2>1. ownAge[b][h] \in 0 .. Cap
    BY DEF PermissionInv, TypeOK
  <2>2. CASE b = a /\ h = g
    BY <1>1, <2>1, <2>2 DEF PermissionInv, TypeOK
  <2>3. CASE ~(b = a /\ h = g)
    BY <1>1, <2>1, <2>3 DEF PermissionInv, TypeOK, InForceNow
  <2> QED BY <2>2, <2>3
<1>5. /\ \A b \in Actor, q \in Role : roleAge[b][q] \in 0 .. Cap
      /\ \A q \in Role, h \in RoleGrants : rowAge[q][h] \in 0 .. Cap
  BY DEF PermissionInv, TypeOK
<1>6. AgesDrop
  BY <1>1, <1>4, <1>5 DEF AgesDrop
<1>7. InForceNow'
  BY <1>1, <1>4 DEF PermissionInv, InForceNow
<1> QED BY <1>1, <1>3, <1>6, <1>7, TablesChange

(* A tick: every age grows by one at most, the evidence of a request and   *)
(* the age of an entry that is not dropped by one exactly.                 *)
LEMMA TickKeeps ==
  ASSUME PermissionInv, Tick
  PROVE PermissionInv'
<1>1. /\ cache' = [a \in Actor |-> Expires(cache[a])]
      /\ req' = [w \in Worker |-> IF req[w] = Idle THEN Idle
                                  ELSE [req[w] EXCEPT !.took = Older(@), !.age = Older(@)]]
      /\ roleAge' = [a \in Actor |-> [r \in Role |->
                       IF roleOf[a] = r THEN 0 ELSE Older(roleAge[a][r])]]
      /\ rowAge' = [r \in Role |-> [g \in RoleGrants |->
                       IF g \in roleRows[r] THEN 0 ELSE Older(rowAge[r][g])]]
      /\ ownAge' = [a \in Actor |-> [g \in OwnGrants |->
                       IF g \in ownRows[a] THEN 0 ELSE Older(ownAge[a][g])]]
      /\ roleOf' = roleOf /\ roleRows' = roleRows /\ ownRows' = ownRows
  BY DEF Tick, tables
<1>2. AgesType
  BY DEF PermissionInv, TypeOK, AgesType
<1>3. 0 \in 0 .. Cap /\ \A n \in 0 .. Cap : Older(n) \in 0 .. Cap /\ 0 <= Older(n)
  BY TimeAssumption DEF Older
<1>4. AgesType'
  BY <1>1, <1>2, <1>3 DEF AgesType
<1>5. AgesGrow
  <2>1. \A n \in 0 .. Cap : Older(n) <= Older(n)
    BY <1>3
  <2> QED BY <1>1, <1>2, <1>3, <2>1 DEF AgesGrow, AgesType
<1>6. InForceNow'
  BY <1>1 DEF InForceNow
<1>7. ASSUME NEW v \in Worker
      PROVE /\ req'[v] \in {Idle} \cup Guard
            /\ req'[v] # Idle => Evidence(req[v])'
  <2>1. CASE req[v] = Idle
    BY <1>1, <2>1
  <2>2. CASE req[v] # Idle
    <3>1. PICK r : r = req[v]
      OBVIOUS
    <3>2. r \in Guard /\ Evidence(r)
      BY <2>2, <3>1 DEF PermissionInv, TypeOK, EvidenceInv
    <3>3. PICK s : s = [r EXCEPT !.took = Older(@), !.age = Older(@)]
      OBVIOUS
    <3>4. s = req'[v]
      BY <1>1, <2>2, <3>1, <3>3
    <3>5. s \in Guard /\ Evidence(s)'
      BY <1>2, <1>4, <1>5, <3>2, <3>3, EvidenceGrows
    <3> QED BY <3>4, <3>5, EvidenceOfNext
  <2> QED BY <2>1, <2>2
<1>8. EvidenceInv'
  BY <1>7 DEF EvidenceInv, Idle
<1>9. ASSUME NEW a \in Actor
      PROVE /\ cache'[a] \in [perms : SUBSET Grants, left : 0 .. TTL, took : 0 .. Cap]
            /\ cache'[a].left > 0 =>
                 /\ cache[a].left > 0 /\ cache'[a].perms = cache[a].perms
                 /\ EntryAge(cache'[a]) = Older(EntryAge(cache[a]))
  <2>1. PICK e : e = cache[a]
    OBVIOUS
  <2>2. e \in [perms : SUBSET Grants, left : 0 .. TTL, took : 0 .. Cap]
    BY <2>1 DEF PermissionInv, TypeOK
  <2>3. cache'[a] = Expires(e)
    BY <1>1, <2>1
  <2>4. CASE e.left <= 1
    BY <2>3, <2>4, TimeAssumption DEF Expires, Empty
  <2>5. CASE e.left > 1
    <3>1. PICK d : d = [e EXCEPT !.left = @ - 1]
      OBVIOUS
    <3>2. /\ d.perms = e.perms /\ d.left = e.left - 1 /\ d.took = e.took
          /\ e.left \in 0 .. TTL /\ e.took \in 0 .. Cap
          /\ d \in [perms : SUBSET Grants, left : 0 .. TTL, took : 0 .. Cap]
      BY <2>2, <2>5, <3>1, TimeAssumption
    <3>3. cache'[a] = d
      BY <2>2, <2>3, <2>5, <3>1, TimeAssumption DEF Expires
    <3>4. EntryAge(d) = Older(EntryAge(e))
      BY <2>5, <3>2, TimeAssumption DEF EntryAge, Older
    <3> QED BY <2>1, <2>5, <3>2, <3>3, <3>4
  <2>6. e.left <= 1 \/ e.left > 1
    BY <2>2, TimeAssumption
  <2> QED BY <2>4, <2>5, <2>6
<1>10. TypeOK'
  BY <1>1, <1>4, <1>7, <1>9 DEF PermissionInv, TypeOK, AgesType
<1>11. CachedRecentlyInForce'
  <2> SUFFICES ASSUME NEW a \in Actor, cache'[a].left > 0, NEW g \in cache'[a].perms
               PROVE InForceWithin(a, g, EntryAge(cache[a]))'
    BY DEF CachedRecentlyInForce
  <2>1. PICK n : n = EntryAge(cache[a])
    OBVIOUS
  <2>2. cache[a].left > 0 /\ g \in cache[a].perms /\ EntryAge(cache'[a]) = Older(n)
    BY <1>9, <2>1
  <2>3. n \in 0 .. Cap /\ g \in Grants
    BY <2>1, <2>2, EntryAgeType DEF PermissionInv, TypeOK
  <2>4. InForceWithin(a, g, Older(n))'
    BY <1>2, <1>4, <1>5, <2>1, <2>2, <2>3, InForceGrows DEF PermissionInv, CachedRecentlyInForce
  <2>5. EntryAge(cache[a])' = Older(n)
    BY <2>2 DEF EntryAge
  <2> QED BY <2>4, <2>5 DEF InForceWithin, Older
<1> QED BY <1>6, <1>8, <1>10, <1>11 DEF PermissionInv

-----------------------------------------------------------------------------
LEMMA InitHolds == Init => PermissionInv
<1> SUFFICES ASSUME Init PROVE PermissionInv
  OBVIOUS
<1>1. TypeOK
  BY TimeAssumption DEF Init, TypeOK, Empty
<1>2. InForceNow
  BY DEF Init, InForceNow
<1>3. EvidenceInv
  BY DEF Init, EvidenceInv
<1>4. CachedRecentlyInForce
  BY DEF Init, CachedRecentlyInForce, Empty
<1> QED BY <1>1, <1>2, <1>3, <1>4 DEF PermissionInv

LEMMA NextKeeps ==
  ASSUME PermissionInv, [Next]_vars
  PROVE PermissionInv'
<1>1. CASE UNCHANGED vars
  BY <1>1 DEF vars, tables, ages, PermissionInv, TypeOK, InForceNow, EvidenceInv, Evidence,
              Sound, ReadsYoung, AllChecked, Checked, CachedRecentlyInForce, InForceWithin,
              EntryAge
<1>2. ASSUME NEW w \in Worker, NEW a \in Actor, NEW s \in Service \cup {None}, Begin(w, a, s)
      PROVE PermissionInv'
  BY <1>2, BeginKeeps
<1>3. ASSUME NEW w \in Worker, Progress(w)
      PROVE PermissionInv'
  BY <1>3, HitKeeps, MissKeeps, ReadRoleKeeps, ReadOwnKeeps, StoreKeeps, CheckRoleKeeps,
     EndRequestKeeps DEF Progress
<1>4. CASE Administer
  BY <1>4, SetRoleKeeps, GrantRoleKeeps, RevokeRoleKeeps, GrantOwnKeeps, RevokeOwnKeeps
     DEF Administer
<1>5. CASE Tick
  BY <1>5, TickKeeps
<1> QED BY <1>1, <1>2, <1>3, <1>4, <1>5 DEF Next

(* Evidence of a request that was let through is what the property asks.   *)
LEMMA AllowedHasEvidence ==
  ASSUME PermissionInv
  PROVE AllowedRecentlyInForce
<1> SUFFICES ASSUME NEW w \in Worker, req[w].at \in {"allowed", "entered"}
             PROVE /\ \A i \in 1 .. Len(Required) : Checked(req[w], i)
                   /\ req[w].at = "entered" =>
                        \E o \in Demanded : roleAge[req[w].actor][o] <= req[w].age
  BY DEF AllowedRecentlyInForce, Checked
<1> DEFINE r == req[w]
<1>1. r \in Guard /\ Evidence(r)
  BY BusyRequest
<1>2. \A i \in 1 .. Len(Required) : Checked(r, i)
  BY <1>1 DEF Evidence, AllChecked
<1>3. ASSUME r.at = "entered"
      PROVE \E o \in Demanded : roleAge[r.actor][o] <= r.age
  <2>1. r.role \in Demanded /\ r.took <= r.age
    BY <1>1, <1>3 DEF Evidence, Sound
  <2>2. r.role # None
    BY <2>1, NoneAssumption
  <2>3. roleAge[r.actor][r.role] <= r.took
    BY <1>1, <2>2 DEF Evidence, ReadsYoung
  <2>4. roleAge[r.actor][r.role] \in 0 .. Cap /\ r.took \in 0 .. Cap /\ r.age \in 0 .. Cap
    BY <1>1, <2>2, GuardFields DEF PermissionInv, TypeOK
  <2> QED BY <2>1, <2>3, <2>4
<1> QED BY <1>2, <1>3

(* The strengthened invariant holds in every reachable state: it adds to   *)
(* the properties below that a row in a table is in force now and that a   *)
(* request's reads are no older than the request.                          *)
THEOREM Invariance == Spec => []PermissionInv
<1>1. Init => PermissionInv
  BY InitHolds
<1>2. PermissionInv /\ [Next]_vars => PermissionInv'
  BY NextKeeps
<1> QED BY <1>1, <1>2, PTL DEF Spec

(* Tables, entries and guards in flight keep their types. *)
THEOREM TypeCorrect == Spec => []TypeOK
<1>1. PermissionInv => TypeOK
  BY DEF PermissionInv
<1> QED BY <1>1, Invariance, PTL

(* getUserPermissions: what a cache entry holds was in force within the    *)
(* part of the TTL that has passed plus the time its fill took.            *)
THEOREM CacheStaleness == Spec => []CachedRecentlyInForce
<1>1. PermissionInv => CachedRecentlyInForce
  BY DEF PermissionInv
<1> QED BY <1>1, Invariance, PTL

(* PermissionGuard and RolesGuard: whoever is let through held all that    *)
(* the handler demands no longer ago than the oldest evidence.             *)
THEOREM GuardStaleness == Spec => []AllowedRecentlyInForce
<1>1. PermissionInv => AllowedRecentlyInForce
  BY AllowedHasEvidence
<1> QED BY <1>1, Invariance, PTL
=============================================================================
