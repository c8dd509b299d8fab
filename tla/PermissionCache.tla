--------------------------- MODULE PermissionCache ---------------------------
(***************************************************************************)
(* PermissionService, PermissionGuard and RolesGuard for a USER (role rows *)
(* plus own rows) or an EMPLOYEE (department rows plus own rows; "role"    *)
(* stands for both).  The effective permissions are cached per actor for a *)
(* fixed time and nothing invalidates them: a row may change while a       *)
(* cached set, or a fill that has read one of the two tables, is in use.   *)
(*                                                                         *)
(* Time is relative: entries count down, ages count up to Cap.  ROOT       *)
(* bypasses the guard and does not appear.                                 *)
(***************************************************************************)
EXTENDS Naturals, Sequences

CONSTANTS
  Actor, Role, Worker,
  Employee,      \* the actors with a department for a role
  Service,       \* service ids
  RoleGrants,    \* the rows role_permissions may hold: [permission, service]
  OwnGrants,     \* the rows user_permissions may hold
  Required,      \* the permissions a handler demands, in the guard's order
  Demanded,      \* the roles it demands
  None,          \* no role; a null serviceId, "global" in a row
  TTL,           \* CACHE_TTL_SECONDS, in ticks
  Cap            \* bound: ages are counted up to here

ASSUME TimeAssumption == TTL \in Nat \ {0} /\ Cap \in Nat /\ Cap > TTL
ASSUME RequiredAssumption == Len(Required) \in Nat \ {0}
ASSUME NoneAssumption == None \notin Role \cup Demanded /\ None # {}

VARIABLES
  roleOf,    \* roleId of the actor's row
  roleRows,  \* the active rows of each role
  ownRows,   \* the active rows of each actor
  cache,     \* the entry of each actor
  req,       \* the guards in flight
  \* How long ago each row was last in force (history).
  roleAge, rowAge, ownAge

tables == <<roleOf, roleRows, ownRows>>
ages == <<roleAge, rowAge, ownAge>>
vars == <<tables, cache, req, ages>>

Unread == None
Grants == RoleGrants \cup OwnGrants
Empty == [perms |-> {}, left |-> 0, took |-> 0]
Idle == [at |-> "idle"]
Guard == [at : {"check", "fill", "allowed", "entered"}, actor : Actor,
          role : Role \cup {None}, service : Service \cup {None},
          next : 1 .. Len(Required),
          roleSet : {Unread} \cup SUBSET RoleGrants,
          ownSet : {Unread} \cup SUBSET OwnGrants,
          took : 0 .. Cap, age : 0 .. Cap]

\* hasPermission: a null serviceId matches any row, a global row any service
Covers(perms, p, s) ==
  \E g \in perms : g.permission = p /\ (s = None \/ g.service \in {None, s})

Older(n) == IF n < Cap THEN n + 1 ELSE Cap

Init ==
  /\ roleOf \in [Actor -> Role \cup {None}]
  /\ roleRows = [r \in Role |-> {}]
  /\ ownRows = [a \in Actor |-> {}]
  /\ cache = [a \in Actor |-> Empty]
  /\ req = [w \in Worker |-> Idle]
  /\ roleAge = [a \in Actor |-> [r \in Role |-> IF roleOf[a] = r THEN 0 ELSE Cap]]
  /\ rowAge = [r \in Role |-> [g \in RoleGrants |-> Cap]]
  /\ ownAge = [a \in Actor |-> [g \in OwnGrants |-> Cap]]

-----------------------------------------------------------------------------
(* The guard.  An operator marked VARIANT is a plausible slip of the one    *)
(* below it and is used by no action.                                      *)

(* IdentityProvider has read roleId; the guard resolves the service. *)
Begin(w, a, s) ==
  /\ req[w] = Idle
  /\ req' = [req EXCEPT ![w] =
       [at |-> "check", actor |-> a, role |-> roleOf[a], service |-> s, next |-> 1,
        roleSet |-> Unread, ownSet |-> Unread, took |-> 0, age |-> 0]]
  /\ UNCHANGED <<tables, cache, ages>>

\* VARIANT
AnySuffices(i) == TRUE
LastRequired(i) == i = Len(Required)

(* hasAllPermissions goes on to the next permission, or the guard decides. *)
(* age is how old the evidence for this permission may be.                 *)
Decide(w, perms, age) ==
  LET r == [req[w] EXCEPT !.age = IF @ > age THEN @ ELSE age,
                          !.roleSet = Unread, !.ownSet = Unread]
  IN req' = [req EXCEPT ![w] =
       IF ~Covers(perms, Required[r.next], r.service) THEN Idle
       ELSE IF LastRequired(r.next) THEN [r EXCEPT !.at = "allowed"]
       ELSE [r EXCEPT !.at = "check", !.next = @ + 1]]

(* How old the reads behind a cache entry may be. *)
EntryAge(e) == IF e.took + TTL - e.left < Cap THEN e.took + TTL - e.left ELSE Cap

Hit(w) ==
  LET a == req[w].actor
  IN /\ req[w].at = "check" /\ cache[a].left > 0
     /\ Decide(w, cache[a].perms, EntryAge(cache[a]))
     /\ UNCHANGED <<tables, cache, ages>>

(* A miss queries both tables at once; an actor without a role has none.   *)
Miss(w) ==
  /\ req[w].at = "check" /\ cache[req[w].actor].left = 0
  /\ req' = [req EXCEPT ![w] =
       IF @.role = None THEN [@ EXCEPT !.at = "fill", !.roleSet = {}, !.ownSet = {}]
                        ELSE [@ EXCEPT !.at = "fill"]]
  /\ UNCHANGED <<tables, cache, ages>>

ReadRole(w) ==
  /\ req[w].at = "fill" /\ req[w].roleSet = Unread
  /\ req' = [req EXCEPT ![w].roleSet = roleRows[req[w].role]]
  /\ UNCHANGED <<tables, cache, ages>>

\* VARIANT
AllOwn(a) == OwnGrants
ActiveOwn(a) == ownRows[a]

ReadOwn(w) ==
  /\ req[w].at = "fill" /\ req[w].ownSet = Unread
  /\ req' = [req EXCEPT ![w].ownSet = ActiveOwn(req[w].actor)]
  /\ UNCHANGED <<tables, cache, ages>>

\* mergePermissions keys on permission and service: own rows add, never remove
Merge(base, overrides) == base \cup overrides

\* VARIANT
EntryInMillis(perms, took) == [perms |-> perms, left |-> 1000 * TTL, took |-> took]
Entry(perms, took) == [perms |-> perms, left |-> TTL, took |-> took]

Store(w) ==
  LET r == req[w]
      perms == Merge(r.roleSet, r.ownSet)
  IN /\ r.at = "fill" /\ r.roleSet # Unread /\ r.ownSet # Unread
     /\ cache' = [cache EXCEPT ![r.actor] = Entry(perms, r.took)]
     /\ Decide(w, perms, r.took)
     /\ UNCHANGED <<tables, ages>>

(* RolesGuard, behind PermissionGuard: by the role the request began with. *)
CheckRole(w) ==
  /\ req[w].at = "allowed"
  /\ req[w].actor \notin Employee /\ req[w].role \in Demanded
  /\ req' = [req EXCEPT ![w].at = "entered"]
  /\ UNCHANGED <<tables, cache, ages>>

(* The handler runs, or the request fails somewhere on the way. *)
EndRequest(w) ==
  /\ req[w].at # "idle"
  /\ req' = [req EXCEPT ![w] = Idle]
  /\ UNCHANGED <<tables, cache, ages>>

-----------------------------------------------------------------------------
(* The administration of roles and rows, and the passing of time.          *)

SetRole(a, r) ==
  /\ roleOf[a] # r
  /\ roleOf' = [roleOf EXCEPT ![a] = r]
  /\ roleAge' = IF r = None THEN roleAge ELSE [roleAge EXCEPT ![a][r] = 0]
  /\ UNCHANGED <<roleRows, ownRows, cache, req, rowAge, ownAge>>

GrantRole(r, g) ==
  /\ g \notin roleRows[r]
  /\ roleRows' = [roleRows EXCEPT ![r] = @ \cup {g}]
  /\ rowAge' = [rowAge EXCEPT ![r][g] = 0]
  /\ UNCHANGED <<roleOf, ownRows, cache, req, roleAge, ownAge>>

RevokeRole(r, g) ==
  /\ g \in roleRows[r]
  /\ roleRows' = [roleRows EXCEPT ![r] = @ \ {g}]
  /\ UNCHANGED <<roleOf, ownRows, cache, req, ages>>

GrantOwn(a, g) ==
  /\ g \notin ownRows[a]
  /\ ownRows' = [ownRows EXCEPT ![a] = @ \cup {g}]
  /\ ownAge' = [ownAge EXCEPT ![a][g] = 0]
  /\ UNCHANGED <<roleOf, roleRows, cache, req, roleAge, rowAge>>

RevokeOwn(a, g) ==
  /\ g \in ownRows[a]
  /\ ownRows' = [ownRows EXCEPT ![a] = @ \ {g}]
  /\ UNCHANGED <<roleOf, roleRows, cache, req, ages>>

\* VARIANT
NeverExpires(e) == e
Expires(e) == IF e.left <= 1 THEN Empty ELSE [e EXCEPT !.left = @ - 1]

Tick ==
  /\ cache' = [a \in Actor |-> Expires(cache[a])]
  /\ req' = [w \in Worker |-> IF req[w] = Idle THEN Idle
                              ELSE [req[w] EXCEPT !.took = Older(@), !.age = Older(@)]]
  /\ roleAge' = [a \in Actor |-> [r \in Role |->
                   IF roleOf[a] = r THEN 0 ELSE Older(roleAge[a][r])]]
  /\ rowAge' = [r \in Role |-> [g \in RoleGrants |->
                   IF g \in roleRows[r] THEN 0 ELSE Older(rowAge[r][g])]]
  /\ ownAge' = [a \in Actor |-> [g \in OwnGrants |->
                   IF g \in ownRows[a] THEN 0 ELSE Older(ownAge[a][g])]]
  /\ UNCHANGED tables

Progress(w) == Hit(w) \/ Miss(w) \/ ReadRole(w) \/ ReadOwn(w) \/ Store(w)
               \/ CheckRole(w) \/ EndRequest(w)

Administer ==
  \/ \E a \in Actor, r \in Role \cup {None} : SetRole(a, r)
  \/ \E r \in Role, g \in RoleGrants : GrantRole(r, g) \/ RevokeRole(r, g)
  \/ \E a \in Actor, g \in OwnGrants : GrantOwn(a, g) \/ RevokeOwn(a, g)

Next ==
  \/ \E w \in Worker, a \in Actor, s \in Service \cup {None} : Begin(w, a, s)
  \/ \E w \in Worker : Progress(w)
  \/ Administer
  \/ Tick

Spec == Init /\ [][Next]_vars

(* Queries and cache calls return, and time passes. *)
FairSpec == Spec /\ WF_vars(Tick) /\ \A w \in Worker : WF_vars(Progress(w))

-----------------------------------------------------------------------------
(* Every variable keeps its type. *)
TypeOK ==
  /\ roleOf \in [Actor -> Role \cup {None}]
  /\ roleRows \in [Role -> SUBSET RoleGrants]
  /\ ownRows \in [Actor -> SUBSET OwnGrants]
  /\ cache \in [Actor -> [perms : SUBSET Grants, left : 0 .. TTL, took : 0 .. Cap]]
  /\ req \in [Worker -> {Idle} \cup Guard]
  /\ roleAge \in [Actor -> [Role -> 0 .. Cap]]
  /\ rowAge \in [Role -> [RoleGrants -> 0 .. Cap]]
  /\ ownAge \in [Actor -> [OwnGrants -> 0 .. Cap]]

(* Row g counted for actor a at most n ticks ago: as an own row, or as a   *)
(* row of a role that the actor held at most n ticks ago.                  *)
InForceWithin(a, g, n) ==
  \/ g \in OwnGrants /\ ownAge[a][g] <= n
  \/ g \in RoleGrants /\ \E r \in Role : roleAge[a][r] <= n /\ rowAge[r][g] <= n

(* A cached permission was in force within the part of the TTL that has    *)
(* passed plus the time its fill took, whatever changed during the fill.   *)
CachedRecentlyInForce ==
  \A a \in Actor : cache[a].left > 0 =>
    \A g \in cache[a].perms : InForceWithin(a, g, EntryAge(cache[a]))

(* A request is let through only if each permission its handler demands    *)
(* was in force no longer ago than its oldest evidence, also when the      *)
(* cache entry expired between two of its checks; and its handler runs     *)
(* only if the actor held a demanded role within that time.                *)
AllowedRecentlyInForce ==
  \A w \in Worker : req[w].at \in {"allowed", "entered"} =>
    LET r == req[w] IN
    /\ \A i \in 1 .. Len(Required) :
         \E g \in Grants : /\ Covers({g}, Required[i], r.service)
                           /\ InForceWithin(r.actor, g, r.age)
    /\ r.at = "entered" => \E o \in Demanded : roleAge[r.actor][o] <= r.age

Granted(a, g) == g \in ownRows[a] \/ \E r \in Role : g \in roleRows[r]

(* A permission that no row grants any more finally leaves every cached    *)
(* set for good, although nothing ever invalidates an entry.               *)
RevocationTakesEffect ==
  \A a \in Actor, g \in Grants :
    <>[](~Granted(a, g)) => <>[](g \notin cache[a].perms)
=============================================================================
