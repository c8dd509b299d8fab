------------------------------ MODULE LoginGate ------------------------------
(***************************************************************************)
(* The checks that UserAuthService.login and RootAuthService.login make,   *)
(* query by query, before they store a session, while accounts are         *)
(* switched on and off and IpWhitelistService changes the lists.           *)
(*                                                                         *)
(* Who is whose parent, and in which role, is fixed when a run begins:     *)
(* nothing in this code changes it, nor sets deletedAt.  The password is   *)
(* right; with a wrong one the login ends (EndRequest).  What the session  *)
(* then is worth is module Sessions.                                       *)
(***************************************************************************)
EXTENDS IpMatch

CONSTANTS
  Root, User,  \* the accounts of either table
  Switched,    \* bound: the accounts whose status changes
  Worker,      \* slots for logins in flight
  Tree,        \* the hierarchies a run may begin with
  Level,       \* hierarchyLevel of each role, by role name
  Domain,      \* values of domainName
  Site,        \* [protocol, host] of a domain; protocol = None for a bare host
  Origin,      \* [protocol, host] of the Origin headers, and None
  ClientIp,    \* the addresses logins come from, as their texts, and None
  Lan,         \* the addresses that count as local when not in production
  Net,         \* values of serverIp: [range, bits], bits = None for an address
  None

Account == Root \cup User

ASSUME TreeAssumption ==
  \A t \in Tree : /\ t.role \in [User -> DOMAIN Level]
                  /\ t.parent \in [User -> User \cup {None}]
                  /\ t.root \in [User -> Root]
\* IPv6 ranges are left out
ASSUME NetAssumption ==
  \A n \in Net : /\ n.range \in Text
                 /\ n.bits = None \/ (n.bits \in 0 .. Width /\ n.range.form = "v4")
ASSUME ClientAssumption == ClientIp \subseteq Text \cup {None} /\ Lan \subseteq Address
ASSUME AccountAssumption == Root \cap User = {} /\ None \notin Account \cup Nat \cup Text

VARIABLES
  tree,       \* role, parent and rootParent of each user
  isProd,     \* security.production
  active,     \* whether the status of an account is ACTIVE
  whitelist,  \* the ip_whitelists table, by its unique domainName
  req,        \* the logins in flight
  held        \* history: the conditions that held while each login was checked

config == <<tree, isProd>>
vars == <<config, active, whitelist, req, held>>

Entry == [owner : Account, net : Net]
Condition == {"account", "root", "parent", "level", "list", "origin", "ip"}
\* why: the check that refused the login
Request == [at : {"idle", "found", "parent", "level", "whitelist", "write", "admitted", "refused"},
            account : Account \cup {None}, ip : Text \cup {None}, origin : Origin \cup {None},
            why : Condition \cup {None}]
Idle == [at |-> "idle", account |-> None, ip |-> None, origin |-> None, why |-> None]

IsAdmin(u) == tree.role[u] = "ADMIN"

-----------------------------------------------------------------------------
(* findUserWhitelist, findRootWhitelist, isValidOrigin and isValidIp.  An   *)
(* operator marked VARIANT is a plausible slip of the one after it, used to *)
(* see that the properties notice.                                         *)

\* RULE 1: an ADMIN answers to its own list; RULE 3, 4: others to their parent's,
\* which need not be an ADMIN
\* VARIANT
AdminSource(a) == IF a \in Root \/ IsAdmin(a) THEN a
                  ELSE IF IsAdmin(tree.parent[a]) THEN tree.parent[a]
                  ELSE tree.parent[tree.parent[a]]
Source(a) == IF a \in Root \/ IsAdmin(a) THEN a ELSE tree.parent[a]

DomainsOf(owner) == {d \in Domain : whitelist[d] # None /\ whitelist[d].owner = owner}
NetsOf(owner) == {whitelist[d].net : d \in DomainsOf(owner)}

IsValidOrigin(origin, domains) ==
  IF origin = None THEN ~isProd
  ELSE \E d \in domains : /\ Site[d].host = origin.host
                          /\ Site[d].protocol \in {None, origin.protocol}

\* a single address is compared as a text
Matches(ip, net) == IF net.bits = None THEN ip = net.range
                    ELSE InCidr(IpToLong(ip), IpToLong(net.range), net.bits)

IsLocal(ip) == ip.form = "v4" /\ ip.num \in Lan

IsValidIp(ip, nets) == /\ ip # None
                       /\ (~isProd /\ IsLocal(ip)) \/ \E n \in nets : Matches(ip, n)

-----------------------------------------------------------------------------
(* The steps of a login. *)

Move(w, at) == req' = [req EXCEPT ![w].at = at]
Refuse(w, why) == req' = [req EXCEPT ![w].at = "refused", ![w].why = why]

FindAccount(w, a, ip, origin) ==
  /\ req[w] = Idle
  /\ req' = [req EXCEPT ![w] =
       [at |-> IF ~active[a] THEN "refused" ELSE IF a \in Root THEN "whitelist" ELSE "found",
        account |-> a, ip |-> IF ip = None THEN None ELSE Normal(ip), origin |-> origin,
        why |-> IF active[a] THEN None ELSE "account"]]
  /\ UNCHANGED <<config, active, whitelist>>

\* the include reads the parents after the row; rootParentId is never null
FindParents(w) ==
  LET u == req[w].account
  IN /\ req[w].at = "found"
     /\ IF ~active[tree.root[u]] THEN Refuse(w, "root")
        ELSE IF IsAdmin(u) THEN Move(w, "whitelist")
        ELSE IF tree.parent[u] = None THEN Refuse(w, "parent") ELSE Move(w, "parent")
     /\ UNCHANGED <<config, active, whitelist>>

ParentActive(u) == active[tree.parent[u]]

CheckParent(w) ==
  /\ req[w].at = "parent"
  /\ IF ParentActive(req[w].account) THEN Move(w, "level") ELSE Refuse(w, "parent")
  /\ UNCHANGED <<config, active, whitelist>>

Below(u) == Level[tree.role[tree.parent[u]]] < Level[tree.role[u]]

CheckLevel(w) ==
  /\ req[w].at = "level"
  /\ IF Below(req[w].account) THEN Move(w, "whitelist") ELSE Refuse(w, "level")
  /\ UNCHANGED <<config, active, whitelist>>

\* an empty list is refused: findUserWhitelist throws
CheckWhitelist(w) ==
  LET r == req[w]
      source == Source(r.account)
  IN /\ r.at = "whitelist"
     /\ IF DomainsOf(source) = {} THEN Refuse(w, "list")
        ELSE IF ~IsValidOrigin(r.origin, DomainsOf(source)) THEN Refuse(w, "origin")
        ELSE IF ~IsValidIp(r.ip, NetsOf(source)) THEN Refuse(w, "ip") ELSE Move(w, "write")
     /\ UNCHANGED <<config, active, whitelist>>

\* the session is stored: WriteSession of module Sessions
Admit(w) ==
  /\ req[w].at = "write"
  /\ Move(w, "admitted")
  /\ UNCHANGED <<config, active, whitelist>>

\* the answer, a wrong password, or a failure
EndRequest(w) ==
  /\ req[w].at # "idle"
  /\ req' = [req EXCEPT ![w] = Idle]
  /\ UNCHANGED <<config, active, whitelist>>

-----------------------------------------------------------------------------
(* IpWhitelistService.  domainName is unique over all owners: what the      *)
(* service's own look-up for the same owner misses, the database refuses.   *)

Free(d) == whitelist[d] = None

\* a row belongs to a root or to a user, as the data of the call says
\* VARIANT
OwnerlessRow(owner, net) == [owner |-> None, net |-> net]
Row(owner, net) == [owner |-> owner, net |-> net]

CreateEntry(d, owner, net) ==
  /\ Free(d)
  /\ whitelist' = [whitelist EXCEPT ![d] = Row(owner, net)]
  /\ UNCHANGED <<config, active, req>>

\* updateForUser also hands a row to another user, updateForRoot to another root
UpdateEntry(d, new, owner, net) ==
  /\ ~Free(d) /\ (new = d \/ Free(new))
  /\ whitelist[d].owner \in User <=> owner \in User
  /\ whitelist' = [whitelist EXCEPT ![d] = None, ![new] = Row(owner, net)]
  /\ UNCHANGED <<config, active, req>>

RemoveEntry(d) ==
  /\ ~Free(d)
  /\ whitelist' = [whitelist EXCEPT ![d] = None]
  /\ UNCHANGED <<config, active, req>>

\* An operator of the platform switches an account on or off.
SetStatus(a) ==
  /\ a \in Switched
  /\ active' = [active EXCEPT ![a] = ~@]
  /\ UNCHANGED <<config, whitelist, req>>

Step ==
  \/ \E w \in Worker :
       \/ \E a \in Account, ip \in ClientIp, o \in Origin : FindAccount(w, a, ip, o)
       \/ FindParents(w)
       \/ CheckParent(w)
       \/ CheckLevel(w)
       \/ CheckWhitelist(w)
       \/ Admit(w)
       \/ EndRequest(w)
  \/ \E d \in Domain, o \in Account, n \in Net : CreateEntry(d, o, n)
  \/ \E d, e \in Domain, o \in Account, n \in Net : UpdateEntry(d, e, o, n)
  \/ \E d \in Domain : RemoveEntry(d)
  \/ \E a \in Account : SetStatus(a)

-----------------------------------------------------------------------------
(* What a login may rely on, told from the tables alone. *)

HasParent(a) == a \in User /\ ~IsAdmin(a)
Upline(a) == IF HasParent(a) THEN tree.parent[a] ELSE a

Listed(a) == {whitelist[d].net : d \in {e \in Domain : ~Free(e) /\ whitelist[e].owner = Upline(a)}}

ListedOrigin(a, origin) ==
  \/ ~isProd /\ origin = None
  \/ origin # None /\ \E d \in Domain :
       /\ ~Free(d) /\ whitelist[d].owner = Upline(a)
       /\ Site[d].host = origin.host
       /\ Site[d].protocol = None \/ Site[d].protocol = origin.protocol

\* An entry admits the machine it names, however it spells it, or the addresses
\* that share its prefix; an IPv6 address counts as the number it begins with.
Admits(net, ip) == IF net.bits = None THEN Normal(net.range) = ip
                   ELSE SamePrefix(IpToLong(ip), net.range.num, net.bits)

\* It plainly admits those that it names in the one spelling the checks see.
PlainlyAdmits(net, ip) ==
  /\ Admits(net, ip)
  /\ IF net.bits = None THEN net.range = Normal(net.range) ELSE ip.form = "v4"

Local(ip) == ~isProd /\ ip \in {V4(n) : n \in Lan}

ListedIp(a, ip) == ip # None /\ (Local(ip) \/ \E n \in Listed(a) : Admits(n, ip))
PlainlyListedIp(a, ip) ==
  ip # None /\ (Local(ip) \/ \E n \in Listed(a) : PlainlyAdmits(n, ip))

Holds(c, r) ==
  LET a == r.account
  IN CASE c = "account" -> active[a]
       [] c = "root" -> a \in Root \/ active[tree.root[a]]
       [] c = "parent" -> HasParent(a) => Upline(a) # None /\ active[Upline(a)]
       [] c = "level" -> HasParent(a) => Upline(a) # None /\ Below(a)
       [] c = "list" -> Listed(a) # {}
       [] c = "origin" -> ListedOrigin(a, r.origin)
       [] c = "ip" -> ListedIp(a, r.ip)

PlainlyHolds(c, r) == IF c = "ip" THEN PlainlyListedIp(r.account, r.ip) ELSE Holds(c, r)

Now(w) == {c \in Condition : Holds(c, req[w])}

\* what held until a login was admitted; of a refused one its reason is enough
Observe ==
  held' = [w \in Worker |-> IF req'[w].at \in {"idle", "refused"} THEN {}
                            ELSE IF req[w].at = "admitted" THEN held[w]
                            ELSE held[w] \cup Now(w)']

Init ==
  /\ tree \in Tree /\ isProd \in BOOLEAN
  /\ active = [a \in Account |-> TRUE]
  /\ whitelist = [d \in Domain |-> None]
  /\ req = [w \in Worker |-> Idle]
  /\ held = [w \in Worker |-> {}]

Next == Step /\ Observe

Spec == Init /\ [][Next]_vars

-----------------------------------------------------------------------------
(* Every variable keeps its type. *)
TypeOK ==
  /\ tree \in Tree /\ isProd \in BOOLEAN
  /\ active \in [Account -> BOOLEAN]
  /\ whitelist \in [Domain -> Entry \cup {None}]
  /\ req \in [Worker -> Request]
  /\ held \in [Worker -> SUBSET Condition]

(* A login is admitted only if, at some moment while it was checked, the    *)
(* account was active, at some moment its root was, at some moment its     *)
(* parent was and stood above it, and at some moment the list it answers to*)
(* had an entry, named its origin, and named its address or a range with   *)
(* it: a change of the tables during a login never admits one that no      *)
(* moment would have allowed.                                              *)
AdmittedOnlyIfHeld ==
  \A w \in Worker : req[w].at = "admitted" => held[w] = Condition

(* The dual: the reason a refused login is given is true of the tables when *)
(* it is refused, so nobody who meets the conditions throughout is turned  *)
(* away, as long as the list spells a single address the way getClientIp   *)
(* does: dotted, and ::1 as 127.0.0.1.                                     *)
RefusedForCause ==
  [][\A w \in Worker : req'[w].why # req[w].why /\ req'[w].why # None =>
       ~PlainlyHolds(req'[w].why, req'[w])]_vars
=============================================================================
