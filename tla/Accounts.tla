------------------------------ MODULE Accounts ------------------------------
(***************************************************************************)
(* The accounts of a system that is being used while it is seeded: runs of *)
(* the seed that end early and are started again (SeedRun), and edits by   *)
(* the owners of the rows there are (ProfileEdits), step by step.          *)
(***************************************************************************)
EXTENDS ProfileEdits, SeedRun

vars == <<tables, edit, seed>>

Init ==
  /\ profile = << >> /\ place = << >> /\ asked = << >> /\ edited = {}
  /\ req = [w \in Worker |-> Idle] /\ edits = 0 /\ stale = {}
  /\ run = 0 /\ left = << >> /\ through = FALSE
  /\ got = [k \in Key \cup {Root} |-> None]
  /\ role = << >> /\ wallet = {} /\ list = << >> /\ early = FALSE

\* a new row is news to every request in flight
Planting ==
  /\ Account
  /\ req' = Overtaken(req, ((DOMAIN profile') \ DOMAIN profile) \X Column)
  /\ UNCHANGED <<edits, stale>>

Seeding ==
  \/ Planting
  \/ /\ \/ /\ Start \/ Stop \/ PlantRole \/ PlantWallet \/ PlantList
           /\ UNCHANGED tables
        \/ AccountRefused
        \/ AssignRole
     /\ UNCHANGED edit

Editing ==
  /\ \E w \in Worker : EditRead(w) \/ LookUp(w) \/ EditWrite(w) \/ EditFails(w)
  /\ UNCHANGED seed

\* Outside the bounds of the model: nothing runs and nothing more is started.
Quiet ==
  /\ ~Running /\ run = MaxRun /\ \A w \in Worker : ~Active(w)
  /\ UNCHANGED vars

Next == Seeding \/ Editing \/ Quiet

Spec == Init /\ [][Next]_vars

-----------------------------------------------------------------------------
(* TypeOK: every row has a place and what was asked for it; the rows a run, *)
(* a wallet or a list names exist.                                          *)
TypeOK ==
  /\ DOMAIN profile \subseteq Id /\ DOMAIN place = DOMAIN profile
  /\ DOMAIN asked = DOMAIN profile
  /\ edited \cup stale \subseteq (DOMAIN profile) \X Column
  /\ \A id \in DOMAIN profile :
       /\ DOMAIN profile[id] = Column /\ DOMAIN asked[id] = Column
       /\ {place[id].parent, place[id].root} \subseteq DOMAIN profile \cup {None}
       /\ \A i \in DOMAIN place[id].path : place[id].path[i][1] \in Key
       /\ place[id].role \in Range(RoleNames) \cup {None}
  /\ \A w \in Worker : Active(w) =>
       /\ req[w].of \in DOMAIN profile /\ req[w].dto \in Wish
       /\ DOMAIN req[w].read = Column /\ req[w].todo \subseteq DOMAIN LookedUp
       /\ req[w].since \subseteq (DOMAIN profile) \X Column
  /\ edits \in 0 .. MaxEdit /\ run \in 0 .. MaxRun
  /\ Range(got) \subseteq DOMAIN profile \cup {None}
  /\ DOMAIN role \subseteq Range(RoleNames) /\ DOMAIN list \subseteq Port
  /\ Range(role) \cup Range(list) \cup wallet \subseteq DOMAIN profile
  /\ {early, through} \subseteq BOOLEAN

(* EditLostOnlyByOverlap: a column holds what was last asked of it, unless  *)
(* a request that had read it before wrote the old value back: updateProfile *)
(* writes all five columns, those nobody asked for as it read them.         *)
EditLostOnlyByOverlap ==
  \A id \in DOMAIN profile, c \in Column :
    profile[id][c] # asked[id][c] => <<id, c>> \in stale

(* ConflictOnlyByOverlap: the write of a user's profile hits a unique index *)
(* (an internal error, after the look-ups found nothing) only if another    *)
(* account took the value after the request had read its row.               *)
ConflictOnlyByOverlap ==
  \A w \in Worker :
    LET r == req[w]
    IN Writing(w) /\ ~IsRoot(r.of) =>
         \A c \in Unique : \A id \in Holders(r.of, c, Written(r)[c]) \ {r.of} :
           <<id, c>> \in r.since

Parents(id) == IF place[id].parent = None THEN << >> ELSE place[place[id].parent].path
Renamed == \E id \in DOMAIN profile : <<id, "username">> \in edited

(* PathBrokenOnlyByInterruption: the hierarchyPath of every user is its      *)
(* parent's and its own customerId, as getDownlineUsers needs it, unless an *)
(* earlier run of the seed ended early or a user changed its username: then *)
(* a later run writes the ids it drew itself, not those of the rows it met. *)
PathBrokenOnlyByInterruption ==
  \A id \in DOMAIN place :
    ~IsRoot(id) /\ place[id].path # Append(Parents(id), id) => early \/ Renamed

(* SecondRowOnlyAfterThreeEdits: a later run plants an account again only   *)
(* when its row gave up its username, its phone number and its email; with  *)
(* fewer edits the run finds the row or is refused.                         *)
SecondRowOnlyAfterThreeEdits ==
  \A i, j \in DOMAIN profile :
    i[1] = j[1] /\ i[2] < j[2] => \A c \in Unique : <<i, c>> \in edited

(* RefusedOnlyAfterEdit: a run of the seed is refused a row by a unique     *)
(* index only if somebody edited a unique column; runs alone never collide. *)
RefusedOnlyAfterEdit ==
  (Doing("root") \/ Doing("user")) /\ Refused(Head(left).of) =>
    \E cell \in edited : cell[2] \in Unique

Place(k) == IF k = Root THEN 0 ELSE CHOOSE i \in DOMAIN Plan : Plan[i].key = k

(* CompletedRunEquips: when a run is through, every account it met has its  *)
(* wallet, and the domain of its IP whitelist entry is its own, unless an   *)
(* account that changed its username holds it, or the plan gives that       *)
(* domain to an earlier account too.                                        *)
CompletedRunEquips ==
  through =>
    \A k \in Key \cup {Root} :
      /\ got[k] \in wallet /\ PortOf(k) \in DOMAIN list
      /\ LET holder == list[PortOf(k)]
         IN \/ holder = got[k]
            \/ <<holder, "username">> \in edited
            \/ PortOf(holder[1]) = PortOf(k) /\ Place(holder[1]) < Place(k)
=============================================================================
