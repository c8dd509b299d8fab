---------------------------- MODULE ProfileEdits ----------------------------
(***************************************************************************)
(* updateProfile of UserAuthService and RootAuthService, query by query:   *)
(* the row is read, the values asked for are looked up (users only), and   *)
(* all five columns are written, those nobody asked for as they were read. *)
(***************************************************************************)
EXTENDS AccountTables

CONSTANTS
  Worker,   \* slots for requests in flight
  Editor,   \* the accounts, as the plan names them, whose owners edit them
  Wish,     \* what a client may ask for: values of some of the columns
  MaxEdit   \* bound: requests ever accepted

ASSUME WishAssumption == \A d \in Wish : DOMAIN d \subseteq Column
ASSUME EditAssumption == MaxEdit \in Nat /\ Editor \subseteq Key \cup {Root}

VARIABLES
  req,   \* the requests in flight
  edits, \* how many were accepted
  stale  \* history: the columns last written by a request that had read them before
         \* another wrote them, and was not asked to change them

edit == <<req, edits, stale>>

Cell == Id \X Column
\* since is history: the columns, of any row, that others wrote since this one read
\* and todo the look-ups left, numbered in their order
Idle == [of |-> None, dto |-> << >>, read |-> << >>, todo |-> {}, since |-> {}]
Active(w) == req[w] # Idle
Writing(w) == Active(w) /\ req[w].todo = {}

Finish(w) == req' = [req EXCEPT ![w] = Idle]

\* the requests in flight once others wrote these columns
Overtaken(reqs, cells) ==
  [w \in Worker |-> IF reqs[w] = Idle THEN Idle ELSE [reqs[w] EXCEPT !.since = @ \cup cells]]

\* VARIANT
LookedUpWithoutUsername == <<"email", "phoneNumber">>
LookedUp == <<"email", "phoneNumber", "username">>

EditRead(w) ==
  /\ ~Active(w) /\ edits < MaxEdit
  /\ \E id \in {i \in DOMAIN profile : i[1] \in Editor}, dto \in Wish :
       LET Differs(c) == c \in DOMAIN dto /\ dto[c] # profile[id][c]
       IN req' = [req EXCEPT ![w] =
                    [of |-> id, dto |-> dto, read |-> profile[id], since |-> {},
                     todo |-> {i \in DOMAIN LookedUp : ~IsRoot(id) /\ Differs(LookedUp[i])}]]
  /\ edits' = edits + 1
  /\ UNCHANGED <<tables, stale>>

LookUp(w) ==
  /\ Active(w)
  /\ \E i \in req[w].todo :
       LET r == req[w]
           c == LookedUp[i]
       IN /\ \A j \in r.todo : i <= j
          /\ IF Holders(r.of, c, r.dto[c]) # {}
             THEN Finish(w)
             ELSE req' = [req EXCEPT ![w].todo = @ \ {i}]
  /\ UNCHANGED <<tables, edits, stale>>

\* data: dto.c ?? user.c
\* VARIANT
WrittenFirstForLast(r) ==
  [c \in Column |-> IF c \in DOMAIN r.dto THEN r.dto[c]
                    ELSE IF c = "lastName" THEN r.read["firstName"] ELSE r.read[c]]
Written(r) == [c \in Column |-> IF c \in DOMAIN r.dto THEN r.dto[c] ELSE r.read[c]]

EditWrite(w) ==
  /\ Writing(w)
  /\ LET r == req[w]
         id == r.of
         new == Written(r)
         changed == {<<id, c>> : c \in {d \in Column : new[d] # profile[id][d]}}
     IN IF Clash(id, new)
        THEN Finish(w) /\ UNCHANGED <<tables, stale>>
        ELSE /\ profile' = [profile EXCEPT ![id] = new]
             /\ asked' = [asked EXCEPT ![id] =
                            [c \in Column |-> IF c \in DOMAIN r.dto THEN r.dto[c] ELSE @[c]]]
             /\ edited' = edited \cup changed
             /\ stale' = (stale \ ({id} \X Column))
                            \cup (({id} \X (Column \ DOMAIN r.dto)) \cap (r.since \cup stale))
             /\ req' = Overtaken([req EXCEPT ![w] = Idle], changed)
             /\ UNCHANGED place
  /\ UNCHANGED edits

\* a query throws, or the process ends: nothing was written yet
EditFails(w) ==
  /\ Active(w)
  /\ Finish(w)
  /\ UNCHANGED <<tables, edits, stale>>
=============================================================================
