------------------------------ MODULE KycProofs ------------------------------
(***************************************************************************)
(* What Kyc guarantees for either service or both, any users and places,   *)
(* any number of requests at once, with failures or without, under a       *)
(* strict database or not.                                                 *)
(***************************************************************************)
EXTENDS KycTables, FiniteSetTheorems, TLAPS

(* Types without the bounds on the counters. *)
RowType == [kind : Kind, user : User, address : Nat, file : Nat \cup {None},
            status : {"PENDING", "VERIFIED", "REJECTED"}, verifiedAt : BOOLEAN]
ConsentType == [user : User, scope : Kind, type : PiiType, kyc : Nat \cup {None}, length : Nat]
RequestType ==
  [at : Stage, kind : Kind \cup {None}, user : User \cup {None},
   by : {"ROOT", "USER", "EMPLOYEE"}, place : Place \cup Given \cup {None},
   base : Place \cup {None}, id : Nat \cup {None}, address : Nat \cup {None},
   old : Nat \cup {None}, new : Nat \cup {None},
   withFile : BOOLEAN, withPii : BOOLEAN, todo : SUBSET PiiType,
   read : Nat, seen : Nat, before : Nat]

TypeInv ==
  /\ address \in Seq(Place) /\ stamp \in Seq(AddressStamp)
  /\ Len(stamp) = Len(address) /\ moves \in Nat
  /\ filed \in Nat /\ DOMAIN kyc \subseteq 1 .. filed
  /\ kyc \in [DOMAIN kyc -> RowType]
  /\ \A k \in DOMAIN kyc : kyc[k].address \in 1 .. Len(address)
  /\ pii \subseteq ConsentType
  /\ uploads \in Nat /\ bucket \subseteq 1 .. uploads
  /\ \A k \in DOMAIN kyc : kyc[k].file \in 1 .. uploads \cup {None}
  /\ req \in [Worker -> RequestType]

IsFiling(r) == r.at \in {"create", "address", "documents", "row"}

(* What a request carries, by its stage. *)
RequestOK(r) ==
  /\ r.at = "idle" => r = Idle
  /\ IsFiling(r) => r.kind \in Kind /\ r.user \in User /\ r.old = None /\ r.todo # {}
  /\ r.at \in {"create", "address"} => r.address = None
  /\ r.at \in {"create", "address"} => r.place \in Place
  /\ r.at \in {"move", "look", "place"} => r.place \in Place \cup Given
  /\ r.at \in {"look", "place"} => r.base \in Place
  /\ r.at \in {"documents", "row", "update", "upload", "rowUpdate", "move", "look", "place"} =>
       r.address \in 1 .. Len(address)
  /\ r.at \in {"consents", "update", "upload", "rowUpdate", "verify", "delete"} =>
       r.id \in 1 .. filed
  /\ r.at = "consents" => r.kind \in Kind /\ r.user \in User /\ r.todo # {}
  /\ r.at \in {"update", "upload"} => r.withFile
  /\ r.old \in 1 .. uploads \cup {None} /\ r.new \in 1 .. uploads \cup {None}
  /\ r.at \in {"create", "address", "documents", "update", "upload"} => r.new = None
  /\ r.at = "rowUpdate" /\ ~r.withFile => r.new = None

(* A place that was looked for and not found is in another row only if it   *)
(* was written there since, and a row that was read has changed only if it *)
(* was written since.                                                      *)
Sought(r) == IF r.at = "address" THEN r.place ELSE Merge(r.place, r.base)
AddressFree(r) ==
  /\ r.at \in {"address", "place"} =>
       /\ r.seen <= moves
       /\ \A a \in 1 .. Len(address) :
            a # r.address /\ address[a] = Sought(r) => r.seen < stamp[a].written
  /\ r.at \in {"look", "place"} =>
       /\ r.read <= moves
       /\ address[r.address] = r.base \/ r.read < stamp[r.address].written
StampInv ==
  /\ \A a \in 1 .. Len(address) : stamp[a].written <= moves
  /\ AddressTwiceOnlyByRace

(* So is a KYC of the user who files one. *)
NotFiled(r) ==
  IsFiling(r) =>
    /\ r.before <= filed
    /\ \A k \in DOMAIN kyc : kyc[k].kind = r.kind /\ kyc[k].user = r.user => r.before < k

(* The KYC whose consents a filing stores is of its user, while it exists. *)
OwnKyc(r) ==
  r.at = "consents" /\ Exists(r.id) => kyc[r.id].user = r.user /\ kyc[r.id].kind = r.kind

(* A document is of one KYC; one that was uploaded and not yet named is    *)
(* there, and only its request knows of it.                                *)
Pending(r) == r.at \in {"row", "rowUpdate"} /\ r.new # None
Fresh(w) ==
  Pending(req[w]) =>
    /\ req[w].new \in bucket
    /\ \A k \in DOMAIN kyc : kyc[k].file # req[w].new
    /\ \A v \in Worker : req[v].old # req[w].new
    /\ \A v \in Worker : v # w /\ Pending(req[v]) => req[v].new # req[w].new
OneKyc ==
  \A j, k \in DOMAIN kyc : kyc[j].file = kyc[k].file /\ kyc[j].file # None => j = k
OldOf(r) == \A k \in DOMAIN kyc : kyc[k].file = r.old /\ r.old # None => r.id = k

Replacing(k) == \E w \in Worker :
  /\ req[w].id = k /\ req[w].old = kyc[k].file
  /\ req[w].withFile /\ req[w].at \in {"upload", "rowUpdate"}
DocumentInv ==
  \A k \in DOMAIN kyc : kyc[k].file \in bucket \cup {None} \/ k \in hurt \/ Replacing(k)

Carries(r) == RequestOK(r) /\ AddressFree(r) /\ NotFiled(r) /\ OwnKyc(r) /\ OldOf(r)
KycInv ==
  /\ TypeInv /\ StampInv /\ ConsentOfItsKyc /\ OneKyc /\ DocumentInv
  /\ \A w \in Worker : Carries(req[w]) /\ Fresh(w)

-----------------------------------------------------------------------------
(* The shape of a step. *)

LEMMA NoneApart ==
  /\ None \notin Nat /\ None \notin User /\ None \notin Place /\ None \notin Given
  /\ Filing \subseteq Place /\ Edit \subseteq Given
  BY KycAssumption, AddressAssumption

LEMMA PayloadTypes ==
  ASSUME NEW kind, NEW types \in Payloads(kind)
  PROVE  types \subseteq PiiType /\ types # {}
  BY DEF Payloads, PiiType

LEMMA MergeType ==
  ASSUME NEW g \in Place \cup Given, NEW row \in Place
  PROVE  Merge(g, row) \in Place
<1>1. PICK F \in SUBSET Column : g \in [F -> Text]
  BY DEF Place, Given
<1>2. \A c \in Column : (IF c \in DOMAIN g THEN g[c] ELSE row[c]) \in Text
  BY <1>1 DEF Place
<1> QED BY <1>2 DEF Merge, Place

LEMMA Continued ==
  ASSUME TypeInv, NEW w \in Worker, NEW s \in RequestType, Continue(w, s)
  PROVE /\ req' \in [Worker -> RequestType] /\ req'[w] = s
        /\ \A v \in Worker : v # w => req'[v] = req[v]
  BY DEF TypeInv, Continue

LEMMA IdleCarries == Idle \in RequestType /\ Carries(Idle)
  BY NoneApart
     DEF Idle, RequestType, Stage, Carries, RequestOK, IsFiling, AddressFree, NotFiled,
         OwnKyc, OldOf, PiiType

(* What a request carries stays true while the tables only grow.           *)
LEMMA RequestKept ==
  ASSUME TypeInv, TypeInv', NEW r, RequestOK(r), Len(address) <= Len(address)',
         filed <= filed', uploads <= uploads'
  PROVE RequestOK(r)'
<1>1. /\ Len(address) \in Nat /\ Len(address)' \in Nat /\ filed \in Nat /\ filed' \in Nat
      /\ uploads \in Nat /\ uploads' \in Nat
  BY DEF TypeInv
<1>2. /\ 1 .. Len(address) \subseteq 1 .. Len(address)'
      /\ 1 .. filed \subseteq 1 .. filed'
      /\ 1 .. uploads \subseteq 1 .. uploads'
  BY <1>1
<1> QED BY <1>2 DEF RequestOK, IsFiling

(* A step of one request that writes no table but that of the consents.    *)
LEMMA Proceeds ==
  ASSUME KycInv, NEW w \in Worker, NEW s \in RequestType, Carries(s), Continue(w, s),
         pii' \subseteq ConsentType, ConsentOfItsKyc',
         UNCHANGED <<address, kyc, filed, bucket, uploads, moves, stamp>>,
         hurt \subseteq hurt',
         Pending(s) => Pending(req[w]) /\ s.new = req[w].new,
         \A v \in Worker : Pending(req[v]) => s.old # req[v].new,
         req[w].withFile /\ req[w].at \in {"upload", "rowUpdate"} =>
           \/ req[w].id \in hurt'
           \/ req[w].id \notin DOMAIN kyc
           \/ /\ s.id = req[w].id /\ s.old = req[w].old /\ s.withFile
              /\ s.at \in {"upload", "rowUpdate"}
  PROVE KycInv'
<1>1. TypeInv /\ DocumentInv /\ \A v \in Worker : Carries(req[v]) /\ Fresh(v)
  BY DEF KycInv
<1>2. /\ req' \in [Worker -> RequestType] /\ req'[w] = s
      /\ \A v \in Worker : v # w => req'[v] = req[v]
  BY <1>1, Continued
<1>3. TypeInv'
  BY <1>1, <1>2 DEF TypeInv
<1>4. StampInv' /\ OneKyc'
  BY DEF KycInv, StampInv, AddressTwiceOnlyByRace, OneKyc
<1>6. \A v \in Worker : Carries(req'[v])
  BY <1>1, <1>2
<1>7. \A v \in Worker : Carries(req[v])'
  BY <1>6
     DEF Carries, RequestOK, AddressFree, Sought, NotFiled, OwnKyc, OldOf, IsFiling, Exists
<1>8. ASSUME NEW v \in Worker PROVE Fresh(v)'
  <2>1. Pending(req'[v]) => Pending(req[v]) /\ req'[v].new = req[v].new
    BY <1>2
  <2>2. \A u \in Worker : Pending(req[v]) => req'[u].old # req[v].new
    BY <1>1, <1>2 DEF Fresh
  <2>3. \A u \in Worker : Pending(req'[u]) => Pending(req[u]) /\ req'[u].new = req[u].new
    BY <1>2
  <2> QED BY <1>1, <2>1, <2>2, <2>3 DEF Fresh, Pending
<1>9. DocumentInv'
  <2>1. ASSUME NEW k \in DOMAIN kyc, Replacing(k) PROVE k \in hurt' \/ Replacing(k)'
    <3>1. PICK v \in Worker : /\ req[v].id = k /\ req[v].old = kyc[k].file
                              /\ req[v].withFile /\ req[v].at \in {"upload", "rowUpdate"}
      BY <2>1 DEF Replacing
    <3> QED BY <1>2, <2>1, <3>1 DEF Replacing
  <2> QED BY <1>1, <2>1 DEF DocumentInv
<1> QED BY <1>3, <1>4, <1>7, <1>8, <1>9 DEF KycInv

(* A step that writes no table at all. *)
LEMMA MoveOn ==
  ASSUME KycInv, NEW w \in Worker, NEW s \in RequestType, Carries(s), Continue(w, s),
         UNCHANGED <<address, kyc, filed, pii, bucket, uploads, moves, stamp>>,
         hurt \subseteq hurt',
         Pending(s) => Pending(req[w]) /\ s.new = req[w].new,
         \A v \in Worker : Pending(req[v]) => s.old # req[v].new,
         req[w].withFile /\ req[w].at \in {"upload", "rowUpdate"} =>
           \/ req[w].id \in hurt'
           \/ req[w].id \notin DOMAIN kyc
           \/ /\ s.id = req[w].id /\ s.old = req[w].old /\ s.withFile
              /\ s.at \in {"upload", "rowUpdate"}
  PROVE KycInv'
<1>1. pii' \subseteq ConsentType /\ ConsentOfItsKyc'
  BY DEF KycInv, TypeInv, ConsentOfItsKyc, Exists
<1> QED BY <1>1, Proceeds

-----------------------------------------------------------------------------
(* The steps that write no table. *)

LEMMA EndKeeps ==
  ASSUME KycInv, NEW w \in Worker, Continue(w, Idle),
         UNCHANGED <<address, kyc, filed, pii, bucket, uploads, moves, stamp>>,
         hurt \subseteq hurt',
         req[w].withFile /\ req[w].at \in {"upload", "rowUpdate"} =>
           req[w].id \in hurt' \/ req[w].id \notin DOMAIN kyc
  PROVE KycInv'
<1>1. ~Pending(Idle) /\ Idle.old = None
  BY DEF Pending, Idle
<1>2. \A v \in Worker : Pending(req[v]) => Idle.old # req[v].new
  BY <1>1 DEF Pending
<1> QED BY <1>1, <1>2, IdleCarries, MoveOn

LEMMA AnswerKeeps ==
  ASSUME KycInv, NEW w \in Worker,
         CreateAnswer(w) \/ UpdateAnswer(w) \/ VerifyAnswer(w)
  PROVE KycInv'
  BY EndKeeps DEF CreateAnswer, UpdateAnswer, VerifyAnswer, Finish, history

LEMMA RefuseKeeps ==
  ASSUME KycInv, NEW w \in Worker, Refuse(w)
  PROVE KycInv'
<1>1. req[w].at = "rowUpdate" => req[w].id \notin DOMAIN kyc
  BY DEF Refuse, Refused, Exists
<1>2. req[w].at # "upload"
  BY DEF Refuse, Refused
<1> QED BY <1>1, <1>2, EndKeeps DEF Refuse, Finish, history

LEMMA FailKeeps ==
  ASSUME KycInv, NEW w \in Worker, Fail(w)
  PROVE KycInv'
<1>1. /\ Continue(w, Idle)
      /\ UNCHANGED <<address, kyc, filed, pii, bucket, uploads, moves, stamp>>
      /\ hurt' = IF req[w].at \in {"upload", "rowUpdate"} /\ req[w].withFile
                 THEN hurt \cup {req[w].id} ELSE hurt
  BY DEF Fail, Finish
<1> QED BY <1>1, EndKeeps

LEMMA CreateReadKeeps ==
  ASSUME KycInv, NEW w \in Worker, NEW kind \in Kind, NEW u \in User, NEW p \in Filing,
         NEW types \in Payloads(kind), NEW f \in BOOLEAN, CreateRead(w, kind, u, p, types, f)
  PROVE KycInv'
<1> DEFINE s == [Idle EXCEPT !.at = "create", !.kind = kind, !.user = u, !.place = p,
                             !.withFile = f, !.todo = types, !.before = filed]
<1>1. /\ ~Filed(kind, u) /\ req[w] = Idle /\ Continue(w, s)
      /\ UNCHANGED <<address, kyc, filed, pii, bucket, uploads, moves, stamp, hurt>>
  BY DEF CreateRead, MayFile, Start, history
<1>2. filed \in Nat /\ types \subseteq PiiType /\ types # {} /\ p \in Place
  BY PayloadTypes, NoneApart DEF KycInv, TypeInv
<1>3. /\ s \in RequestType /\ s.at = "create" /\ s.kind = kind /\ s.user = u
      /\ s.place = p /\ s.before = filed /\ s.old = None /\ s.new = None /\ s.address = None
      /\ s.todo = types
  BY <1>2 DEF Idle, RequestType, Stage
<1> HIDE DEF s
<1>4. Carries(s)
  BY <1>1, <1>2, <1>3 DEF Carries, RequestOK, IsFiling, AddressFree, NotFiled, OwnKyc, OldOf, Filed
<1>5. ~Pending(s) /\ (\A v \in Worker : Pending(req[v]) => s.old # req[v].new)
      /\ req[w].at = "idle"
  BY <1>1, <1>3 DEF Pending, Idle
<1> QED BY <1>1, <1>3, <1>4, <1>5, MoveOn

LEMMA UpdateReadKeeps ==
  ASSUME KycInv, NEW w \in Worker, NEW k \in KycId, NEW p \in Edit \cup {None},
         NEW f \in BOOLEAN, NEW i \in BOOLEAN, UpdateRead(w, k, p, f, i)
  PROVE KycInv'
<1> DEFINE s == [Idle EXCEPT !.at = IF f THEN "update" ELSE "rowUpdate",
                             !.kind = kyc[k].kind, !.id = k, !.place = p,
                             !.old = kyc[k].file, !.address = kyc[k].address,
                             !.withFile = f, !.withPii = i]
<1>1. /\ k \in DOMAIN kyc /\ req[w] = Idle /\ Continue(w, s)
      /\ UNCHANGED <<address, kyc, filed, pii, bucket, uploads, moves, stamp, hurt>>
  BY DEF UpdateRead, Exists, Start, history
<1>2. /\ kyc[k] \in RowType /\ k \in 1 .. filed /\ k \in Nat
      /\ kyc[k].address \in 1 .. Len(address)
      /\ kyc[k].file \in 1 .. uploads \cup {None}
  BY <1>1 DEF KycInv, TypeInv, KycId
<1>3. /\ s \in RequestType /\ s.at = (IF f THEN "update" ELSE "rowUpdate")
      /\ s.id = k /\ s.place = p /\ s.old = kyc[k].file /\ s.address = kyc[k].address
      /\ s.withFile = f /\ s.new = None
  <2>1. PICK at, kd, ad, fl : /\ at = (IF f THEN "update" ELSE "rowUpdate")
                              /\ kd = kyc[k].kind /\ ad = kyc[k].address /\ fl = kyc[k].file
    OBVIOUS
  <2>2. kd \in Kind /\ ad \in Nat /\ fl \in Nat \cup {None} /\ at \in Stage
    BY <1>2, <2>1 DEF RowType, Stage
  <2>3. s = [Idle EXCEPT !.at = at, !.kind = kd, !.id = k, !.place = p, !.old = fl,
                         !.address = ad, !.withFile = f, !.withPii = i]
    BY <2>1
  <2> HIDE DEF s
  <2>4. s = [at |-> at, kind |-> kd, user |-> None, by |-> "USER", place |-> p,
             base |-> None, id |-> k, address |-> ad, old |-> fl, new |-> None,
             withFile |-> f, withPii |-> i, todo |-> {}, read |-> 0, seen |-> 0, before |-> 0]
    BY <2>3 DEF Idle
  <2>5. s \in RequestType
    BY <1>2, <2>2, <2>4, NoneApart DEF RequestType
  <2> QED BY <2>1, <2>4, <2>5
<1> HIDE DEF s
<1>4. RequestOK(s) /\ ~IsFiling(s) /\ s.at \notin {"idle", "address", "look", "place", "consents"}
  BY <1>2, <1>3 DEF RequestOK, IsFiling
<1>5. OldOf(s)
  BY <1>1, <1>3 DEF OldOf, KycInv, OneKyc
<1>6. Carries(s)
  BY <1>4, <1>5 DEF Carries, AddressFree, NotFiled, OwnKyc
<1>7. ~Pending(s) /\ (\A v \in Worker : Pending(req[v]) => s.old # req[v].new)
      /\ req[w].at = "idle"
  BY <1>1, <1>3 DEF Pending, Idle, KycInv, Fresh
<1> QED BY <1>1, <1>3, <1>6, <1>7, MoveOn

LEMMA VerifyReadKeeps ==
  ASSUME KycInv, NEW w \in Worker, NEW k \in KycId, NEW by \in {"ROOT", "USER", "EMPLOYEE"},
         VerifyRead(w, k, by)
  PROVE KycInv'
<1> DEFINE s == [Idle EXCEPT !.at = "verify", !.kind = kyc[k].kind, !.id = k, !.by = by]
<1>1. /\ k \in DOMAIN kyc /\ req[w] = Idle /\ Continue(w, s)
      /\ UNCHANGED <<address, kyc, filed, pii, bucket, uploads, moves, stamp, hurt>>
  BY DEF VerifyRead, Exists, Start, history
<1>2. kyc[k] \in RowType /\ k \in 1 .. filed /\ k \in Nat
  BY <1>1 DEF KycInv, TypeInv, KycId
<1>3. s \in RequestType /\ s.at = "verify" /\ s.id = k /\ s.old = None /\ s.new = None
  BY <1>2 DEF Idle, RequestType, Stage, RowType
<1> HIDE DEF s
<1>4. Carries(s)
  BY <1>2, <1>3 DEF Carries, RequestOK, IsFiling, AddressFree, NotFiled, OwnKyc, OldOf
<1>5. ~Pending(s) /\ (\A v \in Worker : Pending(req[v]) => s.old # req[v].new)
      /\ req[w].at = "idle"
  BY <1>1, <1>3 DEF Pending, Idle
<1> QED BY <1>1, <1>3, <1>4, <1>5, MoveOn

LEMMA DeleteReadKeeps ==
  ASSUME KycInv, NEW w \in Worker, NEW k \in KycId, DeleteRead(w, k)
  PROVE KycInv'
<1> DEFINE s == [Idle EXCEPT !.at = "delete", !.kind = kyc[k].kind, !.id = k]
<1>1. /\ k \in DOMAIN kyc /\ req[w] = Idle /\ Continue(w, s)
      /\ UNCHANGED <<address, kyc, filed, pii, bucket, uploads, moves, stamp, hurt>>
  BY DEF DeleteRead, Exists, Start, history
<1>2. kyc[k] \in RowType /\ k \in 1 .. filed /\ k \in Nat
  BY <1>1 DEF KycInv, TypeInv, KycId
<1>3. s \in RequestType /\ s.at = "delete" /\ s.id = k /\ s.old = None /\ s.new = None
  BY <1>2 DEF Idle, RequestType, Stage, RowType
<1> HIDE DEF s
<1>4. Carries(s)
  BY <1>2, <1>3 DEF Carries, RequestOK, IsFiling, AddressFree, NotFiled, OwnKyc, OldOf
<1>5. ~Pending(s) /\ (\A v \in Worker : Pending(req[v]) => s.old # req[v].new)
      /\ req[w].at = "idle"
  BY <1>1, <1>3 DEF Pending, Idle
<1> QED BY <1>1, <1>3, <1>4, <1>5, MoveOn

(* Both look-ups of an address note the moment they looked.                *)
LEMMA FindAddressKeeps ==
  ASSUME KycInv, NEW w \in Worker, FindAddress(w) \/ FindOtherAddress(w)
  PROVE KycInv'
<1> DEFINE r == req[w]
<1>1. PICK at \in {"address", "place"} :
        /\ Continue(w, [r EXCEPT !.at = at, !.seen = moves])
        /\ at = "address" => r.at = "create" /\ ~Taken(r.place, 0)
        /\ at = "place" => r.at = "look" /\ ~Taken(Merge(r.place, r.base), r.address)
        /\ UNCHANGED <<address, kyc, filed, pii, bucket, uploads, moves, stamp, hurt>>
  BY DEF FindAddress, FindOtherAddress, history
<1> DEFINE s == [r EXCEPT !.at = at, !.seen = moves]
<1>2. /\ TypeInv /\ r \in RequestType /\ Carries(r) /\ moves \in Nat
      /\ address \in Seq(Place) /\ at \in {"address", "place"}
  BY <1>1 DEF KycInv, TypeInv
<1>3. /\ s \in RequestType /\ s.at = at /\ s.seen = moves /\ s.address = r.address
      /\ s.place = r.place /\ s.kind = r.kind /\ s.user = r.user /\ s.old = r.old
      /\ s.new = r.new /\ s.id = r.id /\ s.before = r.before /\ s.todo = r.todo
      /\ s.base = r.base /\ s.read = r.read
  <2>1. s.at = at /\ s.seen = moves
    BY <1>2 DEF RequestType
  <2>2. /\ s.address = r.address
        /\ s.place = r.place /\ s.kind = r.kind /\ s.user = r.user /\ s.old = r.old
        /\ s.new = r.new /\ s.id = r.id /\ s.before = r.before /\ s.todo = r.todo
        /\ s.base = r.base /\ s.read = r.read
    BY <1>2 DEF RequestType
  <2>3. at \in Stage
    BY <1>2 DEF Stage
  <2>4. s \in RequestType
    BY <1>2, <2>3 DEF RequestType
  <2> QED BY <2>1, <2>2, <2>4
<1> HIDE DEF s
<1>4. RequestOK(s)
  BY <1>1, <1>2, <1>3 DEF Carries, RequestOK, IsFiling
<1>5. \A a \in 1 .. Len(address) : a # r.address => address[a] # Sought(s)
  BY <1>1, <1>2, <1>3, NoneApart DEF Taken, Sought
<1>6. AddressFree(s)
  <2>1. at = "place" => /\ r.read <= moves
                        /\ address[r.address] = r.base \/ r.read < stamp[r.address].written
    BY <1>1, <1>2 DEF Carries, AddressFree
  <2> QED BY <1>2, <1>3, <1>5, <2>1 DEF AddressFree
<1>7. NotFiled(s) /\ OwnKyc(s) /\ OldOf(s)
  BY <1>1, <1>2, <1>3 DEF Carries, NotFiled, IsFiling, OwnKyc, OldOf
<1>8. Carries(s)
  BY <1>4, <1>6, <1>7 DEF Carries
<1>9. ~Pending(s) /\ (\A v \in Worker : Pending(req[v]) => s.old # req[v].new)
  BY <1>3 DEF Pending, KycInv, Fresh
<1>10. r.at \notin {"upload", "rowUpdate"} /\ Continue(w, s)
  BY <1>1 DEF s
<1> QED BY <1>1, <1>3, <1>8, <1>9, <1>10, MoveOn

(* A request goes on to the next stage and carries what it carried.        *)
LEMMA Moved ==
  ASSUME NEW r \in RequestType, NEW next \in Stage, NEW s, s = [r EXCEPT !.at = next]
  PROVE /\ s \in RequestType /\ s.at = next /\ s.kind = r.kind /\ s.user = r.user
        /\ s.place = r.place /\ s.id = r.id /\ s.address = r.address
        /\ s.old = r.old /\ s.new = r.new /\ s.withFile = r.withFile
        /\ s.todo = r.todo /\ s.seen = r.seen /\ s.before = r.before
        /\ s.base = r.base /\ s.read = r.read
<1>1. s \in RequestType
  BY DEF RequestType
<1> QED BY <1>1 DEF RequestType

(* The row of the address is read before another one is looked for.        *)
LEMMA ReadAddressKeeps ==
  ASSUME KycInv, NEW w \in Worker, ReadAddress(w)
  PROVE KycInv'
<1>0. PICK r, base, s : /\ r = req[w] /\ base = address[r.address]
                        /\ s = [r EXCEPT !.at = "look", !.base = base, !.read = moves]
  OBVIOUS
<1>1. /\ r.at = "move" /\ Continue(w, s)
      /\ UNCHANGED <<address, kyc, filed, pii, bucket, uploads, moves, stamp, hurt>>
  BY <1>0 DEF ReadAddress, history
<1>2. /\ TypeInv /\ r \in RequestType /\ Carries(r) /\ moves \in Nat /\ "look" \in Stage
      /\ address \in Seq(Place) /\ r.address \in 1 .. Len(address)
  BY <1>0, <1>1 DEF KycInv, TypeInv, Carries, RequestOK, Stage
<1>3. base \in Place
  BY <1>0, <1>2
<1>4. /\ s \in RequestType /\ s.at = "look" /\ s.base = base /\ s.read = moves
      /\ s.address = r.address /\ s.place = r.place /\ s.id = r.id
      /\ s.old = r.old /\ s.new = r.new /\ s.withFile = r.withFile
  <2> DEFINE m == [r EXCEPT !.at = "look"]
             k == [m EXCEPT !.base = base]
  <2>1. s = [k EXCEPT !.read = moves]
    BY <1>0
  <2> HIDE DEF k
  <2>2. m \in RequestType
    BY <1>2, Moved
  <2> HIDE DEF m
  <2>3. k \in RequestType
    BY <1>3, <2>2 DEF RequestType, k
  <2>5. s \in RequestType
    BY <1>2, <2>1, <2>3 DEF RequestType
  <2> QED BY <1>0, <1>2, <2>5 DEF RequestType
<1>5. RequestOK(s)
  BY <1>1, <1>2, <1>3, <1>4 DEF Carries, RequestOK, IsFiling
<1>6. AddressFree(s) /\ NotFiled(s) /\ OwnKyc(s) /\ OldOf(s)
  BY <1>0, <1>1, <1>2, <1>4 DEF Carries, AddressFree, NotFiled, IsFiling, OwnKyc, OldOf
<1>7. ~Pending(s) /\ (\A v \in Worker : Pending(req[v]) => s.old # req[v].new)
  BY <1>0, <1>4 DEF Pending, KycInv, Fresh
<1> QED BY <1>0, <1>1, <1>4, <1>5, <1>6, <1>7, MoveOn DEF Carries

-----------------------------------------------------------------------------
(* The documents. *)

LEMMA Loaded ==
  ASSUME NEW r \in RequestType, NEW n \in Nat, NEW s,
         s = [r EXCEPT !.new = n] \/ s = [r EXCEPT !.id = n]
  PROVE s \in RequestType
  BY DEF RequestType

(* Nothing was uploaded: none was asked for, or it failed.                 *)
LEMMA NoUploadKeeps ==
  ASSUME KycInv, NEW w \in Worker, NEW r, r = req[w], NEW next,
         \/ r.at = "documents" /\ next = "row"
         \/ r.at = "upload" /\ next = "rowUpdate",
         Continue(w, [r EXCEPT !.at = next]),
         UNCHANGED <<address, kyc, filed, pii, bucket, uploads, moves, stamp, hurt>>
  PROVE KycInv'
<1>1. PICK s : s = [r EXCEPT !.at = next]
  OBVIOUS
<1>2. r \in RequestType /\ Carries(r) /\ next \in Stage
  BY DEF KycInv, TypeInv, Stage
<1>3. /\ s \in RequestType /\ s.at = next /\ s.kind = r.kind /\ s.user = r.user
      /\ s.id = r.id /\ s.address = r.address /\ s.old = r.old /\ s.new = r.new
      /\ s.withFile = r.withFile /\ s.before = r.before /\ s.todo = r.todo
  BY <1>1, <1>2, Moved
<1>4. RequestOK(s) /\ s.new = None
  BY <1>2, <1>3 DEF Carries, RequestOK, IsFiling
<1>5. AddressFree(s) /\ NotFiled(s) /\ OwnKyc(s) /\ OldOf(s)
  BY <1>2, <1>3 DEF Carries, AddressFree, NotFiled, IsFiling, OwnKyc, OldOf
<1>6. ~Pending(s) /\ (\A v \in Worker : Pending(req[v]) => s.old # req[v].new)
  BY <1>3, <1>4 DEF Pending, KycInv, Fresh
<1> QED BY <1>1, <1>3, <1>4, <1>5, <1>6, MoveOn DEF Carries

(* An object under a new key: no row, and no other request, knows of it.   *)
LEMMA UploadedKeeps ==
  ASSUME KycInv, NEW w \in Worker, NEW r, r = req[w], NEW next,
         \/ r.at = "documents" /\ next = "row"
         \/ r.at = "upload" /\ next = "rowUpdate",
         uploads' = uploads + 1, bucket' = bucket \cup {uploads + 1},
         Continue(w, [r EXCEPT !.at = next, !.new = uploads + 1]),
         UNCHANGED <<address, kyc, filed, pii, moves, stamp, hurt>>
  PROVE KycInv'
<1>1. PICK s : s = [r EXCEPT !.at = next, !.new = uploads + 1]
  OBVIOUS
<1>2. /\ TypeInv /\ r \in RequestType /\ Carries(r) /\ next \in Stage /\ uploads \in Nat
      /\ \A v \in Worker : Carries(req[v]) /\ Fresh(v)
  BY DEF KycInv, TypeInv, Stage
<1>3. /\ s \in RequestType /\ s.at = next /\ s.kind = r.kind /\ s.user = r.user
      /\ s.id = r.id /\ s.address = r.address /\ s.old = r.old /\ s.new = uploads + 1
      /\ s.withFile = r.withFile /\ s.before = r.before /\ s.todo = r.todo
  <2>1. PICK n, m : n = uploads + 1 /\ m = [r EXCEPT !.at = next]
    OBVIOUS
  <2>2. s \in RequestType
    <3>1. m \in RequestType /\ n \in Nat
      BY <1>2, <2>1, Moved
    <3>2. s = [m EXCEPT !.new = n]
      BY <1>1, <1>2, <2>1 DEF RequestType
    <3> QED BY <3>1, <3>2, Loaded
  <2> QED BY <1>1, <1>2, <2>2 DEF RequestType
<1>4. /\ req' \in [Worker -> RequestType] /\ req'[w] = s
      /\ \A v \in Worker : v # w => req'[v] = req[v]
  BY <1>1, <1>2, <1>3, Continued
<1>5. 1 .. uploads \subseteq 1 .. uploads' /\ uploads + 1 \in 1 .. uploads'
      /\ uploads + 1 \notin 1 .. uploads /\ uploads' \in Nat
  BY <1>2
<1>6. TypeInv'
  BY <1>2, <1>4, <1>5 DEF TypeInv
<1>7. RequestOK(s)'
  BY <1>2, <1>3, <1>5 DEF Carries, RequestOK, IsFiling
<1>8. AddressFree(s) /\ NotFiled(s) /\ OwnKyc(s) /\ OldOf(s)
  BY <1>2, <1>3 DEF Carries, AddressFree, NotFiled, IsFiling, OwnKyc, OldOf
<1>9. \A v \in Worker : v # w => RequestOK(req[v])'
  <2>1. ASSUME NEW v \in Worker, v # w PROVE RequestOK(req[v])'
    <3>1. RequestOK(req[v]) /\ req'[v] = req[v]
      BY <1>2, <1>4, <2>1 DEF Carries
    <3> QED BY <1>5, <3>1 DEF RequestOK, IsFiling
  <2> QED BY <2>1
<1>10. \A v \in Worker : RequestOK(req[v])'
  BY <1>4, <1>7, <1>9 DEF RequestOK, IsFiling
<1>11. \A v \in Worker : /\ AddressFree(req'[v]) /\ NotFiled(req'[v])
                         /\ OwnKyc(req'[v]) /\ OldOf(req'[v])
  BY <1>2, <1>4, <1>8 DEF Carries
<1>12. \A v \in Worker : Carries(req[v])'
  BY <1>10, <1>11 DEF Carries, AddressFree, NotFiled, OwnKyc, OldOf, IsFiling, Exists
<1>13. StampInv' /\ ConsentOfItsKyc' /\ OneKyc'
  BY DEF KycInv, StampInv, AddressTwiceOnlyByRace, ConsentOfItsKyc, OneKyc, Exists
<1>14. /\ \A k \in DOMAIN kyc : kyc[k].file # uploads + 1
       /\ \A v \in Worker : req[v].old # uploads + 1 /\ req[v].new # uploads + 1
  <2>1. None # uploads + 1
    BY <1>2, NoneApart
  <2>2. \A k \in DOMAIN kyc : kyc[k].file # uploads + 1
    BY <1>2, <1>5, <2>1 DEF TypeInv
  <2>3. ASSUME NEW v \in Worker PROVE req[v].old # uploads + 1 /\ req[v].new # uploads + 1
    <3>1. RequestOK(req[v])
      BY <1>2 DEF Carries
    <3> QED BY <1>5, <2>1, <3>1 DEF RequestOK
  <2> QED BY <2>2, <2>3
<1>15. ASSUME NEW v \in Worker PROVE Fresh(v)'
  <2>1. CASE v = w
    BY <1>3, <1>4, <1>14, <2>1 DEF Fresh
  <2>2. CASE v # w
    <3>1. Fresh(v) /\ req'[v] = req[v]
      BY <1>2, <1>4, <2>2
    <3>2. \A u \in Worker : req'[u].old = req[u].old
      BY <1>3, <1>4
    <3>3. \A u \in Worker : u # v /\ Pending(req'[u]) /\ Pending(req[v]) =>
            req'[u].new # req[v].new
      BY <1>3, <1>4, <1>14, <3>1 DEF Fresh
    <3> QED BY <3>1, <3>2, <3>3 DEF Fresh, Pending
  <2> QED BY <2>1, <2>2
<1>16. DocumentInv'
  <2>1. ASSUME NEW k \in DOMAIN kyc, Replacing(k) PROVE Replacing(k)'
    <3>1. PICK v \in Worker : /\ req[v].id = k /\ req[v].old = kyc[k].file
                              /\ req[v].withFile /\ req[v].at \in {"upload", "rowUpdate"}
      BY <2>1 DEF Replacing
    <3> QED BY <1>3, <1>4, <2>1, <3>1 DEF Replacing
  <2> QED BY <2>1 DEF DocumentInv, KycInv
<1> QED BY <1>6, <1>12, <1>13, <1>15, <1>16 DEF KycInv

LEMMA UploadKeeps ==
  ASSUME KycInv, NEW w \in Worker, SafeUpload(w) \/ UploadNew(w)
  PROVE KycInv'
<1>1. PICK next : /\ \/ req[w].at = "documents" /\ next = "row"
                     \/ req[w].at = "upload" /\ next = "rowUpdate"
                  /\ Upload(w, next) \/ NoUpload(w, next)
                  /\ UNCHANGED <<address, kyc, filed, pii, moves, stamp, hurt>>
  BY DEF SafeUpload, UploadNew, history
<1>2. CASE /\ Continue(w, [req[w] EXCEPT !.at = next])
           /\ UNCHANGED <<uploads, bucket>>
  BY <1>1, <1>2, NoUploadKeeps
<1>3. CASE /\ uploads' = uploads + 1 /\ bucket' = bucket \cup {uploads + 1}
           /\ Continue(w, [req[w] EXCEPT !.at = next, !.new = uploads + 1])
  BY <1>1, <1>3, UploadedKeeps
<1> QED BY <1>1, <1>2, <1>3 DEF Upload, NoUpload

(* The old document goes: only the KYC that is updated names it.           *)
LEMMA DeleteOldKeeps ==
  ASSUME KycInv, NEW w \in Worker, DeleteOld(w)
  PROVE KycInv'
<1> DEFINE r == req[w]
<1>0. PICK s : s = [r EXCEPT !.at = "upload"]
  OBVIOUS
<1>1. /\ r.at = "update" /\ Continue(w, s)
      /\ bucket' \subseteq bucket /\ bucket \ bucket' \subseteq {r.old}
      /\ UNCHANGED <<address, kyc, filed, pii, uploads, moves, stamp, hurt>>
  BY <1>0 DEF DeleteOld, history
<1>2. /\ TypeInv /\ r \in RequestType /\ Carries(r) /\ "upload" \in Stage
      /\ \A v \in Worker : Carries(req[v]) /\ Fresh(v)
  BY DEF KycInv, TypeInv, Stage
<1>3. /\ s \in RequestType /\ s.at = "upload" /\ s.id = r.id /\ s.address = r.address
      /\ s.old = r.old /\ s.new = r.new /\ s.withFile = r.withFile
  BY <1>0, <1>2, Moved
<1>4. /\ req' \in [Worker -> RequestType] /\ req'[w] = s
      /\ \A v \in Worker : v # w => req'[v] = req[v]
  BY <1>1, <1>2, <1>3, Continued
<1>5. TypeInv'
  BY <1>1, <1>2, <1>4 DEF TypeInv
<1>6. Carries(s) /\ ~Pending(s) /\ s.withFile
  BY <1>1, <1>2, <1>3 DEF Carries, RequestOK, AddressFree, NotFiled, IsFiling, OwnKyc, OldOf, Pending
<1>7. \A v \in Worker : Carries(req'[v])
  BY <1>2, <1>4, <1>6
<1>8. \A v \in Worker : Carries(req[v])'
  BY <1>1, <1>7
     DEF Carries, RequestOK, AddressFree, Sought, NotFiled, OwnKyc, OldOf, IsFiling, Exists
<1>9. StampInv' /\ ConsentOfItsKyc' /\ OneKyc'
  BY <1>1 DEF KycInv, StampInv, AddressTwiceOnlyByRace, ConsentOfItsKyc, OneKyc, Exists
<1>10. ASSUME NEW v \in Worker PROVE Fresh(v)'
  <2>1. Pending(req'[v]) => Pending(req[v]) /\ req'[v].new = req[v].new
    BY <1>4, <1>6
  <2>2. \A u \in Worker : /\ req'[u].old = req[u].old /\ req'[u].new = req[u].new
                          /\ Pending(req'[u]) => Pending(req[u])
    BY <1>3, <1>4, <1>6
  <2> QED BY <1>1, <1>2, <2>1, <2>2 DEF Fresh, Pending
<1>11. DocumentInv'
  <2>1. ASSUME NEW k \in DOMAIN kyc, Replacing(k) PROVE Replacing(k)'
    <3>1. PICK v \in Worker : /\ req[v].id = k /\ req[v].old = kyc[k].file
                              /\ req[v].withFile /\ req[v].at \in {"upload", "rowUpdate"}
      BY <2>1 DEF Replacing
    <3> QED BY <1>1, <1>3, <1>4, <2>1, <3>1 DEF Replacing
  <2>2. ASSUME NEW k \in DOMAIN kyc, kyc[k].file \in bucket \ bucket' PROVE Replacing(k)'
    <3>1. kyc[k].file = r.old /\ r.old # None /\ r.id = k
      <4>1. kyc[k].file = r.old /\ r.old # None
        BY <1>1, <1>2, <2>2, NoneApart DEF TypeInv
      <4> QED BY <1>2, <2>2, <4>1 DEF Carries, OldOf
    <3> QED BY <1>1, <1>3, <1>4, <1>6, <3>1 DEF Replacing
  <2> QED BY <1>1, <2>1, <2>2 DEF DocumentInv, KycInv
<1> QED BY <1>5, <1>8, <1>9, <1>10, <1>11 DEF KycInv

-----------------------------------------------------------------------------
(* The rows. *)

(* A request adds, changes or deletes the row K, and no other; a file that *)
(* it names there is the one it uploaded.                                  *)
RowStep(K, r) ==
  /\ \A k \in DOMAIN kyc' : k # K => k \in DOMAIN kyc /\ kyc'[k] = kyc[k]
  /\ K \in DOMAIN kyc' =>
       /\ \/ K \in DOMAIN kyc /\ kyc'[K].file = kyc[K].file
          \/ kyc'[K].file = None
          \/ kyc'[K].file = r.new /\ Pending(r)
       /\ \/ K \in DOMAIN kyc /\ kyc'[K].user = kyc[K].user /\ kyc'[K].kind = kyc[K].kind
          \/ K = filed + 1
  /\ r.at # "upload"
  /\ r.at = "rowUpdate" /\ r.withFile =>
       r.id = K /\ (K \in DOMAIN kyc' => K \in hurt' \/ kyc'[K].file \in bucket)

LEMMA RowWritten ==
  ASSUME KycInv, NEW w \in Worker, NEW K, NEW r, r = req[w], RowStep(K, r),
         NEW s \in RequestType, Continue(w, s), ~Pending(s), s.old \in {r.old, None},
         RequestOK(s)', AddressFree(s), ~IsFiling(s),
         OwnKyc(s)', s.id = r.id \/ s.old = None,
         TypeInv', ConsentOfItsKyc', filed <= filed', hurt \subseteq hurt',
         UNCHANGED <<address, stamp, moves, bucket, uploads>>
  PROVE KycInv'
<1>1. /\ TypeInv /\ \A v \in Worker : Carries(req[v]) /\ Fresh(v)
  BY DEF KycInv
<1>2. /\ req' \in [Worker -> RequestType] /\ req'[w] = s
      /\ \A v \in Worker : v # w => req'[v] = req[v]
  BY <1>1, Continued
<1>3. filed \in Nat /\ filed' \in Nat /\ DOMAIN kyc \subseteq 1 .. filed /\ uploads \in Nat
  BY <1>1 DEF TypeInv
<1>4. StampInv'
  BY DEF KycInv, StampInv, AddressTwiceOnlyByRace
<1>5. Pending(r) => /\ r.new \in bucket /\ r.new # None
                    /\ \A k \in DOMAIN kyc : kyc[k].file # r.new
                    /\ \A v \in Worker : req[v].old # r.new
                    /\ \A v \in Worker : v # w /\ Pending(req[v]) => req[v].new # r.new
  BY <1>1 DEF Fresh, Pending
<1>6. OneKyc'
  BY <1>5 DEF KycInv, OneKyc, RowStep
<1>7. ASSUME NEW q, OldOf(q), Pending(r) => q.old # r.new PROVE OldOf(q)'
  BY <1>7 DEF OldOf, RowStep
<1>8. ASSUME NEW v \in Worker, v # w PROVE Carries(req[v])'
  <2>1. Carries(req[v]) /\ req'[v] = req[v]
    BY <1>1, <1>2, <1>8
  <2>2. RequestOK(req[v]) /\ AddressFree(req[v]) /\ NotFiled(req[v]) /\ OwnKyc(req[v])
        /\ OldOf(req[v])
    BY <2>1 DEF Carries
  <2>3. PICK q : q = req[v]
    OBVIOUS
  <2>4. RequestOK(q)'
    BY <1>1, <1>3, <2>2, <2>3, RequestKept DEF TypeInv
  <2>5. AddressFree(q)'
    BY <2>2, <2>3 DEF AddressFree
  <2>6. NotFiled(q)'
    <3> SUFFICES ASSUME IsFiling(q)
                 PROVE /\ q.before <= filed'
                       /\ \A k \in DOMAIN kyc' :
                            kyc'[k].kind = q.kind /\ kyc'[k].user = q.user => q.before < k
      BY DEF NotFiled, IsFiling
    <3>1. q.before <= filed /\ q.before \in Nat
      BY <1>1, <2>2, <2>3 DEF NotFiled, TypeInv, RequestType
    <3>2. ASSUME NEW k \in DOMAIN kyc', kyc'[k].kind = q.kind, kyc'[k].user = q.user
          PROVE q.before < k
      <4>1. CASE k = filed + 1
        BY <1>3, <3>1, <4>1
      <4>2. CASE k # filed + 1
        <5>1. k \in DOMAIN kyc /\ kyc[k].kind = q.kind /\ kyc[k].user = q.user
          BY <3>2, <4>2 DEF RowStep
        <5> QED BY <2>2, <2>3, <5>1 DEF NotFiled
      <4> QED BY <4>1, <4>2
    <3> QED BY <1>3, <3>1, <3>2
  <2>7. OwnKyc(q)'
    <3> SUFFICES ASSUME q.at = "consents", q.id \in DOMAIN kyc'
                 PROVE kyc'[q.id].user = q.user /\ kyc'[q.id].kind = q.kind
      BY DEF OwnKyc, Exists
    <3>1. q.id \in 1 .. filed
      BY <2>2, <2>3 DEF RequestOK
    <3>2. q.id # filed + 1
      BY <1>3, <3>1
    <3>3. /\ q.id \in DOMAIN kyc /\ kyc'[q.id].user = kyc[q.id].user
          /\ kyc'[q.id].kind = kyc[q.id].kind
      BY <3>2 DEF RowStep
    <3> QED BY <2>2, <2>3, <3>3 DEF OwnKyc, Exists
  <2>8. OldOf(q)'
    BY <1>5, <1>7, <2>2, <2>3
  <2>9. Carries(q)'
    BY <2>4, <2>5, <2>6, <2>7, <2>8 DEF Carries
  <2> QED BY <2>1, <2>3, <2>9
       DEF Carries, RequestOK, AddressFree, Sought, NotFiled, OwnKyc, OldOf, IsFiling, Exists
<1>9. Carries(s)'
  <2>1. AddressFree(s)' /\ NotFiled(s)'
    BY DEF AddressFree, NotFiled, IsFiling
  <2>2. OldOf(s)
    BY <1>1 DEF Carries, OldOf
  <2>3. OldOf(s)'
    BY <1>5, <1>7, <2>2
  <2> QED BY <2>1, <2>3 DEF Carries
<1>10. \A v \in Worker : Carries(req[v])'
  BY <1>2, <1>8, <1>9
     DEF Carries, RequestOK, AddressFree, Sought, NotFiled, OwnKyc, OldOf, IsFiling, Exists
<1>11. ASSUME NEW v \in Worker PROVE Fresh(v)'
  <2>1. Pending(req'[v]) => v # w /\ req'[v] = req[v]
    BY <1>2
  <2>2. \A u \in Worker : Pending(req[v]) => req'[u].old # req[v].new
    BY <1>1, <1>2 DEF Fresh, Pending
  <2>3. \A u \in Worker : Pending(req'[u]) => Pending(req[u]) /\ req'[u].new = req[u].new
    BY <1>2
  <2>4. v # w /\ Pending(req[v]) => \A k \in DOMAIN kyc' : kyc'[k].file # req[v].new
    BY <1>1, <1>5 DEF Fresh, RowStep, Pending
  <2> QED BY <1>1, <2>1, <2>2, <2>3, <2>4 DEF Fresh, Pending
<1>12. DocumentInv'
  <2> SUFFICES ASSUME NEW k \in DOMAIN kyc'
               PROVE kyc'[k].file \in bucket' \cup {None} \/ k \in hurt' \/ Replacing(k)'
    BY DEF DocumentInv
  <2>1. CASE k \in DOMAIN kyc /\ kyc'[k].file = kyc[k].file
    <3>1. kyc[k].file \in bucket \cup {None} \/ k \in hurt \/ Replacing(k)
      BY <2>1 DEF KycInv, DocumentInv
    <3>2. CASE Replacing(k)
      <4>1. PICK v \in Worker : /\ req[v].id = k /\ req[v].old = kyc[k].file
                                /\ req[v].withFile /\ req[v].at \in {"upload", "rowUpdate"}
        BY <3>2 DEF Replacing
      <4>2. CASE v = w
        BY <2>1, <4>1, <4>2 DEF RowStep
      <4>3. CASE v # w
        BY <1>2, <2>1, <4>1, <4>3 DEF Replacing
      <4> QED BY <4>2, <4>3
    <3> QED BY <2>1, <3>1, <3>2
  <2>2. CASE ~(k \in DOMAIN kyc /\ kyc'[k].file = kyc[k].file)
    BY <1>5, <2>2 DEF RowStep
  <2> QED BY <2>1, <2>2
<1> QED BY <1>4, <1>6, <1>10, <1>11, <1>12 DEF KycInv

LEMMA InsertKycKeeps ==
  ASSUME KycInv, NEW w \in Worker, InsertKyc(w)
  PROVE KycInv'
<1>0. PICK r, k, row, s :
        /\ r = req[w] /\ k = filed + 1
        /\ row = [kind |-> r.kind, user |-> r.user, address |-> r.address, file |-> r.new,
                  status |-> "PENDING", verifiedAt |-> FALSE]
        /\ s = [r EXCEPT !.at = "consents", !.id = k]
  OBVIOUS
<1>1. /\ r.at = "row" /\ filed' = k /\ Continue(w, s)
      /\ kyc' = [j \in DOMAIN kyc \cup {k} |-> IF j # k THEN kyc[j] ELSE row]
      /\ UNCHANGED <<address, pii, bucket, uploads, moves, stamp, hurt>>
  BY <1>0 DEF InsertKyc, history
<1>2. /\ TypeInv /\ r \in RequestType /\ RequestOK(r) /\ ConsentOfItsKyc
      /\ k \in Nat /\ filed \in Nat /\ filed <= filed'
  BY <1>0, <1>1 DEF KycInv, Carries, TypeInv
<1>3. /\ r.kind \in Kind /\ r.user \in User /\ r.address \in 1 .. Len(address)
      /\ r.new \in 1 .. uploads \cup {None} /\ r.old \in 1 .. uploads \cup {None}
      /\ r.address \in Nat /\ r.new \in Nat \cup {None} /\ r.todo # {}
  BY <1>1, <1>2 DEF RequestOK, IsFiling, RequestType
<1>4. /\ row \in RowType /\ row.kind = r.kind /\ row.user = r.user
      /\ row.address = r.address /\ row.file = r.new
  BY <1>0, <1>3 DEF RowType
<1>5. /\ s \in RequestType /\ s.at = "consents" /\ s.id = k /\ s.kind = r.kind
      /\ s.user = r.user /\ s.old = r.old /\ s.new = r.new /\ s.todo = r.todo
  <2>1. k \in Nat /\ "consents" \in Stage
    BY <1>2 DEF Stage
  <2>2. s \in RequestType
    <3>1. PICK m : m = [r EXCEPT !.at = "consents"]
      OBVIOUS
    <3>2. m \in RequestType
      BY <1>2, <2>1, <3>1, Moved
    <3>3. s = [m EXCEPT !.id = k]
      BY <1>0, <1>2, <3>1 DEF RequestType
    <3> QED BY <2>1, <3>2, <3>3, Loaded
  <2> QED BY <1>0, <1>2, <2>2 DEF RequestType
<1>6. /\ DOMAIN kyc' = DOMAIN kyc \cup {k} /\ k \notin DOMAIN kyc
      /\ \A j \in DOMAIN kyc : kyc'[j] = kyc[j]
      /\ kyc'[k] = row
  BY <1>0, <1>1, <1>2 DEF TypeInv
<1>7. TypeInv'
  <2>1. DOMAIN kyc' \subseteq 1 .. filed'
    BY <1>0, <1>1, <1>2, <1>6 DEF TypeInv
  <2>2. kyc' \in [DOMAIN kyc' -> RowType]
    <3>1. \A j \in DOMAIN kyc \cup {k} : (IF j # k THEN kyc[j] ELSE row) \in RowType
      BY <1>2, <1>4 DEF TypeInv
    <3>2. kyc' \in [DOMAIN kyc \cup {k} -> RowType]
      BY <1>1, <3>1
    <3> QED BY <1>6, <3>2
  <2>3. \A j \in DOMAIN kyc' : /\ kyc'[j].address \in 1 .. Len(address)
                               /\ kyc'[j].file \in 1 .. uploads \cup {None}
    BY <1>2, <1>3, <1>4, <1>6 DEF TypeInv
  <2>4. req' \in [Worker -> RequestType]
    BY <1>1, <1>2, <1>5, Continued
  <2> QED BY <1>1, <1>2, <2>1, <2>2, <2>3, <2>4 DEF TypeInv
<1>8. RequestOK(s)' /\ AddressFree(s) /\ ~IsFiling(s) /\ ~Pending(s)
  <2>1. k \in 1 .. filed'
    BY <1>0, <1>1, <1>2
  <2> QED BY <1>1, <1>3, <1>5, <2>1 DEF RequestOK, AddressFree, IsFiling, Pending
<1>9. OwnKyc(s)'
  BY <1>4, <1>5, <1>6 DEF OwnKyc, Exists
<1>10. ConsentOfItsKyc'
  BY <1>1, <1>2, <1>6 DEF ConsentOfItsKyc, Exists
<1>11. r.old = None /\ r.todo # {}
  BY <1>1, <1>2 DEF RequestOK, IsFiling
<1>12. RowStep(k, r)
  BY <1>0, <1>1, <1>4, <1>6 DEF RowStep, Pending
<1> QED BY <1>0, <1>1, <1>2, <1>5, <1>7, <1>8, <1>9, <1>10, <1>11, <1>12, RowWritten

LEMMA UpdateRowKeeps ==
  ASSUME KycInv, NEW w \in Worker, UpdateRow(w)
  PROVE KycInv'
<1>0. PICK r, next, s : /\ r = req[w]
                        /\ next = IF r.place = None THEN "consent" ELSE "move"
                        /\ s = [r EXCEPT !.at = next]
  OBVIOUS
<1>1. /\ r.at = "rowUpdate" /\ r.id \in DOMAIN kyc /\ Continue(w, s)
      /\ kyc' = IF r.withFile
                THEN [kyc EXCEPT ![r.id].file = NewFile(r.kind, @, r.new)] ELSE kyc
      /\ hurt' = IF r.withFile /\ r.new = None THEN hurt \cup {r.id} ELSE hurt
      /\ UNCHANGED <<address, filed, pii, bucket, uploads, moves, stamp>>
  BY <1>0 DEF UpdateRow, Exists
<1>2. /\ TypeInv /\ r \in RequestType /\ RequestOK(r) /\ ConsentOfItsKyc
      /\ kyc[r.id] \in RowType /\ filed \in Nat /\ filed <= filed'
  BY <1>0, <1>1 DEF KycInv, Carries, TypeInv
<1>3. /\ s \in RequestType /\ s.at = next /\ s.id = r.id /\ s.place = r.place
      /\ s.address = r.address /\ s.old = r.old /\ s.new = r.new
      /\ next \in {"consent", "move"} /\ (next = "move" => r.place # None)
  BY <1>0, <1>2, Moved DEF Stage
<1>4. PICK f : f = NewFile(r.kind, kyc[r.id].file, r.new)
  OBVIOUS
<1>5. /\ f \in {kyc[r.id].file, r.new}
      /\ r.new # None => f = r.new
  BY <1>4 DEF NewFile, UserFile, BusinessFile
<1>6. /\ DOMAIN kyc' = DOMAIN kyc
      /\ \A j \in DOMAIN kyc : j # r.id => kyc'[j] = kyc[j]
      /\ kyc'[r.id] = IF r.withFile THEN [kyc[r.id] EXCEPT !.file = f] ELSE kyc[r.id]
  BY <1>1, <1>2, <1>4 DEF TypeInv
<1>7. /\ kyc'[r.id].user = kyc[r.id].user /\ kyc'[r.id].kind = kyc[r.id].kind
      /\ kyc'[r.id].address = kyc[r.id].address
      /\ kyc'[r.id].file = (IF r.withFile THEN f ELSE kyc[r.id].file)
      /\ kyc'[r.id] \in RowType
  <2>1. f \in Nat \cup {None}
    BY <1>2, <1>5 DEF RowType, RequestType
  <2> QED BY <1>2, <1>6, <2>1 DEF RowType
<1>8. TypeInv'
  <2>1. kyc' \in [DOMAIN kyc' -> RowType]
    <3>1. \A j \in DOMAIN kyc : kyc'[j] \in RowType
      BY <1>2, <1>6, <1>7 DEF TypeInv
    <3>2. kyc' = [j \in DOMAIN kyc |-> kyc'[j]]
      BY <1>1, <1>2 DEF TypeInv
    <3> QED BY <1>6, <3>1, <3>2
  <2>2. \A j \in DOMAIN kyc' : /\ kyc'[j].address \in 1 .. Len(address)
                               /\ kyc'[j].file \in 1 .. uploads \cup {None}
    <3>1. r.new \in 1 .. uploads \cup {None}
      BY <1>2 DEF RequestOK
    <3> QED BY <1>1, <1>2, <1>5, <1>6, <1>7, <3>1 DEF TypeInv
  <2>3. req' \in [Worker -> RequestType]
    BY <1>1, <1>2, <1>3, Continued
  <2> QED BY <1>1, <1>2, <1>6, <2>1, <2>2, <2>3 DEF TypeInv
<1>9. RequestOK(s)' /\ AddressFree(s) /\ ~IsFiling(s) /\ ~Pending(s) /\ OwnKyc(s)'
  <2>1. next = "move" => r.place \in Place \cup Given
    BY <1>2, <1>3 DEF RequestType
  <2> QED BY <1>1, <1>2, <1>3, <2>1 DEF RequestOK, AddressFree, IsFiling, Pending, OwnKyc
<1>10. ConsentOfItsKyc'
  BY <1>1, <1>2, <1>6, <1>7 DEF ConsentOfItsKyc, Exists
<1>11. RowStep(r.id, r)
  <2>1. r.withFile => r.id \in hurt' \/ kyc'[r.id].file \in bucket
    <3>1. Pending(r) => r.new \in bucket
      BY <1>0 DEF KycInv, Fresh
    <3> QED BY <1>1, <1>5, <1>7, <3>1 DEF Pending
  <2>2. \/ kyc'[r.id].file = kyc[r.id].file
        \/ kyc'[r.id].file = None
        \/ kyc'[r.id].file = r.new /\ Pending(r)
    BY <1>1, <1>5, <1>7 DEF Pending
  <2> QED BY <1>1, <1>6, <1>7, <2>1, <2>2 DEF RowStep
<1>12. hurt \subseteq hurt'
  BY <1>1
<1> QED BY <1>0, <1>1, <1>2, <1>3, <1>8, <1>9, <1>10, <1>11, <1>12, RowWritten

LEMMA VerifyWriteKeeps ==
  ASSUME KycInv, NEW w \in Worker, NEW status \in {"PENDING", "VERIFIED", "REJECTED"},
         VerifyWrite(w, status)
  PROVE KycInv'
<1>0. PICK r, s : r = req[w] /\ s = [r EXCEPT !.at = "verified"]
  OBVIOUS
<1>1. /\ r.at = "verify" /\ r.id \in DOMAIN kyc /\ Continue(w, s)
      /\ kyc' = [kyc EXCEPT ![r.id] = Stamp(@, status)]
      /\ UNCHANGED <<address, filed, pii, bucket, uploads, moves, stamp, hurt>>
  BY <1>0 DEF VerifyWrite, Exists, history
<1>2. /\ TypeInv /\ r \in RequestType /\ RequestOK(r) /\ ConsentOfItsKyc
      /\ kyc[r.id] \in RowType /\ filed \in Nat /\ filed <= filed'
  BY <1>0, <1>1 DEF KycInv, Carries, TypeInv
<1>3. /\ s \in RequestType /\ s.at = "verified" /\ s.id = r.id
      /\ s.old = r.old /\ s.new = r.new
  BY <1>0, <1>2, Moved DEF Stage
<1>4. /\ DOMAIN kyc' = DOMAIN kyc
      /\ \A j \in DOMAIN kyc : j # r.id => kyc'[j] = kyc[j]
      /\ kyc'[r.id] = Stamp(kyc[r.id], status)
  BY <1>1, <1>2 DEF TypeInv
<1>5. /\ kyc'[r.id].user = kyc[r.id].user /\ kyc'[r.id].kind = kyc[r.id].kind
      /\ kyc'[r.id].address = kyc[r.id].address /\ kyc'[r.id].file = kyc[r.id].file
      /\ kyc'[r.id] \in RowType
  BY <1>2, <1>4 DEF RowType, Stamp
<1>6. TypeInv'
  <2>1. kyc' \in [DOMAIN kyc' -> RowType]
    <3>1. \A j \in DOMAIN kyc : kyc'[j] \in RowType
      BY <1>2, <1>4, <1>5 DEF TypeInv
    <3>2. kyc' = [j \in DOMAIN kyc |-> kyc'[j]]
      BY <1>1, <1>2 DEF TypeInv
    <3> QED BY <1>4, <3>1, <3>2
  <2>2. \A j \in DOMAIN kyc' : /\ kyc'[j].address \in 1 .. Len(address)
                               /\ kyc'[j].file \in 1 .. uploads \cup {None}
    BY <1>1, <1>2, <1>4, <1>5 DEF TypeInv
  <2>3. req' \in [Worker -> RequestType]
    BY <1>1, <1>2, <1>3, Continued
  <2> QED BY <1>1, <1>2, <1>4, <2>1, <2>2, <2>3 DEF TypeInv
<1>7. RequestOK(s)' /\ AddressFree(s) /\ ~IsFiling(s) /\ ~Pending(s) /\ OwnKyc(s)'
  BY <1>1, <1>2, <1>3 DEF RequestOK, AddressFree, IsFiling, Pending, OwnKyc
<1>8. ConsentOfItsKyc'
  BY <1>1, <1>2, <1>4, <1>5 DEF ConsentOfItsKyc, Exists
<1>9. RowStep(r.id, r)
  BY <1>1, <1>4, <1>5 DEF RowStep
<1> QED BY <1>0, <1>1, <1>2, <1>3, <1>6, <1>7, <1>8, <1>9, RowWritten

(* The consents of a deleted row lose their reference with it.             *)
LEMMA DeleteRowKeeps ==
  ASSUME KycInv, NEW w \in Worker, DeleteRow(w)
  PROVE KycInv'
<1>0. PICK r, s : r = req[w] /\ s = [r EXCEPT !.at = "deleted"]
  OBVIOUS
<1>1. /\ r.at = "delete" /\ r.id \in DOMAIN kyc /\ Continue(w, s)
      /\ kyc' = [k \in DOMAIN kyc \ {r.id} |-> kyc[k]]
      /\ pii' = Detach(pii, r.id)
      /\ UNCHANGED <<address, filed, bucket, uploads, moves, stamp, hurt>>
  BY <1>0 DEF DeleteRow, Exists, history
<1>2. /\ TypeInv /\ r \in RequestType /\ RequestOK(r) /\ ConsentOfItsKyc
      /\ pii \subseteq ConsentType /\ filed \in Nat /\ filed <= filed'
  BY <1>0, <1>1 DEF KycInv, Carries, TypeInv
<1>3. /\ s \in RequestType /\ s.at = "deleted" /\ s.id = r.id
      /\ s.old = r.old /\ s.new = r.new
  BY <1>0, <1>2, Moved DEF Stage
<1>4. /\ DOMAIN kyc' = DOMAIN kyc \ {r.id}
      /\ \A j \in DOMAIN kyc' : j \in DOMAIN kyc /\ kyc'[j] = kyc[j]
  BY <1>1
<1>5. \A c \in pii' : /\ c \in ConsentType
                      /\ c.kyc # None => c \in pii /\ c.kyc # r.id
  <2> SUFFICES ASSUME NEW d \in pii,
                      NEW c, c = IF d.kyc = r.id THEN [d EXCEPT !.kyc = None] ELSE d
               PROVE /\ c \in ConsentType
                     /\ c.kyc # None => c \in pii /\ c.kyc # r.id
    BY <1>1 DEF Detach
  <2>1. CASE d.kyc = r.id
    <3>1. c = [d EXCEPT !.kyc = None] /\ d \in ConsentType
      BY <1>2, <2>1
    <3> QED BY <3>1 DEF ConsentType
  <2>2. CASE d.kyc # r.id
    BY <1>2, <2>2
  <2> QED BY <2>1, <2>2
<1>6. TypeInv'
  <2>1. kyc' \in [DOMAIN kyc' -> RowType]
    <3>1. \A j \in DOMAIN kyc \ {r.id} : kyc[j] \in RowType
      BY <1>2 DEF TypeInv
    <3> QED BY <1>1, <1>4, <3>1
  <2>2. req' \in [Worker -> RequestType]
    BY <1>1, <1>2, <1>3, Continued
  <2> QED BY <1>1, <1>2, <1>4, <1>5, <2>1, <2>2 DEF TypeInv
<1>7. RequestOK(s)' /\ AddressFree(s) /\ ~IsFiling(s) /\ ~Pending(s) /\ OwnKyc(s)'
  BY <1>1, <1>2, <1>3 DEF RequestOK, AddressFree, IsFiling, Pending, OwnKyc
<1>8. ConsentOfItsKyc'
  BY <1>2, <1>4, <1>5 DEF ConsentOfItsKyc, Exists
<1>9. RowStep(r.id, r)
  BY <1>1, <1>4 DEF RowStep
<1> QED BY <1>0, <1>1, <1>2, <1>3, <1>6, <1>7, <1>8, <1>9, RowWritten

-----------------------------------------------------------------------------
(* The consents, and the addresses. *)

(* A consent goes in only while its KYC is there. *)
LEMMA CreateConsentKeeps ==
  ASSUME KycInv, NEW w \in Worker, CreateConsent(w)
  PROVE KycInv'
<1>0. PICK r, t, rest, next, c, s :
        /\ r = req[w] /\ t = NextConsent(r) /\ rest = r.todo \ {t}
        /\ next = IF r.todo = {t} THEN "created" ELSE "consents"
        /\ c = [user |-> r.user, scope |-> r.kind, type |-> t, kyc |-> r.id, length |-> Stored(t)]
        /\ s = [r EXCEPT !.todo = rest, !.at = next]
  OBVIOUS
<1>1. /\ r.at = "consents" /\ r.id \in DOMAIN kyc /\ Continue(w, s)
      /\ pii' = pii \cup {c}
      /\ UNCHANGED <<address, kyc, filed, bucket, uploads, moves, stamp, hurt>>
  BY <1>0 DEF CreateConsent, MayConsent, Parent, Exists, history
<1>2. /\ TypeInv /\ r \in RequestType /\ Carries(r) /\ RequestOK(r) /\ ConsentOfItsKyc
      /\ pii \subseteq ConsentType
  BY <1>0 DEF KycInv, Carries, TypeInv
<1>3. /\ r.kind \in Kind /\ r.user \in User /\ r.todo # {} /\ r.todo \subseteq PiiType
      /\ r.id \in Nat \cup {None}
  BY <1>1, <1>2 DEF RequestOK, RequestType
<1>4. t \in r.todo /\ t \in PiiType
  BY <1>0, <1>3 DEF NextConsent
<1>5. Stored(t) \in Nat
  <2>1. Digits(t) \in Nat
    BY <1>4 DEF Digits, PiiType
  <2>2. PiiLength(t) \in Nat
    BY <2>1 DEF PiiLength, Encrypted
  <2> QED BY <2>2, KycAssumption DEF Stored
<1>6. /\ c \in ConsentType /\ c.kyc = r.id /\ c.user = r.user /\ c.scope = r.kind
  BY <1>0, <1>3, <1>4, <1>5 DEF ConsentType
<1>7. pii' \subseteq ConsentType /\ ConsentOfItsKyc'
  <2>1. kyc[r.id].user = r.user /\ kyc[r.id].kind = r.kind
    BY <1>1, <1>2 DEF Carries, OwnKyc, Exists
  <2> QED BY <1>1, <1>2, <1>6, <2>1 DEF ConsentOfItsKyc, Exists
<1>8. /\ s \in RequestType /\ s.at = next /\ s.todo = rest /\ s.kind = r.kind
      /\ s.user = r.user /\ s.id = r.id /\ s.old = r.old /\ s.new = r.new
  <2>1. next \in Stage /\ rest \in SUBSET PiiType
    BY <1>0, <1>3 DEF Stage
  <2>2. s \in RequestType
    <3>1. PICK m : m = [r EXCEPT !.todo = rest]
      OBVIOUS
    <3>2. m \in RequestType
      BY <1>2, <2>1, <3>1 DEF RequestType
    <3>3. s = [m EXCEPT !.at = next]
      BY <1>0, <1>2, <3>1 DEF RequestType
    <3> QED BY <2>1, <3>2, <3>3, Moved
  <2> QED BY <1>0, <1>2, <2>2 DEF RequestType
<1>9. next \in {"created", "consents"} /\ (next = "consents" => rest # {})
  BY <1>0, <1>4
<1>10. Carries(s)
  <2>1. RequestOK(s)
    BY <1>1, <1>2, <1>8, <1>9 DEF RequestOK, IsFiling
  <2>2. AddressFree(s) /\ NotFiled(s)
    BY <1>8, <1>9 DEF AddressFree, NotFiled, IsFiling
  <2>3. OwnKyc(s) /\ OldOf(s)
    BY <1>1, <1>2, <1>8 DEF Carries, OwnKyc, OldOf
  <2> QED BY <2>1, <2>2, <2>3 DEF Carries
<1>11. ~Pending(s) /\ (\A v \in Worker : Pending(req[v]) => s.old # req[v].new)
  BY <1>0, <1>8, <1>9 DEF Pending, KycInv, Fresh
<1>12. r.at \notin {"upload", "rowUpdate"}
  BY <1>1
<1> QED BY <1>0, <1>1, <1>7, <1>8, <1>10, <1>11, <1>12, Proceeds

LEMMA Stamped ==
  ASSUME NEW sq \in Seq(AddressStamp), NEW a \in 1 .. Len(sq)
  PROVE /\ sq[a].seen \in Nat /\ sq[a].written \in Nat
        /\ sq[a].read \in Nat /\ sq[a].before \in Nat
<1>1. sq[a] \in AddressStamp
  OBVIOUS
<1> QED BY <1>1 DEF AddressStamp

(* A place is written to one row, at a later moment than all others: either *)
(* the request had looked for it before any other row got it, or the row   *)
(* is no longer as the request had read it.                                *)
AddressStep(n, r) ==
  /\ moves' = moves + 1
  /\ address' \in Seq(Place) /\ stamp' \in Seq(AddressStamp)
  /\ Len(stamp') = Len(address') /\ Len(address) <= Len(address') /\ n \in 1 .. Len(address')
  /\ \/ address'[n] = Sought(r) /\ stamp'[n].seen = r.seen
     \/ stamp'[n].read < stamp'[n].before
  /\ stamp'[n].written = moves + 1
  /\ \A a \in 1 .. Len(address') : a # n =>
       a \in 1 .. Len(address) /\ address'[a] = address[a] /\ stamp'[a] = stamp[a]

LEMMA AddressWritten ==
  ASSUME KycInv, NEW w \in Worker, NEW r, r = req[w], NEW s \in RequestType, NEW n,
         r.at \in {"address", "place"}, r.address \in {n, None},
         Continue(w, s), AddressStep(n, r),
         RequestOK(s)', AddressFree(s), NotFiled(s), OwnKyc(s), s.id = r.id, s.old = r.old,
         s.at \notin {"address", "look", "place"}, ~Pending(s),
         UNCHANGED <<kyc, filed, pii, bucket, uploads, hurt>>
  PROVE KycInv'
<1>1. /\ TypeInv /\ Carries(r) /\ moves \in Nat /\ \A v \in Worker : Carries(req[v]) /\ Fresh(v)
      /\ \A a \in 1 .. Len(address) : stamp[a].written \in Nat /\ stamp[a].written <= moves
  <2>1. /\ TypeInv /\ Carries(r) /\ moves \in Nat /\ \A v \in Worker : Carries(req[v]) /\ Fresh(v)
        /\ \A a \in 1 .. Len(address) : stamp[a].written <= moves
    BY DEF KycInv, TypeInv, StampInv
  <2>2. stamp \in Seq(AddressStamp) /\ Len(stamp) = Len(address)
    BY <2>1 DEF TypeInv
  <2> QED BY <2>1, <2>2, Stamped
<1>2. /\ req' \in [Worker -> RequestType] /\ req'[w] = s
      /\ \A v \in Worker : v # w => req'[v] = req[v]
  BY <1>1, Continued
<1>3. /\ Len(address) \in Nat /\ Len(address') \in Nat /\ filed \in Nat /\ uploads \in Nat
      /\ filed <= filed' /\ uploads <= uploads' /\ Len(address) <= Len(address')
      /\ moves' = moves + 1
  BY <1>1 DEF TypeInv, AddressStep
<1>4. TypeInv'
  <2>1. 1 .. Len(address) \subseteq 1 .. Len(address')
    BY <1>3
  <2>2. \A k \in DOMAIN kyc : kyc[k].address \in 1 .. Len(address')
    BY <1>1, <2>1 DEF TypeInv
  <2>3. /\ address' \in Seq(Place) /\ stamp' \in Seq(AddressStamp)
        /\ Len(stamp') = Len(address')
    BY DEF AddressStep
  <2>4. moves' \in Nat
    BY <1>1, <1>3
  <2> QED BY <1>1, <1>2, <2>2, <2>3, <2>4 DEF TypeInv
<1>5. /\ stamp'[n].written = moves + 1
      /\ \/ address'[n] = Sought(r) /\ stamp'[n].seen = r.seen
         \/ stamp'[n].read < stamp'[n].before
      /\ \A a \in 1 .. Len(address') : a # n =>
           a \in 1 .. Len(address) /\ address'[a] = address[a] /\ stamp'[a] = stamp[a]
  BY DEF AddressStep
<1>6. \A a \in 1 .. Len(address) : a # n /\ address[a] = Sought(r) => r.seen < stamp[a].written
  <2>1. None \notin 1 .. Len(address)
    BY <1>3, NoneApart
  <2> QED BY <1>1, <2>1 DEF Carries, AddressFree
<1>7. StampInv'
  <2>1. ASSUME NEW a \in 1 .. Len(address') PROVE stamp'[a].written <= moves'
    <3>1. CASE a = n
      BY <1>1, <1>3, <1>5, <3>1
    <3>2. CASE a # n
      <4>1. stamp'[a].written = stamp[a].written /\ a \in 1 .. Len(address)
        BY <1>5, <3>2
      <4> QED BY <1>1, <1>3, <4>1
    <3> QED BY <3>1, <3>2
  <2>2. ASSUME NEW a \in 1 .. Len(address'), NEW b \in 1 .. Len(address'),
               address'[a] = address'[b], stamp'[a].written < stamp'[b].written
        PROVE stamp'[b].seen < stamp'[a].written \/ stamp'[b].read < stamp'[b].before
    <3>1. CASE a = n
      <4>1. stamp'[b].written \in Nat /\ stamp'[b].written <= moves + 1
        <5>1. CASE b = n
          BY <1>1, <1>5, <5>1
        <5>2. CASE b # n
          <6>1. stamp'[b].written = stamp[b].written /\ b \in 1 .. Len(address)
            BY <1>5, <5>2
          <6> QED BY <1>1, <6>1
        <5> QED BY <5>1, <5>2
      <4> QED BY <1>1, <1>5, <2>2, <3>1, <4>1
    <3>2. CASE a # n /\ b = n
      BY <1>5, <1>6, <2>2, <3>2
    <3>3. CASE a # n /\ b # n
      <4>1. AddressTwiceOnlyByRace /\ DOMAIN address = 1 .. Len(address)
        BY <1>1 DEF KycInv, StampInv, TypeInv
      <4> QED BY <1>5, <2>2, <3>3, <4>1 DEF AddressTwiceOnlyByRace
    <3> QED BY <3>1, <3>2, <3>3
  <2>3. AddressTwiceOnlyByRace'
    <3>1. DOMAIN address' = 1 .. Len(address')
      BY <1>4 DEF TypeInv
    <3> QED BY <2>2, <3>1 DEF AddressTwiceOnlyByRace
  <2> QED BY <2>1, <2>3 DEF StampInv
<1>8. ConsentOfItsKyc' /\ OneKyc'
  BY DEF KycInv, ConsentOfItsKyc, OneKyc, Exists
<1>9. ASSUME NEW v \in Worker, v # w PROVE Carries(req[v])'
  <2>1. PICK q : q = req[v]
    OBVIOUS
  <2>2. Carries(q) /\ q \in RequestType /\ req'[v] = q
    BY <1>1, <1>2, <1>9, <2>1 DEF TypeInv
  <2>3. RequestOK(q)'
    BY <1>1, <1>3, <1>4, <2>2, RequestKept DEF Carries
  <2>4. AddressFree(q)'
    <3>1. ASSUME q.at \in {"address", "place"}
          PROVE  /\ q.seen <= moves'
                 /\ \A a \in 1 .. Len(address') :
                      a # q.address /\ address'[a] = Sought(q) => q.seen < stamp'[a].written
      <4>1. /\ q.seen <= moves /\ q.seen \in Nat
            /\ \A a \in 1 .. Len(address) :
                 a # q.address /\ address[a] = Sought(q) => q.seen < stamp[a].written
        BY <2>2, <3>1 DEF Carries, AddressFree, RequestType
      <4>2. q.seen < stamp'[n].written /\ q.seen <= moves'
        BY <1>1, <1>3, <1>5, <4>1
      <4>3. ASSUME NEW a \in 1 .. Len(address'), a # q.address, address'[a] = Sought(q)
            PROVE q.seen < stamp'[a].written
        <5>1. CASE a = n
          BY <4>2, <5>1
        <5>2. CASE a # n
          BY <1>5, <4>1, <4>3, <5>2
        <5> QED BY <5>1, <5>2
      <4> QED BY <4>2, <4>3
    <3>2. ASSUME q.at \in {"look", "place"}
          PROVE  /\ q.read <= moves'
                 /\ address'[q.address] = q.base \/ q.read < stamp'[q.address].written
      <4>1. /\ q.read <= moves /\ q.read \in Nat /\ q.address \in 1 .. Len(address)
            /\ address[q.address] = q.base \/ q.read < stamp[q.address].written
        BY <2>2, <3>2 DEF Carries, AddressFree, RequestOK, RequestType
      <4>2. q.read < stamp'[n].written /\ q.read <= moves'
        BY <1>1, <1>3, <1>5, <4>1
      <4>3. q.address \in 1 .. Len(address')
        BY <1>3, <4>1
      <4> QED BY <1>5, <4>1, <4>2, <4>3
    <3> QED BY <3>1, <3>2 DEF AddressFree
  <2>5. Carries(q)'
    BY <2>2, <2>3, <2>4 DEF Carries, NotFiled, IsFiling, OwnKyc, OldOf, Exists
  <2> QED BY <2>2, <2>5
       DEF Carries, RequestOK, AddressFree, Sought, NotFiled, OwnKyc, OldOf, IsFiling, Exists
<1>10. Carries(s)'
  <2>1. AddressFree(s)'
    BY DEF AddressFree
  <2>2. NotFiled(s)' /\ OwnKyc(s)' /\ OldOf(s)'
    BY <1>1 DEF Carries, NotFiled, IsFiling, OwnKyc, OldOf, Exists
  <2> QED BY <2>1, <2>2 DEF Carries
<1>11. \A v \in Worker : Carries(req[v])'
  BY <1>2, <1>9, <1>10
     DEF Carries, RequestOK, AddressFree, Sought, NotFiled, OwnKyc, OldOf, IsFiling, Exists
<1>12. ASSUME NEW v \in Worker PROVE Fresh(v)'
  <2>1. Pending(req'[v]) => v # w /\ req'[v] = req[v]
    BY <1>2
  <2>2. \A u \in Worker : req'[u].old = req[u].old
    BY <1>2
  <2>3. \A u \in Worker : Pending(req'[u]) => Pending(req[u]) /\ req'[u].new = req[u].new
    BY <1>2
  <2> QED BY <1>1, <2>1, <2>2, <2>3 DEF Fresh, Pending
<1>13. DocumentInv'
  <2>1. ASSUME NEW k \in DOMAIN kyc, Replacing(k) PROVE Replacing(k)'
    <3>1. PICK v \in Worker : /\ req[v].id = k /\ req[v].old = kyc[k].file
                              /\ req[v].withFile /\ req[v].at \in {"upload", "rowUpdate"}
      BY <2>1 DEF Replacing
    <3>2. req'[v] = req[v]
      BY <1>2, <3>1
    <3> QED BY <3>1, <3>2 DEF Replacing
  <2> QED BY <2>1 DEF DocumentInv, KycInv
<1> QED BY <1>4, <1>7, <1>8, <1>11, <1>12, <1>13 DEF KycInv

LEMMA CreateAddressKeeps ==
  ASSUME KycInv, NEW w \in Worker, CreateAddress(w)
  PROVE KycInv'
<1>0. PICK r, n, s, e : /\ r = req[w] /\ n = Len(address) + 1
                        /\ s = [r EXCEPT !.at = "documents", !.address = n]
                        /\ e = [read |-> r.seen, seen |-> r.seen,
                                before |-> 0, written |-> moves + 1]
  OBVIOUS
<1>1. /\ r.at = "address" /\ Continue(w, s) /\ moves' = moves + 1
      /\ address' = Append(address, r.place) /\ stamp' = Append(stamp, e)
      /\ UNCHANGED <<kyc, filed, pii, bucket, uploads, hurt>>
  BY <1>0 DEF CreateAddress
<1>2. /\ TypeInv /\ r \in RequestType /\ Carries(r) /\ RequestOK(r) /\ moves \in Nat
      /\ address \in Seq(Place) /\ stamp \in Seq(AddressStamp)
      /\ Len(stamp) = Len(address) /\ Len(address) \in Nat
  BY <1>0 DEF KycInv, Carries, TypeInv
<1>3. /\ r.place \in Place /\ r.address = None /\ r.old = None /\ r.todo # {} /\ r.new = None
      /\ r.kind \in Kind /\ r.user \in User /\ n \in Nat
  BY <1>0, <1>1, <1>2 DEF RequestOK, IsFiling
<1>4. e \in AddressStamp
  BY <1>0, <1>2 DEF RequestType, AddressStamp
<1>5. AddressStep(n, r) /\ Len(address') = n
  <2>1. /\ address' \in Seq(Place) /\ Len(address') = n /\ address'[n] = r.place
        /\ \A a \in 1 .. n : a # n => a \in 1 .. Len(address) /\ address'[a] = address[a]
    BY <1>0, <1>1, <1>2, <1>3
  <2>2. /\ stamp' \in Seq(AddressStamp) /\ Len(stamp') = n /\ stamp'[n] = e
        /\ \A a \in 1 .. n : a # n => stamp'[a] = stamp[a]
    BY <1>0, <1>1, <1>2, <1>3, <1>4
  <2>3. Len(address) <= Len(address') /\ n \in 1 .. Len(address')
    BY <1>0, <1>2, <1>3, <2>1
  <2>4. e.seen = r.seen /\ e.written = moves + 1 /\ Sought(r) = r.place
    BY <1>0, <1>1 DEF Sought
  <2> QED BY <1>1, <2>1, <2>2, <2>3, <2>4 DEF AddressStep
<1>6. /\ s \in RequestType /\ s.at = "documents" /\ s.address = n /\ s.id = r.id
      /\ s.kind = r.kind /\ s.user = r.user /\ s.old = r.old /\ s.new = r.new
      /\ s.todo = r.todo /\ s.before = r.before
  <2>1. "documents" \in Stage
    BY DEF Stage
  <2>2. s \in RequestType
    BY <1>0, <1>2, <1>3, <2>1 DEF RequestType
  <2> QED BY <1>0, <1>2, <2>2 DEF RequestType
<1>7. RequestOK(s)'
  <2>1. n \in 1 .. Len(address') /\ None \in 1 .. uploads' \cup {None}
    BY <1>5 DEF AddressStep
  <2> QED BY <1>3, <1>6, <2>1 DEF RequestOK, IsFiling
<1>8. AddressFree(s) /\ NotFiled(s) /\ OwnKyc(s) /\ ~Pending(s)
  BY <1>1, <1>2, <1>6 DEF Carries, AddressFree, NotFiled, IsFiling, OwnKyc, Pending
<1>9. /\ r = req[w] /\ r.at \in {"address", "place"} /\ r.address \in {n, None}
      /\ s.at \notin {"address", "look", "place"} /\ s.id = r.id /\ s.old = r.old
      /\ s \in RequestType
  BY <1>0, <1>1, <1>3, <1>6
<1>10. Continue(w, s) /\ UNCHANGED <<kyc, filed, pii, bucket, uploads, hurt>>
  BY <1>1
<1> QED BY <1>5, <1>7, <1>8, <1>9, <1>10, AddressWritten

LEMMA UpdateAddressKeeps ==
  ASSUME KycInv, NEW w \in Worker, UpdateAddress(w)
  PROVE KycInv'
<1>0. PICK r, n, s, p, e :
        /\ r = req[w] /\ n = r.address
        /\ s = [r EXCEPT !.at = "consent"]
        /\ p = Merge(r.place, address[n])
        /\ e = [read |-> r.read, seen |-> r.seen,
                before |-> stamp[n].written, written |-> moves + 1]
  OBVIOUS
<1>1. /\ r.at = "place" /\ Continue(w, s) /\ moves' = moves + 1
      /\ address' = [address EXCEPT ![n] = p] /\ stamp' = [stamp EXCEPT ![n] = e]
      /\ UNCHANGED <<kyc, filed, pii, bucket, uploads, hurt>>
  BY <1>0 DEF UpdateAddress
<1>2. /\ TypeInv /\ r \in RequestType /\ Carries(r) /\ RequestOK(r) /\ moves \in Nat
      /\ address \in Seq(Place) /\ stamp \in Seq(AddressStamp)
      /\ Len(stamp) = Len(address) /\ Len(address) \in Nat
  BY <1>0 DEF KycInv, Carries, TypeInv
<1>3. p \in Place /\ n \in 1 .. Len(address)
  <2>1. r.place \in Place \cup Given /\ n \in 1 .. Len(address)
    BY <1>0, <1>1, <1>2 DEF RequestOK
  <2>2. address[n] \in Place
    BY <1>2, <2>1
  <2>3. Merge(r.place, address[n]) \in Place
    BY <2>1, <2>2, MergeType
  <2> QED BY <1>0, <2>1, <2>3
<1>4. e \in AddressStamp
  <2>1. stamp[n].written \in Nat /\ r.read \in Nat /\ r.seen \in Nat
    BY <1>2, <1>3, Stamped DEF RequestType
  <2>2. PICK b, m : /\ b = stamp[n].written /\ m = moves + 1
                    /\ e = [read |-> r.read, seen |-> r.seen, before |-> b, written |-> m]
    BY <1>0
  <2>3. b \in Nat /\ m \in Nat
    BY <1>2, <2>1, <2>2
  <2> QED BY <2>1, <2>2, <2>3 DEF AddressStamp
<1>5. AddressStep(n, r) /\ Len(address') = Len(address)
  <2>1. /\ address' \in Seq(Place) /\ Len(address') = Len(address) /\ address'[n] = p
        /\ \A a \in 1 .. Len(address) : a # n => address'[a] = address[a]
    BY <1>1, <1>2, <1>3
  <2>2. /\ stamp' \in Seq(AddressStamp) /\ Len(stamp') = Len(stamp)
        /\ stamp'[n] = e /\ \A a \in 1 .. Len(stamp) : a # n => stamp'[a] = stamp[a]
    BY <1>1, <1>2, <1>3, <1>4
  <2>3. e.seen = r.seen /\ e.written = moves + 1 /\ e.read = r.read
        /\ e.before = stamp[n].written
    BY <1>0
  <2>4. p = Sought(r) \/ e.read < e.before
    <3>1. address[n] = r.base \/ r.read < stamp[n].written
      BY <1>0, <1>1, <1>2 DEF Carries, AddressFree
    <3> QED BY <1>0, <1>1, <2>3, <3>1 DEF Sought
  <2> QED BY <1>1, <1>2, <1>3, <2>1, <2>2, <2>3, <2>4 DEF AddressStep
<1>6. /\ s \in RequestType /\ s.at = "consent" /\ s.id = r.id
      /\ s.old = r.old /\ s.new = r.new
  BY <1>0, <1>2, Moved DEF Stage
<1>7. RequestOK(s)'
  BY <1>1, <1>2, <1>6 DEF RequestOK, IsFiling
<1>8. AddressFree(s) /\ NotFiled(s) /\ OwnKyc(s) /\ ~Pending(s)
  BY <1>6 DEF AddressFree, NotFiled, IsFiling, OwnKyc, Pending
<1>9. /\ r = req[w] /\ r.at \in {"address", "place"} /\ r.address \in {n, None}
      /\ s.at \notin {"address", "look", "place"} /\ s.id = r.id /\ s.old = r.old
      /\ s \in RequestType
  BY <1>0, <1>1, <1>6
<1>10. Continue(w, s) /\ UNCHANGED <<kyc, filed, pii, bucket, uploads, hurt>>
  BY <1>1
<1> QED BY <1>5, <1>7, <1>8, <1>9, <1>10, AddressWritten, SMTT(30)

-----------------------------------------------------------------------------
(* The invariant, and what it says. *)

LEMMA Initially == Init => KycInv
<1> SUFFICES ASSUME Init PROVE KycInv
  OBVIOUS
<1>1. req \in [Worker -> RequestType] /\ \A w \in Worker : req[w] = Idle
  BY IdleCarries DEF Init
<1>2. \A w \in Worker : Carries(req[w]) /\ ~Pending(req[w])
  <2>1. ~Pending(Idle)
    BY DEF Pending, Idle
  <2> QED BY <1>1, <2>1, IdleCarries
<1>3. /\ stamp \in Seq(AddressStamp) /\ address \in Seq(Place) /\ Len(stamp) = Len(address)
      /\ \A a \in 1 .. Len(address) : stamp[a].written = 0
  <2> PICK zero : zero = [read |-> 0, seen |-> 0, before |-> 0, written |-> 0]
    OBVIOUS
  <2>1. Earlier \in Seq(Place) /\ DOMAIN Earlier = 1 .. Len(Earlier) /\ Len(Earlier) \in Nat
    BY AddressAssumption
  <2>2. stamp = [a \in 1 .. Len(Earlier) |-> zero] /\ address = Earlier
    BY <2>1 DEF Init
  <2>3. zero \in AddressStamp /\ zero.written = 0
    BY DEF AddressStamp
  <2> QED BY <2>1, <2>2, <2>3
<1>4. TypeInv
  BY <1>1, <1>3 DEF Init, TypeInv
<1>5. StampInv
  BY <1>3 DEF Init, StampInv, AddressTwiceOnlyByRace
<1> QED BY <1>2, <1>4, <1>5
     DEF Init, KycInv, ConsentOfItsKyc, OneKyc, DocumentInv, Fresh

LEMMA StutterKeeps ==
  ASSUME KycInv, UNCHANGED vars
  PROVE KycInv'
<1>1. UNCHANGED <<address, kyc, filed, pii, bucket, uploads, req, moves, stamp, hurt>>
  BY DEF vars, history
<1>2. TypeInv' /\ StampInv' /\ ConsentOfItsKyc' /\ OneKyc'
  BY <1>1
     DEF KycInv, TypeInv, StampInv, AddressTwiceOnlyByRace, ConsentOfItsKyc, OneKyc, Exists
<1>3. DocumentInv'
  BY <1>1 DEF KycInv, DocumentInv, Replacing
<1>4. \A w \in Worker : Carries(req[w])' /\ Fresh(w)'
  BY <1>1
     DEF KycInv, Carries, RequestOK, AddressFree, Sought, NotFiled, OwnKyc, OldOf, IsFiling, Exists,
         Fresh, Pending
<1> QED BY <1>2, <1>3, <1>4 DEF KycInv

LEMMA Inductive == KycInv /\ [Next]_vars => KycInv'
<1> SUFFICES ASSUME KycInv, [Next]_vars PROVE KycInv'
  OBVIOUS
<1>1. CASE UNCHANGED vars
  BY <1>1, StutterKeeps
<1>2. ASSUME NEW w \in Worker, NEW kind \in Kind, NEW u \in User, NEW p \in Filing,
             NEW types \in Payloads(kind), NEW f \in BOOLEAN, CreateRead(w, kind, u, p, types, f)
      PROVE KycInv'
  BY <1>2, CreateReadKeeps
<1>3. ASSUME NEW w \in Worker, NEW k \in KycId, NEW p \in Edit \cup {None},
             NEW f \in BOOLEAN, NEW i \in BOOLEAN, UpdateRead(w, k, p, f, i)
      PROVE KycInv'
  BY <1>3, UpdateReadKeeps
<1>4. ASSUME NEW w \in Worker, NEW k \in KycId, NEW by \in {"ROOT", "USER", "EMPLOYEE"},
             VerifyRead(w, k, by)
      PROVE KycInv'
  BY <1>4, VerifyReadKeeps
<1>5. ASSUME NEW w \in Worker, NEW status \in {"PENDING", "VERIFIED", "REJECTED"},
             VerifyWrite(w, status)
      PROVE KycInv'
  BY <1>5, VerifyWriteKeeps
<1>6. ASSUME NEW w \in Worker, NEW k \in KycId, DeleteRead(w, k) \/ NotFound(w, k)
      PROVE KycInv'
  BY <1>6, DeleteReadKeeps, StutterKeeps DEF NotFound
<1>7. ASSUME NEW w \in Worker,
             \/ FindAddress(w) \/ CreateAddress(w) \/ SafeUpload(w) \/ InsertKyc(w)
             \/ CreateConsent(w) \/ CreateAnswer(w)
      PROVE KycInv'
  BY <1>7, FindAddressKeeps, CreateAddressKeeps, UploadKeeps, InsertKycKeeps,
     CreateConsentKeeps, AnswerKeeps
<1>8. ASSUME NEW w \in Worker,
             \/ DeleteOld(w) \/ UploadNew(w) \/ UpdateRow(w) \/ ReadAddress(w)
             \/ FindOtherAddress(w) \/ UpdateAddress(w) \/ UpdateAnswer(w)
      PROVE KycInv'
  BY <1>8, ReadAddressKeeps, DeleteOldKeeps, UploadKeeps, UpdateRowKeeps, FindAddressKeeps, UpdateAddressKeeps,
     AnswerKeeps
<1>9. ASSUME NEW w \in Worker, VerifyAnswer(w) \/ DeleteRow(w) \/ Refuse(w) \/ Fail(w)
      PROVE KycInv'
  BY <1>9, AnswerKeeps, DeleteRowKeeps, RefuseKeeps, FailKeeps
<1> QED BY <1>1, <1>2, <1>3, <1>4, <1>5, <1>6, <1>7, <1>8, <1>9 DEF Next

(* Every state of the service satisfies the invariant, whatever requests   *)
(* overlap and wherever they fail.                                         *)
THEOREM Invariance == Spec => []KycInv
BY Initially, Inductive, PTL DEF Spec

(* update() of either service deletes the old document, uploads the new    *)
(* one and then writes the row: a KYC names a document that is gone only   *)
(* while an update is between those steps or after one failed there, with  *)
(* any number of updates of the same KYC at once.                          *)
THEOREM DocumentTheorem == Spec => []DocumentLostOnlyByFailure
<1>1. KycInv => DocumentLostOnlyByFailure
  BY DEF KycInv, DocumentInv, Replacing, DocumentLostOnlyByFailure
<1> QED BY <1>1, Invariance, PTL

(* Two address rows have one place only when the later of them was written  *)
(* by a request that had looked for the place before the other was, or     *)
(* that wrote some columns of a row that another request had written since *)
(* it was read: create() and update() of AddressService, called by any     *)
(* number of filings and of updates of any columns.                        *)
THEOREM AddressTheorem == Spec => []AddressTwiceOnlyByRace
<1>1. KycInv => AddressTwiceOnlyByRace
  BY DEF KycInv, StampInv
<1> QED BY <1>1, Invariance, PTL

(* A filing that stored its address and documents in vain overlapped the   *)
(* filing of the KYC that it is refused for.                               *)
THEOREM WasteTheorem == Spec => []WastedOnlyByOverlap
<1>1. KycInv => WastedOnlyByOverlap
  <2> SUFFICES ASSUME KycInv, NEW w \in Worker, req[w].at = "row", NEW k \in DOMAIN kyc,
                      kyc[k].kind = req[w].kind, kyc[k].user = req[w].user
               PROVE k > req[w].before
    BY DEF WastedOnlyByOverlap
  <2>1. NotFiled(req[w]) /\ TypeInv
    BY DEF KycInv, Carries
  <2>2. req[w].before < k
    BY <2>1 DEF NotFiled, IsFiling
  <2>3. k \in Nat /\ req[w].before \in Nat
    BY <2>1 DEF TypeInv, RequestType
  <2> QED BY <2>2, <2>3
<1> QED BY <1>1, Invariance, PTL

(* A consent refers to a KYC of its own user and scope or to none, also    *)
(* when the KYC is deleted while the consents of its filing are stored.    *)
THEOREM ConsentTheorem == Spec => []ConsentOfItsKyc
<1>1. KycInv => ConsentOfItsKyc
  BY DEF KycInv
<1> QED BY <1>1, Invariance, PTL

-----------------------------------------------------------------------------
(* The counters stay within the bound on the requests: what a request has   *)
(* yet to do is paid for when it is accepted.                               *)
FileStages == {"create", "address", "documents", "row"}
UploadStages == {"create", "address", "documents", "update", "upload"}
MoveStages == {"create", "address", "update", "upload", "rowUpdate", "move", "look",
               "place"}

At(T) == {w \in Worker : req[w].at \in T}
Budget(n, T) == IsFiniteSet(At(T)) /\ n + Cardinality(At(T)) <= started

BoundInv ==
  /\ started \in 0 .. MaxRequest
  /\ Budget(filed, FileStages) /\ Budget(uploads, UploadStages) /\ Budget(moves, MoveStages)
  /\ Len(address) <= Len(Earlier) + moves
  /\ \A w \in Worker : /\ req[w].id \in 1 .. filed \cup {None}
                       /\ req[w].address \in 1 .. Len(address) \cup {None}
  /\ \A c \in pii : c.length \in 1 .. PiiColumn
  /\ hurt \subseteq 1 .. filed

(* A request does once what it may do once, or is a new one. *)
Spends(w, T, n, m) ==
  \/ started' = started + 1 /\ m = n
  \/ started' = started /\ m = n /\ (req'[w].at \in T => req[w].at \in T)
  \/ started' = started /\ m = n + 1 /\ req[w].at \in T /\ req'[w].at \notin T

LEMMA Spending ==
  ASSUME NEW T, NEW w \in Worker, NEW n \in Nat, NEW m \in Nat, started \in Nat,
         \A v \in Worker : v # w => req'[v] = req[v],
         Budget(n, T), Spends(w, T, n, m)
  PROVE  IsFiniteSet(At(T)') /\ m + Cardinality(At(T)') <= started'
<1> PICK A, B : A = At(T) /\ B = At(T)'
  OBVIOUS
<1>1. /\ w \in A <=> req[w].at \in T
      /\ w \in B <=> req'[w].at \in T
      /\ \A v : v # w => (v \in A <=> v \in B)
  BY DEF At
<1>2. IsFiniteSet(A) /\ Cardinality(A) \in Nat /\ n + Cardinality(A) <= started
  BY FS_CardinalityType DEF Budget
<1>3. CASE w \in A <=> w \in B
  <2>1. A = B
    BY <1>1, <1>3
  <2> QED BY <1>1, <1>2, <1>3, <2>1 DEF Spends
<1>4. CASE w \notin A /\ w \in B
  <2>1. B = A \cup {w}
    BY <1>1, <1>4
  <2>2. IsFiniteSet(B) /\ Cardinality(B) = Cardinality(A) + 1
    BY <1>2, <1>4, <2>1, FS_AddElement
  <2> QED BY <1>1, <1>2, <1>4, <2>2 DEF Spends
<1>5. CASE w \in A /\ w \notin B
  <2>1. B = A \ {w}
    BY <1>1, <1>5
  <2>2. IsFiniteSet(B) /\ Cardinality(B) = Cardinality(A) - 1
    BY <1>2, <1>5, <2>1, FS_RemoveElement
  <2> QED BY <1>1, <1>2, <1>5, <2>2 DEF Spends
<1> QED BY <1>3, <1>4, <1>5

Turn(w) ==
  /\ \A v \in Worker : v # w => req'[v] = req[v]
  /\ Spends(w, FileStages, filed, filed')
  /\ Spends(w, UploadStages, uploads, uploads')
  /\ Spends(w, MoveStages, moves, moves')
  /\ started' \in 0 .. MaxRequest
  /\ \/ moves' = moves /\ Len(address') = Len(address)
     \/ moves' = moves + 1 /\ Len(address') \in {Len(address), Len(address) + 1}
  /\ req'[w].id \in 1 .. filed' \cup {None}
  /\ req'[w].address \in 1 .. Len(address') \cup {None}
  /\ \A c \in pii' : c.length \in 1 .. PiiColumn
  /\ hurt' \subseteq hurt \cup 1 .. filed

LEMMA TurnKeeps ==
  ASSUME KycInv, KycInv', BoundInv, NEW w \in Worker, Turn(w)
  PROVE  BoundInv'
<1>1. /\ filed \in Nat /\ uploads \in Nat /\ moves \in Nat /\ started \in Nat
      /\ filed' \in Nat /\ uploads' \in Nat /\ moves' \in Nat
      /\ Len(address) \in Nat /\ Len(address') \in Nat /\ Len(Earlier) \in Nat
  BY KycAssumption, AddressAssumption DEF KycInv, TypeInv, BoundInv
<1>2. Budget(filed, FileStages)'
  BY <1>1, Spending DEF Turn, BoundInv, Budget
<1>3. Budget(uploads, UploadStages)'
  BY <1>1, Spending DEF Turn, BoundInv, Budget
<1>4. Budget(moves, MoveStages)'
  BY <1>1, Spending DEF Turn, BoundInv, Budget
<1>5. filed <= filed'
  BY <1>1 DEF Turn, Spends
<1>6. Len(address) <= Len(address') /\ Len(address') <= Len(Earlier) + moves'
  <2>1. Len(address) <= Len(Earlier) + moves
    BY DEF BoundInv
  <2>2. \/ moves' = moves /\ Len(address') = Len(address)
        \/ moves' = moves + 1 /\ Len(address') \in {Len(address), Len(address) + 1}
    BY DEF Turn
  <2> QED BY <1>1, <2>1, <2>2
<1>7. 1 .. filed \subseteq 1 .. filed' /\ 1 .. Len(address) \subseteq 1 .. Len(address')
  BY <1>1, <1>5, <1>6
<1>8. \A v \in Worker : /\ req'[v].id \in 1 .. filed' \cup {None}
                        /\ req'[v].address \in 1 .. Len(address') \cup {None}
  BY <1>7 DEF Turn, BoundInv
<1>9. hurt' \subseteq 1 .. filed'
  BY <1>7 DEF Turn, BoundInv
<1> QED BY <1>2, <1>3, <1>4, <1>6, <1>8, <1>9 DEF Turn, BoundInv

LEMMA BoundIsTyped == KycInv /\ BoundInv => TypeOK
<1> SUFFICES ASSUME KycInv, BoundInv PROVE TypeOK
  OBVIOUS
<1>1. /\ filed \in 0 .. MaxRequest /\ uploads \in 0 .. MaxRequest /\ moves \in 0 .. MaxRequest
      /\ started \in 0 .. MaxRequest /\ Len(address) \in 0 .. Len(Earlier) + MaxRequest
      /\ Len(Earlier) \in Nat
  <2>1. /\ Cardinality(At(FileStages)) \in Nat /\ Cardinality(At(UploadStages)) \in Nat
        /\ Cardinality(At(MoveStages)) \in Nat
    BY FS_CardinalityType DEF BoundInv, Budget
  <2>2. /\ filed \in Nat /\ uploads \in Nat /\ moves \in Nat /\ started \in Nat
        /\ Len(address) \in Nat /\ MaxRequest \in Nat /\ Len(Earlier) \in Nat
    BY KycAssumption, AddressAssumption DEF KycInv, TypeInv, BoundInv
  <2> QED BY <2>1, <2>2 DEF BoundInv, Budget
<1>2. 1 .. filed \subseteq KycId /\ 1 .. uploads \subseteq File /\ 1 .. Len(address) \subseteq AddressId
  BY <1>1, KycAssumption DEF KycId, File, AddressId
<1>3. ASSUME NEW k \in DOMAIN kyc PROVE kyc[k] \in Row
  <2>1. kyc[k] \in RowType /\ kyc[k].address \in AddressId /\ kyc[k].file \in File \cup {None}
    BY <1>2 DEF KycInv, TypeInv
  <2> QED BY <2>1 DEF RowType, Row
<1>4. ASSUME NEW c \in pii PROVE c \in Consent
  <2>1. c \in ConsentType /\ c.kyc \in KycId \cup {None} /\ c.length \in 1 .. PiiColumn
    BY <1>2 DEF KycInv, TypeInv, ConsentOfItsKyc, Exists, BoundInv
  <2> QED BY <2>1 DEF ConsentType, Consent
<1>5. ASSUME NEW w \in Worker PROVE req[w] \in Request
  <2>1. /\ req[w] \in RequestType /\ req[w].id \in KycId \cup {None}
        /\ req[w].address \in AddressId \cup {None}
        /\ req[w].old \in File \cup {None} /\ req[w].new \in File \cup {None}
    BY <1>2 DEF KycInv, TypeInv, BoundInv, Carries, RequestOK
  <2> QED BY <2>1 DEF RequestType, Request
<1>6. DOMAIN stamp = DOMAIN address /\ \A a \in DOMAIN stamp : stamp[a] \in AddressStamp
  BY DEF KycInv, TypeInv
<1>7. /\ address \in Seq(Place) /\ DOMAIN kyc \subseteq 1 .. filed /\ bucket \subseteq File
      /\ req \in [Worker -> Request] /\ hurt \subseteq KycId
  BY <1>2, <1>5 DEF KycInv, TypeInv, BoundInv
<1> QED BY <1>1, <1>3, <1>4, <1>6, <1>7 DEF TypeOK


(* What a step without effect on the counters leaves. *)
LEMMA Waits ==
  ASSUME KycInv, BoundInv, NEW w \in Worker, NEW s, Continue(w, s),
         UNCHANGED <<filed, uploads, moves, pii, hurt>>, Len(address') = Len(address),
         \/ started' = started /\ \A T \in {FileStages, UploadStages, MoveStages} :
                                    s.at \in T => req[w].at \in T
         \/ started' = started + 1 /\ started < MaxRequest,
         s.id \in 1 .. filed \cup {None}, s.address \in 1 .. Len(address) \cup {None}
  PROVE  Turn(w)
<1>1. req'[w] = s /\ \A v \in Worker : v # w => req'[v] = req[v]
  BY DEF KycInv, TypeInv, Continue
<1>2. started' \in 0 .. MaxRequest
  BY KycAssumption DEF BoundInv
<1>3. /\ Spends(w, FileStages, filed, filed') /\ Spends(w, UploadStages, uploads, uploads')
      /\ Spends(w, MoveStages, moves, moves')
  BY <1>1 DEF Spends
<1> QED BY <1>1, <1>2, <1>3 DEF Turn, BoundInv

LEMMA StartTurns ==
  ASSUME KycInv, BoundInv, NEW w \in Worker,
         \/ \E kind \in Kind, u \in User, p \in Filing, f \in BOOLEAN :
              \E types \in Payloads(kind) : CreateRead(w, kind, u, p, types, f)
         \/ \E k \in KycId, p \in Edit \cup {None}, f, i \in BOOLEAN : UpdateRead(w, k, p, f, i)
         \/ \E k \in KycId, by \in {"ROOT", "USER", "EMPLOYEE"} : VerifyRead(w, k, by)
         \/ \E k \in KycId : DeleteRead(w, k)
  PROVE  Turn(w)
<1>1. ASSUME NEW kind \in Kind, NEW u \in User, NEW p \in Filing, NEW f \in BOOLEAN,
             NEW types \in Payloads(kind), CreateRead(w, kind, u, p, types, f)
      PROVE  Turn(w)
  <2> DEFINE s == [Idle EXCEPT !.at = "create", !.kind = kind, !.user = u, !.place = p,
                               !.withFile = f, !.todo = types, !.before = filed]
  <2>1. /\ Continue(w, s) /\ started < MaxRequest /\ started' = started + 1
        /\ UNCHANGED <<address, filed, uploads, moves, pii, hurt>>
    BY <1>1 DEF CreateRead, Start, history
  <2>2. s.id = None /\ s.address = None
    BY DEF Idle
  <2> HIDE DEF s
  <2> QED BY <2>1, <2>2, Waits
<1>2. ASSUME NEW k \in KycId, NEW p \in Edit \cup {None}, NEW f \in BOOLEAN, NEW i \in BOOLEAN,
             UpdateRead(w, k, p, f, i)
      PROVE  Turn(w)
  <2> PICK at, kd, ad, fl : /\ at = (IF f THEN "update" ELSE "rowUpdate")
                            /\ kd = kyc[k].kind /\ ad = kyc[k].address /\ fl = kyc[k].file
    OBVIOUS
  <2> PICK s : s = [Idle EXCEPT !.at = at, !.kind = kd, !.id = k, !.place = p, !.old = fl,
                                !.address = ad, !.withFile = f, !.withPii = i]
    OBVIOUS
  <2>1. /\ Continue(w, s) /\ started < MaxRequest /\ started' = started + 1 /\ k \in DOMAIN kyc
        /\ UNCHANGED <<address, filed, uploads, moves, pii, hurt>>
    BY <1>2 DEF UpdateRead, Exists, Start, history
  <2>2. /\ kyc[k] \in RowType /\ k \in 1 .. filed /\ k \in Nat
        /\ ad \in 1 .. Len(address)
    BY <2>1 DEF KycInv, TypeInv, KycId
  <2>3. s.id = k /\ s.address = ad
    BY DEF Idle
  <2> QED BY <2>1, <2>2, <2>3, Waits
<1>3. ASSUME NEW k \in KycId, NEW by \in {"ROOT", "USER", "EMPLOYEE"},
             VerifyRead(w, k, by) \/ DeleteRead(w, k)
      PROVE  Turn(w)
  <2> PICK kd : kd = kyc[k].kind
    OBVIOUS
  <2>1. k \in 1 .. filed
    BY <1>3 DEF VerifyRead, DeleteRead, Exists, KycInv, TypeInv
  <2>2. PICK s : /\ s = [Idle EXCEPT !.at = "verify", !.kind = kd, !.id = k, !.by = by]
                      \/ s = [Idle EXCEPT !.at = "delete", !.kind = kd, !.id = k]
                 /\ Continue(w, s) /\ started < MaxRequest /\ started' = started + 1
    BY <1>3 DEF VerifyRead, DeleteRead, Start
  <2>3. s.id = k /\ s.address = None
    BY <2>2 DEF Idle
  <2>4. UNCHANGED <<address, filed, uploads, moves, pii, hurt>>
    BY <1>3 DEF VerifyRead, DeleteRead, history
  <2> QED BY <2>1, <2>2, <2>3, <2>4, Waits
<1> QED BY <1>1, <1>2, <1>3

(* The request moves to its next stage and changes nothing it carries. *)
LEMMA PassTurns ==
  ASSUME KycInv, BoundInv, NEW w \in Worker,
         \/ FindAddress(w) \/ ReadAddress(w) \/ FindOtherAddress(w) \/ DeleteOld(w)
         \/ VerifyAnswer(w)
         \/ CreateAnswer(w) \/ UpdateAnswer(w) \/ Refuse(w)
         \/ \E status \in {"PENDING", "VERIFIED", "REJECTED"} : VerifyWrite(w, status)
  PROVE  Turn(w)
<1> DEFINE r == req[w]
<1>1. r \in RequestType /\ r.id \in 1 .. filed \cup {None} /\ r.address \in 1 .. Len(address) \cup {None}
  BY DEF KycInv, TypeInv, BoundInv
<1> HIDE DEF r
<1>2. /\ UNCHANGED <<address, filed, uploads, started, moves, pii, hurt>>
  BY DEF FindAddress, ReadAddress, FindOtherAddress, DeleteOld, VerifyAnswer, CreateAnswer,
         UpdateAnswer, Refuse, VerifyWrite, history
<1>3. CASE Finish(w)
  <2>1. Idle.id = None /\ Idle.address = None
        /\ \A T \in {FileStages, UploadStages, MoveStages} : Idle.at \notin T
    BY DEF Idle, FileStages, UploadStages, MoveStages
  <2> QED BY <1>2, <1>3, <2>1, Waits DEF Finish
<1>4. ASSUME NEW next, NEW s \in {[r EXCEPT !.at = next], [r EXCEPT !.at = next, !.seen = moves]},
             Continue(w, s),
             \A T \in {FileStages, UploadStages, MoveStages} : next \in T => r.at \in T
      PROVE  Turn(w)
  <2>1. s.at = next /\ s.id = r.id /\ s.address = r.address
    BY <1>1, <1>4 DEF RequestType
  <2> QED BY <1>1, <1>2, <1>4, <2>1, Waits DEF r
<1>5. CASE FindAddress(w)
  BY <1>4, <1>5 DEF FindAddress, FileStages, UploadStages, MoveStages, r
<1>6. CASE FindOtherAddress(w)
  BY <1>4, <1>6 DEF FindOtherAddress, FileStages, UploadStages, MoveStages, r
<1>7. CASE DeleteOld(w)
  BY <1>4, <1>7 DEF DeleteOld, FileStages, UploadStages, MoveStages, r
<1>8. ASSUME NEW status \in {"PENDING", "VERIFIED", "REJECTED"}, VerifyWrite(w, status)
      PROVE  Turn(w)
  <2>1. Continue(w, [r EXCEPT !.at = "verified"])
    BY <1>8 DEF VerifyWrite, r
  <2> QED BY <1>4, <2>1 DEF FileStages, UploadStages, MoveStages
<1>9. CASE ReadAddress(w)
  <2> PICK base, s : /\ base = address[r.address]
                     /\ s = [r EXCEPT !.at = "look", !.base = base, !.read = moves]
    OBVIOUS
  <2>1. r.at = "move" /\ Continue(w, s)
    BY <1>9 DEF ReadAddress, r
  <2>2. s.at = "look" /\ s.id = r.id /\ s.address = r.address
    BY <1>1 DEF RequestType
  <2>3. \A T \in {FileStages, UploadStages, MoveStages} : s.at \in T => r.at \in T
    BY <2>1, <2>2 DEF FileStages, UploadStages, MoveStages
  <2> QED BY <1>1, <1>2, <2>1, <2>2, <2>3, Waits DEF r
<1> QED BY <1>3, <1>5, <1>6, <1>7, <1>8, <1>9 DEF VerifyAnswer, CreateAnswer, UpdateAnswer, Refuse

LEMMA FailTurns ==
  ASSUME KycInv, BoundInv, NEW w \in Worker, Fail(w)
  PROVE  Turn(w)
<1>1. /\ UNCHANGED <<address, filed, uploads, started, moves, pii>>
      /\ Continue(w, Idle) /\ hurt' \subseteq hurt \cup 1 .. filed
  BY DEF Fail, Finish, KycInv, Carries, RequestOK
<1>2. Idle.id = None /\ Idle.address = None
      /\ \A T \in {FileStages, UploadStages, MoveStages} : Idle.at \notin T
  BY DEF Idle, FileStages, UploadStages, MoveStages
<1>3. req'[w] = Idle /\ \A v \in Worker : v # w => req'[v] = req[v]
  BY <1>1 DEF KycInv, TypeInv, Continue
<1>4. /\ Spends(w, FileStages, filed, filed') /\ Spends(w, UploadStages, uploads, uploads')
      /\ Spends(w, MoveStages, moves, moves')
  BY <1>1, <1>2, <1>3 DEF Spends
<1> QED BY <1>1, <1>2, <1>3, <1>4 DEF Turn, BoundInv


(* A stage that writes: what it may do once, it has done. *)
LEMMA Acts ==
  ASSUME KycInv, KycInv', BoundInv, NEW w \in Worker, NEW s, Continue(w, s),
         started' = started, hurt' \subseteq hurt \cup 1 .. filed,
         \A c \in pii' : c.length \in 1 .. PiiColumn,
         \A T \in {FileStages, UploadStages, MoveStages} : s.at \in T => req[w].at \in T,
         filed' = filed \/ (filed' = filed + 1 /\ req[w].at \in FileStages /\ s.at \notin FileStages),
         uploads' = uploads
           \/ (uploads' = uploads + 1 /\ req[w].at \in UploadStages /\ s.at \notin UploadStages),
         \/ moves' = moves /\ Len(address') = Len(address)
         \/ /\ moves' = moves + 1 /\ req[w].at \in MoveStages /\ s.at \notin MoveStages
            /\ Len(address') \in {Len(address), Len(address) + 1},
         s.id = req[w].id \/ s.id \in 1 .. filed',
         s.address = req[w].address \/ s.address \in 1 .. Len(address')
  PROVE  Turn(w)
<1>1. req'[w] = s /\ \A v \in Worker : v # w => req'[v] = req[v]
  BY DEF KycInv, TypeInv, Continue
<1>2. /\ Spends(w, FileStages, filed, filed') /\ Spends(w, UploadStages, uploads, uploads')
      /\ Spends(w, MoveStages, moves, moves')
  BY <1>1 DEF Spends
<1>3. filed \in Nat /\ Len(address) \in Nat
  BY DEF KycInv, TypeInv
<1>4. 1 .. filed \subseteq 1 .. filed' /\ 1 .. Len(address) \subseteq 1 .. Len(address')
  BY <1>3
<1>5. s.id \in 1 .. filed' \cup {None} /\ s.address \in 1 .. Len(address') \cup {None}
  BY <1>4 DEF BoundInv
<1> QED BY <1>1, <1>2, <1>5 DEF Turn, BoundInv

LEMMA UploadTurns ==
  ASSUME KycInv, KycInv', BoundInv, NEW w \in Worker, SafeUpload(w) \/ UploadNew(w)
  PROVE  Turn(w)
<1> PICK r, next : r = req[w] /\ next = IF r.at = "documents" THEN "row" ELSE "rowUpdate"
  OBVIOUS
<1>1. /\ r \in RequestType /\ uploads \in Nat
      /\ \A c \in pii : c.length \in 1 .. PiiColumn
  BY DEF KycInv, TypeInv, BoundInv
<1>2. /\ UNCHANGED <<address, filed, moves, pii, hurt, started>>
      /\ r.at = "documents" \/ r.at = "upload"
      /\ Upload(w, next) \/ NoUpload(w, next)
  BY DEF SafeUpload, UploadNew, history
<1>3. PICK s : /\ Continue(w, s)
               /\ \/ s = [r EXCEPT !.at = next] /\ uploads' = uploads
                  \/ \E n : s = [r EXCEPT !.at = next, !.new = n] /\ uploads' = uploads + 1
  BY <1>2 DEF Upload, NoUpload
<1>4. s.at = next /\ s.id = r.id /\ s.address = r.address
  BY <1>1, <1>3 DEF RequestType
<1>5. /\ next \notin UploadStages /\ r.at \in UploadStages
      /\ \A T \in {FileStages, UploadStages, MoveStages} : next \in T => r.at \in T
  BY <1>2 DEF UploadStages, FileStages, MoveStages
<1> QED BY <1>1, <1>2, <1>3, <1>4, <1>5, Acts

LEMMA InsertKycTurns ==
  ASSUME KycInv, KycInv', BoundInv, NEW w \in Worker, InsertKyc(w)
  PROVE  Turn(w)
<1> PICK r, s : r = req[w] /\ s = [r EXCEPT !.at = "consents", !.id = filed + 1]
  OBVIOUS
<1>1. /\ r \in RequestType /\ filed \in Nat /\ \A c \in pii : c.length \in 1 .. PiiColumn
  BY DEF KycInv, TypeInv, BoundInv
<1>2. /\ UNCHANGED <<address, uploads, moves, pii, hurt, started>>
      /\ r.at = "row" /\ filed' = filed + 1 /\ Continue(w, s)
  BY DEF InsertKyc, history
<1>3. s.at = "consents" /\ s.id = filed + 1 /\ s.address = r.address
  BY <1>1 DEF RequestType
<1>4. /\ s.at \notin FileStages /\ r.at \in FileStages
      /\ \A T \in {FileStages, UploadStages, MoveStages} : s.at \in T => r.at \in T
  BY <1>2, <1>3 DEF UploadStages, FileStages, MoveStages
<1>5. s.id \in 1 .. filed'
  BY <1>1, <1>2, <1>3
<1> QED BY <1>1, <1>2, <1>3, <1>4, <1>5, Acts

LEMMA StoredType == \A t \in PiiType : Stored(t) \in 1 .. PiiColumn
<1> TAKE t \in PiiType
<1>1. PiiLength(t) \in Nat \ {0}
  BY DEF PiiLength, Encrypted, Digits, PiiType
<1> HIDE DEF PiiLength
<1> QED BY <1>1, KycAssumption DEF Stored

LEMMA ConsentTurns ==
  ASSUME KycInv, KycInv', BoundInv, NEW w \in Worker, CreateConsent(w)
  PROVE  Turn(w)
<1> PICK r, t, next : r = req[w] /\ t = NextConsent(r)
                      /\ next = IF r.todo = {t} THEN "created" ELSE "consents"
  OBVIOUS
<1> PICK s : s = [r EXCEPT !.todo = @ \ {t}, !.at = next]
  OBVIOUS
<1>1. r \in RequestType /\ Carries(r)
  BY DEF KycInv, TypeInv
<1>2. /\ UNCHANGED <<address, filed, uploads, moves, hurt, started>>
      /\ r.at = "consents" /\ Continue(w, s)
      /\ pii' = pii \cup {[user |-> r.user, scope |-> r.kind, type |-> t,
                           kyc |-> r.id, length |-> Stored(t)]}
  BY DEF CreateConsent, history
<1>3. s.at = next /\ s.id = r.id /\ s.address = r.address
  BY <1>1 DEF RequestType
<1>4. \A T \in {FileStages, UploadStages, MoveStages} : s.at \notin T
  BY <1>3 DEF UploadStages, FileStages, MoveStages
<1>5. t \in PiiType
  <2>1. r.todo # {} /\ r.todo \subseteq PiiType
    BY <1>1, <1>2 DEF Carries, RequestOK, RequestType
  <2> QED BY <2>1 DEF NextConsent
<1>6. \A c \in pii' : c.length \in 1 .. PiiColumn
  BY <1>2, <1>5, StoredType DEF BoundInv
<1> QED BY <1>2, <1>3, <1>4, <1>6, Acts

LEMMA UpdateRowTurns ==
  ASSUME KycInv, KycInv', BoundInv, NEW w \in Worker, UpdateRow(w)
  PROVE  Turn(w)
<1> PICK r, next : r = req[w] /\ next = IF r.place = None THEN "consent" ELSE "move"
  OBVIOUS
<1> PICK s : s = [r EXCEPT !.at = next]
  OBVIOUS
<1>1. /\ r \in RequestType /\ Carries(r)
      /\ \A c \in pii : c.length \in 1 .. PiiColumn
  BY DEF KycInv, TypeInv, BoundInv
<1>2. /\ UNCHANGED <<address, filed, uploads, moves, pii, started>>
      /\ r.at = "rowUpdate" /\ Continue(w, s)
      /\ hurt' \subseteq hurt \cup {r.id}
  BY DEF UpdateRow
<1>3. s.at = next /\ s.id = r.id /\ s.address = r.address
  BY <1>1 DEF RequestType
<1>4. \A T \in {FileStages, UploadStages, MoveStages} : s.at \in T => r.at \in T
  BY <1>2, <1>3 DEF UploadStages, FileStages, MoveStages
<1>5. r.id \in 1 .. filed
  BY <1>1, <1>2 DEF Carries, RequestOK
<1> QED BY <1>1, <1>2, <1>3, <1>4, <1>5, Acts

LEMMA AddressTurns ==
  ASSUME KycInv, KycInv', BoundInv, NEW w \in Worker, CreateAddress(w) \/ UpdateAddress(w)
  PROVE  Turn(w)
<1> PICK r : r = req[w]
  OBVIOUS
<1>1. /\ r \in RequestType /\ Carries(r) /\ address \in Seq(Place) /\ Len(address) \in Nat
      /\ \A c \in pii : c.length \in 1 .. PiiColumn
  BY DEF KycInv, TypeInv, BoundInv
<1>2. /\ UNCHANGED <<filed, uploads, pii, hurt, started>> /\ moves' = moves + 1
  BY DEF CreateAddress, UpdateAddress
<1>3. CASE CreateAddress(w)
  <2> PICK s : s = [r EXCEPT !.at = "documents", !.address = Len(address) + 1]
    OBVIOUS
  <2>1. r.at = "address" /\ Continue(w, s) /\ address' = Append(address, r.place)
    BY <1>3 DEF CreateAddress
  <2>2. Len(address') = Len(address) + 1
    BY <1>1, <2>1
  <2>3. s.at = "documents" /\ s.id = r.id /\ s.address = Len(address) + 1
    BY <1>1 DEF RequestType
  <2>4. /\ s.at \notin MoveStages /\ r.at \in MoveStages
        /\ \A T \in {FileStages, UploadStages, MoveStages} : s.at \in T => r.at \in T
    BY <2>1, <2>3 DEF UploadStages, FileStages, MoveStages
  <2>5. s.address \in 1 .. Len(address')
    BY <1>1, <2>2, <2>3
  <2> QED BY <1>1, <1>2, <2>1, <2>2, <2>3, <2>4, <2>5, Acts
<1>4. CASE UpdateAddress(w)
  <2> PICK s : s = [r EXCEPT !.at = "consent"]
    OBVIOUS
  <2>1. r.at = "place" /\ Continue(w, s) /\ \E p : address' = [address EXCEPT ![r.address] = p]
    BY <1>4 DEF UpdateAddress
  <2>2. Len(address') = Len(address)
    <3>1. DOMAIN address' = DOMAIN address /\ address' \in Seq(Place)
      BY <2>1 DEF KycInv, TypeInv
    <3> QED BY <1>1, <3>1
  <2>3. s.at = "consent" /\ s.id = r.id /\ s.address = r.address
    BY <1>1 DEF RequestType
  <2>4. /\ s.at \notin MoveStages /\ r.at \in MoveStages
        /\ \A T \in {FileStages, UploadStages, MoveStages} : s.at \in T => r.at \in T
    BY <2>1, <2>3 DEF UploadStages, FileStages, MoveStages
  <2> QED BY <1>1, <1>2, <2>1, <2>2, <2>3, <2>4, Acts
<1> QED BY <1>3, <1>4

LEMMA DeleteRowTurns ==
  ASSUME KycInv, KycInv', BoundInv, NEW w \in Worker, DeleteRow(w)
  PROVE  Turn(w)
<1> PICK r, s : r = req[w] /\ s = [r EXCEPT !.at = "deleted"]
  OBVIOUS
<1>1. r \in RequestType
  BY DEF KycInv, TypeInv
<1>2. /\ UNCHANGED <<address, filed, uploads, moves, hurt, started>>
      /\ Continue(w, s) /\ pii' = Detach(pii, r.id)
  BY DEF DeleteRow, history
<1>3. s.at = "deleted" /\ s.id = r.id /\ s.address = r.address
  BY <1>1 DEF RequestType
<1>4. \A T \in {FileStages, UploadStages, MoveStages} : s.at \notin T
  BY <1>3 DEF UploadStages, FileStages, MoveStages
<1>5. ASSUME NEW c \in pii' PROVE c.length \in 1 .. PiiColumn
  <2>1. PICK b \in pii : c = IF b.kyc = r.id THEN [b EXCEPT !.kyc = None] ELSE b
    BY <1>2 DEF Detach
  <2>2. b \in ConsentType /\ b.length \in 1 .. PiiColumn
    BY DEF KycInv, TypeInv, BoundInv
  <2> QED BY <2>1, <2>2 DEF ConsentType
<1> QED BY <1>2, <1>3, <1>4, <1>5, Acts

LEMMA BoundStep == KycInv /\ KycInv' /\ BoundInv /\ [Next]_vars => BoundInv'
<1> SUFFICES ASSUME KycInv, KycInv', BoundInv, [Next]_vars PROVE BoundInv'
  OBVIOUS
<1>1. CASE UNCHANGED vars
  BY <1>1 DEF vars, history, BoundInv, Budget, At
<1>2. CASE \E w \in Worker : Turn(w)
  BY <1>2, TurnKeeps
<1>3. CASE \E w \in Worker, k \in KycId : NotFound(w, k)
  BY <1>1, <1>3 DEF NotFound
<1> QED BY <1>1, <1>2, <1>3, StartTurns, PassTurns, FailTurns, UploadTurns, InsertKycTurns, ConsentTurns,
           UpdateRowTurns, AddressTurns, DeleteRowTurns DEF Next

LEMMA BoundInit == Init => BoundInv
<1> SUFFICES ASSUME Init PROVE BoundInv
  OBVIOUS
<1>1. /\ filed = 0 /\ uploads = 0 /\ moves = 0 /\ started = 0 /\ Len(address) = Len(Earlier)
      /\ Len(Earlier) \in Nat /\ pii = {} /\ hurt = {} /\ \A w \in Worker : req[w] = Idle
      /\ 0 \in 0 .. MaxRequest
  BY KycAssumption, AddressAssumption DEF Init
<1>2. At(FileStages) = {} /\ At(UploadStages) = {} /\ At(MoveStages) = {}
  BY <1>1 DEF At, Idle, FileStages, UploadStages, MoveStages
<1>3. Budget(filed, FileStages) /\ Budget(uploads, UploadStages) /\ Budget(moves, MoveStages)
  BY <1>1, <1>2, FS_EmptySet DEF Budget
<1> QED BY <1>1, <1>3 DEF BoundInv, Idle

(* Every variable keeps its type: in particular no counter passes the       *)
(* number of requests accepted, as each of them files, uploads and writes  *)
(* an address once at most.                                                *)
THEOREM TypeCorrect == Spec => []TypeOK
<1>1. KycInv /\ BoundInv /\ [Next]_vars => BoundInv'
  BY Inductive, BoundStep
<1> QED BY <1>1, Invariance, BoundInit, BoundIsTyped, PTL DEF Spec

----------------------------------------------------------------------------------------------------------------------------------------------------------
(* The tables.  A user has one row in either, and a verification that was   *)
(* let in is by somebody whose role was found, which no employee's is.     *)
TablesInv ==
  /\ \A j, k \in DOMAIN kyc : kyc[j].kind = kyc[k].kind /\ kyc[j].user = kyc[k].user => j = k
  /\ \A w \in Worker : req[w].at = "verify" =>
       /\ HasRole(req[w].by)
       /\ Exists(req[w].id) => req[w].kind = kyc[req[w].id].kind

(* What a step may do to the rows. *)
SameRow(j) == kyc'[j].kind = kyc[j].kind /\ kyc'[j].user = kyc[j].user
Kept(j) == SameRow(j) /\ kyc'[j].status = kyc[j].status
SameRows == DOMAIN kyc' = DOMAIN kyc /\ \A j \in DOMAIN kyc : Kept(j)
Inserts(k) ==
  /\ k \in KycId /\ k = filed + 1 /\ DOMAIN kyc' = DOMAIN kyc \cup {k}
  /\ \A j \in DOMAIN kyc : j < k /\ Kept(j)
  /\ kyc'[k].status = "PENDING" /\ ~Filed(kyc'[k].kind, kyc'[k].user)
Verifies(k) ==
  /\ DOMAIN kyc' = DOMAIN kyc /\ SameRow(k) /\ \A j \in DOMAIN kyc : j # k => Kept(j)
  /\ kyc[k].kind = "user" /\ kyc'[k].status \in Statuses
Removes(k) == DOMAIN kyc' = DOMAIN kyc \ {k} /\ \A j \in DOMAIN kyc' : Kept(j)

Changes == \/ SameRows
           \/ \E k \in Nat : Inserts(k)
           \/ \E k \in DOMAIN kyc : Verifies(k) \/ Removes(k)

LEMMA UpdateRowChanges == ASSUME KycInv, NEW w \in Worker, UpdateRow(w) PROVE SameRows
<1>1. kyc \in [DOMAIN kyc -> RowType]
  BY DEF KycInv, TypeInv
<1>2. \/ kyc' = kyc
      \/ \E f : kyc' = [kyc EXCEPT ![req[w].id].file = f]
  BY DEF UpdateRow
<1>3. CASE kyc' = kyc
  BY <1>3 DEF SameRows, Kept, SameRow
<1>4. ASSUME NEW f, kyc' = [kyc EXCEPT ![req[w].id].file = f] PROVE SameRows
  BY <1>1, <1>4 DEF SameRows, Kept, SameRow, RowType
<1> QED BY <1>2, <1>3, <1>4

LEMMA InsertChanges ==
  ASSUME KycInv, KycInv', TypeOK', NEW w \in Worker, InsertKyc(w)
  PROVE  \E k \in Nat : Inserts(k)
<1> PICK r, k : r = req[w] /\ k = filed + 1
  OBVIOUS
<1>1. /\ DOMAIN kyc' = DOMAIN kyc \cup {k} /\ \A j \in DOMAIN kyc : j # k => kyc'[j] = kyc[j]
      /\ kyc'[k] = [kind |-> r.kind, user |-> r.user, address |-> r.address, file |-> r.new,
                    status |-> "PENDING", verifiedAt |-> FALSE]
      /\ filed' = k /\ ~Filed(r.kind, r.user)
  BY DEF InsertKyc
<1>2. filed \in Nat /\ \A j \in DOMAIN kyc : j < k
  BY DEF KycInv, TypeInv
<1>3. k \in KycId
  <2>1. filed' \in 0 .. MaxRequest
    BY DEF TypeOK
  <2> QED BY <1>1, <1>2, <2>1, KycAssumption DEF KycId
<1> QED BY <1>1, <1>2, <1>3 DEF Inserts, Kept, SameRow

LEMMA VerifyChanges ==
  ASSUME KycInv, TablesInv, NEW w \in Worker, NEW s \in Statuses, VerifyWrite(w, s)
  PROVE  \E k \in DOMAIN kyc : Verifies(k)
<1> PICK k : k = req[w].id
  OBVIOUS
<1>1. k \in DOMAIN kyc /\ kyc' = [kyc EXCEPT ![k] = Stamp(@, s)]
  BY DEF VerifyWrite, Exists
<1>2. kyc \in [DOMAIN kyc -> RowType]
  BY DEF KycInv, TypeInv
<1>3. kyc[k].kind = "user"
  <2>1. req[w].by = Verifier(req[w].kind) /\ HasRole(req[w].by) /\ req[w].kind = kyc[k].kind
    BY <1>1 DEF VerifyWrite, TablesInv, Exists
  <2> QED BY <2>1 DEF Verifier, HasRole
<1>4. kyc'[k] = Stamp(kyc[k], s) /\ DOMAIN kyc' = DOMAIN kyc
      /\ \A j \in DOMAIN kyc : j # k => kyc'[j] = kyc[j]
  BY <1>1, <1>2
<1>5. /\ Stamp(kyc[k], s).kind = kyc[k].kind /\ Stamp(kyc[k], s).user = kyc[k].user
      /\ Stamp(kyc[k], s).status = s
  BY <1>1, <1>2 DEF Stamp, RowType
<1>6. Verifies(k)
  BY <1>1, <1>3, <1>4, <1>5 DEF Verifies, Kept, SameRow
<1> QED BY <1>1, <1>6

LEMMA DeleteChanges ==
  ASSUME NEW w \in Worker, DeleteRow(w) PROVE \E k \in DOMAIN kyc : Removes(k)
<1>1. req[w].id \in DOMAIN kyc /\ kyc' = [k \in DOMAIN kyc \ {req[w].id} |-> kyc[k]]
  BY DEF DeleteRow, Exists
<1>2. Removes(req[w].id)
  BY <1>1 DEF Removes, Kept, SameRow
<1> QED BY <1>1, <1>2

LEMMA StepChanges == KycInv /\ KycInv' /\ TypeOK' /\ TablesInv /\ [Next]_vars => Changes
<1> SUFFICES ASSUME KycInv, KycInv', TypeOK', TablesInv, [Next]_vars PROVE Changes
  OBVIOUS
<1>1. CASE kyc' = kyc
  BY <1>1 DEF Changes, SameRows, Kept, SameRow
<1>2. CASE \E w \in Worker : UpdateRow(w)
  BY <1>2, UpdateRowChanges DEF Changes
<1>3. CASE \E w \in Worker : InsertKyc(w)
  BY <1>3, InsertChanges DEF Changes
<1>4. CASE \E w \in Worker, s \in {"PENDING", "VERIFIED", "REJECTED"} : VerifyWrite(w, s)
  BY <1>4, VerifyChanges DEF Changes, Statuses
<1>5. CASE \E w \in Worker : DeleteRow(w)
  BY <1>5, DeleteChanges DEF Changes
<1>6. ASSUME NEW w \in Worker,
             \/ \E kind \in Kind, u \in User, p \in Filing, f \in BOOLEAN :
                  \E types \in Payloads(kind) : CreateRead(w, kind, u, p, types, f)
             \/ FindAddress(w) \/ CreateAddress(w) \/ SafeUpload(w)
             \/ CreateConsent(w) \/ CreateAnswer(w)
      PROVE  kyc' = kyc
  BY <1>6 DEF CreateRead, FindAddress, CreateAddress, SafeUpload, CreateConsent, CreateAnswer
<1>7. ASSUME NEW w \in Worker,
             \/ \E k \in KycId, p \in Edit \cup {None}, f, i \in BOOLEAN :
                  UpdateRead(w, k, p, f, i)
             \/ DeleteOld(w) \/ UploadNew(w) \/ ReadAddress(w)
             \/ FindOtherAddress(w) \/ UpdateAddress(w) \/ UpdateAnswer(w)
      PROVE  kyc' = kyc
  BY <1>7 DEF UpdateRead, DeleteOld, UploadNew, ReadAddress, FindOtherAddress, UpdateAddress,
              UpdateAnswer
<1>8. ASSUME NEW w \in Worker,
             \/ \E k \in KycId, by \in {"ROOT", "USER", "EMPLOYEE"} : VerifyRead(w, k, by)
             \/ VerifyAnswer(w)
             \/ \E k \in KycId : DeleteRead(w, k)
             \/ \E k \in KycId : NotFound(w, k)
      PROVE  kyc' = kyc
  <2>1. ASSUME NEW k \in KycId, NEW by, VerifyRead(w, k, by) PROVE kyc' = kyc
    BY <2>1 DEF VerifyRead
  <2>2. ASSUME NEW k \in KycId, DeleteRead(w, k) PROVE kyc' = kyc
    BY <2>2 DEF DeleteRead
  <2>3. ASSUME NEW k \in KycId, NotFound(w, k) PROVE kyc' = kyc
    BY <2>3 DEF NotFound, vars
  <2>4. CASE VerifyAnswer(w)
    BY <2>4 DEF VerifyAnswer
  <2> QED BY <1>8, <2>1, <2>2, <2>3, <2>4
<1>9. ASSUME NEW w \in Worker, Refuse(w) \/ Fail(w) PROVE kyc' = kyc
  <2>1. CASE Refuse(w)
    BY <2>1 DEF Refuse
  <2>2. CASE Fail(w)
    BY <2>2 DEF Fail
  <2> QED BY <1>9, <2>1, <2>2
<1>10. CASE UNCHANGED vars
  BY <1>1, <1>10 DEF vars
<1> QED
  BY <1>1, <1>2, <1>3, <1>4, <1>5, <1>6, <1>7, <1>8, <1>9, <1>10 DEF Next

(* A row that was there and is, is of the same user and service. *)
LEMMA OldRows ==
  ASSUME Changes
  PROVE  /\ \A j \in DOMAIN kyc : j \in DOMAIN kyc' => SameRow(j)
         /\ DOMAIN kyc' \subseteq DOMAIN kyc \/ \E n \in Nat : Inserts(n)
<1>1. CASE SameRows
  BY <1>1 DEF SameRows, Kept
<1>2. CASE \E n \in Nat : Inserts(n)
  BY <1>2 DEF Inserts, Kept
<1>3. ASSUME NEW n \in DOMAIN kyc, Verifies(n)
      PROVE  DOMAIN kyc' = DOMAIN kyc /\ \A j \in DOMAIN kyc : SameRow(j)
  BY <1>3 DEF Verifies, Kept
<1>4. ASSUME NEW n \in DOMAIN kyc, Removes(n)
      PROVE  DOMAIN kyc' \subseteq DOMAIN kyc /\ \A j \in DOMAIN kyc' : SameRow(j)
  BY <1>4 DEF Removes, Kept
<1> QED BY <1>1, <1>2, <1>3, <1>4 DEF Changes

(* A verification in flight came in by VerifyRead. *)
LEMMA Passes ==
  ASSUME KycInv, NEW w \in Worker, NEW s, Continue(w, s), s.at # "verify"
  PROVE  \A v \in Worker : req'[v].at = "verify" => req'[v] = req[v]
  BY DEF KycInv, TypeInv, Continue

LEMMA MoveOnPasses ==
  ASSUME KycInv, NEW w \in Worker, NEW at, at # "verify", Continue(w, [req[w] EXCEPT !.at = at])
  PROVE  \A v \in Worker : req'[v].at = "verify" => req'[v] = req[v]
<1>1. [req[w] EXCEPT !.at = at].at = at
  BY DEF KycInv, TypeInv, RequestType
<1> QED BY <1>1, Passes

LEMMA EndPasses ==
  ASSUME KycInv, NEW w \in Worker, Finish(w)
  PROVE  \A v \in Worker : req'[v].at = "verify" => req'[v] = req[v]
<1>1. Idle.at # "verify"
  BY DEF Idle
<1> QED BY <1>1, Passes DEF Finish

LEMMA UploadPasses ==
  ASSUME KycInv, NEW w \in Worker, NEW at, at # "verify", Upload(w, at) \/ NoUpload(w, at)
  PROVE  \A v \in Worker : req'[v].at = "verify" => req'[v] = req[v]
<1>1. CASE Continue(w, [req[w] EXCEPT !.at = at])
  BY <1>1, MoveOnPasses
<1>2. CASE Continue(w, [req[w] EXCEPT !.at = at, !.new = uploads + 1])
  <2>1. [req[w] EXCEPT !.at = at, !.new = uploads + 1].at = at
    BY DEF KycInv, TypeInv, RequestType
  <2> QED BY <1>2, <2>1, Passes
<1> QED BY <1>1, <1>2 DEF Upload, NoUpload

LEMMA VerifiersEnter ==
  ASSUME KycInv, NEW w \in Worker, NEW v \in Worker, req'[v].at = "verify", req'[v] # req[v]
  PROVE  /\ \A kind \in Kind, u \in User, p \in Filing, f \in BOOLEAN :
              \A types \in Payloads(kind) : ~CreateRead(w, kind, u, p, types, f)
         /\ ~FindAddress(w) /\ ~CreateAddress(w) /\ ~SafeUpload(w) /\ ~InsertKyc(w)
         /\ ~CreateConsent(w) /\ ~CreateAnswer(w)
         /\ \A k \in KycId, p \in Edit \cup {None}, f, i \in BOOLEAN : ~UpdateRead(w, k, p, f, i)
         /\ ~DeleteOld(w) /\ ~UploadNew(w) /\ ~UpdateRow(w) /\ ~ReadAddress(w)
         /\ ~FindOtherAddress(w) /\ ~UpdateAddress(w) /\ ~UpdateAnswer(w)
         /\ \A s \in {"PENDING", "VERIFIED", "REJECTED"} : ~VerifyWrite(w, s)
         /\ ~VerifyAnswer(w)
         /\ \A k \in KycId : ~DeleteRead(w, k)
         /\ ~DeleteRow(w) /\ ~Refuse(w) /\ ~Fail(w)
<1>0. req[w] \in RequestType
  BY DEF KycInv, TypeInv
<1>1. ASSUME NEW s, Continue(w, s), s.at # "verify" PROVE FALSE
  BY <1>1, Passes
<1>2. ASSUME NEW at, at # "verify", Continue(w, [req[w] EXCEPT !.at = at]) PROVE FALSE
  BY <1>2, MoveOnPasses
<1>3. ~Finish(w)
  BY EndPasses
<1>4. \A kind \in Kind, u \in User, p \in Filing, f \in BOOLEAN :
        \A types \in Payloads(kind) : ~CreateRead(w, kind, u, p, types, f)
  <2> SUFFICES ASSUME NEW kind \in Kind, NEW u \in User, NEW p \in Filing, NEW f \in BOOLEAN,
                      NEW types \in Payloads(kind), CreateRead(w, kind, u, p, types, f)
               PROVE  FALSE
    OBVIOUS
  <2> DEFINE s == [Idle EXCEPT !.at = "create", !.kind = kind, !.user = u, !.place = p,
                               !.withFile = f, !.todo = types, !.before = filed]
  <2>1. Continue(w, s)
    BY DEF CreateRead, Start
  <2>2. s.at = "create"
    BY DEF Idle
  <2> QED BY <1>1, <2>1, <2>2
<1>5. \A k \in KycId, p \in Edit \cup {None}, f, i \in BOOLEAN : ~UpdateRead(w, k, p, f, i)
  <2> SUFFICES ASSUME NEW k \in KycId, NEW p \in Edit \cup {None}, NEW f \in BOOLEAN,
                      NEW i \in BOOLEAN, UpdateRead(w, k, p, f, i)
               PROVE  FALSE
    OBVIOUS
  <2> DEFINE s == [Idle EXCEPT !.at = IF f THEN "update" ELSE "rowUpdate",
                               !.kind = kyc[k].kind, !.id = k, !.place = p,
                               !.old = kyc[k].file, !.address = kyc[k].address,
                               !.withFile = f, !.withPii = i]
  <2>1. Continue(w, s)
    BY DEF UpdateRead, Start
  <2>2. s.at \in {"update", "rowUpdate"}
    BY DEF Idle
  <2> QED BY <1>1, <2>1, <2>2
<1>6. \A k \in KycId : ~DeleteRead(w, k)
  <2> SUFFICES ASSUME NEW k \in KycId, DeleteRead(w, k) PROVE FALSE
    OBVIOUS
  <2> DEFINE s == [Idle EXCEPT !.at = "delete", !.kind = kyc[k].kind, !.id = k]
  <2>1. Continue(w, s)
    BY DEF DeleteRead, Start
  <2>2. s.at = "delete"
    BY DEF Idle
  <2> QED BY <1>1, <2>1, <2>2
<1>7. ~SafeUpload(w) /\ ~UploadNew(w)
  BY UploadPasses DEF SafeUpload, UploadNew
<1>8. ~FindAddress(w)
  <2>1. [req[w] EXCEPT !.at = "address", !.seen = moves].at = "address"
    BY <1>0 DEF RequestType
  <2> QED BY <1>1, <2>1 DEF FindAddress
<1>9. ~CreateAddress(w)
  <2>1. [req[w] EXCEPT !.at = "documents", !.address = Len(address) + 1].at = "documents"
    BY <1>0 DEF RequestType
  <2> QED BY <1>1, <2>1 DEF CreateAddress
<1>10. ~InsertKyc(w)
  <2>1. [req[w] EXCEPT !.at = "consents", !.id = filed + 1].at = "consents"
    BY <1>0 DEF RequestType
  <2> QED BY <1>1, <2>1 DEF InsertKyc
<1>11. ~CreateConsent(w)
  <2> DEFINE t == NextConsent(req[w])
             at == IF req[w].todo = {t} THEN "created" ELSE "consents"
             s == [req[w] EXCEPT !.todo = @ \ {t}, !.at = at]
  <2>1. s.at = at
    BY <1>0 DEF RequestType
  <2>2. CreateConsent(w) => Continue(w, s)
    BY DEF CreateConsent
  <2>3. at # "verify"
    OBVIOUS
  <2> HIDE DEF s, at
  <2> QED BY <1>1, <2>1, <2>2, <2>3
<1>12. ~FindOtherAddress(w)
  <2>1. [req[w] EXCEPT !.at = "place", !.seen = moves].at = "place"
    BY <1>0 DEF RequestType
  <2> QED BY <1>1, <2>1 DEF FindOtherAddress
<1>13. ~UpdateRow(w)
  <2> DEFINE at == IF req[w].place = None THEN "consent" ELSE "move"
  <2>1. UpdateRow(w) => Continue(w, [req[w] EXCEPT !.at = at])
    BY DEF UpdateRow
  <2> QED BY <1>2, <2>1
<1>14. ~DeleteOld(w) /\ ~UpdateAddress(w) /\ ~DeleteRow(w)
  BY <1>2 DEF DeleteOld, UpdateAddress, DeleteRow
<1>15. \A s \in {"PENDING", "VERIFIED", "REJECTED"} : ~VerifyWrite(w, s)
  BY <1>2 DEF VerifyWrite
<1>16. ~CreateAnswer(w) /\ ~UpdateAnswer(w) /\ ~VerifyAnswer(w) /\ ~Refuse(w) /\ ~Fail(w)
  BY <1>3 DEF CreateAnswer, UpdateAnswer, VerifyAnswer, Refuse, Fail
<1>17. ~ReadAddress(w)
  <2> PICK base : base = address[req[w].address]
    OBVIOUS
  <2>1. [req[w] EXCEPT !.at = "look", !.base = base, !.read = moves].at = "look"
    BY <1>0 DEF RequestType
  <2> QED BY <1>1, <2>1 DEF ReadAddress
<1> QED BY <1>4, <1>5, <1>6, <1>7, <1>8, <1>9, <1>10, <1>11, <1>12, <1>13, <1>14, <1>15, <1>16,
           <1>17

LEMMA VerifiersNext ==
  ASSUME KycInv, TablesInv, Changes, [Next]_vars, NEW v \in Worker, req'[v].at = "verify"
  PROVE  /\ HasRole(req'[v].by)
         /\ req'[v].id \in DOMAIN kyc' => req'[v].kind = kyc'[req'[v].id].kind
<1>1. CASE req'[v] = req[v]
  <2>1. HasRole(req[v].by) /\ (req[v].id \in DOMAIN kyc => req[v].kind = kyc[req[v].id].kind)
    BY <1>1 DEF TablesInv, Exists
  <2>2. req[v].id \in 1 .. filed /\ filed \in Nat
    BY <1>1 DEF KycInv, Carries, RequestOK, TypeInv
  <2>3. ASSUME req[v].id \in DOMAIN kyc'
        PROVE  req[v].id \in DOMAIN kyc /\ kyc'[req[v].id].kind = kyc[req[v].id].kind
    <3>1. req[v].id \in DOMAIN kyc
      <4>1. CASE DOMAIN kyc' \subseteq DOMAIN kyc
        BY <2>3, <4>1
      <4>2. ASSUME NEW n \in Nat, Inserts(n) PROVE req[v].id \in DOMAIN kyc
        BY <2>2, <2>3, <4>2 DEF Inserts
      <4> QED BY <4>1, <4>2, OldRows
    <3> QED BY <2>3, <3>1, OldRows DEF SameRow
  <2> QED BY <1>1, <2>1, <2>3
<1>2. ASSUME NEW w \in Worker, NEW k \in KycId, NEW by \in {"ROOT", "USER", "EMPLOYEE"},
             VerifyRead(w, k, by), req'[v] # req[v]
      PROVE  /\ HasRole(req'[v].by)
             /\ req'[v].id \in DOMAIN kyc' => req'[v].kind = kyc'[req'[v].id].kind
  <2> DEFINE s == [Idle EXCEPT !.at = "verify", !.kind = kyc[k].kind, !.id = k, !.by = by]
  <2>1. Continue(w, s) /\ kyc' = kyc /\ HasRole(by)
    BY <1>2 DEF VerifyRead, Start
  <2>2. v = w /\ req'[v] = s
    BY <1>2, <2>1 DEF KycInv, TypeInv, Continue
  <2>3. s.by = by /\ s.id = k /\ s.kind = kyc[k].kind
    BY DEF Idle
  <2> QED BY <2>1, <2>2, <2>3
<1>3. ASSUME req'[v] # req[v]
      PROVE  \E w \in Worker, k \in KycId, by \in {"ROOT", "USER", "EMPLOYEE"} : VerifyRead(w, k, by)
  <2>1. \A w \in Worker, k \in KycId : ~NotFound(w, k)
    BY <1>3 DEF NotFound, vars
  <2>2. Next
    BY <1>3 DEF vars
  <2>3. PICK w \in Worker :
          \/ \E k \in KycId, by \in {"ROOT", "USER", "EMPLOYEE"} : VerifyRead(w, k, by)
          \/ \E k \in KycId : NotFound(w, k)
    BY <1>3, <2>2, VerifiersEnter, ZenonT(60) DEF Next
  <2> QED BY <2>1, <2>3
<1> QED BY <1>1, <1>2, <1>3

LEMMA TablesNext ==
  KycInv /\ KycInv' /\ TypeOK' /\ TablesInv /\ [Next]_vars => TablesInv'
<1> SUFFICES ASSUME KycInv, KycInv', TypeOK', TablesInv, [Next]_vars PROVE TablesInv'
  OBVIOUS
<1>1. Changes
  BY StepChanges
<1>2. ASSUME NEW j \in DOMAIN kyc', NEW k \in DOMAIN kyc',
             kyc'[j].kind = kyc'[k].kind, kyc'[j].user = kyc'[k].user
      PROVE  j = k
  <2>1. ASSUME NEW n \in Nat, Inserts(n) PROVE j = k
    BY <1>2, <2>1 DEF TablesInv, Inserts, Kept, SameRow, Filed
  <2>2. CASE DOMAIN kyc' \subseteq DOMAIN kyc
    <3>1. j \in DOMAIN kyc /\ k \in DOMAIN kyc /\ SameRow(j) /\ SameRow(k)
      BY <1>1, <2>2, OldRows
    <3> QED BY <1>2, <3>1 DEF TablesInv, SameRow
  <2> QED BY <1>1, <2>1, <2>2, OldRows
<1> QED BY <1>1, <1>2, VerifiersNext DEF TablesInv, Exists

-----------------------------------------------------------------------------
(* The step of a table. *)
LEMMA InsertsTable ==
  ASSUME KycInv, KycInv', NEW kind, NEW n \in Nat, Inserts(n)
  PROVE  \/ UNCHANGED TableOf(kind)
         \/ \E u \in User :
              /\ TableOf(kind)[u] = {}
              /\ \A v \in User : \A r \in TableOf(kind)[v] : r.born <= n
              /\ TableOf(kind)' = [TableOf(kind) EXCEPT ![u] = {[born |-> n, status |-> "PENDING"]}]
<1> DEFINE u == kyc'[n].user
<1>1. /\ DOMAIN kyc' = DOMAIN kyc \cup {n} /\ n \notin DOMAIN kyc
      /\ kyc'[n].status = "PENDING" /\ ~Filed(kyc'[n].kind, u)
      /\ \A j \in DOMAIN kyc : j < n /\ Kept(j)
  BY DEF Inserts
<1>2. \A v \in User : RowsOf(kind, v)' = IF kyc'[n].kind = kind /\ v = u THEN RowsOf(kind, v) \cup {n}
                                         ELSE RowsOf(kind, v)
  BY <1>1 DEF RowsOf, Kept, SameRow
<1>3. \A v \in User : \A j \in RowsOf(kind, v) : kyc'[j].status = kyc[j].status
  BY <1>1 DEF RowsOf, Kept
<1>4. CASE kyc'[n].kind # kind
  <2>1. \A v \in User : TableOf(kind)'[v] = TableOf(kind)[v]
    BY <1>2, <1>3, <1>4 DEF TableOf
  <2> QED BY <2>1 DEF TableOf
<1>5. CASE kyc'[n].kind = kind
  <2>1. u \in User
    BY <1>1 DEF KycInv, TypeInv, RowType
  <2>2. RowsOf(kind, u) = {} /\ TableOf(kind)[u] = {}
    BY <1>1, <1>5, <2>1 DEF RowsOf, Filed, TableOf
  <2>3. \A v \in User : v # u => TableOf(kind)'[v] = TableOf(kind)[v]
    BY <1>2, <1>3 DEF TableOf
  <2>4. TableOf(kind)'[u] = {[born |-> n, status |-> "PENDING"]}
    BY <1>1, <1>2, <1>5, <2>1, <2>2 DEF TableOf
  <2>5. \A v \in User : \A r \in TableOf(kind)[v] : r.born <= n
    <3> SUFFICES ASSUME NEW v \in User, NEW j \in RowsOf(kind, v) PROVE j <= n
      BY DEF TableOf
    <3>1. j \in DOMAIN kyc /\ j \in Nat
      BY DEF RowsOf, KycInv, TypeInv
    <3> QED BY <1>1, <3>1
  <2>6. TableOf(kind)' = [TableOf(kind) EXCEPT ![u] = {[born |-> n, status |-> "PENDING"]}]
    BY <2>1, <2>3, <2>4 DEF TableOf
  <2> QED BY <2>1, <2>2, <2>5, <2>6
<1> QED BY <1>4, <1>5

LEMMA VerifiesTable ==
  ASSUME KycInv, TablesInv, NEW kind, NEW n \in DOMAIN kyc, Verifies(n)
  PROVE  \/ UNCHANGED TableOf(kind)
         \/ /\ kind = "user"
            /\ \E u \in User, s \in Statuses : \E r \in TableOf(kind)[u] :
                 TableOf(kind)' = [TableOf(kind) EXCEPT ![u] = {[r EXCEPT !.status = s]}]
<1> DEFINE u == kyc[n].user
           r == [born |-> n, status |-> kyc[n].status]
           s == kyc'[n].status
<1>1. /\ DOMAIN kyc' = DOMAIN kyc /\ \A j \in DOMAIN kyc : SameRow(j)
      /\ \A j \in DOMAIN kyc : j # n => Kept(j)
  BY DEF Verifies, Kept
<1>2. \A v \in User : RowsOf(kind, v)' = RowsOf(kind, v)
  BY <1>1 DEF RowsOf, SameRow
<1>3. \A v \in User : n \notin RowsOf(kind, v) => TableOf(kind)'[v] = TableOf(kind)[v]
  <2> SUFFICES ASSUME NEW v \in User, n \notin RowsOf(kind, v)
               PROVE  TableOf(kind)'[v] = TableOf(kind)[v]
    OBVIOUS
  <2>1. \A j \in RowsOf(kind, v) : kyc'[j].status = kyc[j].status
    BY <1>1 DEF RowsOf, Kept
  <2> QED BY <1>2, <2>1 DEF TableOf
<1>4. CASE kyc[n].kind # kind
  <2>1. \A v \in User : n \notin RowsOf(kind, v)
    BY <1>4 DEF RowsOf
  <2> QED BY <1>3, <2>1 DEF TableOf
<1>5. CASE kyc[n].kind = kind
  <2>1. u \in User /\ kind = "user" /\ s \in Statuses
    BY <1>5 DEF KycInv, TypeInv, RowType, Verifies
  <2>2. RowsOf(kind, u) = {n}
    BY <1>5, <2>1 DEF RowsOf, TablesInv
  <2>3. \A v \in User : v # u => n \notin RowsOf(kind, v)
    BY DEF RowsOf
  <2>4. r \in TableOf(kind)[u]
    BY <2>1, <2>2 DEF TableOf
  <2>5. TableOf(kind)'[u] = {[r EXCEPT !.status = s]}
    <3>1. TableOf(kind)'[u] = {[born |-> n, status |-> s]}
      BY <1>2, <2>1, <2>2 DEF TableOf
    <3> QED BY <3>1
  <2> HIDE DEF u, r, s
  <2>6. TableOf(kind)' = [TableOf(kind) EXCEPT ![u] = {[r EXCEPT !.status = s]}]
    BY <1>3, <2>1, <2>3, <2>5 DEF TableOf
  <2> QED BY <2>1, <2>4, <2>6
<1> QED BY <1>4, <1>5

LEMMA RemovesTable ==
  ASSUME KycInv, TablesInv, NEW kind, NEW n \in DOMAIN kyc, Removes(n)
  PROVE  \/ UNCHANGED TableOf(kind)
         \/ \E u \in User : /\ TableOf(kind)[u] # {}
                            /\ TableOf(kind)' = [TableOf(kind) EXCEPT ![u] = {}]
<1> PICK u : u = kyc[n].user
  OBVIOUS
<1>1. DOMAIN kyc' = DOMAIN kyc \ {n} /\ \A j \in DOMAIN kyc' : Kept(j)
  BY DEF Removes
<1>2. \A v \in User : RowsOf(kind, v)' = RowsOf(kind, v) \ {n}
  BY <1>1 DEF RowsOf, Kept, SameRow
<1>3. \A v \in User : n \notin RowsOf(kind, v) => TableOf(kind)'[v] = TableOf(kind)[v]
  <2> SUFFICES ASSUME NEW v \in User, n \notin RowsOf(kind, v)
               PROVE  TableOf(kind)'[v] = TableOf(kind)[v]
    OBVIOUS
  <2>1. RowsOf(kind, v)' = RowsOf(kind, v)
    BY <1>2
  <2>2. \A j \in RowsOf(kind, v) : kyc'[j].status = kyc[j].status
    BY <1>1, <2>1 DEF RowsOf, Kept
  <2> QED BY <2>1, <2>2 DEF TableOf
<1>4. CASE kyc[n].kind # kind
  <2>1. \A v \in User : n \notin RowsOf(kind, v)
    BY <1>4 DEF RowsOf
  <2> QED BY <1>3, <2>1 DEF TableOf
<1>5. CASE kyc[n].kind = kind
  <2>1. u \in User
    BY DEF KycInv, TypeInv, RowType
  <2>2. RowsOf(kind, u) = {n}
    BY <1>5, <2>1 DEF RowsOf, TablesInv
  <2>3. \A v \in User : v # u => n \notin RowsOf(kind, v)
    BY DEF RowsOf
  <2>4. TableOf(kind)[u] # {} /\ TableOf(kind)'[u] = {}
    <3>1. RowsOf(kind, u)' = {}
      BY <1>2, <2>1, <2>2
    <3>2. TableOf(kind)'[u] = {}
      BY <2>1, <3>1 DEF TableOf
    <3>3. [born |-> n, status |-> kyc[n].status] \in TableOf(kind)[u]
      BY <2>1, <2>2 DEF TableOf
    <3> QED BY <3>2, <3>3
  <2>5. TableOf(kind)' = [TableOf(kind) EXCEPT ![u] = {}]
    BY <1>3, <2>1, <2>3, <2>4 DEF TableOf
  <2> QED BY <2>1, <2>4, <2>5
<1> QED BY <1>4, <1>5

LEMMA SameTable == ASSUME SameRows, NEW kind PROVE UNCHANGED TableOf(kind)
<1>1. \A v \in User : RowsOf(kind, v)' = RowsOf(kind, v)
  BY DEF SameRows, RowsOf, Kept, SameRow
<1>2. \A v \in User : \A j \in RowsOf(kind, v) : kyc'[j].status = kyc[j].status
  BY DEF SameRows, RowsOf, Kept
<1> QED BY <1>1, <1>2 DEF TableOf

LEMMA TablesStep ==
  KycInv /\ KycInv' /\ TypeOK' /\ TablesInv /\ [Next]_vars =>
    [UserTable!Next]_(TableOf("user")) /\ [BusinessTable!Next]_(TableOf("business"))
<1> SUFFICES ASSUME KycInv, KycInv', TablesInv, Changes
             PROVE  [UserTable!Next]_(TableOf("user")) /\ [BusinessTable!Next]_(TableOf("business"))
  BY StepChanges
<1>1. CASE SameRows
  BY <1>1, SameTable
<1>2. ASSUME NEW n \in Nat, Inserts(n)
      PROVE  [UserTable!Next]_(TableOf("user")) /\ [BusinessTable!Next]_(TableOf("business"))
  <2>1. n \in KycId
    BY <1>2 DEF Inserts
  <2>2. [UserTable!Next]_(TableOf("user"))
    BY <1>2, <2>1, InsertsTable DEF UserTable!Next, UserTable!File
  <2>3. [BusinessTable!Next]_(TableOf("business"))
    BY <1>2, <2>1, InsertsTable DEF BusinessTable!Next, BusinessTable!File
  <2> QED BY <2>2, <2>3
<1>3. ASSUME NEW n \in DOMAIN kyc, Verifies(n)
      PROVE  [UserTable!Next]_(TableOf("user")) /\ [BusinessTable!Next]_(TableOf("business"))
  <2>1. [UserTable!Next]_(TableOf("user"))
    BY <1>3, VerifiesTable DEF UserTable!Next, UserTable!Verify
  <2>2. UNCHANGED TableOf("business")
    BY <1>3, VerifiesTable
  <2> QED BY <2>1, <2>2
<1>4. ASSUME NEW n \in DOMAIN kyc, Removes(n)
      PROVE  [UserTable!Next]_(TableOf("user")) /\ [BusinessTable!Next]_(TableOf("business"))
  <2>1. [UserTable!Next]_(TableOf("user"))
    BY <1>4, RemovesTable DEF UserTable!Next, UserTable!Delete
  <2>2. [BusinessTable!Next]_(TableOf("business"))
    BY <1>4, RemovesTable DEF BusinessTable!Next, BusinessTable!Delete
  <2> QED BY <2>1, <2>2
<1> QED BY <1>1, <1>2, <1>3, <1>4 DEF Changes

LEMMA TablesInit == Init => TablesInv /\ UserTable!Init /\ BusinessTable!Init
<1> SUFFICES ASSUME Init PROVE TablesInv /\ UserTable!Init /\ BusinessTable!Init
  OBVIOUS
<1>1. DOMAIN kyc = {} /\ \A w \in Worker : req[w].at = "idle"
  BY DEF Init, Idle
<1>2. \A kind : TableOf(kind) = [u \in User |-> {}]
  BY <1>1 DEF TableOf, RowsOf
<1> QED BY <1>1, <1>2 DEF TablesInv, UserTable!Init, BusinessTable!Init

(* Whatever requests overlap and wherever they fail, the tables of the two  *)
(* services change as KycTable says and in no other way.                   *)
THEOREM TableRefinement == Spec => ImplementsKycTable
<1>1. KycInv /\ KycInv' /\ TypeOK' /\ TablesInv /\ [Next]_vars => TablesInv'
  BY TablesNext
<1> QED
  BY <1>1, Invariance, TypeCorrect, TablesInit, TablesStep, PTL
     DEF Spec, ImplementsKycTable, UserTable!Spec, BusinessTable!Spec
=============================================================================
