----------------------------- MODULE ImageProofs -----------------------------
(***************************************************************************)
(* What StoredImages guarantees for any owners, any number of requests at  *)
(* once, any file names and any clock.                                     *)
(***************************************************************************)
EXTENDS StoredImages, TLAPS

(* Where the keys of an owner come from: names kept in memory or on disk.  *)
NamesOf(o) == IF o \in Profile THEN Name ELSE DiskName
KeysOf(o) == {key \in put : key.name \in NamesOf(o)}

(* What a request carries, by its stage: what it uploaded or nothing, what  *)
(* it read, which at a setting may be a name from a DTO.                   *)
RequestOK(r) ==
  /\ r \in Request
  /\ r.at = "idle" => r = Idle
  /\ r.at # "idle" => /\ r.owner \in Owner
                      /\ r.name \in NamesOf(r.owner) \/ (OfSetting(r) /\ r.name = None)
                      /\ \/ r.old \in KeysOf(r.owner) \cup {None}
                         \/ OfSetting(r) /\ r.old \in told
                      /\ OfProfile(r) => r.at \in {"upload", "deleteOld", "write"}
  /\ r.at = "upload" => r.new = None /\ r.name # None
  /\ r.at \notin {"idle", "upload"} =>
       \/ r.new \in KeysOf(r.owner) /\ r.new.name = r.name
       \/ OfSetting(r) /\ r.new = None /\ r.at \in {"find", "write"}
  /\ r.at = "deleteOld" => r.old # None

TypeInv ==
  /\ TypeOK
  /\ \A o \in Owner : row[o] \in KeysOf(o) \cup {None} \/ (o \in Setting /\ row[o] \in told)
  /\ \A w \in Worker : RequestOK(req[w])

(* A name on disk belongs to one request, and its key is written once.     *)
DiskInv ==
  /\ \A v, w \in Worker : v # w /\ OfSetting(req[w]) /\ req[w].name # None =>
                           req[v].name # req[w].name
  /\ \A w \in Worker, key \in put :
       OfSetting(req[w]) /\ req[w].at = "upload" => key.name # req[w].name
  /\ \A key \in collided : key.name \in Name

(* A key that was written once, and that no setting took from a DTO, has   *)
(* one owner, and one request that wrote it.                               *)
Holds(o, key) == \/ row[o] = key
                 \/ \E w \in Worker : req[w].owner = o /\ key \in {req[w].old, req[w].new}
OneHolder == \A o, p \in Owner, key \in put \ (collided \cup told) :
               Holds(o, key) /\ Holds(p, key) => o = p
OneWriter == \A v, w \in Worker :
               v # w /\ req[w].new \in put \ collided => req[v].new # req[w].new

(* An image that was uploaded and not yet named is there, and only its     *)
(* request knows of it.                                                    *)
Pending(r) ==
  /\ r.new # None
  /\ \/ OfSetting(r) /\ r.at \in {"find", "write"}
     \/ OfProfile(r) /\ r.at \in {"deleteOld", "write"}
Fresh(w) ==
  Pending(req[w]) /\ req[w].new \notin collided \cup told =>
    /\ req[w].new \in bucket
    /\ \A o \in Owner : row[o] # req[w].new
    /\ \A v \in Worker : req[v].old # req[w].new

KeyInv == TypeInv /\ DiskInv /\ OneHolder /\ OneWriter /\ \A w \in Worker : Fresh(w)

(* The logo that an upsert is about to delete is no longer named.          *)
Superseded(w) ==
  OfSetting(req[w]) /\ req[w].at = "deleteOld" /\ req[w].old \notin told
    => \A o \in Owner : row[o] # req[w].old

(* A rollback takes a logo that a row names only after a lost answer.      *)
RollbackHurts(w) ==
  req[w].at = "rollback" /\ req[w].new \notin told
    => \A o \in Owner : row[o] = req[w].new => o \in hurt

Replacing(o) == \E w \in Worker :
  req[w].owner = o /\ req[w].at = "write" /\ req[w].old = row[o]
LostInv ==
  /\ \A o \in Owner : Lost(o) =>
       \/ o \in hurt
       \/ row[o] \in told
       \/ o \in Profile /\ (row[o] \in collided \/ Replacing(o))
  /\ \A w \in Worker : Superseded(w) /\ RollbackHurts(w)

(* The image that a profile update has deleted is gone or known to be left. *)
Dealt(w) ==
  OfProfile(req[w]) /\ req[w].at = "write" /\ req[w].old \in bucket \ collided
    => req[w].old \in left

Expected(key) ==
  \/ \E o \in Owner : row[o] = key
  \/ \E w \in Worker : /\ req[w].new = key
                       /\ Pending(req[w]) \/ req[w].at = "rollback"
  \/ \E w \in Worker : OfSetting(req[w]) /\ req[w].at = "deleteOld" /\ req[w].old = key
  \/ key \in left
StrayInv == /\ \A key \in bucket \ collided : Expected(key)
            /\ \A w \in Worker : Dealt(w)

ImageInv == KeyInv /\ LostInv /\ StrayInv

-----------------------------------------------------------------------------
(* Types, and where keys come from. *)

LEMMA IdleOK == Idle \in Request /\ RequestOK(Idle)
  BY DEF Idle, Request, RequestOK, OfProfile, Image

LEMMA Apartness ==
  /\ None \notin Key /\ None \notin Owner /\ None \notin Name \cup DiskName
  /\ None \notin Key \cup Foreign
  /\ \A key \in Key : key.name \in Name => key.name \notin DiskName
  /\ \A o \in Profile : NamesOf(o) = Name /\ o \in Owner
  /\ \A o \in Setting : NamesOf(o) = DiskName /\ o \in Owner /\ o \notin Profile
  BY DistinctAssumption DEF NamesOf, Owner

LEMMA Continued ==
  ASSUME TypeInv, NEW w \in Worker, NEW s \in Request, Continue(w, s)
  PROVE /\ req' \in [Worker -> Request] /\ req'[w] = s
        /\ \A v \in Worker : v # w => req'[v] = req[v]
  BY DEF TypeInv, TypeOK, Continue

(* A step of a request that keeps its owner, its name and its key, and     *)
(* writes and deletes no other key; a row it writes gets its key or, at a  *)
(* setting, a name that is told.                                           *)
OwnStep(w, s) ==
  LET r == req[w]
  IN /\ r.at # "idle" /\ RequestOK(s) /\ Continue(w, s)
     /\ \/ s = Idle
        \/ /\ s.owner = r.owner /\ s.name = r.name /\ s.new = r.new
           /\ s.at \notin {"idle", "upload"} /\ s.old \in {r.old, row[r.owner]}
     /\ \/ row' = row
        \/ /\ row' = [row EXCEPT ![r.owner] = r.new]
           /\ r.at = "write" /\ r.new # None /\ ~Pending(s)
        \/ /\ row' = [row EXCEPT ![r.owner] = r.sent]
           /\ OfSetting(r) /\ r.sent \in told'
     /\ bucket' \subseteq bucket /\ bucket \ bucket' \subseteq {r.old, r.new}
     /\ Pending(s) => Pending(r) /\ bucket \ bucket' \subseteq {r.old}
     /\ left' \subseteq put /\ hurt' \subseteq Owner
     /\ told \subseteq told' /\ told' \subseteq Key \cup Foreign
     /\ UNCHANGED <<now, started, put, collided>>

LEMMA OwnRow ==
  ASSUME TypeInv, NEW w \in Worker, NEW s, OwnStep(w, s), NEW o \in Owner
  PROVE \/ row'[o] = row[o]
        \/ /\ o = req[w].owner /\ row'[o] = req[w].new
           /\ req[w].at = "write" /\ req[w].new # None /\ ~Pending(s)
           /\ row' = [row EXCEPT ![req[w].owner] = req[w].new]
        \/ o = req[w].owner /\ o \in Setting /\ row'[o] \in told'
  BY DEF OwnStep, TypeInv, TypeOK, OfSetting

LEMMA OwnStepType ==
  ASSUME TypeInv, NEW w \in Worker, NEW s, OwnStep(w, s)
  PROVE TypeInv'
<1>1. /\ s \in Request /\ RequestOK(s) /\ UNCHANGED <<now, started, put, collided>>
      /\ bucket' \subseteq put /\ left' \subseteq put /\ hurt' \subseteq Owner
      /\ told \subseteq told' /\ told' \subseteq Key \cup Foreign
  BY DEF OwnStep, RequestOK, TypeInv, TypeOK
<1>2. /\ req' \in [Worker -> Request] /\ req'[w] = s
      /\ \A v \in Worker : v # w => req'[v] = req[v]
  BY <1>1, Continued DEF OwnStep
<1>3. \A o : KeysOf(o)' = KeysOf(o)
  BY <1>1 DEF KeysOf
<1>4. ASSUME NEW v \in Worker PROVE RequestOK(req[v])'
  <2>1. RequestOK(req[v]) \/ req'[v] = s
    BY <1>2 DEF TypeInv
  <2>2. PICK r : r = req'[v] /\ RequestOK(r)
    BY <1>1, <1>2 DEF TypeInv
  <2> QED BY <1>1, <1>3, <2>2 DEF RequestOK, OfSetting, OfProfile
<1>5. \A o \in Owner : row'[o] \in KeysOf(o) \cup {None} \/ (o \in Setting /\ row'[o] \in told')
  <2> SUFFICES ASSUME NEW o \in Owner
               PROVE row'[o] \in KeysOf(o) \cup {None} \/ (o \in Setting /\ row'[o] \in told')
    OBVIOUS
  <2>1. req[w].at = "write" /\ req[w].new # None => req[w].new \in KeysOf(req[w].owner)
    BY DEF TypeInv, RequestOK
  <2>2. row[o] \in KeysOf(o) \cup {None} \/ (o \in Setting /\ row[o] \in told)
    BY DEF TypeInv
  <2> QED BY <1>1, <2>1, <2>2, OwnRow
<1>6. row' \in [Owner -> Image]
  <2>1. \A o : KeysOf(o) \subseteq Key
    BY DEF KeysOf, TypeInv, TypeOK
  <2>2. \A o \in Owner : row'[o] \in Image
    BY <1>1, <1>5, <2>1 DEF Image
  <2>3. \E x : row' = [row EXCEPT ![req[w].owner] = x] \/ row' = row
    BY DEF OwnStep
  <2>4. DOMAIN row' = Owner /\ row' = [o \in Owner |-> row'[o]]
    BY <2>3 DEF TypeInv, TypeOK
  <2> QED BY <2>2, <2>4
<1>7. TypeOK'
  BY <1>1, <1>2, <1>6 DEF TypeInv, TypeOK, OwnStep
<1> QED BY <1>1, <1>3, <1>4, <1>5, <1>7 DEF TypeInv

LEMMA OwnStepKeeps ==
  ASSUME KeyInv, NEW w \in Worker, NEW s, OwnStep(w, s)
  PROVE KeyInv'
<1>0. TypeInv /\ TypeInv'
  BY OwnStepType DEF KeyInv
<1> DEFINE r == req[w]
<1>1. /\ s \in Request /\ r.owner \in Owner /\ put' = put /\ collided' = collided
      /\ told \subseteq told'
      /\ s = Idle \/ (/\ s.owner = r.owner /\ s.name = r.name /\ s.new = r.new
                      /\ s.at # "upload" /\ s.old \in {r.old, row[r.owner]})
  BY <1>0 DEF OwnStep, RequestOK, TypeInv
<1>2. /\ req'[w] = s
      /\ \A v \in Worker : v # w => req'[v] = req[v]
  BY <1>0, <1>1, Continued DEF OwnStep
<1>3. Idle.owner = None /\ Idle.name = None /\ Idle.old = None /\ Idle.new = None /\ Idle.at = "idle"
  BY DEF Idle
<1>4. DiskInv'
  <2>1. \A v \in Worker : OfSetting(req[v]) => req[v].name \in DiskName \cup {None}
    BY <1>0, Apartness DEF TypeInv, RequestOK, OfSetting, Idle
  <2>2. \A v, u \in Worker : v # u /\ OfSetting(req'[u]) /\ req'[u].name # None =>
          req'[v].name # req'[u].name
    BY <1>1, <1>2, <1>3, <2>1, Apartness DEF KeyInv, DiskInv, OfSetting, Owner
  <2>3. \A v \in Worker, key \in put :
          OfSetting(req'[v]) /\ req'[v].at = "upload" => key.name # req'[v].name
    BY <1>1, <1>2, <1>3, Apartness DEF KeyInv, DiskInv, OfSetting, Owner
  <2> QED BY <1>1, <2>2, <2>3 DEF KeyInv, DiskInv, OfSetting
<1>5. \A o \in Owner, key \in put \ told' : Holds(o, key)' => Holds(o, key)
  <2> SUFFICES ASSUME NEW o \in Owner, NEW key \in put \ told', Holds(o, key)'
               PROVE Holds(o, key)
    OBVIOUS
  <2>1. key # None
    BY <1>0, Apartness DEF TypeInv, TypeOK
  <2>2. row'[o] = key => row[o] = key \/ (o = r.owner /\ r.new = key)
    BY <1>0, OwnRow
  <2>3. ASSUME NEW v \in Worker, req'[v].owner = o, key \in {req'[v].old, req'[v].new}
        PROVE Holds(o, key)
    BY <1>1, <1>2, <1>3, <2>1, <2>3 DEF Holds
  <2> QED BY <2>2, <2>3 DEF Holds
<1>6. OneHolder'
  BY <1>1, <1>5 DEF OneHolder, KeyInv
<1>7. OneWriter'
  BY <1>0, <1>1, <1>2, <1>3, Apartness DEF OneWriter, KeyInv, TypeInv, TypeOK
<1>8. ASSUME NEW v \in Worker PROVE Fresh(v)'
  <2> SUFFICES ASSUME Pending(req'[v]), req'[v].new \notin collided' \cup told'
               PROVE /\ req'[v].new \in bucket'
                     /\ \A o \in Owner : row'[o] # req'[v].new
                     /\ \A u \in Worker : req'[u].old # req'[v].new
    BY DEF Fresh, Pending, OfSetting, OfProfile
  <2> DEFINE key == req'[v].new
  <2>1. key = req[v].new /\ Pending(req[v]) /\ key \in put \ (collided \cup told') /\ key # None
    <3>1. key \in put
      <4>1. RequestOK(req[v])'
        BY <1>0 DEF TypeInv
      <4>2. key \in KeysOf(req[v].owner)'
        BY <4>1 DEF RequestOK, Pending
      <4> QED BY <1>1, <4>2 DEF KeysOf
    <3>2. v # w => key = req[v].new /\ Pending(req[v])
      BY <1>2
    <3>3. v = w => key = req[v].new /\ Pending(req[v])
      BY <1>1, <1>2, <1>3, Apartness DEF OwnStep, Pending, OfProfile, OfSetting
    <3> QED BY <1>0, <1>1, <3>1, <3>2, <3>3, Apartness DEF TypeInv, TypeOK
  <2>2. /\ key \in bucket
        /\ \A o \in Owner : row[o] # key
        /\ \A u \in Worker : req[u].old # key
    BY <1>1, <2>1 DEF KeyInv, Fresh
  <2>3. v # w => r.new # key
    BY <2>1 DEF KeyInv, OneWriter
  <2>4. key \in bucket'
    BY <1>2, <2>2, <2>3 DEF OwnStep
  <2>5. \A o \in Owner : row'[o] # key
    BY <1>0, <1>2, <2>1, <2>2, <2>3, OwnRow
  <2>6. \A u \in Worker : req'[u].old # key
    BY <1>1, <1>2, <1>3, <2>1, <2>2
  <2> QED BY <2>4, <2>5, <2>6
<1> QED BY <1>0, <1>4, <1>6, <1>7, <1>8 DEF KeyInv

(* What such a step must do for the images that rows name ...              *)
LEMMA LostStep ==
  ASSUME KeyInv, LostInv, NEW w \in Worker, NEW s, NEW r, r = req[w], OwnStep(w, s),
         \/ hurt \subseteq hurt'
         \/ /\ hurt' = hurt \ {r.owner} /\ r.at = "write"
            /\ \/ row' = [row EXCEPT ![r.owner] = r.new] /\ r.new # None
               \/ row'[r.owner] \in told',
         r.at = "write" => bucket' = bucket,
         \A o \in Owner : row[o] \in bucket \ bucket' =>
           \/ o \in hurt
           \/ row[o] \in told
           \/ o \in Profile /\ row[o] \in collided
           \/ o \in Profile /\ s.owner = o /\ s.at = "write" /\ s.old = row[o],
         OfProfile(r) /\ r.at = "write" /\ r.old # None =>
           r.owner \in hurt' \/ (row' = [row EXCEPT ![r.owner] = r.new] /\ r.new # None),
         Superseded(w)', RollbackHurts(w)'
  PROVE LostInv'
<1>1. /\ TypeInv /\ TypeInv' /\ s \in Request /\ r.owner \in Owner
      /\ put' = put /\ collided' = collided /\ told \subseteq told'
  BY OwnStepType DEF KeyInv, OwnStep, RequestOK, TypeInv
<1>2. /\ req'[w] = s
      /\ \A v \in Worker : v # w => req'[v] = req[v]
  BY <1>1, Continued DEF OwnStep
<1>3. \A o \in Owner : \/ row'[o] = row[o]
                       \/ /\ o = r.owner /\ row'[o] = r.new
                          /\ r.at = "write" /\ r.new # None
                       \/ row'[o] \in told'
  BY <1>1, OwnRow
<1>4. r.at = "write" /\ r.new # None =>
        /\ r.new \in put
        /\ r.new.name \in NamesOf(r.owner)
        /\ r.new \notin collided \cup told => r.new \in bucket
        /\ Pending(r)
  <2> SUFFICES ASSUME r.at = "write", r.new # None
               PROVE /\ r.new \in put
                     /\ r.new.name \in NamesOf(r.owner)
                     /\ r.new \notin collided \cup told => r.new \in bucket
                     /\ Pending(r)
    OBVIOUS
  <2>1. RequestOK(r)
    BY <1>1 DEF TypeInv
  <2>2. r.new \in KeysOf(r.owner) /\ Pending(r)
    BY <1>1, <2>1 DEF RequestOK, Pending, OfSetting, OfProfile, Owner
  <2>3. r.new \notin collided \cup told => r.new \in bucket
    BY <2>2 DEF KeyInv, Fresh
  <2> QED BY <2>2, <2>3 DEF KeysOf
<1>5. ASSUME NEW o \in Owner, Lost(o)', row'[o] \notin told'
      PROVE o \in hurt' \/ (o \in Profile /\ (row'[o] \in collided' \/ Replacing(o)'))
  <2>1. CASE o = r.owner /\ row'[o] = r.new /\ r.at = "write" /\ r.new # None
    <3>1. r.new \in collided
      BY <1>1, <1>4, <1>5, <2>1 DEF Lost
    <3>2. o \in Profile
      <4>1. r.new.name \in Name /\ r.new \in Key
        BY <1>1, <1>4, <2>1, <3>1 DEF KeyInv, DiskInv, TypeInv, TypeOK
      <4> QED BY <1>4, <2>1, <4>1, Apartness DEF Owner
    <3> QED BY <1>1, <2>1, <3>1, <3>2
  <2>2. CASE ~(o = r.owner /\ row'[o] = r.new /\ r.at = "write" /\ r.new # None)
    <3>1. row'[o] = row[o]
      BY <1>3, <1>5, <2>2
    <3>2. o \in hurt => o \in hurt'
      BY <1>1, <1>5, <2>2 DEF TypeInv, TypeOK
    <3>3. CASE row[o] \in bucket
      <4>1. row[o] \in bucket \ bucket'
        BY <1>5, <3>1, <3>3 DEF Lost
      <4> QED BY <1>1, <1>2, <1>5, <3>1, <3>2, <4>1 DEF Replacing
    <3>4. CASE row[o] \notin bucket
      <4>1. Lost(o) /\ row[o] \notin told
        BY <1>1, <1>5, <3>1, <3>4 DEF Lost
      <4>2. CASE o \in Profile /\ row[o] \notin collided /\ Replacing(o) /\ o \notin hurt
        <5>1. PICK v \in Worker : req[v].owner = o /\ req[v].at = "write" /\ req[v].old = row[o]
          BY <4>2 DEF Replacing
        <5>2. CASE v = w
          <6>1. OfProfile(r) /\ r.at = "write" /\ r.old # None /\ r.owner = o
            BY <4>1, <4>2, <5>1, <5>2 DEF OfProfile, Lost
          <6>2. row' = [row EXCEPT ![r.owner] = r.new] => row'[o] = r.new
            BY <1>1, <6>1 DEF TypeInv, TypeOK
          <6> QED BY <2>2, <6>1, <6>2
        <5>3. CASE v # w
          BY <1>2, <3>1, <4>2, <5>1, <5>3 DEF Replacing
        <5> QED BY <5>2, <5>3
      <4> QED BY <1>1, <3>1, <3>2, <4>1, <4>2 DEF LostInv
    <3> QED BY <3>3, <3>4
  <2> QED BY <2>1, <2>2
<1>6. ASSUME NEW v \in Worker, v # w PROVE Superseded(v)' /\ RollbackHurts(v)'
  <2>1. RequestOK(req[v]) /\ Superseded(v) /\ RollbackHurts(v) /\ req'[v] = req[v]
    BY <1>1, <1>2, <1>6 DEF TypeInv, LostInv
  <2>2. CASE OfSetting(req[v])
    <3>1. /\ req[v].at = "deleteOld" /\ req[v].old \notin told =>
               req[v].old \in put /\ req[v].old.name \in DiskName
          /\ req[v].at = "rollback" => req[v].new \in put /\ req[v].new.name \in DiskName
      BY <2>1, <2>2, Apartness DEF RequestOK, KeysOf, OfSetting
    <3>2. \A key \in put : key.name \in DiskName => key \notin collided
      BY <1>1, Apartness DEF KeyInv, DiskInv, TypeInv, TypeOK
    <3>3. req[v].at = "deleteOld" /\ req[v].old \notin told /\ Pending(r) => r.new # req[v].old
      <4>1. r.new \notin collided \cup told /\ Pending(r) => r.new # req[v].old
        BY DEF KeyInv, Fresh
      <4> QED BY <3>1, <3>2, <4>1
    <3>4. req[v].at = "rollback" => r.new # req[v].new
      BY <1>6, <3>1, <3>2 DEF KeyInv, OneWriter
    <3>5. Superseded(v)'
      BY <1>1, <1>3, <1>4, <2>1, <3>3 DEF Superseded, OfSetting
    <3>6. ASSUME req[v].at = "rollback", req[v].new \notin told',
                 NEW o \in Owner, row'[o] = req[v].new
          PROVE o \in hurt'
      <4>1. row[o] = req[v].new /\ o \in hurt
        BY <1>1, <1>3, <2>1, <3>4, <3>6 DEF RollbackHurts
      <4>2. row' = [row EXCEPT ![r.owner] = r.new] /\ o = r.owner => row'[o] = r.new
        BY <1>1 DEF TypeInv, TypeOK
      <4> QED BY <3>4, <3>6, <4>1, <4>2
    <3>7. RollbackHurts(v)'
      BY <2>1, <3>6 DEF RollbackHurts
    <3> QED BY <3>5, <3>7
  <2>3. CASE ~OfSetting(req[v])
    <3>1. req[v].at # "rollback"
      BY <2>1, <2>3 DEF RequestOK, OfSetting, OfProfile, Owner, Idle
    <3> QED BY <2>1, <2>3, <3>1 DEF Superseded, RollbackHurts, OfSetting
  <2> QED BY <2>2, <2>3
<1> QED BY <1>5, <1>6 DEF LostInv

(* ... and for the objects that no row names.                              *)
LEMMA StrayStep ==
  ASSUME KeyInv, StrayInv, NEW w \in Worker, NEW s, NEW r, r = req[w], OwnStep(w, s),
         left \subseteq left',
         \/ row'[r.owner] = row[r.owner]
         \/ row[r.owner] \in left'
         \/ row[r.owner] \notin bucket' \ collided
         \/ OfSetting(s) /\ s.at = "deleteOld" /\ s.old = row[r.owner],
         (Pending(r) \/ r.at = "rollback") /\ r.new \in bucket' =>
           \/ s.new = r.new /\ (Pending(s) \/ s.at = "rollback")
           \/ r.new \in left'
           \/ row'[r.owner] = r.new,
         OfSetting(r) /\ r.at = "deleteOld" /\ r.old \in bucket' => r.old \in left',
         Dealt(w)'
  PROVE StrayInv'
<1>1. /\ TypeInv /\ TypeInv' /\ s \in Request /\ r.owner \in Owner
      /\ put' = put /\ collided' = collided /\ bucket' \subseteq bucket
  BY OwnStepType DEF KeyInv, OwnStep, RequestOK, TypeInv
<1>2. /\ req'[w] = s
      /\ \A v \in Worker : v # w => req'[v] = req[v]
  BY <1>1, Continued DEF OwnStep
<1>3. \A o \in Owner : row'[o] = row[o] \/ o = r.owner
  BY <1>1, OwnRow
<1>4. ASSUME NEW key \in bucket' \ collided' PROVE Expected(key)'
  <2>1. key \in bucket \ collided /\ key # None
    BY <1>1, <1>4, Apartness DEF TypeInv, TypeOK
  <2>2. CASE \E o \in Owner : row[o] = key
    <3>1. PICK o \in Owner : row[o] = key
      BY <2>2
    <3>2. CASE row'[o] = row[o]
      BY <3>1, <3>2 DEF Expected
    <3>3. CASE row'[o] # row[o]
      <4>1. o = r.owner
        BY <1>3, <3>3
      <4>2. key \in left' \/ (OfSetting(s) /\ s.at = "deleteOld" /\ s.old = key)
        BY <1>1, <1>4, <2>1, <3>1, <3>3, <4>1
      <4> QED BY <1>2, <4>2 DEF Expected, OfSetting
    <3> QED BY <3>2, <3>3
  <2>3. ASSUME NEW v \in Worker, req[v].new = key, Pending(req[v]) \/ req[v].at = "rollback"
        PROVE Expected(key)'
    <3>1. CASE v # w
      <4>1. req'[v].new = key /\ (Pending(req'[v]) \/ req'[v].at = "rollback")
        BY <1>2, <2>3, <3>1
      <4> QED BY <4>1 DEF Expected, Pending, OfSetting, OfProfile
    <3>2. CASE v = w
      <4>1. \/ req'[w].new = key /\ (Pending(req'[w]) \/ req'[w].at = "rollback")
            \/ key \in left'
            \/ row'[r.owner] = key
        BY <1>2, <1>4, <2>3, <3>2
      <4> QED BY <1>1, <4>1 DEF Expected, Pending, OfSetting, OfProfile
    <3> QED BY <3>1, <3>2
  <2>4. ASSUME NEW v \in Worker, OfSetting(req[v]), req[v].at = "deleteOld", req[v].old = key
        PROVE Expected(key)'
    <3>1. v # w => req'[v] = req[v]
      BY <1>2
    <3>2. v = w => key \in left'
      BY <1>4, <2>4
    <3> QED BY <2>4, <3>1, <3>2 DEF Expected, OfSetting
  <2>5. CASE key \in left
    BY <2>5 DEF Expected
  <2> QED BY <2>1, <2>2, <2>3, <2>4, <2>5 DEF StrayInv, Expected
<1>5. ASSUME NEW v \in Worker, v # w PROVE Dealt(v)'
  <2>1. Dealt(v) /\ req'[v] = req[v]
    BY <1>2, <1>5 DEF StrayInv
  <2> QED BY <1>1, <2>1 DEF Dealt, OfProfile
<1> QED BY <1>4, <1>5 DEF StrayInv

-----------------------------------------------------------------------------
(* The steps of a request, one by one. *)

LEMMA StageFacts ==
  ASSUME TypeInv, NEW w \in Worker, NEW r, r = req[w], r.at # "idle"
  PROVE /\ RequestOK(r) /\ r \in Request /\ r.owner \in Owner
        /\ r.old \in put \cup {None} \cup told
        /\ row[r.owner] \in KeysOf(r.owner) \cup {None} \/ (OfSetting(r) /\ row[r.owner] \in told)
        /\ OfProfile(r) <=> ~OfSetting(r)
        /\ OfProfile(r) => r.old \in put \cup {None}
        /\ r.at \in {"find", "rollback"} => OfSetting(r)
        /\ r.at \in {"find", "write", "deleteOld", "rollback"} =>
             \/ r.new \in put /\ r.new # None
             \/ r.new = None /\ OfSetting(r) /\ r.at \in {"find", "write"}
<1>1. RequestOK(r) /\ r \in Request /\ r.owner \in Owner
  BY DEF TypeInv, RequestOK
<1>2. OfProfile(r) <=> ~OfSetting(r)
  BY <1>1, Apartness DEF OfProfile, OfSetting, Owner
<1>3. put \subseteq Key /\ KeysOf(r.owner) \subseteq put /\ None \notin put
  BY Apartness DEF TypeInv, TypeOK, KeysOf
<1> QED BY <1>1, <1>2, <1>3 DEF TypeInv, RequestOK, OfSetting

LEMMA PutFailsKeeps ==
  ASSUME ImageInv, NEW w \in Worker, PutFails(w)
  PROVE ImageInv'
<1> DEFINE r == req[w]
           s == IF OfSetting(r) THEN [r EXCEPT !.at = "find"] ELSE Idle
<1>1. /\ r.at = "upload" /\ Continue(w, s)
      /\ UNCHANGED <<now, row, bucket, started, put, collided, hurt, left, told>>
  BY DEF PutFails, Unstored, Go, Finish
<1>2. KeyInv /\ LostInv /\ StrayInv /\ TypeInv
  BY DEF ImageInv, KeyInv
<1>3. /\ RequestOK(r) /\ r \in Request /\ r.new = None /\ (OfProfile(r) <=> ~OfSetting(r))
      /\ r.owner \in Owner
  BY <1>1, <1>2, StageFacts DEF RequestOK
<1>4. \/ s = Idle /\ OfProfile(r)
      \/ /\ OfSetting(r) /\ s \in Request /\ s.at = "find" /\ s.old = r.old
         /\ s.owner = r.owner /\ s.name = r.name /\ s.new = r.new
  BY <1>3 DEF Request
<1> HIDE DEF s
<1>5. RequestOK(s) /\ ~Pending(s) /\ s \in Request /\ s.at \in {"idle", "find"}
  BY <1>1, <1>3, <1>4, IdleOK DEF RequestOK, Pending, OfSetting, OfProfile, Idle
<1>6. OwnStep(w, s)
  BY <1>1, <1>2, <1>3, <1>4, <1>5 DEF OwnStep, TypeInv, TypeOK
<1>7. req'[w] = s
  BY <1>1, <1>2, <1>5, Continued
<1>8. Superseded(w)' /\ RollbackHurts(w)' /\ Dealt(w)'
  BY <1>5, <1>7 DEF Superseded, RollbackHurts, Dealt
<1>9. LostInv'
  BY <1>1, <1>2, <1>6, <1>8, LostStep
<1>10. StrayInv'
  BY <1>1, <1>2, <1>6, <1>8, StrayStep DEF Pending
<1> QED BY <1>2, <1>6, <1>9, <1>10, OwnStepKeeps DEF ImageInv

LEMMA FindKeeps ==
  ASSUME ImageInv, NEW w \in Worker, Find(w)
  PROVE ImageInv'
<1> DEFINE r == req[w]
           s == [r EXCEPT !.at = "write", !.old = row[r.owner]]
<1>1. /\ r.at = "find" /\ Continue(w, s)
      /\ UNCHANGED <<now, row, bucket, started, put, collided, hurt, left, told>>
  BY DEF Find
<1>2. KeyInv /\ LostInv /\ StrayInv /\ TypeInv
  BY DEF ImageInv, KeyInv
<1>3. /\ RequestOK(r) /\ r \in Request /\ OfSetting(r) /\ ~OfProfile(r)
      /\ r.owner \in Owner
      /\ row[r.owner] \in KeysOf(r.owner) \cup {None} \/ row[r.owner] \in told
      /\ row[r.owner] \in Image
  BY <1>1, <1>2, StageFacts DEF TypeInv, TypeOK
<1>4. /\ s \in Request /\ s.at = "write" /\ s.old = row[r.owner]
      /\ s.owner = r.owner /\ s.name = r.name /\ s.new = r.new
  BY <1>3 DEF Request
<1> HIDE DEF s
<1>5. RequestOK(s)
  BY <1>1, <1>3, <1>4 DEF RequestOK, OfProfile, OfSetting
<1>6. OwnStep(w, s)
  BY <1>1, <1>2, <1>3, <1>4, <1>5 DEF OwnStep, Pending, OfSetting, OfProfile, TypeInv, TypeOK
<1>7. req'[w] = s
  BY <1>1, <1>2, <1>4, Continued
<1>8. Superseded(w)' /\ RollbackHurts(w)' /\ Dealt(w)'
  BY <1>3, <1>4, <1>7 DEF Superseded, RollbackHurts, Dealt, OfProfile
<1>9. LostInv'
  BY <1>1, <1>2, <1>3, <1>6, <1>8, LostStep
<1>10. Pending(r) => Pending(s)
  BY <1>3, <1>4 DEF Pending, OfSetting
<1>11. StrayInv'
  BY <1>1, <1>2, <1>3, <1>4, <1>6, <1>8, <1>10, StrayStep
<1> QED BY <1>2, <1>6, <1>9, <1>11, OwnStepKeeps DEF ImageInv

(* A write names the new image; what it replaces is deleted next, was      *)
(* deleted before, or is noted.                                            *)
LEMMA WriteUploadKeeps ==
  ASSUME ImageInv, NEW w \in Worker, Write(w), req[w].new # None
  PROVE ImageInv'
<1> DEFINE r == req[w]
           s == AfterWrite(r)
<1>1. /\ r.at = "write" /\ Continue(w, s) /\ r.new # None
      /\ row' = [row EXCEPT ![r.owner] = r.new]
      /\ left' = left \cup (({row[r.owner]} \ {r.new, r.old}) \cap put)
      /\ hurt' = hurt \ {r.owner} /\ told' = told
      /\ UNCHANGED <<now, bucket, started, put, collided>>
  BY DEF Write, Named, Told, Unread
<1>2. KeyInv /\ LostInv /\ StrayInv /\ TypeInv
  BY DEF ImageInv, KeyInv
<1>3. /\ RequestOK(r) /\ r \in Request /\ (OfProfile(r) <=> ~OfSetting(r))
      /\ r.owner \in Owner /\ r.new \in put
  BY <1>1, <1>2, StageFacts
<1>4. \/ s = Idle /\ (OfProfile(r) \/ r.old = None)
      \/ /\ OfSetting(r) /\ r.old # None
         /\ s \in Request /\ s.at = "deleteOld" /\ s.old = r.old
         /\ s.owner = r.owner /\ s.name = r.name /\ s.new = r.new
  BY <1>1, <1>3 DEF AfterWrite, Request
<1> HIDE DEF s
<1>5. RequestOK(s) /\ ~Pending(s) /\ s \in Request
  BY <1>1, <1>3, <1>4, IdleOK DEF RequestOK, OfProfile, OfSetting, Pending, Idle
<1>6. OwnStep(w, s)
  <2>1. left' \subseteq put /\ told \subseteq Key \cup Foreign
    BY <1>1, <1>2, <1>3 DEF TypeInv, TypeOK
  <2>2. s = Idle \/ s.at \notin {"idle", "upload"}
    BY <1>4
  <2> QED BY <1>1, <1>2, <1>3, <1>4, <1>5, <2>1, <2>2 DEF OwnStep, TypeInv, TypeOK
<1>7. req'[w] = s
  BY <1>1, <1>2, <1>5, Continued
<1>8. s.at # "write" /\ s.at # "rollback"
  BY <1>4 DEF Idle
<1>9. Superseded(w)'
  <2>1. OfSetting(s) => s.at = "deleteOld" /\ s.old = r.old /\ r.old # None /\ OfSetting(r)
    BY <1>4, Apartness DEF Idle, OfSetting
  <2>2. ASSUME OfSetting(s), s.old \notin told, NEW o \in Owner PROVE row'[o] # s.old
    <3>1. /\ r.new \notin collided /\ r.old \in put \ collided
          /\ Pending(r)
      BY <1>1, <1>2, <1>3, <2>1, <2>2, Apartness
         DEF RequestOK, KeysOf, Pending, KeyInv, DiskInv, OfSetting, TypeInv, TypeOK
    <3>2. r.old # r.new
      <4>1. r.new \notin told => r.old # r.new
        BY <1>2, <3>1 DEF KeyInv, Fresh
      <4> QED BY <2>1, <2>2, <4>1
    <3>3. ASSUME o # r.owner, row[o] = r.old PROVE FALSE
      <4>1. Holds(o, r.old) /\ Holds(r.owner, r.old)
        BY <3>3 DEF Holds
      <4> QED BY <1>2, <1>3, <2>1, <2>2, <3>1, <3>3, <4>1 DEF KeyInv, OneHolder
    <3> QED BY <1>1, <1>2, <1>3, <2>1, <2>2, <3>2, <3>3 DEF TypeInv, TypeOK
  <2> QED BY <1>1, <1>7, <2>2 DEF Superseded, OfSetting
<1>10. RollbackHurts(w)' /\ Dealt(w)'
  BY <1>7, <1>8 DEF RollbackHurts, Dealt
<1>11. LostInv'
  BY <1>1, <1>2, <1>3, <1>6, <1>9, <1>10, LostStep
<1>12. row'[r.owner] = r.new /\ left \subseteq left'
  BY <1>1, <1>2, <1>3 DEF TypeInv, TypeOK
<1>13. \/ row'[r.owner] = row[r.owner]
       \/ row[r.owner] \in left'
       \/ row[r.owner] \notin bucket' \ collided
       \/ OfSetting(s) /\ s.at = "deleteOld" /\ s.old = row[r.owner]
  <2>1. row[r.owner] \notin {r.old, r.new} => row[r.owner] \in left' \/ row[r.owner] \notin bucket
    BY <1>1, <1>2 DEF TypeInv, TypeOK
  <2>2. OfProfile(r) /\ r.old \in bucket \ collided => r.old \in left
    BY <1>1, <1>2 DEF StrayInv, Dealt
  <2>3. None \notin bucket
    BY <1>2, Apartness DEF TypeInv, TypeOK
  <2> QED BY <1>1, <1>3, <1>4, <1>12, <2>1, <2>2, <2>3 DEF OfSetting
<1>14. StrayInv'
  BY <1>1, <1>2, <1>6, <1>10, <1>12, <1>13, StrayStep
<1> QED BY <1>2, <1>6, <1>11, <1>14, OwnStepKeeps DEF ImageInv

(* Without an upload, a write names what the DTO brought, if it did.       *)
LEMMA WriteSentKeeps ==
  ASSUME ImageInv, NEW w \in Worker, Write(w), req[w].new = None
  PROVE ImageInv'
<1> DEFINE r == req[w]
<1>1. /\ r.at = "write" /\ Continue(w, Idle) /\ r.new = None
      /\ row' = [row EXCEPT ![r.owner] = Named(r)]
      /\ Named(r) = IF r.sent # None THEN r.sent ELSE row[r.owner]
      /\ left' = left \cup (({row[r.owner]} \ {Named(r), None}) \cap put)
      /\ told' = told \cup ({r.sent} \ {None})
      /\ hurt' = IF r.sent = None THEN hurt ELSE hurt \ {r.owner}
      /\ UNCHANGED <<now, bucket, started, put, collided>>
  BY DEF Write, Named, Told, Unread, AfterWrite
<1>2. KeyInv /\ LostInv /\ StrayInv /\ TypeInv
  BY DEF ImageInv, KeyInv
<1>3. /\ r \in Request /\ OfSetting(r) /\ ~OfProfile(r) /\ r.owner \in Owner
      /\ r.sent \in Key \cup Foreign \cup {None}
  BY <1>1, <1>2, StageFacts DEF Request, Image
<1>4. /\ row' = row \/ (row' = [row EXCEPT ![r.owner] = r.sent] /\ r.sent \in told')
      /\ row'[r.owner] = Named(r)
  BY <1>1, <1>2, <1>3 DEF TypeInv, TypeOK
<1> HIDE DEF r
<1>5. OwnStep(w, Idle)
  <2>1. /\ left' \subseteq put /\ hurt' \subseteq Owner
        /\ told \subseteq told' /\ told' \subseteq Key \cup Foreign
    BY <1>1, <1>2, <1>3 DEF TypeInv, TypeOK
  <2>2. ~Pending(Idle)
    BY DEF Pending, Idle
  <2> QED BY <1>1, <1>2, <1>3, <1>4, <2>1, <2>2, IdleOK DEF OwnStep, r
<1>6. req'[w] = Idle
  BY <1>1, <1>2, IdleOK, Continued
<1>7. Superseded(w)' /\ RollbackHurts(w)' /\ Dealt(w)'
  BY <1>6 DEF Superseded, RollbackHurts, Dealt, Idle
<1>8. LostInv'
  <2>1. hurt \subseteq hurt' \/ (hurt' = hurt \ {r.owner} /\ row'[r.owner] \in told')
    BY <1>1, <1>3, <1>4
  <2>2. r = req[w]
    BY DEF r
  <2> QED BY <1>1, <1>2, <1>3, <1>5, <1>7, <2>1, <2>2, LostStep
<1>9. StrayInv'
  <2>1. ~Pending(r) /\ r.at \notin {"rollback", "deleteOld"} /\ left \subseteq left'
    BY <1>1 DEF Pending
  <2>2. \/ row'[r.owner] = row[r.owner]
        \/ row[r.owner] \in left'
        \/ row[r.owner] \notin bucket' \ collided
    BY <1>1, <1>2, <1>4, Apartness DEF TypeInv, TypeOK
  <2>3. r = req[w]
    BY DEF r
  <2> QED BY <1>2, <1>5, <1>7, <2>1, <2>2, <2>3, StrayStep
<1> QED BY <1>2, <1>5, <1>8, <1>9, OwnStepKeeps DEF ImageInv

LEMMA AckLostKeeps ==
  ASSUME ImageInv, NEW w \in Worker, AckLost(w)
  PROVE ImageInv'
<1> DEFINE r == req[w]
           s == IF OfSetting(r) THEN [r EXCEPT !.at = "rollback"] ELSE Idle
<1>1. /\ r.at = "write" /\ Continue(w, s) /\ r.new # None
      /\ row' = [row EXCEPT ![r.owner] = r.new]
      /\ left' = left \cup ((IF OfSetting(r) THEN {row[r.owner]} \ {r.new} ELSE Unread(r)) \cap put)
      /\ Unread(r) = ({row[r.owner]} \ {r.new, r.old}) \cap put
      /\ hurt' = IF OfSetting(r) THEN hurt \cup {r.owner} ELSE hurt \ {r.owner}
      /\ UNCHANGED <<now, bucket, started, put, collided, told>>
  BY DEF AckLost, Catch, Named, Unread, Go, Finish
<1>2. KeyInv /\ LostInv /\ StrayInv /\ TypeInv
  BY DEF ImageInv, KeyInv
<1>3. /\ RequestOK(r) /\ r \in Request /\ (OfProfile(r) <=> ~OfSetting(r))
      /\ r.owner \in Owner /\ r.new \in put
  BY <1>1, <1>2, StageFacts
<1>4. \/ s = Idle /\ OfProfile(r)
      \/ /\ OfSetting(r)
         /\ s \in Request /\ s.at = "rollback" /\ s.old = r.old
         /\ s.owner = r.owner /\ s.name = r.name /\ s.new = r.new
  BY <1>3 DEF Request
<1> HIDE DEF s
<1>5. RequestOK(s) /\ ~Pending(s) /\ s \in Request /\ s.at \notin {"write", "deleteOld"}
  BY <1>1, <1>3, <1>4, IdleOK DEF RequestOK, OfProfile, OfSetting, Pending, Idle
<1>6. OwnStep(w, s)
  <2>1. left' \subseteq put /\ hurt' \subseteq Owner /\ told \subseteq Key \cup Foreign
    BY <1>1, <1>2, <1>3 DEF TypeInv, TypeOK
  <2> QED BY <1>1, <1>2, <1>3, <1>4, <1>5, <2>1 DEF OwnStep, TypeInv, TypeOK
<1>7. req'[w] = s
  BY <1>1, <1>2, <1>5, Continued
<1>8. row'[r.owner] = r.new /\ \A o \in Owner : o # r.owner => row'[o] = row[o]
  BY <1>1, <1>2, <1>3 DEF TypeInv, TypeOK
<1>9. RollbackHurts(w)'
  <2>1. ASSUME s.at = "rollback", s.new \notin told, NEW o \in Owner, row'[o] = s.new
        PROVE o \in hurt'
    <3>1. OfSetting(r) /\ s.new = r.new /\ r.owner \in hurt'
      BY <1>1, <1>4, <2>1 DEF Idle
    <3>2. Pending(r) /\ r.new \notin collided
      BY <1>1, <1>2, <1>3, <3>1, Apartness
         DEF RequestOK, KeysOf, Pending, KeyInv, DiskInv, OfSetting, TypeInv, TypeOK
    <3>3. row[o] # r.new
      BY <1>2, <2>1, <3>1, <3>2 DEF KeyInv, Fresh
    <3> QED BY <1>8, <2>1, <3>1, <3>3
  <2> QED BY <1>1, <1>7, <2>1 DEF RollbackHurts
<1>10. Superseded(w)' /\ Dealt(w)'
  BY <1>5, <1>7 DEF Superseded, Dealt
<1>11. LostInv'
  BY <1>1, <1>2, <1>3, <1>6, <1>9, <1>10, LostStep
<1>12. \/ row'[r.owner] = row[r.owner]
       \/ row[r.owner] \in left'
       \/ row[r.owner] \notin bucket' \ collided
  <2>1. row[r.owner] \notin {r.old, r.new} => row[r.owner] \in left' \/ row[r.owner] \notin bucket
    BY <1>1, <1>2 DEF TypeInv, TypeOK
  <2>2. OfProfile(r) /\ r.old \in bucket \ collided => r.old \in left
    BY <1>1, <1>2 DEF StrayInv, Dealt
  <2>3. OfSetting(r) /\ row[r.owner] # r.new => row[r.owner] \in left' \/ row[r.owner] \notin bucket
    BY <1>1, <1>2 DEF TypeInv, TypeOK
  <2> QED BY <1>1, <1>3, <1>8, <2>1, <2>2, <2>3
<1>13. StrayInv'
  BY <1>1, <1>2, <1>6, <1>8, <1>10, <1>12, StrayStep
<1> QED BY <1>2, <1>6, <1>11, <1>13, OwnStepKeeps DEF ImageInv

(* A profile goes on to name the new image, a setting is done.             *)
LEMMA DeleteOldKeeps ==
  ASSUME ImageInv, NEW w \in Worker, DeleteOld(w)
  PROVE ImageInv'
<1> DEFINE r == req[w]
           s == IF OfProfile(r) THEN [r EXCEPT !.at = "write"] ELSE Idle
<1>1. /\ r.at = "deleteOld" /\ Continue(w, s)
      /\ \/ bucket' = bucket \ {r.old} /\ left' = left
         \/ bucket' = bucket /\ left' = left \cup ({r.old} \cap put)
      /\ UNCHANGED <<now, row, started, put, collided, hurt, told>>
  BY DEF DeleteOld, Delete, Replaced, Go, Finish
<1>2. KeyInv /\ LostInv /\ StrayInv /\ TypeInv
  BY DEF ImageInv, KeyInv
<1>3. /\ RequestOK(r) /\ r \in Request /\ (OfProfile(r) <=> ~OfSetting(r))
      /\ r.owner \in Owner /\ r.old # None /\ r.old \in put \cup told
      /\ r.new \in put /\ r.new # None
  BY <1>1, <1>2, StageFacts DEF RequestOK
<1>4. \/ s = Idle /\ OfSetting(r)
      \/ /\ OfProfile(r)
         /\ s \in Request /\ s.at = "write" /\ s.old = r.old
         /\ s.owner = r.owner /\ s.name = r.name /\ s.new = r.new
  BY <1>3 DEF Request
<1> HIDE DEF s
<1>5. RequestOK(s) /\ s \in Request /\ (Pending(s) => Pending(r) /\ OfProfile(r))
  BY <1>1, <1>3, <1>4, IdleOK DEF RequestOK, OfProfile, OfSetting, Pending, Idle
<1>6. OwnStep(w, s)
  <2>1. /\ left' \subseteq put /\ bucket' \subseteq bucket /\ bucket \ bucket' \subseteq {r.old}
        /\ told \subseteq Key \cup Foreign
    BY <1>1, <1>2, <1>3 DEF TypeInv, TypeOK
  <2> QED BY <1>1, <1>2, <1>3, <1>4, <1>5, <2>1 DEF OwnStep, TypeInv, TypeOK
<1>7. req'[w] = s
  BY <1>1, <1>2, <1>5, Continued
<1>8. s.at # "deleteOld" /\ s.at # "rollback"
  BY <1>4 DEF Idle
<1>9. Superseded(w)' /\ RollbackHurts(w)'
  BY <1>7, <1>8 DEF Superseded, RollbackHurts
<1>10. r.old \in bucket' => r.old \in left'
  BY <1>1, <1>2 DEF TypeInv, TypeOK
<1>11. Dealt(w)'
  BY <1>4, <1>7, <1>10 DEF Dealt, Idle
<1>12. ASSUME NEW o \in Owner, row[o] \in bucket \ bucket', row[o] \notin told
       PROVE o \in Profile /\ (row[o] \in collided \/ (s.owner = o /\ s.at = "write" /\ s.old = row[o]))
  <2>1. row[o] = r.old /\ r.old \notin told
    BY <1>1, <1>12
  <2>2. OfProfile(r)
    BY <1>1, <1>2, <1>3, <2>1 DEF LostInv, Superseded
  <2>3. r.old \in put /\ (row[o] \notin collided => o = r.owner)
    <3>1. Holds(o, r.old) /\ Holds(r.owner, r.old)
      BY <2>1 DEF Holds
    <3> QED BY <1>2, <1>3, <2>1, <3>1 DEF KeyInv, OneHolder
  <2>4. r.old \in KeysOf(o) /\ r.old \in KeysOf(r.owner)
    BY <1>1, <1>2, <1>3, <2>1 DEF TypeInv, RequestOK
  <2>5. o \in Profile
    BY <1>2, <1>3, <2>2, <2>4, Apartness DEF KeysOf, OfProfile, Owner, TypeInv, TypeOK
  <2> QED BY <1>3, <1>4, <2>1, <2>2, <2>3, <2>5
<1>13. LostInv'
  BY <1>1, <1>2, <1>6, <1>9, <1>12, LostStep
<1>14. StrayInv'
  <2>1. Pending(r) => s.new = r.new /\ Pending(s)
    BY <1>1, <1>3, <1>4 DEF Pending, OfSetting, OfProfile
  <2> QED BY <1>1, <1>2, <1>6, <1>10, <1>11, <2>1, StrayStep
<1> QED BY <1>2, <1>6, <1>13, <1>14, OwnStepKeeps DEF ImageInv

LEMMA DbErrorKeeps ==
  ASSUME ImageInv, NEW w \in Worker, DbError(w)
  PROVE ImageInv'
<1> DEFINE r == req[w]
           s == IF OfSetting(r) /\ r.new # None THEN [r EXCEPT !.at = "rollback"] ELSE Idle
<1>1. /\ r.at \in {"find", "write"} /\ Continue(w, s)
      /\ hurt' = hurt \cup Bereft(r)
      /\ left' = IF OfSetting(r) THEN left ELSE left \cup {r.new}
      /\ UNCHANGED <<now, row, bucket, started, put, collided, told>>
  BY DEF DbError, Catch, Go, Finish
<1>2. KeyInv /\ LostInv /\ StrayInv /\ TypeInv
  BY DEF ImageInv, KeyInv
<1>3. /\ RequestOK(r) /\ r \in Request /\ (OfProfile(r) <=> ~OfSetting(r))
      /\ r.owner \in Owner
      /\ \/ r.new \in put /\ r.new # None
         \/ r.new = None /\ OfSetting(r)
  BY <1>1, <1>2, StageFacts
<1>4. \/ s = Idle /\ (OfProfile(r) \/ r.new = None)
      \/ /\ OfSetting(r) /\ r.new # None
         /\ s \in Request /\ s.at = "rollback" /\ s.old = r.old
         /\ s.owner = r.owner /\ s.name = r.name /\ s.new = r.new
  BY <1>3 DEF Request
<1> HIDE DEF s
<1>5. RequestOK(s) /\ ~Pending(s) /\ s \in Request /\ s.at \notin {"write", "deleteOld"}
  BY <1>1, <1>3, <1>4, IdleOK DEF RequestOK, OfProfile, OfSetting, Pending, Idle
<1>6. OwnStep(w, s)
  <2>1. left' \subseteq put /\ hurt' \subseteq Owner /\ told \subseteq Key \cup Foreign
    BY <1>1, <1>2, <1>3 DEF Bereft, TypeInv, TypeOK
  <2> QED BY <1>1, <1>2, <1>3, <1>4, <1>5, <2>1 DEF OwnStep, TypeInv, TypeOK
<1>7. req'[w] = s
  BY <1>1, <1>2, <1>5, Continued
<1>8. RollbackHurts(w)'
  <2>1. ASSUME s.at = "rollback", s.new \notin told, NEW o \in Owner PROVE row[o] # s.new
    <3>1. OfSetting(r) /\ s.new = r.new /\ r.new # None
      BY <1>4, <2>1 DEF Idle
    <3>2. Pending(r) /\ r.new \notin collided
      BY <1>1, <1>2, <1>3, <3>1, Apartness
         DEF RequestOK, KeysOf, Pending, KeyInv, DiskInv, OfSetting, TypeInv, TypeOK
    <3> QED BY <1>2, <2>1, <3>1, <3>2 DEF KeyInv, Fresh
  <2> QED BY <1>1, <1>7, <2>1 DEF RollbackHurts
<1>9. Superseded(w)' /\ Dealt(w)'
  BY <1>5, <1>7 DEF Superseded, Dealt
<1>10. OfProfile(r) /\ r.at = "write" /\ r.old # None => r.owner \in hurt'
  BY <1>1 DEF Bereft
<1>11. LostInv'
  BY <1>1, <1>2, <1>6, <1>8, <1>9, <1>10, LostStep
<1>12. Pending(r) => r.new \in left' \/ (s.new = r.new /\ s.at = "rollback")
  BY <1>1, <1>3, <1>4 DEF Pending
<1>13. StrayInv'
  BY <1>1, <1>2, <1>6, <1>9, <1>12, StrayStep
<1> QED BY <1>2, <1>6, <1>11, <1>13, OwnStepKeeps DEF ImageInv

LEMMA RollbackKeeps ==
  ASSUME ImageInv, NEW w \in Worker, Rollback(w)
  PROVE ImageInv'
<1> DEFINE r == req[w]
<1>1. /\ r.at = "rollback" /\ Continue(w, Idle)
      /\ \/ bucket' = bucket \ {r.new} /\ left' = left
         \/ bucket' = bucket /\ left' = left \cup ({r.new} \cap put)
      /\ UNCHANGED <<now, row, started, put, collided, hurt, told>>
  BY DEF Rollback, Delete, RolledBack, Finish
<1>2. KeyInv /\ LostInv /\ StrayInv /\ TypeInv
  BY DEF ImageInv, KeyInv
<1>3. r.new \in put
  BY <1>1, <1>2, StageFacts
<1>4. OwnStep(w, Idle)
  <2>1. /\ left' \subseteq put /\ hurt' \subseteq Owner /\ told \subseteq Key \cup Foreign
        /\ bucket' \subseteq bucket /\ bucket \ bucket' \subseteq {r.new}
    BY <1>1, <1>2, <1>3 DEF TypeInv, TypeOK
  <2>2. ~Pending(Idle)
    BY DEF Pending, Idle
  <2> QED BY <1>1, <1>2, <2>1, <2>2, IdleOK DEF OwnStep
<1>5. req'[w] = Idle
  BY <1>1, <1>2, IdleOK, Continued
<1>6. Superseded(w)' /\ RollbackHurts(w)' /\ Dealt(w)'
  BY <1>5 DEF Superseded, RollbackHurts, Dealt, Idle
<1>7. \A o \in Owner : row[o] \in bucket \ bucket' => o \in hurt \/ row[o] \in told
  BY <1>1, <1>2 DEF LostInv, RollbackHurts
<1>8. LostInv'
  BY <1>1, <1>2, <1>4, <1>6, <1>7, LostStep
<1>9. StrayInv'
  BY <1>1, <1>2, <1>3, <1>4, <1>6, StrayStep
<1> QED BY <1>2, <1>4, <1>8, <1>9, OwnStepKeeps DEF ImageInv

LEMMA CrashKeeps ==
  ASSUME ImageInv, NEW w \in Worker, Crash(w)
  PROVE ImageInv'
<1> DEFINE r == req[w]
<1>1. /\ r.at # "idle" /\ Continue(w, Idle)
      /\ hurt' = hurt \cup Bereft(r) /\ left' = left \cup InHand(r)
      /\ UNCHANGED <<now, row, bucket, started, put, collided, told>>
  BY DEF Crash, Finish
<1>2. KeyInv /\ LostInv /\ StrayInv /\ TypeInv
  BY DEF ImageInv, KeyInv
<1>3. r.owner \in Owner /\ InHand(r) \subseteq put
  BY <1>1, <1>2, StageFacts DEF InHand
<1>4. OwnStep(w, Idle)
  <2>1. left' \subseteq put /\ hurt' \subseteq Owner /\ told \subseteq Key \cup Foreign
    BY <1>1, <1>2, <1>3 DEF Bereft, TypeInv, TypeOK
  <2>2. ~Pending(Idle)
    BY DEF Pending, Idle
  <2> QED BY <1>1, <1>2, <2>1, <2>2, IdleOK DEF OwnStep
<1>5. req'[w] = Idle
  BY <1>1, <1>2, IdleOK, Continued
<1>6. Superseded(w)' /\ RollbackHurts(w)' /\ Dealt(w)'
  BY <1>5 DEF Superseded, RollbackHurts, Dealt, Idle
<1>7. OfProfile(r) /\ r.at = "write" /\ r.old # None => r.owner \in hurt'
  BY <1>1 DEF Bereft
<1>8. LostInv'
  BY <1>1, <1>2, <1>4, <1>6, <1>7, LostStep
<1>9. /\ r.new \in bucket' => r.new \in left'
      /\ r.at = "deleteOld" /\ r.old \in bucket' => r.old \in left'
  BY <1>1, <1>2 DEF InHand, TypeInv, TypeOK
<1>10. StrayInv'
  BY <1>1, <1>2, <1>4, <1>6, <1>9, StrayStep
<1> QED BY <1>2, <1>4, <1>8, <1>10, OwnStepKeeps DEF ImageInv

(* A request begins: it carries a name and, of a profile, the image there  *)
(* is; an upsert without a file has uploaded nothing and never will.       *)
LEMMA BeginKeeps ==
  ASSUME ImageInv, NEW w \in Worker, req[w] = Idle, NEW s,
         RequestOK(s), s.at \in {"upload", "find"}, s.new = None,
         s.old \in {None, row[s.owner]},
         Continue(w, s), started' \in 0 .. MaxRequest,
         OfSetting(s) /\ s.name # None => /\ \A key \in put : key.name # s.name
                                          /\ \A v \in Worker : req[v].name # s.name,
         UNCHANGED <<now, row, bucket, put, collided, hurt, left, told>>
  PROVE ImageInv'
<1>1. KeyInv /\ LostInv /\ StrayInv /\ TypeInv
  BY DEF ImageInv, KeyInv
<1>2. /\ s \in Request /\ s.owner \in Owner
      /\ s.name \in NamesOf(s.owner) \/ (OfSetting(s) /\ s.name = None)
      /\ s.at = "upload" => s.name # None
  BY DEF RequestOK
<1>3. /\ req' \in [Worker -> Request] /\ req'[w] = s
      /\ \A v \in Worker : v # w => req'[v] = req[v]
  BY <1>1, <1>2, Continued
<1>4. /\ req[w].at = "idle" /\ req[w].owner = None /\ req[w].name = None
      /\ req[w].old = None /\ req[w].new = None
  BY DEF Idle
<1>5. TypeInv'
  <2>1. \A v \in Worker : RequestOK(req[v])'
    BY <1>1, <1>3 DEF TypeInv, RequestOK, KeysOf, OfSetting, OfProfile
  <2> QED BY <1>1, <1>3, <2>1 DEF TypeInv, TypeOK, KeysOf
<1>6. DiskInv'
  <2>1. \A v \in Worker : v # w /\ OfSetting(req[v]) /\ req[v].name # None => req[v].name # s.name
    <3>1. \A v \in Worker : OfSetting(req[v]) => RequestOK(req[v]) /\ req[v].at # "idle"
      BY <1>1, Apartness DEF TypeInv, RequestOK, OfSetting, Idle
    <3>2. \A v \in Worker : OfSetting(req[v]) => req[v].name \in DiskName \cup {None}
      BY <3>1, Apartness DEF RequestOK, OfSetting
    <3>3. ~OfSetting(s) => s.name \in Name
      BY <1>2 DEF NamesOf, OfSetting, Owner
    <3> QED BY <3>2, <3>3, DistinctAssumption
  <2>2. \A v, u \in Worker : v # u /\ OfSetting(req'[u]) /\ req'[u].name # None =>
          req'[v].name # req'[u].name
    BY <1>1, <1>3, <2>1 DEF KeyInv, DiskInv
  <2>3. \A v \in Worker, key \in put :
          OfSetting(req'[v]) /\ req'[v].at = "upload" => key.name # req'[v].name
    BY <1>1, <1>2, <1>3 DEF KeyInv, DiskInv
  <2> QED BY <1>1, <2>2, <2>3 DEF KeyInv, DiskInv, OfSetting
<1>7. OneHolder'
  <2>1. \A o \in Owner, key \in put : Holds(o, key)' => Holds(o, key)
    <3> SUFFICES ASSUME NEW o \in Owner, NEW key \in put, Holds(o, key)' PROVE Holds(o, key)
      OBVIOUS
    <3>1. key # None
      BY <1>1, Apartness DEF TypeInv, TypeOK
    <3> QED BY <1>2, <1>3, <3>1 DEF Holds
  <2> QED BY <1>1, <2>1 DEF OneHolder, KeyInv
<1>8. OneWriter'
  <2>1. None \notin put
    BY <1>1, Apartness DEF TypeInv, TypeOK
  <2> QED BY <1>1, <1>2, <1>3, <2>1 DEF OneWriter, KeyInv
<1>9. ASSUME NEW v \in Worker PROVE Fresh(v)'
  <2>1. ~Pending(s)
    BY DEF Pending
  <2>2. CASE v = w
    BY <1>3, <2>1, <2>2 DEF Fresh, Pending, OfSetting, OfProfile
  <2>3. ASSUME v # w, Pending(req[v]), req[v].new \notin collided \cup told
        PROVE s.old # req[v].new
    <3>1. \A o \in Owner : row[o] # req[v].new
      BY <1>1, <2>3 DEF KeyInv, Fresh
    <3>2. req[v].new # None
      BY <2>3 DEF Pending
    <3> QED BY <1>2, <3>1, <3>2
  <2>4. CASE v # w
    BY <1>1, <1>3, <2>3, <2>4 DEF Fresh, Pending, OfSetting, OfProfile, KeyInv
  <2> QED BY <2>2, <2>4
<1>10. LostInv'
  <2>1. \A o \in Owner : Replacing(o) => Replacing(o)'
    BY <1>3, <1>4 DEF Replacing
  <2>2. \A o \in Owner : Lost(o)' = Lost(o)
    BY DEF Lost
  <2>3. \A v \in Worker : Superseded(v)' /\ RollbackHurts(v)'
    BY <1>1, <1>3 DEF LostInv, Superseded, RollbackHurts, OfSetting
  <2> QED BY <1>1, <2>1, <2>2, <2>3 DEF LostInv
<1>11. StrayInv'
  <2>1. \A key : Expected(key) => Expected(key)'
    BY <1>3, <1>4 DEF Expected, Pending, OfSetting, OfProfile
  <2>2. \A v \in Worker : Dealt(v)'
    BY <1>1, <1>3 DEF StrayInv, Dealt, OfProfile
  <2> QED BY <1>1, <2>1, <2>2 DEF StrayInv
<1> QED BY <1>5, <1>6, <1>7, <1>8, <1>9, <1>10, <1>11 DEF ImageInv, KeyInv

LEMMA ProfileReadKeeps ==
  ASSUME ImageInv, NEW w \in Worker, NEW o \in Profile, NEW n \in Name, ProfileRead(w, o, n)
  PROVE ImageInv'
<1> DEFINE s == [Idle EXCEPT !.at = "upload", !.owner = o, !.name = n, !.old = row[o]]
<1>1. /\ req[w] = Idle /\ Continue(w, s) /\ started' \in 0 .. MaxRequest
      /\ UNCHANGED <<now, row, bucket, put, collided, hurt, left, told>>
  BY BoundsAssumption DEF ProfileRead, Start, ImageInv, KeyInv, TypeInv, TypeOK
<1>2. /\ o \in Owner /\ NamesOf(o) = Name /\ o \notin Setting /\ n # None
      /\ row[o] \in KeysOf(o) \cup {None} /\ row[o] \in Image
  BY Apartness DEF ImageInv, KeyInv, TypeInv, TypeOK
<1>3. /\ s \in Request /\ s.at = "upload" /\ s.owner = o /\ s.name = n
      /\ s.old = row[o] /\ s.new = None
  BY <1>2 DEF Request, Idle, Image
<1> HIDE DEF s
<1>4. RequestOK(s) /\ ~OfSetting(s)
  BY <1>2, <1>3 DEF RequestOK, OfSetting, OfProfile
<1> QED BY <1>1, <1>3, <1>4, BeginKeeps

LEMMA UpsertStartKeeps ==
  ASSUME ImageInv, NEW w \in Worker, NEW o \in Setting, NEW n \in DiskName \cup {None},
         NEW sent \in Image, UpsertStart(w, o, n, sent)
  PROVE ImageInv'
<1>0. PICK at : at = IF n = None THEN "find" ELSE "upload"
  OBVIOUS
<1> DEFINE s == [Idle EXCEPT !.at = at, !.owner = o, !.name = n, !.sent = sent]
<1>1. /\ req[w] = Idle /\ Continue(w, s) /\ started' \in 0 .. MaxRequest
      /\ n # None => /\ \A key \in put : key.name # n
                     /\ \A v \in Worker : req[v].name # n
      /\ UNCHANGED <<now, row, bucket, put, collided, hurt, left, told>>
  BY <1>0, BoundsAssumption DEF UpsertStart, Start, ImageInv, KeyInv, TypeInv, TypeOK
<1>2. o \in Owner /\ NamesOf(o) = DiskName /\ o \notin Profile /\ at \in {"find", "upload"}
  BY <1>0, Apartness
<1>3. /\ s \in Request /\ s.at = at /\ s.owner = o /\ s.name = n
      /\ s.old = None /\ s.new = None
  BY <1>2 DEF Request, Idle, Image
<1> HIDE DEF s
<1>4. RequestOK(s)
  BY <1>0, <1>2, <1>3 DEF RequestOK, OfProfile, OfSetting
<1> QED BY <1>1, <1>2, <1>3, <1>4, BeginKeeps

(* An object is stored: a key that was never written is known to the       *)
(* request that wrote it, if its answer came, and to no other.             *)
Uploaded(w, s, key) ==
  LET r == req[w]
  IN /\ r.at = "upload" /\ key = NewKey(r) /\ s \in Request /\ Continue(w, s)
     /\ Store(key) /\ left \subseteq left' /\ left' \subseteq put'
     /\ \/ s = Idle /\ key \in left'
        \/ /\ s.owner = r.owner /\ s.name = r.name /\ s.old = r.old
           /\ s.new = None /\ s.at = "find" /\ OfSetting(r) /\ key \in left'
        \/ /\ s.owner = r.owner /\ s.name = r.name /\ s.old = r.old /\ s.new = key
           /\ OfSetting(r) => s.at = "find"
           /\ OfProfile(r) => s.at \in {"deleteOld", "write"}
           /\ s.at = "deleteOld" => r.old # None
           /\ s.at = "write" => r.old = None
     /\ UNCHANGED <<now, row, started, hurt, told>>

LEMMA UploadedKeeps ==
  ASSUME ImageInv, NEW w \in Worker, NEW s, NEW key, Uploaded(w, s, key)
  PROVE ImageInv'
<1> DEFINE r == req[w]
<1>1. /\ r.at = "upload" /\ Continue(w, s) /\ s \in Request
      /\ bucket' = bucket \cup {key} /\ put' = put \cup {key}
      /\ collided' = collided \cup ({key} \cap put)
      /\ left \subseteq left' /\ left' \subseteq put'
      /\ UNCHANGED <<now, row, started, hurt, told>>
  BY DEF Uploaded, Store
<1>2. KeyInv /\ LostInv /\ StrayInv /\ TypeInv
  BY DEF ImageInv, KeyInv
<1>3. /\ RequestOK(r) /\ r \in Request /\ (OfProfile(r) <=> ~OfSetting(r))
      /\ r.owner \in Owner /\ r.name \in NamesOf(r.owner)
      /\ r.old \in KeysOf(r.owner) \cup {None} \/ (OfSetting(r) /\ r.old \in told)
      /\ r.new = None
  BY <1>1, <1>2, StageFacts DEF RequestOK
<1>4. key \in Key /\ key.name = r.name /\ key # None
  <2>1. r.name \in Name \cup DiskName
    BY <1>3 DEF NamesOf
  <2>2. key = [time |-> now, name |-> r.name]
    BY DEF Uploaded, NewKey
  <2>3. key \in Key
    BY <1>2, <2>1, <2>2 DEF Key, TypeInv, TypeOK
  <2> QED BY <2>2, <2>3, Apartness
<1>5. \/ s = Idle /\ s.at = "idle" /\ s.new = None /\ s.old = None /\ s.name = None
         /\ s.owner = None /\ key \in left'
      \/ /\ s.owner = r.owner /\ s.name = r.name /\ s.old = r.old
         /\ s.new = None /\ s.at = "find" /\ OfSetting(r) /\ key \in left'
      \/ /\ s.owner = r.owner /\ s.name = r.name /\ s.old = r.old /\ s.new = key
         /\ OfSetting(r) => s.at = "find"
         /\ OfProfile(r) => s.at \in {"deleteOld", "write"}
         /\ s.at = "deleteOld" => r.old # None
         /\ s.at = "write" => r.old = None
  BY DEF Uploaded, Idle
<1>6. /\ req' \in [Worker -> Request] /\ req'[w] = s
      /\ \A v \in Worker : v # w => req'[v] = req[v]
  BY <1>1, <1>2, Continued
<1>7. \A o : KeysOf(o) \subseteq KeysOf(o)'
  BY <1>1 DEF KeysOf
<1>8. TypeInv'
  <2>0. PICK o : o = r.owner
    OBVIOUS
  <2>1. key \in KeysOf(o)'
    BY <1>1, <1>3, <1>4, <2>0 DEF KeysOf
  <2>2. RequestOK(req[w])'
    BY <1>1, <1>3, <1>4, <1>5, <1>6, <1>7, <2>0, <2>1 DEF RequestOK, OfSetting, OfProfile
  <2>3. ASSUME NEW v \in Worker, v # w PROVE RequestOK(req[v])'
    <3>1. RequestOK(req[v]) /\ req'[v] = req[v]
      BY <1>2, <1>6, <2>3 DEF TypeInv
    <3> QED BY <1>1, <1>7, <3>1 DEF RequestOK, OfSetting, OfProfile
  <2>4. TypeOK'
    BY <1>1, <1>2, <1>4, <1>6 DEF TypeInv, TypeOK
  <2> QED BY <1>1, <1>2, <1>7, <2>2, <2>3, <2>4 DEF TypeInv
<1>9. DiskInv'
  <2>1. OfSetting(r) => key \notin put
    BY <1>1, <1>2, <1>4 DEF KeyInv, DiskInv
  <2>2. OfProfile(r) => key.name \in Name
    BY <1>3, <1>4, Apartness DEF OfProfile
  <2>3. \A k \in collided' : k.name \in Name
    BY <1>1, <1>2, <1>3, <2>1, <2>2 DEF KeyInv, DiskInv
  <2>4. r.name # None
    BY <1>1, <1>3 DEF RequestOK
  <2>5. \A v, u \in Worker : v # u /\ OfSetting(req'[u]) /\ req'[u].name # None =>
          req'[v].name # req'[u].name
    BY <1>2, <1>5, <1>6, <2>4 DEF KeyInv, DiskInv, OfSetting
  <2>6. ASSUME NEW v \in Worker, NEW k \in put', OfSetting(req'[v]), req'[v].at = "upload"
        PROVE k.name # req'[v].name
    <3>1. v # w
      BY <1>3, <1>5, <1>6, <2>6 DEF OfSetting, OfProfile
    <3>2. k \in put => k.name # req[v].name
      BY <1>2, <1>6, <2>6, <3>1 DEF KeyInv, DiskInv
    <3>3. key.name # req[v].name
      <4>1. req[v].name # None /\ OfSetting(req[v])
        BY <1>2, <1>6, <2>6, <3>1 DEF TypeInv, RequestOK
      <4> QED BY <1>2, <1>4, <3>1, <4>1 DEF KeyInv, DiskInv
    <3> QED BY <1>1, <1>6, <3>1, <3>2, <3>3
  <2> QED BY <2>3, <2>5, <2>6 DEF DiskInv, OfSetting
<1>10. \A v \in Worker : /\ req[v].new \in put \cup {None}
                         /\ req[v].old \in put \cup {None} \cup told
  <2> SUFFICES ASSUME NEW v \in Worker
               PROVE /\ req[v].new \in put \cup {None}
                     /\ req[v].old \in put \cup {None} \cup told
    OBVIOUS
  <2>1. RequestOK(req[v])
    BY <1>2 DEF TypeInv
  <2> QED BY <2>1 DEF RequestOK, KeysOf, Idle
<1>11. \A o \in Owner, k \in put' \ (collided' \cup told') :
         Holds(o, k)' => \/ k = key /\ o = r.owner /\ key \notin put
                         \/ k # key /\ Holds(o, k) /\ k \in put \ (collided \cup told)
  <2> SUFFICES ASSUME NEW o \in Owner, NEW k \in put' \ (collided' \cup told'), Holds(o, k)'
               PROVE \/ k = key /\ o = r.owner /\ key \notin put
                     \/ k # key /\ Holds(o, k) /\ k \in put \ (collided \cup told)
    OBVIOUS
  <2>1. k # None
    BY <1>1, <1>2, <1>4, Apartness DEF TypeInv, TypeOK
  <2>2. CASE k = key
    <3>1. key \notin put /\ key \notin told
      BY <1>1, <2>2
    <3>2. row[o] # key
      BY <1>2, <1>4, <3>1 DEF TypeInv, KeysOf
    <3>3. \A v \in Worker : req[v].old # key /\ req[v].new # key
      BY <1>4, <1>10, <3>1
    <3>4. PICK v \in Worker : req'[v].owner = o /\ key \in {req'[v].old, req'[v].new}
      BY <1>1, <2>2, <3>2 DEF Holds
    <3>5. v = w
      BY <1>6, <3>3, <3>4
    <3> QED BY <1>4, <1>5, <1>6, <2>2, <3>1, <3>4, <3>5
  <2>3. CASE k # key
    <3>1. ASSUME NEW v \in Worker, req'[v].owner = o, k \in {req'[v].old, req'[v].new}
          PROVE req[v].owner = o /\ k \in {req[v].old, req[v].new}
      BY <1>5, <1>6, <2>1, <2>3, <3>1
    <3> QED BY <1>1, <2>3, <3>1 DEF Holds
  <2> QED BY <2>2, <2>3
<1>12. OneHolder'
  BY <1>2, <1>11 DEF OneHolder, KeyInv
<1>13. OneWriter'
  <2> SUFFICES ASSUME NEW v \in Worker, NEW u \in Worker, v # u,
                      req'[u].new \in put' \ collided'
               PROVE req'[v].new # req'[u].new
    BY DEF OneWriter
  <2>1. None \notin put'
    BY <1>1, <1>2, <1>4, Apartness DEF TypeInv, TypeOK
  <2>2. CASE u = w \/ v = w
    BY <1>1, <1>4, <1>5, <1>6, <1>10, <2>1, <2>2
  <2>3. CASE u # w /\ v # w
    <3>1. req'[u] = req[u] /\ req'[v] = req[v] /\ req[u].new # None
      BY <1>6, <2>1, <2>3
    <3> QED BY <1>1, <1>2, <1>10, <3>1 DEF OneWriter, KeyInv
  <2> QED BY <2>2, <2>3
<1>14. ASSUME NEW v \in Worker PROVE Fresh(v)'
  <2>1. CASE v = w
    <3> SUFFICES ASSUME s.new = key, key \notin collided' \cup told
                 PROVE /\ key \in bucket'
                       /\ \A o \in Owner : row'[o] # key
                       /\ \A u \in Worker : req'[u].old # key
      BY <1>1, <1>5, <1>6, <2>1 DEF Fresh, Pending, OfSetting, OfProfile
    <3>1. key \notin put
      BY <1>1
    <3>2. \A o \in Owner : row[o] # key
      BY <1>2, <1>4, <3>1 DEF TypeInv, KeysOf
    <3>3. \A u \in Worker : req[u].old # key
      BY <1>4, <1>10, <3>1
    <3> QED BY <1>1, <1>4, <1>5, <1>6, <3>2, <3>3
  <2>2. CASE v # w
    <3>1. /\ Fresh(v) /\ req'[v] = req[v]
          /\ \A u \in Worker : req'[u].old \in {req[u].old, None}
      BY <1>2, <1>5, <1>6, <2>2 DEF KeyInv
    <3> QED BY <1>1, <3>1 DEF Fresh, Pending, OfSetting, OfProfile
  <2> QED BY <2>1, <2>2
<1>15. LostInv'
  <2>1. \A o \in Owner : Lost(o)' => Lost(o)
    BY <1>1 DEF Lost
  <2>2. \A o \in Owner : Replacing(o) => Replacing(o)'
    BY <1>1, <1>6 DEF Replacing
  <2>3. s.at # "rollback" /\ (OfSetting(s) => s.at # "deleteOld")
    BY <1>3, <1>5 DEF OfSetting, OfProfile
  <2>4. \A v \in Worker : Superseded(v)' /\ RollbackHurts(v)'
    BY <1>1, <1>2, <1>6, <2>3 DEF LostInv, Superseded, RollbackHurts, OfSetting
  <2> QED BY <1>1, <1>2, <2>1, <2>2, <2>4 DEF LostInv
<1>16. StrayInv'
  <2>1. s.new = key => Pending(s)
    BY <1>3, <1>4, <1>5 DEF Pending, OfSetting, OfProfile
  <2>2. Expected(key)'
    <3>1. CASE key \in left'
      BY <3>1 DEF Expected
    <3>2. CASE s.new = key
      BY <1>6, <2>1, <3>2 DEF Expected, Pending, OfSetting, OfProfile
    <3> QED BY <1>5, <3>1, <3>2
  <2>3. \A k \in put : Expected(k) => Expected(k)'
    <3>1. req[w].new = None /\ req[w].at = "upload" /\ None \notin put
      BY <1>1, <1>2, <1>3, Apartness DEF TypeInv, TypeOK
    <3> QED BY <1>1, <1>6, <3>1 DEF Expected, Pending, OfSetting, OfProfile
  <2>4. ASSUME NEW v \in Worker PROVE Dealt(v)'
    <3>1. CASE v = w
      <4>1. s.at = "write" => s.old \notin bucket'
        BY <1>1, <1>2, <1>4, <1>5, Apartness DEF TypeInv, TypeOK
      <4> QED BY <1>6, <3>1, <4>1 DEF Dealt
    <3>2. CASE v # w
      <4>1. Dealt(v) /\ req'[v] = req[v]
        BY <1>2, <1>6, <3>2 DEF StrayInv
      <4>2. req[v].at = "write" /\ OfProfile(req[v]) => req[v].old \in put \cup {None}
        BY <1>2, StageFacts
      <4>3. \A k \in put : k \in bucket' \ collided' => k \in bucket \ collided
        BY <1>1
      <4>4. None \notin bucket'
        BY <1>1, <1>2, <1>4, Apartness DEF TypeInv, TypeOK
      <4> QED BY <1>1, <4>1, <4>2, <4>3, <4>4 DEF Dealt, OfProfile
    <3> QED BY <3>1, <3>2
  <2>5. bucket \subseteq put
    BY <1>2 DEF TypeInv, TypeOK
  <2> QED BY <1>1, <1>2, <2>2, <2>3, <2>4, <2>5 DEF StrayInv
<1> QED BY <1>8, <1>9, <1>12, <1>13, <1>14, <1>15, <1>16 DEF ImageInv, KeyInv

LEMMA PutKeeps ==
  ASSUME ImageInv, NEW w \in Worker, Put(w)
  PROVE ImageInv'
<1>1. PICK key : key = NewKey(req[w])
  OBVIOUS
<1>2. PICK r : r = req[w]
  OBVIOUS
<1>3. PICK at : at = IF OfSetting(r) THEN "find" ELSE IF r.old # None THEN "deleteOld" ELSE "write"
  OBVIOUS
<1> DEFINE s == [r EXCEPT !.new = key, !.sent = None, !.at = at]
<1>4. /\ r.at = "upload" /\ Continue(w, s) /\ Store(key)
      /\ UNCHANGED <<now, row, started, hurt, left, told>>
  BY <1>1, <1>2, <1>3 DEF Put
<1>5. TypeInv /\ left \subseteq put
  BY DEF ImageInv, KeyInv, TypeInv, TypeOK
<1>6. r \in Request /\ (OfProfile(r) <=> ~OfSetting(r)) /\ r.name \in NamesOf(r.owner)
  BY <1>2, <1>4, <1>5, StageFacts DEF RequestOK
<1>7. key \in Key /\ at \in {"find", "deleteOld", "write"}
  BY <1>1, <1>2, <1>3, <1>5, <1>6 DEF NewKey, NamesOf, Key, TypeInv, TypeOK
<1>8. /\ s \in Request /\ s.owner = r.owner /\ s.name = r.name /\ s.old = r.old
      /\ s.new = key /\ s.at = at
  BY <1>6, <1>7 DEF Request, Image
<1> HIDE DEF s
<1>9. Uploaded(w, s, key)
  BY <1>1, <1>2, <1>3, <1>4, <1>5, <1>6, <1>8 DEF Uploaded, Store
<1> QED BY <1>9, UploadedKeeps

LEMMA PutUnseenKeeps ==
  ASSUME ImageInv, NEW w \in Worker, PutUnseen(w)
  PROVE ImageInv'
<1>1. PICK key : key = NewKey(req[w])
  OBVIOUS
<1>2. PICK r : r = req[w]
  OBVIOUS
<1> DEFINE s == IF OfSetting(r) THEN [r EXCEPT !.at = "find"] ELSE Idle
<1>3. /\ r.at = "upload" /\ Continue(w, s) /\ Store(key) /\ left' = left \cup {key}
      /\ UNCHANGED <<now, row, started, hurt, told>>
  BY <1>1, <1>2 DEF PutUnseen, Unstored, Go, Finish
<1>4. TypeInv /\ left \subseteq put
  BY DEF ImageInv, KeyInv, TypeInv, TypeOK
<1>5. r \in Request /\ r.new = None
  BY <1>2, <1>3, <1>4, StageFacts DEF RequestOK
<1>6. /\ s \in Request
      /\ \/ s = Idle
         \/ /\ OfSetting(r) /\ s.owner = r.owner /\ s.name = r.name /\ s.old = r.old
            /\ s.new = None /\ s.at = "find"
  BY <1>5, IdleOK DEF Request
<1> HIDE DEF s
<1>7. Uploaded(w, s, key)
  BY <1>1, <1>2, <1>3, <1>4, <1>6 DEF Uploaded, Store
<1> QED BY <1>7, UploadedKeeps

LEMMA DeleteSettingKeeps ==
  ASSUME ImageInv, NEW o \in Setting, DeleteSetting(o)
  PROVE ImageInv'
<1>1. /\ row' = [row EXCEPT ![o] = None] /\ left' = left \cup ({row[o]} \cap put)
      /\ row[o] # None
      /\ UNCHANGED <<now, bucket, req, started, put, collided, hurt, told>>
  BY DEF DeleteSetting
<1>2. KeyInv /\ LostInv /\ StrayInv /\ TypeInv /\ o \in Owner
  BY Apartness DEF ImageInv, KeyInv
<1>3. \A p \in Owner : row'[p] = row[p] \/ (p = o /\ row'[p] = None)
  BY <1>1, <1>2 DEF TypeInv, TypeOK
<1>4. TypeInv'
  <2>1. TypeOK'
    BY <1>1, <1>2 DEF TypeInv, TypeOK, Image
  <2>2. \A v \in Worker : RequestOK(req[v])'
    BY <1>1, <1>2 DEF TypeInv, RequestOK, KeysOf, OfSetting, OfProfile
  <2> QED BY <1>1, <1>2, <1>3, <2>1, <2>2 DEF TypeInv, KeysOf
<1>5. DiskInv' /\ OneWriter'
  BY <1>1, <1>2 DEF KeyInv, DiskInv, OneWriter, OfSetting
<1>6. OneHolder'
  <2>1. \A p \in Owner, key \in put : Holds(p, key)' => Holds(p, key)
    <3>1. None \notin put
      BY <1>2, Apartness DEF TypeInv, TypeOK
    <3> QED BY <1>1, <1>3, <3>1 DEF Holds
  <2> QED BY <1>1, <1>2, <2>1 DEF OneHolder, KeyInv
<1>7. ASSUME NEW v \in Worker
      PROVE /\ req[v].at = "rollback" => req[v].new # None
            /\ req[v].at = "deleteOld" => req[v].old # None
  BY <1>2, Apartness DEF TypeInv, TypeOK, RequestOK, KeysOf
<1>8. ASSUME NEW v \in Worker PROVE Fresh(v)'
  <2>1. Fresh(v) /\ (Pending(req[v]) => req[v].new # None)
    BY <1>2 DEF KeyInv, Pending
  <2> QED BY <1>1, <1>3, <2>1 DEF Fresh, Pending, OfSetting, OfProfile
<1>9. LostInv'
  <2>1. ASSUME NEW p \in Owner, Lost(p)' PROVE Lost(p) /\ row'[p] = row[p]
    BY <1>1, <1>3, <2>1 DEF Lost
  <2>2. ASSUME NEW p \in Owner, row'[p] = row[p], Replacing(p) PROVE Replacing(p)'
    BY <1>1, <2>2 DEF Replacing
  <2>3. ASSUME NEW v \in Worker PROVE Superseded(v)' /\ RollbackHurts(v)'
    <3>1. Superseded(v) /\ RollbackHurts(v)
      BY <1>2 DEF LostInv
    <3>2. Superseded(v)'
      BY <1>1, <1>3, <1>7, <3>1 DEF Superseded, OfSetting
    <3>3. RollbackHurts(v)'
      BY <1>1, <1>3, <1>7, <3>1 DEF RollbackHurts
    <3> QED BY <3>2, <3>3
  <2> QED BY <1>1, <1>2, <2>1, <2>2, <2>3 DEF LostInv
<1>10. StrayInv'
  <2>1. ASSUME NEW key \in bucket \ collided PROVE Expected(key)'
    <3>1. CASE key = row[o]
      BY <1>1, <1>2, <3>1 DEF Expected, TypeInv, TypeOK
    <3>2. CASE key # row[o]
      <4>1. \A p \in Owner : row[p] = key => row'[p] = key
        BY <1>3, <3>2
      <4>2. Expected(key)
        BY <1>2 DEF StrayInv
      <4> QED BY <1>1, <4>1, <4>2 DEF Expected, Pending, OfSetting, OfProfile
    <3> QED BY <3>1, <3>2
  <2>2. \A v \in Worker : Dealt(v)'
    BY <1>1, <1>2 DEF StrayInv, Dealt, OfProfile
  <2> QED BY <1>1, <2>1, <2>2 DEF StrayInv
<1> QED BY <1>4, <1>5, <1>6, <1>8, <1>9, <1>10 DEF ImageInv, KeyInv

(* The clock, and what changes nothing.                                    *)
LEMMA ClockKeeps ==
  ASSUME ImageInv, now' \in 0 .. MaxTime,
         UNCHANGED <<row, bucket, req, started, put, collided, hurt, left, told>>
  PROVE ImageInv'
<1>1. TypeInv'
  BY DEF ImageInv, KeyInv, TypeInv, TypeOK, RequestOK, KeysOf, OfSetting, OfProfile
<1>2. DiskInv' /\ OneHolder' /\ OneWriter' /\ \A w \in Worker : Fresh(w)'
  BY DEF ImageInv, KeyInv, DiskInv, OneHolder, Holds, OneWriter, Fresh, Pending,
         OfSetting, OfProfile
<1>3. LostInv'
  BY DEF ImageInv, LostInv, Lost, Replacing, Superseded, RollbackHurts, OfSetting
<1>4. StrayInv'
  BY DEF ImageInv, StrayInv, Expected, Dealt, Pending, OfSetting, OfProfile
<1> QED BY <1>1, <1>2, <1>3, <1>4 DEF ImageInv, KeyInv

LEMMA NextKeeps ==
  ASSUME ImageInv, [Next]_vars
  PROVE ImageInv'
<1>0. now \in 0 .. MaxTime /\ MaxTime \in Nat
  BY BoundsAssumption DEF ImageInv, KeyInv, TypeInv, TypeOK
<1>1. CASE UNCHANGED vars
  BY <1>0, <1>1, ClockKeeps DEF vars
<1>2. CASE Tick
  BY <1>0, <1>2, ClockKeeps DEF Tick
<1>3. CASE Quiet
  BY <1>1, <1>3 DEF Quiet
<1>4. ASSUME NEW o \in Setting, DeleteSetting(o) PROVE ImageInv'
  BY <1>4, DeleteSettingKeeps
<1>5. ASSUME NEW w \in Worker, NEW o \in Profile, NEW n \in Name, ProfileRead(w, o, n)
      PROVE ImageInv'
  BY <1>5, ProfileReadKeeps
<1>6. ASSUME NEW w \in Worker, NEW o \in Setting, NEW n \in DiskName \cup {None},
             NEW sent \in Image, UpsertStart(w, o, n, sent)
      PROVE ImageInv'
  BY <1>6, UpsertStartKeeps
<1>7. ASSUME NEW w \in Worker, Put(w) PROVE ImageInv'
  BY <1>7, PutKeeps
<1>8. ASSUME NEW w \in Worker, PutFails(w) PROVE ImageInv'
  BY <1>8, PutFailsKeeps
<1>9. ASSUME NEW w \in Worker, Find(w) PROVE ImageInv'
  BY <1>9, FindKeeps
<1>10. ASSUME NEW w \in Worker, Write(w) PROVE ImageInv'
  BY <1>10, WriteUploadKeeps, WriteSentKeeps
<1>11. ASSUME NEW w \in Worker, DeleteOld(w) PROVE ImageInv'
  BY <1>11, DeleteOldKeeps
<1>12. ASSUME NEW w \in Worker, DbError(w) PROVE ImageInv'
  BY <1>12, DbErrorKeeps
<1>13. ASSUME NEW w \in Worker, AckLost(w) PROVE ImageInv'
  BY <1>13, AckLostKeeps
<1>14. ASSUME NEW w \in Worker, Rollback(w) PROVE ImageInv'
  BY <1>14, RollbackKeeps
<1>15. ASSUME NEW w \in Worker, Crash(w) PROVE ImageInv'
  BY <1>15, CrashKeeps
<1>16. ASSUME NEW w \in Worker, PutUnseen(w) PROVE ImageInv'
  BY <1>16, PutUnseenKeeps
<1> QED
  BY <1>1, <1>2, <1>3, <1>4, <1>5, <1>6, <1>7, <1>8, <1>9, <1>10, <1>11, <1>12,
     <1>13, <1>14, <1>15, <1>16 DEF Next

LEMMA InitHolds == Init => ImageInv
<1> SUFFICES ASSUME Init PROVE ImageInv
  OBVIOUS
<1>1. /\ now = 0 /\ started = 0 /\ bucket = {} /\ put = {}
      /\ collided = {} /\ hurt = {} /\ left = {} /\ told = {}
      /\ \A o \in Owner : row[o] = None
      /\ \A w \in Worker : req[w] = Idle
  BY DEF Init
<1>2. /\ Idle.at = "idle" /\ Idle.owner = None
      /\ Idle.name = None /\ Idle.old = None /\ Idle.new = None
  BY DEF Idle
<1>3. TypeInv
  BY <1>1, IdleOK, BoundsAssumption DEF Init, TypeInv, TypeOK, Image
<1>4. DiskInv /\ OneHolder /\ OneWriter /\ \A w \in Worker : Fresh(w)
  BY <1>1, <1>2, Apartness
     DEF DiskInv, OneHolder, OneWriter, Fresh, Pending, OfSetting, OfProfile, Owner
<1>5. LostInv
  BY <1>1, <1>2 DEF LostInv, Lost, Superseded, RollbackHurts
<1>6. StrayInv
  BY <1>1, <1>2 DEF StrayInv, Dealt
<1> QED BY <1>3, <1>4, <1>5, <1>6 DEF ImageInv, KeyInv

-----------------------------------------------------------------------------
(* The theorems. *)

(* The invariant of updateProfileImage and upsert together: whom a key     *)
(* belongs to, what a replacement has uploaded and not yet named, and what *)
(* it has named and not yet deleted.                                       *)
THEOREM Invariance == Spec => []ImageInv
<1>1. ImageInv /\ [Next]_vars => ImageInv'
  BY NextKeeps
<1> QED BY <1>1, InitHolds, PTL DEF Spec

(* Every variable keeps its type.                                          *)
THEOREM TypeCorrect == Spec => []TypeOK
<1>1. ImageInv => TypeOK
  BY DEF ImageInv, KeyInv, TypeInv
<1> QED BY <1>1, Invariance, PTL

(* SystemSettingService.upsert: a setting names a stored file, unless its  *)
(* name came from a DTO, or the answer to a write was lost and the rollback*)
(* took the file.                                                          *)
THEOREM SettingTheorem == Spec => []UploadedLogoLostOnlyByLostAck
<1>1. ImageInv => UploadedLogoLostOnlyByLostAck
  BY Apartness DEF ImageInv, LostInv, UploadedLogoLostOnlyByLostAck
<1> QED BY <1>1, Invariance, PTL

(* updateProfileImage: a profile is without its image only while it is     *)
(* replaced, after a failure on the way, when two uploads met in name and  *)
(* millisecond, or after a setting took the name of its image from a DTO.  *)
THEOREM ProfileTheorem == Spec => []ProfileLostOnlyByFailure
<1>1. ImageInv => ProfileLostOnlyByFailure
  BY Apartness DEF ImageInv, LostInv, Replacing, ProfileLostOnlyByFailure
<1> QED BY <1>1, Invariance, PTL

(* Both: an object that nothing names or is about to name or delete was    *)
(* left by one of the named causes.                                        *)
THEOREM StrayTheorem == Spec => []NoStrayObject
<1>1. ImageInv => NoStrayObject
  <2> SUFFICES ASSUME ImageInv PROVE NoStrayObject
    OBVIOUS
  <2>1. bucket \subseteq put
    BY DEF ImageInv, KeyInv, TypeInv, TypeOK
  <2> QED BY <2>1 DEF ImageInv, StrayInv, Expected, NoStrayObject, InHand
<1> QED BY <1>1, Invariance, PTL
=============================================================================
