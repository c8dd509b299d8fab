---------------------------- MODULE StoredImages ----------------------------
(***************************************************************************)
(* Rows that name an object in S3, and the two ways the code replaces one: *)
(*   - for a profile, RootAuthService and UserAuthService.updateProfileImage*)
(*     upload the new image, delete the old one, then write the row;       *)
(*   - for a setting, SystemSettingService.upsert uploads the new logo,    *)
(*     writes the row, then deletes the old one, and deletes the new one   *)
(*     again when it catches an exception.                                 *)
(* companyLogo stands for the logo and the favicon, treated alike.  The    *)
(* DTO of an upsert may bring companyLogo itself, as any string: without a *)
(* stored file, that string goes into the row as it was sent.              *)
(***************************************************************************)
EXTENDS Naturals, FiniteSets

CONSTANTS
  Profile,    \* the ROOT and USER rows
  Setting,    \* the (scope, root) of each system setting
  Worker,     \* slots for requests in flight: their number bounds the concurrency
  Name,       \* file names of a client, kept in memory
  DiskName,   \* file names made unique by multer on disk
  Foreign,    \* strings a client may send that are the URL of no key
  None,       \* SQL NULL
  MaxTime,    \* bound: last millisecond of the clock
  MaxRequest  \* bound: requests ever accepted

Owner == Profile \cup Setting

\* `${Date.now()}_${name}`, the same for all owners
Key == [time : 0 .. MaxTime, name : Name \cup DiskName]

\* what a row names, and what the DTO of an upsert may bring
Image == Key \cup Foreign \cup {None}

ASSUME BoundsAssumption == {MaxTime, MaxRequest} \subseteq Nat
ASSUME DistinctAssumption == /\ Profile \cap Setting = {}
                             /\ Name \cap DiskName = {}
                             /\ Foreign \cap Key = {}
                             /\ None \notin Key \cup Foreign \cup Owner \cup Name \cup DiskName

VARIABLES
  now,       \* the clock, in milliseconds
  row,       \* the image each row names
  bucket,    \* the objects in S3
  req,       \* the requests in flight
  started,   \* how many requests were accepted
  put,       \* the keys ever written
  \* History of what happened, read by no guard.
  collided,  \* the keys written more than once
  hurt,      \* the owners whose image the last failed replacement took
  left,      \* the keys that a failure, a deletion or a write of another left
  told       \* the names that settings took from a DTO

vars == <<now, row, bucket, req, started, put, collided, hurt, left, told>>

Request == [at : {"idle", "upload", "find", "write", "deleteOld", "rollback"},
            owner : Owner \cup {None},
            name : Name \cup DiskName \cup {None},  \* of the file, if one is sent
            sent : Image,                           \* dto.companyLogo, if it is sent
            old : Image,                            \* what the row named when it was read
            new : Key \cup {None}]                  \* what was uploaded
Idle == [at |-> "idle", owner |-> None, name |-> None, sent |-> None,
         old |-> None, new |-> None]

OfProfile(r) == r.owner \in Profile
OfSetting(r) == r.owner \in Setting

Continue(w, r) == req' = [req EXCEPT ![w] = r]
Go(w, at) == Continue(w, [req[w] EXCEPT !.at = at])
Finish(w) == Continue(w, Idle)
Start(w, r) == /\ req[w] = Idle
               /\ started < MaxRequest
               /\ started' = started + 1
               /\ Continue(w, r)

Init ==
  /\ now = 0 /\ started = 0
  /\ row = [o \in Owner |-> None]
  /\ bucket = {} /\ put = {}
  /\ req = [w \in Worker |-> Idle]
  /\ collided = {} /\ hurt = {} /\ left = {} /\ told = {}

-----------------------------------------------------------------------------
\* updateProfileImage reads the row, upsert uploads before it reads anything
ProfileRead(w, o, n) ==
  /\ Start(w, [Idle EXCEPT !.at = "upload", !.owner = o, !.name = n, !.old = row[o]])
  /\ UNCHANGED <<now, row, bucket, put, collided, hurt, left, told>>

\* A file of an upsert was named by multer on disk, with a random suffix.
\* No caller passes a file today: safeUpload answers null at once.
UpsertStart(w, o, n, sent) ==
  /\ n # None => /\ \A key \in put : key.name # n
                 /\ \A v \in Worker : req[v].name # n
  /\ Start(w, [Idle EXCEPT !.at = IF n = None THEN "find" ELSE "upload",
                           !.owner = o, !.name = n, !.sent = sent])
  /\ UNCHANGED <<now, row, bucket, put, collided, hurt, left, told>>

\* an object is stored under the key of this moment
Store(key) == /\ bucket' = bucket \cup {key}
              /\ put' = put \cup {key}
              /\ collided' = collided \cup ({key} \cap put)

NewKey(r) == [time |-> now, name |-> r.name]

Put(w) ==
  /\ req[w].at = "upload"
  /\ Store(NewKey(req[w]))
  /\ Continue(w, [req[w] EXCEPT !.new = NewKey(req[w]), !.sent = None,
                    !.at = IF OfSetting(req[w]) THEN "find"
                           ELSE IF req[w].old # None THEN "deleteOld"
                           ELSE "write"])
  /\ UNCHANGED <<now, row, started, hurt, left, told>>

\* A profile image is refused then, a setting is written with what was sent.
Unstored(w) == IF OfSetting(req[w]) THEN Go(w, "find") ELSE Finish(w)

PutFails(w) ==
  /\ req[w].at = "upload"
  /\ Unstored(w)
  /\ UNCHANGED <<now, row, bucket, started, put, collided, hurt, left, told>>

\* S3 stored the object, but its answer was lost: S3Service answers null.
PutUnseen(w) ==
  /\ req[w].at = "upload"
  /\ Store(NewKey(req[w]))
  /\ left' = left \cup {NewKey(req[w])}
  /\ Unstored(w)
  /\ UNCHANGED <<now, row, started, hurt, told>>

Find(w) ==
  /\ req[w].at = "find"
  /\ Continue(w, [req[w] EXCEPT !.at = "write", !.old = row[req[w].owner]])
  /\ UNCHANGED <<now, row, bucket, started, put, collided, hurt, left, told>>

\* VARIANT
FileName(r) == r.name
\* what the row names after the write: a DTO without a logo leaves it alone
Named(r) == IF r.new # None THEN r.new
            ELSE IF r.sent # None THEN r.sent ELSE row[r.owner]

AfterWrite(r) == IF OfSetting(r) /\ r.new # None /\ r.old # None
                 THEN [r EXCEPT !.at = "deleteOld"] ELSE Idle

\* the object that a write replaces and that its request does not delete
Unread(r) == ({row[r.owner]} \ {Named(r), IF r.new = None THEN None ELSE r.old}) \cap put

Told(r) == IF r.new = None THEN {r.sent} \ {None} ELSE {}

Write(w) ==
  LET r == req[w]
  IN /\ r.at = "write"
     /\ row' = [row EXCEPT ![r.owner] = Named(r)]
     /\ left' = left \cup Unread(r)
     /\ told' = told \cup Told(r)
     /\ hurt' = IF r.new = None /\ r.sent = None THEN hurt ELSE hurt \ {r.owner}
     /\ Continue(w, AfterWrite(r))
     /\ UNCHANGED <<now, bucket, started, put, collided>>

\* the object a replacement deletes
\* VARIANT
ReplacedNew(r) == {r.new}
Replaced(r) == {r.old}

\* S3Service.delete never throws: its failure goes unnoticed, and a string
\* that is the URL of no object deletes none
Delete(keys) ==
  \/ bucket' = bucket \ keys /\ left' = left
  \/ bucket' = bucket /\ left' = left \cup (keys \cap put)

DeleteOld(w) ==
  /\ req[w].at = "deleteOld"
  /\ Delete(Replaced(req[w]))
  /\ IF OfProfile(req[w]) THEN Go(w, "write") ELSE Finish(w)
  /\ UNCHANGED <<now, row, started, put, collided, hurt, told>>

\* SystemSettingService.delete removes the row and leaves its files
DeleteSetting(o) ==
  /\ row[o] # None
  /\ row' = [row EXCEPT ![o] = None]
  /\ left' = left \cup ({row[o]} \cap put)
  /\ UNCHANGED <<now, bucket, req, started, put, collided, hurt, told>>

-----------------------------------------------------------------------------
\* the owners that a profile update leaves without image if it ends now
Bereft(r) == IF OfProfile(r) /\ r.at = "write" /\ r.old # None THEN {r.owner} ELSE {}

\* upsert takes back what it uploaded, updateProfileImage nothing
Catch(w) == IF OfSetting(req[w]) /\ req[w].new # None
            THEN Go(w, "rollback") ELSE Finish(w)

\* a query throws
DbError(w) ==
  LET r == req[w]
  IN /\ r.at \in {"find", "write"}
     /\ hurt' = hurt \cup Bereft(r)
     /\ left' = IF OfSetting(r) THEN left ELSE left \cup {r.new}
     /\ Catch(w)
     /\ UNCHANGED <<now, row, bucket, started, put, collided, told>>

\* The connection breaks after the database committed the write of an image
\* that was uploaded; without an upload this differs from Write for nobody.
AckLost(w) ==
  LET r == req[w]
  IN /\ r.at = "write" /\ r.new # None
     /\ row' = [row EXCEPT ![r.owner] = r.new]
     /\ left' = left \cup ((IF OfSetting(r) THEN {row[r.owner]} \ {r.new} ELSE Unread(r))
                           \cap put)
     /\ hurt' = IF OfSetting(r) THEN hurt \cup {r.owner} ELSE hurt \ {r.owner}
     /\ Catch(w)
     /\ UNCHANGED <<now, bucket, started, put, collided, told>>

\* VARIANT
RolledBackOld(r) == {r.old}
\* VARIANT
NotRolledBack(r) == {}
RolledBack(r) == {r.new}

Rollback(w) ==
  /\ req[w].at = "rollback"
  /\ Delete(RolledBack(req[w]))
  /\ Finish(w)
  /\ UNCHANGED <<now, row, started, put, collided, hurt, told>>

\* what a request has yet to name or to delete
InHand(r) == ({r.new} \cup IF r.at = "deleteOld" THEN {r.old} ELSE {}) \cap put

Crash(w) ==
  /\ req[w].at # "idle"
  /\ hurt' = hurt \cup Bereft(req[w])
  /\ left' = left \cup InHand(req[w])
  /\ Finish(w)
  /\ UNCHANGED <<now, row, bucket, started, put, collided, told>>

Tick == /\ now < MaxTime
        /\ now' = now + 1
        /\ UNCHANGED <<row, bucket, req, started, put, collided, hurt, left, told>>

\* Outside the bound of the model: nothing is in flight and none is accepted.
Quiet == /\ started = MaxRequest /\ \A w \in Worker : req[w] = Idle
         /\ UNCHANGED vars

Next ==
  \/ Tick
  \/ Quiet
  \/ \E o \in Setting : DeleteSetting(o)
  \/ \E w \in Worker :
       \/ \E o \in Profile, n \in Name : ProfileRead(w, o, n)
       \/ \E o \in Setting, n \in DiskName \cup {None}, sent \in Image : UpsertStart(w, o, n, sent)
       \/ Put(w)
       \/ PutFails(w)
       \/ PutUnseen(w)
       \/ Find(w)
       \/ Write(w)
       \/ DeleteOld(w)
       \/ DbError(w)
       \/ AckLost(w)
       \/ Rollback(w)
       \/ Crash(w)

Spec == Init /\ [][Next]_vars

-----------------------------------------------------------------------------
(* Every variable keeps its type. *)
TypeOK ==
  /\ now \in 0 .. MaxTime /\ started \in 0 .. MaxRequest
  /\ row \in [Owner -> Image]
  /\ bucket \subseteq put /\ put \subseteq Key
  /\ req \in [Worker -> Request]
  /\ collided \subseteq put /\ left \subseteq put
  /\ hurt \subseteq Owner
  /\ told \subseteq Key \cup Foreign

Lost(o) == row[o] \notin bucket \cup {None}

(* The image of a profile is missing only while its owner replaces it,     *)
(* after a replacement died between deleting the old image and naming the  *)
(* new one, when two uploads of one name fell into the same millisecond, or*)
(* when somebody had a setting name it, whose next upload deletes it.      *)
ProfileLostOnlyByFailure ==
  \A o \in Profile : Lost(o) =>
    \/ o \in hurt
    \/ \E w \in Worker : req[w].owner = o /\ req[w].old = row[o]
    \/ row[o] \in collided
    \/ row[o] \in told

(* Writing the row before deleting the old file keeps the promise of the   *)
(* rollback in upsert: whatever fails, whenever the process dies and       *)
(* however upserts of one setting overlap, a setting names a stored file,  *)
(* unless that name came from a DTO.  The one other exception is a write   *)
(* whose confirmation was lost: the rollback deletes the file that the row *)
(* names.                                                                  *)
UploadedLogoLostOnlyByLostAck ==
  \A o \in Setting : Lost(o) => o \in hurt \/ row[o] \in told

(* An object that no row names and no request is about to name or delete   *)
(* was left by a crash, an S3 call that failed or whose answer was lost, a *)
(* failed or unconfirmed write, a deleted setting, or a write that replaced*)
(* an image it had not read or, its logo coming from the DTO, did not mean *)
(* to delete: an upsert that catches an error itself leaves none.  Keys    *)
(* that two uploads shared are excepted, as a second object under a deleted*)
(* key may stay.                                                           *)
NoStrayObject ==
  \A key \in bucket \ collided :
    \/ \E o \in Owner : row[o] = key
    \/ \E w \in Worker : key \in InHand(req[w])
    \/ key \in left
=============================================================================
