-------------------------------- MODULE Kyc --------------------------------
(***************************************************************************)
(* UserKycService and BusinessKycService with the services they call:      *)
(* AddressService, PiiConsentService, AuditLogService and S3Service.       *)
(*                                                                         *)
(* No request runs in a database transaction: it is a sequence of single   *)
(* queries and S3 calls.  A request that the code refuses half-way         *)
(* (Refuse), that fails or that dies with its process (Fail) leaves what   *)
(* it wrote so far.  The document columns are handled alike, one after the *)
(* other; panFile stands for them.  The entries of the audit log are left  *)
(* out, as no code here reads them, but not their failure: it ends the     *)
(* request after what it logs was written, as any Fail does.               *)
(***************************************************************************)
EXTENDS Naturals, Sequences, FiniteSets

CONSTANTS
  Kind,       \* the services at work: "user", "business"
  StrictSql,  \* STRICT_TRANS_TABLES, the default of mariadb:10.7
  PiiColumn,  \* the length of pii_consents.pii_hash
  Failures,   \* whether queries, S3 calls and the process may fail
  User,       \* users who file a KYC
  Worker,     \* slots for requests in flight: their number bounds the concurrency
  Column,     \* the columns of an address: address, pinCode, cityId, stateId
  Text,       \* what a column may hold
  Filing,     \* bound: the places that filings give
  Edit,       \* bound: the columns, with their new contents, that updates give
  Earlier,    \* the places of the KYCs deleted before the run: their rows stay
  None,       \* SQL NULL, or the empty string in a file column
  MaxRequest  \* bound: requests ever accepted; each inserts or uploads at most once

Place == [Column -> Text]
Given == UNION {[F -> Text] : F \in (SUBSET Column) \ {{}}}

ASSUME KycAssumption == /\ Kind \subseteq {"user", "business"}
                        /\ {StrictSql, Failures} \subseteq BOOLEAN
                        /\ PiiColumn \in Nat \ {0} /\ MaxRequest \in Nat
                        /\ None \notin Nat \cup User \cup Place \cup Given
ASSUME AddressAssumption == /\ Filing \subseteq Place /\ Edit \subseteq Given
                            /\ Earlier \in Seq(Place)
                            /\ \A a, b \in DOMAIN Earlier : Earlier[a] = Earlier[b] => a = b

KycId == 1 .. MaxRequest
AddressId == 1 .. Len(Earlier) + MaxRequest
File == 1 .. MaxRequest

VARIABLES
  address,  \* the addresses table: the place of each row, in order of insertion
  kyc,      \* the user_kyc and business_kycs tables
  filed,    \* how many KYC rows were ever inserted
  pii,      \* the pii_consents table
  bucket,   \* the objects in S3
  uploads,  \* how many objects were ever uploaded
  started,  \* how many requests were accepted
  req,      \* the requests in flight
  \* History of what happened, read by no guard.
  moves,    \* how often the addresses table was written
  stamp,    \* of each address row: its last two writes, and what the last one went by
  hurt      \* the KYCs whose document a failed update deleted

history == <<moves, stamp, hurt>>
vars == <<address, kyc, filed, pii, bucket, uploads, started, req, history>>

-----------------------------------------------------------------------------
(* Personal data.  encrypt returns "iv:ciphertext:tag" in hexadecimal with *)
(* an iv and a tag of 16 bytes; the KYC services encrypt a number and      *)
(* PiiConsentService.create encrypts what it is given once more.           *)

PiiType == {"PAN", "AADHAAR", "GST", "UDHYAM"}
\* the types a filing may store; UDHYAM is optional
Payloads(kind) == IF kind = "user" THEN {{"PAN", "AADHAAR"}}
                  ELSE {{"PAN", "GST"}, {"PAN", "GST", "UDHYAM"}}
Digits(t) == CASE t = "PAN" -> 10 [] t = "AADHAAR" -> 12 [] t = "GST" -> 15
               [] t = "UDHYAM" -> 19

Encrypted(n) == 2 * 16 + 1 + 2 * n + 1 + 2 * 16
PiiLength(t) == Encrypted(Encrypted(Digits(t)))

\* A strict server refuses a value longer than its column, another cuts it.
Storable(t) == StrictSql => PiiLength(t) <= PiiColumn
\* VARIANT
Uncut(t) == PiiLength(t)
Stored(t) == IF PiiLength(t) <= PiiColumn THEN PiiLength(t) ELSE PiiColumn

Row == [kind : Kind, user : User, address : AddressId, file : File \cup {None},
        status : {"PENDING", "VERIFIED", "REJECTED"}, verifiedAt : BOOLEAN]
Consent == [user : User, scope : Kind, type : PiiType, kyc : KycId \cup {None},
            length : 1 .. PiiColumn]
Stage == {"idle", "create", "address", "documents", "row", "consents", "created",
          "update", "upload", "rowUpdate", "move", "look", "place", "consent", "updated",
          "verify", "verified", "delete", "deleted"}
Request == [at : Stage, kind : Kind \cup {None}, user : User \cup {None},
            by : {"ROOT", "USER", "EMPLOYEE"},
            place : Place \cup Given \cup {None}, base : Place \cup {None},
            id : KycId \cup {None}, address : AddressId \cup {None},
            old : File \cup {None}, new : File \cup {None},
            withFile : BOOLEAN, withPii : BOOLEAN, todo : SUBSET PiiType,
            read : Nat, seen : Nat, before : Nat]
\* read and seen: how many moves had been when the row of the address was read and
\* when another one with its new place was looked for; before: the write before this
AddressStamp == [read : Nat, seen : Nat, before : Nat, written : Nat]

\* read, seen and before are history: the moves and the filings when it last looked
Idle == [at |-> "idle", kind |-> None, user |-> None, by |-> "USER", place |-> None,
         base |-> None, id |-> None, address |-> None, old |-> None, new |-> None, withFile |-> FALSE,
         withPii |-> FALSE, todo |-> {}, read |-> 0, seen |-> 0, before |-> 0]

Continue(w, r) == req' = [req EXCEPT ![w] = r]
Start(w, r) == /\ req[w] = Idle
               /\ started < MaxRequest
               /\ started' = started + 1
               /\ Continue(w, r)
Finish(w) == Continue(w, Idle)

Exists(k) == k \in DOMAIN kyc
Filed(kind, u) == \E k \in DOMAIN kyc : kyc[k].kind = kind /\ kyc[k].user = u
\* AddressService looks for another row with this place
\* VARIANT
NeverTaken(p, self) == FALSE
Taken(p, self) == \E a \in DOMAIN address : a # self /\ address[a] = p
\* the role of an EMPLOYEE is a department, which validateRole never finds
HasRole(by) == by # "EMPLOYEE"

Init ==
  /\ address = Earlier /\ kyc = << >> /\ filed = 0
  /\ pii = {} /\ bucket = {} /\ uploads = 0 /\ started = 0
  /\ req = [w \in Worker |-> Idle]
  /\ moves = 0 /\ hurt = {}
  /\ stamp = [a \in DOMAIN Earlier |-> [read |-> 0, seen |-> 0, before |-> 0, written |-> 0]]

\* S3Service.upload: an object under a fresh key, or null when the call fails
Upload(w, next) ==
  \/ /\ uploads' = uploads + 1
     /\ bucket' = bucket \cup {uploads + 1}
     /\ Continue(w, [req[w] EXCEPT !.at = next, !.new = uploads + 1])
  \/ /\ Failures
     /\ Continue(w, [req[w] EXCEPT !.at = next])
     /\ UNCHANGED <<uploads, bucket>>

NoUpload(w, next) == /\ Continue(w, [req[w] EXCEPT !.at = next])
                     /\ UNCHANGED <<uploads, bucket>>

-----------------------------------------------------------------------------
(* create: the address, the documents, the KYC row, the consents. *)

\* VARIANT
NobodyAsks(kind, u) == TRUE
MayFile(kind, u) == ~Filed(kind, u)

CreateRead(w, kind, u, p, types, withFile) ==
  /\ MayFile(kind, u)
  /\ Start(w, [Idle EXCEPT !.at = "create", !.kind = kind, !.user = u, !.place = p,
                           !.withFile = withFile, !.todo = types,
                           !.before = filed])
  /\ UNCHANGED <<address, kyc, filed, pii, bucket, uploads, history>>

FindAddress(w) ==
  /\ req[w].at = "create"
  /\ ~Taken(req[w].place, 0)
  /\ Continue(w, [req[w] EXCEPT !.at = "address", !.seen = moves])
  /\ UNCHANGED <<address, kyc, filed, pii, bucket, uploads, started, history>>

CreateAddress(w) ==
  /\ req[w].at = "address"
  /\ address' = Append(address, req[w].place)
  /\ Continue(w, [req[w] EXCEPT !.at = "documents", !.address = Len(address) + 1])
  /\ moves' = moves + 1
  /\ stamp' = Append(stamp, [read |-> req[w].seen, seen |-> req[w].seen,
                             before |-> 0, written |-> moves + 1])
  /\ UNCHANGED <<kyc, filed, pii, bucket, uploads, started, hurt>>

SafeUpload(w) ==
  /\ req[w].at = "documents"
  /\ IF req[w].withFile THEN Upload(w, "row") ELSE NoUpload(w, "row")
  /\ UNCHANGED <<address, kyc, filed, pii, history, started>>

\* user_id is unique in each table: of two filings, one is refused here
InsertKyc(w) ==
  LET r == req[w]
      k == filed + 1
  IN /\ r.at = "row"
     /\ ~Filed(r.kind, r.user)
     /\ filed' = k
     /\ kyc' = [j \in DOMAIN kyc \cup {k} |->
                  IF j # k THEN kyc[j]
                  ELSE [kind |-> r.kind, user |-> r.user, address |-> r.address, file |-> r.new,
                        status |-> "PENDING", verifiedAt |-> FALSE]]
     /\ Continue(w, [r EXCEPT !.at = "consents", !.id = k])
     /\ UNCHANGED <<address, pii, bucket, uploads, started, history>>

\* the foreign key of a consent, checked when it is inserted
\* VARIANT
AnyParent(k) == TRUE
Parent(k) == Exists(k)

Consented(r, t) ==
  \E c \in pii : c.user = r.user /\ c.scope = r.kind /\ c.type = t
MayConsent(r, t) == ~Consented(r, t) /\ Storable(t) /\ Parent(r.id)
\* the payloads are stored in the order of the array
NextConsent(r) == IF "PAN" \in r.todo THEN "PAN"
                  ELSE IF "GST" \in r.todo THEN "GST" ELSE CHOOSE t \in r.todo : TRUE

CreateConsent(w) ==
  LET r == req[w]
      t == NextConsent(r)
  IN /\ r.at = "consents"
     /\ MayConsent(r, t)
     /\ pii' = pii \cup {[user |-> r.user, scope |-> r.kind, type |-> t,
                          kyc |-> r.id, length |-> Stored(t)]}
     /\ Continue(w, [r EXCEPT !.todo = @ \ {t},
                              !.at = IF r.todo = {t}
                                     THEN "created" ELSE "consents"])
     /\ UNCHANGED <<address, kyc, filed, bucket, uploads, started, history>>

CreateAnswer(w) ==
  /\ req[w].at = "created"
  /\ Finish(w)
  /\ UNCHANGED <<address, kyc, filed, pii, bucket, uploads, history, started>>

-----------------------------------------------------------------------------
(* update: the old document is deleted, the new one uploaded, the row       *)
(* written, then the address.  The personal data come last and are looked  *)
(* for under the id of the KYC, where no consent is: an update that has    *)
(* any is refused there.                                                   *)

UpdateRead(w, k, p, withFile, withPii) ==
  /\ Exists(k)
  /\ Start(w, [Idle EXCEPT !.at = IF withFile THEN "update" ELSE "rowUpdate",
                           !.kind = kyc[k].kind, !.id = k, !.place = p,
                           !.old = kyc[k].file,
                           !.address = kyc[k].address,
                           !.withFile = withFile, !.withPii = withPii])
  /\ UNCHANGED <<address, kyc, filed, pii, bucket, uploads, history>>

\* S3Service.delete answers false when it fails, which nobody looks at
DeleteOld(w) ==
  /\ req[w].at = "update"
  /\ \/ bucket' = bucket \ {req[w].old}
     \/ Failures /\ UNCHANGED bucket
  /\ Continue(w, [req[w] EXCEPT !.at = "upload"])
  /\ UNCHANGED <<address, kyc, filed, pii, uploads, started, history>>

UploadNew(w) ==
  /\ req[w].at = "upload"
  /\ Upload(w, "rowUpdate")
  /\ UNCHANGED <<address, kyc, filed, pii, started, history>>

\* the file column after an update whose upload returned url
\* VARIANT
NeverSet(file, url) == file
UserFile(file, url) == IF url = None THEN file ELSE url
BusinessFile(file, url) == url
NewFile(kind, file, url) == IF kind = "user" THEN UserFile(file, url)
                                             ELSE BusinessFile(file, url)

UpdateRow(w) ==
  LET r == req[w]
  IN /\ r.at = "rowUpdate"
     /\ Exists(r.id)
     /\ kyc' = IF r.withFile THEN [kyc EXCEPT ![r.id].file = NewFile(r.kind, @, r.new)]
                             ELSE kyc
     /\ hurt' = IF r.withFile /\ r.new = None THEN hurt \cup {r.id} ELSE hurt
     /\ Continue(w, [r EXCEPT !.at = IF r.place = None THEN "consent" ELSE "move"])
     /\ UNCHANGED <<address, filed, pii, bucket, uploads, started, moves, stamp>>

\* the columns given over those of a row
Merge(given, row) == [c \in Column |-> IF c \in DOMAIN given THEN given[c] ELSE row[c]]

\* AddressService.update reads the row, looks for another one with the place this
\* row is to have, and then writes the columns given into the row as it is by now
ReadAddress(w) ==
  /\ req[w].at = "move"
  /\ Continue(w, [req[w] EXCEPT !.at = "look", !.base = address[req[w].address],
                                !.read = moves])
  /\ UNCHANGED <<address, kyc, filed, pii, bucket, uploads, started, history>>

FindOtherAddress(w) ==
  /\ req[w].at = "look"
  /\ ~Taken(Merge(req[w].place, req[w].base), req[w].address)
  /\ Continue(w, [req[w] EXCEPT !.at = "place", !.seen = moves])
  /\ UNCHANGED <<address, kyc, filed, pii, bucket, uploads, started, history>>

UpdateAddress(w) ==
  LET r == req[w]
      a == r.address
  IN /\ r.at = "place"
     /\ address' = [address EXCEPT ![a] = Merge(r.place, @)]
     /\ Continue(w, [r EXCEPT !.at = "consent"])
     /\ moves' = moves + 1
     /\ stamp' = [stamp EXCEPT ![a] = [read |-> r.read, seen |-> r.seen,
                                       before |-> @.written, written |-> moves + 1]]
     /\ UNCHANGED <<kyc, filed, pii, bucket, uploads, started, hurt>>

UpdateAnswer(w) ==
  /\ req[w].at = "consent"
  /\ ~req[w].withPii
  /\ Finish(w)
  /\ UNCHANGED <<address, kyc, filed, pii, bucket, uploads, history, started>>

-----------------------------------------------------------------------------
(* verify and delete *)

VerifyRead(w, k, by) ==
  /\ Exists(k) /\ HasRole(by)
  /\ Start(w, [Idle EXCEPT !.at = "verify", !.kind = kyc[k].kind, !.id = k, !.by = by])
  /\ UNCHANGED <<address, kyc, filed, pii, bucket, uploads, history>>

\* verifiedByUserId references a user, verifiedByEmployeeId an employee
\* VARIANT
AnyUser(kind) == "USER"
Verifier(kind) == IF kind = "user" THEN "USER" ELSE "EMPLOYEE"

\* a user KYC loses verifiedAt with the status, a business KYC keeps it
Stamp(row, status) ==
  [row EXCEPT !.status = status,
              !.verifiedAt = status = "VERIFIED" \/ (row.kind = "business" /\ @)]

VerifyWrite(w, status) ==
  /\ req[w].at = "verify"
  /\ Exists(req[w].id) /\ req[w].by = Verifier(req[w].kind)
  /\ kyc' = [kyc EXCEPT ![req[w].id] = Stamp(@, status)]
  /\ Continue(w, [req[w] EXCEPT !.at = "verified"])
  /\ UNCHANGED <<address, filed, pii, bucket, uploads, started, history>>

VerifyAnswer(w) ==
  /\ req[w].at = "verified"
  /\ Finish(w)
  /\ UNCHANGED <<address, kyc, filed, pii, bucket, uploads, history, started>>

DeleteRead(w, k) ==
  /\ Exists(k)
  /\ Start(w, [Idle EXCEPT !.at = "delete", !.kind = kyc[k].kind, !.id = k])
  /\ UNCHANGED <<address, kyc, filed, pii, bucket, uploads, history>>

\* The consents of the KYC lose their reference (ON DELETE SET NULL).  They are
\* then to be deleted under the id of the KYC, which is the id of none of them.
\* VARIANT
Untouched(consents, k) == consents
Detach(consents, k) ==
  {IF c.kyc = k THEN [c EXCEPT !.kyc = None] ELSE c : c \in consents}

DeleteRow(w) ==
  /\ req[w].at = "delete"
  /\ Exists(req[w].id)
  /\ kyc' = [k \in DOMAIN kyc \ {req[w].id} |-> kyc[k]]
  /\ pii' = Detach(pii, req[w].id)
  /\ Continue(w, [req[w] EXCEPT !.at = "deleted"])
  /\ UNCHANGED <<address, filed, bucket, uploads, started, history>>

-----------------------------------------------------------------------------
(* The ends of a request other than success. *)

\* a request for a KYC that does not exist
NotFound(w, k) == req[w] = Idle /\ ~Exists(k) /\ UNCHANGED vars

\* the exceptions the code throws, or the database on its constraints
Refused(r) ==
  \/ r.at = "create" /\ Taken(r.place, 0)
  \/ r.at = "row" /\ Filed(r.kind, r.user)
  \/ r.at = "consents" /\ ~MayConsent(r, NextConsent(r))
  \/ r.at \in {"rowUpdate", "verify", "delete"} /\ ~Exists(r.id)
  \/ r.at = "look" /\ Taken(Merge(r.place, r.base), r.address)
  \/ r.at = "consent" /\ r.withPii
  \/ r.at = "verify" /\ r.by # Verifier(r.kind)
  \/ r.at = "deleted"

Refuse(w) ==
  /\ Refused(req[w])
  /\ Finish(w)
  /\ UNCHANGED <<address, kyc, filed, pii, bucket, uploads, started, history>>

\* A query fails, an audit entry cannot be written, or the process ends.
Fail(w) ==
  /\ Failures
  /\ req[w].at # "idle"
  /\ hurt' = IF req[w].at \in {"upload", "rowUpdate"} /\ req[w].withFile
             THEN hurt \cup {req[w].id} ELSE hurt
  /\ Finish(w)
  /\ UNCHANGED <<address, kyc, filed, pii, bucket, uploads, started, moves, stamp>>

Next ==
  \E w \in Worker :
    \/ \E kind \in Kind, u \in User, p \in Filing, f \in BOOLEAN :
         \E types \in Payloads(kind) : CreateRead(w, kind, u, p, types, f)
    \/ FindAddress(w)
    \/ CreateAddress(w)
    \/ SafeUpload(w)
    \/ InsertKyc(w)
    \/ CreateConsent(w)
    \/ CreateAnswer(w)
    \/ \E k \in KycId, p \in Edit \cup {None}, f, i \in BOOLEAN :
         UpdateRead(w, k, p, f, i)
    \/ DeleteOld(w)
    \/ UploadNew(w)
    \/ UpdateRow(w)
    \/ ReadAddress(w)
    \/ FindOtherAddress(w)
    \/ UpdateAddress(w)
    \/ UpdateAnswer(w)
    \/ \E k \in KycId, by \in {"ROOT", "USER", "EMPLOYEE"} : VerifyRead(w, k, by)
    \/ \E status \in {"PENDING", "VERIFIED", "REJECTED"} : VerifyWrite(w, status)
    \/ VerifyAnswer(w)
    \/ \E k \in KycId : DeleteRead(w, k)
    \/ DeleteRow(w)
    \/ \E k \in KycId : NotFound(w, k)
    \/ Refuse(w)
    \/ Fail(w)

Spec == Init /\ [][Next]_vars

-----------------------------------------------------------------------------
(* Every variable keeps its type. *)
TypeOK ==
  /\ address \in Seq(Place) /\ Len(address) <= Len(Earlier) + MaxRequest
  /\ DOMAIN kyc \subseteq 1 .. filed /\ \A k \in DOMAIN kyc : kyc[k] \in Row
  /\ {filed, uploads, started} \subseteq 0 .. MaxRequest
  /\ pii \subseteq Consent
  /\ bucket \subseteq File
  /\ req \in [Worker -> Request]
  /\ moves \in 0 .. MaxRequest
  /\ DOMAIN stamp = DOMAIN address
  /\ \A a \in DOMAIN stamp : stamp[a] \in AddressStamp
  /\ hurt \subseteq KycId

(* A KYC names a document that is no longer in S3 only while an update is  *)
(* replacing it, or after an update failed between deleting it and storing *)
(* its successor.  Updates that succeed never lose one, overlapping or not.*)
DocumentLostOnlyByFailure ==
  \A k \in DOMAIN kyc :
    \/ kyc[k].file \in bucket \cup {None}
    \/ k \in hurt
    \/ \E w \in Worker : req[w].id = k /\ req[w].old = kyc[k].file

(* Two address rows have one place only by a race for it or by a race      *)
(* inside one of them: the request that wrote the later row had looked for *)
(* the place before the other row was written, or another request had      *)
(* written the later row after this one had read it, so that the columns   *)
(* of both came together without anybody having looked for the place they  *)
(* make.  AddressService refuses every other second row, in both services. *)
AddressTwiceOnlyByRace ==
  \A a, b \in DOMAIN address :
    address[a] = address[b] /\ stamp[a].written < stamp[b].written
      => \/ stamp[b].seen < stamp[a].written
         \/ stamp[b].read < stamp[b].before

(* A filing is refused for the KYC its user already has after it stored an *)
(* address and its documents, which stay, only when that KYC was filed     *)
(* after the filing had looked for one.                                    *)
WastedOnlyByOverlap ==
  \A w \in Worker :
    LET r == req[w]
    IN r.at = "row" =>
         \A k \in DOMAIN kyc : kyc[k].kind = r.kind /\ kyc[k].user = r.user => k > r.before

(* A consent belongs to an existing KYC of its user and scope, or to none, *)
(* also when a KYC is deleted while its consents are being stored.         *)
ConsentOfItsKyc ==
  \A c \in pii : c.kyc # None =>
    Exists(c.kyc) /\ kyc[c.kyc].user = c.user /\ kyc[c.kyc].kind = c.scope

(* user-kyc.service.ts stores the consents of a filing ("Store PII         *)
(* Consents"): without failures, a KYC whose filing has ended has them.    *)
FiledWithConsents ==
  \A k \in DOMAIN kyc :
    \/ \E types \in Payloads(kyc[k].kind) :
         \A t \in types : \E c \in pii : c.kyc = k /\ c.type = t
    \/ \E w \in Worker : req[w].id = k

(* user-kyc.service.ts deletes the personal data with the KYC ("Delete     *)
(* PII"): without failures, no consent is left without a KYC once the      *)
(* request that deleted its KYC has ended.                                 *)
NoConsentLeft ==
  \A c \in pii : c.kyc = None => \E w \in Worker : req[w].at = "deleted"
=============================================================================
