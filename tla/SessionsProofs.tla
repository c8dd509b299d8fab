--------------------------- MODULE SessionsProofs ---------------------------
(***************************************************************************)
(* What Sessions guarantees for every number of accounts and requests,     *)
(* every clock and every set of secrets.                                   *)
(***************************************************************************)
EXTENDS Sessions, TLAPS

(* What a request in flight carries at each of its stages. *)
RequestOK ==
  \A w \in Worker :
    /\ req[w].at # "idle" => req[w].sub \in Account
    /\ req[w].at \in {"issued", "stored"} => req[w].iat \in Time
    /\ req[w].at = "linkStored" => req[w].secret \in ResetLink
    /\ req[w].at \in {"matched", "confirmed"} => req[w].secret \in Generated
    /\ req[w].at = "verified" => /\ req[w].secret \in Password
                                 /\ req[w].secret \in known[req[w].sub]

TypeInv == TypeOK /\ RequestOK

-----------------------------------------------------------------------------
(* The records a handler builds are requests again. *)

LEMMA IdleRequest == Idle \in Request
  BY DEF Idle, Request, Stage

LEMMA StageEdit ==
  ASSUME NEW r \in Request, NEW s \in Stage
  PROVE [r EXCEPT !.at = s] \in Request
  BY DEF Request

LEMMA IssueEdit ==
  ASSUME NEW r \in Request, NEW s \in Stage, NEW t \in Time
  PROVE [r EXCEPT !.at = s, !.iat = t] \in Request
  BY DEF Request

LEMMA SecretEdit ==
  ASSUME NEW r \in Request, NEW s \in Stage, NEW x \in Password \cup ResetLink
  PROVE [r EXCEPT !.at = s, !.secret = x] \in Request
  BY DEF Request

LEMMA StartEdit ==
  ASSUME NEW s \in Stage, NEW c \in Client \cup {None}, NEW a \in Account,
         NEW i \in Time \cup {None}, NEW m \in Nat, NEW n \in Nat
  PROVE /\ [Idle EXCEPT !.at = s, !.client = c, !.sub = a, !.root = m, !.seen = n] \in Request
        /\ [Idle EXCEPT !.at = s, !.client = c, !.sub = a, !.old = i,
                        !.root = m, !.seen = n] \in Request
        /\ [Idle EXCEPT !.at = s, !.sub = a, !.client = c] \in Request
  BY IdleRequest DEF Idle, Request

LEMMA ContinueType ==
  ASSUME TypeOK, NEW w \in Worker, NEW r \in Request, Continue(w, r)
  PROVE req' \in [Worker -> Request]
  BY DEF TypeOK, Continue

LEMMA SwitchedAccounts == Switched \subseteq Account
  BY BoundsAssumption

LEMMA RowEdits ==
  ASSUME NEW r \in Row
  PROVE /\ \A t \in Time : StoreSession(r, t) \in Row
        /\ ClearSession(r) \in Row
        /\ \A p \in Password : SetPassword(r, p) \in Row
        /\ \A link \in ResetLink, t \in Time : StoreLink(r, link, t) \in Row
        /\ \A p \in Password : Reset(r, p) \in Row
<1>1. \A t \in Time : StoreSession(r, t) \in Row
  BY DEF Row, StoreSession
<1>2. ClearSession(r) \in Row
  BY DEF Row, ClearSession
<1>3. \A p \in Password : SetPassword(r, p) \in Row
  BY DEF Row, SetPassword
<1>4. ASSUME NEW link \in ResetLink, NEW t \in Time PROVE StoreLink(r, link, t) \in Row
  <2>1. t + ResetLife \in 0 .. MaxTime + ResetLife
    BY BoundsAssumption DEF Time
  <2> QED
    BY <2>1 DEF Row, StoreLink
<1>5. ASSUME NEW p \in Password PROVE Reset(r, p) \in Row
  <2>1. 0 \in 0 .. MaxTime + ResetLife
    BY BoundsAssumption
  <2> QED
    BY <2>1 DEF Row, Reset
<1> QED
  BY <1>1, <1>2, <1>3, <1>4, <1>5

LEMMA RowType ==
  ASSUME TypeOK, NEW a \in Account, NEW r \in Row, row' = [row EXCEPT ![a] = r]
  PROVE row' \in [Account -> Row]
  BY DEF TypeOK

LEMMA RevokeType ==
  ASSUME TypeOK, NEW a \in Account, Revoke(a)
  PROVE era' \in [Account -> 0 .. MaxEra]
  BY BoundsAssumption DEF TypeOK, Revoke

LEMMA SubjectType ==
  ASSUME TypeInv, NEW w \in Worker, req[w].at # "idle"
  PROVE req[w].sub \in Account /\ row[req[w].sub] \in Row /\ req[w] \in Request
  BY DEF TypeInv, TypeOK, RequestOK

-----------------------------------------------------------------------------
(* Types and the contents of requests are inductive. *)

LEMMA TypeInvInit == Init => TypeInv
<1> SUFFICES ASSUME Init PROVE TypeInv
  OBVIOUS
<1>1. 0 \in Time /\ 0 \in 0 .. MaxTime + ResetLife /\ 0 \in 0 .. MaxEra
  BY BoundsAssumption DEF Time
<1>2. row \in [Account -> Row]
  BY <1>1, SecretsAssumption DEF Init, Row, Password
<1>3. req \in [Worker -> Request]
  BY IdleRequest DEF Init
<1>4. known \in [Account -> SUBSET Password]
  BY SecretsAssumption DEF Init, Password
<1>5. TypeOK
  BY <1>1, <1>2, <1>3, <1>4 DEF Init, TypeOK
<1>6. RequestOK
  BY DEF Init, RequestOK, Idle
<1> QED
  BY <1>5, <1>6 DEF TypeInv

LEMMA TickType ==
  ASSUME TypeInv, Tick
  PROVE TypeInv'
<1>1. now' \in Time
  BY BoundsAssumption DEF TypeInv, TypeOK, Tick, Time
<1>2. TypeOK'
  BY <1>1 DEF TypeInv, TypeOK, Tick, history
<1>3. RequestOK'
  BY DEF TypeInv, RequestOK, Tick
<1> QED
  BY <1>2, <1>3 DEF TypeInv

LEMMA SetStatusType ==
  ASSUME TypeInv, NEW a \in Account, SetStatus(a)
  PROVE TypeInv'
<1>1. row' \in [Account -> Row]
  <2>1. row \in [Account -> Row] /\ row[a] \in Row
    BY DEF TypeInv, TypeOK
  <2>2. [row[a] EXCEPT !.active = ~@] \in Row
    BY <2>1 DEF Row
  <2> QED BY <2>1, <2>2 DEF SetStatus
<1>2. TypeOK'
  BY <1>1 DEF TypeInv, TypeOK, SetStatus, history
<1>3. RequestOK'
  BY DEF TypeInv, RequestOK, SetStatus
<1> QED
  BY <1>2, <1>3 DEF TypeInv

LEMMA LoginReadType ==
  ASSUME TypeInv, NEW w \in Worker, NEW c \in Client, NEW a \in Account, NEW p \in Password,
         LoginRead(w, c, a, p)
  PROVE TypeInv'
<1>1. [Idle EXCEPT !.at = "checked", !.client = c, !.sub = a,
                            !.root = era[a], !.seen = era[a]] \in Request
  <2>1. "checked" \in Stage
    BY DEF Stage
  <2>2. era[a] \in Nat /\ lineage[a] \in Nat
    BY BoundsAssumption DEF TypeInv, TypeOK
  <2> QED
    BY <2>1, <2>2, StartEdit
<1>2. req' \in [Worker -> Request]
  BY <1>1, ContinueType DEF TypeInv, LoginRead, Start
<1>3. TypeOK'
  BY <1>2 DEF TypeInv, TypeOK, LoginRead, history
<1>4. RequestOK'
  BY DEF TypeInv, TypeOK, RequestOK, LoginRead, Start, Continue, Idle, history
<1> QED
  BY <1>3, <1>4 DEF TypeInv

LEMMA RefreshReadType ==
  ASSUME TypeInv, NEW w \in Worker, NEW c \in Client, NEW a \in Account, NEW iat \in Time,
         RefreshRead(w, c, a, iat)
  PROVE TypeInv'
<1>1. [Idle EXCEPT !.at = "checked", !.client = c, !.sub = a, !.old = iat,
                            !.root = lineage[a], !.seen = era[a]] \in Request
  <2>1. "checked" \in Stage
    BY DEF Stage
  <2>2. era[a] \in Nat /\ lineage[a] \in Nat
    BY BoundsAssumption DEF TypeInv, TypeOK
  <2> QED
    BY <2>1, <2>2, StartEdit
<1>2. req' \in [Worker -> Request]
  BY <1>1, ContinueType DEF TypeInv, RefreshRead, Start
<1>3. TypeOK'
  BY <1>2 DEF TypeInv, TypeOK, RefreshRead, history
<1>4. RequestOK'
  BY DEF TypeInv, TypeOK, RequestOK, RefreshRead, Start, Continue, Idle, history
<1> QED
  BY <1>3, <1>4 DEF TypeInv

LEMMA AuthorizeType ==
  ASSUME TypeInv, NEW w \in Worker, NEW c \in Client, NEW a \in Account, NEW iat \in Time,
         NEW op \in Operation, Authorize(w, c, a, iat, op)
  PROVE TypeInv'
<1> DEFINE d == IF op = "logout" THEN c ELSE None
<1>1. [Idle EXCEPT !.at = op, !.sub = a, !.client = d] \in Request
  <2>0. d \in Client \cup {None} /\ 0 \in Nat /\ None \in Time \cup {None}
    OBVIOUS
  <2>1. op \in Stage
    BY DEF Stage
  <2>2. era[a] \in Nat /\ lineage[a] \in Nat
    BY BoundsAssumption DEF TypeInv, TypeOK
  <2> QED
    BY <2>0, <2>1, <2>2, StartEdit
<1>2. req' \in [Worker -> Request]
  BY <1>1, ContinueType DEF TypeInv, Authorize, Start
<1>3. TypeOK'
  BY <1>2 DEF TypeInv, TypeOK, Authorize, history
<1>4. RequestOK'
  BY DEF Operation, TypeInv, TypeOK, RequestOK, Authorize, Start, Continue, Idle, history
<1> QED
  BY <1>3, <1>4 DEF TypeInv

LEMMA IssueType ==
  ASSUME TypeInv, NEW w \in Worker, Issue(w)
  PROVE TypeInv'
<1>1. req[w].at # "idle"
  BY DEF Issue, Idle
<1>2. [req[w] EXCEPT !.at = "issued", !.iat = now] \in Request
  BY <1>1, SubjectType, IdleRequest, StageEdit, IssueEdit, SecretEdit
  DEF TypeInv, TypeOK, RequestOK, Stage, Password
<1>3. req' \in [Worker -> Request]
  BY <1>2, ContinueType DEF TypeInv, Issue, Finish
<1>4. TypeOK'
  BY <1>3 DEF TypeInv, TypeOK, Issue, history
<1>5. RequestOK'
  BY <1>1, SubjectType DEF TypeInv, TypeOK, RequestOK, Issue, Continue, Finish, Idle, Request, history
<1> QED
  BY <1>4, <1>5 DEF TypeInv

LEMMA WriteSessionType ==
  ASSUME TypeInv, NEW w \in Worker, WriteSession(w)
  PROVE TypeInv'
<1>1. req[w].at # "idle"
  BY DEF WriteSession, Idle
<1>2. [req[w] EXCEPT !.at = "stored"] \in Request
  BY <1>1, SubjectType, IdleRequest, StageEdit, IssueEdit, SecretEdit
  DEF TypeInv, TypeOK, RequestOK, Stage, Password
<1>3. req' \in [Worker -> Request]
  BY <1>2, ContinueType DEF TypeInv, WriteSession, Finish
<1>4. row' \in [Account -> Row]
  <2>1. StoreSession(row[req[w].sub], req[w].iat) \in Row
    BY <1>1, SubjectType, RowEdits DEF TypeInv, TypeOK, RequestOK, WriteSession, Password
  <2>2. row' = [row EXCEPT ![req[w].sub] = StoreSession(row[req[w].sub], req[w].iat)]
    BY DEF WriteSession
  <2> QED
    BY <1>1, <2>1, <2>2, SubjectType, RowType DEF TypeInv
<1>5. lineage' \in [Account -> Nat]
  BY <1>1, SubjectType DEF TypeInv, TypeOK, WriteSession, Request
<1>6. crossed' \in [Account -> SUBSET (1 .. MaxEra)]
  BY <1>1, SubjectType, BoundsAssumption DEF TypeInv, TypeOK, WriteSession, Request
<1>7. retired' \subseteq Token
  BY <1>1, SubjectType DEF TypeInv, TypeOK, WriteSession, Request, Token
<1>8. TypeOK'
  BY <1>3, <1>4, <1>5, <1>6, <1>7 DEF TypeInv, TypeOK, WriteSession, history
<1>9. RequestOK'
  BY <1>1, SubjectType DEF TypeInv, TypeOK, RequestOK, WriteSession, Continue, Finish, Idle, Request, history
<1> QED
  BY <1>8, <1>9 DEF TypeInv

LEMMA RespondType ==
  ASSUME TypeInv, NEW w \in Worker, Respond(w)
  PROVE TypeInv'
<1>1. req[w].at # "idle"
  BY DEF Respond, Idle
<1>2. req' \in [Worker -> Request]
  BY IdleRequest, ContinueType DEF TypeInv, Respond, Finish
<1> DEFINE token == [sub |-> req[w].sub, iat |-> req[w].iat]
<1>3. token \in Token
  BY <1>1, SubjectType DEF TypeInv, RequestOK, Respond, Token
<1>4. held' \subseteq Token /\ cookie' \in [Client -> Token \cup {None}]
  BY <1>3 DEF TypeInv, TypeOK, Respond
<1>5. TypeOK'
  BY <1>2, <1>4 DEF TypeInv, TypeOK, Respond, history
<1>6. RequestOK'
  BY <1>1, SubjectType DEF TypeInv, TypeOK, RequestOK, Respond, Continue, Finish, Idle, Request, history
<1> QED
  BY <1>5, <1>6 DEF TypeInv

LEMMA LogoutType ==
  ASSUME TypeInv, NEW w \in Worker, Logout(w)
  PROVE TypeInv'
<1>1. req[w].at # "idle"
  BY DEF Logout, Idle
<1>2. [req[w] EXCEPT !.at = "loggedOut"] \in Request
  BY <1>1, SubjectType, IdleRequest, StageEdit, IssueEdit, SecretEdit
  DEF TypeInv, TypeOK, RequestOK, Stage, Password
<1>3. req' \in [Worker -> Request]
  BY <1>2, ContinueType DEF TypeInv, Logout, Finish
<1>4. row' \in [Account -> Row]
  <2>1. ClearSession(row[req[w].sub]) \in Row
    BY <1>1, SubjectType, RowEdits DEF TypeInv, TypeOK, RequestOK, Logout, Password
  <2>2. row' = [row EXCEPT ![req[w].sub] = ClearSession(row[req[w].sub])]
    BY DEF Logout
  <2> QED
    BY <1>1, <2>1, <2>2, SubjectType, RowType DEF TypeInv
<1>5. era' \in [Account -> 0 .. MaxEra]
  BY <1>1, SubjectType, RevokeType DEF TypeInv, Logout
<1>6. TypeOK'
  BY <1>3, <1>4, <1>5 DEF TypeInv, TypeOK, Logout, history
<1>7. RequestOK'
  BY <1>1, SubjectType DEF TypeInv, TypeOK, RequestOK, Logout, Continue, Finish, Idle, Request, history
<1> QED
  BY <1>6, <1>7 DEF TypeInv

LEMMA ClearCookiesType ==
  ASSUME TypeInv, NEW w \in Worker, ClearCookies(w)
  PROVE TypeInv'
<1>1. req[w].at # "idle"
  BY DEF ClearCookies, Idle
<1>2. req' \in [Worker -> Request]
  BY IdleRequest, ContinueType DEF TypeInv, ClearCookies, Finish
<1>3. cookie' \in [Client -> Token \cup {None}]
  BY DEF TypeInv, TypeOK, ClearCookies
<1>4. TypeOK'
  BY <1>2, <1>3 DEF TypeInv, TypeOK, ClearCookies, history
<1>5. RequestOK'
  BY <1>1, SubjectType DEF TypeInv, TypeOK, RequestOK, ClearCookies, Continue, Finish, Idle, Request, history
<1> QED
  BY <1>4, <1>5 DEF TypeInv

LEMMA VerifyCurrentType ==
  ASSUME TypeInv, NEW w \in Worker, NEW cur \in Password, NEW new \in Chosen, VerifyCurrent(w, cur, new)
  PROVE TypeInv'
<1>1. req[w].at # "idle"
  BY DEF VerifyCurrent, Idle
<1>2. [req[w] EXCEPT !.at = "verified", !.secret = new] \in Request
  BY <1>1, SubjectType, IdleRequest, StageEdit, IssueEdit, SecretEdit
  DEF TypeInv, TypeOK, RequestOK, Stage, Password
<1>3. req' \in [Worker -> Request]
  BY <1>2, ContinueType DEF TypeInv, VerifyCurrent, Finish
<1>4. known' \in [Account -> SUBSET Password]
  BY <1>1, SubjectType DEF TypeInv, TypeOK, RequestOK, VerifyCurrent, Mailed, Password
<1>5. TypeOK'
  BY <1>3, <1>4 DEF TypeInv, TypeOK, VerifyCurrent, history
<1>6. RequestOK'
  BY <1>1, SubjectType DEF TypeInv, TypeOK, RequestOK, VerifyCurrent, Continue, Finish, Idle, Request, history, Password
<1> QED
  BY <1>5, <1>6 DEF TypeInv

LEMMA WriteCredentialsType ==
  ASSUME TypeInv, NEW w \in Worker, WriteCredentials(w)
  PROVE TypeInv'
<1>1. req[w].at # "idle"
  BY DEF WriteCredentials, Idle
<1>2. Idle \in Request
  BY <1>1, SubjectType, IdleRequest, StageEdit, IssueEdit, SecretEdit
  DEF TypeInv, TypeOK, RequestOK, Stage, Password
<1>3. req' \in [Worker -> Request]
  BY <1>2, ContinueType DEF TypeInv, WriteCredentials, Finish
<1>4. row' \in [Account -> Row]
  <2>1. SetPassword(row[req[w].sub], req[w].secret) \in Row
    BY <1>1, SubjectType, RowEdits DEF TypeInv, TypeOK, RequestOK, WriteCredentials, Password
  <2>2. row' = [row EXCEPT ![req[w].sub] = SetPassword(row[req[w].sub], req[w].secret)]
    BY DEF WriteCredentials
  <2> QED
    BY <1>1, <2>1, <2>2, SubjectType, RowType DEF TypeInv
<1>5. era' \in [Account -> 0 .. MaxEra]
  BY <1>1, SubjectType, RevokeType DEF TypeInv, WriteCredentials
<1>6. credEra' \in [Account -> Nat]
  BY <1>1, SubjectType, BoundsAssumption DEF TypeInv, TypeOK, WriteCredentials
<1>7. TypeOK'
  BY <1>3, <1>4, <1>5, <1>6 DEF TypeInv, TypeOK, WriteCredentials, history
<1>8. RequestOK'
  BY <1>1, SubjectType DEF TypeInv, TypeOK, RequestOK, WriteCredentials, Continue, Finish, Idle, Request, history
<1> QED
  BY <1>7, <1>8 DEF TypeInv

LEMMA WriteLinkType ==
  ASSUME TypeInv, NEW w \in Worker, NEW link \in ResetLink, WriteLink(w, link)
  PROVE TypeInv'
<1>1. req[w].at # "idle"
  BY DEF WriteLink, Idle
<1>2. [req[w] EXCEPT !.at = "linkStored", !.secret = link] \in Request
  BY <1>1, SubjectType, IdleRequest, StageEdit, IssueEdit, SecretEdit
  DEF TypeInv, TypeOK, RequestOK, Stage, Password
<1>3. req' \in [Worker -> Request]
  BY <1>2, ContinueType DEF TypeInv, WriteLink, Finish
<1>4. row' \in [Account -> Row]
  <2>1. StoreLink(row[req[w].sub], link, now) \in Row
    BY <1>1, SubjectType, RowEdits DEF TypeInv, TypeOK, RequestOK, WriteLink, Password
  <2>2. row' = [row EXCEPT ![req[w].sub] = StoreLink(row[req[w].sub], link, now)]
    BY DEF WriteLink
  <2> QED
    BY <1>1, <2>1, <2>2, SubjectType, RowType DEF TypeInv
<1>5. TypeOK'
  BY <1>3, <1>4 DEF TypeInv, TypeOK, WriteLink, history
<1>6. RequestOK'
  BY <1>1, SubjectType DEF TypeInv, TypeOK, RequestOK, WriteLink, Continue, Finish, Idle, Request, history
<1> QED
  BY <1>5, <1>6 DEF TypeInv

LEMMA MailLinkType ==
  ASSUME TypeInv, NEW w \in Worker, MailLink(w)
  PROVE TypeInv'
<1>1. req[w].at # "idle"
  BY DEF MailLink, Idle
<1>2. Idle \in Request
  BY <1>1, SubjectType, IdleRequest, StageEdit, IssueEdit, SecretEdit
  DEF TypeInv, TypeOK, RequestOK, Stage, Password
<1>3. req' \in [Worker -> Request]
  BY <1>2, ContinueType DEF TypeInv, MailLink, Finish
<1>4. mailed' \subseteq ResetLink
  BY DEF TypeInv, TypeOK, RequestOK, MailLink
<1>5. TypeOK'
  BY <1>3, <1>4 DEF TypeInv, TypeOK, MailLink, history
<1>6. RequestOK'
  BY <1>1, SubjectType DEF TypeInv, TypeOK, RequestOK, MailLink, Continue, Finish, Idle, Request, history
<1> QED
  BY <1>5, <1>6 DEF TypeInv

LEMMA ConfirmReadType ==
  ASSUME TypeInv, NEW w \in Worker, NEW link \in ResetLink, NEW p \in Generated, ConfirmRead(w, link, p)
  PROVE TypeInv'
<1>1. req[w].at # "idle"
  BY DEF ConfirmRead, Idle
<1>2. [req[w] EXCEPT !.at = "matched", !.secret = p] \in Request
  BY <1>1, SubjectType, IdleRequest, StageEdit, IssueEdit, SecretEdit
  DEF TypeInv, TypeOK, RequestOK, Stage, Password
<1>3. req' \in [Worker -> Request]
  BY <1>2, ContinueType DEF TypeInv, ConfirmRead, Finish
<1>4. TypeOK'
  BY <1>3 DEF TypeInv, TypeOK, ConfirmRead, history
<1>5. RequestOK'
  BY <1>1, SubjectType DEF TypeInv, TypeOK, RequestOK, ConfirmRead, Continue, Finish, Idle, Request, history
<1> QED
  BY <1>4, <1>5 DEF TypeInv

LEMMA WriteResetType ==
  ASSUME TypeInv, NEW w \in Worker, WriteReset(w)
  PROVE TypeInv'
<1>1. req[w].at # "idle"
  BY DEF WriteReset, Idle
<1>2. [req[w] EXCEPT !.at = "confirmed"] \in Request
  BY <1>1, SubjectType, IdleRequest, StageEdit, IssueEdit, SecretEdit
  DEF TypeInv, TypeOK, RequestOK, Stage, Password
<1>3. req' \in [Worker -> Request]
  BY <1>2, ContinueType DEF TypeInv, WriteReset, Finish
<1>4. row' \in [Account -> Row]
  <2>1. Reset(row[req[w].sub], req[w].secret) \in Row
    BY <1>1, SubjectType, RowEdits DEF TypeInv, TypeOK, RequestOK, WriteReset, Password
  <2>2. row' = [row EXCEPT ![req[w].sub] = Reset(row[req[w].sub], req[w].secret)]
    BY DEF WriteReset
  <2> QED
    BY <1>1, <2>1, <2>2, SubjectType, RowType DEF TypeInv
<1>5. era' \in [Account -> 0 .. MaxEra]
  BY <1>1, SubjectType, RevokeType DEF TypeInv, WriteReset
<1>6. spent' \subseteq ResetLink
  BY <1>1, SubjectType DEF TypeInv, TypeOK, WriteReset, Row
<1>7. TypeOK'
  BY <1>3, <1>4, <1>5, <1>6 DEF TypeInv, TypeOK, WriteReset, history
<1>8. RequestOK'
  BY <1>1, SubjectType DEF TypeInv, TypeOK, RequestOK, WriteReset, Continue, Finish, Idle, Request, history
<1> QED
  BY <1>7, <1>8 DEF TypeInv

LEMMA MailCredentialsType ==
  ASSUME TypeInv, NEW w \in Worker, MailCredentials(w)
  PROVE TypeInv'
<1>1. req[w].at # "idle"
  BY DEF MailCredentials, Idle
<1>2. Idle \in Request
  BY <1>1, SubjectType, IdleRequest, StageEdit, IssueEdit, SecretEdit
  DEF TypeInv, TypeOK, RequestOK, Stage, Password
<1>3. req' \in [Worker -> Request]
  BY <1>2, ContinueType DEF TypeInv, MailCredentials, Finish
<1>4. known' \in [Account -> SUBSET Password]
  BY <1>1, SubjectType DEF TypeInv, TypeOK, RequestOK, MailCredentials, Mailed, Password
<1>5. TypeOK'
  BY <1>3, <1>4 DEF TypeInv, TypeOK, MailCredentials, history
<1>6. RequestOK'
  BY <1>1, SubjectType DEF TypeInv, TypeOK, RequestOK, MailCredentials, Continue, Finish, Idle, Request, history, Mailed
<1> QED
  BY <1>5, <1>6 DEF TypeInv

LEMMA EndRequestType ==
  ASSUME TypeInv, NEW w \in Worker, EndRequest(w)
  PROVE TypeInv'
<1>1. req[w].at # "idle"
  BY DEF EndRequest, Idle
<1>2. Idle \in Request
  BY <1>1, SubjectType, IdleRequest, StageEdit, IssueEdit, SecretEdit
  DEF TypeInv, TypeOK, RequestOK, Stage, Password
<1>3. req' \in [Worker -> Request]
  BY <1>2, ContinueType DEF TypeInv, EndRequest, Finish
<1>4. lost' \subseteq Generated
  BY DEF TypeInv, TypeOK, RequestOK, EndRequest
<1>5. TypeOK'
  BY <1>3, <1>4 DEF TypeInv, TypeOK, EndRequest, history
<1>6. RequestOK'
  BY <1>1, SubjectType DEF TypeInv, TypeOK, RequestOK, EndRequest, Continue, Finish, Idle, Request, history
<1> QED
  BY <1>5, <1>6 DEF TypeInv

LEMMA TypeInvNext == TypeInv /\ [Next]_vars => TypeInv'
<1>1. TypeInv /\ Next => TypeInv'
  BY TickType, SetStatusType, LoginReadType, RefreshReadType, IssueType, WriteSessionType,
     RespondType, AuthorizeType, LogoutType, ClearCookiesType, VerifyCurrentType, WriteCredentialsType,
     WriteLinkType, MailLinkType, ConfirmReadType, WriteResetType, MailCredentialsType,
     EndRequestType, SwitchedAccounts
  DEF Next
<1>2. TypeInv /\ UNCHANGED vars => TypeInv'
  BY DEF TypeInv, TypeOK, RequestOK, vars, history
<1> QED
  BY <1>1, <1>2

(* Every variable of the session model keeps its type. *)
THEOREM TypeCorrect == Spec => []TypeOK
<1>1. TypeInv => TypeOK
  BY DEF TypeInv
<1> QED
  BY <1>1, TypeInvInit, TypeInvNext, PTL DEF Spec

-----------------------------------------------------------------------------
(* Revocation.  The eras a session has slept through are eras that some    *)
(* write crossed; for a request about to write its token the eras between  *)
(* its login and the row it read are, and its own write adds the rest.     *)

CarriedOvertaken ==
  \A w \in Worker : req[w].at \in {"checked", "issued"} =>
    /\ req[w].seen <= era[req[w].sub]
    /\ (req[w].root + 1) .. req[w].seen \subseteq crossed[req[w].sub]

RevocationInv == RevocationOnlyOvertaken /\ CarriedOvertaken

LEMMA RevocationInit == Init => RevocationInv
  BY DEF Init, RevocationInv, RevocationOnlyOvertaken, CarriedOvertaken, Session, Idle

(* A row update that empties the slot while a new era opens. *)
LEMMA RevokeKeeps ==
  ASSUME TypeInv, RevocationInv, NEW a \in Account, NEW r \in Row, NEW w \in Worker,
         NEW q \in Request, q.at \notin {"checked", "issued"}, Continue(w, q),
         r.refresh = None, row' = [row EXCEPT ![a] = r], Revoke(a),
         UNCHANGED <<lineage, crossed>>
  PROVE RevocationInv'
<1>1. RevocationOnlyOvertaken'
  BY DEF TypeInv, TypeOK, RevocationInv, RevocationOnlyOvertaken, Session, Revoke
<1>2. CarriedOvertaken'
  <2> SUFFICES ASSUME NEW v \in Worker, req'[v].at \in {"checked", "issued"}
               PROVE /\ req'[v].seen <= era'[req'[v].sub]
                     /\ (req'[v].root + 1) .. req'[v].seen \subseteq crossed'[req'[v].sub]
    BY DEF CarriedOvertaken
  <2>1. req'[v] = req[v] /\ req[v] \in Request
    BY DEF TypeInv, TypeOK, Continue
  <2>2. req[v].sub \in Account
    BY <2>1 DEF TypeInv, RequestOK
  <2>3. era'[req[v].sub] >= era[req[v].sub] /\ era[req[v].sub] \in Nat
    BY <2>2, BoundsAssumption DEF TypeInv, TypeOK, Revoke
  <2>4. req[v].seen <= era[req[v].sub] /\ req[v].seen \in Nat
    BY <2>1 DEF RevocationInv, CarriedOvertaken, Request
  <2>5. era'[req[v].sub] \in Nat
    BY <2>2, BoundsAssumption DEF TypeInv, TypeOK, Revoke
  <2>6. req[v].seen <= era'[req[v].sub]
    BY <2>3, <2>4, <2>5
  <2> QED
    BY <2>1, <2>6 DEF RevocationInv, CarriedOvertaken
<1> QED
  BY <1>1, <1>2 DEF RevocationInv

(* A step that leaves slots and eras alone and moves no request into       *)
(* "checked" or "issued".                                                  *)
LEMMA BystanderKeeps ==
  ASSUME TypeInv, RevocationInv, UNCHANGED <<era, lineage, crossed>>,
         \A a \in Account : row'[a].refresh = row[a].refresh,
         \A w \in Worker : req'[w].at \in {"checked", "issued"} => req'[w] = req[w]
  PROVE RevocationInv'
  BY DEF RevocationInv, RevocationOnlyOvertaken, CarriedOvertaken, Session

LEMMA WriteSessionKeeps ==
  ASSUME TypeInv, RevocationInv, NEW w \in Worker, WriteSession(w)
  PROVE RevocationInv'
<1> DEFINE a == req[w].sub
<1>1. a \in Account /\ req[w] \in Request /\ era[a] \in Nat
  BY BoundsAssumption DEF WriteSession, TypeInv, TypeOK, RequestOK
<1>2. \A b \in Account : crossed[b] \subseteq crossed'[b]
  BY DEF WriteSession, TypeInv, TypeOK
<1>3. (req[w].root + 1) .. era[a] \subseteq crossed'[a]
  <2>1. (req[w].root + 1) .. req[w].seen \subseteq crossed[a]
    BY DEF WriteSession, RevocationInv, CarriedOvertaken
  <2>2. crossed'[a] = crossed[a] \cup ((req[w].seen + 1) .. era[a])
    BY <1>1 DEF WriteSession, TypeInv, TypeOK
  <2>3. req[w].root \in Nat /\ req[w].seen \in Nat
    BY <1>1 DEF Request
  <2> QED
    BY <1>1, <2>1, <2>2, <2>3
<1>4. RevocationOnlyOvertaken'
  <2> SUFFICES ASSUME NEW b \in Account, Session(b)'
               PROVE ((lineage[b] + 1) .. era[b] \subseteq crossed[b])'
    BY DEF RevocationOnlyOvertaken
  <2>1. CASE b = a
    BY <1>1, <1>3, <2>1 DEF WriteSession, TypeInv, TypeOK
  <2>2. CASE b # a
    BY <1>1, <1>2, <2>2 DEF WriteSession, TypeInv, TypeOK, RevocationInv,
                            RevocationOnlyOvertaken, Session
  <2> QED
    BY <2>1, <2>2
<1>5. CarriedOvertaken'
  <2> SUFFICES ASSUME NEW v \in Worker, req'[v].at \in {"checked", "issued"}
               PROVE /\ req'[v].seen <= era'[req'[v].sub]
                     /\ (req'[v].root + 1) .. req'[v].seen \subseteq crossed'[req'[v].sub]
    BY DEF CarriedOvertaken
  <2>1. req'[v] = req[v]
    BY <1>1 DEF WriteSession, Continue, TypeInv, TypeOK, Request
  <2>2. req[v].sub \in Account
    BY <2>1 DEF TypeInv, RequestOK
  <2> QED
    BY <1>2, <2>1, <2>2 DEF WriteSession, RevocationInv, CarriedOvertaken
<1> QED
  BY <1>4, <1>5 DEF RevocationInv

(* A login or a refresh starts: it carries the era of the row it reads.    *)
LEMMA ReadKeeps ==
  ASSUME TypeInv, RevocationInv, NEW w \in Worker, NEW a \in Account,
         NEW r \in Request, r.sub = a, r.seen = era[a],
         (r.root + 1) .. era[a] \subseteq crossed[a],
         Continue(w, r), UNCHANGED <<row, history>>
  PROVE RevocationInv'
<1>1. era[a] \in Nat
  BY BoundsAssumption DEF TypeInv, TypeOK
<1>2. req' = [req EXCEPT ![w] = r] /\ req \in [Worker -> Request]
  BY DEF Continue, TypeInv, TypeOK
<1>3. CarriedOvertaken'
  <2> SUFFICES ASSUME NEW v \in Worker, req'[v].at \in {"checked", "issued"}
               PROVE /\ req'[v].seen <= era'[req'[v].sub]
                     /\ (req'[v].root + 1) .. req'[v].seen \subseteq crossed'[req'[v].sub]
    BY DEF CarriedOvertaken
  <2>1. CASE v = w
    BY <1>1, <1>2, <2>1 DEF history
  <2>2. CASE v # w
    BY <1>2, <2>2 DEF RevocationInv, CarriedOvertaken, history
  <2> QED
    BY <2>1, <2>2
<1>4. RevocationOnlyOvertaken'
  BY DEF RevocationInv, RevocationOnlyOvertaken, Session, history
<1> QED
  BY <1>3, <1>4 DEF RevocationInv

LEMMA IssueKeeps ==
  ASSUME TypeInv, RevocationInv, NEW w \in Worker, Issue(w)
  PROVE RevocationInv'
<1>1. RevocationOnlyOvertaken'
  BY DEF RevocationInv, RevocationOnlyOvertaken, Session, Issue, history
<1>2. CarriedOvertaken'
  BY DEF RevocationInv, CarriedOvertaken, Issue, Continue, history, TypeInv, TypeOK, Request
<1> QED
  BY <1>1, <1>2 DEF RevocationInv

LEMMA RevocationNext == TypeInv /\ RevocationInv /\ [Next]_vars => RevocationInv'
<1> SUFFICES ASSUME TypeInv, RevocationInv, [Next]_vars PROVE RevocationInv'
  OBVIOUS
<1>1. CASE Tick
  BY <1>1, BystanderKeeps DEF Tick, history
<1>2. ASSUME NEW a \in Account, SetStatus(a) PROVE RevocationInv'
  <2>1. \A b \in Account : row'[b].refresh = row[b].refresh
    BY <1>2 DEF SetStatus, TypeInv, TypeOK, Row
  <2> QED
    BY <1>2, <2>1, BystanderKeeps DEF SetStatus, history
<1>3. ASSUME NEW w \in Worker, NEW c \in Client, NEW a \in Account, NEW p \in Password,
         LoginRead(w, c, a, p)
      PROVE RevocationInv'
  <2> DEFINE r == [Idle EXCEPT !.at = "checked", !.client = c, !.sub = a, !.root = era[a], !.seen = era[a]]
  <2>1. era[a] \in Nat /\ "checked" \in Stage
    BY BoundsAssumption DEF TypeInv, TypeOK, Stage
  <2>2. r \in Request
    BY <2>1, StartEdit
  <2>3. r.sub = a /\ r.seen = era[a] /\ (r.root + 1) .. era[a] \subseteq crossed[a]
    BY <2>1 DEF Idle
  <2> QED
    BY <1>3, <2>2, <2>3, ReadKeeps DEF LoginRead, Start
<1>4. ASSUME NEW w \in Worker, NEW c \in Client, NEW a \in Account, NEW iat \in Time,
         RefreshRead(w, c, a, iat)
      PROVE RevocationInv'
  <2> DEFINE r == [Idle EXCEPT !.at = "checked", !.client = c, !.sub = a, !.old = iat,
                               !.root = lineage[a], !.seen = era[a]]
  <2>1. era[a] \in Nat /\ lineage[a] \in Nat /\ "checked" \in Stage
    BY BoundsAssumption DEF TypeInv, TypeOK, Stage
  <2>2. r \in Request
    BY <2>1, StartEdit
  <2>3. iat # None
    BY SecretsAssumption DEF Time
  <2>4. r.sub = a /\ r.seen = era[a] /\ (r.root + 1) .. era[a] \subseteq crossed[a]
    BY <1>4, <2>3 DEF Idle, RefreshRead, RevocationInv, RevocationOnlyOvertaken, Session
  <2> QED
    BY <1>4, <2>2, <2>4, ReadKeeps DEF RefreshRead, Start
<1>5. ASSUME NEW w \in Worker, Issue(w) PROVE RevocationInv'
  BY <1>5, IssueKeeps
<1>6. ASSUME NEW w \in Worker, WriteSession(w) PROVE RevocationInv'
  BY <1>6, WriteSessionKeeps
<1>7. ASSUME NEW w \in Worker, Respond(w) PROVE RevocationInv'
  BY <1>7, BystanderKeeps DEF Respond, Finish, Continue, Idle, history, TypeInv, TypeOK
<1>8. ASSUME NEW w \in Worker, NEW c \in Client, NEW a \in Account, NEW iat \in Time, NEW op \in Operation,
             Authorize(w, c, a, iat, op)
      PROVE RevocationInv'
  BY <1>8, BystanderKeeps
  DEF Authorize, Start, Continue, Idle, history, Operation, TypeInv, TypeOK
<1>9. ASSUME NEW w \in Worker, Logout(w) PROVE RevocationInv'
  <2> DEFINE q == [req[w] EXCEPT !.at = "loggedOut"]
  <2>1. req[w].sub \in Account /\ row[req[w].sub] \in Row /\ req[w] \in Request
    BY <1>9, SubjectType DEF Logout
  <2>2. ClearSession(row[req[w].sub]) \in Row /\ ClearSession(row[req[w].sub]).refresh = None
    BY <2>1, RowEdits DEF ClearSession, Row
  <2>3. q \in Request /\ q.at = "loggedOut"
    BY <2>1, StageEdit DEF Stage, Request
  <2> QED
    BY <1>9, <2>1, <2>2, <2>3, RevokeKeeps DEF Logout
<1>10. ASSUME NEW w \in Worker, NEW cur \in Password, NEW new \in Chosen,
              VerifyCurrent(w, cur, new)
       PROVE RevocationInv'
  BY <1>10, BystanderKeeps DEF VerifyCurrent, Continue, history, TypeInv, TypeOK, Request
<1>11. ASSUME NEW w \in Worker, WriteCredentials(w) PROVE RevocationInv'
  <2> DEFINE r == SetPassword(row[req[w].sub], req[w].secret)
  <2>1. req[w].sub \in Account /\ row[req[w].sub] \in Row
    BY <1>11, SubjectType DEF WriteCredentials
  <2>2. r \in Row /\ r.refresh = None
    BY <1>11, <2>1, RowEdits DEF SetPassword, Row, WriteCredentials, TypeInv, RequestOK
  <2>3. Idle \in Request /\ Idle.at \notin {"checked", "issued"}
    BY IdleRequest DEF Idle
  <2> QED
    BY <1>11, <2>1, <2>2, <2>3, RevokeKeeps DEF WriteCredentials, Finish
<1>12. ASSUME NEW w \in Worker, NEW link \in ResetLink, WriteLink(w, link)
       PROVE RevocationInv'
  <2>1. \A b \in Account : row'[b].refresh = row[b].refresh
    BY <1>12 DEF WriteLink, StoreLink, TypeInv, TypeOK, Row
  <2> QED
    BY <1>12, <2>1, BystanderKeeps
    DEF WriteLink, Continue, history, TypeInv, TypeOK, Request
<1>13. ASSUME NEW w \in Worker, MailLink(w) PROVE RevocationInv'
  BY <1>13, BystanderKeeps DEF MailLink, Finish, Continue, Idle, history, TypeInv, TypeOK
<1>14. ASSUME NEW w \in Worker, NEW link \in ResetLink, NEW p \in Generated,
              ConfirmRead(w, link, p)
       PROVE RevocationInv'
  BY <1>14, BystanderKeeps DEF ConfirmRead, Continue, history, TypeInv, TypeOK, Request
<1>15. ASSUME NEW w \in Worker, WriteReset(w) PROVE RevocationInv'
  <2> DEFINE r == Reset(row[req[w].sub], req[w].secret)
             q == [req[w] EXCEPT !.at = "confirmed"]
  <2>1. req[w].sub \in Account /\ row[req[w].sub] \in Row /\ req[w] \in Request
    BY <1>15, SubjectType DEF WriteReset
  <2>2. r \in Row /\ r.refresh = None
    BY <1>15, <2>1, RowEdits DEF Reset, Row, WriteReset, TypeInv, RequestOK, Password
  <2>3. q \in Request /\ q.at = "confirmed"
    BY <2>1, StageEdit DEF Stage, Request
  <2> QED
    BY <1>15, <2>1, <2>2, <2>3, RevokeKeeps DEF WriteReset
<1>16. ASSUME NEW w \in Worker, MailCredentials(w) PROVE RevocationInv'
  BY <1>16, BystanderKeeps
  DEF MailCredentials, Finish, Continue, Idle, history, TypeInv, TypeOK
<1>17. ASSUME NEW w \in Worker, EndRequest(w) PROVE RevocationInv'
  BY <1>17, BystanderKeeps DEF EndRequest, Finish, Continue, Idle, TypeInv, TypeOK
<1>18. ASSUME NEW w \in Worker, ClearCookies(w) PROVE RevocationInv'
  BY <1>18, BystanderKeeps DEF ClearCookies, Finish, Continue, Idle, history, TypeInv, TypeOK
<1>19. CASE UNCHANGED vars
  BY <1>19, BystanderKeeps DEF vars, history
<1> QED
  BY <1>1, <1>2, <1>3, <1>4, <1>5, <1>6, <1>7, <1>8, <1>9, <1>10, <1>11, <1>12,
     <1>13, <1>14, <1>15, <1>16, <1>17, <1>18, <1>19, SwitchedAccounts DEF Next

(* A session that outlives a logout, a credential change or a reset was    *)
(* written by a login or refresh overlapping it, for any number of         *)
(* concurrent requests.                                                    *)
THEOREM RevocationTheorem == Spec => []RevocationOnlyOvertaken
<1>1. RevocationInv => RevocationOnlyOvertaken
  BY DEF RevocationInv
<1> QED
  BY <1>1, TypeInvInit, TypeInvNext, RevocationInit, RevocationNext, PTL DEF Spec

-----------------------------------------------------------------------------
(* Reset links.  A link is drawn once, so at most one row holds it, and    *)
(* the confirmation that spends it takes it out of that row.               *)

LinkInv ==
  /\ spent \subseteq used
  /\ \A a \in Account : row[a].link # None => row[a].link \in used
  /\ \A a, b \in Account : row[a].link = row[b].link /\ row[a].link # None => a = b
  /\ SpentLinkIsDead

LEMMA LinkInit == Init => LinkInv
  BY DEF Init, LinkInv, SpentLinkIsDead

(* Steps that write no link and spend none. *)
LEMMA LinksUntouched ==
  ASSUME TypeInv, LinkInv, spent' = spent, used \subseteq used',
         \A a \in Account : row'[a].link = row[a].link
  PROVE LinkInv'
  BY DEF LinkInv, SpentLinkIsDead

LEMMA WriteLinkKeeps ==
  ASSUME TypeInv, LinkInv, NEW w \in Worker, NEW link \in ResetLink, WriteLink(w, link)
  PROVE LinkInv'
<1> DEFINE a == req[w].sub
<1>1. a \in Account
  BY SubjectType DEF WriteLink
<1>2. row'[a].link = link /\ \A b \in Account \ {a} : row'[b] = row[b]
  BY <1>1 DEF WriteLink, StoreLink, TypeInv, TypeOK, Row
<1>3. link \notin used /\ used' = used \cup {link} /\ spent' = spent
  BY DEF WriteLink, history
<1> QED
  BY <1>1, <1>2, <1>3 DEF LinkInv, SpentLinkIsDead

LEMMA WriteResetKeeps ==
  ASSUME TypeInv, LinkInv, NEW w \in Worker, WriteReset(w)
  PROVE LinkInv'
<1> DEFINE a == req[w].sub
<1>1. a \in Account
  BY SubjectType DEF WriteReset
<1>2. row'[a].link = None /\ \A b \in Account \ {a} : row'[b] = row[b]
  BY <1>1 DEF WriteReset, Reset, TypeInv, TypeOK, Row
<1>3. spent' = spent \cup ({row[a].link} \ {None}) /\ used' = used
  BY DEF WriteReset
<1>4. None \notin spent'
  BY <1>3, SecretsAssumption DEF TypeInv, TypeOK
<1> QED
  BY <1>1, <1>2, <1>3, <1>4 DEF LinkInv, SpentLinkIsDead

(* Which steps write a row: all others leave it and what was spent alone,  *)
(* and only add to what was drawn.                                         *)
KeepsRows == UNCHANGED <<row, spent>> /\ used \subseteq used'

LEMMA RowWriters ==
  ASSUME Next
  PROVE  \/ \E w \in Worker, link \in ResetLink : WriteLink(w, link)
         \/ \E w \in Worker : WriteReset(w)
         \/ \E w \in Worker : WriteSession(w) \/ Logout(w) \/ WriteCredentials(w)
         \/ \E a \in Account : SetStatus(a)
         \/ KeepsRows
<1>1. Tick => KeepsRows
  BY DEF Tick, KeepsRows, history
<1>2. ASSUME NEW w \in Worker, NEW c \in Client, NEW a \in Account
      PROVE  /\ \A p : LoginRead(w, c, a, p) => KeepsRows
             /\ \A iat : RefreshRead(w, c, a, iat) => KeepsRows
             /\ \A iat, op : Authorize(w, c, a, iat, op) => KeepsRows
  BY DEF LoginRead, RefreshRead, Authorize, KeepsRows, history
<1>3. ASSUME NEW w \in Worker
      PROVE  /\ Issue(w) \/ Respond(w) \/ ClearCookies(w) => KeepsRows
             /\ MailLink(w) \/ MailCredentials(w) \/ EndRequest(w) => KeepsRows
  BY DEF Issue, Respond, ClearCookies, MailLink, MailCredentials, EndRequest, KeepsRows,
         history
<1>4. ASSUME NEW w \in Worker
      PROVE  /\ \A cur, new : VerifyCurrent(w, cur, new) => KeepsRows
             /\ \A link, p : ConfirmRead(w, link, p) => KeepsRows
  BY DEF VerifyCurrent, ConfirmRead, KeepsRows, history
<1> QED BY <1>1, <1>2, <1>3, <1>4, SwitchedAccounts DEF Next

LEMMA LinkNext == TypeInv /\ LinkInv /\ [Next]_vars => LinkInv'
<1> SUFFICES ASSUME TypeInv, LinkInv, [Next]_vars PROVE LinkInv'
  OBVIOUS
<1>1. ASSUME NEW w \in Worker, NEW link \in ResetLink, WriteLink(w, link) PROVE LinkInv'
  BY <1>1, WriteLinkKeeps
<1>2. ASSUME NEW w \in Worker, WriteReset(w) PROVE LinkInv'
  BY <1>2, WriteResetKeeps
<1>3. ASSUME NEW a \in Account, SetStatus(a) PROVE LinkInv'
  <2>1. \A b \in Account : row'[b].link = row[b].link
    BY <1>3 DEF SetStatus, TypeInv, TypeOK, Row
  <2> QED
    BY <1>3, <2>1, LinksUntouched DEF SetStatus, history
<1>4. ASSUME NEW w \in Worker, WriteSession(w) \/ Logout(w) \/ WriteCredentials(w)
      PROVE LinkInv'
  <2>1. req[w].sub \in Account
    BY <1>4, SubjectType DEF WriteSession, Logout, WriteCredentials
  <2>2. \A b \in Account : row'[b].link = row[b].link
    <3>1. CASE WriteSession(w)
      BY <2>1, <3>1 DEF WriteSession, StoreSession, TypeInv, TypeOK, Row
    <3>2. CASE Logout(w)
      BY <2>1, <3>2 DEF Logout, ClearSession, TypeInv, TypeOK, Row
    <3>3. CASE WriteCredentials(w)
      BY <2>1, <3>3 DEF WriteCredentials, SetPassword, TypeInv, TypeOK, Row
    <3> QED
      BY <1>4, <3>1, <3>2, <3>3
  <2>3. spent' = spent /\ used' = used
    BY <1>4 DEF WriteSession, Logout, WriteCredentials
  <2> QED
    BY <2>2, <2>3, LinksUntouched
<1>5. ASSUME KeepsRows PROVE LinkInv'
  BY <1>5, LinksUntouched DEF KeepsRows
<1>6. CASE UNCHANGED vars
  BY <1>5, <1>6 DEF vars, history, KeepsRows
<1> QED
  BY <1>1, <1>2, <1>3, <1>4, <1>5, <1>6, RowWriters

(* A link that a confirmation cleared is never again in any row. *)
THEOREM SpentLinkTheorem == Spec => []SpentLinkIsDead
<1>1. LinkInv => SpentLinkIsDead
  BY DEF LinkInv
<1> QED
  BY <1>1, TypeInvInit, TypeInvNext, LinkInit, LinkNext, PTL DEF Spec

-----------------------------------------------------------------------------
(* What the owner of an account can rely on however requests overlap: the   *)
(* password, the link in the mail and the session in the client.           *)

LEMMA PasswordInit == Init => PasswordReachable
  BY DEF Init, PasswordReachable

LEMMA PasswordOfEdits ==
  ASSUME NEW r \in Row
  PROVE /\ \A t : StoreSession(r, t).password = r.password
        /\ ClearSession(r).password = r.password
        /\ \A l, t : StoreLink(r, l, t).password = r.password
        /\ \A p : SetPassword(r, p).password = p
        /\ \A p : Reset(r, p).password = p
  BY DEF Row, StoreSession, ClearSession, StoreLink, SetPassword, Reset

(* A step after which every password is the same and no less reachable.    *)
LEMMA PasswordKept ==
  ASSUME TypeInv, PasswordReachable,
         \A a \in Account : row'[a].password = row[a].password,
         \A a \in Account : known[a] \subseteq known'[a],
         lost \subseteq lost',
         \A w \in Worker : req[w].at = "confirmed" =>
           \/ req'[w] = req[w]
           \/ req[w].secret \in known'[req[w].sub] \cup lost'
  PROVE PasswordReachable'
<1> SUFFICES ASSUME NEW a \in Account
             PROVE \/ row'[a].password \in known'[a] \cup lost'
                   \/ \E w \in Worker : req'[w].at = "confirmed" /\ req'[w].sub = a
                                        /\ req'[w].secret = row'[a].password
  BY DEF PasswordReachable
<1>1. CASE row[a].password \in known[a] \cup lost
  BY <1>1
<1>2. CASE \E w \in Worker : req[w].at = "confirmed" /\ req[w].sub = a
                             /\ req[w].secret = row[a].password
  BY <1>2
<1> QED BY <1>1, <1>2 DEF PasswordReachable

(* The steps that write a password: the request knows it, or will mail it. *)
LEMMA PasswordWritten ==
  ASSUME TypeInv, PasswordReachable, NEW w \in Worker, WriteCredentials(w) \/ WriteReset(w)
  PROVE PasswordReachable'
<1> DEFINE a == req[w].sub
           p == req[w].secret
<1>1. /\ a \in Account /\ row[a] \in Row /\ req[w] \in Request
      /\ row \in [Account -> Row] /\ req \in [Worker -> Request]
  BY SubjectType DEF WriteCredentials, WriteReset, TypeInv, TypeOK
<1>2. row'[a].password = p /\ \A b \in Account \ {a} : row'[b] = row[b]
  <2>1. CASE WriteCredentials(w)
    BY <1>1, <2>1, PasswordOfEdits DEF WriteCredentials
  <2>2. CASE WriteReset(w)
    BY <1>1, <2>2, PasswordOfEdits DEF WriteReset
  <2> QED BY <2>1, <2>2
<1>3. known' = known /\ lost' = lost
  BY DEF WriteCredentials, WriteReset
<1>4. \/ p \in known[a]
      \/ req'[w].at = "confirmed" /\ req'[w].sub = a /\ req'[w].secret = p
  <2>1. CASE WriteCredentials(w)
    BY <2>1 DEF WriteCredentials, TypeInv, RequestOK
  <2>2. CASE WriteReset(w)
    BY <1>1, <2>2 DEF WriteReset, Continue, Request
  <2> QED BY <2>1, <2>2
<1>5. \A v \in Worker : req[v].at = "confirmed" => req'[v] = req[v]
  BY <1>1 DEF WriteCredentials, WriteReset, Finish, Continue
<1> SUFFICES ASSUME NEW b \in Account
             PROVE \/ row'[b].password \in known'[b] \cup lost'
                   \/ \E v \in Worker : req'[v].at = "confirmed" /\ req'[v].sub = b
                                        /\ req'[v].secret = row'[b].password
  BY DEF PasswordReachable
<1>6. CASE b = a
  BY <1>2, <1>3, <1>4, <1>6
<1>7. CASE b # a
  <2>1. row'[b].password = row[b].password
    BY <1>2, <1>7
  <2> QED BY <1>3, <1>5, <2>1 DEF PasswordReachable
<1> QED BY <1>6, <1>7

LEMMA PasswordNext == TypeInv /\ PasswordReachable /\ [Next]_vars => PasswordReachable'
<1> SUFFICES ASSUME TypeInv, PasswordReachable, [Next]_vars PROVE PasswordReachable'
  OBVIOUS
<1>0. row \in [Account -> Row] /\ req \in [Worker -> Request] /\ known \in [Account -> SUBSET Password]
  BY DEF TypeInv, TypeOK
<1>1. ASSUME NEW w \in Worker, WriteCredentials(w) \/ WriteReset(w) PROVE PasswordReachable'
  BY <1>1, PasswordWritten
<1>2. ASSUME NEW w \in Worker, WriteSession(w) \/ Logout(w) \/ (\E l \in ResetLink : WriteLink(w, l))
      PROVE PasswordReachable'
  <2>1. req[w].sub \in Account /\ req[w].at # "confirmed"
    BY <1>2, SubjectType DEF WriteSession, Logout, WriteLink
  <2>2. \A b \in Account : row'[b].password = row[b].password
    <3>1. CASE WriteSession(w)
      BY <1>0, <2>1, <3>1, PasswordOfEdits DEF WriteSession
    <3>2. CASE Logout(w)
      BY <1>0, <2>1, <3>2, PasswordOfEdits DEF Logout
    <3>3. CASE \E l \in ResetLink : WriteLink(w, l)
      BY <1>0, <2>1, <3>3, PasswordOfEdits DEF WriteLink
    <3> QED BY <1>2, <3>1, <3>2, <3>3
  <2>3. known' = known /\ lost' = lost
    BY <1>2 DEF WriteSession, Logout, WriteLink, history
  <2>4. \A v \in Worker : req[v].at = "confirmed" => req'[v] = req[v]
    BY <1>0, <1>2, <2>1 DEF WriteSession, Logout, WriteLink, Continue
  <2> QED BY <2>2, <2>3, <2>4, PasswordKept
<1>3. ASSUME NEW a \in Account, SetStatus(a) PROVE PasswordReachable'
  <2>1. \A b \in Account : row'[b].password = row[b].password
    BY <1>0, <1>3 DEF SetStatus, Row
  <2> QED BY <1>3, <2>1, PasswordKept DEF SetStatus, history
<1>4. ASSUME NEW w \in Worker, MailCredentials(w) PROVE PasswordReachable'
  <2>1. req[w].sub \in Account /\ row' = row /\ lost' = lost
    BY <1>4, SubjectType DEF MailCredentials, history
  <2>2. /\ \A a \in Account : known[a] \subseteq known'[a]
        /\ req[w].secret \in known'[req[w].sub]
    BY <1>0, <1>4, <2>1 DEF MailCredentials, Mailed
  <2>3. \A v \in Worker \ {w} : req'[v] = req[v]
    BY <1>0, <1>4 DEF MailCredentials, Finish, Continue
  <2> QED BY <2>1, <2>2, <2>3, PasswordKept
<1>5. ASSUME NEW w \in Worker, EndRequest(w) PROVE PasswordReachable'
  <2>1. row' = row /\ known' = known /\ lost \subseteq lost'
    BY <1>5 DEF EndRequest
  <2>2. req[w].at = "confirmed" => req[w].secret \in lost'
    BY <1>5 DEF EndRequest
  <2>3. \A v \in Worker \ {w} : req'[v] = req[v]
    BY <1>0, <1>5 DEF EndRequest, Finish, Continue
  <2> QED BY <2>1, <2>2, <2>3, PasswordKept
<1>6. ASSUME NEW w \in Worker, NEW cur \in Password, NEW new \in Chosen,
             VerifyCurrent(w, cur, new)
      PROVE PasswordReachable'
  <2>1. row' = row /\ lost' = lost /\ \A a \in Account : known[a] \subseteq known'[a]
    BY <1>0, <1>6 DEF VerifyCurrent, history
  <2>2. \A v \in Worker : req[v].at = "confirmed" => req'[v] = req[v]
    BY <1>0, <1>6 DEF VerifyCurrent, Continue
  <2> QED BY <2>1, <2>2, PasswordKept
<1>7. ASSUME UNCHANGED <<row, known, lost>>,
             \A v \in Worker : req[v].at = "confirmed" => req'[v] = req[v]
      PROVE PasswordReachable'
  BY <1>7, PasswordKept
<1>8. ASSUME NEW w \in Worker,
             \/ \E c \in Client, a \in Account, p \in Password : LoginRead(w, c, a, p)
             \/ \E c \in Client, a \in Account, iat \in Time : RefreshRead(w, c, a, iat)
             \/ \E c \in Client, a \in Account, iat \in Time, op \in Operation : Authorize(w, c, a, iat, op)
             \/ Issue(w) \/ Respond(w) \/ ClearCookies(w) \/ MailLink(w)
             \/ \E link \in ResetLink, p \in Generated : ConfirmRead(w, link, p)
      PROVE PasswordReachable'
  <2>1. UNCHANGED <<row, known, lost>>
    BY <1>8 DEF LoginRead, RefreshRead, Authorize, Issue, Respond, ClearCookies, MailLink,
           ConfirmRead, history
  <2>2. \A v \in Worker : req[v].at = "confirmed" => req'[v] = req[v]
    <3>1. req[w].at # "confirmed" /\ \A v \in Worker \ {w} : req'[v] = req[v]
      <4>1. CASE \E c \in Client, a \in Account, p \in Password : LoginRead(w, c, a, p)
        BY <1>0, <4>1 DEF LoginRead, Start, Continue, Idle
      <4>2. CASE \E c \in Client, a \in Account, iat \in Time : RefreshRead(w, c, a, iat)
        BY <1>0, <4>2 DEF RefreshRead, Start, Continue, Idle
      <4>3. CASE \E c \in Client, a \in Account, iat \in Time, op \in Operation : Authorize(w, c, a, iat, op)
        BY <1>0, <4>3 DEF Authorize, Start, Continue, Idle
      <4>4. CASE Issue(w) \/ Respond(w) \/ ClearCookies(w) \/ MailLink(w)
        BY <1>0, <4>4 DEF Issue, Respond, ClearCookies, MailLink, Finish, Continue
      <4>5. CASE \E link \in ResetLink, p \in Generated : ConfirmRead(w, link, p)
        BY <1>0, <4>5 DEF ConfirmRead, Continue
      <4> QED BY <1>8, <4>1, <4>2, <4>3, <4>4, <4>5
    <3> QED BY <3>1
  <2> QED BY <1>7, <2>1, <2>2
<1>9. CASE Tick \/ UNCHANGED vars
  BY <1>7, <1>9 DEF Tick, vars, history
<1> QED BY <1>1, <1>2, <1>3, <1>4, <1>5, <1>6, <1>8, <1>9, SwitchedAccounts DEF Next

(* confirmPasswordReset sets a password nobody has seen: its owner learns  *)
(* it by mail, or the mail of that very confirmation did not go out.       *)
THEOREM PasswordTheorem == Spec => []PasswordReachable
  BY TypeInvInit, TypeInvNext, PasswordInit, PasswordNext, PTL DEF Spec

-----------------------------------------------------------------------------
(* The link in the mail. *)

LEMMA LinkOfEdits ==
  ASSUME NEW r \in Row
  PROVE /\ \A t : StoreSession(r, t).link = r.link
        /\ ClearSession(r).link = r.link
        /\ \A p : SetPassword(r, p).link = r.link
        /\ \A l, t : StoreLink(r, l, t).link = l
  BY DEF Row, StoreSession, ClearSession, StoreLink, SetPassword

LinkStep ==
  \A a \in Account :
    row[a].link \notin {None, row'[a].link} =>
      \/ row'[a].link \notin used \cup {None}
      \/ \E w \in Worker : /\ req[w].at = "matched" /\ req[w].sub = a
                           /\ req'[w].at = "confirmed"

LEMMA LinkKept ==
  ASSUME \A a \in Account : row'[a].link = row[a].link
  PROVE LinkStep
  BY DEF LinkStep

LEMMA LinkSteps == TypeInv /\ [Next]_vars => [LinkStep]_vars
<1> SUFFICES ASSUME TypeInv, Next PROVE LinkStep
  OBVIOUS
<1>0. row \in [Account -> Row] /\ req \in [Worker -> Request]
  BY DEF TypeInv, TypeOK
<1>1. ASSUME NEW w \in Worker, NEW l \in ResetLink, WriteLink(w, l) PROVE LinkStep
  <2>1. req[w].sub \in Account /\ l \notin used /\ l # None
    BY <1>1, SubjectType, SecretsAssumption DEF WriteLink
  <2>2. /\ row'[req[w].sub].link = l
        /\ \A b \in Account \ {req[w].sub} : row'[b] = row[b]
    BY <1>0, <1>1, <2>1, LinkOfEdits DEF WriteLink
  <2> QED BY <2>1, <2>2 DEF LinkStep
<1>2. ASSUME NEW w \in Worker, WriteReset(w) PROVE LinkStep
  <2>1. req[w].sub \in Account /\ req[w].at = "matched" /\ req[w] \in Request
    BY <1>2, SubjectType DEF WriteReset
  <2>2. \A b \in Account \ {req[w].sub} : row'[b] = row[b]
    BY <1>0, <1>2, <2>1 DEF WriteReset
  <2>3. req'[w].at = "confirmed"
    BY <1>0, <1>2, <2>1 DEF WriteReset, Continue, Request
  <2> QED BY <2>1, <2>2, <2>3 DEF LinkStep
<1>3. ASSUME NEW w \in Worker, WriteSession(w) \/ Logout(w) \/ WriteCredentials(w)
      PROVE LinkStep
  <2>1. req[w].sub \in Account
    BY <1>3, SubjectType DEF WriteSession, Logout, WriteCredentials
  <2>2. \A b \in Account : row'[b].link = row[b].link
    <3>1. CASE WriteSession(w)
      BY <1>0, <2>1, <3>1, LinkOfEdits DEF WriteSession
    <3>2. CASE Logout(w)
      BY <1>0, <2>1, <3>2, LinkOfEdits DEF Logout
    <3>3. CASE WriteCredentials(w)
      BY <1>0, <2>1, <3>3, LinkOfEdits DEF WriteCredentials
    <3> QED BY <1>3, <3>1, <3>2, <3>3
  <2> QED BY <2>2, LinkKept
<1>4. ASSUME NEW a \in Account, SetStatus(a) PROVE LinkStep
  <2>1. \A b \in Account : row'[b].link = row[b].link
    BY <1>0, <1>4 DEF SetStatus, Row
  <2> QED BY <2>1, LinkKept
<1>5. ASSUME KeepsRows PROVE LinkStep
  BY <1>5, LinkKept DEF KeepsRows
<1> QED
  BY <1>1, <1>2, <1>3, <1>4, <1>5, RowWriters

(* requestPasswordReset and confirmPasswordReset: nothing but a newer link *)
(* or a confirmation takes a link out of the row.                          *)
THEOREM LinkTheorem == Spec => LinkEndsByResetOnly
<1>1. TypeInv /\ [Next]_vars => [LinkStep]_vars
  BY LinkSteps
<1>2. [][LinkStep]_vars => LinkEndsByResetOnly
  BY PTL DEF LinkStep, LinkEndsByResetOnly
<1> QED BY <1>1, <1>2, TypeInvInit, TypeInvNext, PTL DEF Spec

-----------------------------------------------------------------------------
(* The session in the client. *)

LEMMA SlotOfEdits ==
  ASSUME NEW r \in Row
  PROVE /\ \A t : StoreSession(r, t).refresh = t
        /\ ClearSession(r).refresh = None
        /\ \A p : SetPassword(r, p).refresh = None
        /\ \A p : Reset(r, p).refresh = None
        /\ \A l, t : StoreLink(r, l, t).refresh = r.refresh
  BY DEF Row, StoreSession, ClearSession, SetPassword, Reset, StoreLink

GoesOn(c, a) ==
  CanGoOn(c, a) => \/ CanGoOn(c, a)'
                   \/ row'[a].refresh = None
                   \/ SlotTaken(c, a)
                   \/ AnswerLost(c)
                   \/ CookieReplaced(c)

(* A step that leaves the slot alone and drops no answer to the client.    *)
LEMMA SlotKept ==
  ASSUME NEW c \in Client, NEW a \in Account, row'[a].refresh = row[a].refresh,
         \A v \in Worker : req[v].at = "stored" /\ req[v].client = c => req'[v] = req[v]
  PROVE GoesOn(c, a)
<1> SUFFICES ASSUME CanGoOn(c, a), cookie'[c] = cookie[c] PROVE CanGoOn(c, a)'
  BY DEF GoesOn, CookieReplaced
<1>1. Session(a)'
  BY DEF CanGoOn, Session
<1>2. CASE cookie[c] = [sub |-> a, iat |-> row[a].refresh]
  BY <1>1, <1>2 DEF CanGoOn
<1>3. CASE \E w \in Worker : /\ req[w].at = "stored" /\ req[w].client = c
                             /\ req[w].sub = a /\ req[w].iat = row[a].refresh
  BY <1>1, <1>3 DEF CanGoOn
<1> QED BY <1>2, <1>3 DEF CanGoOn

(* A request that has not stored, or has nothing to store, goes a step on. *)
LEMMA NothingDropped ==
  ASSUME NEW c \in Client, NEW a \in Account, NEW w \in Worker, req[w].at # "stored",
         row'[a].refresh = row[a].refresh,
         \A v \in Worker \ {w} : req'[v] = req[v]
  PROVE GoesOn(c, a)
  BY SlotKept

LEMMA WriteSessionGoesOn ==
  ASSUME TypeInv, NEW w \in Worker, WriteSession(w), NEW c \in Client, NEW a \in Account
  PROVE GoesOn(c, a)
<1>0. row \in [Account -> Row] /\ req \in [Worker -> Request]
  BY DEF TypeInv, TypeOK
<1>1. /\ req[w].sub \in Account /\ req[w] \in Request /\ req[w].at = "issued"
      /\ req[w].iat \in Time
  BY SubjectType DEF WriteSession, TypeInv, RequestOK
<1>2. /\ req'[w].at = "stored" /\ req'[w].sub = req[w].sub /\ req'[w].iat = req[w].iat
      /\ req'[w].client = req[w].client
      /\ \A v \in Worker \ {w} : req'[v] = req[v]
  BY <1>0, <1>1 DEF WriteSession, Continue, Request
<1>3. /\ row'[req[w].sub].refresh = req[w].iat
      /\ \A b \in Account \ {req[w].sub} : row'[b] = row[b]
  BY <1>0, <1>1, SlotOfEdits DEF WriteSession
<1>4. CASE a = req[w].sub /\ c = req[w].client
  <2>1. req[w].iat # None
    BY <1>1, SecretsAssumption DEF Time
  <2> QED BY <1>2, <1>3, <1>4, <2>1 DEF GoesOn, CanGoOn, Session
<1>5. CASE a = req[w].sub /\ c # req[w].client
  BY <1>1, <1>2, <1>5 DEF GoesOn, SlotTaken
<1>6. CASE a # req[w].sub
  BY <1>1, <1>2, <1>3, <1>6, NothingDropped
<1> QED BY <1>4, <1>5, <1>6

LEMMA RespondGoesOn ==
  ASSUME TypeInv, NEW w \in Worker, Respond(w), NEW c \in Client, NEW a \in Account
  PROVE GoesOn(c, a)
<1>1. req \in [Worker -> Request] /\ row' = row /\ cookie \in [Client -> Token \cup {None}]
  BY DEF TypeInv, TypeOK, Respond
<1>2. cookie' = [cookie EXCEPT ![req[w].client] = [sub |-> req[w].sub, iat |-> req[w].iat]]
  BY DEF Respond
<1>3. \A v \in Worker \ {w} : req'[v] = req[v]
  BY <1>1 DEF Respond, Finish, Continue
<1>4. CASE req[w].client # c
  BY <1>1, <1>3, <1>4, SlotKept
<1>5. CASE req[w].client = c
  <2>1. cookie'[c] = [sub |-> req[w].sub, iat |-> req[w].iat]
    BY <1>1, <1>2, <1>5
  <2>2. CASE req[w].sub = a /\ req[w].iat = row[a].refresh
    BY <1>1, <2>1, <2>2 DEF GoesOn, CanGoOn, Session
  <2>3. CASE ~(req[w].sub = a /\ req[w].iat = row[a].refresh)
    BY <1>1, <1>3, <2>3 DEF GoesOn, CanGoOn, CookieReplaced, Session
  <2> QED BY <2>2, <2>3
<1> QED BY <1>4, <1>5

LEMMA RevocationGoesOn ==
  ASSUME TypeInv, NEW w \in Worker, Logout(w) \/ WriteCredentials(w) \/ WriteReset(w),
         NEW c \in Client, NEW a \in Account
  PROVE GoesOn(c, a)
<1>0. row \in [Account -> Row] /\ req \in [Worker -> Request]
  BY DEF TypeInv, TypeOK
<1>1. req[w].sub \in Account /\ req[w].at # "stored"
  BY SubjectType DEF Logout, WriteCredentials, WriteReset
<1>2. /\ row'[req[w].sub].refresh = None
      /\ \A b \in Account \ {req[w].sub} : row'[b] = row[b]
  <2>1. CASE Logout(w)
    BY <1>0, <1>1, <2>1, SlotOfEdits DEF Logout
  <2>2. CASE WriteCredentials(w)
    BY <1>0, <1>1, <2>2, SlotOfEdits DEF WriteCredentials
  <2>3. CASE WriteReset(w)
    BY <1>0, <1>1, <2>3, SlotOfEdits DEF WriteReset
  <2> QED BY <2>1, <2>2, <2>3
<1>3. \A v \in Worker \ {w} : req'[v] = req[v]
  BY <1>0 DEF Logout, WriteCredentials, WriteReset, Finish, Continue
<1>4. CASE a = req[w].sub
  BY <1>2, <1>4 DEF GoesOn
<1>5. CASE a # req[w].sub
  BY <1>1, <1>2, <1>3, <1>5, NothingDropped
<1> QED BY <1>4, <1>5

LEMMA EndRequestGoesOn ==
  ASSUME TypeInv, NEW w \in Worker, EndRequest(w), NEW c \in Client, NEW a \in Account
  PROVE GoesOn(c, a)
<1>1. /\ req \in [Worker -> Request] /\ row' = row /\ cookie' = cookie
      /\ req' = [req EXCEPT ![w] = Idle]
  BY DEF TypeInv, TypeOK, EndRequest, Finish, Continue
<1>2. CASE req[w].at = "stored" /\ req[w].client = c
  BY <1>1, <1>2 DEF GoesOn, AnswerLost
<1>3. CASE ~(req[w].at = "stored" /\ req[w].client = c)
  BY <1>1, <1>3, SlotKept
<1> QED BY <1>2, <1>3

LEMMA OtherGoesOn ==
  ASSUME TypeInv, NEW w \in Worker, NEW c \in Client, NEW a \in Account,
         \/ \E d \in Client, b \in Account, p \in Password : LoginRead(w, d, b, p)
         \/ \E d \in Client, b \in Account, iat \in Time : RefreshRead(w, d, b, iat)
         \/ \E d \in Client, b \in Account, iat \in Time, op \in Operation : Authorize(w, d, b, iat, op)
         \/ Issue(w) \/ ClearCookies(w)
         \/ \E cur \in Password, new \in Chosen : VerifyCurrent(w, cur, new)
         \/ \E link \in ResetLink : WriteLink(w, link)
         \/ MailLink(w)
         \/ \E link \in ResetLink, p \in Generated : ConfirmRead(w, link, p)
         \/ MailCredentials(w)
  PROVE GoesOn(c, a)
<1>0. row \in [Account -> Row] /\ req \in [Worker -> Request]
  BY DEF TypeInv, TypeOK
<1>1. /\ req[w].at # "stored" /\ row'[a].refresh = row[a].refresh
      /\ \A v \in Worker \ {w} : req'[v] = req[v]
  <2>1. CASE \E d \in Client, b \in Account, p \in Password : LoginRead(w, d, b, p)
    <3>1. req[w] = Idle /\ row' = row
      BY <2>1 DEF LoginRead, Start
    <3>2. \A v \in Worker \ {w} : req'[v] = req[v]
      BY <1>0, <2>1 DEF LoginRead, Start, Continue
    <3> QED BY <3>1, <3>2 DEF Idle
  <2>2. CASE \E d \in Client, b \in Account, iat \in Time : RefreshRead(w, d, b, iat)
    <3>1. req[w] = Idle /\ row' = row
      BY <2>2 DEF RefreshRead, Start
    <3>2. \A v \in Worker \ {w} : req'[v] = req[v]
      BY <1>0, <2>2 DEF RefreshRead, Start, Continue
    <3> QED BY <3>1, <3>2 DEF Idle
  <2>3. CASE \E d \in Client, b \in Account, iat \in Time, op \in Operation : Authorize(w, d, b, iat, op)
    <3>1. req[w] = Idle /\ row' = row
      BY <2>3 DEF Authorize, Start
    <3>2. \A v \in Worker \ {w} : req'[v] = req[v]
      BY <1>0, <2>3 DEF Authorize, Start, Continue
    <3> QED BY <3>1, <3>2 DEF Idle
  <2>4. CASE Issue(w) \/ ClearCookies(w) \/ MailLink(w) \/ MailCredentials(w)
    BY <1>0, <2>4 DEF Issue, ClearCookies, MailLink, MailCredentials, Finish, Continue
  <2>5. CASE \E cur \in Password, new \in Chosen : VerifyCurrent(w, cur, new)
    BY <1>0, <2>5 DEF VerifyCurrent, Continue
  <2>6. CASE \E link \in ResetLink : WriteLink(w, link)
    <3>1. PICK link \in ResetLink : WriteLink(w, link)
      BY <2>6
    <3>2. req[w].sub \in Account /\ req[w].at # "stored"
      BY <3>1, SubjectType DEF WriteLink
    <3>3. row'[a].refresh = row[a].refresh
      <4>1. row' = [row EXCEPT ![req[w].sub] = StoreLink(row[req[w].sub], link, now)]
        BY <3>1 DEF WriteLink
      <4>2. StoreLink(row[req[w].sub], link, now).refresh = row[req[w].sub].refresh
        BY <1>0, <3>2, SlotOfEdits
      <4> QED BY <1>0, <3>2, <4>1, <4>2
    <3>4. \A v \in Worker \ {w} : req'[v] = req[v]
      BY <1>0, <3>1 DEF WriteLink, Continue
    <3> QED BY <3>2, <3>3, <3>4
  <2>7. CASE \E link \in ResetLink, p \in Generated : ConfirmRead(w, link, p)
    BY <1>0, <2>7 DEF ConfirmRead, Continue
  <2> QED BY <2>1, <2>2, <2>3, <2>4, <2>5, <2>6, <2>7
<1> QED BY <1>1, NothingDropped

CutOffStep == \A c \in Client, a \in Account : GoesOn(c, a)

LEMMA CutOffSteps ==
  ASSUME TypeInv, [Next]_vars, NEW c \in Client, NEW a \in Account
  PROVE GoesOn(c, a)
<1>1. ASSUME NEW b \in Account, SetStatus(b) PROVE GoesOn(c, a)
  <2>1. row'[a].refresh = row[a].refresh
    BY <1>1 DEF SetStatus, TypeInv, TypeOK, Row
  <2> QED BY <1>1, <2>1, SlotKept DEF SetStatus
<1>2. CASE Tick \/ UNCHANGED vars
  BY <1>2, SlotKept DEF Tick, vars
<1>3. ASSUME NEW w \in Worker, WriteSession(w) PROVE GoesOn(c, a)
  BY <1>3, WriteSessionGoesOn
<1>4. ASSUME NEW w \in Worker, Respond(w) PROVE GoesOn(c, a)
  BY <1>4, RespondGoesOn
<1>5. ASSUME NEW w \in Worker, Logout(w) \/ WriteCredentials(w) \/ WriteReset(w)
      PROVE GoesOn(c, a)
  BY <1>5, RevocationGoesOn
<1>6. ASSUME NEW w \in Worker, EndRequest(w) PROVE GoesOn(c, a)
  BY <1>6, EndRequestGoesOn
<1> QED BY <1>1, <1>2, <1>3, <1>4, <1>5, <1>6, OtherGoesOn, SwitchedAccounts DEF Next

(* login and refreshToken put only tokens into the slot that they send to  *)
(* the client they serve: for any number of clients and requests, a client *)
(* that can go on is cut off by a revocation, by another client in the one *)
(* slot, by a lost answer or by a later cookie, and by nothing else.       *)
THEOREM CutOffTheorem == Spec => CutOffOnlyByNamedCause
<1>1. TypeInv /\ [Next]_vars => [CutOffStep]_vars
  BY CutOffSteps DEF CutOffStep
<1>2. [][CutOffStep]_vars => CutOffOnlyByNamedCause
  BY PTL DEF CutOffStep, GoesOn, CutOffOnlyByNamedCause
<1> QED BY <1>1, <1>2, TypeInvInit, TypeInvNext, PTL DEF Spec
=============================================================================
