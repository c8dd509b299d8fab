---------------------------- MODULE SerialProofs ----------------------------
(***************************************************************************)
(* With requests served one at a time, for any number of accounts, any     *)
(* clock and any secrets, Sessions implements AccountSession, and so no    *)
(* session outlives the revocation that follows its login.                 *)
(***************************************************************************)
EXTENDS SerialSessions, SessionsProofs

OneAtATime == \A v, w \in Worker : v = w

(* What a request has read is still so when it writes.                     *)
ReadHolds ==
  \A w \in Worker :
    /\ req[w].at \in {"checked", "issued"} => req[w].root = era[req[w].sub]
    /\ req[w].at = "issued" =>
         /\ req[w].iat <= now
         /\ Session(req[w].sub) => row[req[w].sub].refresh <= req[w].iat
    /\ req[w].at = "matched" => row[req[w].sub].link # None
    /\ req[w].at = "verified" => req[w].secret \in Chosen

SlotInPast == \A a \in Account : Session(a) => row[a].refresh <= now

SerialInv == /\ OneAtATime
             /\ ReadHolds
             /\ SlotInPast
             /\ NoSessionOutlivesRevocation

LEMMA SerialInit == OneAtATime /\ Init => SerialInv
  BY DEF Init, SerialInv, ReadHolds, SlotInPast, NoSessionOutlivesRevocation, Session, Idle

(* The only request: what it becomes decides ReadHolds. *)
LEMMA OnlyRequest ==
  ASSUME TypeInv, OneAtATime, NEW w \in Worker, NEW r \in Request, Continue(w, r)
  PROVE \A v \in Worker : v = w /\ req'[v] = r
  BY DEF OneAtATime, Continue, TypeInv, TypeOK

(* A step that touches no slot, no link and no era, and moves no request    *)
(* into a stage that carries what it read.                                  *)
LEMMA QuietKeeps ==
  ASSUME TypeInv, SerialInv, UNCHANGED <<era, lineage>>, now <= now', now' \in Time,
         \A a \in Account : row'[a].refresh = row[a].refresh /\ row'[a].link = row[a].link,
         \A w \in Worker : \/ req'[w] = req[w]
                           \/ req'[w].at \notin {"checked", "issued", "matched", "verified"}
  PROVE SerialInv'
<1>1. ReadHolds'
  <2> SUFFICES ASSUME NEW w \in Worker, req'[w] = req[w],
                      req[w].at \in {"checked", "issued", "matched", "verified"}
               PROVE (/\ req[w].at \in {"checked", "issued"} => req[w].root = era[req[w].sub]
                      /\ req[w].at = "issued" =>
                           /\ req[w].iat <= now
                           /\ Session(req[w].sub) => row[req[w].sub].refresh <= req[w].iat
                      /\ req[w].at = "matched" => row[req[w].sub].link # None
                      /\ req[w].at = "verified" => req[w].secret \in Chosen)'
    BY DEF ReadHolds
  <2>1. req[w].sub \in Account
    BY DEF TypeInv, RequestOK
  <2>2. req[w].at = "issued" => req[w].iat \in Nat
    BY BoundsAssumption DEF TypeInv, RequestOK, Time
  <2>3. now \in Nat /\ now' \in Nat
    BY BoundsAssumption DEF TypeInv, TypeOK, Time
  <2> QED
    BY <2>1, <2>2, <2>3 DEF SerialInv, ReadHolds, Session
<1>2. SlotInPast'
  <2> SUFFICES ASSUME NEW a \in Account, Session(a)' PROVE (row[a].refresh <= now)'
    BY DEF SlotInPast
  <2>1. row[a].refresh \in Nat /\ now \in Nat /\ now' \in Nat
    BY BoundsAssumption DEF TypeInv, TypeOK, Time, Row, Session
  <2> QED
    BY <2>1 DEF SerialInv, SlotInPast, Session
<1>3. NoSessionOutlivesRevocation'
  BY DEF SerialInv, NoSessionOutlivesRevocation, Session
<1>4. OneAtATime'
  BY DEF SerialInv, OneAtATime
<1> QED
  BY <1>1, <1>2, <1>3, <1>4 DEF SerialInv

(* A step that empties the slot while a new era opens. *)
LEMMA RevokeKeepsSerial ==
  ASSUME TypeInv, SerialInv, NEW w \in Worker, NEW q \in Request,
         q.at \notin {"checked", "issued", "matched", "verified"}, Continue(w, q),
         NEW a \in Account, NEW r \in Row, r.refresh = None,
         row' = [row EXCEPT ![a] = r], Revoke(a), UNCHANGED <<now, lineage>>
  PROVE SerialInv'
<1>1. \A v \in Worker : req'[v] = q
  BY OnlyRequest DEF SerialInv
<1>2. ReadHolds'
  BY <1>1 DEF ReadHolds
<1>3. SlotInPast' /\ NoSessionOutlivesRevocation'
  BY DEF SerialInv, SlotInPast, NoSessionOutlivesRevocation, Session, Revoke, TypeInv, TypeOK
<1>4. OneAtATime'
  BY DEF SerialInv, OneAtATime
<1> QED
  BY <1>2, <1>3, <1>4 DEF SerialInv

(* A login or a refresh has read the row. *)
LEMMA ReadKeepsSerial ==
  ASSUME TypeInv, SerialInv, NEW w \in Worker, NEW r \in Request,
         r.at = "checked", r.root = era[r.sub], Continue(w, r),
         UNCHANGED <<now, row, history>>
  PROVE SerialInv'
<1>1. \A v \in Worker : req'[v] = r
  BY OnlyRequest DEF SerialInv
<1>2. ReadHolds'
  BY <1>1 DEF ReadHolds, history
<1>3. SlotInPast' /\ NoSessionOutlivesRevocation' /\ OneAtATime'
  BY DEF SerialInv, SlotInPast, NoSessionOutlivesRevocation, Session, OneAtATime, history
<1> QED
  BY <1>2, <1>3 DEF SerialInv

LEMMA IssueKeepsSerial ==
  ASSUME TypeInv, SerialInv, NEW w \in Worker, Issue(w)
  PROVE SerialInv'
<1> DEFINE r == [req[w] EXCEPT !.at = "issued", !.iat = now]
<1>1. req[w].sub \in Account /\ req[w] \in Request /\ now \in Time
  BY SubjectType DEF Issue, TypeInv, TypeOK
<1>2. r \in Request /\ r.at = "issued" /\ r.iat = now /\ r.sub = req[w].sub /\ r.root = req[w].root
  BY <1>1, IssueEdit DEF Stage, Request
<1>3. \A v \in Worker : v = w /\ req'[v] = r
  BY <1>2, OnlyRequest DEF SerialInv, Issue
<1>4. now \in Nat
  BY <1>1 DEF Time
<1>5. ReadHolds'
  <2>1. r.root = era[r.sub] /\ (row[r.sub].refresh # None => row[r.sub].refresh <= now)
    BY <1>1, <1>2 DEF ReadHolds, SerialInv, SlotInPast, Issue, Session
  <2>2. UNCHANGED <<now, row, era>>
    BY DEF Issue, history
  <2> HIDE DEF r
  <2> QED
    BY <1>2, <1>3, <1>4, <2>1, <2>2 DEF ReadHolds, Session
<1>6. SlotInPast' /\ NoSessionOutlivesRevocation' /\ OneAtATime'
  BY DEF SerialInv, SlotInPast, NoSessionOutlivesRevocation, Session, OneAtATime, Issue, history
<1> QED
  BY <1>5, <1>6 DEF SerialInv

LEMMA WriteSessionKeepsSerial ==
  ASSUME TypeInv, SerialInv, NEW w \in Worker, WriteSession(w)
  PROVE SerialInv'
<1> DEFINE a == req[w].sub
           r == [req[w] EXCEPT !.at = "stored"]
<1>1. a \in Account /\ req[w] \in Request /\ row[a] \in Row
  BY SubjectType DEF WriteSession
<1>2. r \in Request /\ r.at = "stored"
  BY <1>1, StageEdit DEF Stage, Request
<1>3. \A v \in Worker : req'[v] = r
  BY <1>2, OnlyRequest DEF SerialInv, WriteSession
<1>4. row'[a].refresh = req[w].iat /\ \A b \in Account \ {a} : row'[b] = row[b]
  BY <1>1 DEF WriteSession, StoreSession, TypeInv, TypeOK, Row
<1>5. lineage'[a] = era[a] /\ \A b \in Account \ {a} : lineage'[b] = lineage[b]
  BY <1>1 DEF WriteSession, SerialInv, ReadHolds, TypeInv, TypeOK
<1>6. ReadHolds'
  BY <1>2, <1>3 DEF ReadHolds
<1>7. SlotInPast'
  BY <1>4 DEF SerialInv, SlotInPast, ReadHolds, WriteSession, Session
<1>8. NoSessionOutlivesRevocation' /\ OneAtATime'
  BY <1>4, <1>5 DEF SerialInv, NoSessionOutlivesRevocation, Session, WriteSession, OneAtATime
<1> QED
  BY <1>6, <1>7, <1>8 DEF SerialInv

(* A confirmation has found the link it was given. *)
LEMMA ConfirmReadKeepsSerial ==
  ASSUME TypeInv, SerialInv, NEW w \in Worker, NEW link \in ResetLink,
         NEW p \in Generated, ConfirmRead(w, link, p)
  PROVE SerialInv'
<1> DEFINE r == [req[w] EXCEPT !.at = "matched", !.secret = p]
<1>1. req[w].sub \in Account /\ req[w] \in Request
  BY SubjectType DEF ConfirmRead
<1>2. r \in Request /\ r.at = "matched" /\ r.sub = req[w].sub
  BY <1>1, SecretEdit DEF Stage, Request, Password
<1>3. \A v \in Worker : v = w /\ req'[v] = r
  BY <1>2, OnlyRequest DEF SerialInv, ConfirmRead
<1>4. row[req[w].sub].link # None
  BY SecretsAssumption DEF ConfirmRead
<1>5. ReadHolds'
  BY <1>2, <1>3, <1>4 DEF ReadHolds, ConfirmRead
<1>6. SlotInPast' /\ NoSessionOutlivesRevocation' /\ OneAtATime'
  BY DEF SerialInv, SlotInPast, NoSessionOutlivesRevocation, Session, OneAtATime,
         ConfirmRead, history
<1> QED
  BY <1>5, <1>6 DEF SerialInv

LEMMA SerialNext == TypeInv /\ SerialInv /\ [Next]_vars => SerialInv'
<1> SUFFICES ASSUME TypeInv, SerialInv, [Next]_vars PROVE SerialInv'
  OBVIOUS
<1>0. now \in Time /\ now \in Nat /\ now <= now
  BY BoundsAssumption DEF TypeInv, TypeOK, Time
<1>1. CASE Tick
  <2>1. now <= now' /\ now' \in Time
    BY <1>0, <1>1, BoundsAssumption DEF Tick, Time
  <2> QED
    BY <1>1, <2>1, QuietKeeps DEF Tick, history
<1>2. ASSUME NEW a \in Account, SetStatus(a) PROVE SerialInv'
  <2>1. \A b \in Account : row'[b].refresh = row[b].refresh /\ row'[b].link = row[b].link
    BY <1>2 DEF SetStatus, TypeInv, TypeOK, Row
  <2> QED
    BY <1>0, <1>2, <2>1, QuietKeeps DEF SetStatus, history
<1>3. ASSUME NEW w \in Worker, NEW c \in Client, NEW a \in Account, NEW p \in Password,
             LoginRead(w, c, a, p)
      PROVE SerialInv'
  <2> DEFINE r == [Idle EXCEPT !.at = "checked", !.client = c, !.sub = a,
                               !.root = era[a], !.seen = era[a]]
  <2>1. era[a] \in Nat /\ "checked" \in Stage
    BY BoundsAssumption DEF TypeInv, TypeOK, Stage
  <2>2. r \in Request /\ r.at = "checked" /\ r.root = era[r.sub]
    BY <2>1, StartEdit DEF Idle
  <2> QED
    BY <1>3, <2>2, ReadKeepsSerial DEF LoginRead, Start
<1>4. ASSUME NEW w \in Worker, NEW c \in Client, NEW a \in Account, NEW iat \in Time,
             RefreshRead(w, c, a, iat)
      PROVE SerialInv'
  <2> DEFINE r == [Idle EXCEPT !.at = "checked", !.client = c, !.sub = a, !.old = iat,
                               !.root = lineage[a], !.seen = era[a]]
  <2>1. era[a] \in Nat /\ lineage[a] \in Nat /\ "checked" \in Stage
    BY BoundsAssumption DEF TypeInv, TypeOK, Stage
  <2>2. Session(a)
    BY <1>4, SecretsAssumption DEF RefreshRead, Session, Time
  <2>3. lineage[a] = era[a]
    BY <2>2 DEF SerialInv, NoSessionOutlivesRevocation
  <2>4. r \in Request
    BY <2>1, StartEdit
  <2>5. r.at = "checked" /\ r.root = era[r.sub]
    BY <2>3 DEF Idle
  <2> QED
    BY <1>4, <2>4, <2>5, ReadKeepsSerial DEF RefreshRead, Start
<1>5. ASSUME NEW w \in Worker, Issue(w) PROVE SerialInv'
  BY <1>5, IssueKeepsSerial
<1>6. ASSUME NEW w \in Worker, WriteSession(w) PROVE SerialInv'
  BY <1>6, WriteSessionKeepsSerial
<1>7. ASSUME NEW w \in Worker, Respond(w) \/ ClearCookies(w) \/ MailLink(w)
               \/ MailCredentials(w) \/ EndRequest(w)
      PROVE SerialInv'
  <2>1. \A v \in Worker : req'[v] = req[v] \/ req'[v].at \notin {"checked", "issued", "matched", "verified"}
    BY <1>7 DEF Respond, ClearCookies, MailLink, MailCredentials, EndRequest, Finish, Continue, Idle,
                TypeInv, TypeOK
  <2>2. UNCHANGED <<now, row, era, lineage>>
    BY <1>7 DEF Respond, ClearCookies, MailLink, MailCredentials, EndRequest, history
  <2> QED
    BY <1>0, <2>1, <2>2, QuietKeeps
<1>8. ASSUME NEW w \in Worker, NEW c \in Client, NEW a \in Account, NEW iat \in Time,
             NEW op \in Operation, Authorize(w, c, a, iat, op)
      PROVE SerialInv'
  <2>1. \A v \in Worker : req'[v] = req[v] \/ req'[v].at \notin {"checked", "issued", "matched", "verified"}
    BY <1>8 DEF Authorize, Start, Continue, Idle, Operation, TypeInv, TypeOK
  <2> QED
    BY <1>0, <1>8, <2>1, QuietKeeps DEF Authorize, history
<1>9. ASSUME NEW w \in Worker, NEW cur \in Password, NEW new \in Chosen,
             VerifyCurrent(w, cur, new)
      PROVE SerialInv'
  <2> DEFINE r == [req[w] EXCEPT !.at = "verified", !.secret = new]
  <2>1. req[w] \in Request
    BY <1>9, SubjectType DEF VerifyCurrent
  <2>2. r \in Request /\ r.at = "verified" /\ r.secret = new
    BY <2>1, SecretEdit DEF Stage, Request, Password
  <2>3. \A v \in Worker : req'[v] = r
    BY <1>9, <2>2, OnlyRequest DEF SerialInv, VerifyCurrent
  <2>4. ReadHolds'
    BY <2>2, <2>3 DEF ReadHolds
  <2>5. SlotInPast' /\ NoSessionOutlivesRevocation' /\ OneAtATime'
    BY <1>9 DEF SerialInv, SlotInPast, NoSessionOutlivesRevocation, Session,
                OneAtATime, VerifyCurrent, history
  <2> QED
    BY <2>4, <2>5 DEF SerialInv
<1>10. ASSUME NEW w \in Worker, NEW link \in ResetLink, WriteLink(w, link)
       PROVE SerialInv'
  <2> DEFINE a == req[w].sub
             r == [req[w] EXCEPT !.at = "linkStored", !.secret = link]
  <2>1. a \in Account /\ req[w] \in Request
    BY <1>10, SubjectType DEF WriteLink
  <2>2. r \in Request /\ r.at = "linkStored"
    BY <2>1, SecretEdit DEF Stage, Request
  <2>3. \A v \in Worker : req'[v] = r
    BY <1>10, <2>2, OnlyRequest DEF SerialInv, WriteLink
  <2>4. ReadHolds'
    BY <2>2, <2>3 DEF ReadHolds
  <2>5. \A b \in Account : row'[b].refresh = row[b].refresh
    BY <1>10, <2>1 DEF WriteLink, StoreLink, TypeInv, TypeOK, Row
  <2>6. SlotInPast' /\ NoSessionOutlivesRevocation' /\ OneAtATime'
    BY <1>10, <2>5 DEF SerialInv, SlotInPast, NoSessionOutlivesRevocation, Session,
                       OneAtATime, WriteLink, history
  <2> QED
    BY <2>4, <2>6 DEF SerialInv
<1>11. ASSUME NEW w \in Worker, NEW link \in ResetLink, NEW p \in Generated,
              ConfirmRead(w, link, p)
       PROVE SerialInv'
  BY <1>11, ConfirmReadKeepsSerial
<1>12. ASSUME NEW w \in Worker, Logout(w) PROVE SerialInv'
  <2> DEFINE q == [req[w] EXCEPT !.at = "loggedOut"]
  <2>1. req[w].sub \in Account /\ row[req[w].sub] \in Row /\ req[w] \in Request
    BY <1>12, SubjectType DEF Logout
  <2>2. ClearSession(row[req[w].sub]) \in Row /\ ClearSession(row[req[w].sub]).refresh = None
    BY <2>1, RowEdits DEF ClearSession, Row
  <2>3. q \in Request /\ q.at = "loggedOut"
    BY <2>1, StageEdit DEF Stage, Request
  <2> QED
    BY <1>12, <2>1, <2>2, <2>3, RevokeKeepsSerial DEF Logout
<1>13. ASSUME NEW w \in Worker, WriteCredentials(w) PROVE SerialInv'
  <2> DEFINE r == SetPassword(row[req[w].sub], req[w].secret)
  <2>1. req[w].sub \in Account /\ row[req[w].sub] \in Row
    BY <1>13, SubjectType DEF WriteCredentials
  <2>2. r \in Row /\ r.refresh = None
    BY <1>13, <2>1, RowEdits DEF SetPassword, Row, WriteCredentials, TypeInv, RequestOK
  <2>3. Idle \in Request /\ Idle.at \notin {"checked", "issued", "matched", "verified"}
    BY IdleRequest DEF Idle
  <2> QED
    BY <1>13, <2>1, <2>2, <2>3, RevokeKeepsSerial DEF WriteCredentials, Finish
<1>14. ASSUME NEW w \in Worker, WriteReset(w) PROVE SerialInv'
  <2> DEFINE r == Reset(row[req[w].sub], req[w].secret)
             q == [req[w] EXCEPT !.at = "confirmed"]
  <2>1. req[w].sub \in Account /\ row[req[w].sub] \in Row /\ req[w] \in Request
    BY <1>14, SubjectType DEF WriteReset
  <2>2. r \in Row /\ r.refresh = None
    BY <1>14, <2>1, RowEdits DEF Reset, Row, WriteReset, TypeInv, RequestOK, Password
  <2>3. q \in Request /\ q.at = "confirmed"
    BY <2>1, StageEdit DEF Stage, Request
  <2> QED
    BY <1>14, <2>1, <2>2, <2>3, RevokeKeepsSerial DEF WriteReset
<1>15. CASE UNCHANGED vars
  BY <1>0, <1>15, QuietKeeps DEF vars, history
<1> QED
  BY <1>1, <1>2, <1>3, <1>4, <1>5, <1>6, <1>7, <1>8, <1>9, <1>10, <1>11, <1>12,
     <1>13, <1>14, <1>15, SwitchedAccounts DEF Next

(* With one request at a time no session is alive that a login before the  *)
(* last logout, credential change or reset of its account began.           *)
THEOREM SerialRevocation == OneAtATime /\ Spec => []NoSessionOutlivesRevocation
<1>1. SerialInv => NoSessionOutlivesRevocation
  BY DEF SerialInv
<1> QED
  BY <1>1, TypeInvInit, TypeInvNext, SerialInit, SerialNext, PTL DEF Spec


-----------------------------------------------------------------------------
(* The refinement: what a step of a request is to AccountSession.          *)

LEMMA AbstractStutter ==
  ASSUME UNCHANGED <<lineage, era>>,
         \A a \in Account : /\ row'[a].refresh = row[a].refresh
                            /\ row'[a].password = row[a].password
                            /\ row'[a].link = row[a].link
  PROVE UNCHANGED Abstract!state
  BY DEF Abstract!state

LEMMA AbstractSignIn ==
  ASSUME TypeInv, SerialInv, NEW w \in Worker, WriteSession(w)
  PROVE Abstract!SignIn(req[w].sub, req[w].iat)
<1> DEFINE a == req[w].sub
<1>1. a \in Account /\ req[w].iat \in Time /\ req[w].iat # None
  BY SecretsAssumption DEF WriteSession, TypeInv, RequestOK, Time
<1>2. row'[a].refresh = req[w].iat /\ lineage'[a] = era[a]
  BY <1>1 DEF WriteSession, StoreSession, SerialInv, ReadHolds, TypeInv, TypeOK, Row
<1>3. \A b \in Account : /\ row'[b].password = row[b].password
                         /\ row'[b].link = row[b].link
                         /\ b # a => row'[b] = row[b] /\ lineage'[b] = lineage[b]
  BY <1>1 DEF WriteSession, StoreSession, TypeInv, TypeOK, Row
<1>4. era' = era
  BY DEF WriteSession
<1>5. row[a].refresh # None => row[a].refresh <= req[w].iat
  BY DEF WriteSession, SerialInv, ReadHolds, Session
<1> QED
  BY <1>1, <1>2, <1>3, <1>4, <1>5 DEF Abstract!SignIn, Abstract!Later

(* A row update that empties the slot of an account, as AccountSession     *)
(* sees it.                                                                *)
LEMMA AbstractEnd ==
  ASSUME TypeInv, NEW a \in Account, NEW r \in Row, r.refresh = None,
         row' = [row EXCEPT ![a] = r], Revoke(a), UNCHANGED lineage
  PROVE Abstract!EndSession(a)
  BY DEF Abstract!EndSession, Revoke, TypeInv, TypeOK

(* With one request at a time the services implement AccountSession: each  *)
(* update of a row is one of its operations and every other step is none.  *)
LEMMA AbstractStep == TypeInv /\ SerialInv /\ [Next]_vars => [Abstract!Next]_(Abstract!state)
<1> SUFFICES ASSUME TypeInv, SerialInv, [Next]_vars, ~UNCHANGED Abstract!state
             PROVE Abstract!Next
  OBVIOUS
<1>1. ASSUME UNCHANGED <<row, lineage, era>> PROVE FALSE
  BY <1>1, AbstractStutter
<1>2. ASSUME NEW a \in Account, SetStatus(a) PROVE FALSE
  BY <1>2, AbstractStutter DEF SetStatus, TypeInv, TypeOK, Row, history
<1>3. ASSUME NEW w \in Worker, WriteSession(w) PROVE Abstract!Next
  <2>1. req[w].sub \in Account /\ req[w].iat \in Time
    BY <1>3 DEF WriteSession, TypeInv, RequestOK
  <2> QED
    BY <1>3, <2>1, AbstractSignIn DEF Abstract!Next, Abstract!SignIn
<1>4. ASSUME NEW w \in Worker, Logout(w) PROVE Abstract!Next
  <2> DEFINE a == req[w].sub
             r == ClearSession(row[a])
  <2>1. a \in Account /\ row[a] \in Row
    BY <1>4, SubjectType DEF Logout
  <2>2. r \in Row /\ r.refresh = None /\ r.password = row[a].password /\ r.link = row[a].link
    BY <2>1, RowEdits DEF ClearSession, Row
  <2>3. row' = [row EXCEPT ![a] = r] /\ Revoke(a) /\ UNCHANGED lineage
    BY <1>4 DEF Logout
  <2>4. Abstract!EndSession(a)
    BY <2>1, <2>2, <2>3, AbstractEnd DEF Abstract!EndSession
  <2>5. Abstract!SignOut(a)
    BY <2>1, <2>2, <2>3, <2>4 DEF Abstract!SignOut, TypeInv, TypeOK
  <2> QED
    BY <2>1, <2>5 DEF Abstract!Next, Abstract!SignOut, Abstract!EndSession
<1>5. ASSUME NEW w \in Worker, WriteCredentials(w) PROVE Abstract!Next
  <2> DEFINE a == req[w].sub
             p == req[w].secret
             r == SetPassword(row[a], p)
  <2>1. a \in Account /\ row[a] \in Row /\ p \in Chosen
    BY <1>5, SubjectType DEF WriteCredentials, SerialInv, ReadHolds
  <2>2. r \in Row /\ r.refresh = None /\ r.password = p /\ r.link = row[a].link
    BY <2>1, RowEdits DEF SetPassword, Row, Password
  <2>3. row' = [row EXCEPT ![a] = r] /\ Revoke(a) /\ UNCHANGED lineage
    BY <1>5 DEF WriteCredentials
  <2>4. Abstract!EndSession(a)
    BY <2>1, <2>2, <2>3, AbstractEnd DEF Abstract!EndSession
  <2>5. Abstract!ChangePassword(a, p)
    BY <2>1, <2>2, <2>3, <2>4 DEF Abstract!ChangePassword, TypeInv, TypeOK
  <2> QED
    BY <2>1, <2>5 DEF Abstract!Next, Abstract!ChangePassword, Abstract!EndSession
<1>6. ASSUME NEW w \in Worker, NEW link \in ResetLink, WriteLink(w, link) PROVE Abstract!Next
  <2> DEFINE a == req[w].sub
  <2>1. a \in Account /\ row[a] \in Row
    BY <1>6, SubjectType DEF WriteLink
  <2>2. \A b \in Account : /\ row'[b].refresh = row[b].refresh
                           /\ row'[b].password = row[b].password
                           /\ row'[b].link = IF b = a THEN link ELSE row[b].link
    BY <1>6, <2>1 DEF WriteLink, StoreLink, TypeInv, TypeOK, Row
  <2>3. UNCHANGED <<lineage, era>>
    BY <1>6 DEF WriteLink, history
  <2>4. link # row[a].link
    BY <2>1, <2>2, <2>3, AbstractStutter
  <2>5. Abstract!RequestLink(a, link)
    BY <2>1, <2>2, <2>3, <2>4 DEF Abstract!RequestLink
  <2> QED
    BY <2>1, <2>5 DEF Abstract!Next, Abstract!RequestLink
<1>7. ASSUME NEW w \in Worker, WriteReset(w) PROVE Abstract!Next
  <2> DEFINE a == req[w].sub
             p == req[w].secret
             r == Reset(row[a], p)
  <2>1. a \in Account /\ row[a] \in Row /\ p \in Generated
    BY <1>7, SubjectType DEF WriteReset, TypeInv, RequestOK
  <2>2. r \in Row /\ r.refresh = None /\ r.password = p /\ r.link = None
    BY <2>1, RowEdits DEF Reset, Row, Password
  <2>3. row' = [row EXCEPT ![a] = r] /\ Revoke(a) /\ UNCHANGED lineage
    BY <1>7 DEF WriteReset
  <2>4. Abstract!EndSession(a)
    BY <2>1, <2>2, <2>3, AbstractEnd DEF Abstract!EndSession
  <2>5. row[a].link # None
    BY <1>7 DEF WriteReset, SerialInv, ReadHolds
  <2>6. Abstract!ResetPassword(a, p)
    BY <2>1, <2>2, <2>3, <2>4, <2>5 DEF Abstract!ResetPassword, TypeInv, TypeOK
  <2> QED
    BY <2>1, <2>6 DEF Abstract!Next, Abstract!ResetPassword, Abstract!EndSession
<1>8. ASSUME NEW w \in Worker,
             \/ \E c \in Client, a \in Account, p \in Password : LoginRead(w, c, a, p)
             \/ \E c \in Client, a \in Account, iat \in Time : RefreshRead(w, c, a, iat)
             \/ Issue(w) \/ Respond(w)
             \/ \E c \in Client, a \in Account, iat \in Time, op \in Operation :
                  Authorize(w, c, a, iat, op)
      PROVE FALSE
  BY <1>1, <1>8 DEF LoginRead, RefreshRead, Issue, Respond, Authorize, history
<1>9. ASSUME NEW w \in Worker,
             \/ ClearCookies(w)
             \/ \E cur \in Password, new \in Chosen : VerifyCurrent(w, cur, new)
             \/ MailLink(w)
             \/ \E link \in ResetLink, p \in Generated : ConfirmRead(w, link, p)
             \/ MailCredentials(w) \/ EndRequest(w)
      PROVE FALSE
  BY <1>1, <1>9 DEF ClearCookies, VerifyCurrent, MailLink, ConfirmRead, MailCredentials,
                    EndRequest, history
<1>10. CASE Tick \/ UNCHANGED vars
  BY <1>1, <1>10 DEF Tick, vars, history
<1> QED
  BY <1>2, <1>3, <1>4, <1>5, <1>6, <1>7, <1>8, <1>9, <1>10, SwitchedAccounts DEF Next

LEMMA AbstractInit == Init => Abstract!Init
  BY DEF Init, Abstract!Init

(* One request at a time, every behaviour of the services is a behaviour   *)
(* of AccountSession.                                                      *)
THEOREM SerialRefinement == OneAtATime /\ Spec => ImplementsAccountSession
  BY AbstractInit, AbstractStep, TypeInvInit, TypeInvNext, SerialInit, SerialNext,
     PTL DEF Spec, ImplementsAccountSession, Abstract!Spec

-----------------------------------------------------------------------------
(* The rotation: a token in the slot, or on its way there, is younger than *)
(* every token its account has given up.                                   *)

RotationInv ==
  /\ RotatedTokenStaysDead
  /\ \A t \in retired : t.iat < now
  /\ \A w \in Worker :
       req[w].at \in {"checked", "issued"} => req[w].old \in {None, row[req[w].sub].refresh}
  /\ \A w \in Worker, t \in retired :
       req[w].at = "issued" /\ t.sub = req[w].sub => t.iat < req[w].iat

LEMMA RotationInit == Init => RotationInv
  BY DEF Init, RotationInv, RotatedTokenStaysDead, Idle

(* A step that gives up no token, and fills no slot. *)
LEMMA RotationKept ==
  ASSUME TypeInv, RotationInv, retired' = retired, now <= now', now' \in Time,
         \A a \in Account : row'[a].refresh \in {row[a].refresh, None},
         \A w \in Worker : req'[w].at \in {"checked", "issued"} =>
           /\ req'[w] = req[w]
           /\ row'[req[w].sub].refresh = row[req[w].sub].refresh
  PROVE RotationInv'
<1>1. RotatedTokenStaysDead'
  BY DEF RotationInv, RotatedTokenStaysDead, Session
<1>2. ASSUME NEW t \in retired' PROVE t.iat < now'
  <2>1. t.iat \in Nat /\ now \in Nat /\ now' \in Nat /\ t.iat < now
    BY <1>2, BoundsAssumption DEF RotationInv, TypeInv, TypeOK, Token, Time
  <2> QED BY <2>1
<1>3. \A w \in Worker : req'[w].at \in {"checked", "issued"} =>
        req'[w].old \in {None, row'[req'[w].sub].refresh}
  BY DEF RotationInv
<1>4. \A w \in Worker, t \in retired' :
        req'[w].at = "issued" /\ t.sub = req'[w].sub => t.iat < req'[w].iat
  BY DEF RotationInv
<1> QED BY <1>1, <1>2, <1>3, <1>4 DEF RotationInv

(* A login or a refresh has read the row. *)
LEMMA RotationRead ==
  ASSUME TypeInv, SerialInv, RotationInv, NEW w \in Worker, NEW r \in Request,
         r.at = "checked", r.old \in {None, row[r.sub].refresh}, Continue(w, r),
         UNCHANGED <<now, row, history>>
  PROVE RotationInv'
<1>1. \A v \in Worker : req'[v] = r
  BY OnlyRequest DEF SerialInv
<1> QED
  BY <1>1 DEF RotationInv, RotatedTokenStaysDead, Session, history

LEMMA RotationIssue ==
  ASSUME TypeInv, SerialInv, RotationInv, NEW w \in Worker, Issue(w)
  PROVE RotationInv'
<1> DEFINE r == [req[w] EXCEPT !.at = "issued", !.iat = now]
<1>1. req[w] \in Request /\ now \in Time
  BY SubjectType DEF Issue, TypeInv, TypeOK
<1>2. /\ r \in Request /\ r.at = "issued" /\ r.iat = now
      /\ r.sub = req[w].sub /\ r.old = req[w].old
  BY <1>1, IssueEdit DEF Stage, Request
<1>3. \A v \in Worker : req'[v] = r
  BY <1>2, OnlyRequest DEF SerialInv, Issue
<1>4. UNCHANGED <<now, row, retired>> /\ req[w].at = "checked"
  BY DEF Issue, history
<1> HIDE DEF r
<1> QED
  BY <1>2, <1>3, <1>4 DEF RotationInv, RotatedTokenStaysDead, Session

LEMMA RotationWrite ==
  ASSUME TypeInv, SerialInv, RotationInv, NEW w \in Worker, WriteSession(w)
  PROVE RotationInv'
<1> DEFINE a == req[w].sub
           new == req[w].iat
           old == req[w].old
           r == [req[w] EXCEPT !.at = "stored"]
<1>1. a \in Account /\ req[w] \in Request /\ row[a] \in Row /\ new \in Time /\ now \in Time
  BY SubjectType DEF WriteSession, TypeInv, TypeOK, RequestOK
<1>2. new \in Nat /\ now \in Nat /\ new <= now /\ new # None
  BY <1>1, SecretsAssumption DEF Time, SerialInv, ReadHolds, WriteSession
<1>3. row'[a].refresh = new /\ \A b \in Account \ {a} : row'[b] = row[b]
  BY <1>1 DEF WriteSession, StoreSession, TypeInv, TypeOK, Row
<1>4. ASSUME old \notin {None, new}
      PROVE old \in Nat /\ old < new
  <2>1. old = row[a].refresh /\ Session(a)
    BY <1>4 DEF RotationInv, WriteSession, Session
  <2>2. old \in Time
    BY <1>1, <1>4 DEF Request
  <2>3. row[a].refresh <= new
    BY <2>1 DEF SerialInv, ReadHolds, WriteSession
  <2>4. old \in Nat
    BY <2>2 DEF Time
  <2> QED
    BY <1>2, <1>4, <2>1, <2>3, <2>4
<1>5. retired' = IF old \notin {None, new} THEN retired \cup {[sub |-> a, iat |-> old]} ELSE retired
  BY DEF WriteSession
<1>6. \A t \in retired : t.sub = a => t.iat < new
  BY DEF RotationInv, WriteSession
<1>7. \A t \in retired : t.iat < now
  BY DEF RotationInv
<1>8. now' = now
  BY DEF WriteSession
<1>9. \A t \in retired' : t.iat < now'
  BY <1>2, <1>4, <1>5, <1>7, <1>8
<1>10. RotatedTokenStaysDead'
  <2>1. [sub |-> a, iat |-> new] \notin retired'
    <3>1. [sub |-> a, iat |-> new] \notin retired
      BY <1>2, <1>6
    <3> QED BY <1>4, <1>5, <3>1
  <2>2. ASSUME NEW b \in Account, b # a, row'[b].refresh # None
        PROVE [sub |-> b, iat |-> row'[b].refresh] \notin retired'
    BY <1>3, <1>5, <2>2 DEF RotationInv, RotatedTokenStaysDead, Session
  <2> QED BY <1>3, <2>1, <2>2 DEF RotatedTokenStaysDead, Session
<1>11. r \in Request /\ r.at = "stored"
  BY <1>1, StageEdit DEF Stage, Request
<1>12. \A v \in Worker : req'[v] = r
  BY <1>11, OnlyRequest DEF SerialInv, WriteSession
<1> HIDE DEF r
<1> QED BY <1>9, <1>10, <1>11, <1>12 DEF RotationInv

(* A revocation, or any step of a request past its read. *)
LEMMA RotationEnds ==
  ASSUME TypeInv, SerialInv, RotationInv, NEW w \in Worker, NEW r \in Request,
         r.at \notin {"checked", "issued"}, Continue(w, r), UNCHANGED <<now, retired>>,
         \A a \in Account : row'[a].refresh \in {row[a].refresh, None}
  PROVE RotationInv'
<1>1. \A v \in Worker : req'[v] = r
  BY OnlyRequest DEF SerialInv
<1>2. now <= now' /\ now' \in Time
  BY BoundsAssumption DEF TypeInv, TypeOK, Time
<1> QED BY <1>1, <1>2, RotationKept

LEMMA RotationNext == TypeInv /\ SerialInv /\ RotationInv /\ [Next]_vars => RotationInv'
<1> SUFFICES ASSUME TypeInv, SerialInv, RotationInv, [Next]_vars PROVE RotationInv'
  OBVIOUS
<1>0. /\ now \in Time /\ now \in Nat /\ now <= now
      /\ row \in [Account -> Row] /\ req \in [Worker -> Request]
  BY BoundsAssumption DEF TypeInv, TypeOK, Time
<1>1. CASE Tick
  <2>1. now <= now' /\ now' \in Time
    BY <1>0, <1>1, BoundsAssumption DEF Tick, Time
  <2> QED BY <1>1, <2>1, RotationKept DEF Tick, history
<1>2. ASSUME NEW a \in Account, SetStatus(a) PROVE RotationInv'
  <2>1. \A b \in Account : row'[b].refresh = row[b].refresh
    BY <1>0, <1>2 DEF SetStatus, Row
  <2>2. UNCHANGED <<now, req, retired>>
    BY <1>2 DEF SetStatus, history
  <2>3. \A w \in Worker : req[w].at \in {"checked", "issued"} => req[w].sub \in Account
    BY DEF TypeInv, RequestOK
  <2> QED BY <1>0, <2>1, <2>2, <2>3, RotationKept
<1>3. ASSUME NEW w \in Worker, NEW c \in Client, NEW a \in Account, NEW p \in Password,
             LoginRead(w, c, a, p)
      PROVE RotationInv'
  <2> DEFINE r == [Idle EXCEPT !.at = "checked", !.client = c, !.sub = a,
                               !.root = era[a], !.seen = era[a]]
  <2>1. era[a] \in Nat /\ "checked" \in Stage
    BY BoundsAssumption DEF TypeInv, TypeOK, Stage
  <2>2. r \in Request /\ r.at = "checked" /\ r.old = None
    BY <2>1, StartEdit DEF Idle
  <2> QED BY <1>3, <2>2, RotationRead DEF LoginRead, Start
<1>4. ASSUME NEW w \in Worker, NEW c \in Client, NEW a \in Account, NEW iat \in Time,
             RefreshRead(w, c, a, iat)
      PROVE RotationInv'
  <2> DEFINE r == [Idle EXCEPT !.at = "checked", !.client = c, !.sub = a, !.old = iat,
                               !.root = lineage[a], !.seen = era[a]]
  <2>1. era[a] \in Nat /\ lineage[a] \in Nat /\ "checked" \in Stage
    BY BoundsAssumption DEF TypeInv, TypeOK, Stage
  <2>2. r \in Request
    BY <2>1, StartEdit
  <2>4. r.at = "checked" /\ r.old = iat /\ r.sub = a
    BY DEF Idle
  <2>3. row[a].refresh = iat
    BY <1>4 DEF RefreshRead
  <2>5. Continue(w, r) /\ UNCHANGED <<now, row, history>>
    BY <1>4 DEF RefreshRead, Start
  <2> HIDE DEF r
  <2> QED BY <2>2, <2>3, <2>4, <2>5, RotationRead
<1>5. ASSUME NEW w \in Worker, Issue(w) PROVE RotationInv'
  BY <1>5, RotationIssue
<1>6. ASSUME NEW w \in Worker, WriteSession(w) PROVE RotationInv'
  BY <1>6, RotationWrite
<1>7. ASSUME NEW w \in Worker, Respond(w) \/ ClearCookies(w) \/ MailLink(w)
               \/ MailCredentials(w) \/ EndRequest(w)
      PROVE RotationInv'
  <2>1. Idle \in Request /\ Idle.at \notin {"checked", "issued"}
    BY IdleRequest DEF Idle
  <2>2. Continue(w, Idle) /\ UNCHANGED <<now, row, retired>>
    BY <1>7 DEF Respond, ClearCookies, MailLink, MailCredentials, EndRequest, Finish, history
  <2> QED BY <2>1, <2>2, RotationEnds
<1>8. ASSUME NEW w \in Worker, NEW c \in Client, NEW a \in Account, NEW iat \in Time,
             NEW op \in Operation, Authorize(w, c, a, iat, op)
      PROVE RotationInv'
  <2> DEFINE d == IF op = "logout" THEN c ELSE None
             r == [Idle EXCEPT !.at = op, !.sub = a, !.client = d]
  <2>1. op \in Stage /\ d \in Client \cup {None} /\ 0 \in Nat /\ None \in Time \cup {None}
    BY DEF Stage
  <2>2. r \in Request
    BY <2>1, StartEdit
  <2>3. r.at = op /\ op \notin {"checked", "issued"}
    BY DEF Operation, Idle
  <2> QED BY <1>8, <2>2, <2>3, RotationEnds DEF Authorize, Start, history
<1>9. ASSUME NEW w \in Worker, NEW cur \in Password, NEW new \in Chosen,
             VerifyCurrent(w, cur, new)
      PROVE RotationInv'
  <2> DEFINE r == [req[w] EXCEPT !.at = "verified", !.secret = new]
  <2>1. r \in Request /\ r.at = "verified"
    <3>1. req[w] \in Request /\ "verified" \in Stage /\ new \in Password
      BY <1>0 DEF Stage, Password
    <3> QED BY <3>1, SecretEdit DEF Request
  <2> QED BY <1>9, <2>1, RotationEnds DEF VerifyCurrent, history
<1>10. ASSUME NEW w \in Worker, NEW link \in ResetLink, WriteLink(w, link)
       PROVE RotationInv'
  <2> DEFINE r == [req[w] EXCEPT !.at = "linkStored", !.secret = link]
  <2>1. req[w].sub \in Account /\ r \in Request /\ r.at = "linkStored"
    <3>1. req[w].sub \in Account /\ req[w] \in Request /\ "linkStored" \in Stage
      BY <1>10, SubjectType DEF WriteLink, Stage
    <3>2. r \in Request
      BY <3>1, SecretEdit
    <3> QED BY <3>1, <3>2 DEF Request
  <2>2. \A b \in Account : row'[b].refresh = row[b].refresh
    BY <1>0, <1>10, <2>1 DEF WriteLink, StoreLink, Row
  <2> QED BY <1>10, <2>1, <2>2, RotationEnds DEF WriteLink, history
<1>11. ASSUME NEW w \in Worker, NEW link \in ResetLink, NEW p \in Generated,
              ConfirmRead(w, link, p)
       PROVE RotationInv'
  <2> DEFINE r == [req[w] EXCEPT !.at = "matched", !.secret = p]
  <2>1. r \in Request /\ r.at = "matched"
    <3>1. req[w] \in Request /\ "matched" \in Stage /\ p \in Password
      BY <1>0 DEF Stage, Password
    <3> QED BY <3>1, SecretEdit DEF Request
  <2> QED BY <1>11, <2>1, RotationEnds DEF ConfirmRead, history
<1>12. ASSUME NEW w \in Worker, Logout(w) \/ WriteCredentials(w) \/ WriteReset(w)
       PROVE RotationInv'
  <2> DEFINE q == [req[w] EXCEPT !.at = "confirmed"]
             l == [req[w] EXCEPT !.at = "loggedOut"]
  <2>1. req[w].sub \in Account /\ UNCHANGED <<now, retired>>
    BY <1>12, SubjectType DEF Logout, WriteCredentials, WriteReset
  <2>2. \A a \in Account : row'[a].refresh \in {row[a].refresh, None}
    <3>1. CASE Logout(w)
      BY <1>0, <2>1, <3>1 DEF Logout, ClearSession, Row
    <3>2. CASE WriteCredentials(w)
      BY <1>0, <2>1, <3>2 DEF WriteCredentials, SetPassword, Row
    <3>3. CASE WriteReset(w)
      BY <1>0, <2>1, <3>3 DEF WriteReset, Reset, Row
    <3> QED BY <1>12, <3>1, <3>2, <3>3
  <2>3. /\ Idle \in Request /\ Idle.at \notin {"checked", "issued"}
        /\ q \in Request /\ q.at \notin {"checked", "issued"}
        /\ l \in Request /\ l.at \notin {"checked", "issued"}
    BY <1>0, IdleRequest, StageEdit DEF Idle, Stage, Request
  <2>4. Continue(w, Idle) \/ Continue(w, q) \/ Continue(w, l)
    BY <1>12 DEF Logout, WriteCredentials, WriteReset, Finish
  <2> QED BY <2>1, <2>2, <2>3, <2>4, RotationEnds
<1>13. CASE UNCHANGED vars
  BY <1>0, <1>13, RotationKept DEF vars, history
<1> QED
  BY <1>1, <1>2, <1>3, <1>4, <1>5, <1>6, <1>7, <1>8, <1>9, <1>10, <1>11, <1>12, <1>13,
     SwitchedAccounts DEF Next

(* With one request at a time a refresh token that was rotated away is     *)
(* never accepted again, whatever tokens are issued in one second.         *)
THEOREM SerialRotation == OneAtATime /\ Spec => []RotatedTokenStaysDead
<1>1. RotationInv => RotatedTokenStaysDead
  BY DEF RotationInv
<1> QED
  BY <1>1, TypeInvInit, TypeInvNext, SerialInit, SerialNext, RotationInit, RotationNext,
     PTL DEF Spec
=============================================================================
