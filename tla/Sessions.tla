------------------------------ MODULE Sessions ------------------------------
(***************************************************************************)
(* Sessions, credentials and password reset of a ROOT or USER account      *)
(* (RootAuthService and UserAuthService, which share this control flow).   *)
(*                                                                         *)
(* A request is a sequence of database steps separated by awaits, so the   *)
(* requests of one account interleave.  Every account row has a single     *)
(* refresh-token slot; a token is the string signed from (sub, iat) with   *)
(* iat in whole seconds, so two tokens issued to one account in the same   *)
(* second are the same token.  A request that is rejected, that fails at   *)
(* an await or that dies with its process takes EndRequest.                *)
(*                                                                         *)
(* A client (a browser, a device) holds one refresh token at a time, the   *)
(* cookie of the last answer it got; it may still send an earlier one in a *)
(* request that was under way, or as a bearer.                             *)
(***************************************************************************)
EXTENDS Naturals, FiniteSets

CONSTANTS
  Account,       \* the ROOT and USER rows
  Client,        \* the browsers and devices that log in
  Switched,      \* bound: the accounts whose status changes while a run lasts
  Worker,        \* slots for requests in flight: their number bounds the concurrency
  Chosen,        \* passwords an owner may type
  Generated,     \* passwords generateRandomPassword may return, each once
  ResetLink,     \* raw reset tokens randomBytes may return, each once
  Initial,       \* the password of a seeded row
  None,          \* SQL NULL
  MaxTime,       \* bound: last second of the clock
  MaxEra,        \* bound: revocations of one account
  AccessLife,    \* '1h', in ticks
  RefreshLife,   \* '30d', in ticks
  ResetLife      \* 3 * 60 * 1000 ms, in ticks

Password == Chosen \cup Generated
Time == 0 .. MaxTime

ASSUME BoundsAssumption == /\ MaxTime \in Nat
                           /\ MaxEra \in Nat
                           /\ {AccessLife, RefreshLife, ResetLife} \subseteq Nat
                           /\ Switched \subseteq Account
ASSUME SecretsAssumption == /\ Initial \in Chosen
                            /\ Chosen \cap Generated = {}
                            /\ None \notin Nat \cup Password \cup ResetLink \cup Client

VARIABLES
  now,      \* the wall clock
  row,      \* the account rows of the database
  req,      \* the requests in flight
  held,     \* the tokens clients received: [sub, iat]
  cookie,   \* the refresh token each client has now
  known,    \* the passwords the owner of an account has typed or been mailed
  mailed,   \* the reset links that reached their owner
  used,     \* the generated passwords and links drawn so far
  \* History of what happened, read by no action's guard except the MaxEra bound.
  era,      \* how often the sessions of an account were revoked
  lineage,  \* the era in which the login behind the slot's token read the row
  crossed,  \* the revocations that a session write overtook
  credEra,  \* the era opened by the last updateCredentials
  spent,    \* the reset links a confirmation has consumed
  retired,  \* the tokens a refresh replaced by a different one
  lost      \* the generated passwords whose mail failed

history == <<era, lineage, crossed, credEra, spent, retired, lost>>
vars == <<now, row, req, held, cookie, known, mailed, used, history>>

Row == [password : Password, refresh : Time \cup {None},
        link : ResetLink \cup {None}, expires : 0 .. MaxTime + ResetLife,
        active : BOOLEAN]
Operation == {"logout", "requestPasswordReset", "confirmPasswordReset",
              "updateCredentials"}
Stage == Operation \cup {"idle", "checked", "issued", "stored", "loggedOut", "linkStored",
                         "matched", "confirmed", "verified"}
Request == [at : Stage, client : Client \cup {None}, sub : Account \cup {None}, iat : Time \cup {None},
            old : Time \cup {None}, root : Nat, seen : Nat,
            secret : Password \cup ResetLink \cup {None}]
Token == [sub : Account, iat : Time]

Idle == [at |-> "idle", client |-> None, sub |-> None, iat |-> None, old |-> None, root |-> 0,
         seen |-> 0, secret |-> None]

-----------------------------------------------------------------------------
(* The updates the services send to the database.  An operator marked      *)
(* VARIANT is a plausible slip of the one below it, used to see that the    *)
(* properties notice it; no action refers to it.                           *)

\* VARIANT
StoreFirstSession(r, iat) == IF r.refresh = None THEN [r EXCEPT !.refresh = iat] ELSE r
\* VARIANT
StoreResigned(r, iat) == [r EXCEPT !.refresh = now]
\* refresh tokens live in one slot per row
StoreSession(r, iat) == [r EXCEPT !.refresh = iat]

\* VARIANT
ClearCookiesOnly(r) == r
\* VARIANT
ClearEverything(r) == [r EXCEPT !.refresh = None, !.link = None, !.expires = 0]
ClearSession(r) == [r EXCEPT !.refresh = None]

\* VARIANT
SetPasswordOnly(r, p) == [r EXCEPT !.password = p]
SetPassword(r, p) == [r EXCEPT !.password = p, !.refresh = None]

\* VARIANT
StoreLinkInSeconds(r, link, t) ==
  [r EXCEPT !.link = link, !.expires = t + 60 * ResetLife]
StoreLink(r, link, t) == [r EXCEPT !.link = link, !.expires = t + ResetLife]

\* VARIANT
ResetAndKeepLink(r, p) == [r EXCEPT !.password = p, !.refresh = None]
Reset(r, p) == [r EXCEPT !.password = p, !.refresh = None, !.link = None,
                         !.expires = 0]

\* what the owner knows once a credentials mail went out
\* VARIANT
NotMailed(k, p) == k
Mailed(k, p) == k \cup {p}

\* verifyJwt and the JwtStrategy accept a token strictly before exp
Fresh(iat, life) == now < iat + life

Continue(w, r) == req' = [req EXCEPT ![w] = r]
Start(w, r) == req[w] = Idle /\ Continue(w, r)
Finish(w) == Continue(w, Idle)

\* The bookkeeping of an update that sets refreshToken to null.
Revoke(a) == /\ era[a] < MaxEra
             /\ era' = [era EXCEPT ![a] = @ + 1]

Init ==
  /\ now = 0
  /\ row = [a \in Account |-> [password |-> Initial, refresh |-> None,
                               link |-> None, expires |-> 0, active |-> TRUE]]
  /\ req = [w \in Worker |-> Idle]
  /\ held = {} /\ mailed = {} /\ used = {}
  /\ cookie = [c \in Client |-> None]
  /\ known = [a \in Account |-> {Initial}]
  /\ era = [a \in Account |-> 0]
  /\ lineage = [a \in Account |-> 0]
  /\ crossed = [a \in Account |-> {}]
  /\ credEra = [a \in Account |-> 0]
  /\ spent = {} /\ retired = {} /\ lost = {}

-----------------------------------------------------------------------------
(* login: read the row and check it, generate tokens, store, respond. *)

LoginRead(w, c, a, p) ==
  /\ row[a].active
  /\ p \in known[a] /\ p = row[a].password
  /\ Start(w, [Idle EXCEPT !.at = "checked", !.client = c, !.sub = a,
                           !.root = era[a], !.seen = era[a]])
  /\ UNCHANGED <<now, row, held, cookie, known, mailed, used, history>>

(* refreshToken: the presented token must be the one in the slot.  Neither *)
(* status nor deletedAt is read here; a null slot makes decryptPassword    *)
(* throw, which EndRequest covers.                                         *)
RefreshRead(w, c, a, iat) ==
  /\ [sub |-> a, iat |-> iat] \in held
  /\ Fresh(iat, RefreshLife)
  /\ row[a].refresh = iat
  /\ Start(w, [Idle EXCEPT !.at = "checked", !.client = c, !.sub = a, !.old = iat,
                           !.root = lineage[a], !.seen = era[a]])
  /\ UNCHANGED <<now, row, held, cookie, known, mailed, used, history>>

\* generateTokens signs the current second into the token
Issue(w) ==
  /\ req[w].at = "checked"
  /\ Continue(w, [req[w] EXCEPT !.at = "issued", !.iat = now])
  /\ UNCHANGED <<now, row, held, cookie, known, mailed, used, history>>

WriteSession(w) ==
  LET r == req[w]
      a == r.sub
  IN /\ r.at = "issued"
     /\ row' = [row EXCEPT ![a] = StoreSession(@, r.iat)]
     /\ lineage' = [lineage EXCEPT ![a] = r.root]
     /\ crossed' = [crossed EXCEPT ![a] = @ \cup (r.seen + 1 .. era[a])]
     /\ retired' = IF r.old \notin {None, r.iat}
                   THEN retired \cup {[sub |-> a, iat |-> r.old]}
                   ELSE retired
     /\ Continue(w, [r EXCEPT !.at = "stored"])
     /\ UNCHANGED <<now, held, cookie, known, mailed, used, era, credEra, spent, lost>>

\* setAuthCookies: the client forgets the token it had before
Respond(w) ==
  LET token == [sub |-> req[w].sub, iat |-> req[w].iat]
  IN /\ req[w].at = "stored"
     /\ held' = held \cup {token}
     /\ cookie' = [cookie EXCEPT ![req[w].client] = token]
     /\ Finish(w)
     /\ UNCHANGED <<now, row, known, mailed, used, history>>

-----------------------------------------------------------------------------
(* JwtAuthGuard and IdentityProvider: an unexpired token of a row that is  *)
(* ACTIVE now.  Both tokens are signed alike, so the strategy takes the    *)
(* refresh token for a bearer as well.  The handler runs after it, in      *)
(* steps of its own; of these only a logout answers with cookies.          *)

Authorize(w, c, a, iat, op) ==
  /\ [sub |-> a, iat |-> iat] \in held
  /\ Fresh(iat, AccessLife) \/ Fresh(iat, RefreshLife)
  /\ row[a].active
  /\ Start(w, [Idle EXCEPT !.at = op, !.sub = a,
                           !.client = IF op = "logout" THEN c ELSE None])
  /\ UNCHANGED <<now, row, held, cookie, known, mailed, used, history>>

Logout(w) ==
  LET a == req[w].sub
  IN /\ req[w].at = "logout"
     /\ row' = [row EXCEPT ![a] = ClearSession(@)]
     /\ Revoke(a)
     /\ Continue(w, [req[w] EXCEPT !.at = "loggedOut"])
     /\ UNCHANGED <<now, held, cookie, known, mailed, used, lineage, crossed, credEra,
                    spent, retired, lost>>

\* clearAuthCookies comes before the service: an error's answer carries it too
ClearCookies(w) ==
  /\ req[w].at \in {"logout", "loggedOut"}
  /\ cookie' = [cookie EXCEPT ![req[w].client] = None]
  /\ Finish(w)
  /\ UNCHANGED <<now, row, held, known, mailed, used, history>>

VerifyCurrent(w, cur, new) ==
  LET a == req[w].sub
  IN /\ req[w].at = "updateCredentials"
     /\ cur \in known[a] /\ cur = row[a].password
     /\ known' = [known EXCEPT ![a] = @ \cup {new}]
     /\ Continue(w, [req[w] EXCEPT !.at = "verified", !.secret = new])
     /\ UNCHANGED <<now, row, held, cookie, mailed, used, history>>

WriteCredentials(w) ==
  LET a == req[w].sub
  IN /\ req[w].at = "verified"
     /\ row' = [row EXCEPT ![a] = SetPassword(@, req[w].secret)]
     /\ Revoke(a)
     /\ credEra' = [credEra EXCEPT ![a] = era[a] + 1]
     /\ Finish(w)
     /\ UNCHANGED <<now, held, cookie, known, mailed, used, lineage, crossed, spent,
                    retired, lost>>

(* requestPasswordReset: the link is stored first, then mailed.  The row is *)
(* looked up by id and again by email, which names the same row: one read.  *)
WriteLink(w, link) ==
  LET a == req[w].sub
  IN /\ req[w].at = "requestPasswordReset"
     /\ link \notin used
     /\ used' = used \cup {link}
     /\ row' = [row EXCEPT ![a] = StoreLink(@, link, now)]
     /\ Continue(w, [req[w] EXCEPT !.at = "linkStored", !.secret = link])
     /\ UNCHANGED <<now, held, cookie, known, mailed, history>>

MailLink(w) ==
  /\ req[w].at = "linkStored"
  /\ mailed' = mailed \cup {req[w].secret}
  /\ Finish(w)
  /\ UNCHANGED <<now, row, held, cookie, known, used, history>>

(* confirmPasswordReset: look the link up, write the new credentials and   *)
(* clear link and session, then mail the password.                         *)
ConfirmRead(w, link, p) ==
  LET a == req[w].sub
  IN /\ req[w].at = "confirmPasswordReset"
     /\ link \in mailed /\ row[a].link = link
     /\ now < row[a].expires
     /\ p \notin used
     /\ used' = used \cup {p}
     /\ Continue(w, [req[w] EXCEPT !.at = "matched", !.secret = p])
     /\ UNCHANGED <<now, row, held, cookie, known, mailed, history>>

WriteReset(w) ==
  LET a == req[w].sub
  IN /\ req[w].at = "matched"
     /\ row' = [row EXCEPT ![a] = Reset(@, req[w].secret)]
     /\ Revoke(a)
     /\ spent' = spent \cup ({row[a].link} \ {None})
     /\ Continue(w, [req[w] EXCEPT !.at = "confirmed"])
     /\ UNCHANGED <<now, held, cookie, known, mailed, used, lineage, crossed, credEra,
                    retired, lost>>

MailCredentials(w) ==
  LET a == req[w].sub
  IN /\ req[w].at = "confirmed"
     /\ known' = [known EXCEPT ![a] = Mailed(@, req[w].secret)]
     /\ Finish(w)
     /\ UNCHANGED <<now, row, held, cookie, mailed, used, history>>

-----------------------------------------------------------------------------
(* A rejection, a failed await or the end of the process.  A confirmation  *)
(* that ends between its update and its mail loses the password it set.    *)
EndRequest(w) ==
  /\ req[w].at # "idle"
  /\ lost' = IF req[w].at = "confirmed" THEN lost \cup {req[w].secret} ELSE lost
  /\ Finish(w)
  /\ UNCHANGED <<now, row, held, cookie, known, mailed, used, era, lineage, crossed,
                 credEra, spent, retired>>

Tick == /\ now < MaxTime
        /\ now' = now + 1
        /\ UNCHANGED <<row, req, held, cookie, known, mailed, used, history>>

\* An operator of the platform switches an account on or off.
SetStatus(a) == /\ row' = [row EXCEPT ![a].active = ~@]
                /\ UNCHANGED <<now, req, held, cookie, known, mailed, used, history>>

Next ==
  \/ Tick
  \/ \E a \in Switched : SetStatus(a)
  \/ \E w \in Worker :
       \/ \E c \in Client, a \in Account, p \in Password : LoginRead(w, c, a, p)
       \/ \E c \in Client, a \in Account, iat \in Time : RefreshRead(w, c, a, iat)
       \/ Issue(w)
       \/ WriteSession(w)
       \/ Respond(w)
       \/ \E c \in Client, a \in Account, iat \in Time, op \in Operation :
            Authorize(w, c, a, iat, op)
       \/ Logout(w)
       \/ ClearCookies(w)
       \/ \E cur \in Password, new \in Chosen : VerifyCurrent(w, cur, new)
       \/ WriteCredentials(w)
       \/ \E link \in ResetLink : WriteLink(w, link)
       \/ MailLink(w)
       \/ \E link \in ResetLink, p \in Generated : ConfirmRead(w, link, p)
       \/ WriteReset(w)
       \/ MailCredentials(w)
       \/ EndRequest(w)

Spec == Init /\ [][Next]_vars

-----------------------------------------------------------------------------
(* Every variable keeps its type. *)
TypeOK ==
  /\ now \in Time
  /\ row \in [Account -> Row]
  /\ req \in [Worker -> Request]
  /\ held \subseteq Token /\ retired \subseteq Token
  /\ cookie \in [Client -> Token \cup {None}]
  /\ known \in [Account -> SUBSET Password]
  /\ mailed \subseteq ResetLink /\ spent \subseteq ResetLink
  /\ used \subseteq Generated \cup ResetLink
  /\ era \in [Account -> 0 .. MaxEra]
  /\ lineage \in [Account -> Nat]
  /\ crossed \in [Account -> SUBSET (1 .. MaxEra)]
  /\ credEra \in [Account -> Nat]
  /\ lost \subseteq Generated

Session(a) == row[a].refresh # None

(* A session whose login came before a logout, a credential change or a    *)
(* password reset is alive afterwards only if, for each of those           *)
(* revocations, a login or refresh that had read the row before it wrote   *)
(* its token after it.  No later request can bring an old session back.    *)
RevocationOnlyOvertaken ==
  \A a \in Account : Session(a) => (lineage[a] + 1) .. era[a] \subseteq crossed[a]

(* When the requests of an account do not overlap, a session never         *)
(* outlives a logout, credential change or reset: the slot's token goes    *)
(* back to a login that read the row after the last of them.               *)
NoSessionOutlivesRevocation ==
  \A a \in Account : Session(a) => lineage[a] = era[a]

(* root.auth.service.ts says updateCredentials is a "logout from all       *)
(* devices": no session from before the change is alive after it.          *)
LogoutFromAllDevices ==
  \A a \in Account : Session(a) => lineage[a] >= credEra[a]

(* When requests do not overlap, a refresh token that was rotated away is  *)
(* never the accepted one again.                                           *)
RotatedTokenStaysDead ==
  \A a \in Account : Session(a) => [sub |-> a, iat |-> row[a].refresh] \notin retired

(* A reset link that a confirmation cleared is never in a row again, so a  *)
(* confirmation that starts later is refused.                              *)
SpentLinkIsDead == \A a \in Account : row[a].link \notin spent

\* The client can renew the session: it has the token of the slot, or an answer
\* with that token is on its way to it.
CanGoOn(c, a) ==
  /\ Session(a)
  /\ \/ cookie[c] = [sub |-> a, iat |-> row[a].refresh]
     \/ \E w \in Worker : /\ req[w].at = "stored" /\ req[w].client = c
                          /\ req[w].sub = a /\ req[w].iat = row[a].refresh

\* the answer of a login or refresh of this client is not sent or does not arrive
AnswerLost(c) ==
  \E w \in Worker : /\ req[w].at = "stored" /\ req[w].client = c
                   /\ req'[w] = Idle /\ cookie' = cookie

\* the client is given another cookie, or none, for the one it has
CookieReplaced(c) == cookie'[c] # cookie[c]

\* the single slot is taken by the login or refresh of another client
SlotTaken(c, a) ==
  \E w \in Worker : /\ req[w].at = "issued" /\ req'[w].at = "stored"
                   /\ req[w].sub = a /\ req[w].client # c

(* A client that can go on with its session is cut off in four ways only:  *)
(* the session is revoked, another client takes the one slot, the answer   *)
(* with the new token is lost, or a later answer replaces the cookie (of   *)
(* an earlier refresh that was overtaken, of another account, of a logout).*)
(* Whatever overlaps, no request of the client's own stores a token that   *)
(* it does not also send, and no other request of the account does harm.   *)
CutOffOnlyByNamedCause ==
  [][\A c \in Client, a \in Account :
       CanGoOn(c, a) => \/ CanGoOn(c, a)'
                        \/ row'[a].refresh = None
                        \/ SlotTaken(c, a)
                        \/ AnswerLost(c)
                        \/ CookieReplaced(c)]_vars

(* A reset link goes out of the row only for a newer one, or because a     *)
(* confirmation under way at that moment had found a link, be it this one  *)
(* or the one before: no login, refresh, logout or credential change, in   *)
(* flight or not, costs an owner the link in the mail.                     *)
LinkEndsByResetOnly ==
  [][\A a \in Account :
       row[a].link \notin {None, row'[a].link} =>
         \/ row'[a].link \notin used \cup {None}
         \/ \E w \in Worker : /\ req[w].at = "matched" /\ req[w].sub = a
                              /\ req'[w].at = "confirmed"]_vars

(* The owner of an account knows its password, or the confirmation that    *)
(* set it has yet to send the mail, or that mail is the one that failed.   *)
PasswordReachable ==
  \A a \in Account :
    \/ row[a].password \in known[a] \cup lost
    \/ \E w \in Worker : req[w].at = "confirmed" /\ req[w].sub = a
                         /\ req[w].secret = row[a].password
=============================================================================
