--------------------------- MODULE AccountSession ---------------------------
(***************************************************************************)
(* What the authentication of a ROOT or USER account promises to its owner *)
(* who does one thing at a time: the account has at most one session, each *)
(* session belongs to a login after the last logout or password change,    *)
(* its token only ever gives way to a later one, and a reset link is good  *)
(* for one generated password.  Every operation is a single step.          *)
(***************************************************************************)
EXTENDS Naturals

CONSTANTS
  Account, ResetLink,
  Chosen,    \* passwords an owner may choose
  Generated, \* passwords a reset may generate
  Token,     \* tokens, numbered by the second of their issue
  Initial,   \* the first password of an account
  None       \* no session, no link

VARIABLES
  session,   \* the session of each account: [token, login], or None
  password,  \* the password of each account
  link,      \* the outstanding reset link of each account, or None
  epoch      \* how often the sessions of an account were ended

state == <<session, password, link, epoch>>

Init ==
  /\ session = [a \in Account |-> None]
  /\ password = [a \in Account |-> Initial]
  /\ link = [a \in Account |-> None]
  /\ epoch = [a \in Account |-> 0]

Later(a, t) == session[a] = None \/ session[a].token <= t

SignIn(a, t) ==
  /\ Later(a, t)
  /\ session' = [session EXCEPT ![a] = [token |-> t, login |-> epoch[a]]]
  /\ UNCHANGED <<password, link, epoch>>

(* A renewed session stays the session of its login. *)
Renew(a, t) ==
  /\ session[a] # None /\ Later(a, t)
  /\ session' = [session EXCEPT ![a] = [token |-> t, login |-> session[a].login]]
  /\ UNCHANGED <<password, link, epoch>>

EndSession(a) ==
  /\ session' = [session EXCEPT ![a] = None]
  /\ epoch' = [epoch EXCEPT ![a] = @ + 1]

SignOut(a) == EndSession(a) /\ UNCHANGED <<password, link>>

ChangePassword(a, p) ==
  /\ EndSession(a)
  /\ password' = [password EXCEPT ![a] = p]
  /\ UNCHANGED link

RequestLink(a, l) ==
  /\ l # link[a]
  /\ link' = [link EXCEPT ![a] = l]
  /\ UNCHANGED <<session, password, epoch>>

ResetPassword(a, p) ==
  /\ link[a] # None
  /\ EndSession(a)
  /\ password' = [password EXCEPT ![a] = p]
  /\ link' = [link EXCEPT ![a] = None]

Next ==
  \E a \in Account :
    \/ \E t \in Token : SignIn(a, t) \/ Renew(a, t)
    \/ SignOut(a)
    \/ \E p \in Chosen : ChangePassword(a, p)
    \/ \E p \in Generated : ResetPassword(a, p)
    \/ \E l \in ResetLink : RequestLink(a, l)

Spec == Init /\ [][Next]_state
=============================================================================
