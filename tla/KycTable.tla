------------------------------ MODULE KycTable ------------------------------
(***************************************************************************)
(* What a reader of user_kyc or of business_kycs may rely on, whatever     *)
(* requests overlap or fail: a user has one row at most, a row is filed as *)
(* PENDING and behind all others, keeps its place until it is deleted, and *)
(* changes its status by a verification only, where there is any.  Every   *)
(* other step of the services leaves the table as it is.                   *)
(***************************************************************************)
EXTENDS Naturals

CONSTANTS
  User,
  Moment,     \* what rows are ordered by: the moments of their filing
  Status,
  Verifiable  \* whether rows of this table are ever verified

VARIABLE table  \* the rows of each user: [born, status]

Init == table = [u \in User |-> {}]

File(u, b) ==
  /\ table[u] = {}
  /\ \A v \in User : \A r \in table[v] : r.born <= b
  /\ table' = [table EXCEPT ![u] = {[born |-> b, status |-> "PENDING"]}]

Verify(u, s) ==
  /\ Verifiable
  /\ \E r \in table[u] : table' = [table EXCEPT ![u] = {[r EXCEPT !.status = s]}]

Delete(u) ==
  /\ table[u] # {}
  /\ table' = [table EXCEPT ![u] = {}]

Next ==
  \E u \in User :
    \/ \E b \in Moment : File(u, b)
    \/ \E s \in Status : Verify(u, s)
    \/ Delete(u)

Spec == Init /\ [][Next]_table
=============================================================================
