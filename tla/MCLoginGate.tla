----------------------------- MODULE MCLoginGate -----------------------------
(* Instances of LoginGate: a root, an ADMIN and two levels of users below   *)
(* it, so that the parent of the last is no ADMIN, on addresses of three    *)
(* bits.                                                                    *)
EXTENDS LoginGate, TLC

CONSTANTS r1, admin, head, seller, d1, d2, h1, https, http

Roles == [ADMIN |-> 1, STATE_HEAD |-> 2, RETAILER |-> 3]

Chain == [role |-> [u \in User |-> CASE u = admin -> "ADMIN" [] u = head -> "STATE_HEAD"
                                     [] u = seller -> "RETAILER"],
          parent |-> [u \in User |-> CASE u = admin -> None [] u = head -> admin
                                       [] u = seller -> head],
          root |-> [u \in User |-> r1]]
\* rows no seed writes but the schema admits: a parent on the same level, and none
Misplaced == [Chain EXCEPT !.role[seller] = "STATE_HEAD", !.parent[head] = None]

Trees == {Chain, Misplaced}

\* a domain named with its protocol and a bare one
Sites == d1 :> [protocol |-> https, host |-> h1] @@ d2 :> [protocol |-> None, host |-> h1]
Origins == {[protocol |-> https, host |-> h1], [protocol |-> http, host |-> h1], None}

Local6 == [form |-> "v6", num |-> 5]
Clients == {[form |-> "mapped", num |-> 6], Local6}

\* the empty prefix, an address, and ::1, which getClientIp never returns
Nets == {[range |-> V4(1), bits |-> 0],
         [range |-> V4(2), bits |-> None], [range |-> Local6, bits |-> None]}

Leads == [n \in Address |-> 0]
=============================================================================
