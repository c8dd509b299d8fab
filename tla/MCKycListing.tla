---------------------------- MODULE MCKycListing ----------------------------
(* Instances of KycListing: a root, an ADMIN, a state head below it and a   *)
(* retailer below that, or the state head as a second ADMIN beside it.      *)
EXTENDS KycListing

CONSTANTS r1, admin, head, retailer

Chain == [parent |-> [u \in User |-> CASE u = admin -> None
                                       [] u = head -> admin
                                       [] u = retailer -> head],
          root |-> [u \in User |-> r1],
          role |-> [u \in User |-> CASE u = admin -> "ADMIN"
                                     [] u = head -> "STATE_HEAD"
                                     [] u = retailer -> "RETAILER"],
          path |-> [u \in User |-> CASE u = admin -> <<admin>>
                                     [] u = head -> <<admin, head>>
                                     [] u = retailer -> <<admin, head, retailer>>],
          begins |-> {},
          linked |-> {retailer}]
\* rows no seed writes but the schema admits: everybody below somebody
Cycle == [Chain EXCEPT !.parent[admin] = retailer, !.linked = {}]
\* an id that happens to be shorter than the eight characters of the column
Peers == [Chain EXCEPT !.parent[head] = None, !.role[head] = "ADMIN", !.linked = {},
                       !.path[head] = <<head>>, !.path[retailer] = <<head, retailer>>,
                       !.begins = {<<head, admin>>}]

Trees == {Chain, Cycle, Peers}
Seeded == {Chain}
=============================================================================
