--------------------------- MODULE MCPermissionCache ---------------------------
(* An instance of PermissionCache: one row a role may have and one a user may *)
(* have of its own, and a handler that demands the permissions of both.       *)
EXTENDS PermissionCache

CONSTANTS p1, p2, s1

OfRole == {[permission |-> p1, service |-> None]}
OfUser == {[permission |-> p2, service |-> s1]}
DemandBoth == <<p1, p2>>
=============================================================================
