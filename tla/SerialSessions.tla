--------------------------- MODULE SerialSessions ---------------------------
(***************************************************************************)
(* Sessions seen as AccountSession: the refinement mapping.  A step of a   *)
(* request that writes the row is the operation; all other steps stutter.  *)
(***************************************************************************)
EXTENDS Sessions

Abstract == INSTANCE AccountSession WITH
  Token    <- Time,
  session  <- [a \in Account |-> IF row[a].refresh = None THEN None
                ELSE [token |-> row[a].refresh, login |-> lineage[a]]],
  password <- [a \in Account |-> row[a].password],
  link     <- [a \in Account |-> row[a].link],
  epoch    <- era

(* One request at a time, the services keep the promise of AccountSession. *)
(* With more than one they do not: a session may outlive its revocation.   *)
ImplementsAccountSession == Abstract!Spec
=============================================================================
