------------------------------ MODULE KycTables ------------------------------
(***************************************************************************)
(* Kyc seen as two KycTables: the refinement mapping.  InsertKyc is the    *)
(* filing, VerifyWrite the verification, DeleteRow the deletion; all other *)
(* steps of a request stutter, the write of an update among them.          *)
(***************************************************************************)
EXTENDS Kyc

\* the rows of a user in the table of a service, in the order of insertion
RowsOf(kind, u) == {k \in DOMAIN kyc : kyc[k].kind = kind /\ kyc[k].user = u}
TableOf(kind) ==
  [u \in User |-> {[born |-> k, status |-> kyc[k].status] : k \in RowsOf(kind, u)}]

Statuses == {"PENDING", "VERIFIED", "REJECTED"}

UserTable == INSTANCE KycTable WITH
  table <- TableOf("user"), Moment <- KycId, Status <- Statuses, Verifiable <- TRUE
BusinessTable == INSTANCE KycTable WITH
  table <- TableOf("business"), Moment <- KycId, Status <- Statuses, Verifiable <- FALSE

(* Whatever overlaps or fails, the services keep the promise of KycTable:   *)
(* two filings of one user leave one row, an update that read its row      *)
(* before a verification does not undo it, no row comes back after its     *)
(* deletion, and no business KYC is ever verified.                         *)
ImplementsKycTable == UserTable!Spec /\ BusinessTable!Spec
=============================================================================
