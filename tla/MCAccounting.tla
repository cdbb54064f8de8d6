----------------------------- MODULE MCAccounting -----------------------------
(* Small instances of Accounting: two applications, one or two ports. *)
EXTENDS Accounting

=============================================================================
