----------------------------- MODULE MCAuditLog ------------------------------
(* Instances of AuditLog for TLC.                                          *)
EXTENDS AuditLog, MCIngest

TwoEvents == {HashOnly(2, 1), HashOnly(1, 2)}
=============================================================================
