---- MODULE MCAuditChain ----
(* Small instances of the audit service.                                   *)
EXTENDS AuditChain
====
