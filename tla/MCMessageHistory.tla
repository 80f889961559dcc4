---- MODULE MCMessageHistory ----
(* Small instances of the message history.                                 *)
EXTENDS MessageHistory
====
