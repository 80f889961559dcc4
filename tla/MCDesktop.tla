---- MODULE MCDesktop ----
(* Small instances of the desktop app.                                     *)
EXTENDS Desktop
====
