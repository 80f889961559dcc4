---- MODULE MCBringUp ----
(* Small instances of the deployment.                                      *)
EXTENDS BringUp
Limits == [j \in Job |-> 1]
====
