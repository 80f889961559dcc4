---- MODULE MCGatewaySessions ----
(* Small instances of the gateway and presence together.                   *)
EXTENDS GatewaySessions, TLC
MCConn == Instance \X (1..MaxSeq)
Sym == Permutations(Req) \cup Permutations(Channel) \cup Permutations(User)
====
