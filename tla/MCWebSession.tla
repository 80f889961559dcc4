---- MODULE MCWebSession ----
(* Small instances of the web app's token refresh.                         *)
EXTENDS WebSession, TLC
Sym == Permutations(Token) \cup Permutations(Req)
====
