---- MODULE MCSignUp ----
(* Small instances of registration: forms that share a username, an email  *)
(* or neither.                                                             *)
EXTENDS SignUp
CONSTANTS ann, bob, work, home
Forms == {[username |-> ann, email |-> work], [username |-> ann, email |-> home],
          [username |-> bob, email |-> home]}
====
