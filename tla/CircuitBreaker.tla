---------------------------- MODULE CircuitBreaker ----------------------------
(***************************************************************************)
(* The circuit breaker the gateway puts in front of each upstream          *)
(* (breaker.go around gobreaker), as a record and what a request does to   *)
(* it.  fresh is the set of requests admitted since the state changed last:*)
(* gobreaker ignores the outcome of a request of an earlier generation.    *)
(***************************************************************************)
EXTENDS Naturals

CONSTANT maxFailures

ASSUME BreakerAssumption == maxFailures \in Nat \ {0}

Closed == [st |-> "closed", fails |-> 0, fresh |-> {}]
Opened == [st |-> "open", fails |-> 0, fresh |-> {}]

(* Half-open admits one request (MaxRequests).                             *)
Admits(cb) == cb.st = "closed" \/ (cb.st = "half" /\ cb.fresh = {})
Admit(cb, r) == [cb EXCEPT !.fresh = @ \cup {r}]

(* openTimeout is over.                                                    *)
HalfOpened == [st |-> "half", fails |-> 0, fresh |-> {}]

(* Mutant: the probe's success is only counted.                            *)
OutcomeStaysHalf(cb, r, ok) ==
  LET left == [cb EXCEPT !.fresh = @ \ {r}]
  IN IF r \notin cb.fresh THEN cb
     ELSE IF ok THEN [left EXCEPT !.fails = 0]
     ELSE IF cb.st = "half" \/ cb.fails + 1 >= maxFailures THEN Opened
     ELSE [left EXCEPT !.fails = @ + 1]

(* afterRequest: a transport error or a 5xx is a failure, a 4xx is not.    *)
Outcome(cb, r, ok) ==
  LET left == [cb EXCEPT !.fresh = @ \ {r}]
  IN IF r \notin cb.fresh THEN cb
     ELSE IF ok THEN (IF cb.st = "half" THEN Closed ELSE [left EXCEPT !.fails = 0])
     ELSE IF cb.st = "half" \/ cb.fails + 1 >= maxFailures THEN Opened
     ELSE [left EXCEPT !.fails = @ + 1]
=============================================================================
