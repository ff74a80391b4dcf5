---------------------------- MODULE AccessPromise ----------------------------
(***************************************************************************)
(* What the access gate promises to an operator: a request is let through   *)
(* in the name of a user with a credential only while that user is enrolled *)
(* with that credential, or within Grace seconds of the moment this last    *)
(* was so.  No cookies, no tokens, no workers' clocks.                      *)
(***************************************************************************)
EXTENDS Naturals

CONSTANTS
  Identity,     \* pairs of a credential and a user
  Worker,
  Grace,        \* how long access may outlive the enrolment
  Nil

VARIABLES
  now,          \* the time everybody else's clock shows
  enrolled,     \* the identities that can log in
  ended,        \* when each identity last stopped being enrolled, or Nil
  granted       \* the identity in whose name a worker serves, or Nil

promiseVars == <<now, enrolled, ended, granted>>

Init ==
  /\ now = 0
  /\ enrolled = {}
  /\ ended = [i \in Identity |-> Nil]
  /\ granted = [w \in Worker |-> Nil]

\* Operators enrol and withdraw, or pass a credential on to another user.
Change ==
  /\ enrolled' \in SUBSET Identity
  /\ ended' = [i \in Identity |-> IF i \in enrolled \ enrolled' THEN now
                                 ELSE ended[i]]
  /\ UNCHANGED <<now, granted>>

Grant(w, i) ==
  /\ \/ i \in enrolled
     \/ ended[i] # Nil /\ now < ended[i] + Grace
  /\ granted' = [granted EXCEPT ![w] = i]
  /\ UNCHANGED <<now, enrolled, ended>>

Release(w) ==
  /\ granted' = [granted EXCEPT ![w] = Nil]
  /\ UNCHANGED <<now, enrolled, ended>>

Elapse ==
  /\ now' = now + 1
  /\ UNCHANGED <<enrolled, ended, granted>>

Next ==
  \/ Change
  \/ \E w \in Worker : Release(w) \/ \E i \in Identity : Grant(w, i)
  \/ Elapse

Spec == Init /\ [][Next]_promiseVars
=============================================================================
