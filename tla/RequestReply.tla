---------------------------- MODULE RequestReply ----------------------------
(***************************************************************************)
(* What a synchronous request client promises: every request that is       *)
(* issued returns exactly once, with the response to that very request,    *)
(* with an error, because its deadline passed, or because its arguments    *)
(* could not be sent.                                                      *)
(***************************************************************************)
CONSTANT Requests

VARIABLES
  status,     \* of each request: new, open, or what its call returned with
  answered    \* the requests the other side has answered

vars == <<status, answered>>

Returned == {"response", "failed", "timedout", "raised"}

Init ==
  /\ status = [r \in Requests |-> "new"]
  /\ answered = {}

Issue(r) ==
  /\ status[r] = "new"
  /\ status' = [status EXCEPT ![r] = "open"]
  /\ UNCHANGED answered

\* An answer may still arrive after its request has returned.
Answer(r) ==
  /\ status[r] # "new" /\ r \notin answered
  /\ answered' = answered \cup {r}
  /\ UNCHANGED status

Return(r, how) ==
  /\ status[r] = "open"
  /\ how = "response" => r \in answered
  /\ status' = [status EXCEPT ![r] = how]
  /\ UNCHANGED answered

Next == \E r \in Requests :
  Issue(r) \/ Answer(r) \/ \E how \in Returned : Return(r, how)

Spec == Init /\ [][Next]_vars
=============================================================================
