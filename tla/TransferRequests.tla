-------------------------- MODULE TransferRequests --------------------------
(***************************************************************************)
(* What the transfer RPC of one call promises its callers, whatever the    *)
(* SIP side does: TransferSIPParticipant of pkg/sip/service.go.  A call is *)
(* transferred by at most one transfer at a time; a request for the same   *)
(* target joins the transfer that runs, a request for another target is    *)
(* refused; all the requests of a transfer are answered with its outcome.  *)
(***************************************************************************)
CONSTANTS
  Reqs,      \* requests; a transfer is named by the request that began it
  Targets,   \* transfer targets
  Outcomes,  \* how a transfer can end
  none

VARIABLES
  to,        \* the target each request asks for
  begun,     \* the transfers that have begun
  joined,    \* the transfer each request waits for
  outcome,   \* the outcome of each transfer
  reply      \* the answer to each request

vars == <<to, begun, joined, outcome, reply>>

Refusals == {"refused", "elsewhere", "canceled"}

Init ==
  /\ to \in [Reqs -> Targets]
  /\ begun = {}
  /\ joined = [r \in Reqs |-> none]
  /\ outcome = [r \in Reqs |-> none]
  /\ reply = [r \in Reqs |-> none]

Running == {t \in begun : outcome[t] = none}

Fresh(r) == joined[r] = none /\ reply[r] = none

Begin(r) ==
  /\ Fresh(r) /\ Running = {}
  /\ begun' = begun \cup {r}
  /\ joined' = [joined EXCEPT ![r] = r]
  /\ UNCHANGED <<to, outcome, reply>>

Join(r, t) ==
  /\ Fresh(r) /\ t \in begun /\ Running \subseteq {t} /\ to[t] = to[r]
  /\ joined' = [joined EXCEPT ![r] = t]
  /\ UNCHANGED <<to, begun, outcome, reply>>

Refuse(r) ==
  /\ Fresh(r)
  /\ \/ reply' = [reply EXCEPT ![r] = "refused"]
     \/ /\ \E t \in begun : to[t] # to[r]
        /\ reply' = [reply EXCEPT ![r] = "elsewhere"]
  /\ UNCHANGED <<to, begun, joined, outcome>>

Finish(t) ==
  /\ t \in Running
  /\ \E o \in Outcomes : outcome' = [outcome EXCEPT ![t] = o]
  /\ UNCHANGED <<to, begun, joined, reply>>

Answer(r) ==
  /\ joined[r] # none /\ reply[r] = none
  /\ outcome[joined[r]] # none
  /\ reply' = [reply EXCEPT ![r] = outcome[joined[r]]]
  /\ UNCHANGED <<to, begun, joined, outcome>>

\* The context of the RPC ends while the transfer goes on.
GiveUp(r) ==
  /\ joined[r] # none /\ reply[r] = none
  /\ reply' = [reply EXCEPT ![r] = "canceled"]
  /\ UNCHANGED <<to, begun, joined, outcome>>

Next ==
  \E r \in Reqs :
    \/ Begin(r)
    \/ \E t \in Reqs : Join(r, t)
    \/ Refuse(r)
    \/ Finish(r)
    \/ Answer(r)
    \/ GiveUp(r)

Spec == Init /\ [][Next]_vars
=============================================================================
