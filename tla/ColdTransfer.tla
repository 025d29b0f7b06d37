---------------------------- MODULE ColdTransfer ----------------------------
(***************************************************************************)
(* Cold transfer of one call: the RPC TransferSIPParticipant of            *)
(* pkg/sip/service.go, transferCall of an inbound or an outbound call, the *)
(* REFER it sends and the NOTIFY requests that report its outcome          *)
(* (pkg/sip/protocol.go).  The goroutines are                              *)
(*   a request r     transferSIPParticipant, one per RPC                   *)
(*   a worker t      the goroutine started by the request that created the *)
(*                   PendingTransfer t                                     *)
(*   a handler n     HandleNotify, one per NOTIFY                          *)
(* What ends the call is the business of InboundCall and OutboundCall.     *)
(* Here it is the set gone of what has ended, in any order.                *)
(***************************************************************************)
EXTENDS Integers, FiniteSets

CONSTANTS
  MaxReqs,      \* RPC requests for this call
  MaxNotifies,  \* NOTIFY requests of the peer
  MaxTargets,   \* transfer targets
  none

\* They are numbered in the order in which they arrive.
Reqs     == 1..MaxReqs
Notifies == 1..MaxNotifies
Targets  == 1..MaxTargets

\* How a transfer ends.  transferReason tells the failures apart: rejected
\* with a SIP status, the call ended, the subscription ended, the deadline
\* passed, unspecified.
Outcomes == {"completed", "failed"}

ASSUME ColdTransferAssumption ==
  /\ MaxReqs \in Nat \ {0} /\ MaxNotifies \in Nat /\ MaxTargets \in Nat \ {0}
  /\ none \notin Nat
  /\ none \notin Outcomes \cup {"refused", "elsewhere", "canceled"}

\* dialog    the leg can be transferred: invite and inviteOk are set and, of an
\*           outbound call, sipOutbound.closing is not broken
\* callDone  the channel waitReferResult watches
\* over      done of an inbound call, stopped of an outbound one
\* registry  the entry in cm.byLocalTag or cm.activeCalls
Parts == {"dialog", "callDone", "over", "registry"}

VARIABLES
  gone,      \* the parts of the call that have ended
  to,        \* req.TransferTo
  pc,        \* where each request is
  joined,    \* the PendingTransfer a request waits for
  reply,     \* its answer
  pending,   \* cm.pendingTransfers[callID]
  chan,      \* PendingTransfer.Done: the outcome in its buffer
  closed,    \* Done is closed
  stored,    \* PendingTransfer.Outcome
  wpc,       \* where each worker is
  result,    \* the outcome the worker has
  misled,    \* a worker was given the result of another REFER (history)
  cseq,      \* referCseq: the CSeq of the last REFER, 0 before
  refer,     \* the CSeq of the worker's REFER (history)
  notify,    \* the NOTIFY requests
  muted,     \* WriteOutboundAudioTo(nil) is in effect
  hangup,    \* the timer that hangs up a transferred call is armed
  infos,     \* CallState.transferInfos
  told,      \* the last status passed to HandleTransfer
  active     \* the gauge transfersActive

rpcVars  == <<to, pc, joined, reply>>
pendVars == <<pending, chan, closed, stored>>
legVars  == <<cseq, refer>>
monVars  == <<infos, told, active>>
sndVars  == <<muted, hangup>>
wrkVars  == <<wpc, result, misled>>
vars     == <<gone, rpcVars, pendVars, legVars, wrkVars, notify, sndVars,
              monVars>>

NoNotify == [about |-> 0, id |-> 0, seen |-> 0, res |-> none]

Init ==
  /\ gone \in {{}, {"dialog"}}        \* {"dialog"}: not established
  /\ to \in {f \in [Reqs -> Targets] : f[1] = 1}
  /\ pc = [r \in Reqs |-> "idle"]
  /\ joined = [r \in Reqs |-> none]
  /\ reply = [r \in Reqs |-> none]
  /\ pending = none
  /\ chan = [t \in Reqs |-> none]
  /\ closed = [t \in Reqs |-> FALSE]
  /\ stored = [t \in Reqs |-> none]
  /\ wpc = [t \in Reqs |-> "off"]
  /\ result = [t \in Reqs |-> none]
  /\ misled = {}
  /\ cseq = 0 /\ refer = [t \in Reqs |-> 0]
  /\ notify = [n \in Notifies |-> [st |-> "idle", msg |-> NoNotify]]
  /\ muted = FALSE /\ hangup = FALSE
  /\ infos = {} /\ told = [t \in Reqs |-> none]
  /\ active = 0

-----------------------------------------------------------------------------
(* The RPC.                                                                 *)

Return(r, v) ==
  /\ pc' = [pc EXCEPT ![r] = "done"]
  /\ reply' = [reply EXCEPT ![r] = v]

\* checkInternalProviderRequest: an unknown call is refused, and a transfer
\* that the provider of the call forbids (which rejectTransfer counts as
\* started and failed at once).
CheckProvider(r) ==
  /\ pc[r] = "idle" /\ \A q \in 1..(r - 1) : pc[q] # "idle"
  /\ \/ Return(r, "refused")
     \/ /\ "registry" \notin gone
        /\ pc' = [pc EXCEPT ![r] = "create"]
        /\ UNCHANGED reply
  /\ UNCHANGED <<gone, to, joined, pendVars, legVars, wrkVars, notify,
                 sndVars, monVars>>

\* One step: the entry is looked up and created with cm.mu held.
getOrCreatePendingTransfer(r) ==
  /\ pc[r] = "create"
  /\ \/ /\ pending = none
        /\ pending' = r
        /\ wpc' = [wpc EXCEPT ![r] = "lookup"]
        /\ joined' = [joined EXCEPT ![r] = r]
        /\ pc' = [pc EXCEPT ![r] = "wait"]
        /\ UNCHANGED reply
     \/ /\ pending # none /\ to[pending] = to[r]
        /\ joined' = [joined EXCEPT ![r] = pending]
        /\ pc' = [pc EXCEPT ![r] = "wait"]
        /\ UNCHANGED <<pending, wpc, reply>>
     \/ /\ pending # none /\ to[pending] # to[r]
        /\ Return(r, "elsewhere")
        /\ UNCHANGED <<pending, wpc, joined>>
  /\ UNCHANGED <<gone, to, chan, closed, stored, legVars, result, misled,
                 notify, sndVars, monVars>>

\* A receive takes the buffered outcome, or the zero outcome of a closed
\* channel.  An outcome without an error is replaced by the stored one.
ReceiveDone(r) ==
  /\ pc[r] = "wait"
  /\ LET t == joined[r]
         v == IF chan[t] # none THEN chan[t] ELSE "completed"
     IN /\ chan[t] # none \/ closed[t]
        /\ chan' = [chan EXCEPT ![t] = none]
        /\ Return(r, IF v = "completed" /\ stored[t] # none THEN stored[t]
                     ELSE v)
  /\ UNCHANGED <<gone, to, joined, pending, closed, stored, legVars,
                 wrkVars, notify, sndVars, monVars>>

\* The context of the RPC ends first.
RPCCanceled(r) ==
  /\ pc[r] = "wait"
  /\ Return(r, "canceled")
  /\ UNCHANGED <<gone, to, joined, pendVars, legVars, wrkVars, notify,
                 sndVars, monVars>>

-----------------------------------------------------------------------------
(* The worker.                                                              *)

Move(t, from, next) ==
  /\ wpc[t] = from
  /\ wpc' = [wpc EXCEPT ![t] = next]

\* CallState keeps the transfers in progress and tells the state handler.
StartTransfer(t) ==
  /\ infos' = infos \cup {t}
  /\ told' = [told EXCEPT ![t] = "ongoing"]

EndTransfer(t, ok) ==
  /\ infos' = infos \ {t}
  /\ told' = [told EXCEPT ![t] = IF ok THEN "successful" ELSE "failed"]

lookupCountsActive(t) ==   \* mutant: an unknown call lowers the gauge
  /\ \/ /\ Move(t, "lookup", "send")
        /\ "registry" \in gone
        /\ result' = [result EXCEPT ![t] = "failed"]
        /\ active' = active - 1
        /\ UNCHANGED <<infos, told, muted>>
     \/ /\ Move(t, "lookup", "refer")
        /\ "registry" \notin gone
        /\ active' = active + 1
        /\ StartTransfer(t)
        /\ muted' = (muted \/ "over" \notin gone)
        /\ UNCHANGED result
  /\ UNCHANGED <<gone, rpcVars, pendVars, legVars, misled, notify, hangup>>

\* processParticipantTransfer finds the call and enters transferCall:
\* TransferStarted, StartTransfer, and the room's audio is muted for the
\* dial tone (the request asks for one; otherwise muted has no meaning).
processParticipantTransfer(t) ==
  /\ \/ /\ Move(t, "lookup", "send")
        /\ "registry" \in gone
        /\ result' = [result EXCEPT ![t] = "failed"]
        /\ UNCHANGED <<infos, told, active, muted>>
     \/ /\ Move(t, "lookup", "refer")
        /\ "registry" \notin gone
        /\ active' = active + 1
        /\ StartTransfer(t)
        /\ muted' = (muted \/ "over" \notin gone)
        /\ UNCHANGED result
  /\ UNCHANGED <<gone, rpcVars, pendVars, legVars, misled, notify, hangup>>

newReferReq(t) ==
  /\ \/ /\ Move(t, "refer", "sent")
        /\ "dialog" \notin gone
        /\ cseq' = cseq + 1
        /\ refer' = [refer EXCEPT ![t] = cseq + 1]
        /\ UNCHANGED result
     \/ /\ Move(t, "refer", "end")
        /\ "dialog" \in gone
        /\ result' = [result EXCEPT ![t] = "failed"]
        /\ UNCHANGED legVars
  /\ UNCHANGED <<gone, rpcVars, pendVars, misled, notify, sndVars,
                 monVars>>

Ends(t, from, res) ==
  /\ Move(t, from, "end")
  /\ result' = [result EXCEPT ![t] = res]
  /\ UNCHANGED <<gone, rpcVars, pendVars, legVars, misled, notify,
                 sndVars, monVars>>

\* The REFER transaction: it is accepted (200 or 202), answered with another
\* status, or ends without an answer: it cannot be sent, times out, or the
\* service or the leg is closing.  The deadline of the transfer does not
\* bear on it.
sendRefer(t) ==
  \/ /\ Move(t, "sent", "wait")
     /\ UNCHANGED <<gone, rpcVars, pendVars, legVars, result, misled,
                    notify, sndVars, monVars>>
  \/ Ends(t, "sent", "failed")

\* waitReferResult: the deadline passes, or the call ends and a result is
\* accepted only for referResultGrace more.
RingingTimeout(t) == Ends(t, "wait", "failed")

CallDone(t) ==
  /\ "callDone" \in gone
  /\ Move(t, "wait", "grace")
  /\ UNCHANGED <<gone, rpcVars, pendVars, legVars, result, misled,
                 notify, sndVars, monVars>>

GraceOver(t) == Ends(t, "grace", "failed")

endKeepsMuted(t) ==   \* mutant: the deferred function does not unmute
  /\ Move(t, "end", "send")
  /\ LET ok == result[t] = "completed" IN
       /\ hangup' = (hangup \/ ok)
       /\ EndTransfer(t, ok)
       /\ active' = active - 1
  /\ UNCHANGED <<gone, rpcVars, pendVars, legVars, result, misled,
                 notify, muted>>

endNoHangup(t) ==   \* mutant: no timer
  /\ Move(t, "end", "send")
  /\ LET ok == result[t] = "completed" IN
       /\ muted' = (muted /\ (ok \/ "over" \in gone))
       /\ EndTransfer(t, ok)
       /\ active' = active - 1
  /\ UNCHANGED <<gone, rpcVars, pendVars, legVars, result, misled,
                 notify, hangup>>

\* transferCall returns: the timer is armed, the deferred functions restore
\* the audio of a failed transfer and end the transfer in the call state,
\* and the transfer is counted.
transferCallReturns(t) ==
  /\ Move(t, "end", "send")
  /\ LET ok == result[t] = "completed" IN
       /\ hangup' = (hangup \/ ok)
       /\ muted' = (muted /\ (ok \/ "over" \in gone))
       /\ EndTransfer(t, ok)
       /\ active' = active - 1
  /\ UNCHANGED <<gone, rpcVars, pendVars, legVars, result, misled,
                 notify>>

SendDone(t) ==
  /\ Move(t, "send", "store")
  /\ chan' = [chan EXCEPT ![t] = result[t]]
  /\ UNCHANGED <<gone, rpcVars, pending, closed, stored, legVars, result,
                 misled, notify, sndVars, monVars>>

storeLate(t) ==   \* mutant: Outcome is not stored before Done is closed
  /\ Move(t, "store", "close")
  /\ UNCHANGED <<gone, rpcVars, pendVars, legVars, result, misled,
                 notify, sndVars, monVars>>

StoreOutcome(t) ==
  /\ Move(t, "store", "close")
  /\ stored' = [stored EXCEPT ![t] = result[t]]
  /\ UNCHANGED <<gone, rpcVars, pending, chan, closed, legVars, result,
                 misled, notify, sndVars, monVars>>

closeNever(t) ==   \* mutant: Done is not closed, one receive takes the outcome
  /\ Move(t, "close", "delete")
  /\ UNCHANGED <<gone, rpcVars, pendVars, legVars, result, misled, notify,
                 sndVars, monVars>>

CloseDone(t) ==
  /\ Move(t, "close", "delete")
  /\ closed' = [closed EXCEPT ![t] = TRUE]
  /\ UNCHANGED <<gone, rpcVars, pending, chan, stored, legVars, result,
                 misled, notify, sndVars, monVars>>

DeletePending(t) ==
  /\ Move(t, "delete", "done")
  /\ pending' = none
  /\ UNCHANGED <<gone, rpcVars, chan, closed, stored, legVars, result,
                 misled, notify, sndVars, monVars>>

Worker(t) ==
  \/ processParticipantTransfer(t) \/ newReferReq(t) \/ sendRefer(t)
  \/ RingingTimeout(t) \/ CallDone(t) \/ GraceOver(t)
  \/ transferCallReturns(t)
  \/ SendDone(t) \/ StoreOutcome(t) \/ CloseDone(t) \/ DeletePending(t)

-----------------------------------------------------------------------------
(* The NOTIFY requests.                                                     *)

\* The sipfrag in the body and the Subscription-State header, where anything
\* but "terminated" leaves the subscription open.
Statuses      == {"none", "provisional", "ok", "failure"}
Subscriptions == {"open", "terminated"}

\* What a NOTIFY says of the transfer; none if it is still going on.  Success
\* is checked before the end of the subscription, which may come with it.
notifyResult(status, sub) ==
  IF status = "ok" THEN "completed"
  ELSE IF status = "failure" \/ sub = "terminated" THEN "failed"
  ELSE none

Arrives(n) ==
  notify[n].st = "idle" /\ \A m \in 1..(n - 1) : notify[m].st # "idle"

\* NOTIFY n about the REFER m.about is handled; res is what it says.
Handled(n, m, res, applies) ==
  notify' = [notify EXCEPT ![n] =
    IF applies /\ res # none
    THEN [st |-> "parked", msg |-> [m EXCEPT !.res = res]]
    ELSE [st |-> "done", msg |-> NoNotify]]

handleNotifyAnyId(n) ==   \* mutant: the event id is not compared
  /\ Arrives(n)
  /\ "registry" \notin gone
  /\ \E about \in 1..cseq, status \in Statuses, sub \in Subscriptions :
     \E id \in {0, about} :
       Handled(n, [about |-> about, id |-> id, seen |-> cseq, res |-> none],
               notifyResult(status, sub), TRUE)
  /\ UNCHANGED <<gone, rpcVars, pendVars, legVars, wrkVars, sndVars, monVars>>

\* A NOTIFY about one of our REFERs.  The event id, when there is one, is
\* compared with referCseq; a final status, or the end of the subscription,
\* is handed over on the unbuffered channel referDone.
handleReferNotify(n) ==
  /\ Arrives(n)
  /\ "registry" \notin gone
  /\ \E about \in 1..cseq, status \in Statuses, sub \in Subscriptions :
     \E id \in {0, about} :
       Handled(n, [about |-> about, id |-> id, seen |-> cseq, res |-> none],
               notifyResult(status, sub), id \in {0, cseq})
  /\ UNCHANGED <<gone, rpcVars, pendVars, legVars, wrkVars, sndVars, monVars>>

\* No such call, no Event or a malformed one, a malformed body, an unknown
\* event: the NOTIFY is answered with an error.
NotifyRefused(n) ==
  /\ Arrives(n)
  /\ notify' = [notify EXCEPT ![n].st = "done"]
  /\ UNCHANGED <<gone, rpcVars, pendVars, legVars, wrkVars, sndVars, monVars>>

\* The rendezvous on referDone.
ReferDone(n, t) ==
  /\ notify[n].st = "parked"
  /\ wpc[t] \in {"wait", "grace"}
  /\ notify' = [notify EXCEPT ![n].st = "done", ![n].msg = NoNotify]
  /\ wpc' = [wpc EXCEPT ![t] = "end"]
  /\ LET m == notify[n].msg IN
       /\ result' = [result EXCEPT ![t] = m.res]
       /\ misled' = misled \cup
            IF m.about = refer[t] THEN {}
            ELSE IF m.seen < refer[t] THEN {"parked"}
            ELSE IF m.id = 0 THEN {"noId"} ELSE {"checked"}
  /\ UNCHANGED <<gone, rpcVars, pendVars, legVars, sndVars, monVars>>

\* notifyAckTimeout passes.
NotifyTimeout(n) ==
  /\ notify[n].st = "parked"
  /\ notify' = [notify EXCEPT ![n].st = "done", ![n].msg = NoNotify]
  /\ UNCHANGED <<gone, rpcVars, pendVars, legVars, wrkVars, sndVars,
                 monVars>>

-----------------------------------------------------------------------------
(* The end of the call.                                                     *)

\* The parts of the call end in any order: close ends it before it leaves the
\* registry, callManager.Stop empties the registry first.
PartEnds(p) ==
  /\ p \notin gone
  /\ gone' = gone \cup {p}
  /\ UNCHANGED <<rpcVars, pendVars, legVars, wrkVars, notify, sndVars,
                 monVars>>

\* referByeTimeout passes: the transferred call is closed.
HangUp ==
  /\ hangup
  /\ hangup' = FALSE
  /\ gone' = gone \cup {"over"}
  /\ UNCHANGED <<rpcVars, pendVars, legVars, wrkVars, notify, muted, monVars>>

Rest ==
  /\ \A r \in Reqs : pc[r] = "done" /\ wpc[r] \in {"off", "done"}
  /\ \A n \in Notifies : notify[n].st = "done"
  /\ ~hangup /\ gone = Parts
  /\ UNCHANGED vars

Next ==
  \/ \E r \in Reqs :
       \/ CheckProvider(r) \/ getOrCreatePendingTransfer(r)
       \/ ReceiveDone(r) \/ RPCCanceled(r)
       \/ Worker(r)
  \/ \E n \in Notifies :
       \/ handleReferNotify(n) \/ NotifyRefused(n) \/ NotifyTimeout(n)
       \/ \E t \in Reqs : ReferDone(n, t)
  \/ \E p \in Parts : PartEnds(p)
  \/ HangUp
  \/ Rest

Spec == Init /\ [][Next]_vars

\* The goroutines run, the timers of the code fire and a SIP transaction
\* comes to an end; nothing is assumed of the peer, of the callers or of the
\* end of the call.
Fairness ==
  /\ \A r \in Reqs :
       /\ WF_vars(getOrCreatePendingTransfer(r))
       /\ WF_vars(ReceiveDone(r))
       /\ WF_vars(Worker(r))
  /\ WF_vars(HangUp)

FairSpec == Spec /\ Fairness

-----------------------------------------------------------------------------
(* Properties.                                                              *)

\* The outcome of a transfer is settled once it is in the channel.
Settled == {"store", "close", "delete", "done"}

Requests == INSTANCE TransferRequests WITH
  begun   <- {t \in Reqs : wpc[t] # "off"},
  outcome <- [t \in Reqs |-> IF wpc[t] \in Settled THEN result[t] ELSE none]

\* "this ensures we return the same outcome to all callers": the requests are
\* answered as TransferRequests says, one transfer at a time and every
\* request of a transfer with its outcome, however the receives from the
\* closed channel interleave with the worker.
RequestsSpec == Requests!Spec

InTransfer == {t \in Reqs : wpc[t] \in {"refer", "sent", "wait", "grace", "end"}}

\* "NOTIFY for a different REFER, skip": a worker is given the result of
\* another REFER than its own only by a NOTIFY without an id, or by one whose
\* id was compared before its own REFER was made.
NotifyIdHonoured ==
  "checked" \notin misled

\* Started and ended transfers balance: the gauge of active transfers and the
\* call state hold exactly the transfers in progress, and the status passed
\* to the state handler is the outcome the callers are given.
TransfersBalance ==
  /\ active = Cardinality(InTransfer) /\ infos = InTransfer
  /\ \A r \in Reqs : reply[r] \in Outcomes =>
       told[joined[r]] = IF reply[r] = "completed" THEN "successful"
                         ELSE IF told[joined[r]] = none THEN none
                         ELSE "failed"

\* The room's audio, muted for the dial tone, comes back when the transfer
\* fails: a call that goes on is not left silent.
AudioRestored ==
  muted => InTransfer # {} \/ "over" \in gone
             \/ \E t \in Reqs : result[t] = "completed"

\* Every request is answered, whatever the peer does: the deadline of the
\* transfer and the end of the SIP transaction bound the worker.
EveryoneAnswered ==
  \A r \in Reqs : pc[r] = "wait" ~> pc[r] = "done"

\* A transferred call is hung up.
TransferredHangsUp ==
  (\E t \in Reqs : result[t] = "completed") ~> "over" \in gone

-----------------------------------------------------------------------------
(* What the code's comments say and its behaviour does not bear out.        *)

\* "Do not buffer the channel to avoid reading a result for an old request"
\* (referDone): a worker is not given a result that was waiting on the channel
\* before it sent its REFER.
OwnResult ==
  "parked" \notin misled
=============================================================================
