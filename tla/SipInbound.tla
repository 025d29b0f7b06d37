----------------------------- MODULE SipInbound -----------------------------
(***************************************************************************)
(* The SIP side of one inbound call: the sipInbound object of              *)
(* pkg/sip/inbound.go.  It owns the INVITE server transaction and, once    *)
(* the call is answered, the dialog.  Its methods are called from several  *)
(* goroutines: the INVITE handler (StartRinging, RespondAndDrop, Accept),  *)
(* BYE and ACK request handlers, the ringing goroutine, a transfer, and    *)
(* whoever closes the call (CloseWithStatus).  They are serialised by      *)
(* c.mu, which Accept and sendBye keep while they wait for the network.    *)
(*                                                                         *)
(* Here every method may be called in any order and at any time that       *)
(* c.mu allows, so what holds here holds for any caller.  InboundCall      *)
(* restricts the order to the one inboundCall uses.                        *)
(***************************************************************************)
EXTENDS Integers

CONSTANTS
  InviteCSeq,   \* CSeq of the INVITE
  inviteOKRetryAttempts,        \* repetitions of the 200 OK (5 in the code)
  inviteOKRetryAttemptsNoACK,   \* the same if no ACK is waited for (2)
  MaxRefers,    \* bound: REFER requests sent in one dialog
  MaxAcks       \* bound: ACK handlers running at the same time

ASSUME SipInboundAssumption ==
  /\ InviteCSeq \in Nat
  /\ inviteOKRetryAttempts \in Nat \ {0}
  /\ inviteOKRetryAttemptsNoACK \in 0..inviteOKRetryAttempts
  /\ MaxRefers \in Nat
  /\ MaxAcks \in Nat

VARIABLES
  lock,             \* c.mu: "free", or held by "accept", "bye" or "byeRetry"
  inviteTx,         \* c.inviteTx # nil
  invite,           \* c.invite # nil
  inviteOk,         \* c.inviteOk # nil
  nextRequestCSeq,  \* c.nextRequestCSeq
  ringing,          \* c.ringing # nil; its channel is closed when reset
  ringer,           \* the ringing goroutine: "none", "running", "exited"
  panicked,         \* StartRinging dereferenced a nil inviteTx
  cancel,           \* a CANCEL: "none", "pending" in tx.Cancels(), "taken"
  acked,            \* c.acked is broken
  acking,           \* AcceptAck calls between acked.Break and okSending.Load
  txAcks,           \* an ACK is waiting in inviteTx.Acks()
  okSending,        \* c.okSending
  ackReported,      \* c.ackReported: EventAckReceived was emitted
  lastStatus,       \* c.lastCallStatus: 0, 200 or Reject
  legTr,            \* c.legTr: "udp" or "tcp"
  acceptCalled,     \* Accept was entered with a transaction to answer
  try,              \* Accept's loop counter, 0 when it is not running
  waitForAck,       \* Accept's argument
  writing,          \* Accept is about to write the 200 OK
  answered,         \* a 200 OK was written (history)
  okFailed,         \* a repeated 200 OK could not be written (history)
  rejects,          \* final non-2xx responses written (history)
  rejectCached,     \* cm.rejectedInvites holds an answer to replay
  byes,             \* hangups by sendBye (history)
  byeAccepted,      \* AcceptBye completed (history)
  refers,           \* REFER requests sent (history)
  lastCSeq          \* highest CSeq of a request sent in the dialog (history)

legVars  == <<inviteTx, invite, inviteOk, nextRequestCSeq>>
ringVars == <<ringing, ringer, panicked>>
ackVars  == <<acked, acking, txAcks, ackReported>>
accVars  == <<lock, acceptCalled, try, waitForAck, writing>>
byeVars  == <<byes, byeAccepted, refers, lastCSeq>>
okVars   == <<okSending, answered, okFailed>>
endVars  == <<lastStatus, rejects>>
sipVars  == <<legVars, ringVars, cancel, ackVars, accVars, byeVars, okVars,
              endVars, legTr, rejectCached>>

Reject == 486   \* stands for every final status of 300 and above

\* try > maxRetries ends Accept's loop: maxRetries + 1 writes at most.
maxRetries ==
  IF legTr # "udp" THEN 1
  ELSE IF waitForAck THEN inviteOKRetryAttempts
  ELSE inviteOKRetryAttemptsNoACK

SipInit ==
  /\ lock = "free"
  /\ inviteTx = TRUE /\ invite = TRUE /\ inviteOk = FALSE
  /\ nextRequestCSeq = InviteCSeq + 1
  /\ ringing = FALSE /\ ringer = "none" /\ panicked = FALSE
  /\ cancel = "none"
  /\ acked = FALSE /\ acking = 0 /\ txAcks = FALSE
  /\ okSending = FALSE /\ ackReported = FALSE
  /\ lastStatus = 0
  /\ legTr \in {"udp", "tcp"}
  /\ acceptCalled = FALSE /\ try = 0 /\ waitForAck = FALSE /\ writing = FALSE
  /\ answered = FALSE /\ okFailed = FALSE
  /\ rejects = 0 /\ rejectCached = FALSE
  /\ byes = 0 /\ byeAccepted = FALSE /\ refers = 0
  /\ lastCSeq = InviteCSeq

-----------------------------------------------------------------------------
(* Helpers that run with c.mu held.                                         *)

\* Closing the stop channel is what ~ringing means to a running ringer.
stopRinging ==
  ringing' = FALSE

dropKeepsTx ==   \* mutant: the transaction is not forgotten
  /\ stopRinging
  /\ invite' = FALSE
  /\ inviteOk' = FALSE
  /\ nextRequestCSeq' = 0
  /\ UNCHANGED inviteTx

drop ==
  /\ stopRinging
  /\ inviteTx' = FALSE
  /\ invite' = FALSE
  /\ inviteOk' = FALSE
  /\ nextRequestCSeq' = 0

setLastStatusAlways(code) ==   \* mutant: a later failure replaces success
  lastStatus' = code

\* Success is never overwritten; provisional statuses are not recorded.
setLastStatus(code) ==
  lastStatus' = IF lastStatus = 200 THEN lastStatus ELSE code

\* A final non-2xx response: written (sent) or lost because there is no
\* transaction left or its write failed.
respond(sent) ==
  IF sent
  THEN /\ inviteTx
       /\ setLastStatus(Reject)
       /\ rejects' = rejects + 1
  ELSE UNCHANGED endVars

setCSeq ==
  lastCSeq' = nextRequestCSeq

acceptedForgotten ==   \* mutant: Accept returns without c.accepted(r)
  UNCHANGED <<inviteOk, inviteTx>>

accepted ==
  /\ inviteOk' = TRUE
  /\ inviteTx' = FALSE

-----------------------------------------------------------------------------
(* Ringing and CANCEL.                                                      *)

StartRinging ==
  /\ lock = "free"
  /\ ringer = "none" /\ ~panicked
  /\ ringing' = TRUE
  /\ IF inviteTx
     THEN ringer' = "running" /\ UNCHANGED panicked
     ELSE panicked' = TRUE /\ UNCHANGED ringer   \* tx.Cancels() on a nil tx
  /\ UNCHANGED <<accVars, legVars, cancel, ackVars, okVars, endVars, byeVars,
                 legTr, rejectCached>>

\* The transaction layer queues the caller's CANCEL.
CancelArrives ==
  /\ cancel = "none"
  /\ inviteTx
  /\ cancel' = "pending"
  /\ UNCHANGED <<legVars, ringVars, ackVars, accVars, byeVars, okVars,
                 endVars, legTr, rejectCached>>

\* The goroutine's select picks the CANCEL, even if stop is closed as well.
RingerCancelled ==
  /\ ringer = "running"
  /\ cancel = "pending"
  /\ cancel' = "taken"
  /\ ringer' = "exited"
  /\ UNCHANGED <<legVars, ringing, panicked, ackVars, accVars, byeVars,
                 okVars, endVars, legTr, rejectCached>>

RingerStopped ==
  /\ ringer = "running"
  /\ ~ringing
  /\ ringer' = "exited"
  /\ UNCHANGED <<legVars, ringing, panicked, cancel, ackVars, accVars,
                 byeVars, okVars, endVars, legTr, rejectCached>>

Cancelled == cancel = "taken"

-----------------------------------------------------------------------------
(* Rejecting.                                                               *)

Drop ==
  /\ lock = "free"
  /\ drop
  /\ UNCHANGED <<ringer, panicked, cancel, ackVars, accVars, byeVars, okVars,
                 endVars, legTr, rejectCached>>

\* The status is cached for a retry of the INVITE even if it was not sent.
RespondAndDrop ==
  /\ lock = "free"
  /\ \E sent \in BOOLEAN : respond(sent)
  /\ drop
  /\ rejectCached' = TRUE
  /\ UNCHANGED <<ringer, panicked, cancel, ackVars, accVars, byeVars, okVars,
                 legTr>>

-----------------------------------------------------------------------------
(* Answering.  Accept keeps c.mu until it returns.                          *)

AcceptRefused ==
  /\ lock = "free"
  /\ ~inviteTx
  /\ UNCHANGED sipVars

\* Accept is called once in the life of the object, like StartRinging.
AcceptBegins(wait) ==
  /\ lock = "free"
  /\ inviteTx /\ ~acceptCalled
  /\ lock' = "accept"
  /\ stopRinging
  /\ acceptCalled' = TRUE
  /\ try' = 1
  /\ waitForAck' = wait
  /\ writing' = TRUE
  /\ okSending' = TRUE      \* before the write
  /\ UNCHANGED <<legVars, ringer, panicked, cancel, ackVars, byeVars,
                 answered, okFailed, endVars, legTr, rejectCached>>

AcceptForgetsSending ==   \* mutant: okSending is reset by any failed write
  /\ lock = "accept" /\ writing
  /\ lock' = "free" /\ try' = 0
  /\ writing' = FALSE
  /\ okSending' = FALSE
  /\ okFailed' = IF try > 1 THEN TRUE ELSE okFailed
  /\ UNCHANGED <<legVars, ringVars, cancel, ackVars, acceptCalled,
                 waitForAck, byeVars, answered, endVars, legTr,
                 rejectCached>>

\* Respond fails: Accept returns the error and leaves inviteTx as it is.
AcceptWriteFails ==
  /\ lock = "accept" /\ writing
  /\ lock' = "free" /\ try' = 0
  /\ writing' = FALSE
  /\ okSending' = IF try = 1 THEN FALSE ELSE okSending
  /\ okFailed' = IF try > 1 THEN TRUE ELSE okFailed
  /\ UNCHANGED <<legVars, ringVars, cancel, ackVars, acceptCalled,
                 waitForAck, byeVars, answered, endVars, legTr,
                 rejectCached>>

okWritten ==
  /\ lock = "accept" /\ writing
  /\ writing' = FALSE
  /\ answered' = TRUE
  /\ setLastStatus(200)

AcceptWriteAndWait ==
  /\ okWritten
  /\ waitForAck \/ legTr = "udp"
  /\ UNCHANGED <<legVars, ringVars, cancel, ackVars, lock, acceptCalled, try,
                 waitForAck, byeVars, okSending, okFailed, rejects, legTr,
                 rejectCached>>

\* Reliable transport and no wait for the ACK: one write is enough.
AcceptWriteAndReturn ==
  /\ okWritten
  /\ ~waitForAck /\ legTr # "udp"
  /\ accepted
  /\ lock' = "free" /\ try' = 0
  /\ UNCHANGED <<invite, nextRequestCSeq, ringVars, cancel, ackVars,
                 acceptCalled, waitForAck, byeVars, okSending, okFailed,
                 rejects, legTr, rejectCached>>

\* The select of Accept sees the ACK, from the transaction or from AcceptAck.
AcceptAcked ==
  /\ lock = "accept" /\ ~writing
  /\ txAcks \/ acked
  /\ accepted
  /\ lock' = "free" /\ try' = 0
  /\ UNCHANGED <<invite, nextRequestCSeq, ringVars, cancel, ackVars,
                 acceptCalled, waitForAck, writing, byeVars, okVars, endVars,
                 legTr, rejectCached>>

AcceptRetry ==
  /\ lock = "accept" /\ ~writing
  /\ try <= maxRetries
  /\ try' = try + 1
  /\ writing' = TRUE
  /\ UNCHANGED <<lock, acceptCalled, waitForAck, legVars, ringVars, cancel,
                 ackVars, byeVars, okVars, endVars, legTr, rejectCached>>

\* Out of retries.  The result is errNoACK if waitForAck, success otherwise.
AcceptGivesUp ==
  /\ lock = "accept" /\ ~writing
  /\ try > maxRetries
  /\ accepted
  /\ lock' = "free" /\ try' = 0
  /\ UNCHANGED <<invite, nextRequestCSeq, ringVars, cancel, ackVars,
                 acceptCalled, waitForAck, writing, byeVars, okVars, endVars,
                 legTr, rejectCached>>

\* The transaction layer matches an ACK to the INVITE it has answered.
TxAckArrives ==
  /\ ~txAcks
  /\ inviteTx /\ answered
  /\ txAcks' = TRUE
  /\ UNCHANGED <<acked, acking, ackReported, legVars, ringVars, cancel,
                 accVars, byeVars, okVars, endVars, legTr, rejectCached>>

\* AcceptAck takes no lock: it breaks the fuse, then looks at okSending.
AcceptAck ==
  /\ acking < MaxAcks
  /\ acked' = TRUE
  /\ acking' = acking + 1
  /\ UNCHANGED <<txAcks, ackReported, legVars, ringVars, cancel, accVars,
                 byeVars, okVars, endVars, legTr, rejectCached>>

AckReport ==
  /\ acking > 0
  /\ acking' = acking - 1
  /\ ackReported' = (ackReported \/ okSending)
  /\ UNCHANGED <<acked, txAcks, legVars, ringVars, cancel, accVars, byeVars,
                 okVars, endVars, legTr, rejectCached>>

-----------------------------------------------------------------------------
(* Requests of the dialog and the end of it.                                *)

\* The end of AcceptBye; the BYE itself is answered before c.mu is taken.
AcceptBye ==
  /\ lock = "free"
  /\ drop
  /\ byeAccepted' = TRUE
  /\ UNCHANGED <<ringer, panicked, cancel, ackVars, accVars, byes, refers,
                 lastCSeq, okVars, endVars, legTr, rejectCached>>

newReferReqSameCSeq == \* mutant: nextRequestCSeq is not advanced
  /\ lock = "free"
  /\ invite /\ inviteOk
  /\ refers < MaxRefers
  /\ refers' = refers + 1
  /\ setCSeq
  /\ UNCHANGED <<legVars, ringVars, cancel, ackVars, accVars, byes,
                 byeAccepted, okVars, endVars, legTr, rejectCached>>

newReferReq ==
  /\ lock = "free"
  /\ invite /\ inviteOk
  /\ refers < MaxRefers
  /\ refers' = refers + 1
  /\ setCSeq
  /\ nextRequestCSeq' = nextRequestCSeq + 1
  /\ UNCHANGED <<inviteTx, invite, inviteOk, ringVars, cancel, ackVars,
                 accVars, byes, byeAccepted, okVars, endVars, legTr,
                 rejectCached>>

SendByeUnanswered ==   \* mutant: inviteOk is not looked at
  /\ lock = "free"
  /\ invite
  /\ setCSeq
  /\ drop
  /\ byes' = byes + 1
  /\ lock' = "bye"
  /\ UNCHANGED <<ringer, panicked, cancel, ackVars, acceptCalled, try,
                 waitForAck, writing, byeAccepted, refers, okVars, endVars,
                 legTr, rejectCached>>

\* CloseWithStatus on an answered call: drop comes before the BYE is sent,
\* and c.mu is kept until its transaction ends.
SendBye ==
  /\ lock = "free"
  /\ inviteOk /\ invite
  /\ setCSeq
  /\ drop
  /\ byes' = byes + 1
  /\ lock' = "bye"
  /\ UNCHANGED <<ringer, panicked, cancel, ackVars, acceptCalled, try,
                 waitForAck, writing, byeAccepted, refers, okVars, endVars,
                 legTr, rejectCached>>

\* The BYE failed and goes to the Contact address with the next CSeq.
SendByeAgain ==
  /\ lock = "bye"
  /\ lastCSeq' = lastCSeq + 1
  /\ lock' = "byeRetry"
  /\ UNCHANGED <<legVars, ringVars, cancel, ackVars, acceptCalled, try,
                 waitForAck, writing, byes, byeAccepted, refers, okVars,
                 endVars, legTr, rejectCached>>

SendByeReturns ==
  /\ lock \in {"bye", "byeRetry"}
  /\ lock' = "free"
  /\ UNCHANGED <<legVars, ringVars, cancel, ackVars, acceptCalled, try,
                 waitForAck, writing, byeVars, okVars, endVars, legTr,
                 rejectCached>>

SendStatusCached ==    \* mutant: caches the status as RespondAndDrop does
  /\ lock = "free"
  /\ ~inviteOk /\ inviteTx
  /\ \E sent \in BOOLEAN : respond(sent)
  /\ drop
  /\ rejectCached' = TRUE
  /\ UNCHANGED <<ringer, panicked, cancel, ackVars, accVars, byeVars, okVars,
                 legTr>>

\* CloseWithStatus before the answer: a final status, if it can be written.
SendStatus ==
  /\ lock = "free"
  /\ ~inviteOk /\ inviteTx
  /\ \E sent \in BOOLEAN : respond(sent)
  /\ drop
  /\ UNCHANGED <<ringer, panicked, cancel, ackVars, accVars, byeVars, okVars,
                 legTr, rejectCached>>

\* CloseWithStatus when nothing is left to answer or to hang up.
CloseDropped ==
  /\ lock = "free"
  /\ ~inviteOk /\ ~inviteTx
  /\ drop
  /\ UNCHANGED <<ringer, panicked, cancel, ackVars, accVars, byeVars, okVars,
                 endVars, legTr, rejectCached>>

SipNext ==
  \/ StartRinging \/ CancelArrives \/ RingerCancelled \/ RingerStopped
  \/ Drop \/ RespondAndDrop
  \/ \E wait \in BOOLEAN : AcceptBegins(wait)
  \/ AcceptWriteFails \/ AcceptWriteAndWait
  \/ AcceptWriteAndReturn \/ AcceptAcked \/ AcceptRetry \/ AcceptGivesUp
  \/ TxAckArrives \/ AcceptAck \/ AckReport
  \/ AcceptBye \/ newReferReq
  \/ SendBye \/ SendByeAgain \/ SendByeReturns \/ SendStatus \/ CloseDropped

SipSpec == SipInit /\ [][SipNext]_sipVars

-----------------------------------------------------------------------------
(* Properties.                                                              *)

legFlags == inviteTx \in BOOLEAN /\ invite \in BOOLEAN /\ inviteOk \in BOOLEAN
ringFlags == ringing \in BOOLEAN /\ panicked \in BOOLEAN
ackFlags == acked \in BOOLEAN /\ txAcks \in BOOLEAN /\ ackReported \in BOOLEAN
accFlags ==
  acceptCalled \in BOOLEAN /\ waitForAck \in BOOLEAN /\ writing \in BOOLEAN
okFlags ==
  okSending \in BOOLEAN /\ answered \in BOOLEAN /\ okFailed \in BOOLEAN
endFlags == byeAccepted \in BOOLEAN /\ rejectCached \in BOOLEAN

SipFlagsOK ==
  /\ legFlags /\ ringFlags /\ ackFlags /\ accFlags
  /\ okFlags /\ endFlags

SipValuesOK ==
  /\ lock \in {"free", "accept", "bye", "byeRetry"}
  /\ ringer \in {"none", "running", "exited"}
  /\ cancel \in {"none", "pending", "taken"}
  /\ legTr \in {"udp", "tcp"}
  /\ nextRequestCSeq \in Nat /\ lastCSeq \in Nat
  /\ acking \in 0..MaxAcks /\ refers \in 0..MaxRefers
  /\ lastStatus \in {0, 200, Reject}
  /\ try \in 0..(inviteOKRetryAttempts + 1)
  /\ rejects \in Nat /\ byes \in Nat

SipTypeOK == SipFlagsOK /\ SipValuesOK

\* The three pointers are nil together or not at all: respond and sendStatus
\* dereference c.invite after a test of inviteTx only, and newReferReq and
\* sendBye build a request from both c.invite and c.inviteOk.
LegShape ==
  /\ inviteTx => invite
  /\ inviteOk => invite /\ ~inviteTx
  /\ invite => inviteTx \/ inviteOk

\* The INVITE gets one final answer.  The exception is a repeated 200 OK that
\* cannot be written: Accept then leaves inviteTx in place and
\* CloseWithStatus rejects an INVITE that was answered.
OneFinalAnswer ==
  /\ rejects <= 1
  /\ answered /\ rejects > 0 => okFailed

\* sendBye hangs up at most once, only a call whose 200 OK was written and
\* that was never rejected.
ByeOnlyWhenAnswered ==
  /\ byes <= 1
  /\ byes > 0 => answered /\ rejects = 0

\* The status that EventCallEnded and the call record report is 200 exactly
\* when a 200 OK was written (setLastStatus keeps success).
StatusIsAnswer ==
  lastStatus = 200 <=> answered

\* Ringing has stopped once the INVITE has its final answer or was dropped,
\* so that the ringing goroutine can end.
RingingStops ==
  ringing => inviteTx \/ panicked

\* EventAckReceived is about the 200 OK: an ACK that comes before the first
\* write of it was started is not reported, however the two are scheduled.
AckIsForAnswer ==
  ackReported => acceptCalled

\* okSending is set from before the first write of the 200 OK on, and a failed
\* repetition does not take it back.
SendingInv ==
  answered \/ lock = "accept" => okSending

\* What the steps above need and keep: the inductive strengthening of the
\* invariants.  A leg that was rejected, hung up or left by the peer is gone;
\* Accept, while it holds the lock, has a transaction to answer; a written
\* 200 OK leaves inviteTx set only inside Accept or after a failed repetition.
SipInv ==
  /\ SipTypeOK /\ LegShape /\ OneFinalAnswer /\ ByeOnlyWhenAnswered
  /\ StatusIsAnswer /\ RingingStops /\ AckIsForAnswer
  /\ rejects > 0 \/ byes > 0 \/ byeAccepted => ~invite
  /\ lock \in {"bye", "byeRetry"} => byes > 0
  /\ lock = "accept" => inviteTx /\ acceptCalled /\ try > 0 /\ ~ringing
  /\ lock = "accept" /\ writing => (answered <=> try > 1)
  /\ lock = "accept" /\ ~writing => answered
  /\ answered /\ inviteTx => lock = "accept" \/ okFailed
  /\ inviteOk => answered
  /\ answered \/ okSending => acceptCalled
  /\ invite => nextRequestCSeq > lastCSeq

\* After the peer's BYE is accepted no BYE of ours is sent.
NoByeAfterPeerBye ==
  [][byes' > byes => ~byeAccepted]_sipVars

\* AcceptAck takes no lock, so it may run before, during and after the writes of
\* the 200 OK: an ACK handled once a 200 OK is out has been reported when the
\* handler returns, also if a repetition of the 200 OK failed in between; an ACK
\* handled before Accept is not taken for one of the answer.
AckFollowsAnswer ==
  [][acking' < acking =>
       /\ answered => ackReported'
       /\ ackReported' => acceptCalled]_sipVars

\* Every request of the dialog (REFER, BYE, the BYE repeated to the Contact)
\* carries a higher CSeq than the one before it.
CSeqIncreases ==
  [][refers' # refers \/ byes' # byes \/ (lock = "bye" /\ lock' = "byeRetry")
       => lastCSeq' > lastCSeq]_sipVars
=============================================================================
