----------------------------- MODULE SipOutbound ----------------------------
(***************************************************************************)
(* The SIP side of one outbound call: the sipOutbound object of            *)
(* pkg/sip/outbound.go.  Invite sends the INVITE, answers digest           *)
(* challenges and waits for the final response; AckInviteOK acknowledges   *)
(* it; AcceptBye, newRefer and Close are requests of the dialog.  All of   *)
(* them take c.mu, and Invite and sendBye keep it while they wait for the  *)
(* network.  An INVITE that was cancelled is handed to                     *)
(* watchCancelledInvite, which runs without the lock.                      *)
(*                                                                         *)
(* c.invite and c.inviteOk are set together and dropped together, so one   *)
(* variable stands for both, and the branch of Close that calls            *)
(* sendCancel (an INVITE without its answer) is never taken.               *)
(*                                                                         *)
(* Here every method may be called whenever c.mu allows.  OutboundCall     *)
(* restricts the order to the one outboundCall uses.                       *)
(***************************************************************************)
EXTENDS Integers

CONSTANTS
  MaxAuthTries,   \* INVITEs sent by one Invite (5 in the code)
  MaxRefers,      \* bound: REFER requests sent in one dialog
  MaxByes         \* bound: BYEs sent while the service shuts down

ASSUME SipOutboundAssumption ==
  /\ MaxAuthTries \in Nat \ {0}
  /\ MaxRefers \in Nat
  /\ MaxByes \in Nat \ {0}

VARIABLES
  lock,         \* c.mu: "free", or held by "invite" or "bye"
  inviting,     \* Invite: "idle", "send", "wait", "ok" or "err" (returned)
  try,          \* INVITE attempts made by Invite
  dialog,       \* c.invite and c.inviteOk are not nil
  nextCSeq,     \* c.nextCSeq
  finalStatus,  \* c.finalStatus: 0, 200, Unexpected2xx or Failure
  smClosing,    \* the fuse closing of the call manager is broken
  watcher,      \* watchCancelledInvite: "none", "watching", "done"
  answered,     \* a 200 OK was read by sipResponse (history)
  acks,         \* EventAckSent (history)
  failed,       \* EventFailed (history)
  cancels,      \* EventCancelSent (history)
  lateAnswers,  \* EventLateAnswerReceived (history)
  byes,         \* EventByeSent (history)
  byeAccepted,  \* AcceptBye ended a dialog of ours (history)
  refers,       \* REFER requests sent (history)
  lastCSeq      \* CSeq of the last request sent by setCSeq (history)

invVars  == <<inviting, try, watcher>>
evVars   == <<acks, failed, cancels, lateAnswers>>
byeVars  == <<byes, byeAccepted>>
seqVars  == <<nextCSeq, refers, lastCSeq>>
sipVars  == <<lock, invVars, dialog, finalStatus, smClosing, answered, evVars,
              byeVars, seqVars>>

Failure == 486         \* stands for every final status of 300 and above
Unexpected2xx == 202   \* a 2xx that is not 200

SipInit ==
  /\ lock = "free" /\ inviting = "idle" /\ try = 0
  /\ dialog = FALSE /\ nextCSeq = 1 /\ finalStatus = 0
  /\ smClosing = FALSE /\ watcher = "none"
  /\ answered = FALSE
  /\ acks = 0 /\ failed = 0 /\ cancels = 0 /\ lateAnswers = 0
  /\ byes = 0 /\ byeAccepted = FALSE /\ refers = 0
  /\ lastCSeq = -1

-----------------------------------------------------------------------------
(* Helpers that run with c.mu held.                                         *)

setCSeq ==
  /\ lastCSeq' = nextCSeq
  /\ nextCSeq' = nextCSeq + 1

drop ==
  /\ dialog' = FALSE
  /\ nextCSeq' = 0

-----------------------------------------------------------------------------
(* Invite.  It is called once in the life of the object.                    *)

InviteBegins ==
  /\ lock = "free" /\ inviting = "idle"
  /\ lock' = "invite"
  /\ inviting' = "send"
  /\ UNCHANGED <<try, watcher, dialog, finalStatus, smClosing, answered,
                 evVars, byeVars, seqVars>>

inviteReturnsFailed(result, status) ==   \* mutant: no check of resp = nil
  /\ lock' = "free"
  /\ inviting' = result
  /\ IF status \in {Failure, Unexpected2xx}
     THEN finalStatus' = status
     ELSE UNCHANGED finalStatus
  /\ failed' = failed + 1

\* The end of Invite, with the deferred function that records a failure.
inviteReturns(result, status) ==
  /\ lock' = "free"
  /\ inviting' = result
  /\ IF status \in {Failure, Unexpected2xx}
     THEN finalStatus' = status
     ELSE UNCHANGED finalStatus
  /\ failed' = IF status = Failure THEN failed + 1 ELSE failed

\* The request could not be sent: the last response is overwritten by nil.
attemptInviteFails ==
  /\ lock = "invite" /\ inviting = "send"
  /\ setCSeq
  /\ inviteReturns("err", 0)
  /\ UNCHANGED <<try, watcher, dialog, smClosing, answered, acks, cancels,
                 lateAnswers, byeVars, refers>>

attemptInvite ==
  /\ lock = "invite" /\ inviting = "send"
  /\ setCSeq
  /\ try' = try + 1
  /\ inviting' = "wait"
  /\ UNCHANGED <<lock, watcher, dialog, finalStatus, smClosing, answered,
                 evVars, byeVars, refers>>

\* sipResponse: ctx ended or the service stops.  The select may also take
\* this branch when a response is waiting.
InviteCancelled ==
  /\ lock = "invite" /\ inviting = "wait"
  /\ cancels' = cancels + 1
  /\ watcher' = "watching"
  /\ lock' = "free" /\ inviting' = "err"
  /\ UNCHANGED <<try, dialog, finalStatus, smClosing, answered, acks, failed,
                 lateAnswers, byeVars, seqVars>>

\* sipResponse: the transaction ends without a final response.
InviteTimesOut ==
  /\ lock = "invite" /\ inviting = "wait"
  /\ inviteReturns("err", 0)
  /\ UNCHANGED <<try, watcher, dialog, smClosing, answered, acks, cancels,
                 lateAnswers, byeVars, seqVars>>

\* A final response that is neither 200 nor a challenge, or a challenge that
\* cannot be answered (no credentials, no or a bad header).
InviteFails(status) ==
  /\ lock = "invite" /\ inviting = "wait"
  /\ inviteReturns("err", status)
  /\ UNCHANGED <<try, watcher, dialog, smClosing, answered, acks, cancels,
                 lateAnswers, byeVars, seqVars>>

\* A challenge that is answered by another INVITE.
InviteChallenged ==
  /\ lock = "invite" /\ inviting = "wait"
  /\ try < MaxAuthTries
  /\ inviting' = "send"
  /\ UNCHANGED <<lock, try, watcher, dialog, finalStatus, smClosing, answered,
                 evVars, byeVars, seqVars>>

\* The 200 OK.  Without a tag in its To header (~ok) Invite fails, but the
\* dialog is set.
InviteAnswered(ok) ==
  /\ lock = "invite" /\ inviting = "wait"
  /\ answered' = TRUE
  /\ finalStatus' = 200
  /\ dialog' = TRUE
  /\ lock' = "free"
  /\ inviting' = IF ok THEN "ok" ELSE "err"
  /\ UNCHANGED <<try, watcher, smClosing, evVars, byeVars, seqVars>>

-----------------------------------------------------------------------------
(* watchCancelledInvite.                                                    *)

\* A 2xx after the CANCEL: it is acknowledged and hung up at once.
WatchAnswered ==
  /\ watcher = "watching"
  /\ watcher' = "done"
  /\ lateAnswers' = lateAnswers + 1
  /\ UNCHANGED <<lock, inviting, try, dialog, finalStatus, smClosing,
                 answered, acks, failed, cancels, byeVars, seqVars>>

\* Another final response, the end of the transaction, or the grace timer.
WatchEnds ==
  /\ watcher = "watching"
  /\ watcher' = "done"
  /\ UNCHANGED <<lock, inviting, try, dialog, finalStatus, smClosing,
                 answered, evVars, byeVars, seqVars>>

-----------------------------------------------------------------------------
(* The dialog.                                                              *)

\* Called once, after Invite succeeded.
AckInviteOK ==
  /\ lock = "free"
  /\ inviting = "ok" /\ dialog
  /\ acks = 0
  /\ acks' = acks + 1
  /\ UNCHANGED <<lock, invVars, dialog, finalStatus, smClosing, answered,
                 failed, cancels, lateAnswers, byeVars, seqVars>>

\* The response to the peer is written before the lock is taken.
AcceptBye ==
  /\ lock = "free"
  /\ drop
  /\ byeAccepted' = (byeAccepted \/ dialog)
  /\ UNCHANGED <<lock, invVars, finalStatus, smClosing, answered, evVars,
                 byes, refers, lastCSeq>>

newReferReqSameCSeq == \* mutant: the REFER does not consume its CSeq
  /\ lock = "free"
  /\ dialog /\ ~smClosing
  /\ refers < MaxRefers
  /\ refers' = refers + 1
  /\ lastCSeq' = nextCSeq
  /\ UNCHANGED <<lock, invVars, dialog, finalStatus, smClosing, answered,
                 evVars, byeVars, nextCSeq>>

\* The first half of transferCall, under the lock.
newReferReq ==
  /\ lock = "free"
  /\ dialog /\ ~smClosing
  /\ refers < MaxRefers
  /\ setCSeq
  /\ refers' = refers + 1
  /\ UNCHANGED <<lock, invVars, dialog, finalStatus, smClosing, answered,
                 evVars, byeVars>>

\* Close without a dialog.
CloseDropped ==
  /\ lock = "free"
  /\ ~dialog
  /\ drop
  /\ UNCHANGED <<lock, invVars, finalStatus, smClosing, answered, evVars,
                 byeVars, refers, lastCSeq>>

\* sendBye while the service stops: written, not waited for, not dropped.
SendByeNoWait ==
  /\ lock = "free"
  /\ dialog /\ smClosing
  /\ byes < MaxByes
  /\ byes' = byes + 1
  /\ UNCHANGED <<lock, invVars, dialog, finalStatus, smClosing, answered,
                 evVars, byeAccepted, seqVars>>

SendByeNoDrop ==       \* mutant: the dialog survives the BYE
  /\ lock = "free"
  /\ dialog /\ ~smClosing
  /\ lock' = "bye"
  /\ setCSeq
  /\ byes' = byes + 1
  /\ UNCHANGED <<invVars, dialog, finalStatus, smClosing, answered, evVars,
                 byeAccepted, refers>>

\* sendBye: the dialog is dropped before the request is sent.
SendBye ==
  /\ lock = "free"
  /\ dialog /\ ~smClosing
  /\ lock' = "bye"
  /\ lastCSeq' = nextCSeq
  /\ drop
  /\ byes' = byes + 1
  /\ UNCHANGED <<invVars, finalStatus, smClosing, answered, evVars,
                 byeAccepted, refers>>

SendByeReturns ==
  /\ lock = "bye"
  /\ lock' = "free"
  /\ UNCHANGED <<invVars, dialog, finalStatus, smClosing, answered, evVars,
                 byeVars, seqVars>>

\* callManager.Stop breaks the fuse the object watches.
StopBreaks ==
  /\ ~smClosing
  /\ smClosing' = TRUE
  /\ UNCHANGED <<lock, invVars, dialog, finalStatus, answered, evVars,
                 byeVars, seqVars>>

SipNext ==
  \/ InviteBegins \/ attemptInvite \/ attemptInviteFails
  \/ InviteCancelled \/ InviteTimesOut \/ InviteChallenged
  \/ \E status \in {Failure, Unexpected2xx} : InviteFails(status)
  \/ \E ok \in BOOLEAN : InviteAnswered(ok)
  \/ WatchAnswered \/ WatchEnds
  \/ AckInviteOK \/ AcceptBye \/ newReferReq
  \/ CloseDropped \/ SendByeNoWait \/ SendBye \/ SendByeReturns
  \/ StopBreaks

SipSpec == SipInit /\ [][SipNext]_sipVars

-----------------------------------------------------------------------------
(* Properties.                                                              *)

SipFlagsOK ==
  /\ dialog \in BOOLEAN /\ smClosing \in BOOLEAN
  /\ answered \in BOOLEAN /\ byeAccepted \in BOOLEAN

SipValuesOK ==
  /\ lock \in {"free", "invite", "bye"}
  /\ inviting \in {"idle", "send", "wait", "ok", "err"}
  /\ watcher \in {"none", "watching", "done"}
  /\ try \in 0..MaxAuthTries
  /\ finalStatus \in {0, 200, Unexpected2xx, Failure}
  /\ acks \in 0..1 /\ failed \in 0..1 /\ cancels \in 0..1
  /\ lateAnswers \in 0..1
  /\ byes \in Nat /\ refers \in 0..MaxRefers
  /\ nextCSeq \in Nat /\ lastCSeq \in Int

\* The variables have their types, no more than MaxAuthTries INVITEs are
\* sent by Invite, and each event of the setup is emitted at most once.
SipTypeOK == SipFlagsOK /\ SipValuesOK

\* The INVITE has one outcome: answered, failed, cancelled or none; the
\* final status of sipOutbound is 200 exactly if the 200 OK was read, and
\* stays 0 for a cancelled INVITE, even if a 2xx comes after the CANCEL.
OneOutcome ==
  /\ failed + cancels + (IF answered THEN 1 ELSE 0) <= 1
  /\ (finalStatus = 200) <=> answered
  /\ (finalStatus = Failure) <=> (failed = 1)
  /\ cancels = 1 => finalStatus = 0
  /\ lateAnswers > 0 => cancels = 1

\* sendBye hangs up answered calls only, and once: only while the service
\* shuts down, when the dialog is not dropped, may a second BYE follow.
ByeOnce ==
  /\ byes > 0 => answered
  /\ byes > 1 => smClosing

\* Once the peer's BYE has dropped the dialog, no BYE of ours follows.
NoByeAfterPeerBye ==
  [][byeAccepted => byes' = byes]_sipVars

\* Every INVITE, REFER and BYE numbered by setCSeq has a higher CSeq than
\* the one before it.
CSeqIncreases ==
  [][ try' # try \/ refers' # refers \/ (lock # "bye" /\ lock' = "bye")
      => lastCSeq' > lastCSeq ]_sipVars

\* Where Invite is decides what else may have happened.
SipPhase ==
  /\ lock = "invite" <=> inviting \in {"send", "wait"}
  /\ inviting # "err" => failed = 0 /\ cancels = 0
  /\ watcher = "none" <=> cancels = 0
  /\ inviting \in {"idle", "send", "wait"} =>
       /\ ~answered /\ ~byeAccepted
       /\ finalStatus = 0
  /\ inviting = "ok" => answered
  /\ lock = "bye" => ~dialog
  /\ inviting = "idle" => try = 0 /\ nextCSeq \in {0, 1} /\ lastCSeq = -1
  /\ inviting = "send" => try < MaxAuthTries
  /\ inviting \in {"send", "wait"} \/ dialog => nextCSeq > lastCSeq
  /\ dialog => answered /\ ~byeAccepted
  /\ answered => dialog \/ byes > 0 \/ byeAccepted
  /\ dialog /\ ~smClosing => byes = 0
  /\ watcher = "watching" => lateAnswers = 0

\* The inductive invariant of the object.
SipInv == SipTypeOK /\ OneOutcome /\ ByeOnce /\ SipPhase
=============================================================================
