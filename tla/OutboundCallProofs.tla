------------------------- MODULE OutboundCallProofs -------------------------
(***************************************************************************)
(* Proofs about SipOutbound, for every number of INVITE attempts, REFER    *)
(* requests and BYEs, and about OutboundCall, for any choice of outside    *)
(* events: the call uses its sipOutbound as SipOutbound allows, and close  *)
(* ends the call once, whoever runs it and wherever the dialling goroutine *)
(* is.                                                                     *)
(***************************************************************************)
EXTENDS OutboundCall, TLAPS

\* Zenon proves a leaf unless the leaf names SMT.  Most need a fraction of a
\* second; the limits leave room for a slow machine.
USE ZenonT(90)

(* The leg.  SipInv is inductive; what sipOutbound promises follows from it. *)

\* A new object satisfies the invariant.
LEMMA SipInitInv == SipInit => SipInv
  <1> SUFFICES ASSUME SipInit PROVE SipInv
    OBVIOUS
  <1>1. SipFlagsOK
    BY DEF SipInit, SipFlagsOK
  <1>2. QED
    BY <1>1, SipOutboundAssumption, SMTT(90) DEF SipInit, SipInv, SipTypeOK,
       SipValuesOK, OneOutcome, ByeOnce, SipPhase, Failure, Unexpected2xx

\* Flags stay flags.  (The SMT backend does not tell a Boolean value from a
\* formula, so these are Zenon's.)
LEMMA SipFlagsStep == SipFlagsOK /\ [SipNext]_sipVars => SipFlagsOK'
  <1> SUFFICES ASSUME SipFlagsOK, [SipNext]_sipVars PROVE SipFlagsOK'
    OBVIOUS
  <1>1. CASE SipNext
    <2> USE <1>1 DEF SipFlagsOK, SipNext, InviteBegins, attemptInvite,
            attemptInviteFails, InviteCancelled, InviteTimesOut,
            InviteChallenged, InviteFails, InviteAnswered, WatchAnswered,
            WatchEnds, AckInviteOK, AcceptBye, newReferReq, CloseDropped,
            SendByeNoWait, SendBye, SendByeReturns, StopBreaks
    <2>1. dialog' \in BOOLEAN /\ smClosing' \in BOOLEAN
      BY DEF drop
    <2>2. answered' \in BOOLEAN /\ byeAccepted' \in BOOLEAN
      BY DEF byeVars
    <2>3. QED
      BY <2>1, <2>2 DEF SipFlagsOK
  <1>2. CASE UNCHANGED sipVars
    BY <1>2 DEF SipFlagsOK, sipVars, byeVars
  <1>3. QED
    BY <1>1, <1>2

\* Every method, called at any time the lock allows, keeps the invariant.
LEMMA SipStepInv == SipInv /\ [SipNext]_sipVars => SipInv'
  <1> SUFFICES ASSUME SipInv, [SipNext]_sipVars PROVE SipInv'
    OBVIOUS
  <1>f. SipFlagsOK /\ SipFlagsOK'
    BY SipFlagsStep DEF SipInv, SipTypeOK
  <1> USE <1>f, SipOutboundAssumption
      DEF SipInv, SipTypeOK, SipFlagsOK, SipValuesOK, OneOutcome, ByeOnce,
          SipPhase, Failure, Unexpected2xx, invVars, evVars, byeVars, seqVars
  <1>1. CASE InviteBegins
    BY <1>1, SMTT(90) DEF InviteBegins
  <1>2. CASE attemptInvite
    BY <1>2, SMTT(90) DEF attemptInvite, setCSeq
  <1>3. CASE attemptInviteFails
    BY <1>3, SMTT(90) DEF attemptInviteFails, setCSeq, inviteReturns
  <1>4. CASE InviteCancelled
    BY <1>4, SMTT(90) DEF InviteCancelled
  <1>5. CASE InviteTimesOut
    BY <1>5, SMTT(90) DEF InviteTimesOut, inviteReturns
  <1>6. CASE InviteChallenged
    BY <1>6, SMTT(90) DEF InviteChallenged
  <1>7. ASSUME NEW st \in {Failure, Unexpected2xx}, InviteFails(st)
        PROVE  SipInv'
    BY <1>7, SMTT(90) DEF InviteFails, inviteReturns
  <1>8. ASSUME NEW ok \in BOOLEAN, InviteAnswered(ok) PROVE SipInv'
    BY <1>8, SMTT(90) DEF InviteAnswered
  <1>9. CASE WatchAnswered
    BY <1>9, SMTT(90) DEF WatchAnswered
  <1>10. CASE WatchEnds
    BY <1>10, SMTT(90) DEF WatchEnds
  <1>11. CASE AckInviteOK
    BY <1>11, SMTT(90) DEF AckInviteOK
  <1>12. CASE AcceptBye
    BY <1>12, SMTT(90) DEF AcceptBye, drop
  <1>13. CASE newReferReq
    BY <1>13, SMTT(90) DEF newReferReq, setCSeq
  <1>14. CASE CloseDropped
    BY <1>14, SMTT(90) DEF CloseDropped, drop
  <1>15. CASE SendByeNoWait
    BY <1>15, SMTT(90) DEF SendByeNoWait
  <1>16. CASE SendBye
    BY <1>16, SMTT(90) DEF SendBye, drop
  <1>17. CASE SendByeReturns
    BY <1>17, SMTT(90) DEF SendByeReturns
  <1>18. CASE StopBreaks
    BY <1>18, SMTT(90) DEF StopBreaks
  <1>19. CASE UNCHANGED sipVars
    BY <1>19, SMTT(90) DEF sipVars
  <1> HIDE DEF SipInv, SipTypeOK, SipFlagsOK, SipValuesOK, OneOutcome,
          ByeOnce, SipPhase, Failure, Unexpected2xx, invVars, evVars,
          byeVars, seqVars
  <1>20. QED
    BY <1>1, <1>2, <1>3, <1>4, <1>5, <1>6, <1>7, <1>8, <1>9, <1>10, <1>11,
       <1>12, <1>13, <1>14, <1>15, <1>16, <1>17, <1>18, <1>19 DEF SipNext

\* The object of one outbound call keeps SipInv under any sequence of calls.
THEOREM SipInvariance == SipSpec => []SipInv
  BY SipInitInv, SipStepInv, PTL DEF SipSpec

\* Its variables keep their types; Invite sends at most MaxAuthTries INVITEs.
THEOREM SipTypeCorrect == SipSpec => []SipTypeOK
  <1>1. SipInv => SipTypeOK
    BY DEF SipInv
  <1>2. QED
    BY <1>1, SipInvariance, PTL

\* An INVITE is answered, failed or cancelled, never two of them, and the
\* final status says which.
THEOREM InviteHasOneOutcome == SipSpec => []OneOutcome
  <1>1. SipInv => OneOutcome
    BY DEF SipInv
  <1>2. QED
    BY <1>1, SipInvariance, PTL

\* Only answered calls are hung up, and once unless the service shuts down.
THEOREM ByeIsSentOnce == SipSpec => []ByeOnce
  <1>1. SipInv => ByeOnce
    BY DEF SipInv
  <1>2. QED
    BY <1>1, SipInvariance, PTL

\* sendBye sends nothing after AcceptBye: it finds the dialog dropped.
THEOREM PeerByeIsFinal == SipSpec => NoByeAfterPeerBye
  <1>1. SipInv /\ [SipNext]_sipVars => [byeAccepted => byes' = byes]_sipVars
    <2> SUFFICES ASSUME SipInv, SipNext, byeAccepted PROVE byes' = byes
      OBVIOUS
    <2>1. ~dialog
      BY DEF SipInv, SipPhase
    <2>2. QED
      BY <2>1 DEF SipNext, byeVars, InviteBegins, attemptInvite,
         attemptInviteFails, InviteCancelled, InviteTimesOut, InviteChallenged,
         InviteFails, InviteAnswered, WatchAnswered, WatchEnds, AckInviteOK,
         AcceptBye, newReferReq, CloseDropped, SendByeNoWait, SendBye,
         SendByeReturns, StopBreaks
  <1>2. QED
    BY <1>1, SipInvariance, PTL DEF SipSpec, NoByeAfterPeerBye

\* setCSeq never hands out a number that is not above the one before it.
THEOREM RequestsAreOrdered == SipSpec => CSeqIncreases
  <1>1. SipInv /\ [SipNext]_sipVars
          => [ try' # try \/ refers' # refers
                 \/ (lock # "bye" /\ lock' = "bye")
               => lastCSeq' > lastCSeq ]_sipVars
    <2> SUFFICES ASSUME SipInv, SipNext,
                        try' # try \/ refers' # refers
                          \/ (lock # "bye" /\ lock' = "bye")
                 PROVE  lastCSeq' > lastCSeq
      OBVIOUS
    <2>1. attemptInvite \/ newReferReq \/ SendBye
      BY DEF SipNext, invVars, seqVars, InviteBegins, inviteReturns,
         attemptInviteFails, InviteCancelled, InviteTimesOut,
         InviteChallenged, InviteFails, InviteAnswered, WatchAnswered,
         WatchEnds, AckInviteOK, AcceptBye, CloseDropped, SendByeNoWait,
         SendByeReturns, StopBreaks
    <2>2. QED
      BY <2>1 DEF attemptInvite, newReferReq, SendBye, setCSeq, SipInv,
                  SipTypeOK, SipValuesOK, SipPhase
  <1>2. QED
    BY <1>1, SipInvariance, PTL DEF SipSpec, CSeqIncreases

-----------------------------------------------------------------------------
(* The call.                                                               *)

\* Every step of the call is a call of a sipOutbound method, or leaves the
\* object alone.
LEMMA StepIsSipStep == [Next]_vars => [SipNext]_sipVars
  <1> SUFFICES ASSUME [Next]_vars PROVE SipNext \/ UNCHANGED sipVars
    OBVIOUS
  <1>1. CASE dialStep
    BY <1>1 DEF SipNext, dialStep, newCallMedia, connectToRoom,
       newCallRegisters, Dial, connectSIP, GenerateOffer, Invite,
       inviteCancelled, inviteOk, inviteErr, sipClose, inviteErrReturns,
       ProcessAnswer, ack, check, connectMedia, reportActive, waitCloseClosed,
       ensureClosed
  <1>2. ASSUME NEW a \in Actors, closeStep(a)
        PROVE  SipNext \/ UNCHANGED sipVars
    BY <1>2 DEF SipNext, closeStep, CloseWith, closeAgain, closeBegins,
       closeSip, sipClose, closeSipReturns, closeReleases
  <1>3. ASSUME NEW b \in Byes, byeStep(b)
        PROVE  SipNext \/ UNCHANGED sipVars
    BY <1>3 DEF SipNext, byeStep, onOutboundBye, byeAccepts
  <1>4. CASE \/ waitCloseEvent \/ ctxEnds \/ rpcReturns
             \/ EndCall \/ Stop \/ StopSwaps
             \/ transferCall \/ transferReturns \/ watchStep
    BY <1>4 DEF SipNext, waitCloseEvent, ctxEnds, rpcReturns, EndCall, Stop,
       StopSwaps, transferCall, transferReturns, watchStep
  <1>5. CASE UNCHANGED vars
    BY <1>5 DEF vars
  <1>6. QED
    BY <1>1, <1>2, <1>3, <1>4, <1>5 DEF Next

\* What SipOutbound keeps under any sequence of calls, the call keeps: its
\* actions are made of the methods of the leg.
LEMMA CallUsesSipOutbound == Spec => SipSpec
  <1>1. Init => SipInit
    BY DEF Init
  <1>2. QED
    BY <1>1, StepIsSipStep, PTL DEF Spec, SipSpec

\* A new call satisfies the invariant.
LEMMA CallInitInv == Init => CallInv
  BY OutboundCallAssumption
  DEF Init, SipInit, CallInv, LockHeld, CreatedInv, StoppedInv,
      EndStatusIsFinal, Closing, Creating, Dialling, Actors, Closers, Places

\* What the SIP side has reached lasts: the final status, a dialog that is
\* gone, and a BYE that was sent.
SipLasts ==
  /\ finalStatus' = finalStatus
  /\ dialog' => dialog
  /\ byes > 0 => byes' > 0

\* The dialling goroutine goes on with c.mu held, whatever the SIP side does.
DialWalk ==
  /\ \E from \in Dialling, to \in Dialling \cup {"close"} :
       Goto("call", from, to)
  /\ UNCHANGED <<mu, created, stopped, stoppedAt, gauge, media, room, topic,
                 registered, ended, callEnded, endStatus>>

\* Another goroutine is on its way to close the call.
AsideWalk ==
  /\ \E a \in Closers, from \in {"idle", "swap", "accept", "refer"},
        to \in {"swap", "accept", "refer", "lock", "done"} :
       /\ Goto(a, from, to)
       /\ created \/ pc["call"] = "rpcOpen" \/ to \in {"swap", "done"}
  /\ UNCHANGED <<mu, created, stopped, stoppedAt, gauge, media, room, topic,
                 ended, callEnded, endStatus>>
  /\ registered' => registered
  /\ SipLasts

\* No goroutine of the call moves.
StandStill ==
  /\ UNCHANGED <<pc, mu, created, stopped, stoppedAt, gauge, media, room, topic,
                 registered, ended, callEnded, endStatus>>
  /\ SipLasts

\* The steps of newCall, of close, and those around the dialling.
OwnStep ==
  \/ \E ok \in BOOLEAN : newCallMedia(ok)
  \/ \E joined, ok \in BOOLEAN : connectToRoom(joined, ok)
  \/ newCallRegisters \/ Dial \/ connectSIP \/ connectMedia \/ reportActive
  \/ waitCloseEvent \/ waitCloseClosed \/ ensureClosed
  \/ \E a \in Actors : closeStep(a)

\* A method of the SIP side that is not part of Invite keeps what was reached.
LEMMA Lasting ==
  ASSUME SipInv,
         \/ UNCHANGED sipVars \/ WatchAnswered \/ WatchEnds \/ StopBreaks
         \/ AcceptBye \/ newReferReq
         \/ SendBye \/ SendByeNoWait \/ CloseDropped \/ SendByeReturns
  PROVE  SipLasts
  <1>s. byes \in Nat
    BY DEF SipInv, SipTypeOK, SipValuesOK
  <1> USE DEF SipLasts, byeVars
  <1>1. CASE UNCHANGED sipVars
    BY <1>1 DEF sipVars
  <1>2. CASE WatchAnswered
    BY <1>2 DEF WatchAnswered
  <1>3. CASE WatchEnds
    BY <1>3 DEF WatchEnds
  <1>4. CASE StopBreaks
    BY <1>4 DEF StopBreaks
  <1>5. CASE AcceptBye
    BY <1>5 DEF AcceptBye, drop
  <1>6. CASE newReferReq
    BY <1>6 DEF newReferReq
  <1>7. CASE SendBye
    BY <1>7, <1>s, SMTT(90) DEF SendBye, drop
  <1>8. CASE SendByeNoWait
    BY <1>8, <1>s, SMTT(90) DEF SendByeNoWait
  <1>9. CASE CloseDropped
    BY <1>9 DEF CloseDropped, drop
  <1>10. CASE SendByeReturns
    BY <1>10 DEF SendByeReturns
  <1> QED
    BY <1>1, <1>2, <1>3, <1>4, <1>5, <1>6, <1>7, <1>8, <1>9, <1>10

\* The steps of Dial with c.mu held.
LEMMA Dials ==
  ASSUME \/ GenerateOffer \/ Invite \/ inviteOk \/ inviteErr
         \/ inviteErrReturns \/ ack
         \/ \E ok \in BOOLEAN : ProcessAnswer(ok) \/ check(ok),
         CallInv
  PROVE  DialWalk
  <1>1. ASSUME dialStays PROVE
          UNCHANGED <<mu, created, stopped, stoppedAt, gauge, media, room,
                      topic, registered, ended, callEnded, endStatus>>
    BY <1>1 DEF dialStays, resVars, infoVars, dialVars
  <1>2. dialStays
    BY DEF GenerateOffer, Invite, inviteOk, inviteErr, inviteErrReturns, ack,
       ProcessAnswer, check
  <1>3. ASSUME NEW from \in Dialling, NEW to \in Dialling \cup {"close"},
               Goto("call", from, to)
        PROVE  DialWalk
    BY <1>1, <1>2, <1>3 DEF DialWalk
  <1>4. CASE GenerateOffer
    BY <1>3, <1>4 DEF GenerateOffer, Dialling
  <1>5. CASE Invite
    <2>1. Goto("call", "invite", "invite")
      BY <1>5 DEF Invite, Goto, CallInv, Actors
    <2> QED
      BY <2>1, <1>3 DEF Dialling
  <1>6. CASE inviteOk
    BY <1>3, <1>6 DEF inviteOk, Dialling
  <1>7. CASE inviteErr
    BY <1>3, <1>7 DEF inviteErr, sipClose, Dialling
  <1>8. CASE inviteErrReturns
    BY <1>3, <1>8 DEF inviteErrReturns, Dialling
  <1>9. CASE ack
    BY <1>3, <1>9 DEF ack, Dialling
  <1>10. ASSUME NEW ok \in BOOLEAN, ProcessAnswer(ok) PROVE DialWalk
    <2>1. Goto("call", "answer", "ack") \/ Goto("call", "answer", "close")
      BY <1>10 DEF ProcessAnswer
    <2> QED
      BY <2>1, <1>3 DEF Dialling
  <1>11. ASSUME NEW ok \in BOOLEAN, check(ok) PROVE DialWalk
    <2>1. Goto("call", "check", "up") \/ Goto("call", "check", "close")
      BY <1>11 DEF check
    <2> QED
      BY <2>1, <1>3 DEF Dialling
  <1> QED
    BY <1>4, <1>5, <1>6, <1>7, <1>8, <1>9, <1>10, <1>11

\* The steps of the goroutines that want the call closed.
LEMMA Asides ==
  ASSUME SipInv, CallInv,
         \/ EndCall \/ Stop \/ StopSwaps \/ transferCall \/ transferReturns
         \/ \E b \in Byes : byeStep(b)
  PROVE  AsideWalk
  <1>1. ASSUME dialStays PROVE
          UNCHANGED <<mu, created, stopped, stoppedAt, gauge, media, room,
                      topic, registered, ended, callEnded, endStatus>>
    BY <1>1 DEF dialStays, resVars, infoVars, dialVars
  <1>2. ASSUME NEW a \in Closers,
               NEW from \in {"idle", "swap", "accept", "refer"},
               NEW to \in {"swap", "accept", "refer", "lock", "done"},
               Goto(a, from, to),
               created \/ pc["call"] = "rpcOpen" \/ to \in {"swap", "done"},
               dialStays, SipLasts
        PROVE  AsideWalk
    <2>1. /\ UNCHANGED <<mu, created, stopped, stoppedAt, gauge, media, room,
                         topic, ended, callEnded, endStatus>>
          /\ registered' => registered
      BY <1>1, <1>2, SMTT(90)
    <2> QED
      BY <1>2, <2>1 DEF AsideWalk
  <1>3. registered => created
    BY DEF CallInv, CreatedInv
  <1>4. ASSUME NEW a \in Closers, pc[a] \in {"accept", "refer"}
        PROVE  created \/ pc["call"] = "rpcOpen"
    BY <1>4 DEF CallInv, CreatedInv
  <1>5. CASE EndCall
    BY <1>2, <1>5, Lasting DEF EndCall, Closers
  <1>6. CASE Stop
    BY <1>2, <1>6, Lasting DEF Stop, Closers
  <1>7. CASE StopSwaps
    <2>1. \/ Goto("stop", "swap", "lock") /\ registered
          \/ Goto("stop", "swap", "done")
      BY <1>7 DEF StopSwaps
    <2>2. /\ UNCHANGED <<mu, created, stopped, stoppedAt, gauge, media, room,
                         topic, ended, callEnded, endStatus>>
          /\ ~registered'
      BY <1>7 DEF StopSwaps, infoVars, dialVars
    <2>3. SipLasts
      BY <1>7, Lasting DEF StopSwaps
    <2> QED
      BY <1>3, <2>1, <2>2, <2>3 DEF AsideWalk, Closers
  <1>8. CASE transferCall
    BY <1>2, <1>3, <1>8, Lasting DEF transferCall, Closers
  <1>9. CASE transferReturns
    <2>1. /\ pc["transfer"] = "refer" /\ dialStays
          /\ \/ Goto("transfer", "refer", "done")
             \/ Goto("transfer", "refer", "lock")
      BY <1>9 DEF transferReturns, Goto
    <2>2. SipLasts
      BY <1>9, Lasting DEF transferReturns
    <2> QED
      BY <1>2, <1>4, <2>1, <2>2 DEF Closers
  <1>10. ASSUME NEW b \in Byes, onOutboundBye(b) PROVE AsideWalk
    <2>1. Goto(b, "idle", "accept") /\ registered /\ UNCHANGED sipVars
      BY <1>10 DEF onOutboundBye
    <2>2. UNCHANGED <<mu, created, stopped, stoppedAt, gauge, media, room,
                      topic, registered, ended, callEnded, endStatus>>
      BY <1>10 DEF onOutboundBye, resVars, infoVars, dialVars
    <2>3. SipLasts
      BY <2>1, Lasting
    <2> QED
      BY <1>3, <2>1, <2>2, <2>3 DEF AsideWalk, Closers
  <1>11. ASSUME NEW b \in Byes, byeAccepts(b) PROVE AsideWalk
    <2>1. /\ Goto(b, "accept", "lock") /\ pc[b] = "accept" /\ dialStays
          /\ AcceptBye
      BY <1>11 DEF byeAccepts, Goto
    <2>2. SipLasts
      BY <2>1, Lasting
    <2> QED
      BY <1>2, <1>4, <2>1, <2>2 DEF Closers
  <1> QED
    BY <1>5, <1>6, <1>7, <1>8, <1>9, <1>10, <1>11 DEF byeStep

\* Every step is one of the four kinds.
LEMMA Steps ==
  ASSUME SipInv, CallInv, [Next]_vars
  PROVE  DialWalk \/ AsideWalk \/ StandStill \/ OwnStep
  <1>1. CASE ctxEnds
    <2>1. UNCHANGED <<pc, mu, created, stopped, stoppedAt, gauge, media, room,
                      topic, registered, ended, callEnded, endStatus>>
      BY <1>1 DEF ctxEnds, resVars, infoVars
    <2> QED
      BY <1>1, <2>1, Lasting DEF ctxEnds, StandStill
  <1>2. CASE rpcReturns
    <2>1. UNCHANGED <<pc, mu, created, stopped, stoppedAt, gauge, media, room,
                      topic, registered, ended, callEnded, endStatus>>
      BY <1>2 DEF rpcReturns, resVars, dialVars
    <2> QED
      BY <1>2, <2>1, Lasting DEF rpcReturns, StandStill
  <1>3. CASE watchStep \/ UNCHANGED vars
    <2>1. UNCHANGED <<pc, mu, created, stopped, stoppedAt, gauge, media, room,
                      topic, registered, ended, callEnded, endStatus>>
      BY <1>3 DEF watchStep, vars, callVars, resVars, infoVars, dialVars
    <2>2. SipLasts
      BY <1>3, Lasting DEF watchStep, vars
    <2> QED
      BY <2>1, <2>2 DEF StandStill
  <1> QED
    BY <1>1, <1>2, <1>3, Dials, Asides DEF Next, dialStep, OwnStep

\* Every step of every goroutine keeps the invariant.
LEMMA CallStepInv == SipInv /\ CallInv /\ [Next]_vars => CallInv'
  <1> SUFFICES ASSUME SipInv, CallInv, [Next]_vars PROVE CallInv'
    OBVIOUS
  <1> USE OutboundCallAssumption
      DEF CallInv, LockHeld, CreatedInv, StoppedInv, EndStatusIsFinal,
          Closing, Creating, Dialling, Actors, Closers, Places,
          ClosedBeforeDial, Goto
  <1>1. CASE DialWalk
    BY <1>1, SMTT(90) DEF DialWalk
  <1>2. CASE AsideWalk
    BY <1>2, SMTT(90) DEF AsideWalk, SipLasts
  <1>3. CASE StandStill
    BY <1>3, SMTT(90) DEF StandStill, SipLasts
  <1>u. ASSUME UNCHANGED sipVars
        PROVE  UNCHANGED <<dialog, byes, finalStatus>>
    BY <1>u DEF sipVars, byeVars
  <1> USE DEF resVars, infoVars, dialVars
  <1>4. ASSUME NEW ok \in BOOLEAN, newCallMedia(ok) PROVE CallInv'
    BY <1>4, <1>u DEF newCallMedia
  <1>5. ASSUME NEW joined \in BOOLEAN, NEW ok \in BOOLEAN,
               connectToRoom(joined, ok)
        PROVE  CallInv'
    BY <1>5, <1>u DEF connectToRoom
  <1>6. CASE newCallRegisters
    BY <1>6, <1>u DEF newCallRegisters
  <1>7. CASE Dial
    <2>1. stopped => ~gauge'
      BY <1>7 DEF Dial
    <2>2. /\ Goto("call", "dial", "connectSIP") /\ mu = "free"
          /\ UNCHANGED <<mu, created, stopped, stoppedAt, media, room, topic,
                         registered, ended, callEnded, endStatus>>
          /\ UNCHANGED <<dialog, byes, finalStatus>>
      BY <1>7, <1>u DEF Dial
    <2> QED
      BY <2>1, <2>2
  <1>8. CASE connectSIP
    BY <1>8, <1>u DEF connectSIP
  <1>9. CASE connectMedia
    BY <1>9, <1>u DEF connectMedia
  <1>10. CASE reportActive
    BY <1>10, <1>u, SMTT(90) DEF reportActive
  <1>11. CASE waitCloseEvent
    BY <1>11, <1>u, SMTT(90) DEF waitCloseEvent, dialStays
  <1>12. CASE waitCloseClosed
    BY <1>12, <1>u, SMTT(90) DEF waitCloseClosed, dialStays
  <1>13. CASE ensureClosed
    BY <1>13, <1>u, SMTT(90) DEF ensureClosed
  <1>14. ASSUME NEW a \in Actors, CloseWith(a) PROVE CallInv'
    BY <1>14, <1>u, SMTT(90) DEF CloseWith
  <1>15. ASSUME NEW a \in Actors, closeAgain(a) PROVE CallInv'
    BY <1>15, <1>u, SMTT(90) DEF closeAgain, closeUnlocks, After
  <1>16. ASSUME NEW a \in Actors, closeBegins(a) PROVE CallInv'
    BY <1>16, <1>u, SMTT(90) DEF closeBegins
  <1>17. ASSUME NEW a \in Actors, closeSip(a) PROVE CallInv'
    <2>1. Goto(a, "sip", "bye") \/ Goto(a, "sip", "release")
      BY <1>17 DEF closeSip, sipClose
    <2>3. UNCHANGED <<mu, stopped, stoppedAt, resVars, infoVars, dialVars>>
      BY <1>17 DEF closeSip
    <2>2. finalStatus' = finalStatus /\ (~dialog' \/ byes' > 0)
      <3>1. byes \in Nat
        BY DEF SipInv, SipTypeOK, SipValuesOK
      <3> QED
        BY <1>17, <3>1, SMTT(90) DEF closeSip, sipClose, SendBye,
           SendByeNoWait, CloseDropped, drop
    <2>4. CASE Goto(a, "sip", "bye")
      BY <2>2, <2>3, <2>4, SMTT(90)
    <2>5. CASE Goto(a, "sip", "release")
      BY <2>2, <2>3, <2>5, SMTT(90)
    <2> QED
      BY <2>1, <2>4, <2>5
  <1>18. ASSUME NEW a \in Actors, closeSipReturns(a) PROVE CallInv'
    <2>1. UNCHANGED <<dialog, byes, finalStatus>>
      BY <1>18 DEF closeSipReturns, SendByeReturns, byeVars
    <2> QED
      BY <1>18, <2>1, SMTT(90) DEF closeSipReturns
  <1>19. ASSUME NEW a \in Actors, closeReleases(a) PROVE CallInv'
    BY <1>19, <1>u, SMTT(90) DEF closeReleases, closeUnlocks, After
  <1> HIDE DEF CallInv, LockHeld, CreatedInv, StoppedInv, EndStatusIsFinal,
          Closing, Creating, Dialling, Actors, Closers, Places,
          ClosedBeforeDial, Goto, resVars, infoVars, dialVars
  <1> QED
    BY <1>1, <1>2, <1>3, <1>4, <1>5, <1>6, <1>7, <1>8, <1>9, <1>10, <1>11,
       <1>12, <1>13, <1>14, <1>15, <1>16, <1>17, <1>18, <1>19, Steps
    DEF OwnStep, closeStep

\* The closer that breaks the fuse owns the end of the call, in every
\* behaviour.
THEOREM CallInvariance == Spec => []CallInv
  <1>1. Spec => []SipInv
    BY CallUsesSipOutbound, SipInvariance, PTL
  <1>2. QED
    BY <1>1, CallInitInv, CallStepInv, PTL DEF Spec

\* Only onOutboundBye touches byeReceived and the reports it guards.
LEMMA ByeStepInv == ByeInv /\ [Next]_vars => ByeInv'
  <1> SUFFICES ASSUME ByeInv, [Next]_vars PROVE ByeInv'
    OBVIOUS
  <1> DEFINE Same == UNCHANGED <<byeReceived, byeEvents>>
  <1>1. CASE dialStep
    <2>1. Same
      BY <1>1 DEF dialStep, newCallMedia, connectToRoom, newCallRegisters,
         Dial, connectSIP, GenerateOffer, Invite, inviteCancelled, inviteOk,
         inviteErr, sipClose, inviteErrReturns, ProcessAnswer, ack, check,
         connectMedia, reportActive, waitCloseClosed, ensureClosed, dialStays,
         byeRVars
    <2>2. QED
      BY <2>1 DEF ByeInv
  <1>2. ASSUME NEW a \in Actors, closeStep(a) PROVE ByeInv'
    <2>1. Same
      BY <1>2 DEF closeStep, CloseWith, closeAgain, closeBegins, closeSip,
         sipClose, closeSipReturns, closeReleases, dialStays, byeRVars,
         callVars
    <2>2. QED
      BY <2>1 DEF ByeInv
  <1>3. ASSUME NEW b \in Byes, byeStep(b) PROVE ByeInv'
    BY <1>3, SMTT(90) DEF ByeInv, byeStep, onOutboundBye, byeAccepts,
       dialStays, byeRVars
  <1>4. CASE \/ waitCloseEvent \/ ctxEnds \/ rpcReturns
             \/ EndCall \/ Stop \/ StopSwaps
             \/ transferCall \/ transferReturns \/ watchStep
    <2>1. Same
      BY <1>4 DEF waitCloseEvent, ctxEnds, rpcReturns, EndCall, Stop,
         StopSwaps, transferCall, transferReturns, watchStep, dialStays,
         byeRVars, callVars
    <2>2. QED
      BY <2>1 DEF ByeInv
  <1>5. CASE UNCHANGED vars
    BY <1>5 DEF ByeInv, vars, callVars, byeRVars
  <1>6. QED
    BY <1>1, <1>2, <1>3, <1>4, <1>5 DEF Next

\* A call that is over has been reported once by close (EventCallEnded), and
\* its info has an end; a callee's BYE is reported once however many come.
THEOREM CallEndsOnce == Spec => []EndedOnce
  <1>1. Init => ByeInv
    BY DEF Init, ByeInv
  <1>2. CallInv /\ ByeInv => EndedOnce
    BY SMTT(90) DEF CallInv, StoppedInv, ByeInv, EndedOnce
  <1>3. QED
    BY <1>1, <1>2, ByeStepInv, CallInvariance, PTL DEF Spec

\* EventCallEnded carries the final status of the INVITE, unless the call was
\* closed before it was dialled.
THEOREM CallEndStatus == Spec => []EndStatusIsFinal
  <1>1. CallInv => EndStatusIsFinal
    BY DEF CallInv
  <1>2. QED
    BY <1>1, CallInvariance, PTL

\* A callee whose 200 OK was read is hung up or has hung up when the call is
\* over.
THEOREM CalleeIsHungUp == Spec => []NoZombie
  <1>1. Spec => []SipInv
    BY CallUsesSipOutbound, SipInvariance, PTL
  <1>2. SipInv /\ CallInv => NoZombie
    <2> SUFFICES ASSUME SipInv, CallInv, Quiet, answered, ~ClosedBeforeDial
                 PROVE  byes > 0 \/ byeAccepted
      BY DEF NoZombie
    <2>1. dialog \/ byes > 0 \/ byeAccepted
      BY DEF SipInv, SipPhase
    <2>2. \A a \in Actors : pc[a] # "sip"
      BY DEF Quiet, Actors
    <2>3. ~dialog \/ byes > 0
      BY <2>2 DEF CallInv, StoppedInv, Quiet
    <2>4. QED
      BY <2>1, <2>3
  <1>3. QED
    BY <1>1, <1>2, CallInvariance, PTL

\* close gives back the media port, the room, the transfer topic and the
\* place in the gauge of active calls; only a call closed by EndCall before
\* newCall registers it stays in cm.activeCalls.
THEOREM CallReleases == Spec => []Released
  <1>1. CallInv => Released
    <2> SUFFICES ASSUME CallInv, Quiet
                 PROVE  /\ ~gauge /\ ~media /\ ~room /\ ~topic
                        /\ registered => stoppedAt = "rpcOpen"
      BY DEF Released
    <2>1. \A a \in Actors : pc[a] \notin {"sip", "bye", "release"}
      BY DEF Quiet, Actors
    <2>2. QED
      BY <2>1 DEF CallInv, StoppedInv, Quiet
  <1>2. QED
    BY <1>1, CallInvariance, PTL

-----------------------------------------------------------------------------
(* Types.                                                                   *)

dialFlags ==
  /\ sync \in BOOLEAN /\ created \in BOOLEAN
  /\ ctxDone \in BOOLEAN /\ started \in BOOLEAN
resFlags ==
  /\ gauge \in BOOLEAN /\ media \in BOOLEAN /\ room \in BOOLEAN
  /\ topic \in BOOLEAN /\ registered \in BOOLEAN
endFlags ==
  stopped \in BOOLEAN /\ ended \in BOOLEAN /\ byeReceived \in BOOLEAN
rpcOK ==
  /\ rpc \in {"open", "done"} /\ dialRes \in {"none", "ok", "err"}
  /\ status \in {"none", "joined", "active", "over"}
stopOK ==
  /\ stoppedAt \in {"none"} \cup Places
  /\ endStatus \in {0, 200, Unexpected2xx, Failure}
muOK == mu \in {"free"} \cup Actors

\* Each step of a goroutine gives the variables it assigns one of their values.
LEMMA CallTypeStep ==
  ASSUME SipInv, CallInv, [Next]_vars
  PROVE  /\ dialFlags => dialFlags'
         /\ resFlags => resFlags'
         /\ endFlags => endFlags'
         /\ rpcOK => rpcOK'
         /\ stopOK => stopOK'
         /\ muOK => muOK'
  <1>t. /\ pc["call"] \in Places
        /\ finalStatus \in {0, 200, Unexpected2xx, Failure}
        /\ "call" \in Actors
    BY DEF CallInv, SipInv, SipTypeOK, SipValuesOK, Actors
  <1> USE DEF resVars, infoVars, dialVars, byeRVars, callVars, dialStays
  <1>1. CASE dialStep
    <2> USE <1>1 DEF dialStep, newCallMedia, connectToRoom, newCallRegisters,
            Dial, connectSIP, GenerateOffer, Invite, inviteOk, inviteErr,
            inviteErrReturns, ProcessAnswer, ack, check, connectMedia,
            reportActive, waitCloseClosed, ensureClosed
    <2>1. dialFlags => dialFlags'
      BY DEF dialFlags
    <2>2. resFlags => resFlags'
      BY DEF resFlags
    <2>3. (endFlags => endFlags') /\ (stopOK => stopOK')
      BY DEF endFlags, stopOK
    <2>4. rpcOK => rpcOK'
      BY DEF rpcOK
    <2>5. muOK => muOK'
      BY <1>t DEF muOK
    <2>6. QED
      BY <2>1, <2>2, <2>3, <2>4, <2>5
  <1>2. ASSUME NEW a \in Actors, closeStep(a)
        PROVE  /\ (dialFlags => dialFlags') /\ (resFlags => resFlags')
               /\ (endFlags => endFlags') /\ (rpcOK => rpcOK')
               /\ (stopOK => stopOK') /\ (muOK => muOK')
    <2> USE <1>2 DEF closeStep, CloseWith, closeAgain, closeBegins, closeSip,
            closeSipReturns, closeReleases
    <2>1. (dialFlags => dialFlags') /\ (resFlags => resFlags')
      BY DEF dialFlags, resFlags
    <2>2. (endFlags => endFlags') /\ (rpcOK => rpcOK')
      BY DEF endFlags, rpcOK
    <2>3. stopOK => stopOK'
      BY <1>t DEF stopOK
    <2>4. muOK => muOK'
      BY DEF muOK, closeUnlocks
    <2>5. QED
      BY <2>1, <2>2, <2>3, <2>4
  <1>3. CASE \/ \E b \in Byes : byeStep(b)
             \/ waitCloseEvent \/ ctxEnds \/ rpcReturns \/ EndCall \/ Stop
             \/ StopSwaps \/ transferCall \/ transferReturns \/ watchStep
             \/ UNCHANGED vars
    <2> USE <1>3 DEF byeStep, onOutboundBye, byeAccepts, waitCloseEvent,
            ctxEnds, rpcReturns, EndCall, Stop, StopSwaps, transferCall,
            transferReturns, watchStep, vars
    <2>1. (dialFlags => dialFlags') /\ (resFlags => resFlags')
      BY DEF dialFlags, resFlags
    <2>2. (endFlags => endFlags') /\ (rpcOK => rpcOK')
      BY DEF endFlags, rpcOK
    <2>3. (stopOK => stopOK') /\ (muOK => muOK')
      BY DEF stopOK, muOK
    <2>4. QED
      BY <2>1, <2>2, <2>3
  <1>4. QED
    BY <1>1, <1>2, <1>3 DEF Next

\* The variables of an outbound call have their types, for any set of BYEs and
\* of outside events; in particular its end and the callee's BYE are reported
\* at most once, and c.mu is held by one of its goroutines or by none.
THEOREM CallTypeCorrect == Spec => []CallTypeOK
  <1> DEFINE rest == /\ dialFlags /\ resFlags /\ endFlags /\ rpcOK /\ stopOK
                     /\ muOK
  <1>1. Init => rest /\ ByeInv
    BY DEF Init, dialFlags, resFlags, endFlags, rpcOK, stopOK, muOK, ByeInv
  <1>2. SipInv /\ CallInv /\ rest /\ [Next]_vars => rest'
    BY CallTypeStep
  <1>3. CallInv /\ ByeInv /\ rest => CallTypeOK
    <2> SUFFICES ASSUME CallInv, ByeInv, rest PROVE CallTypeOK
      OBVIOUS
    <2>1. byeEvents \in 0..1 /\ callEnded \in 0..1
      BY SMTT(90) DEF ByeInv, CallInv, StoppedInv
    <2>2. \A v \in {sync, created, ctxDone, stopped, started, gauge, media, room,
                    topic, registered, ended, byeReceived} : v \in BOOLEAN
      BY DEF dialFlags, resFlags, endFlags
    <2>3. QED
      BY <2>1, <2>2 DEF CallTypeOK, CallInv, rpcOK, stopOK, muOK
  <1>4. Spec => []SipInv
    BY CallUsesSipOutbound, SipInvariance, PTL
  <1> HIDE DEF rest
  <1>5. QED
    BY <1>1, <1>2, <1>3, <1>4, ByeStepInv, CallInvariance, PTL DEF Spec

-----------------------------------------------------------------------------
(* Requests to end the call.                                                *)

\* c.mu of the call is held by a goroutine inside close, or by the dialling
\* one between connectSIP and the answer.
HolderInv ==
  mu # "free" => Closing(mu) \/ (mu = "call" /\ pc["call"] \in Dialling)

\* The lock of the SIP side is held inside Invite or inside sendBye.
LegLockInv ==
  /\ lock = "invite" => pc["call"] = "invite"
  /\ lock = "bye" => pc["call"] = "inviteBye" \/ \E a \in Actors : pc[a] = "bye"

\* EndCall and the callee's BYE return from a call that is closed.
AskedInv ==
  \A a \in {"endCall"} \cup Byes : pc[a] = "done" => stopped

\* A goroutine that leaves close, or the dialling, unlocks c.mu.
LEMMA HolderStep ==
  ASSUME SipInv, CallInv, muOK, HolderInv, [Next]_vars
  PROVE  HolderInv'
  <1>t. /\ pc \in [Actors -> Places] /\ mu \in {"free"} \cup Actors
        /\ "call" \in Actors /\ Closers \subseteq Actors
        /\ "call" \notin Closers /\ "free" \notin Actors
    BY OutboundCallAssumption DEF CallInv, muOK, Actors, Closers
  \* The goroutine that moves does not hold c.mu, or keeps it.
  <1>1. ASSUME UNCHANGED mu, NEW a \in Actors, NEW p, NEW q, Goto(a, p, q),
               \/ mu # a
               \/ q \in {"close", "sip", "bye", "release"}
               \/ a = "call" /\ q \in Dialling
        PROVE  HolderInv'
    BY <1>1, <1>t DEF HolderInv, Closing, Goto
  <1>2. CASE DialWalk
    BY <1>2, <1>1, <1>t DEF DialWalk
  <1>3. CASE AsideWalk
    <2>1. PICK a \in Closers, from \in {"idle", "swap", "accept", "refer"},
               to \in {"swap", "accept", "refer", "lock", "done"} :
            Goto(a, from, to)
      BY <1>3 DEF AsideWalk
    <2>2. mu # a
      BY <2>1, <1>t DEF HolderInv, Closing, Goto
    <2>3. QED
      BY <1>1, <1>3, <1>t, <2>1, <2>2 DEF AsideWalk
  <1>4. CASE StandStill
    BY <1>4 DEF StandStill, HolderInv, Closing
  <1>5. CASE \/ \E ok \in BOOLEAN : newCallMedia(ok)
             \/ \E joined, ok \in BOOLEAN : connectToRoom(joined, ok)
             \/ newCallRegisters \/ Dial
             \/ reportActive \/ waitCloseEvent \/ waitCloseClosed
             \/ ensureClosed
    <2>1. UNCHANGED mu
      BY <1>5 DEF newCallMedia, connectToRoom, newCallRegisters, Dial,
         reportActive, waitCloseEvent, waitCloseClosed, ensureClosed,
         dialStays
    <2>2. PICK p \in {"media", "connect", "rpcOpen", "dial", "report", "wait",
                     "ensure"}, q \in Places : Goto("call", p, q)
      BY <1>5 DEF newCallMedia, connectToRoom, newCallRegisters, Dial,
         reportActive, waitCloseEvent, waitCloseClosed, ensureClosed, Places
    <2>3. mu # "call"
      BY <2>2, <1>t DEF HolderInv, Closing, Dialling, Goto
    <2>4. QED
      BY <1>1, <1>t, <2>1, <2>2, <2>3
  <1>6. CASE connectSIP
    BY <1>6, <1>t DEF connectSIP, HolderInv, Closing, Dialling, Goto
  <1>7. CASE connectMedia
    BY <1>7 DEF connectMedia, HolderInv
  <1>8. ASSUME NEW a \in Actors, CloseWith(a) PROVE HolderInv'
    BY <1>8, <1>t DEF CloseWith, HolderInv, Closing, Goto
  <1>9. ASSUME NEW a \in Actors, closeBegins(a) \/ closeSip(a)
                                \/ closeSipReturns(a)
        PROVE  HolderInv'
    BY <1>9, <1>1 DEF closeBegins, closeSip, sipClose, closeSipReturns
  <1>10. ASSUME NEW a \in Actors, closeAgain(a) \/ closeReleases(a)
         PROVE  HolderInv'
    <2>1. PICK p, q : Goto(a, p, q)
      BY <1>10 DEF closeAgain, closeReleases
    <2>2. CASE mu = a
      BY <1>10, <2>2 DEF closeAgain, closeReleases, closeUnlocks, HolderInv
    <2>3. CASE mu # a
      BY <1>1, <1>10, <2>1, <2>3 DEF closeAgain, closeReleases, closeUnlocks
    <2>4. QED
      BY <2>2, <2>3
  <1>11. QED
    BY <1>2, <1>3, <1>4, <1>5, <1>6, <1>7, <1>8, <1>9, <1>10, Steps
       DEF OwnStep, closeStep

\* Invite and sendBye unlock the SIP side before they return.
LEMMA LegLockStep ==
  ASSUME SipInv, CallInv, LegLockInv, [Next]_vars
  PROVE  LegLockInv'
  <1>t. /\ pc \in [Actors -> Places]
        /\ "call" \in Actors /\ Closers \subseteq Actors /\ Byes \subseteq Closers
        /\ lock \in {"free", "invite", "bye"}
        /\ lock = "invite" <=> inviting \in {"send", "wait"}
    BY DEF CallInv, Actors, Closers, SipInv, SipTypeOK, SipValuesOK, SipPhase
  <1>1. ASSUME lock' = "free" PROVE LegLockInv'
    BY <1>1 DEF LegLockInv
  <1>2. ASSUME UNCHANGED lock, NEW a \in Actors, NEW p, NEW q, Goto(a, p, q),
               p \notin {"invite", "inviteBye", "bye"}
        PROVE  LegLockInv'
    BY <1>2, <1>t DEF LegLockInv, Goto
  <1>3. ASSUME UNCHANGED <<lock, pc>> PROVE LegLockInv'
    BY <1>3 DEF LegLockInv
  <1>4. CASE \/ \E ok \in BOOLEAN : newCallMedia(ok)
             \/ \E joined, ok \in BOOLEAN : connectToRoom(joined, ok)
             \/ newCallRegisters \/ Dial \/ connectSIP \/ connectMedia
             \/ reportActive \/ waitCloseEvent \/ waitCloseClosed
             \/ ensureClosed
    BY <1>2, <1>4, <1>t DEF newCallMedia, connectToRoom, newCallRegisters,
       Dial, connectSIP, connectMedia, reportActive, waitCloseEvent,
       waitCloseClosed, ensureClosed, sipVars
  <1>5. CASE GenerateOffer
    <2>1. CASE Goto("call", "offer", "invite") /\ InviteBegins
      BY <2>1, <1>t DEF InviteBegins, LegLockInv, Goto
    <2>2. CASE Goto("call", "offer", "close") /\ UNCHANGED sipVars
      BY <2>2, <1>2, <1>t DEF sipVars
    <2>3. QED
      BY <1>5, <2>1, <2>2 DEF GenerateOffer
  <1>6. CASE Invite
    BY <1>1, <1>3, <1>6 DEF Invite, attemptInvite, attemptInviteFails,
       inviteCancelled, InviteCancelled, InviteTimesOut, InviteChallenged,
       InviteFails, InviteAnswered, inviteReturns
  <1>7. CASE inviteOk
    <2>1. lock # "invite" /\ UNCHANGED lock
      BY <1>7, <1>t DEF inviteOk, sipVars
    <2>2. Goto("call", "invite", "answer")
      BY <1>7 DEF inviteOk
    <2>3. QED
      BY <2>1, <2>2, <1>t DEF LegLockInv, Goto
  <1>8. ASSUME NEW a \in Actors, NEW from, NEW wait, NEW to,
               sipClose(a, from, wait, to),
               wait = "bye" \/ (wait = "inviteBye" /\ a = "call")
        PROVE  LegLockInv'
    <2>1. CASE Goto(a, from, wait) /\ SendBye
      BY <1>8, <2>1, <1>t DEF SendBye, LegLockInv, Goto
    <2>2. CASE SendByeNoWait \/ CloseDropped
      BY <2>2, <1>1 DEF SendByeNoWait, CloseDropped
    <2>3. QED
      BY <1>8, <2>1, <2>2 DEF sipClose
  <1>9. CASE inviteErr
    BY <1>8, <1>9, <1>t DEF inviteErr
  <1>10. CASE inviteErrReturns
    BY <1>1, <1>10 DEF inviteErrReturns, SendByeReturns
  <1>11. CASE ack \/ \E ok \in BOOLEAN : ProcessAnswer(ok) \/ check(ok)
    BY <1>2, <1>11, <1>t DEF ack, AckInviteOK, ProcessAnswer, check, sipVars
  <1>12. ASSUME NEW a \in Actors, closeStep(a) PROVE LegLockInv'
    <2>1. CASE CloseWith(a) \/ closeAgain(a) \/ closeBegins(a)
                 \/ closeReleases(a)
      BY <1>2, <2>1 DEF CloseWith, closeAgain, closeBegins, closeReleases,
         sipVars
    <2>2. CASE closeSip(a)
      BY <1>8, <2>2 DEF closeSip
    <2>3. CASE closeSipReturns(a)
      BY <1>1, <2>3 DEF closeSipReturns, SendByeReturns
    <2>4. QED
      BY <1>12, <2>1, <2>2, <2>3 DEF closeStep
  <1>13. CASE \/ EndCall \/ Stop \/ StopSwaps \/ transferCall
              \/ transferReturns \/ \E b \in Byes : byeStep(b)
    <2>1. UNCHANGED lock
      BY <1>13 DEF EndCall, Stop, StopBreaks, StopSwaps, transferCall,
         newReferReq, transferReturns, byeStep, onOutboundBye, byeAccepts,
         AcceptBye, sipVars
    <2>2. PICK a \in Closers, p \in {"idle", "swap", "accept", "refer"},
               q \in Places : Goto(a, p, q)
      BY <1>13 DEF EndCall, Stop, StopSwaps, transferCall, transferReturns,
         byeStep, onOutboundBye, byeAccepts, Closers, Places
    <2>3. QED
      BY <1>2, <1>t, <2>1, <2>2
  <1>14. CASE ctxEnds \/ rpcReturns \/ watchStep \/ UNCHANGED vars
    BY <1>3, <1>14 DEF ctxEnds, rpcReturns, watchStep, WatchAnswered,
       WatchEnds, vars, callVars, sipVars
  <1>15. QED
    BY <1>4, <1>5, <1>6, <1>7, <1>9, <1>10, <1>11, <1>12, <1>13, <1>14
       DEF Next, dialStep

\* close returns with the fuse broken, and the fuse stays broken.
LEMMA AskedStep ==
  ASSUME SipInv, CallInv, AskedInv, [Next]_vars
  PROVE  AskedInv'
  <1> DEFINE asking == {"endCall"} \cup Byes
  <1>t. /\ pc \in [Actors -> Places]
        /\ asking \subseteq Actors
        /\ {"call", "stop", "transfer"} \subseteq Actors \ asking
        /\ \A a \in Actors : pc[a] = "release" => stopped
    BY OutboundCallAssumption DEF CallInv, LockHeld, Actors, Closers
  <1>1. ASSUME UNCHANGED stopped, NEW a \in Actors, NEW p, NEW q, Goto(a, p, q),
               a \in asking /\ q = "done" => stopped
        PROVE  AskedInv'
    <2>1. ASSUME NEW x \in asking, pc'[x] = "done" PROVE stopped
      BY <1>1, <1>t, <2>1 DEF AskedInv, Goto
    <2>2. QED
      BY <1>1, <2>1, SMTT(90) DEF AskedInv
  <1>2. ASSUME UNCHANGED <<stopped, pc>> PROVE AskedInv'
    BY <1>2, SMTT(90) DEF AskedInv
  <1>3. CASE DialWalk
    BY <1>1, <1>3, <1>t DEF DialWalk
  <1>4. CASE StandStill
    BY <1>2, <1>4 DEF StandStill
  <1>5. CASE \/ Stop \/ StopSwaps \/ transferCall \/ transferReturns
    BY <1>1, <1>5, <1>t DEF Stop, StopSwaps, transferCall, transferReturns,
       dialStays
  <1>6. CASE EndCall \/ \E b \in Byes : byeStep(b)
    BY <1>1, <1>6, <1>t DEF EndCall, byeStep, onOutboundBye, byeAccepts,
       dialStays
  <1>7. CASE \/ \E ok \in BOOLEAN : newCallMedia(ok)
             \/ \E joined, ok \in BOOLEAN : connectToRoom(joined, ok)
             \/ newCallRegisters \/ Dial \/ connectSIP \/ connectMedia
             \/ reportActive \/ waitCloseEvent \/ waitCloseClosed
             \/ ensureClosed
    BY <1>1, <1>7, <1>t DEF newCallMedia, connectToRoom, newCallRegisters,
       Dial, connectSIP, connectMedia, reportActive, waitCloseEvent,
       waitCloseClosed, ensureClosed, dialStays
  <1>8. ASSUME NEW a \in Actors, CloseWith(a) \/ closeSip(a)
                                \/ closeSipReturns(a)
        PROVE  AskedInv'
    BY <1>1, <1>8 DEF CloseWith, closeSip, sipClose, closeSipReturns
  <1>9. ASSUME NEW a \in Actors, closeBegins(a) PROVE AskedInv'
    BY <1>9 DEF closeBegins, AskedInv
  <1>10. ASSUME NEW a \in Actors, closeAgain(a) \/ closeReleases(a)
         PROVE  AskedInv'
    <2>1. stopped
      BY <1>10, <1>t DEF closeAgain, closeReleases, Goto
    <2>2. QED
      BY <1>1, <1>10, <2>1 DEF closeAgain, closeReleases
  <1>11. CASE ctxEnds \/ rpcReturns \/ watchStep \/ UNCHANGED vars
    BY <1>2, <1>11 DEF ctxEnds, rpcReturns, watchStep, vars, callVars
  <1>12. QED
    BY <1>3, <1>4, <1>5, <1>6, <1>7, <1>8, <1>9, <1>10, <1>11, Dials
       DEF Next, dialStep, closeStep

\* The safety half of CallEnds.  Whoever waits for c.mu
\* waits for a goroutine that is inside close or is dialling; whoever waits for
\* the lock of the SIP side waits for an Invite or a BYE that is under way, so
\* no goroutine has gone away with a lock.  An EndCall or a BYE of the callee
\* that has returned has left the call closed.
NoEndRequestIsLost ==
  /\ mu # "free" =>
       /\ mu \in Actors
       /\ Closing(mu) \/ (mu = "call" /\ pc["call"] \in Dialling)
  /\ lock = "invite" => pc["call"] = "invite" /\ mu = "call"
  /\ lock = "bye" => pc["call"] = "inviteBye" \/ \E a \in Actors : pc[a] = "bye"
  /\ \A a \in {"endCall"} \cup Byes : pc[a] = "done" => stopped

\* No request to end an outbound call is lost, and none waits for a lock that
\* nobody will release, for any set of BYEs and of outside events.
THEOREM EndRequestsReachClose == Spec => []NoEndRequestIsLost
  <1>1. Init => HolderInv /\ LegLockInv /\ AskedInv
    <2> SUFFICES ASSUME Init PROVE HolderInv /\ LegLockInv /\ AskedInv
      OBVIOUS
    <2>1. HolderInv /\ LegLockInv
      BY DEF Init, SipInit, HolderInv, LegLockInv
    <2>2. AskedInv
      BY OutboundCallAssumption DEF Init, AskedInv, Actors, Closers
    <2>3. QED
      BY <2>1, <2>2
  <1>2. CallTypeOK /\ CallInv /\ HolderInv /\ LegLockInv /\ AskedInv
          => NoEndRequestIsLost
    BY DEF NoEndRequestIsLost, CallTypeOK, CallInv, LockHeld, Dialling,
       HolderInv, LegLockInv, AskedInv
  <1>3. CallTypeOK => muOK
    BY DEF CallTypeOK, muOK
  <1>4. Spec => []SipInv
    BY CallUsesSipOutbound, SipInvariance, PTL
  <1>5. SipInv /\ CallInv /\ CallTypeOK /\ HolderInv /\ LegLockInv /\ AskedInv
          /\ [Next]_vars => HolderInv' /\ LegLockInv' /\ AskedInv'
    BY <1>3, HolderStep, LegLockStep, AskedStep
  <1>6. QED
    BY <1>1, <1>2, <1>4, <1>5, CallTypeCorrect, CallInvariance, PTL DEF Spec

-----------------------------------------------------------------------------
(* After the end.                                                           *)

\* Nothing is dialled or answered in an outbound call whose end was reported.
THEOREM EndIsTheLastWord == Spec => NothingAfterEnd
  <1> DEFINE outcome == <<answered, finalStatus, try, acks, failed, cancels>>
  <1>1. SipInv /\ CallInv /\ [Next]_vars
          => [callEnded > 0 /\ ~ClosedBeforeDial =>
                UNCHANGED <<answered, finalStatus, try, acks, failed, cancels,
                            endStatus, callEnded>>]_vars
    <2> SUFFICES ASSUME SipInv, CallInv, Next, callEnded > 0,
                        ~ClosedBeforeDial
                 PROVE  UNCHANGED outcome /\ UNCHANGED <<endStatus, callEnded>>
      OBVIOUS
    <2>1. stopped
      BY SMTT(90) DEF CallInv, StoppedInv
    <2>2. pc["call"] \notin Dialling
      BY <2>1 DEF CallInv, StoppedInv
    <2>3. ~ \/ GenerateOffer \/ Invite \/ inviteOk \/ inviteErr
            \/ inviteErrReturns \/ ack
            \/ \E ok \in BOOLEAN : ProcessAnswer(ok) \/ check(ok)
      BY <2>2, Dials DEF DialWalk, Goto
    \* What is left of the methods of the SIP side does not touch the outcome.
    <2>4. ASSUME \/ UNCHANGED sipVars \/ WatchAnswered \/ WatchEnds
                 \/ StopBreaks \/ AcceptBye \/ newReferReq \/ SendBye
                 \/ SendByeNoWait \/ CloseDropped \/ SendByeReturns
          PROVE  UNCHANGED outcome
      BY <2>4 DEF WatchAnswered, WatchEnds, StopBreaks, AcceptBye,
         newReferReq, SendBye, SendByeNoWait, CloseDropped, SendByeReturns,
         sipVars, invVars, evVars
    <2>5. CASE OwnStep
      <3>1. UNCHANGED outcome
        BY <2>4, <2>5 DEF OwnStep, newCallMedia, connectToRoom,
           newCallRegisters, Dial, connectSIP, connectMedia, reportActive,
           waitCloseEvent, waitCloseClosed, ensureClosed, closeStep,
           CloseWith, closeAgain, closeBegins, closeSip, sipClose,
           closeSipReturns, closeReleases
      <3>2. UNCHANGED <<endStatus, callEnded>>
        BY <2>1, <2>5 DEF OwnStep, newCallMedia, connectToRoom,
           newCallRegisters, Dial, connectSIP, connectMedia, reportActive,
           waitCloseEvent, waitCloseClosed, ensureClosed, closeStep,
           CloseWith, closeAgain, closeBegins, closeSip, closeSipReturns,
           closeReleases, dialStays, infoVars
      <3>3. QED
        BY <3>1, <3>2
    <2>6. CASE \/ EndCall \/ Stop \/ StopSwaps \/ transferCall
               \/ transferReturns \/ \E b \in Byes : byeStep(b)
      <3>1. UNCHANGED outcome
        BY <2>4, <2>6 DEF EndCall, Stop, StopSwaps, transferCall,
           transferReturns, byeStep, onOutboundBye, byeAccepts
      <3>2. QED
        BY <2>6, <3>1, Asides DEF AsideWalk
    <2>7. CASE ctxEnds \/ rpcReturns \/ watchStep
      <3>1. UNCHANGED outcome
        BY <2>4, <2>7 DEF ctxEnds, rpcReturns, watchStep
      <3>2. UNCHANGED <<endStatus, callEnded>>
        BY <2>7 DEF ctxEnds, rpcReturns, watchStep, callVars, infoVars
      <3>3. QED
        BY <3>1, <3>2
    <2>8. QED
      BY <2>3, <2>5, <2>6, <2>7 DEF Next, dialStep, OwnStep
  <1>2. Spec => []SipInv
    BY CallUsesSipOutbound, SipInvariance, PTL
  <1> HIDE DEF outcome
  <1>3. QED
    BY <1>1, <1>2, CallInvariance, PTL DEF Spec, NothingAfterEnd
=============================================================================
