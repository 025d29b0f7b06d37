------------------------- MODULE InboundCallProofs --------------------------
(***************************************************************************)
(* Proofs about InboundCall for any set of BYE requests and of outside     *)
(* events: close reports the end of the call once, whoever runs it, and    *)
(* what the call took is given back.                                       *)
(***************************************************************************)
EXTENDS InboundCall, SipInboundProofs

\* Zenon proves a leaf unless the leaf names SMT.  Most need a fraction of a
\* second; the limits leave room for a slow machine.
USE ZenonT(90)

\* Every step of the call is a call of a sipInbound method, or leaves the
\* object alone.
LEMMA StepIsSipStep == [Next]_vars => [SipNext]_sipVars
  <1> SUFFICES ASSUME [Next]_vars PROVE SipNext \/ UNCHANGED sipVars
    OBVIOUS
  <1>1. CASE handlerStep
    BY <1>1 DEF SipNext, handlerStep, HandlerRings, DispatchAccept,
       DispatchReject, DispatchNoRuleDrop, createMediaPort, rejectMedia,
       negotiateMedia, acceptCallFails, AcceptRefused, acceptCallWorks,
       acceptCallReturns, negotiateMediaForLateAnswer, waitForMedia,
       waitMediaDone, joinRoom, RegisterTransferSIPParticipant, Connect,
       publishTrack, publishFails, waitSubscribeTimeout, Activate,
       waitCancelled, waitCtxDone, waitRoomClosed, waitMediaTimeout,
       waitEndCall, ackReceived, ackTimeout
  <1>2. ASSUME NEW a \in Closers, closeStep(a)
        PROVE  SipNext \/ UNCHANGED sipVars
    BY <1>2 DEF SipNext, closeStep, closeCAS, closeSip, closeMedia,
       deregister, finish
  <1>3. ASSUME NEW b \in Byes, HandleBye(b) \/ byeStep(b)
        PROVE  SipNext \/ UNCHANGED sipVars
    BY <1>3 DEF SipNext, HandleBye, byeStep, ByeAccepted, Bye
  <1>4. CASE \/ pinEntered \/ waitSubscribeDone \/ Stop \/ HandleAck
             \/ sipStep \/ EndCall \/ transferRefer \/ transferHangup
             \/ MaxCallDuration \/ MediaTimeoutFires \/ RoomDisconnected
    BY <1>4 DEF SipNext, pinEntered, waitSubscribeDone, Stop, HandleAck,
       sipStep, EndCall, transferRefer, transferHangup, MaxCallDuration,
       MediaTimeoutFires, RoomDisconnected
  <1>5. CASE UNCHANGED vars
    BY <1>5 DEF vars
  <1>6. QED
    BY <1>1, <1>2, <1>3, <1>4, <1>5 DEF Next

\* What SipInbound keeps under any sequence of calls, the call keeps: its actions
\* are made of the methods of the leg.
LEMMA CallUsesSipInbound == Spec => SipSpec
  <1>1. Init => SipInit
    BY DEF Init
  <1>2. QED
    BY <1>1, StepIsSipStep, PTL DEF Spec, SipSpec

\* So one INVITE gets one final answer in every inbound call.
THEOREM CallAnswersOnce == Spec => []OneFinalAnswer
  BY CallUsesSipInbound, OneAnswerPerInvite, PTL

-----------------------------------------------------------------------------
(* What a step does to the goroutines and to what they share.               *)

\* Before Accept may have been called.
Early == {"start", "dispatch", "createMedia", "negotiate"}

\* A step that leaves both goroutines where they are: a request, an event, a
\* timer.  At most the caller's BYE drops the leg.
AsideStep ==
  /\ UNCHANGED <<pc, pinPrompt, closedBy, transferReg, media, roomClosed,
                 registered, callEnded, endStatus, callStatus>>
  /\ UNCHANGED <<lock, answered, acceptCalled, okFailed, byes, rejectCached>>
  /\ room' = room \/ (room = "joined" /\ room' = "left")
  /\ endCall' => endCall \/ room = "joined"
  /\ mediaTimer' = "off" => mediaTimer = "off"
  /\ ringing' => ringing
  /\ UNCHANGED <<invite, byeAccepted>> \/ (~invite' /\ byeAccepted')

\* A step of handleInvite, on the way or to one of its returns.
WalkStep ==
  /\ \E p \in handlerPcs, q \in handlerPcs \cup {"close"} :
       Handler(p, q) /\ (q \in Early => p \in Early)
  /\ UNCHANGED <<closedBy, registered, callEnded, endStatus>>

\* The events are such steps.
LEMMA Aside ==
  ASSUME \/ ackReceived \/ ackTimeout \/ HandleAck \/ sipStep \/ EndCall
         \/ transferRefer \/ transferHangup \/ MaxCallDuration
         \/ MediaTimeoutFires \/ RoomDisconnected \/ UNCHANGED vars
         \/ \E b \in Byes : HandleBye(b) \/ byeStep(b)
  PROVE  AsideStep
  <1> USE DEF AsideStep, confVars, regVars, mediaVars, roomVars, rpcVars,
          reportVars, callRest, callVars, vars, sipVars, legVars, ringVars,
          accVars, byeVars, okVars
  <1>1. CASE ackReceived
    BY <1>1 DEF ackReceived
  <1>2. CASE ackTimeout
    BY <1>2 DEF ackTimeout
  <1>3. CASE EndCall
    BY <1>3 DEF EndCall
  <1>4. CASE UNCHANGED vars
    BY <1>4
  <1>5. CASE transferHangup
    BY <1>5 DEF transferHangup
  <1>6. CASE MaxCallDuration
    BY <1>6 DEF MaxCallDuration
  <1>7. CASE MediaTimeoutFires
    BY <1>7 DEF MediaTimeoutFires
  <1>8. CASE RoomDisconnected
    BY <1>8 DEF RoomDisconnected
  <1>9. CASE HandleAck
    BY <1>9 DEF HandleAck, AcceptAck
  <1>10. CASE transferRefer
    BY <1>10 DEF transferRefer, newReferReq
  <1>11. CASE sipStep
    <2>1. CASE CancelArrives
      BY <1>11, <2>1 DEF sipStep, CancelArrives
    <2>2. CASE RingerCancelled
      BY <1>11, <2>2 DEF sipStep, RingerCancelled
    <2>3. CASE RingerStopped
      BY <1>11, <2>3 DEF sipStep, RingerStopped
    <2>4. CASE TxAckArrives
      BY <1>11, <2>4 DEF sipStep, TxAckArrives
    <2>5. CASE AckReport
      BY <1>11, <2>5 DEF sipStep, AckReport
    <2>6. QED
      BY <1>11, <2>1, <2>2, <2>3, <2>4, <2>5 DEF sipStep
  <1>12. ASSUME NEW b \in Byes, HandleBye(b)
         PROVE  AsideStep
    BY <1>12 DEF HandleBye
  <1>13. ASSUME NEW b \in Byes, ByeAccepted(b)
         PROVE  AsideStep
    BY <1>13 DEF ByeAccepted, AcceptBye, drop, stopRinging
  <1>14. ASSUME NEW b \in Byes, Bye(b)
         PROVE  AsideStep
    BY <1>14 DEF Bye
  <1> HIDE DEF AsideStep, vars
  <1>15. QED
    BY <1>1, <1>2, <1>3, <1>4, <1>5, <1>6, <1>7, <1>8, <1>9, <1>10, <1>11,
       <1>12, <1>13, <1>14 DEF byeStep

\* The steps of handleInvite that do not concern its leg.
WalkAlone ==
  \/ DispatchAccept \/ createMediaPort \/ negotiateMedia
  \/ negotiateMediaForLateAnswer \/ waitForMedia \/ waitMediaDone
  \/ pinEntered \/ joinRoom \/ RegisterTransferSIPParticipant \/ Connect
  \/ publishTrack \/ publishFails \/ waitSubscribeDone
  \/ waitSubscribeTimeout \/ Activate \/ waitCancelled \/ waitCtxDone
  \/ waitRoomClosed \/ waitMediaTimeout \/ waitEndCall

\* The steps of handleInvite that are calls of the leg's methods.
WalkLeg ==
  \/ HandlerRings \/ DispatchReject \/ DispatchNoRuleDrop \/ rejectMedia
  \/ acceptCallFails \/ acceptCallWorks \/ acceptCallReturns

\* Every return of handleInvite leads to close.
LEMMA Walk == WalkAlone \/ WalkLeg => WalkStep
  <1>1. ASSUME NEW p \in handlerPcs, NEW q \in handlerPcs \cup {"close"},
               Handler(p, q), q \in Early => p \in Early,
               UNCHANGED <<closedBy, registered, callEnded, endStatus>>
        PROVE  WalkStep
    BY <1>1 DEF WalkStep
  <1> USE <1>1 DEF handlerPcs, Early, callRest, regVars, reportVars
  <1>2. CASE DispatchAccept \/ createMediaPort \/ negotiateMedia
    BY <1>2 DEF DispatchAccept, createMediaPort, negotiateMedia
  <1>3. CASE negotiateMediaForLateAnswer \/ waitForMedia \/ waitMediaDone
    BY <1>3 DEF negotiateMediaForLateAnswer, waitForMedia, waitMediaDone
  <1>4. CASE \/ pinEntered \/ joinRoom \/ RegisterTransferSIPParticipant
             \/ Connect
    BY <1>4 DEF pinEntered, joinRoom, RegisterTransferSIPParticipant, Connect
  <1>5. CASE publishTrack \/ publishFails \/ waitSubscribeDone
    BY <1>5 DEF publishTrack, publishFails, waitSubscribeDone
  <1>6. CASE waitSubscribeTimeout \/ Activate \/ waitCancelled
    BY <1>6 DEF waitSubscribeTimeout, Activate, waitCancelled
  <1>7. CASE \/ waitCtxDone \/ waitRoomClosed \/ waitMediaTimeout
             \/ waitEndCall
    BY <1>7 DEF waitCtxDone, waitRoomClosed, waitMediaTimeout, waitEndCall
  <1>8. CASE HandlerRings \/ DispatchReject \/ DispatchNoRuleDrop
    BY <1>8 DEF HandlerRings, DispatchReject, DispatchNoRuleDrop
  <1>9. CASE rejectMedia \/ acceptCallFails
    BY <1>9 DEF rejectMedia, acceptCallFails
  <1>10. CASE acceptCallWorks \/ acceptCallReturns
    BY <1>10 DEF acceptCallWorks, acceptCallReturns
  <1> HIDE DEF handlerPcs, Early, callRest, regVars, reportVars
  <1>11. QED
    BY <1>2, <1>3, <1>4, <1>5, <1>6, <1>7, <1>8, <1>9, <1>10
       DEF WalkAlone, WalkLeg

\* ... and these are all.
LEMMA Steps ==
  [Next]_vars => \/ AsideStep \/ WalkAlone \/ WalkLeg \/ Stop
                 \/ \E a \in Closers : closeStep(a)
  BY Aside DEF Next, handlerStep, WalkAlone, WalkLeg

-----------------------------------------------------------------------------
(* close.                                                                   *)

\* A new call satisfies the invariant.
LEMMA CloseInitInv == Init => CloseInv
  BY SMTT(90) DEF Init, SipInit, CloseInv, Closers, handlerPcs, closerPcs,
     owning

\* Every step of every goroutine keeps it.
LEMMA CloseStepInv == SipInv /\ CloseInv /\ [Next]_vars => CloseInv'
  <1> SUFFICES ASSUME SipInv, CloseInv, [Next]_vars PROVE CloseInv'
    OBVIOUS
  <1> DEFINE legCore == <<invite, answered, acceptCalled, byes, byeAccepted,
                          okFailed, rejectCached>>
  <1>s. /\ answered => acceptCalled
        /\ lock = "accept" => invite /\ acceptCalled
        /\ invite <=> inviteTx \/ inviteOk
        /\ answered /\ inviteTx => lock = "accept" \/ okFailed
        /\ lock = "accept" /\ ~writing => answered
        /\ lastStatus = 200 <=> answered
        /\ byes \in Nat
    BY DEF SipInv, SipTypeOK, SipValuesOK, LegShape, StatusIsAnswer
  <1> USE DEF CloseInv, Closers, handlerPcs, closerPcs, owning, Early, Goto
  <1>1. CASE AsideStep
    BY <1>1, SMTT(90) DEF AsideStep
  \* A step of handleInvite: it leaves the leg alone, rejects an INVITE that
  \* was not answered, fails to repeat the 200 OK, or answers.
  <1>2. ASSUME WalkStep, UNCHANGED legCore
        PROVE  CloseInv'
    BY <1>2, SMTT(90) DEF WalkStep, Handler
  <1>3. ASSUME WalkStep, ~invite', ~answered,
               UNCHANGED <<answered, acceptCalled, byes, byeAccepted, okFailed>>
        PROVE  CloseInv'
    BY <1>3, SMTT(90) DEF WalkStep, Handler
  <1>4. ASSUME WalkStep, okFailed => okFailed',
               UNCHANGED <<invite, answered, acceptCalled, byes, byeAccepted,
                           rejectCached>>
        PROVE  CloseInv'
    BY <1>4, SMTT(90) DEF WalkStep, Handler
  <1>5. ASSUME WalkStep, pc["handler"] \notin Early, invite,
               UNCHANGED <<invite, byes, byeAccepted, okFailed, rejectCached>>
        PROVE  CloseInv'
    BY <1>5, SMTT(90) DEF WalkStep, Handler
  <1>6. ASSUME NEW a \in Closers, Goto(a, "closeSip", "closeBye")
                 \/ Goto(a, "closeSip", "closeMedia")
                 \/ Goto(a, "closeBye", "closeBye")
                 \/ Goto(a, "closeBye", "closeMedia"),
               ~invite', answered /\ invite => byes' > 0 \/ okFailed,
               byes > 0 => byes' > 0,
               UNCHANGED <<answered, acceptCalled, byeAccepted, okFailed,
                           rejectCached, closedBy, callEnded, endStatus>>
        PROVE  CloseInv'
    BY <1>6, SMTT(90)
  <1>7. ASSUME NEW a \in Closers, closeCAS(a)
        PROVE  CloseInv'
    <2>1. UNCHANGED <<legCore, callEnded, endStatus>>
      BY <1>7 DEF closeCAS, reportVars, sipVars, legVars, accVars, byeVars,
         okVars
    <2>2. QED
      BY <1>7, <2>1, SMTT(90) DEF closeCAS
  <1>8. ASSUME NEW a \in Closers, closeMedia(a)
        PROVE  CloseInv'
    <2>1. UNCHANGED <<legCore, closedBy>>
      BY <1>8 DEF closeMedia, sipVars, legVars, accVars, byeVars, okVars
    <2>2. QED
      BY <1>8, <2>1, <1>s, SMTT(90) DEF closeMedia
  <1>9. ASSUME NEW a \in Closers, deregister(a) \/ finish(a)
        PROVE  CloseInv'
    <2>1. /\ Goto(a, "deregister", "return") \/ Goto(a, "return", "finished")
          /\ UNCHANGED <<legCore, closedBy, callEnded, endStatus>>
      BY <1>9 DEF deregister, finish, reportVars, sipVars, legVars, accVars,
         byeVars, okVars
    <2>2. QED
      BY <2>1, SMTT(90)
  <1>10. CASE Stop
    <2>1. UNCHANGED <<legCore, closedBy, callEnded, endStatus>>
      BY <1>10 DEF Stop, reportVars, sipVars, legVars, accVars, byeVars, okVars
    <2>2. QED
      BY <1>10, <2>1 DEF Stop
  <1>e. pc["handler"] \in Early => ~acceptCalled
    OBVIOUS
  <1> HIDE DEF CloseInv, Closers, handlerPcs, closerPcs, owning, Early, Goto
  <1>11. CASE WalkAlone
    <2>1. UNCHANGED sipVars
      BY <1>11 DEF WalkAlone, DispatchAccept, createMediaPort, negotiateMedia,
         negotiateMediaForLateAnswer, waitForMedia, waitMediaDone, pinEntered,
         joinRoom, RegisterTransferSIPParticipant, Connect, publishTrack,
         publishFails, waitSubscribeDone, waitSubscribeTimeout, Activate,
         waitCancelled, waitCtxDone, waitRoomClosed, waitMediaTimeout,
         waitEndCall
    <2>2. UNCHANGED legCore
      BY <2>1 DEF sipVars, legVars, accVars, byeVars, okVars
    <2>3. QED
      BY <1>2, <1>11, <2>2, Walk
  <1>12. CASE WalkLeg
    <2>1. WalkStep
      BY <1>12, Walk
    <2>2. CASE HandlerRings
      BY <1>2, <2>1, <2>2 DEF HandlerRings, StartRinging, legVars, accVars,
         byeVars, okVars
    <2>3. CASE DispatchReject \/ DispatchNoRuleDrop \/ rejectMedia
      <3>1. pc["handler"] \in Early
        BY <2>3 DEF DispatchReject, DispatchNoRuleDrop, rejectMedia, Handler,
           Goto, Early
      <3>2. /\ ~invite'
            /\ UNCHANGED <<answered, acceptCalled, byes, byeAccepted, okFailed>>
        BY <2>3 DEF DispatchReject, DispatchNoRuleDrop, rejectMedia,
           RespondAndDrop, Drop, drop, accVars, byeVars, okVars
      <3>3. QED
        BY <1>3, <1>s, <1>e, <2>1, <3>1, <3>2
    <2>4. CASE acceptCallFails
      <3>1. CASE AcceptRefused
        BY <1>2, <2>1, <3>1 DEF AcceptRefused, sipVars, legVars, accVars,
           byeVars, okVars
      <3>2. CASE AcceptWriteFails
        <4>1. okFailed => okFailed'
          BY <3>2 DEF AcceptWriteFails
        <4>2. UNCHANGED <<invite, answered, acceptCalled, byes, byeAccepted,
                          rejectCached>>
          BY <3>2 DEF AcceptWriteFails, legVars, byeVars
        <4>3. QED
          BY <1>4, <2>1, <4>1, <4>2
      <3>3. CASE AcceptGivesUp
        BY <1>2, <2>1, <3>3 DEF AcceptGivesUp, byeVars, okVars
      <3>4. QED
        BY <2>4, <3>1, <3>2, <3>3 DEF acceptCallFails
    <2>5. CASE acceptCallWorks \/ acceptCallReturns
      <3>1. pc["handler"] \notin Early
        BY <2>5 DEF acceptCallWorks, acceptCallReturns, Handler, Goto, Early
      <3>2. invite
        BY <2>5, <1>s DEF acceptCallWorks, acceptCallReturns, AcceptBegins,
           AcceptWriteAndWait, AcceptRetry, AcceptWriteAndReturn, AcceptAcked,
           AcceptGivesUp, okWritten
      <3>3. UNCHANGED <<invite, byes, byeAccepted, okFailed, rejectCached>>
        BY <2>5 DEF acceptCallWorks, acceptCallReturns, AcceptBegins,
           AcceptWriteAndWait, AcceptRetry, AcceptWriteAndReturn, AcceptAcked,
           AcceptGivesUp, legVars, byeVars, okVars
      <3>4. QED
        BY <1>5, <2>1, <3>1, <3>2, <3>3
    <2>6. QED
      BY <1>12, <2>2, <2>3, <2>4, <2>5 DEF WalkLeg
  <1>13. ASSUME NEW a \in Closers, closeSip(a)
         PROVE  CloseInv'
    <2>1. UNCHANGED <<closedBy, callEnded, endStatus>>
      BY <1>13 DEF closeSip, callRest, reportVars
    <2>2. CASE Goto(a, "closeSip", "closeBye") /\ SendBye
      <3>1. /\ ~invite' /\ byes' = byes + 1
            /\ UNCHANGED <<answered, acceptCalled, byeAccepted, okFailed,
                           rejectCached>>
        BY <2>2 DEF SendBye, drop, okVars
      <3>2. byes' > 0
        BY <1>s, <3>1, SMTT(90)
      <3>3. QED
        BY <1>6, <2>1, <2>2, <3>1, <3>2
    <2>3. CASE Goto(a, "closeSip", "closeMedia") /\ (SendStatus \/ CloseDropped)
      <3>1. ~invite' /\ lock = "free" /\ ~inviteOk
        BY <2>3 DEF SendStatus, CloseDropped, drop
      <3>2. UNCHANGED <<answered, acceptCalled, byes, byeAccepted, okFailed,
                        rejectCached>>
        BY <2>3 DEF SendStatus, CloseDropped, accVars, byeVars, okVars
      <3>3. answered /\ invite => okFailed
        BY <1>s, <3>1
      <3>4. QED
        BY <1>6, <2>1, <2>3, <3>1, <3>2, <3>3
    <2>4. CASE \/ Goto(a, "closeBye", "closeBye") /\ SendByeAgain
               \/ Goto(a, "closeBye", "closeMedia") /\ SendByeReturns
      <3>1. UNCHANGED <<invite, answered, acceptCalled, byes, byeAccepted,
                        okFailed, rejectCached>>
        BY <2>4 DEF SendByeAgain, SendByeReturns, legVars, byeVars, okVars
      <3>2. ~invite
        BY <2>4 DEF CloseInv, Goto, Closers, owning
      <3>3. QED
        BY <1>6, <2>1, <2>4, <3>1, <3>2
    <2>5. QED
      BY <1>13, <2>2, <2>3, <2>4 DEF closeSip
  <1>14. QED
    BY <1>1, <1>7, <1>8, <1>9, <1>10, <1>11, <1>12, <1>13, Steps DEF closeStep

\* The closer that won c.done owns the end of the call, in every behaviour.
THEOREM CloseInvariance == Spec => []CloseInv
  <1>1. Spec => []SipInv
    BY CallUsesSipInbound, SipInvariance, PTL
  <1>2. QED
    BY <1>1, CloseInitInv, CloseStepInv, PTL DEF Spec

\* Only Bye touches byeReceived and the reports it guards.
LEMMA ByeStepInv == ByeInv /\ [Next]_vars => ByeInv'
  <1> SUFFICES ASSUME ByeInv, [Next]_vars PROVE ByeInv'
    OBVIOUS
  <1> DEFINE Same == UNCHANGED <<byeReceived, byeEvents>>
  <1>1. CASE handlerStep
    <2>1. Same
      BY <1>1 DEF handlerStep, HandlerRings, DispatchAccept, DispatchReject,
         DispatchNoRuleDrop, createMediaPort, rejectMedia, negotiateMedia,
         acceptCallFails, AcceptRefused, acceptCallWorks, acceptCallReturns,
         negotiateMediaForLateAnswer, waitForMedia, waitMediaDone, joinRoom,
         RegisterTransferSIPParticipant, Connect, publishTrack, publishFails,
         waitSubscribeTimeout, Activate, waitCancelled, waitCtxDone,
         waitRoomClosed, waitMediaTimeout, waitEndCall, ackReceived,
         ackTimeout, callVars, callRest, rpcVars
    <2>2. QED
      BY <2>1 DEF ByeInv
  <1>2. ASSUME NEW a \in Closers, closeStep(a) PROVE ByeInv'
    BY <1>2, SMTT(90) DEF ByeInv, closeStep, closeCAS, closeSip, closeMedia,
       deregister, finish, callVars, callRest, rpcVars
  <1>3. ASSUME NEW b \in Byes, HandleBye(b) \/ byeStep(b) PROVE ByeInv'
    BY <1>3, SMTT(90) DEF ByeInv, HandleBye, byeStep, ByeAccepted, Bye
  <1>4. CASE \/ pinEntered \/ waitSubscribeDone \/ Stop \/ HandleAck
             \/ sipStep \/ EndCall \/ transferRefer \/ transferHangup
             \/ MaxCallDuration \/ MediaTimeoutFires \/ RoomDisconnected
    BY <1>4, SMTT(90) DEF ByeInv, pinEntered, waitSubscribeDone, Stop,
       HandleAck, sipStep, EndCall, transferRefer, transferHangup,
       MaxCallDuration, MediaTimeoutFires, RoomDisconnected, callVars,
       callRest, rpcVars
  <1>5. CASE UNCHANGED vars
    BY <1>5 DEF ByeInv, vars, callVars, callRest, rpcVars
  <1>6. QED
    BY <1>1, <1>2, <1>3, <1>4, <1>5 DEF Next

\* EventCallEnded is emitted exactly once, whether close is run by the handler,
\* by Shutdown or by both; a caller's BYE is reported once however many come.
THEOREM CallEndsOnce == Spec => []EndedOnce
  <1>1. Init => ByeInv
    BY DEF Init, ByeInv
  <1>2. CloseInv /\ ByeInv => EndedOnce
    BY SMTT(90) DEF CloseInv, ByeInv, EndedOnce, AllFinished, Closers, owning
  <1>3. QED
    BY <1>1, <1>2, ByeStepInv, CloseInvariance, PTL DEF Spec

\* ... and carries 200 exactly for the answered calls.
THEOREM CallEndStatus == Spec => []EndStatusIsAnswer
  <1>1. CloseInv => EndStatusIsAnswer
    BY DEF CloseInv, EndStatusIsAnswer
  <1>2. QED
    BY <1>1, CloseInvariance, PTL

\* A caller whose call was answered is never left in the dialog alone.
THEOREM DialogIsEnded == Spec => []NoOrphanDialog
  <1>1. Spec => []SipInv
    BY CallUsesSipInbound, SipInvariance, PTL
  <1>2. SipInv /\ CloseInv => NoOrphanDialog
    <2> SUFFICES ASSUME SipInv, CloseInv, AllFinished, answered
                 PROVE  byes = 1 \/ byeAccepted \/ okFailed
      BY DEF NoOrphanDialog
    <2>1. byes \in Nat /\ byes <= 1
      BY DEF SipInv, SipTypeOK, SipValuesOK, ByeOnlyWhenAnswered
    <2>2. ~invite
      BY DEF CloseInv, AllFinished, Closers, owning
    <2>3. QED
      BY <2>1, <2>2, SMTT(90) DEF CloseInv
  <1>3. QED
    BY <1>1, <1>2, CloseInvariance, PTL

\* The rejection kept for retries of the INVITE is never that of an answered
\* call.
THEOREM ReplayIsSafe == Spec => []ReplayIsRejection
  <1>1. CloseInv => ReplayIsRejection
    BY DEF CloseInv, ReplayIsRejection
  <1>2. QED
    BY <1>1, CloseInvariance, PTL

-----------------------------------------------------------------------------
(* What the handler gives back.                                             *)

\* Until Shutdown takes the call over, the room is closed only on the way to
\* close, and a closed room is not joined.  A handler that closes the call has
\* let go of each resource once it is past the line that frees it.
ReleaseInv ==
  /\ closedBy # "stop" /\ roomClosed => room # "joined"
  /\ closedBy # "stop" /\ pc["handler"] \in handlerPcs => ~roomClosed
  /\ closedBy = "handler" =>
       /\ pc["handler"] \in {"deregister", "return", "finished"}
            => media # "open" /\ roomClosed
       /\ pc["handler"] \in {"return", "finished"} => ~transferReg /\ ~registered
       /\ pc["handler"] # "closeSip" => ~ringing

\* CloseWithReason leaves a room that was not closed before.
LEMMA RoomCloses ==
  roomClose => /\ roomClosed' /\ room' \in {room, "left"}
               /\ ~roomClosed => room' # "joined"
               /\ room # "joined" => room' = room
  BY DEF roomClose

\* Every step keeps it: nothing that is freed by close is taken again.
LEMMA ReleaseStepInv == CloseInv /\ ReleaseInv /\ [Next]_vars => ReleaseInv'
  <1> SUFFICES ASSUME CloseInv, ReleaseInv, [Next]_vars PROVE ReleaseInv'
    OBVIOUS
  <1>c. /\ pc \in [Closers -> handlerPcs \cup closerPcs \cup {"idle"}]
        /\ closedBy = "handler" => pc["handler"] \in owning \cup {"return", "finished"}
        /\ closedBy \in Closers \cup {"none"}
        /\ \A a \in Closers : pc[a] \in owning => closedBy = a
        /\ pc["handler"] \in {"return", "finished"} => closedBy # "none"
    BY DEF CloseInv, Closers
  <1> USE <1>c
      DEF ReleaseInv, Closers, handlerPcs, closerPcs, owning, Goto
  <1>1. CASE AsideStep
    BY <1>1 DEF AsideStep
  <1>2. ASSUME WalkStep, UNCHANGED roomClosed
        PROVE  ReleaseInv'
    BY <1>2 DEF WalkStep, Handler
  <1>3. CASE publishFails
    <2>1. Handler("publish", "close") /\ UNCHANGED closedBy
      BY <1>3 DEF publishFails
    <2>2. roomClosed' /\ (~roomClosed => room' # "joined")
      BY <1>3, RoomCloses DEF publishFails
    <2>3. QED
      BY <2>1, <2>2 DEF Handler
  <1>4. CASE Stop
    <2>1. /\ Goto("stop", "idle", "close") /\ registered' = FALSE
          /\ UNCHANGED <<closedBy, transferReg, media, room, roomClosed, ringing>>
      BY <1>4 DEF Stop, mediaVars, roomVars, sipVars, ringVars
    <2>2. QED
      BY <2>1
  <1>5. ASSUME NEW a \in Closers, closeCAS(a)
        PROVE  ReleaseInv'
    <2>1. UNCHANGED <<registered, transferReg, media, room, roomClosed, ringing>>
      BY <1>5 DEF closeCAS, regVars, mediaVars, roomVars, sipVars, ringVars
    <2>2. QED
      BY <1>5, <2>1 DEF closeCAS
  <1>6. ASSUME NEW a \in Closers, closeSip(a)
        PROVE  ReleaseInv'
    <2>1. UNCHANGED <<closedBy, registered, transferReg, media, room, roomClosed>>
      BY <1>6 DEF closeSip, callRest, regVars, mediaVars, roomVars
    <2>2. \/ /\ Goto(a, "closeSip", "closeBye") \/ Goto(a, "closeSip", "closeMedia")
             /\ ringing' = FALSE
          \/ /\ Goto(a, "closeBye", "closeBye") \/ Goto(a, "closeBye", "closeMedia")
             /\ UNCHANGED ringing
      BY <1>6 DEF closeSip, SendBye, SendStatus, CloseDropped, SendByeAgain,
         SendByeReturns, drop, stopRinging, ringVars
    <2>3. QED
      BY <2>1, <2>2, SMTT(90)
  <1>7. ASSUME NEW a \in Closers, closeMedia(a)
        PROVE  ReleaseInv'
    <2>1. UNCHANGED <<closedBy, registered, transferReg, ringing>>
      BY <1>7 DEF closeMedia, regVars, sipVars, ringVars
    <2>2. /\ Goto(a, "closeMedia", "deregister") /\ roomClose
          /\ media' # "open"
      BY <1>7 DEF closeMedia
    <2>3. /\ roomClosed' /\ room' \in {room, "left"}
          /\ ~roomClosed => room' # "joined"
      BY <2>2, RoomCloses
    <2>4. QED
      BY <2>1, <2>2, <2>3
  <1>8. ASSUME NEW a \in Closers, deregister(a)
        PROVE  ReleaseInv'
    <2>1. UNCHANGED <<closedBy, media, room, roomClosed, ringing>>
      BY <1>8 DEF deregister, mediaVars, roomVars, sipVars, ringVars
    <2>2. QED
      BY <1>8, <2>1 DEF deregister
  <1>9. ASSUME NEW a \in Closers, finish(a)
        PROVE  ReleaseInv'
    <2>1. /\ Goto(a, "return", "finished")
          /\ UNCHANGED <<closedBy, registered, transferReg, media, room,
                         roomClosed, ringing>>
      BY <1>9 DEF finish, regVars, mediaVars, roomVars, sipVars, ringVars
    <2>2. QED
      BY <2>1
  <1> HIDE <1>c DEF ReleaseInv, Closers, handlerPcs, closerPcs, owning, Goto
  <1>10. CASE WalkAlone /\ ~publishFails
    <2>1. UNCHANGED roomClosed
      BY <1>10 DEF WalkAlone, DispatchAccept, createMediaPort, negotiateMedia,
         negotiateMediaForLateAnswer, waitForMedia, waitMediaDone, pinEntered,
         joinRoom, RegisterTransferSIPParticipant, Connect, publishTrack,
         waitSubscribeDone, waitSubscribeTimeout, Activate, waitCancelled,
         waitCtxDone, waitRoomClosed, waitMediaTimeout, waitEndCall, callRest,
         roomVars
    <2>2. QED
      BY <1>2, <1>10, <2>1, Walk
  <1>11. CASE WalkLeg
    <2>1. UNCHANGED roomClosed
      BY <1>11 DEF WalkLeg, HandlerRings, DispatchReject, DispatchNoRuleDrop,
         rejectMedia, acceptCallFails, acceptCallWorks, acceptCallReturns,
         callRest, roomVars
    <2>2. QED
      BY <1>2, <1>11, <2>1, Walk
  <1>12. QED
    BY <1>1, <1>3, <1>4, <1>5, <1>6, <1>7, <1>8, <1>9, <1>10, <1>11, Steps
       DEF closeStep

\* A call closed by its handler gives back the media port, the participant,
\* the transfer topic, its entry in byLocalTag and the ringing goroutine,
\* whatever else was going on.
THEOREM HandlerLetsGo == Spec => []HandlerReleases
  <1>1. Init => ReleaseInv
    BY DEF Init, ReleaseInv, handlerPcs
  <1>2. CloseInv /\ ReleaseInv => HandlerReleases
    BY DEF ReleaseInv, HandlerReleases, AllFinished
  <1>3. QED
    BY <1>1, <1>2, ReleaseStepInv, CloseInvariance, PTL DEF Spec

-----------------------------------------------------------------------------
(* When the call is active.                                                 *)

joining == {"join", "register", "connect", "publish"}

\* handleInvite answers the call, arms the media timeout and joins the room on
\* both of its ways to the end: with a pin it answers first and joins last,
\* without one it joins first and answers last.
WayInv ==
  LET h == pc["handler"] IN
  /\ h \in {"lateAnswer", "armMedia", "waitMedia", "pin", "activate", "active"}
       \/ (pinPrompt /\ h \in joining) => answered
  /\ h \in {"waitMedia", "pin", "activate", "active"}
       \/ (pinPrompt /\ h \in joining) => mediaTimer # "off"
  /\ h \in {"publish", "waitSubscribe", "activate", "active"}
       \/ (~pinPrompt /\ h \in {"accept", "accepting", "lateAnswer", "armMedia",
                                "waitMedia"}) => room # "none"
  /\ h = "pin" => pinPrompt
  /\ ActiveOnlyIfAnswered

\* An answer is not taken back, the media timeout is not switched off, and a
\* participant that joined is joined or has left.
LEMMA Lasting ==
  [Next]_vars => /\ answered => answered'
                 /\ mediaTimer' = "off" => mediaTimer = "off"
                 /\ room' = "none" => room = "none"
  <1> SUFFICES ASSUME [Next]_vars
               PROVE  /\ answered => answered'
                      /\ mediaTimer' = "off" => mediaTimer = "off"
                      /\ room' = "none" => room = "none"
    OBVIOUS
  <1>1. answered => answered'
    <2>1. [SipNext]_sipVars
      BY StepIsSipStep
    <2>2. CASE UNCHANGED sipVars
      BY <2>2 DEF sipVars, okVars
    <2>3. CASE SipNext
      BY <2>3 DEF SipNext, StartRinging, CancelArrives, RingerCancelled,
         RingerStopped, Drop, RespondAndDrop, AcceptBegins, AcceptWriteFails,
         AcceptWriteAndWait, AcceptWriteAndReturn, AcceptAcked, AcceptRetry,
         AcceptGivesUp, TxAckArrives, AcceptAck, AckReport, AcceptBye,
         newReferReq, SendBye, SendByeAgain, SendByeReturns, SendStatus,
         CloseDropped, okWritten, okVars
    <2>4. QED
      BY <2>1, <2>2, <2>3
  <1>2. CASE AsideStep
    BY <1>1, <1>2 DEF AsideStep
  <1>3. CASE WalkAlone
    <2>1. CASE waitForMedia
      BY <1>1, <2>1 DEF waitForMedia, roomVars
    <2>2. CASE Connect
      BY <1>1, <2>2 DEF Connect, mediaVars
    <2>3. CASE publishFails
      BY <1>1, <2>3, RoomCloses DEF publishFails, mediaVars
    <2>4. CASE WalkAlone /\ ~waitForMedia /\ ~Connect /\ ~publishFails
      <3>1. UNCHANGED <<mediaTimer, room>>
        BY <2>4 DEF WalkAlone, DispatchAccept, createMediaPort, negotiateMedia,
           negotiateMediaForLateAnswer, waitMediaDone, pinEntered, joinRoom,
           RegisterTransferSIPParticipant, publishTrack, waitSubscribeDone,
           waitSubscribeTimeout, Activate, waitCancelled, waitCtxDone,
           waitRoomClosed, waitMediaTimeout, waitEndCall, callRest, mediaVars,
           roomVars
      <3>2. QED
        BY <1>1, <3>1
    <2>5. QED
      BY <1>3, <2>1, <2>2, <2>3, <2>4
  <1>4. CASE WalkLeg \/ Stop
    <2>1. UNCHANGED <<mediaTimer, room>>
      BY <1>4 DEF WalkLeg, HandlerRings, DispatchReject, DispatchNoRuleDrop,
         rejectMedia, acceptCallFails, acceptCallWorks, acceptCallReturns,
         Stop, callRest, mediaVars, roomVars
    <2>2. QED
      BY <1>1, <2>1
  <1>5. ASSUME NEW a \in Closers, closeStep(a)
        PROVE  /\ mediaTimer' = "off" => mediaTimer = "off"
               /\ room' = "none" => room = "none"
    <2>1. CASE closeMedia(a)
      BY <2>1, RoomCloses DEF closeMedia
    <2>2. CASE closeStep(a) /\ ~closeMedia(a)
      BY <2>2 DEF closeStep, closeCAS, closeSip, deregister, finish, callRest,
         mediaVars, roomVars
    <2>3. QED
      BY <1>5, <2>1, <2>2
  <1>6. QED
    BY <1>1, <1>2, <1>3, <1>4, <1>5, Steps

\* Every step of handleInvite keeps it.
LEMMA WayStepInv == SipInv /\ CloseInv /\ WayInv /\ [Next]_vars => WayInv'
  <1> SUFFICES ASSUME SipInv, CloseInv, WayInv, [Next]_vars PROVE WayInv'
    OBVIOUS
  <1>c. pc \in [Closers -> handlerPcs \cup closerPcs \cup {"idle"}]
    BY DEF CloseInv
  <1> USE <1>c, Lasting
      DEF WayInv, ActiveOnlyIfAnswered, joining, Closers, Goto, Handler
  <1>1. ASSUME pc'["handler"] = pc["handler"], UNCHANGED pinPrompt,
               callStatus' \in {callStatus, "ended"}
        PROVE  WayInv'
    BY <1>1
  <1>2. ASSUME pc'["handler"] \in closerPcs \cup {"dispatch", "createMedia",
                                                 "negotiate"},
               callStatus' \in {callStatus, "ended"}
        PROVE  WayInv'
    BY <1>2 DEF closerPcs
  <1>3. CASE negotiateMedia
    BY <1>3 DEF negotiateMedia, reportVars
  <1>4. CASE acceptCallWorks
    <2>1. /\ Handler("accept", "accepting") \/ Handler("accepting", "accepting")
          /\ UNCHANGED <<pinPrompt, callStatus>>
      BY <1>4 DEF acceptCallWorks, callRest, confVars, reportVars
    <2>2. QED
      BY <2>1
  <1>5. CASE acceptCallReturns
    <2>1. answered'
      BY <1>5 DEF acceptCallReturns, AcceptWriteAndReturn, AcceptAcked,
         AcceptGivesUp, okWritten, okVars, SipInv
    <2>2. /\ Handler("accepting", IF late THEN "lateAnswer" ELSE "armMedia")
          /\ UNCHANGED <<pinPrompt, callStatus>>
      BY <1>5 DEF acceptCallReturns, confVars, reportVars
    <2>3. QED
      BY <2>1, <2>2
  <1>6. CASE negotiateMediaForLateAnswer
    BY <1>6 DEF negotiateMediaForLateAnswer, callRest, confVars, reportVars
  <1>7. CASE waitForMedia
    BY <1>7 DEF waitForMedia, confVars, reportVars
  <1>8. CASE waitMediaDone
    BY <1>8 DEF waitMediaDone, callRest, confVars, reportVars
  <1>9. CASE pinEntered
    BY <1>9 DEF pinEntered, callRest, confVars, reportVars
  <1>10. CASE joinRoom
    BY <1>10 DEF joinRoom, callRest, confVars, reportVars
  <1>11. CASE RegisterTransferSIPParticipant
    BY <1>11 DEF RegisterTransferSIPParticipant, confVars, reportVars
  <1>12. CASE Connect
    BY <1>12 DEF Connect, confVars, reportVars
  <1>13. CASE publishTrack
    BY <1>13 DEF publishTrack, callRest, confVars, reportVars
  <1>14. CASE waitSubscribeDone
    BY <1>14 DEF waitSubscribeDone, callRest, confVars, reportVars
  <1>15. CASE Activate
    BY <1>15 DEF Activate, confVars
  <1>16. CASE AsideStep
    BY <1>1, <1>16 DEF AsideStep
  <1>17. CASE Stop
    BY <1>1, <1>17 DEF Stop, confVars, reportVars
  <1>18. ASSUME NEW a \in Closers, closeStep(a)
         PROVE  WayInv'
    <2>1. /\ \E p, q \in closerPcs : Goto(a, p, q)
          /\ UNCHANGED pinPrompt /\ callStatus' \in {callStatus, "ended"}
      BY <1>18 DEF closeStep, closeCAS, closeSip, closeMedia, deregister,
         finish, callRest, confVars, reportVars, closerPcs
    <2>2. QED
      BY <1>1, <1>2, <2>1
  <1>19. CASE \/ HandlerRings \/ DispatchAccept \/ DispatchReject
              \/ DispatchNoRuleDrop \/ createMediaPort \/ rejectMedia
              \/ acceptCallFails
    <2>1. /\ \E p \in handlerPcs, q \in closerPcs \cup {"dispatch", "createMedia",
                                                      "negotiate"} : Handler(p, q)
          /\ UNCHANGED callStatus
      BY <1>19 DEF HandlerRings, DispatchAccept, DispatchReject,
         DispatchNoRuleDrop, createMediaPort, rejectMedia, acceptCallFails,
         callRest, reportVars, handlerPcs, closerPcs
    <2>2. QED
      BY <1>2, <2>1
  <1>20. CASE \/ publishFails \/ waitSubscribeTimeout \/ waitCancelled
              \/ waitCtxDone \/ waitRoomClosed \/ waitMediaTimeout
              \/ waitEndCall
    <2>1. /\ \E p \in handlerPcs : Handler(p, "close")
          /\ UNCHANGED callStatus
      BY <1>20 DEF publishFails, waitSubscribeTimeout, waitCancelled,
         waitCtxDone, waitRoomClosed, waitMediaTimeout, waitEndCall, callRest,
         reportVars, handlerPcs
    <2>2. QED
      BY <1>2, <2>1 DEF closerPcs
  <1> HIDE <1>c, Lasting
      DEF WayInv, ActiveOnlyIfAnswered, joining, Closers, Goto, Handler
  <1>21. QED
    BY <1>3, <1>4, <1>5, <1>6, <1>7, <1>8, <1>9, <1>10, <1>11, <1>12, <1>13,
       <1>14, <1>15, <1>16, <1>17, <1>18, <1>19, <1>20, Steps
       DEF WalkAlone, WalkLeg

\* SCS_ACTIVE is reported only of an answered call that has its media timeout
\* and its participant, on both ways through handleInvite.
THEOREM ActiveCallIsAnswered == Spec => []ActiveOnlyIfAnswered
  <1>1. Init => WayInv
    BY DEF Init, WayInv, ActiveOnlyIfAnswered, joining, Closers
  <1>2. WayInv => ActiveOnlyIfAnswered
    BY DEF WayInv
  <1>3. Spec => []SipInv
    BY CallUsesSipInbound, SipInvariance, PTL
  <1>4. QED
    BY <1>1, <1>2, <1>3, WayStepInv, CloseInvariance, PTL DEF Spec

-----------------------------------------------------------------------------
(* Types.                                                                   *)

confFlags ==
  inboundWaitACK \in BOOLEAN /\ pinPrompt \in BOOLEAN /\ late \in BOOLEAN
regFlags == registered \in BOOLEAN /\ transferReg \in BOOLEAN
rpcFlags ==
  endCall \in BOOLEAN /\ byeReceived \in BOOLEAN /\ ctxDone \in BOOLEAN
mediaOK ==
  /\ media \in {"none", "open", "closed"}
  /\ mediaTimer \in {"off", "armed", "fired"}
  /\ ackTimer \in {"off", "running"}
roomOK ==
  /\ room \in {"none", "joined", "left"}
  /\ roomClosed \in BOOLEAN /\ roomStopped \in BOOLEAN
byeOK == bye \in [Byes -> {"idle", "accept", "report", "done"}]
statusOK == callStatus \in {"incoming", "active", "ended"}

\* Each step of a goroutine gives the variables it assigns one of their values.
LEMMA CallTypeStep ==
  ASSUME [Next]_vars
  PROVE  /\ confFlags => confFlags'
         /\ regFlags => regFlags'
         /\ rpcFlags => rpcFlags'
         /\ mediaOK => mediaOK'
         /\ roomOK => roomOK'
         /\ byeOK => byeOK'
         /\ statusOK => statusOK'
  <1> USE DEF confVars, regVars, mediaVars, roomVars, rpcVars, reportVars,
          callRest, callVars
  <1>1. CASE handlerStep \/ pinEntered \/ waitSubscribeDone
    <2> USE <1>1 DEF handlerStep, HandlerRings, DispatchAccept,
            DispatchReject, DispatchNoRuleDrop, createMediaPort, rejectMedia,
            negotiateMedia, acceptCallFails, acceptCallWorks,
            acceptCallReturns, negotiateMediaForLateAnswer, waitForMedia,
            waitMediaDone, joinRoom, RegisterTransferSIPParticipant, Connect,
            publishTrack, publishFails, waitSubscribeTimeout, Activate,
            waitCancelled, waitCtxDone, waitRoomClosed, waitMediaTimeout,
            waitEndCall, ackReceived, ackTimeout, pinEntered,
            waitSubscribeDone, roomClose
    <2>1. confFlags => confFlags'
      BY DEF confFlags
    <2>2. regFlags => regFlags'
      BY DEF regFlags
    <2>3. rpcFlags => rpcFlags'
      BY DEF rpcFlags
    <2>4. mediaOK => mediaOK'
      BY DEF mediaOK
    <2>5. roomOK => roomOK'
      BY DEF roomOK
    <2>6. (byeOK => byeOK') /\ (statusOK => statusOK')
      BY DEF byeOK, statusOK
    <2>7. QED
      BY <2>1, <2>2, <2>3, <2>4, <2>5, <2>6
  <1>2. ASSUME NEW a \in Closers, closeStep(a)
        PROVE  /\ (confFlags => confFlags') /\ (regFlags => regFlags')
               /\ (rpcFlags => rpcFlags') /\ (mediaOK => mediaOK')
               /\ (roomOK => roomOK') /\ (byeOK => byeOK')
               /\ (statusOK => statusOK')
    <2> USE <1>2 DEF closeStep, closeCAS, closeSip, closeMedia, deregister,
            finish, roomClose
    <2>1. (confFlags => confFlags') /\ (regFlags => regFlags')
      BY DEF confFlags, regFlags
    <2>2. (rpcFlags => rpcFlags') /\ (byeOK => byeOK')
      BY DEF rpcFlags, byeOK
    <2>3. (mediaOK => mediaOK') /\ (roomOK => roomOK')
      BY DEF mediaOK, roomOK
    <2>4. statusOK => statusOK'
      BY DEF statusOK
    <2>5. QED
      BY <2>1, <2>2, <2>3, <2>4
  <1>3. CASE \/ \E b \in Byes : HandleBye(b) \/ byeStep(b)
             \/ Stop \/ HandleAck \/ sipStep \/ EndCall \/ transferRefer
             \/ transferHangup \/ MaxCallDuration \/ MediaTimeoutFires
             \/ RoomDisconnected \/ UNCHANGED vars
    <2> USE <1>3 DEF HandleBye, byeStep, ByeAccepted, Bye, Stop, HandleAck,
            sipStep, EndCall, transferRefer, transferHangup, MaxCallDuration,
            MediaTimeoutFires, RoomDisconnected, vars
    <2>1. (confFlags => confFlags') /\ (regFlags => regFlags')
      BY DEF confFlags, regFlags
    <2>2. rpcFlags => rpcFlags'
      BY DEF rpcFlags
    <2>3. (mediaOK => mediaOK') /\ (roomOK => roomOK')
      BY DEF mediaOK, roomOK
    <2>4. byeOK => byeOK'
      BY DEF byeOK
    <2>5. statusOK => statusOK'
      BY DEF statusOK
    <2>6. QED
      BY <2>1, <2>2, <2>3, <2>4, <2>5
  <1>4. QED
    BY <1>1, <1>2, <1>3 DEF Next

\* The status of EventCallEnded is a status of the leg.
LEMMA EndStatusStep ==
  ASSUME SipInv, [Next]_vars, endStatus \in {0, 200, Reject}
  PROVE  endStatus' \in {0, 200, Reject}
  <1>1. CASE AsideStep
    BY <1>1 DEF AsideStep
  <1>2. CASE WalkAlone \/ WalkLeg
    BY <1>2, Walk DEF WalkStep
  <1>3. CASE Stop
    BY <1>3 DEF Stop, reportVars
  <1>4. ASSUME NEW a \in Closers, closeStep(a)
        PROVE  endStatus' \in {0, 200, Reject}
    <2>1. lastStatus \in {0, 200, Reject}
      BY DEF SipInv, SipTypeOK, SipValuesOK
    <2>2. endStatus' \in {endStatus, lastStatus}
      BY <1>4 DEF closeStep, closeCAS, closeSip, closeMedia, deregister,
         finish, callRest, reportVars
    <2>3. QED
      BY <2>1, <2>2
  <1>5. QED
    BY <1>1, <1>2, <1>3, <1>4, Steps

\* The variables of an inbound call have their types, for any set of BYEs and
\* of outside events; in particular its end and the caller's BYE are reported
\* at most once.
THEOREM CallTypeCorrect == Spec => []CallTypeOK
  <1> DEFINE rest == /\ confFlags /\ regFlags /\ rpcFlags /\ mediaOK /\ roomOK
                     /\ byeOK /\ statusOK /\ endStatus \in {0, 200, Reject}
  <1>1. Init => rest /\ ByeInv
    BY DEF Init, confFlags, regFlags, rpcFlags, mediaOK, roomOK, byeOK,
       statusOK, ByeInv
  <1>2. SipInv /\ rest /\ [Next]_vars => rest'
    BY CallTypeStep, EndStatusStep
  <1>3. CloseInv /\ ByeInv /\ rest => CallTypeOK
    <2> SUFFICES ASSUME CloseInv, ByeInv, rest PROVE CallTypeOK
      OBVIOUS
    <2>1. byeEvents \in 0..1
      BY SMTT(90) DEF ByeInv
    <2>2. callEnded \in 0..1
      BY SMTT(90) DEF CloseInv, Closers
    <2>3. QED
      BY <2>1, <2>2 DEF CallTypeOK, CloseInv, confFlags, regFlags, rpcFlags,
         mediaOK, roomOK, byeOK, statusOK
  <1>4. Spec => []SipInv
    BY CallUsesSipInbound, SipInvariance, PTL
  <1> HIDE DEF rest
  <1>5. QED
    BY <1>1, <1>2, <1>3, <1>4, ByeStepInv, CloseInvariance, PTL DEF Spec

-----------------------------------------------------------------------------
(* Requests to end the call.                                                *)

\* c.mu is held by the handler inside Accept or by the closer inside sendBye,
\* and by nobody else: a goroutine that has left them has released it.
LockInv ==
  /\ lock = "accept" <=> pc["handler"] = "accepting"
  /\ lock \in {"bye", "byeRetry"} <=> \E a \in Closers : pc[a] = "closeBye"

\* A BYE that was handled, and a Shutdown that closed the call, have cancelled
\* the context of handleInvite.
ToldInv ==
  /\ \A b \in Byes : bye[b] = "done" => ctxDone
  /\ closedBy = "stop" /\ pc["stop"] \in {"return", "finished"} => ctxDone

\* Where handleInvite has not joined the room yet.  With a pin it answers
\* first.
BeforeRoom ==
  \/ pc["handler"] \in Early \cup {"join", "register", "connect"}
  \/ /\ pinPrompt
     /\ pc["handler"] \in {"accept", "accepting", "lateAnswer", "armMedia",
                          "waitMedia", "pin"}

\* A request over RPC comes only to a call that has joined its room.
RequestInv ==
  /\ pc["handler"] # "idle"
  /\ pc["handler"] = "pin" => pinPrompt
  /\ pc["handler"] = "waitSubscribe" => ~pinPrompt
  /\ BeforeRoom => room = "none" /\ ~endCall

\* Only the methods that hold c.mu pass it on.
LEMMA LockStep == SipInv /\ CloseInv /\ LockInv /\ [Next]_vars => LockInv'
  <1> SUFFICES ASSUME SipInv, CloseInv, LockInv, [Next]_vars PROVE LockInv'
    OBVIOUS
  <1>c. /\ pc \in [Closers -> handlerPcs \cup closerPcs \cup {"idle"}]
        /\ \A a \in Closers : pc[a] = "closeBye" => closedBy = a
    BY DEF CloseInv, owning
  <1>1. ASSUME UNCHANGED lock, NEW a \in Closers, NEW p, NEW q, Goto(a, p, q),
               p = "closeBye" <=> q = "closeBye",
               p = "accepting" <=> q = "accepting"
        PROVE  LockInv'
    BY <1>1, <1>c DEF LockInv, Goto, Closers
  <1>2. CASE AsideStep
    BY <1>2 DEF AsideStep, LockInv
  <1>3. CASE WalkAlone
    <2> USE <1>1 DEF Handler, Closers, sipVars, accVars
    <2>1. CASE DispatchAccept \/ createMediaPort \/ negotiateMedia
      BY <2>1 DEF DispatchAccept, createMediaPort, negotiateMedia
    <2>2. CASE negotiateMediaForLateAnswer \/ waitForMedia \/ waitMediaDone
      BY <2>2 DEF negotiateMediaForLateAnswer, waitForMedia, waitMediaDone
    <2>3. CASE \/ pinEntered \/ joinRoom \/ RegisterTransferSIPParticipant
               \/ Connect
      BY <2>3 DEF pinEntered, joinRoom, RegisterTransferSIPParticipant, Connect
    <2>4. CASE publishTrack \/ publishFails \/ waitSubscribeDone
      BY <2>4 DEF publishTrack, publishFails, waitSubscribeDone
    <2>5. CASE waitSubscribeTimeout \/ Activate \/ waitCancelled
      BY <2>5 DEF waitSubscribeTimeout, Activate, waitCancelled
    <2>6. CASE \/ waitCtxDone \/ waitRoomClosed \/ waitMediaTimeout
               \/ waitEndCall
      BY <2>6 DEF waitCtxDone, waitRoomClosed, waitMediaTimeout, waitEndCall
    <2>7. QED
      BY <1>3, <2>1, <2>2, <2>3, <2>4, <2>5, <2>6 DEF WalkAlone
  <1>4. CASE WalkLeg
    <2>1. CASE \/ HandlerRings \/ DispatchReject \/ DispatchNoRuleDrop
               \/ rejectMedia
      BY <1>1, <2>1 DEF HandlerRings, DispatchReject, DispatchNoRuleDrop,
         rejectMedia, StartRinging, RespondAndDrop, Drop, accVars, Handler,
         Closers
    \* Accept takes c.mu, keeps it while it repeats the 200 OK, and returns.
    <2>2. ASSUME Handler("accept", "accepting"), lock = "free", lock' = "accept"
          PROVE  LockInv'
      BY <2>2, <1>c DEF LockInv, Handler, Goto, Closers
    <2>3. ASSUME Handler("accepting", "accepting"), UNCHANGED lock
          PROVE  LockInv'
      BY <2>3, <1>1 DEF Handler, Closers
    <2>4. ASSUME NEW q, Handler("accepting", q), q # "accepting",
                 q # "closeBye", lock' = "free"
          PROVE  LockInv'
      BY <2>4, <1>c DEF LockInv, Handler, Goto, Closers
    <2>5. CASE acceptCallFails
      BY <2>5, <1>1, <2>4 DEF acceptCallFails, AcceptRefused, AcceptWriteFails,
         AcceptGivesUp, sipVars, accVars, Handler, Closers
    <2>6. CASE acceptCallWorks
      BY <2>6, <2>2, <2>3 DEF acceptCallWorks, AcceptBegins,
         AcceptWriteAndWait, AcceptRetry, okWritten
    <2>7. CASE acceptCallReturns
      BY <2>7, <2>4 DEF acceptCallReturns, AcceptWriteAndReturn, AcceptAcked,
         AcceptGivesUp, okWritten
    <2>8. QED
      BY <1>4, <2>1, <2>5, <2>6, <2>7 DEF WalkLeg
  <1>5. CASE Stop
    BY <1>5, <1>1 DEF Stop, sipVars, accVars, Closers
  <1>6. ASSUME NEW a \in Closers, closeCAS(a) \/ closeMedia(a)
                                \/ deregister(a) \/ finish(a)
        PROVE  LockInv'
    BY <1>6, <1>1 DEF closeCAS, closeMedia, deregister, finish, sipVars,
       accVars
  <1>7. ASSUME NEW a \in Closers, closeSip(a)
        PROVE  LockInv'
    <2>1. CASE Goto(a, "closeSip", "closeBye") /\ SendBye
      BY <2>1, <1>c DEF SendBye, LockInv, Goto, Closers
    <2>2. CASE Goto(a, "closeSip", "closeMedia") /\ (SendStatus \/ CloseDropped)
      BY <2>2, <1>1 DEF SendStatus, CloseDropped, accVars
    <2>3. CASE Goto(a, "closeBye", "closeBye") /\ SendByeAgain
      BY <2>3, <1>c DEF SendByeAgain, LockInv, Goto, Closers
    <2>4. CASE Goto(a, "closeBye", "closeMedia") /\ SendByeReturns
      BY <2>4, <1>c DEF SendByeReturns, LockInv, Goto, Closers
    <2>5. QED
      BY <1>7, <2>1, <2>2, <2>3, <2>4 DEF closeSip
  <1>8. QED
    BY <1>2, <1>3, <1>4, <1>5, <1>6, <1>7, Steps DEF closeStep

\* Nobody takes back the cancellation of the context.
LEMMA ToldStep == byeOK /\ CloseInv /\ ToldInv /\ [Next]_vars => ToldInv'
  <1> SUFFICES ASSUME byeOK, CloseInv, ToldInv, [Next]_vars PROVE ToldInv'
    OBVIOUS
  <1>c. /\ pc \in [Closers -> handlerPcs \cup closerPcs \cup {"idle"}]
        /\ \A a \in Closers :
             /\ closedBy = a => pc[a] \in owning \cup {"return", "finished"}
             /\ pc[a] = "deregister" => closedBy = a
    <2>1. pc \in [Closers -> handlerPcs \cup closerPcs \cup {"idle"}]
      BY DEF CloseInv
    <2>2. ASSUME NEW a \in Closers
          PROVE  /\ closedBy = a => pc[a] \in owning \cup {"return", "finished"}
                 /\ pc[a] \in owning => closedBy = a
      BY <2>2 DEF CloseInv
    <2>3. QED
      BY <2>1, <2>2 DEF owning
  <1> USE DEF callRest, callVars, rpcVars
  <1>1. ASSUME UNCHANGED <<bye, closedBy>>, UNCHANGED ctxDone \/ ctxDone',
               pc'["stop"] = pc["stop"]
        PROVE  ToldInv'
    BY <1>1, SMTT(90) DEF ToldInv
  <1>2. CASE handlerStep \/ pinEntered \/ waitSubscribeDone
    <2>1. UNCHANGED <<bye, ctxDone>>
      BY <1>2 DEF handlerStep, HandlerRings, DispatchAccept, DispatchReject,
         DispatchNoRuleDrop, createMediaPort, rejectMedia, negotiateMedia,
         acceptCallFails, acceptCallWorks, acceptCallReturns,
         negotiateMediaForLateAnswer, waitForMedia, waitMediaDone, joinRoom,
         RegisterTransferSIPParticipant, Connect, publishTrack, publishFails,
         waitSubscribeTimeout, Activate, waitCancelled, waitCtxDone,
         waitRoomClosed, waitMediaTimeout, waitEndCall, ackReceived,
         ackTimeout, pinEntered, waitSubscribeDone
    <2>2. CASE ackReceived \/ ackTimeout
      BY <2>1, <2>2, <1>1, Aside DEF AsideStep
    <2>3. CASE WalkAlone \/ WalkLeg
      <3>1. WalkStep
        BY <2>3, Walk
      <3>2. pc'["stop"] = pc["stop"] /\ UNCHANGED closedBy
        BY <3>1, <1>c DEF WalkStep, Handler, Goto, Closers
      <3>3. QED
        BY <2>1, <3>2, <1>1
    <2>4. QED
      BY <1>2, <2>2, <2>3 DEF handlerStep, WalkAlone, WalkLeg
  <1>3. CASE HandleAck \/ sipStep \/ EndCall \/ transferRefer
    BY <1>3, <1>1 DEF HandleAck, sipStep, EndCall, transferRefer
  <1>t. CASE transferHangup \/ MaxCallDuration
    <2>1. UNCHANGED <<bye, closedBy, pc>> /\ ctxDone'
      BY <1>t DEF transferHangup, MaxCallDuration
    <2>2. QED
      BY <1>1, <2>1
  <1>u. CASE MediaTimeoutFires \/ RoomDisconnected \/ UNCHANGED vars
    BY <1>u, <1>1 DEF MediaTimeoutFires, RoomDisconnected, vars
  <1>4. ASSUME NEW b \in Byes, HandleBye(b) \/ byeStep(b)
        PROVE  ToldInv'
    <2>1. UNCHANGED <<pc, closedBy>> /\ (UNCHANGED ctxDone \/ ctxDone')
      <3>1. CASE HandleBye(b) \/ ByeAccepted(b)
        BY <3>1 DEF HandleBye, ByeAccepted
      <3>2. CASE Bye(b)
        BY <3>2 DEF Bye
      <3>3. QED
        BY <1>4, <3>1, <3>2 DEF byeStep
    <2>2. \/ bye' = [bye EXCEPT ![b] = "accept"]
          \/ bye' = [bye EXCEPT ![b] = "report"]
          \/ ctxDone'
      BY <1>4 DEF HandleBye, byeStep, ByeAccepted, Bye
    <2>3. ASSUME NEW x \in Byes, bye'[x] = "done" PROVE ctxDone'
      BY <2>1, <2>2, <2>3, SMTT(90) DEF ToldInv, byeOK
    <2>4. QED
      BY <2>1, <2>3, SMTT(90) DEF ToldInv
  <1>5. CASE Stop
    BY <1>5, <1>c DEF Stop, Goto, ToldInv, Closers
  <1>6. ASSUME NEW a \in Closers, closeCAS(a) PROVE ToldInv'
    <2>1. UNCHANGED <<bye, ctxDone>>
      BY <1>6 DEF closeCAS
    <2>2. closedBy # a
      BY <1>6, <1>c DEF closeCAS, Goto, owning
    <2>3. QED
      BY <1>6, <1>c, <2>1, <2>2, SMTT(90) DEF closeCAS, Goto, ToldInv, Closers
  <1>7. ASSUME NEW a \in Closers, closeSip(a) \/ closeMedia(a)
        PROVE  ToldInv'
    <2>1. UNCHANGED <<bye, ctxDone, closedBy>>
      BY <1>7 DEF closeSip, closeMedia
    <2>2. pc'[a] \notin {"return", "finished"}
      BY <1>7, <1>c DEF closeSip, closeMedia, Goto
    <2>3. \A x \in Closers : x # a => pc'[x] = pc[x]
      BY <1>7, <1>c DEF closeSip, closeMedia, Goto
    <2>4. QED
      BY <2>1, <2>2, <2>3 DEF ToldInv, Closers
  <1>8. ASSUME NEW a \in Closers, deregister(a) PROVE ToldInv'
    BY <1>8 DEF deregister, ToldInv
  <1>9. ASSUME NEW a \in Closers, finish(a) PROVE ToldInv'
    BY <1>9, <1>c, SMTT(90) DEF finish, Goto, ToldInv, Closers
  <1>10. QED
    BY <1>2, <1>3, <1>t, <1>u, <1>4, <1>5, <1>6, <1>7, <1>8, <1>9
       DEF Next, closeStep

\* handleInvite joins the room after the pin, or before it answers.
LEMMA RequestStep == CloseInv /\ RequestInv /\ [Next]_vars => RequestInv'
  <1> SUFFICES ASSUME CloseInv, RequestInv, [Next]_vars PROVE RequestInv'
    OBVIOUS
  <1>c. pc \in [Closers -> handlerPcs \cup closerPcs \cup {"idle"}]
    BY DEF CloseInv
  <1>1. ASSUME pc'["handler"] = pc["handler"], UNCHANGED pinPrompt,
               room' = room \/ room = "joined",
               endCall' => endCall \/ room = "joined"
        PROVE  RequestInv'
    BY <1>1 DEF RequestInv, BeforeRoom
  \* Once in the room, or closing, the handler may be asked.
  <1>2. ASSUME NEW p, NEW q, Handler(p, q), UNCHANGED pinPrompt,
               q \in {"close", "publish", "activate", "active"}
        PROVE  RequestInv'
    BY <1>2, <1>c DEF RequestInv, BeforeRoom, Handler, Goto, Early, Closers
  <1>3. ASSUME NEW p, NEW q, Handler(p, q), BeforeRoom,
               q \notin {"pin", "waitSubscribe", "idle"}, UNCHANGED <<room, endCall>>
        PROVE  RequestInv'
    BY <1>3, <1>c DEF RequestInv, Handler, Goto, Closers
  \* Answering, with the pin still to come or with the room joined.
  <1>4. ASSUME NEW p \in {"accept", "accepting", "lateAnswer", "armMedia"},
               NEW q \in {"accepting", "lateAnswer", "armMedia", "waitMedia"},
               Handler(p, q), UNCHANGED <<pinPrompt, room, endCall>>
        PROVE  RequestInv'
    BY <1>4, <1>c DEF RequestInv, BeforeRoom, Handler, Goto, Early, Closers
  <1>5. CASE AsideStep
    BY <1>5, <1>1 DEF AsideStep
  <1>6. CASE WalkAlone
    <2> USE DEF callRest, confVars, rpcVars, roomVars
    <2>1. CASE DispatchAccept \/ createMediaPort \/ negotiateMedia
      <3>1. BeforeRoom
        BY <2>1 DEF DispatchAccept, createMediaPort, negotiateMedia, Handler,
           Goto, BeforeRoom, Early
      <3>2. QED
        BY <1>3, <2>1, <3>1 DEF DispatchAccept, createMediaPort,
           negotiateMedia
    <2>2. CASE negotiateMediaForLateAnswer \/ waitForMedia
      BY <1>2, <1>4, <2>2 DEF negotiateMediaForLateAnswer, waitForMedia
    <2>3. CASE waitMediaDone
      <3>1. CASE ~pinPrompt
        BY <1>2, <2>3, <3>1 DEF waitMediaDone
      <3>2. CASE pinPrompt
        <4>1. room = "none" /\ ~endCall
          BY <2>3, <3>2 DEF waitMediaDone, Handler, Goto, RequestInv,
             BeforeRoom
        <4>2. QED
          BY <1>c, <2>3, <3>2, <4>1 DEF waitMediaDone, Handler, Goto,
             RequestInv, Closers
      <3>3. QED
        BY <3>1, <3>2
    <2>4. CASE pinEntered \/ joinRoom \/ RegisterTransferSIPParticipant
      <3>1. BeforeRoom
        BY <2>4 DEF pinEntered, joinRoom, RegisterTransferSIPParticipant,
           Handler, Goto, RequestInv, BeforeRoom
      <3>2. QED
        BY <1>3, <2>4, <3>1 DEF pinEntered, joinRoom,
           RegisterTransferSIPParticipant
    <2>5. CASE Connect \/ publishFails \/ waitSubscribeTimeout \/ Activate
      BY <1>2, <2>5 DEF Connect, publishFails, waitSubscribeTimeout, Activate
    <2>6. CASE publishTrack
      <3>1. CASE pinPrompt
        BY <1>2, <2>6, <3>1 DEF publishTrack
      <3>2. CASE ~pinPrompt
        BY <1>c, <2>6, <3>2 DEF publishTrack, Handler, Goto, RequestInv,
           BeforeRoom, Early, Closers
      <3>3. QED
        BY <3>1, <3>2
    <2>7. CASE waitSubscribeDone
      BY <1>c, <2>7 DEF waitSubscribeDone, Handler, Goto, RequestInv,
         BeforeRoom, Early, Closers
    <2>8. CASE \/ waitCancelled \/ waitCtxDone \/ waitRoomClosed
               \/ waitMediaTimeout \/ waitEndCall
      BY <1>2, <2>8 DEF waitCancelled, waitCtxDone, waitRoomClosed,
         waitMediaTimeout, waitEndCall
    <2>9. QED
      BY <1>6, <2>1, <2>2, <2>3, <2>4, <2>5, <2>6, <2>7, <2>8 DEF WalkAlone
  <1>7. CASE WalkLeg
    <2> USE DEF callRest, confVars, rpcVars, roomVars
    <2>1. CASE HandlerRings
      <3>1. BeforeRoom
        BY <2>1 DEF HandlerRings, Handler, Goto, BeforeRoom, Early
      <3>2. QED
        BY <1>3, <2>1, <3>1 DEF HandlerRings
    <2>2. CASE \/ DispatchReject \/ DispatchNoRuleDrop \/ rejectMedia
               \/ acceptCallFails
      BY <1>2, <2>2 DEF DispatchReject, DispatchNoRuleDrop, rejectMedia,
         acceptCallFails
    <2>3. CASE acceptCallWorks \/ acceptCallReturns
      BY <1>4, <2>3 DEF acceptCallWorks, acceptCallReturns
    <2>4. QED
      BY <1>7, <2>1, <2>2, <2>3 DEF WalkLeg
  <1>8. CASE Stop
    BY <1>c, <1>8, <1>1 DEF Stop, Goto, Closers, confVars, rpcVars, roomVars
  <1>9. ASSUME NEW a \in Closers, closeStep(a) PROVE RequestInv'
    <2>1. UNCHANGED <<pinPrompt, endCall>> /\ (room' = room \/ room = "joined")
      BY <1>9, RoomCloses DEF closeStep, closeCAS, closeSip, closeMedia,
         deregister, finish, callRest, confVars, rpcVars, roomVars
    <2>2. PICK p \in closerPcs, q \in closerPcs : Goto(a, p, q)
      BY <1>9 DEF closeStep, closeCAS, closeSip, closeMedia, deregister,
         finish, closerPcs
    <2>3. CASE a = "handler"
      BY <1>c, <2>2, <2>3 DEF Goto, RequestInv, BeforeRoom, Early, closerPcs,
         Closers
    <2>4. CASE a = "stop"
      BY <1>1, <1>c, <2>1, <2>2, <2>4 DEF Goto, Closers
    <2>5. QED
      BY <2>3, <2>4 DEF Closers
  <1>10. QED
    BY <1>5, <1>6, <1>7, <1>8, <1>9, Steps

\* The safety half of EndRequestsHonoured.  c.mu, which a closer and the BYE of
\* the caller wait for, is held only by a goroutine that is inside Accept or
\* sendBye.  Once a BYE or Shutdown has been dealt with, the handler's context
\* is cancelled or the handler is closing already.  A request in the endCall
\* channel finds the handler closing, or on a path on which a select that
\* reads the channel is still to come.
NoEndRequestIsLost ==
  LET h == pc["handler"] IN
  /\ lock = "accept" => h = "accepting"
  /\ lock \in {"bye", "byeRetry"} => \E a \in Closers : pc[a] = "closeBye"
  /\ \A b \in Byes : bye[b] = "done" => ctxDone
  /\ pc["stop"] \in {"return", "finished"} => ctxDone \/ h \in closerPcs
  /\ endCall => \/ h \in {"publish", "activate", "active"} \cup closerPcs
                \/ /\ ~pinPrompt
                   /\ h \in {"waitSubscribe", "accept", "accepting",
                            "lateAnswer", "armMedia", "waitMedia"}

\* No request to end an inbound call is lost on the way to its handler, for any
\* set of BYEs and of outside events.
THEOREM EndRequestsReachHandler == Spec => []NoEndRequestIsLost
  <1>1. Init => LockInv /\ ToldInv /\ RequestInv
    <2> SUFFICES ASSUME Init PROVE LockInv /\ ToldInv /\ RequestInv
      OBVIOUS
    <2>1. LockInv
      BY SMTT(90) DEF Init, SipInit, LockInv, Closers
    <2>2. ToldInv
      BY SMTT(90) DEF Init, ToldInv
    <2>3. RequestInv
      BY SMTT(90) DEF Init, RequestInv, BeforeRoom, Closers
    <2>4. QED
      BY <2>1, <2>2, <2>3
  <1>2. CloseInv /\ LockInv /\ ToldInv /\ RequestInv => NoEndRequestIsLost
    <2> SUFFICES ASSUME CloseInv, LockInv, ToldInv, RequestInv
                 PROVE  NoEndRequestIsLost
      OBVIOUS
    <2>1. pc["stop"] \in {"return", "finished"}
            => ctxDone \/ pc["handler"] \in closerPcs
      BY DEF CloseInv, ToldInv, Closers, owning, closerPcs
    <2>2. ASSUME endCall
          PROVE  \/ pc["handler"] \in {"publish", "activate", "active"} \cup closerPcs
                 \/ /\ ~pinPrompt
                    /\ pc["handler"] \in {"waitSubscribe", "accept", "accepting",
                                         "lateAnswer", "armMedia", "waitMedia"}
      <3>1. pc["handler"] \in handlerPcs \cup closerPcs \cup {"idle"}
        BY DEF CloseInv, Closers
      <3>2. ~BeforeRoom
        BY <2>2 DEF RequestInv
      <3>3. QED
        BY <3>1, <3>2 DEF BeforeRoom, Early, handlerPcs, RequestInv
    <2>3. QED
      BY <2>1, <2>2 DEF NoEndRequestIsLost, LockInv, ToldInv
  <1>3. Spec => []SipInv
    BY CallUsesSipInbound, SipInvariance, PTL
  <1>4. CallTypeOK => byeOK
    BY DEF CallTypeOK, byeOK
  <1>5. QED
    BY <1>1, <1>2, <1>3, <1>4, CallTypeCorrect, CloseInvariance, LockStep,
       ToldStep, RequestStep, PTL DEF Spec

-----------------------------------------------------------------------------
(* After the end.                                                           *)

\* Nothing is sent for an inbound call whose end was reported.
THEOREM EndIsTheLastWord == Spec => NothingAfterEnd
  <1>1. SipInv /\ CloseInv /\ LockInv /\ callEnded > 0
          => /\ ~inviteTx /\ ~inviteOk /\ ~invite
             /\ lock \notin {"accept", "bye", "byeRetry"}
             /\ \A a \in Closers : pc[a] # "closeMedia"
    <2> SUFFICES ASSUME SipInv, CloseInv, LockInv, callEnded > 0
                 PROVE  /\ ~inviteTx /\ ~inviteOk /\ ~invite
                        /\ lock \notin {"accept", "bye", "byeRetry"}
                        /\ \A a \in Closers : pc[a] # "closeMedia"
      OBVIOUS
    <2>0. callEnded # 0
      BY SMTT(90)
    <2>1. /\ \A a \in Closers : pc[a] \notin {"closeSip", "closeBye", "closeMedia"}
          /\ closedBy # "none"
      BY <2>0 DEF CloseInv, owning
    <2>2. ~invite
      <3>1. closedBy \in Closers \cup {"none"}
        BY DEF CloseInv
      <3>2. ASSUME NEW a \in Closers, closedBy = a, pc[a] # "closeSip"
            PROVE  ~invite
        BY <3>2 DEF CloseInv
      <3>3. QED
        BY <2>1, <3>1, <3>2
    <2>3. /\ invite <=> inviteTx \/ inviteOk
          /\ lock = "accept" => inviteTx
      BY DEF SipInv, LegShape
    <2>4. QED
      BY <2>1, <2>2, <2>3 DEF LockInv
  <1>2. SipInv /\ CloseInv /\ LockInv /\ [Next]_vars
          => [callEnded > 0 =>
                UNCHANGED <<answered, rejects, byes, refers, lastCSeq,
                            lastStatus, endStatus, callEnded>>]_vars
    <2> SUFFICES ASSUME SipInv, CloseInv, LockInv, [Next]_vars, callEnded > 0
                 PROVE  UNCHANGED <<answered, rejects, byes, refers, lastCSeq,
                                    lastStatus, endStatus, callEnded>>
      OBVIOUS
    <2>1. /\ ~inviteTx /\ ~inviteOk /\ ~invite
          /\ lock \notin {"accept", "bye", "byeRetry"}
          /\ \A a \in Closers : pc[a] # "closeMedia"
      BY <1>1
    <2>2. UNCHANGED <<answered, rejects, byes, refers, lastCSeq, lastStatus>>
      <3> USE DEF byeVars, okVars, endVars
      <3>1. CASE UNCHANGED sipVars
        BY <3>1 DEF sipVars
      <3>2. CASE \/ StartRinging \/ CancelArrives \/ RingerCancelled
                 \/ RingerStopped \/ Drop
        BY <3>2 DEF StartRinging, CancelArrives, RingerCancelled,
           RingerStopped, Drop
      <3>3. CASE \/ RespondAndDrop \/ SendStatus \/ CloseDropped
        BY <2>1, <3>3 DEF RespondAndDrop, SendStatus, CloseDropped, respond
      <3>4. CASE \/ \E wait \in BOOLEAN : AcceptBegins(wait)
                 \/ AcceptWriteFails \/ AcceptWriteAndWait
                 \/ AcceptWriteAndReturn \/ AcceptAcked \/ AcceptRetry
                 \/ AcceptGivesUp
        BY <2>1, <3>4 DEF AcceptBegins, AcceptWriteFails, AcceptWriteAndWait,
           AcceptWriteAndReturn, AcceptAcked, AcceptRetry, AcceptGivesUp,
           okWritten
      <3>5. CASE TxAckArrives \/ AcceptAck \/ AckReport \/ AcceptBye
        BY <3>5 DEF TxAckArrives, AcceptAck, AckReport, AcceptBye
      <3>6. CASE newReferReq \/ SendBye \/ SendByeAgain \/ SendByeReturns
        BY <2>1, <3>6 DEF newReferReq, SendBye, SendByeAgain, SendByeReturns
      <3>7. QED
        BY <3>1, <3>2, <3>3, <3>4, <3>5, <3>6, StepIsSipStep DEF SipNext
    <2>3. UNCHANGED <<endStatus, callEnded>>
      <3>1. CASE AsideStep
        BY <3>1 DEF AsideStep
      <3>2. CASE WalkAlone \/ WalkLeg
        BY <3>2, Walk DEF WalkStep
      <3>3. CASE Stop
        BY <3>3 DEF Stop, reportVars
      <3>4. ASSUME NEW a \in Closers, closeStep(a)
            PROVE  UNCHANGED <<endStatus, callEnded>>
        BY <2>1, <3>4 DEF closeStep, closeCAS, closeSip, closeMedia,
           deregister, finish, Goto, callRest, reportVars
      <3>5. QED
        BY <3>1, <3>2, <3>3, <3>4, Steps
    <2>4. QED
      BY <2>2, <2>3
  <1>3. Init => LockInv
    BY SMTT(90) DEF Init, SipInit, LockInv, Closers
  <1>4. Spec => []SipInv
    BY CallUsesSipInbound, SipInvariance, PTL
  <1>5. QED
    BY <1>2, <1>3, <1>4, CloseInvariance, LockStep, PTL
       DEF Spec, NothingAfterEnd
=============================================================================
