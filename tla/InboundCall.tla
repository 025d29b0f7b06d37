---------------------------- MODULE InboundCall -----------------------------
(***************************************************************************)
(* One inbound call from its registration to the end of its handler: the   *)
(* inboundCall object of pkg/sip/inbound.go around its sipInbound          *)
(* (SipInbound).  The INVITE handler goroutine walks through handleInvite; *)
(* request handlers (BYE, ACK), the ringing goroutine, room and media      *)
(* callbacks, RPCs and the service's Stop act on the call at any moment.   *)
(*                                                                         *)
(* close is run by the handler and by Stop (Shutdown); the done flag lets  *)
(* one of them through.  Both are "closers" with a program counter.        *)
(***************************************************************************)
EXTENDS SipInbound

CONSTANTS
  Byes,     \* BYE requests the caller may send
  Events    \* the other outside events an instance lets happen

AllEvents == {"cancel", "txAck", "stop", "endCall", "maxDuration",
              "mediaTimeout", "roomDisconnect"}

ASSUME EventsAssumption == Events \subseteq AllEvents

VARIABLES
  pc,             \* program counters of the two goroutines that may close
  inboundWaitACK, \* conf.Experimental.InboundWaitACK
  pinPrompt,      \* the dispatch rule asks for a pin
  late,           \* expectingLateAnswer: the INVITE had no offer
  closedBy,       \* the closer that won c.done, or "none"
  ctxDone,        \* handleInvite's ctx is done: cancelled or out of time
  registered,     \* cm.byLocalTag holds the call
  transferReg,    \* the transfer RPC topic of the call is registered
  media,          \* the media port: "none", "open", "closed"
  mediaTimer,     \* media timeout: "off", "armed", "fired"
  ackTimer,       \* ackTimeout of handleInvite: "off" or "running"
  room,           \* the LiveKit participant: "none", "joined", "left"
  roomClosed,     \* its closed fuse: CloseWithReason has run
  roomStopped,    \* its stopped fuse, c.lkRoom.Closed()
  endCall,        \* the endCall channel (capacity 1) holds a request
  bye,            \* per BYE request: how far its handler is
  byeReceived,    \* c.byeReceived
  byeEvents,      \* EventByeReceived emitted (history)
  callEnded,      \* EventCallEnded emitted (history)
  endStatus,      \* its StatusCode
  callStatus      \* state.CallStatus: "incoming", "active", "ended"

confVars   == <<inboundWaitACK, pinPrompt, late>>
regVars    == <<registered, transferReg>>
mediaVars  == <<media, mediaTimer, ackTimer>>
roomVars   == <<room, roomClosed, roomStopped>>
rpcVars    == <<endCall, bye, byeReceived, byeEvents>>
reportVars == <<callEnded, endStatus, callStatus>>
callRest   == <<confVars, closedBy, ctxDone, regVars, mediaVars, roomVars,
                rpcVars, reportVars>>     \* all but the program counters
callVars   == <<pc, callRest>>
vars == <<sipVars, callVars>>

Closers == {"handler", "stop"}

closerPcs == {"close", "closeSip", "closeBye", "closeMedia", "deregister",
              "return", "finished"}
\* Where the closer that won c.done is.
owning == {"closeSip", "closeBye", "closeMedia", "deregister"}
handlerPcs == {"start", "dispatch", "createMedia", "negotiate", "accept",
               "accepting", "lateAnswer", "armMedia", "waitMedia", "pin",
               "join", "register", "connect", "publish", "waitSubscribe",
               "activate", "active"}

Init ==
  /\ SipInit
  /\ pc = [a \in Closers |-> IF a = "handler" THEN "start" ELSE "idle"]
  /\ inboundWaitACK \in BOOLEAN /\ pinPrompt = FALSE /\ late = FALSE
  /\ closedBy = "none" /\ ctxDone = FALSE
  /\ registered = TRUE /\ transferReg = FALSE
  /\ media = "none" /\ mediaTimer = "off" /\ ackTimer = "off"
  /\ room = "none" /\ roomClosed = FALSE /\ roomStopped = FALSE
  /\ endCall = FALSE
  /\ bye = [b \in Byes |-> "idle"] /\ byeReceived = FALSE /\ byeEvents = 0
  /\ callEnded = 0 /\ endStatus = 0 /\ callStatus = "incoming"

Goto(a, from, to) ==
  /\ pc[a] = from
  /\ pc' = [pc EXCEPT ![a] = to]

\* A step of handleInvite; every return of it goes through the deferred close.
Handler(from, to) == Goto("handler", from, to)

-----------------------------------------------------------------------------
(* handleInvite, in program order.                                          *)

HandlerRings ==
  /\ StartRinging
  /\ Handler("start", IF inviteTx THEN "dispatch" ELSE "close")
  /\ UNCHANGED callRest

\* DispatchCall answers "accept" or "request pin".
DispatchAccept ==
  /\ Handler("dispatch", "createMedia")
  /\ pinPrompt' \in BOOLEAN
  /\ UNCHANGED <<sipVars, inboundWaitACK, late, closedBy, ctxDone, regVars,
                 mediaVars, roomVars, rpcVars, reportVars>>

\* No rule, service unavailable, bad media config or an unknown result.
DispatchReject ==
  /\ Handler("dispatch", "close")
  /\ RespondAndDrop
  /\ UNCHANGED callRest

DispatchNoRuleDrop ==
  /\ Handler("dispatch", "close")
  /\ Drop
  /\ UNCHANGED callRest

\* c.done is not looked at: a port opened after closeMedia stays open.
createMediaPort ==
  /\ Handler("createMedia", "negotiate")
  /\ media' = "open"
  /\ UNCHANGED <<sipVars, confVars, closedBy, ctxDone, regVars, mediaTimer,
                 ackTimer, roomVars, rpcVars, reportVars>>

\* Ports exhausted, no common codec, late offer disabled, bad SDP...
rejectMedia ==
  /\ \/ Handler("createMedia", "close")
     \/ Handler("negotiate", "close")
  /\ RespondAndDrop
  /\ UNCHANGED callRest

negotiateMediaOnly ==      \* mutant: with a pin, the call is not answered
  /\ Handler("negotiate", "join")
  /\ late' \in BOOLEAN
  /\ UNCHANGED <<sipVars, inboundWaitACK, pinPrompt, closedBy, ctxDone,
                 regVars, mediaVars, roomVars, rpcVars, reportVars>>

negotiateMedia ==
  /\ Handler("negotiate", IF pinPrompt THEN "accept" ELSE "join")
  /\ late' \in BOOLEAN
  /\ UNCHANGED <<sipVars, inboundWaitACK, pinPrompt, closedBy, ctxDone,
                 regVars, mediaVars, roomVars, rpcVars, reportVars>>

\* acceptCall: Accept of SipInbound, which returns with an error...
acceptCallFails ==
  /\ \/ Handler("accept", "close") /\ AcceptRefused
     \/ Handler("accepting", "close") /\ AcceptWriteFails
     \/ Handler("accepting", "close") /\ AcceptGivesUp /\ waitForAck
  /\ UNCHANGED callRest

\* ... writes the 200 OK and repeats it while it waits for the ACK...
acceptCallWorks ==
  /\ \/ Handler("accept", "accepting") /\ AcceptBegins(late \/ inboundWaitACK)
     \/ Handler("accepting", "accepting") /\ AcceptWriteAndWait
     \/ Handler("accepting", "accepting") /\ AcceptRetry
  /\ UNCHANGED callRest

\* ... or returns with success.  ackTimeout starts if it did not wait.
acceptCallReturns ==
  /\ Handler("accepting", IF late THEN "lateAnswer" ELSE "armMedia")
  /\ \/ AcceptWriteAndReturn
     \/ AcceptAcked
     \/ AcceptGivesUp /\ ~waitForAck
  /\ ackTimer' = IF waitForAck THEN "off" ELSE "running"
  /\ UNCHANGED <<confVars, closedBy, ctxDone, regVars, media, mediaTimer,
                 roomVars, rpcVars, reportVars>>

\* The answer is in the ACK's body; without an ACK request there is none.
negotiateMediaForLateAnswer ==
  /\ \/ Handler("lateAnswer", "armMedia") /\ acked
     \/ Handler("lateAnswer", "close")
  /\ UNCHANGED <<sipVars, callRest>>

\* waitForMedia: SetTimeout, then the select of waitMedia.
waitForMedia ==
  /\ Handler("armMedia", "waitMedia")
  /\ mediaTimer' = IF mediaTimer = "off" THEN "armed" ELSE mediaTimer
  /\ UNCHANGED <<sipVars, confVars, closedBy, ctxDone, regVars, media,
                 ackTimer, roomVars, rpcVars, reportVars>>

\* The first RTP packet arrived or audioBridgeMaxDelay passed.
waitMediaDone ==
  /\ Handler("waitMedia", IF pinPrompt THEN "pin" ELSE "activate")
  /\ UNCHANGED <<sipVars, callRest>>

\* The caller finished typing; the second dispatch accepts or rejects the pin.
pinEntered ==
  /\ Handler("pin", "join") \/ Handler("pin", "close")
  /\ UNCHANGED <<sipVars, callRest>>

\* createLiveKitParticipant looks at ctx, registers the transfer topic, then
\* connects.  Each call may fail and each leaves room for other goroutines.
joinRoom ==
  /\ \/ Handler("join", "register") /\ ~ctxDone
     \/ Handler("join", "close") /\ ctxDone
     \/ Handler("register", "close")
     \/ Handler("connect", "close")
  /\ UNCHANGED <<sipVars, callRest>>

RegisterTransferSIPParticipant ==
  /\ Handler("register", "connect")
  /\ transferReg' = TRUE
  /\ UNCHANGED <<sipVars, confVars, closedBy, ctxDone, registered, mediaVars,
                 roomVars, rpcVars, reportVars>>

\* r.room.Store does not look at r.closed.  Registering the RPC methods of
\* the participant may still fail after the room is joined.
Connect ==
  /\ Handler("connect", "publish") \/ Handler("connect", "close")
  /\ room' = "joined"
  /\ UNCHANGED <<sipVars, confVars, closedBy, ctxDone, regVars, mediaVars,
                 roomClosed, roomStopped, rpcVars, reportVars>>

publishTrack ==
  /\ Handler("publish", IF pinPrompt THEN "activate" ELSE "waitSubscribe")
  /\ UNCHANGED <<sipVars, callRest>>

\* Room.CloseWithReason: the closed fuse runs the body once.  The SDK may or
\* may not call OnDisconnected for a disconnect of our own.
roomClose ==
  /\ roomClosed' = TRUE
  /\ IF ~roomClosed /\ room = "joined"
     THEN room' = "left" /\ roomStopped' \in {roomStopped, TRUE}
     ELSE UNCHANGED <<room, roomStopped>>

publishFails ==
  /\ Handler("publish", "close")
  /\ roomClose
  /\ UNCHANGED <<sipVars, confVars, closedBy, ctxDone, regVars, mediaVars,
                 rpcVars, reportVars>>

\* Somebody subscribed to the caller's track: answer the call.
waitSubscribeDone ==
  /\ Handler("waitSubscribe", "accept")
  /\ UNCHANGED <<sipVars, callRest>>

waitSubscribeTimeout ==
  /\ Handler("waitSubscribe", "close")
  /\ UNCHANGED <<sipVars, callRest>>

\* state.Update with SCS_ACTIVE, then waitForCallEnd.
Activate ==
  /\ Handler("activate", "active")
  /\ callStatus' = "active"
  /\ UNCHANGED <<sipVars, confVars, closedBy, ctxDone, regVars, mediaVars,
                 roomVars, rpcVars, callEnded, endStatus>>

-----------------------------------------------------------------------------
(* The ready cases of the selects that end the call.                        *)

waitCancelled ==
  /\ \E p \in {"waitMedia", "pin", "waitSubscribe"} : Handler(p, "close")
  /\ Cancelled
  /\ UNCHANGED <<sipVars, callRest>>

waitCtxDone ==
  /\ \E p \in {"waitMedia", "pin", "waitSubscribe", "active"} :
       Handler(p, "close")
  /\ ctxDone
  /\ UNCHANGED <<sipVars, callRest>>

waitRoomClosed ==
  /\ \E p \in {"waitMedia", "waitSubscribe", "active"} : Handler(p, "close")
  /\ roomStopped
  /\ UNCHANGED <<sipVars, callRest>>

waitMediaTimeout ==
  /\ \E p \in {"waitMedia", "pin", "active"} : Handler(p, "close")
  /\ mediaTimer = "fired"
  /\ UNCHANGED <<sipVars, callRest>>

waitEndCall ==
  /\ \E p \in {"waitMedia", "waitSubscribe", "active"} : Handler(p, "close")
  /\ endCall
  /\ endCall' = FALSE
  /\ UNCHANGED <<sipVars, confVars, closedBy, ctxDone, regVars, mediaVars,
                 roomVars, bye, byeReceived, byeEvents, reportVars>>

\* waitForCallEnd: the ACK disables ackTimeout; a missing one only sets a
\* shorter media timeout.
ackReceived ==
  /\ pc["handler"] = "active"
  /\ acked /\ ~waitForAck /\ ackTimer = "running"
  /\ ackTimer' = "off"
  /\ UNCHANGED <<sipVars, pc, confVars, closedBy, ctxDone, regVars, media,
                 mediaTimer, roomVars, rpcVars, reportVars>>

ackTimeout ==
  /\ pc["handler"] = "active"
  /\ ackTimer = "running"
  /\ ackTimer' = "off"
  /\ mediaTimer' = IF mediaTimer = "off" THEN "armed" ELSE mediaTimer
  /\ UNCHANGED <<sipVars, pc, confVars, closedBy, ctxDone, regVars, media,
                 roomVars, rpcVars, reportVars>>

-----------------------------------------------------------------------------
(* close, run by the handler or by Stop.                                    *)

closeAgain(a) ==           \* mutant: c.done is set, not tested
  /\ Goto(a, "close", "closeSip")
  /\ closedBy' = a
  /\ UNCHANGED <<sipVars, confVars, ctxDone, regVars, mediaVars, roomVars,
                 rpcVars, reportVars>>

closeCAS(a) ==
  /\ Goto(a, "close", IF closedBy = "none" THEN "closeSip" ELSE "return")
  /\ closedBy' = IF closedBy = "none" THEN a ELSE closedBy
  /\ UNCHANGED <<sipVars, confVars, ctxDone, regVars, mediaVars, roomVars,
                 rpcVars, reportVars>>

closeSipNoBye(a) ==        \* mutant: an answered call is dropped silently
  /\ Goto(a, "closeSip", "closeMedia") /\ (Drop \/ SendStatus)
  /\ UNCHANGED callRest

\* CloseWithStatus: a BYE is waited for, a final status is not.
closeSip(a) ==
  /\ \/ Goto(a, "closeSip", "closeBye") /\ SendBye
     \/ Goto(a, "closeSip", "closeMedia") /\ (SendStatus \/ CloseDropped)
     \/ Goto(a, "closeBye", "closeBye") /\ SendByeAgain
     \/ Goto(a, "closeBye", "closeMedia") /\ SendByeReturns
  /\ UNCHANGED callRest

\* EventCallEnded, then the room and the media port.
closeMedia(a) ==
  /\ Goto(a, "closeMedia", "deregister")
  /\ callEnded' = callEnded + 1
  /\ endStatus' = lastStatus
  /\ roomClose
  /\ media' = IF media = "open" THEN "closed" ELSE media
  /\ UNCHANGED <<sipVars, confVars, closedBy, ctxDone, regVars, mediaTimer,
                 ackTimer, rpcVars, callStatus>>

deregisterKeepsTransfer(a) ==   \* mutant: the transfer topic stays
  /\ Goto(a, "deregister", "return")
  /\ registered' = FALSE
  /\ ctxDone' = TRUE
  /\ UNCHANGED <<sipVars, confVars, closedBy, transferReg, mediaVars, roomVars,
                 rpcVars, reportVars>>

deregister(a) ==
  /\ Goto(a, "deregister", "return")
  /\ registered' = FALSE
  /\ transferReg' = FALSE
  /\ ctxDone' = TRUE
  /\ UNCHANGED <<sipVars, confVars, closedBy, mediaVars, roomVars, rpcVars,
                 reportVars>>

\* The handler's goroutine ends in the deferred update of processInvite.
finish(a) ==
  /\ Goto(a, "return", "finished")
  /\ callStatus' = IF a = "handler" THEN "ended" ELSE callStatus
  /\ UNCHANGED <<sipVars, confVars, closedBy, ctxDone, regVars, mediaVars,
                 roomVars, rpcVars, callEnded, endStatus>>

-----------------------------------------------------------------------------
(* The other goroutines.                                                    *)

\* callManager.Stop takes the call out of the map and calls Shutdown.
Stop ==
  /\ "stop" \in Events
  /\ Goto("stop", "idle", "close")
  /\ registered
  /\ registered' = FALSE
  /\ UNCHANGED <<sipVars, confVars, closedBy, ctxDone, transferReg,
                 mediaVars, roomVars, rpcVars, reportVars>>

\* HandleBye looks the call up, answers, drops, reports, cancels.
HandleBye(b) ==
  /\ bye[b] = "idle"
  /\ registered
  /\ bye' = [bye EXCEPT ![b] = "accept"]
  /\ UNCHANGED <<sipVars, pc, confVars, closedBy, ctxDone, regVars,
                 mediaVars, roomVars, endCall, byeReceived, byeEvents,
                 reportVars>>

ByeAccepted(b) ==
  /\ bye[b] = "accept"
  /\ AcceptBye
  /\ bye' = [bye EXCEPT ![b] = "report"]
  /\ UNCHANGED <<pc, confVars, closedBy, ctxDone, regVars, mediaVars,
                 roomVars, endCall, byeReceived, byeEvents, reportVars>>

ByeNoClose(b) ==           \* mutant: the handler is not cancelled
  /\ bye[b] = "report"
  /\ bye' = [bye EXCEPT ![b] = "done"]
  /\ byeReceived' = TRUE
  /\ byeEvents' = IF byeReceived THEN byeEvents ELSE byeEvents + 1
  /\ UNCHANGED <<sipVars, pc, confVars, closedBy, ctxDone, regVars, mediaVars,
                 roomVars, endCall, reportVars>>

Bye(b) ==
  /\ bye[b] = "report"
  /\ bye' = [bye EXCEPT ![b] = "done"]
  /\ byeReceived' = TRUE
  /\ byeEvents' = IF byeReceived THEN byeEvents ELSE byeEvents + 1
  /\ ctxDone' = TRUE
  /\ UNCHANGED <<sipVars, pc, confVars, closedBy, regVars, mediaVars,
                 roomVars, endCall, reportVars>>

HandleAck ==
  /\ registered
  /\ AcceptAck
  /\ UNCHANGED callVars

\* Steps of the ringing goroutine, of AcceptAck and of the SIP stack.
sipStep ==
  /\ \/ "cancel" \in Events /\ CancelArrives
     \/ RingerCancelled \/ RingerStopped
     \/ "txAck" \in Events /\ TxAckArrives
     \/ AckReport
  /\ UNCHANGED callVars

\* The EndCall RPC of the participant; it waits while the channel is full.
EndCall ==
  /\ "endCall" \in Events
  /\ room = "joined"
  /\ ~endCall
  /\ endCall' = TRUE
  /\ UNCHANGED <<sipVars, pc, confVars, closedBy, ctxDone, regVars,
                 mediaVars, roomVars, bye, byeReceived, byeEvents,
                 reportVars>>

\* transferCall sends a REFER...
transferRefer ==
  /\ transferReg
  /\ newReferReq
  /\ UNCHANGED callVars

\* ... and hangs up some time after it succeeded.
transferHangup ==
  /\ refers > 0
  /\ ~ctxDone
  /\ ctxDone' = TRUE
  /\ UNCHANGED <<sipVars, pc, confVars, closedBy, regVars, mediaVars,
                 roomVars, rpcVars, reportVars>>

MaxCallDuration ==
  /\ "maxDuration" \in Events
  /\ pc["handler"] \in {"join", "register", "connect", "publish",
                        "waitSubscribe", "activate", "active"}
  /\ ~ctxDone
  /\ ctxDone' = TRUE
  /\ UNCHANGED <<sipVars, pc, confVars, closedBy, regVars, mediaVars,
                 roomVars, rpcVars, reportVars>>

MediaTimeoutFires ==
  /\ "mediaTimeout" \in Events
  /\ mediaTimer = "armed" /\ media = "open"
  /\ mediaTimer' = "fired"
  /\ UNCHANGED <<sipVars, pc, confVars, closedBy, ctxDone, regVars, media,
                 ackTimer, roomVars, rpcVars, reportVars>>

\* The LiveKit server disconnects the participant.
RoomDisconnected ==
  /\ "roomDisconnect" \in Events
  /\ room = "joined"
  /\ room' = "left"
  /\ roomStopped' = TRUE
  /\ UNCHANGED <<sipVars, pc, confVars, closedBy, ctxDone, regVars, mediaVars,
                 roomClosed, rpcVars, reportVars>>

-----------------------------------------------------------------------------
\* Steps the code takes by itself: no peer, user or server has to act first.
handlerStep ==
  \/ HandlerRings \/ DispatchAccept \/ DispatchReject \/ DispatchNoRuleDrop
  \/ createMediaPort \/ rejectMedia \/ negotiateMedia
  \/ acceptCallFails \/ acceptCallWorks \/ acceptCallReturns
  \/ negotiateMediaForLateAnswer \/ waitForMedia \/ waitMediaDone
  \/ joinRoom \/ RegisterTransferSIPParticipant \/ Connect
  \/ publishTrack \/ publishFails \/ waitSubscribeTimeout \/ Activate
  \/ waitCancelled \/ waitCtxDone \/ waitRoomClosed \/ waitMediaTimeout
  \/ waitEndCall \/ ackReceived \/ ackTimeout

closeStep(a) ==
  closeCAS(a) \/ closeSip(a) \/ closeMedia(a) \/ deregister(a) \/ finish(a)

byeStep(b) == ByeAccepted(b) \/ Bye(b)

Next ==
  \/ handlerStep
  \/ \E a \in Closers : closeStep(a)
  \/ pinEntered \/ waitSubscribeDone
  \/ Stop
  \/ \E b \in Byes : HandleBye(b) \/ byeStep(b)
  \/ HandleAck \/ sipStep
  \/ EndCall \/ transferRefer \/ transferHangup
  \/ MaxCallDuration \/ MediaTimeoutFires \/ RoomDisconnected

Spec == Init /\ [][Next]_vars

\* Every external call of the handler returns (dispatch and room RPCs have
\* timeouts, selects have timers), so each goroutine goes on when it can.
Fairness ==
  /\ WF_vars(handlerStep)
  /\ \A a \in Closers : WF_vars(closeStep(a))
  /\ \A b \in Byes : WF_vars(byeStep(b))

FairSpec == Spec /\ Fairness

-----------------------------------------------------------------------------
(* Properties.                                                              *)

CallTypeOK ==
  /\ pc \in [Closers -> handlerPcs \cup closerPcs \cup {"idle"}]
  /\ inboundWaitACK \in BOOLEAN /\ pinPrompt \in BOOLEAN /\ late \in BOOLEAN
  /\ closedBy \in Closers \cup {"none"}
  /\ ctxDone \in BOOLEAN
  /\ registered \in BOOLEAN /\ transferReg \in BOOLEAN
  /\ media \in {"none", "open", "closed"}
  /\ mediaTimer \in {"off", "armed", "fired"}
  /\ ackTimer \in {"off", "running"}
  /\ room \in {"none", "joined", "left"}
  /\ roomClosed \in BOOLEAN /\ roomStopped \in BOOLEAN
  /\ endCall \in BOOLEAN
  /\ bye \in [Byes -> {"idle", "accept", "report", "done"}]
  /\ byeReceived \in BOOLEAN /\ byeEvents \in 0..1
  /\ callEnded \in 0..1 /\ endStatus \in {0, 200, Reject}
  /\ callStatus \in {"incoming", "active", "ended"}

AllFinished ==
  /\ pc["handler"] = "finished"
  /\ pc["stop"] \in {"idle", "finished"}

\* However the call ends, the caller is not left in a dialog nobody will end:
\* an answered call got our BYE or sent its own.  The exception is the 200 OK
\* whose repetition failed (see OneFinalAnswer).
NoOrphanDialog ==
  AllFinished /\ answered => byes = 1 \/ byeAccepted \/ okFailed

\* close may be entered by the handler (several times) and by Shutdown, yet
\* EventCallEnded is emitted exactly once; and a caller that sends several BYEs
\* is reported to have hung up once.
EndedOnce ==
  /\ callEnded <= 1 /\ byeEvents <= 1
  /\ AllFinished => callEnded = 1

\* byeReceived (a CompareAndSwap) counts the reports of a BYE.
ByeInv ==
  byeEvents = IF byeReceived THEN 1 ELSE 0

\* EventCallEnded carries 200 for every answered call and only for those,
\* whatever races with close.
EndStatusIsAnswer ==
  callEnded > 0 => (endStatus = 200 <=> answered)

\* The inductive form of these and of ReplayIsRejection: the closer that won
\* c.done owns the end of the call.  Until it has been through CloseWithStatus
\* nothing is reported; from then on the leg is gone, so no late answer can
\* change the status, and an answered leg only goes away by a BYE of either
\* side.
CloseInv ==
  /\ pc \in [Closers -> handlerPcs \cup closerPcs \cup {"idle"}]
  /\ closedBy \in Closers \cup {"none"}
  /\ pc["stop"] \in {"idle"} \cup closerPcs
  /\ closedBy = "none" => callEnded = 0
  /\ \A a \in Closers :
       /\ pc[a] \in owning => closedBy = a
       /\ pc[a] \in {"return", "finished"} => closedBy # "none"
       /\ closedBy = a =>
            /\ pc[a] \in owning \cup {"return", "finished"}
            /\ callEnded =
                 IF pc[a] \in {"closeSip", "closeBye", "closeMedia"} THEN 0 ELSE 1
            /\ pc[a] # "closeSip" => ~invite
  /\ callEnded > 0 => (endStatus = 200 <=> answered)
  /\ pc["handler"] \in {"start", "dispatch", "createMedia", "negotiate"}
       => ~acceptCalled
  /\ answered /\ ~invite => byes > 0 \/ byeAccepted \/ okFailed
  /\ rejectCached => ~invite /\ ~answered

\* A call closed by its own handler gives back all it took: the media port,
\* the LiveKit participant, the transfer topic, its place in byLocalTag, and
\* the ringing goroutine.
HandlerReleases ==
  AllFinished /\ closedBy = "handler" =>
    /\ media # "open" /\ room # "joined"
    /\ ~transferReg /\ ~registered /\ ~ringing

\* SCS_ACTIVE is reported only for a call that was answered, has a media
\* timeout running and a participant in the room.
ActiveOnlyIfAnswered ==
  callStatus = "active" => answered /\ mediaTimer # "off" /\ room # "none"

\* A retry of the INVITE is answered from rejectedInvites.  What is replayed
\* is never the rejection of a call that was answered.
ReplayIsRejection ==
  rejectCached => ~answered

\* EventCallEnded is the last word: once it is emitted the leg sends no answer,
\* no rejection, no BYE, no REFER, and the status that was reported stays the
\* status of the leg, although Shutdown may have closed the call while its
\* handler is still walking and a transfer or an ACK may still come.
NothingAfterEnd ==
  [][callEnded > 0 =>
       UNCHANGED <<answered, rejects, byes, refers, lastCSeq, lastStatus,
                   endStatus, callEnded>>]_vars

\* Whoever asks for the end of the call gets it, wherever the handler is and
\* although Accept and sendBye keep the lock while they wait: a BYE of the
\* caller, the service's Stop, and an EndCall request that was taken into the
\* channel.  Both goroutines come to their end and the end is reported.
EndRequestsHonoured ==
  (endCall \/ pc["stop"] = "close" \/ \E b \in Byes : bye[b] = "accept")
    ~> AllFinished /\ callEnded = 1
=============================================================================
