---------------------------- MODULE OutboundCall ----------------------------
(***************************************************************************)
(* An outbound call: outboundCall of pkg/sip/outbound.go, created by       *)
(* createSIPParticipant of pkg/sip/client.go.  Its goroutines are          *)
(*   call      newCall, Dial and waitClose                                 *)
(*   rpc       the deferred update of createSIPParticipant                 *)
(*   endCall   the room RPC lk.sip.EndCall                                 *)
(*   stop      callManager.Stop                                            *)
(*   transfer  transferCall and its timer                                  *)
(*   Byes      BYE requests of the callee                                  *)
(* close runs with c.mu held (mu), once because of the fuse stopped; the   *)
(* dialling goroutine holds c.mu from connectSIP until the call is up.     *)
(* The SIP side is the module SipOutbound.                                 *)
(***************************************************************************)
EXTENDS SipOutbound

CONSTANTS
  Byes,     \* BYE requests that may arrive
  Events    \* which of "endCall", "stop", "transfer" may happen

Closers == {"endCall", "stop", "transfer"} \cup Byes
Actors == {"call"} \cup Closers

ASSUME OutboundCallAssumption ==
  /\ Byes \cap {"free", "call", "endCall", "stop", "transfer"} = {}
  /\ Events \subseteq {"endCall", "stop", "transfer"}

VARIABLES
  pc,          \* where each goroutine is
  rpc,         \* the RPC: "open" until its deferred update has run
  sync,        \* req.WaitUntilAnswered
  mu,          \* c.mu: "free" or its holder
  created,     \* newCall returned the call
  dialRes,     \* the result of Dial: "none", "ok", "err"
  ctxDone,     \* the context of sipSignal has ended
  stopped,     \* the fuse c.stopped
  stoppedAt,   \* where the call goroutine was when close began (history)
  started,     \* the fuse c.started
  gauge,       \* CallMonitor.started: the call is counted as active
  media,       \* the media port is open
  room,        \* the participant is in the room
  topic,       \* the transfer topic is registered
  registered,  \* the call is in cm.activeCalls
  ended,       \* info.EndedAtNs # 0
  status,      \* info.CallStatus: "none", "joined", "active", "over"
  callEnded,   \* EventCallEnded (history)
  endStatus,   \* the status it carried (history)
  byeReceived, \* c.byeReceived
  byeEvents    \* EventByeReceived (history)

resVars  == <<gauge, media, room, topic, registered>>
infoVars == <<ended, status, callEnded, endStatus>>
dialVars == <<sync, created, dialRes, ctxDone, started>>
byeRVars == <<byeReceived, byeEvents>>
callVars == <<pc, rpc, mu, stopped, stoppedAt, resVars, infoVars, dialVars,
              byeRVars>>
vars     == <<sipVars, callVars>>

Init ==
  /\ SipInit
  /\ pc = [a \in Actors |-> IF a = "call" THEN "media" ELSE "idle"]
  /\ rpc = "open" /\ sync \in BOOLEAN
  /\ mu = "free" /\ created = FALSE /\ dialRes = "none" /\ ctxDone = FALSE
  /\ stopped = FALSE /\ stoppedAt = "none" /\ started = FALSE
  /\ gauge = FALSE /\ media = FALSE /\ room = FALSE
  /\ topic = FALSE /\ registered = FALSE
  /\ ended = FALSE /\ status = "none" /\ callEnded = 0 /\ endStatus = 0
  /\ byeReceived = FALSE /\ byeEvents = 0

Goto(a, from, to) ==
  /\ pc[a] = from
  /\ pc' = [pc EXCEPT ![a] = to]

-----------------------------------------------------------------------------
(* close, run by actor a.                                                   *)

\* Where a goroutine is when close has returned to it.  Dial and waitClose
\* run ensureClosed; newCall returns its error.
After(a) ==
  IF a = "call" /\ created THEN "ensure" ELSE "done"

closeUnlocks(a) ==
  mu' = IF mu = a THEN "free" ELSE mu

CloseWith(a) ==
  /\ Goto(a, "lock", "close")
  /\ mu = "free"
  /\ mu' = a
  /\ UNCHANGED <<sipVars, rpc, stopped, stoppedAt, resVars, infoVars,
                 dialVars, byeRVars>>

\* The fuse is broken already: close does nothing.
closeAgain(a) ==
  /\ Goto(a, "close", After(a))
  /\ stopped
  /\ closeUnlocks(a)
  /\ dialRes' = IF a = "call" /\ dialRes = "none" THEN "err" ELSE dialRes
  /\ UNCHANGED <<sipVars, rpc, stopped, stoppedAt, resVars, infoVars, sync,
                 created, ctxDone, started, byeRVars>>

closeBeginsAgain(a) ==     \* mutant: the fuse is not looked at
  /\ Goto(a, "close", "sip")
  /\ lock = "free"
  /\ stopped' = TRUE
  /\ stoppedAt' = pc["call"]
  /\ ended' = TRUE /\ status' = "over"
  /\ gauge' = FALSE
  /\ callEnded' = callEnded + 1 /\ endStatus' = finalStatus
  /\ UNCHANGED <<sipVars, rpc, mu, media, room, topic, registered, dialVars,
                 byeRVars>>

\* The state is updated and EventCallEnded emitted before the BYE.
\* finalStatusCode takes the read lock of the SIP side.
closeBegins(a) ==
  /\ Goto(a, "close", "sip")
  /\ ~stopped /\ lock = "free"
  /\ stopped' = TRUE
  /\ stoppedAt' = pc["call"]
  /\ ended' = TRUE /\ status' = "over"
  /\ gauge' = FALSE
  /\ callEnded' = callEnded + 1 /\ endStatus' = finalStatus
  /\ UNCHANGED <<sipVars, rpc, mu, media, room, topic, registered, dialVars,
                 byeRVars>>

\* Close of the SIP side: the BYE, or nothing to hang up.
sipClose(a, from, wait, to) ==
  \/ Goto(a, from, wait) /\ SendBye
  \/ Goto(a, from, to) /\ SendByeNoWait
  \/ Goto(a, from, to) /\ CloseDropped

closeSipNoBye(a) ==        \* mutant: the BYE is left to the peer
  /\ Goto(a, "sip", "release")
  /\ UNCHANGED <<sipVars, rpc, mu, stopped, stoppedAt, resVars, infoVars,
                 dialVars, byeRVars>>

closeSip(a) ==
  /\ sipClose(a, "sip", "bye", "release")
  /\ UNCHANGED <<rpc, mu, stopped, stoppedAt, resVars, infoVars, dialVars,
                 byeRVars>>

closeSipReturns(a) ==
  /\ Goto(a, "bye", "release")
  /\ SendByeReturns
  /\ UNCHANGED <<rpc, mu, stopped, stoppedAt, resVars, infoVars, dialVars,
                 byeRVars>>

closeReleases(a) ==
  /\ Goto(a, "release", After(a))
  /\ media' = FALSE /\ room' = FALSE
  /\ registered' = FALSE /\ topic' = FALSE
  /\ closeUnlocks(a)
  /\ dialRes' = IF a = "call" /\ dialRes = "none" THEN "err" ELSE dialRes
  /\ UNCHANGED <<sipVars, rpc, stopped, stoppedAt, gauge, infoVars, sync,
                 created, ctxDone, started, byeRVars>>

closeStep(a) ==
  \/ CloseWith(a) \/ closeAgain(a) \/ closeBegins(a)
  \/ closeSip(a) \/ closeSipReturns(a) \/ closeReleases(a)

-----------------------------------------------------------------------------
(* newCall.  A failure closes the call without c.mu: nobody else knows it.  *)

newCallMedia(ok) ==
  /\ Goto("call", "media", IF ok THEN "connect" ELSE "close")
  /\ media' = ok
  /\ UNCHANGED <<sipVars, rpc, mu, stopped, stoppedAt, gauge, room, topic,
                 registered, infoVars, dialVars, byeRVars>>

\* The topic is registered first and stays if the room cannot be joined.
\* If a room RPC cannot be registered the room is kept for close.
connectToRoom(joined, ok) ==
  /\ ok => joined
  /\ Goto("call", "connect", IF ok THEN "rpcOpen" ELSE "close")
  /\ topic' = TRUE
  /\ room' = joined
  /\ UNCHANGED <<sipVars, rpc, mu, stopped, stoppedAt, gauge, media,
                 registered, infoVars, dialVars, byeRVars>>

newCallRegisters ==
  /\ Goto("call", "rpcOpen", "dial")
  /\ registered' = TRUE
  /\ created' = TRUE
  /\ UNCHANGED <<sipVars, rpc, mu, stopped, stoppedAt, gauge, media, room,
                 topic, infoVars, sync, dialRes, ctxDone, started, byeRVars>>

\* The deferred update of createSIPParticipant, when the RPC returns.
rpcReturns ==
  /\ rpc = "open"
  /\ rpc' = "done"
  /\ \/ /\ created
        /\ sync => dialRes = "ok" /\ pc["call"] # "report"
        /\ status' = "joined"
     \/ /\ pc["call"] = "done"
        /\ ~created \/ (sync /\ dialRes = "err")
        /\ status' = "over"
  /\ UNCHANGED <<sipVars, pc, mu, stopped, stoppedAt, resVars, ended,
                 callEnded, endStatus, dialVars, byeRVars>>

-----------------------------------------------------------------------------
(* Dial.                                                                    *)

DialCounts ==          \* mutant: counted although close already ran
  /\ Goto("call", "dial", "connectSIP")
  /\ mu = "free"
  /\ gauge' = TRUE
  /\ UNCHANGED <<sipVars, rpc, mu, stopped, stoppedAt, media, room, topic,
                 registered, infoVars, dialVars, byeRVars>>

Dial ==
  /\ Goto("call", "dial", "connectSIP")
  /\ mu = "free"
  /\ gauge' = ~stopped
  /\ UNCHANGED <<sipVars, rpc, mu, stopped, stoppedAt, media, room, topic,
                 registered, infoVars, dialVars, byeRVars>>

connectSIPUnlocked ==      \* mutant: c.mu is not held while dialling
  /\ Goto("call", "connectSIP", "offer")
  /\ mu = "free"
  /\ UNCHANGED <<sipVars, rpc, mu, stopped, stoppedAt, resVars, infoVars,
                 dialVars, byeRVars>>

connectSIP ==
  /\ Goto("call", "connectSIP", "offer")
  /\ mu = "free"
  /\ mu' = "call"
  /\ UNCHANGED <<sipVars, rpc, stopped, stoppedAt, resVars, infoVars,
                 dialVars, byeRVars>>

\* The ringing timeout, the deadline of the call, the end of the RPC, the
\* loss of the room, or the goroutine that watches c.stopped.
ctxEnds ==
  /\ pc["call"] \in {"offer", "invite", "answer", "ack", "check"}
  /\ ~ctxDone
  /\ ctxDone' = TRUE
  /\ UNCHANGED <<sipVars, pc, rpc, mu, stopped, stoppedAt, resVars, infoVars,
                 sync, created, dialRes, started, byeRVars>>

\* A step that changes nothing but the SIP side and where a goroutine is.
dialStays == UNCHANGED <<rpc, mu, stopped, stoppedAt, resVars, infoVars,
                         dialVars, byeRVars>>

GenerateOffer ==
  \/ Goto("call", "offer", "invite") /\ InviteBegins /\ dialStays
  \/ Goto("call", "offer", "close") /\ UNCHANGED sipVars /\ dialStays

inviteCancelled ==
  /\ InviteCancelled
  /\ ctxDone \/ smClosing

Invite ==
  /\ pc["call"] = "invite"
  /\ \/ attemptInvite \/ attemptInviteFails
     \/ inviteCancelled \/ InviteTimesOut \/ InviteChallenged
     \/ \E st \in {Failure, Unexpected2xx} : InviteFails(st)
     \/ \E ok \in BOOLEAN : InviteAnswered(ok)
  /\ UNCHANGED pc
  /\ dialStays

inviteOk ==
  /\ Goto("call", "invite", "answer")
  /\ inviting = "ok"
  /\ UNCHANGED sipVars
  /\ dialStays

\* Invite failed: sipSignal closes the SIP side, connectSIP then the call.
inviteErr ==
  /\ inviting = "err"
  /\ sipClose("call", "invite", "inviteBye", "close")
  /\ dialStays

inviteErrReturns ==
  /\ Goto("call", "inviteBye", "close")
  /\ SendByeReturns
  /\ dialStays

\* configure refuses to work on a closed media port.
ProcessAnswer(ok) ==
  /\ ok => media
  /\ Goto("call", "answer", IF ok THEN "ack" ELSE "close")
  /\ UNCHANGED sipVars
  /\ dialStays

ack ==
  /\ lock = "free"
  /\ \/ Goto("call", "ack", "check") /\ AckInviteOK
     \/ Goto("call", "ack", "close") /\ UNCHANGED sipVars
  /\ dialStays

\* ctx.Err(), the negotiated audio and the initial DTMF.
check(ok) ==
  /\ ok => ~ctxDone
  /\ Goto("call", "check", IF ok THEN "up" ELSE "close")
  /\ UNCHANGED sipVars
  /\ dialStays

connectMediaKeepsLock ==   \* mutant: connectSIP does not unlock
  /\ Goto("call", "up", "report")
  /\ started' = TRUE
  /\ dialRes' = "ok"
  /\ UNCHANGED <<sipVars, rpc, mu, stopped, stoppedAt, resVars, infoVars, sync,
                 created, ctxDone, byeRVars>>

connectMedia ==
  /\ Goto("call", "up", "report")
  /\ started' = TRUE
  /\ dialRes' = "ok"
  /\ mu' = "free"
  /\ UNCHANGED <<sipVars, rpc, stopped, stoppedAt, resVars, infoVars, sync,
                 created, ctxDone, byeRVars>>

\* No start is reported for a call that has ended.
reportActive ==
  /\ Goto("call", "report", "wait")
  /\ status' = IF ended THEN status ELSE "active"
  /\ UNCHANGED <<sipVars, rpc, mu, stopped, stoppedAt, resVars, ended,
                 callEnded, endStatus, dialVars, byeRVars>>

-----------------------------------------------------------------------------
(* waitClose.                                                               *)

\* The room is lost, the media times out, or the deadline passes.
waitCloseEvent ==
  /\ Goto("call", "wait", "lock")
  /\ UNCHANGED sipVars
  /\ dialStays

waitCloseClosed ==
  /\ Goto("call", "wait", "ensure")
  /\ stopped
  /\ UNCHANGED sipVars
  /\ dialStays

ensureClosed ==
  /\ Goto("call", "ensure", "done")
  /\ ended' = TRUE /\ status' = "over"
  /\ UNCHANGED <<sipVars, rpc, mu, stopped, stoppedAt, resVars, callEnded,
                 endStatus, dialVars, byeRVars>>

dialStep ==
  \/ \E ok \in BOOLEAN : newCallMedia(ok)
  \/ \E joined, ok \in BOOLEAN : connectToRoom(joined, ok)
  \/ newCallRegisters \/ Dial \/ connectSIP
  \/ GenerateOffer \/ Invite \/ inviteOk \/ inviteErr \/ inviteErrReturns
  \/ \E ok \in BOOLEAN : ProcessAnswer(ok)
  \/ ack
  \/ \E ok \in BOOLEAN : check(ok)
  \/ connectMedia \/ reportActive
  \/ waitCloseClosed \/ ensureClosed

-----------------------------------------------------------------------------
(* The other goroutines.                                                    *)

\* The room RPC is registered by connectToRoom and lives as long as the room.
EndCall ==
  /\ "endCall" \in Events
  /\ room /\ (pc["call"] = "rpcOpen" \/ created)
  /\ Goto("endCall", "idle", "lock")
  /\ UNCHANGED sipVars
  /\ dialStays

Stop ==
  /\ "stop" \in Events
  /\ Goto("stop", "idle", "swap")
  /\ StopBreaks
  /\ dialStays

\* Stop takes every registered call out of the map and closes it.
StopSwaps ==
  /\ Goto("stop", "swap", IF registered THEN "lock" ELSE "done")
  /\ registered' = FALSE
  /\ UNCHANGED <<sipVars, rpc, mu, stopped, stoppedAt, gauge, media, room,
                 topic, infoVars, dialVars, byeRVars>>

\* onOutboundBye; the callee knows our tag once an INVITE was sent.
onOutboundBye(b) ==
  /\ try > 0 /\ registered
  /\ Goto(b, "idle", "accept")
  /\ byeReceived' = TRUE
  /\ byeEvents' = IF byeReceived THEN byeEvents ELSE byeEvents + 1
  /\ UNCHANGED <<sipVars, rpc, mu, stopped, stoppedAt, resVars, infoVars,
                 dialVars>>

byeAccepts(b) ==
  /\ Goto(b, "accept", "lock")
  /\ AcceptBye
  /\ dialStays

\* transferCall finds the call in cm.activeCalls and sends the REFER.
transferCall ==
  /\ "transfer" \in Events
  /\ registered
  /\ Goto("transfer", "idle", "refer")
  /\ newReferReq
  /\ dialStays

\* The transfer fails, or succeeds and the timer hangs up later.
transferReturns ==
  /\ \/ Goto("transfer", "refer", "done")
     \/ Goto("transfer", "refer", "lock")
  /\ UNCHANGED sipVars
  /\ dialStays

byeStep(b) == onOutboundBye(b) \/ byeAccepts(b)

watchStep ==
  /\ WatchAnswered \/ WatchEnds
  /\ UNCHANGED callVars

Next ==
  \/ dialStep
  \/ waitCloseEvent
  \/ ctxEnds
  \/ rpcReturns
  \/ \E a \in Actors : closeStep(a)
  \/ EndCall \/ Stop \/ StopSwaps
  \/ \E b \in Byes : byeStep(b)
  \/ transferCall \/ transferReturns
  \/ watchStep

Spec == Init /\ [][Next]_vars

\* Goroutines that can run do run.  The ringing timeout passes and transactions
\* end.  Nothing is assumed of the callee, the room, the RPC, a transfer,
\* EndCall, BYE or Stop.  Each goroutine takes a lock a bounded number
\* of times, so weak fairness is enough.
FairSpec ==
  /\ Spec
  /\ WF_vars(dialStep) /\ WF_vars(ctxEnds) /\ WF_vars(StopSwaps)
  /\ \A a \in Actors : WF_vars(closeStep(a))
  /\ \A b \in Byes : WF_vars(byeAccepts(b))

-----------------------------------------------------------------------------
(* Properties.                                                              *)

Places == {"media", "connect", "rpcOpen", "dial", "connectSIP", "offer",
           "invite", "inviteBye", "answer", "ack", "check", "up", "report",
           "wait", "ensure", "idle", "swap", "accept", "refer", "lock",
           "close", "sip", "bye", "release", "done"}

\* The variables have their types; the end of the call is reported at most
\* once, and so is the BYE of a callee that sends several.
CallTypeOK ==
  /\ pc \in [Actors -> Places]
  /\ rpc \in {"open", "done"} /\ mu \in {"free"} \cup Actors
  /\ dialRes \in {"none", "ok", "err"}
  /\ stoppedAt \in {"none"} \cup Places
  /\ status \in {"none", "joined", "active", "over"}
  /\ callEnded \in 0..1
  /\ endStatus \in {0, 200, Unexpected2xx, Failure}
  /\ byeEvents \in 0..1
  /\ \A v \in {sync, created, ctxDone, stopped, started, gauge, media, room,
               topic, registered, ended, byeReceived} : v \in BOOLEAN

Closing(a) == pc[a] \in {"close", "sip", "bye", "release"}
Creating == {"media", "connect", "rpcOpen"}
Dialling == {"offer", "invite", "inviteBye", "answer", "ack", "check", "up"}

\* No goroutine has anything left to do.
Quiet ==
  /\ pc["call"] = "done" /\ rpc = "done" /\ watcher # "watching"
  /\ \A a \in Closers : pc[a] \in {"idle", "done"}

\* close ran before the call was dialled.
ClosedBeforeDial == stoppedAt \in {"rpcOpen", "dial", "connectSIP"}

\* A call that was created or failed to be created ends with exactly one
\* EventCallEnded, whoever closes it, and its info has an end; and a callee
\* that sends several BYEs is reported to have hung up once.
EndedOnce ==
  /\ byeEvents <= 1
  /\ pc["call"] = "done" => callEnded = 1 /\ stopped /\ ended

\* byeReceived (a CompareAndSwap) counts the reports of a BYE.
ByeInv ==
  byeEvents = IF byeReceived THEN 1 ELSE 0

\* EventCallEnded carries the final status of the INVITE, 200 for an
\* answered call, although it is emitted before the BYE and while BYE,
\* EndCall and Stop race with the dialling goroutine.
EndStatusIsFinal ==
  callEnded = 1 /\ ~ClosedBeforeDial => endStatus = finalStatus

\* A callee that answered is hung up or has hung up when the call is over,
\* also if the answer raced an abort.
NoZombie ==
  Quiet /\ answered /\ ~ClosedBeforeDial => byes > 0 \/ byeAccepted

\* What the call took is given back, and the gauge of active calls is not
\* left up by a close that ran before Dial counted the call.
Released ==
  Quiet => /\ ~gauge /\ ~media /\ ~room /\ ~topic
           /\ registered => stoppedAt = "rpcOpen"

\* c.mu is held by whoever is inside close or is dialling.
LockHeld ==
  /\ \A a \in Actors : Closing(a) /\ (a = "call" => created) => mu = a
  /\ pc["call"] \in Dialling => mu = "call"
  /\ \A a \in Actors : pc[a] \in {"sip", "bye", "release"} => stopped

\* While newCall runs nobody closes the call, except EndCall when the room
\* RPC is open and the call is not registered yet.
CreatedInv ==
  /\ pc["call"] \in Creating => ~created
  /\ pc["call"] \in Dialling \cup
       {"dial", "connectSIP", "report", "wait", "ensure", "lock"} => created
  /\ registered => created
  /\ ~created /\ pc["call"] # "rpcOpen" =>
       \A a \in Closers : pc[a] \in {"idle", "swap", "done"}

\* What close has done, wherever the call goroutine was when it began.
StoppedInv ==
  /\ pc["call"] \in {"media", "connect"} => ~stopped
  /\ pc["call"] \in {"ensure", "done"} => stopped
  /\ stopped => ended /\ ~gauge
  /\ callEnded = IF stopped THEN 1 ELSE 0
  /\ stopped /\ pc["call"] = "rpcOpen" => stoppedAt = "rpcOpen"
  /\ stopped /\ pc["call"] \in Dialling \cup {"dial", "connectSIP"} =>
       ClosedBeforeDial
  /\ stopped /\ ~ClosedBeforeDial /\ (\A a \in Actors : pc[a] # "sip") =>
       ~dialog \/ byes > 0
  /\ stopped /\ (\A a \in Actors : pc[a] \notin {"sip", "bye", "release"}) =>
       /\ ~media /\ ~room /\ ~topic
       /\ registered => stoppedAt = "rpcOpen"

\* The inductive invariant: the closer that breaks the fuse stopped holds the
\* lock, and the dialling goroutine finds a closed call only if the call was
\* closed before it was dialled.
CallInv ==
  /\ pc \in [Actors -> Places]
  /\ LockHeld /\ CreatedInv /\ StoppedInv /\ EndStatusIsFinal

\* EventCallEnded is the last word: after it no INVITE is sent, none is
\* answered, cancelled or fails, no ACK follows, and the status that was reported
\* stays true; unless the call was closed before it was dialled.
NothingAfterEnd ==
  [][callEnded > 0 /\ ~ClosedBeforeDial =>
       UNCHANGED <<answered, finalStatus, try, acks, failed, cancels, endStatus,
                   callEnded>>]_vars

\* Nobody has asked for the end of the call: no room RPC EndCall, no BYE, and
\* no Stop, which would have taken it out of cm.activeCalls.
NotAsked ==
  /\ pc["endCall"] = "idle" /\ registered
  /\ \A b \in Byes : pc[b] = "idle"

\* Dialling comes to an end, however long the callee could let it ring, and
\* whoever asks for the end of the call gets it, although EndCall and BYE wait
\* for the locks that dialling holds and Stop has to cancel the INVITE: at the
\* end of every path the call is over, or it is up and nobody has asked.
CallEnds ==
  []<>(\/ pc["call"] = "done"
       \/ pc["call"] = "wait" /\ ~stopped /\ NotAsked)

-----------------------------------------------------------------------------
(* What the code's comments say and its behaviour does not bear out.        *)

\* The service waits "for calls to finish" by counting activeCalls: a call
\* that has ended is not in it.
EndedNotActive ==
  Quiet => ~registered
=============================================================================
