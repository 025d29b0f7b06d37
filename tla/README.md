# Verification of the LiveKit SIP service

TLA+ models of the call control of `livekit/sip` (the Go service that connects
SIP phones to LiveKit rooms), model-checked with TLC on small instances, with
the most important facts proved with TLAPS for every value of the constants.
Paths below are relative to `src/`.

## 1. The system

A call is a SIP dialog on one side and a participant of a LiveKit room on the
other. The two sides, timers and RPC handlers all act on the call from their
own goroutines; what ties them together is a few atomics, fuses, channels and
one mutex per SIP leg.

| Part | Where | State | Operations |
|---|---|---|---|
| SIP leg, inbound | `pkg/sip/inbound.go` `sipInbound` | INVITE transaction, dialog, CSeq, ringing, ACK fuses, last status, under `c.mu` | StartRinging, RespondAndDrop, Accept, AcceptAck, AcceptBye, newReferReq, CloseWithStatus |
| Inbound call | `inbound.go` `inboundCall` | `done`, `started`, media port, room, context, channels | handleInvite, joinRoom, waitForCallEnd, close, Shutdown, Bye |
| INVITE front end | `inbound.go` `processInvite`, `handleInviteAuth`; `pkg/service/psrpc.go` | `provisionalInvites`, `rejectedInvites`, `inboundCallInfo` with its challenge timer | INVITE, auth lookup, 407 challenge, retry, replay of a rejection, re-INVITE |
| Digest nonces | `digest_nonce.go` | none | issueDigestNonce, checkDigestNonce |
| Cold transfer | `service.go`, `protocol.go`, `transferCall` of both calls | `pendingTransfers`, `referDone`, `referCseq` | TransferSIPParticipant, REFER, NOTIFY |
| SIP leg, outbound | `outbound.go` `sipOutbound` | INVITE and its answer, CSeq, final status | Invite, attemptInvite, watchCancelledInvite, AckInviteOK, AcceptBye, sendBye, Close |
| Outbound call | `outbound.go` `outboundCall` | `c.mu`, `stopped`, `started`, media, room | newCall, Dial, connectSIP, waitClose, EndCall, close |
| Outbound API | `client.go` | `activeCalls` | createSIPParticipant, onOutboundBye, onOutboundNotify |
| Call registry | `manager.go` `callManager` | `byLocalTag`, `activeCalls`, `pendingTransfers`, fuse `closing` | register, lookup, ActiveCalls, Stop |
| Call state | `analytics.go` | call info, transfers, dirty flag | Update, DeferUpdate, StartTransfer, EndTransfer, Flush, ForceFlush |
| Media port | `media_port.go`, `media_pipeline.go` | offer, negotiated media, pipeline, UDP socket | GenerateOffer, GenerateAnswer, ProcessAnswer, configure, Close |
| Media timeout | `media_port.go` | `timeoutStart`, `timeoutInitial`, `timeoutGeneral`, `timeoutKick`, last packet | SetTimeout, mediaTimeoutLoop |
| Draining UDP socket | `draining_port.go` | idle and maximal deadline | DrainPort |
| Room | `room.go` | room, `subscribe`, `reconnect`, recovery, fuses `ready`, `subscribed`, `stopped`, `closed` | Connect, Subscribe, onReconnecting, onReconnected, CloseWithReason |
| Signalling events | `signaling_events.go` | none | builders of the events (inviteResponseEvent, callEndedEvent) |
| Silence filler | `silence_filler.go` | last RTP timestamp and sequence number | HandleRTP |
| Monitor | `pkg/stats/monitor.go` | CPU load, fuses `started`, `shutdown`, gauges of active calls and transfers | Health, CallStart, CallEnd, TransferStarted |
| Service loop | `pkg/service/service.go`, `cmd/` | shutdown fuse | Run, Stop |

How they interact: `server.go` hands every INVITE to `processInvite`, which
authenticates it, registers the call and runs `handleInvite`. BYE, ACK and
NOTIFY requests find the call in the registry by its local tag. RPCs of the
service create outbound calls and start transfers; EndCall is an RPC of the room
the call is in. `Stop` shuts down every registered call. The room and the media
port signal the call through fuses (`Closed`, `Subscribed`, `Received`,
`MediaTimeout`).

What makes it hard: the end of a call may come from eight places at once, and
`close` must run once and with the right answer to the peer; `Accept` and
`sendBye` wait for the network with the mutex held; ACK, BYE, CANCEL and NOTIFY
may arrive at any time; a call may be shut down while its handler is between two
steps; a timer may fire while what it guards is being finished; one UDP socket
has three readers in turn; the connection to the room may be replaced while the
call subscribes to it.

## 2. Modules

| Module | Models | Extends |
|---|---|---|
| `SipInbound` | the `sipInbound` object: the INVITE we were sent and its dialog | |
| `InboundCall` | `inboundCall`: `handleInvite`, `close`, `Shutdown` and every goroutine that acts on the call | `SipInbound` |
| `SipOutbound` | the `sipOutbound` object: the INVITE we send, its CANCEL and its dialog | |
| `OutboundCall` | `outboundCall` and `createSIPParticipant` | `SipOutbound` |
| `ColdTransfer` | the transfer RPC, its worker, the REFER and the NOTIFYs of one call | |
| `TransferRequests` | what the transfer RPC promises its callers (abstract) | |
| `InviteAuth` | the INVITEs of one caller up to the call: auth lookup, challenge, timer, caches | |
| `MediaPort` | negotiation, the pipeline, the readers of the socket, Close | |
| `MediaTimeout` | `SetTimeout`, `mediaTimeoutLoop` and the packets, with time | |
| `Room` | joining, subscribing, recovery after a reconnect, Close | |
| `MCInboundCall` | the symmetry set for TLC | `InboundCall` |
| `SipInboundProofs`, `InboundCallProofs`, `ColdTransferProofs`, `ColdTransferRefinement`, `InviteAuthProofs`, `RoomProofs` | the theorems | the module they are named after |
| `OutboundCallProofs` | the theorems on `SipOutbound` and `OutboundCall` | `OutboundCall` |
| `MediaPortProofs` | the theorems on `MediaPort` and `MediaTimeout`, which share no variable | both |

**The two SIP legs.** `SipInbound` and `SipOutbound` model the object on its
own: any method may be called whenever `c.mu` allows, so what holds there holds
for every caller. One action stands for one method. A method that keeps the
lock while it waits for the network is one action per wait: `Accept` is
`AcceptBegins`, `AcceptWrite...`, `AcceptAcked`, `AcceptRetry` and
`AcceptGivesUp`; `Invite` is `InviteBegins`, `attemptInvite` and one action for
each way a wait may end; `sendBye` is `SendBye...` and `SendByeReturns`. `lock`
is `c.mu`. Responses are a status out of 200, one value for all rejections and,
outbound, one for a 2xx other than 200; header and body contents are left out.
Variables marked "history", here and in the other modules, record what happened
(events, requests that were sent) so that properties can talk about it.

**The two calls.** `InboundCall` and `OutboundCall` extend their leg with the
goroutines of the call. `pc` says where each of them is; an action is what a
goroutine does between two points at which another one can interfere (a lock, a
channel, a network wait, an atomic). `close` is modelled once, with the actor
that runs it as parameter, and in the order of the code: inbound `c.done`, the
SIP leg, `EventCallEnded` with the room and the media port, registry; outbound
the fuse `c.stopped`, call info, gauge, `EventCallEnded`, the SIP leg, media,
room, registry. Everything outside that may happen (BYE, CANCEL, ACK, EndCall,
`Stop`, room disconnect, media timeout, REFER, deadlines) is an action that may
happen whenever the code would see it; the constants `Byes` and `Events` choose
which of them a run includes.

**Cold transfer.** A request `r` is the goroutine of one RPC, worker `t` the
goroutine started by the request that created the `PendingTransfer`, handler `n`
one NOTIFY. The channel `Done` is `chan` (its buffer of one) and `closed`; the
unbuffered `referDone` is the rendezvous `ReferDone(n, t)` between a parked
handler and a waiting worker. A NOTIFY carries the REFER it is about, its event
id (or none) and what `sipfrag` and Subscription-State amount to. What ends the
call is in the call modules; here `gone` collects what has ended, in any order.
The inbound code is modelled; `transferCall` of an outbound call takes the same
steps (it mutes the room's audio for the dial tone, restores it when the transfer
fails, and hangs up after a second), with the fuses of the outbound call where the
inbound one has `c.done`.

**INVITE front end.** Every INVITE of one caller has its goroutine. `info` maps
a local tag to an `inboundCallInfo`, `current` is its `challengeTimer`, and a
timer goes from armed to running (its function waits for the lock) to firing.
The nonce and the timer have the same lifetime, and the nonce is the older of
the two; so time is only the set `expired`. What happens in a call that was set
up is `InboundCall`'s; here it is up and closes. `retryOf` (history) ties an
INVITE that arrives with credentials to the challenge it answers, so that the two
can be counted as the one call they are. A re-INVITE of an outbound call, which
`processInvite` serves too, belongs to another dialog and touches none of this
state; what it does to the media is one more negotiation of `MediaPort`.

**Media.** `MediaPort` has one action per part of `configure` and `Close` between
which another goroutine can run: the lock `mu` is kept while `discardLoop` or the
RTP loop is waited for. The socket's read deadline is a variable, since it is
what wakes a blocked read. In `MediaTimeout`, where nothing is locked, every store
of `SetTimeout` is an action. The loop loads the start and the last packet in one
action, the durations in a second one that also decides. Nothing is lost by this:
once there was a packet the start is not used, and a duration stored after its
load is followed by the kick of that `SetTimeout`, as one stored after the decision
is. Time is discrete and passes only when no goroutine can go on.

**Room.** The call's goroutine, the SDK's callbacks, the workers of
`resubscribeAfterReconnect` and the closers. SDK and server are external and
modelled from how `room.go` describes them: a resume keeps the SID and the
subscriptions, a full reconnect has a new SID and none.

**Abstract and detailed.** A call is built from the actions of its leg, so that
it uses the leg as the leg allows is no discovery; it is a lemma of the proofs
(`CallUsesSipInbound`, `CallUsesSipOutbound`), which lets a call rely on what the
leg promises to any caller. An abstraction proper is `TransferRequests`, which
knows neither worker nor channel. `ColdTransfer` implements it
(`RequestsSpec`): the transfers that have begun are the workers that were
started, and a transfer has its outcome once the worker has put it into the
channel.

Modelled from use only: `core.Fuse`, of which it is assumed that the fuse is
broken before the body of `Once` runs (Close of the media port and of the room);
the SIP transaction layer; the SDK.

Not reached by the code and therefore not modelled: the branch of
`sipOutbound.Close` that calls `sendCancel` (`c.invite` is never set without
`c.inviteOk`), the `MediaTimeout` arm of `waitSubscribe` (the timeout is
armed later), and the hold of a peer (`holdEnabled` is false).

## 3. Runs

| Run | Shows |
|---|---|
| `inbound_call` | `handleInvite` against two BYEs, CANCEL, a REFER and `Stop`: one final answer per INVITE, a BYE once and only for answered calls; `EventCallEnded` once, with the right status; no answered caller left in the dialog; a cached rejection is never that of an answered call; once `EventCallEnded` is out the leg answers, rejects, hangs up and refers no more, although `Stop` may have closed the call under its handler. |
| `inbound_call_events` | `handleInvite` against media timeout, room disconnect, EndCall, REFER, ACK and the maximal duration: a call closed by its handler gives back what it took; a call reported active is answered, has a media timeout and a room; CSeq numbers increase; the ACK of an answered call is reported, however it races with the write of the 200 OK, and an ACK handled before `Accept` is not taken for it. |
| `inbound_call_live` | BYE, `Stop` and EndCall each end the call. |
| `outbound_call` | Creation, dialling and the end of the call against a BYE, EndCall, `Stop` and a transfer: an INVITE is answered, failed or cancelled, never two of them; `EventCallEnded` once, with the final status, and the INVITE is neither sent nor settled after it; one BYE (during shutdown a second may follow) and no callee left in the dialog; everything given back; CSeq numbers increase over challenges, REFERs and the BYE; and dialling comes to an end, and BYE, EndCall and `Stop` (if it finds the call registered) end the call although dialling holds the lock they wait for. |
| `cold_transfer` | Two requests, for the same or for different targets, their worker, a NOTIFY and the end of the call: `ColdTransfer` implements `TransferRequests`; gauge, call state and state handler agree with the transfers; the muted audio comes back; event ids are honoured; every request is answered and a transferred call is hung up. |
| `invite_auth` | Three INVITEs of one caller with challenges, retries, timers and one eviction: an INVITE reports at most one end, and none when another took over its challenge; the timer never ends a challenge whose nonce was accepted; an open challenge has a pending current timer; a newer INVITE never replaces a call that is up. |
| `media_port` | Three goroutines that negotiate, renegotiate and close: the socket has one reader at a time; media goes to the address negotiated last, in the codec of the pipeline and of the local SDP (a re-INVITE that asks for another codec is answered and the old one kept); nothing is built after Close; Close releases the socket. |
| `media_timeout` | Packets, three calls of `SetTimeout`, store by store, and Close against the loop: a silent call ends in time, a call with media is not ended early. |
| `room` | Joining, Subscribe, publications, two sessions and two closers in any order: nothing is subscribed to before the call has called Subscribe, by a reconnect neither, and everything after it; Close returns with no recovery left. |

Three runs are expected to be violated; each states what the code says of itself
and shows a schedule in which it does something else.

| Run | Schedule |
|---|---|
| `ended_not_active` | EndCall arrives after `connectToRoom` registered the room RPC and before `newCall` puts the call into `activeCalls`; `close` deletes nothing, the entry added afterwards stays, and the graceful shutdown loop, which logs "waiting for calls to finish", waits for it for ever. |
| `stale_refer` | "Do not buffer the channel to avoid reading a result for an old request": a NOTIFY handler of the first REFER, whose id was compared, is parked on `referDone` for up to `notifyAckTimeout`; the first transfer times out, a second begins, and its worker takes the parked result. |
| `call_ends_twice` | "The call still ends with exactly one EventCallEnded: from the retry when the call finishes, or, if no retry arrives within the challenge timeout, from the challenged INVITE": the retry arrives in time, the challenge timer is due while the auth lookup of the retry runs, and the lookup then rejects. Only the password case of `processInvite` stops the timer, so the challenged INVITE and its retry both report the end of the call. |

### Exceptions

Schedules that the properties leave out, because the code behaves that way. The
name of the exception, where the property has one, is given.

- *Shutdown under the handler's feet* (`HandlerReleases` is about calls closed by
  their handler): `Stop` closes an inbound call while its handler is between two
  steps; the handler then opens a media port or joins the room, and nobody gives
  it back. Between registration and `StartRinging` the same leaves
  `StartRinging` to call `Cancels` on a nil transaction.
- *A repetition of the 200 OK that cannot be written* (`okFailed` in
  `OneFinalAnswer` and `NoOrphanDialog`): the answered caller is sent a final
  error status and no BYE.
- *Closed before dialling* (`ClosedBeforeDial`, outbound): a call closed by EndCall
  or `Stop` before `connectSIP` gets `c.mu` is dialled all the same. Its INVITE is
  cancelled when `sipResponse` notices the closed context; should the select pick
  a 200 OK first, `ProcessAnswer` fails on the closed media port, the second
  `close` does nothing and the callee gets neither ACK nor BYE.
- *Registered after `Stop` took the maps* (outbound): the call is not closed by
  `Stop`; its INVITE is cancelled, but if the select picks the 200 OK first the
  call goes on. `CallEnds` asks for the end of calls that `Stop` found registered.
- *Status after the end* (outbound): the deferred update of
  `createSIPParticipant` may run after the call ended and report it as joined;
  no property says otherwise.
- *One end per INVITE, not per call* (front end): `TakenOverEndsOnce` is about one
  INVITE, and about a pair only when the second one stopped the timer of the
  first. That a call as a whole ends once does not hold (`call_ends_twice`): a
  retry that is accepted without a password, dropped or rejected by the lookup, or
  that overtakes the start of the timer, leaves the timer to report an end.
- *A retry that overtakes its challenge* (`Tied` in `AcceptedChallengeIsQuiet`):
  the 407 is sent before the timer is started, and an evicted `inboundCallInfo`
  leaves a timer no retry can stop.
- *Two INVITEs at once* (`NoSecondCall`): INVITEs of one tag that are in progress
  together, or a repeated one, may each make a call.
- *Overtaken decisions* (`Overtaken` in `NoEarlyTimeout`): a packet, or a store of
  `SetTimeout`, between the loop's loads and its decision can make the timeout
  fire early. It does so only at the moment of that packet, or while the
  `SetTimeout` is under way or its kick is still to be seen; once the loop has
  seen the kick it decides with values of one moment again.
- *A failed SetSubscribed* (room) is not retried, and `RoomAudio` does not
  hold for it; only a failure on a room that was left is modelled.
- *Subscribed while it rings* (room): `NotBeforeSubscribe` is about the call of
  `Subscribe`, not about the answer. An outbound call, and an inbound one behind a
  pin, subscribes when its leg is accepted; a plain inbound call subscribes first
  and accepts when a track has come (`inbound.go` 1158 and 1168).

### Bounds

| Bound | Value | Why it is enough |
|---|---|---|
| `Byes` | 2 in `inbound_call`, 1 elsewhere, 0 in `ended_not_active` | two is the smallest number at which BYE handlers race; they are interchangeable (symmetry, which a run with liveness cannot use). For two BYEs of an outbound call the theorems stand |
| `inviteOKRetryAttempts`, `inviteOKRetryAttemptsNoACK` | 1 and 0 | every repetition after the first behaves alike |
| `MaxAuthTries` | 2 | one challenge and the refusal of a further one |
| `MaxRefers`, `MaxAcks` | 0 or 1 (`MaxAcks` is inbound only) | with a REFER and a BYE there are two requests to number |
| `MaxByes` | 2 | BYEs while the service stops: `Invite`'s own Close and that of `close` |
| `InviteCSeq` | 7 | only compared |
| `Events` | split over the runs of a call | keeps each run short; the theorems hold for all of them at once |
| `MaxReqs`, `MaxTargets` | 2 | a request that joins, one that is refused, one that follows |
| `MaxNotifies` | 1 | one NOTIFY may be about either REFER, with or without an id, before or after its transfer |
| `MaxInvites`, `MaxEvictions` | 3, 1 (2, 0 in `call_ends_twice`) | a challenge, its retry, and one more INVITE that overlaps either; one entry lost from a cache |
| `Callers`, `Codecs`, `Addrs` | 3, 2, 2 | a negotiation, a second one and a Close in progress; a change of each kind |
| `MaxTime`, `Durations`, `MaxSets` | 8; 0, 1, 3; 3 | longer than the default initial window (5) and a general one (2) after it; durations above and below the defaults, and 0, which stands for the default; enabling the timeout and changing it twice |
| `Tracks`, `MaxSessions`, `MaxClosers` | 1, 2, 2 | one track and one SIP participant, which are treated differently; one full reconnect and any number of resumes; a Close that finds the room closed |

The theorems hold for every value of these constants, so for the properties
they cover no bound remains but the scope of the module (one call, one
caller). `cold_transfer` checks deadlock; the other runs do not, since a call, a
port or a room stops for good; that nothing hangs half-way is what the liveness
properties say.

### Fairness

Nothing is assumed of peers, callers, users or the server in any run.

- Inbound call: the handler, each closer and each BYE handler goes on when it can.
  This includes the timers the handler itself arms and the calls it makes:
  dispatch and room RPCs have timeouts. Not fair: the caller's pin, a subscriber
  in the room, CANCEL, BYE, ACK, EndCall, `Stop`, the ringing goroutine.
- Outbound call: the dialling goroutine, each closer, each BYE handler, and
  `ctxEnds` while dialling, which the ringing timeout guarantees. Not fair: the
  return of the RPC and of a REFER, whatever ends an established call by itself
  (deadline, media timeout, loss of the room), BYE, EndCall, `Stop`, the watcher
  of a cancelled INVITE.
- Transfer: the requests and the worker go on; the worker's waits are bounded by
  the SIP transaction, the ringing timeout and `referResultGrace`; the timer that
  hangs up fires. Not fair: NOTIFYs and the end of the call.
- Media port: a holder of `mu` goes on; `discardLoop` sees its flag within a frame;
  a read past its deadline returns; `DrainPort` is bounded by `DrainingDuration`
  (10 minutes by default, `pkg/config/config.go`). The one case of strong
  fairness is `closePipelineLocked`, which waits for `mu` while others take it
  again and again: `sync.RWMutex` does not starve a writer.
- Room: a Subscribe that was called, callbacks that are due and the workers go on.

A goroutine of a call takes a lock a bounded number of times in the life of a
call, so weak fairness of the others suffices for it to get the lock.

## 4. Proofs

Assumptions: numeric constants are naturals of the right range
(`SipInboundAssumption`, `SipOutboundAssumption`, `ColdTransferAssumption`,
`InviteAuthAssumption`, `MediaTimeoutAssumption`), `Events` is a set of known
events (`EventsAssumption`, `OutboundCallAssumption`), BYE requests have names
of their own (`OutboundCallAssumption`), `none` is neither a number nor an
outcome (`ColdTransferAssumption`), and the names of codecs and addresses are
not those of a missing value (`MediaPortAssumption`). Nothing is assumed of the
constants of `Room`, and nothing else anywhere.

A step lemma has one case per action. Where many actions leave alone what an
invariant speaks of, or change it in the same way, a frame or effect lemma says so
once (`Lasting`, `PipeFrames`, `Dials`, `Asides`) and the cases cite it instead of
the actions.

*Legs.* `SipInv` is the type invariant, the promised properties and what links
the phase of the method that holds the lock to the state of the dialog:
inbound `LegShape` (which of transaction, request and 200 OK are there),
outbound `SipPhase` (where `Invite` is decides what may have happened). It is
needed because, for instance, "no second final answer" is only inductive if
one knows that the transaction is dropped with the first one. `SipStepInv` has
one step per method. `PeerByeIsFinal` and `RequestsAreOrdered` are action
properties that follow from it. So is `AckFollowsAnswer` (`AckIsReported`): it rests
on `SendingInv`, that `okSending` is broken before the 200 OK can reach the peer
and stays so when a repetition fails, which is why the ACK of an answered INVITE
always finds it. Flags are typed separately, since the SMT
backend does not tell Boolean values from formulas.

*Calls.* By the lemma `StepIsSipStep` every step of a call is a step of its leg or
leaves it alone, so (`CallUsesSipInbound`, `CallUsesSipOutbound`) the call inherits
`SipInv`. On top of it,

- `CloseInv` (inbound): the closer that won `c.done` is the only one between the
  compare-and-swap and the end of `close`; the events and the status depend on
  how far it got; an answered INVITE whose dialog is gone was hung up by one side;
- `CallInv` (outbound): `c.mu` is held by whoever is inside `close` or dialling
  (`LockHeld`), nobody but EndCall closes a call that is being created
  (`CreatedInv`), and `close` has done its work once it is past the respective
  step (`StoppedInv`). Its key point: the dialling goroutine can find the call
  closed only if it was closed before dialling began, so the final status is
  settled when `EventCallEnded` reads it.

Proved from them, for every set of BYEs and every choice of events: exactly one
`EventCallEnded`, its status, no orphaned dialog, no replay of a wrong rejection
(inbound), everything released (outbound).

Two more invariants are about what an inbound call holds.

- `ReleaseInv`: a handler that closes the call has let go of each resource once it
  is past the line that frees it, and until `Stop` takes the call over, its room
  is closed only on the way to `close`. The second half is needed because
  `close` frees a participant only through a room that was not closed before.
  It gives `HandlerReleases`.
- `WayInv`: where the handler is decides whether the call was answered, its
  media timeout armed and its room joined. `handleInvite` does the three in two
  orders, with a pin and without, so the invariant follows both ways until they
  meet at `activate`. It gives `ActiveOnlyIfAnswered`.

Requests to end a call have invariants of their own, which give
`NoEndRequestIsLost`, stated in the proof module of each call.

- Inbound: `c.mu` is held only inside `Accept` and `sendBye` (`LockInv`); a BYE
  that was handled, and a Shutdown that closed the call, have cancelled the
  context (`ToldInv`); and a request over RPC comes only to a call that has joined
  its room (`RequestInv`). The last one is the point: `endCall` is a channel of
  one place that is read at a few selects only, and a request in it is not lost
  because it is put there after the join, when the last of these selects, the
  loop of the active call, is still to come or the handler is closing. It gives
  `EndRequestsReachHandler`.
- Outbound: whoever holds `c.mu` is inside `close` or dialling (`HolderInv`), the
  lock of the SIP side is held inside `Invite` or `sendBye` (`LegLockInv`), and
  EndCall and the callee's BYE return from a closed call (`AskedInv`). It gives
  `EndRequestsReachClose`.

`EndIsTheLastWord` proves `NothingAfterEnd`, an action property of both calls:
after `EventCallEnded` the leg does not change its mind. Inbound it covers
answers, rejections, BYEs and REFERs, although Shutdown can close a call whose
handler is still walking. Outbound it covers the INVITE, its outcome and the
reported status, for calls that were not closed before they were dialled. It
says nothing of BYEs there: the shutdown of the service may send another one,
which `ByeOnce` allows for.

*Transfer.* `IInv` of `ColdTransferProofs`: the entry of `pendingTransfers` is
the one worker that runs (`PendInv`); a request that waits, waits for a worker
that was started (`ReqInv`); the channel and the stored outcome hold the
worker's result, and the outcome is stored before the channel is closed
(`OutInv`), which is why the zero value of the closed channel never reaches a
caller; a worker that waits has sent the last REFER (`ReferInv`); a parked
handler has compared its id (`NotifyInv`). `FirstResultIsOwn` follows: a worker
is given the result of another REFER only in a call that has been referred
before, so the schedule of `stale_refer` needs a second transfer. From `IInv`
`ColdTransferRefinement` proves the refinement of `TransferRequests` step by
step, and with four invariants on top that the audio comes back and that gauge,
call state, state handler and callers agree. `NobodyIsLeft` is the part of
`EveryoneAnswered` and `TransferredHangsUp` that is not about fairness: whoever
waits has a worker that runs or a closed channel, because a worker closes the
channel before it leaves the registry, and `transferCall` arms the timer before
it returns (`LeaveInv`).

*INVITE front end.* The invariant says in whose hand a challenge is: its timer
is pending and current, its function has passed the check, or an INVITE stopped
it, and then it is not current any more (`TimerInv`). Until something is evicted,
the INVITEs of a tag share an `inboundCallInfo` (`InfoInv`), so a retry tied to
its challenge has stopped the timer before its credentials are looked at
(`RetryInv`). The entry of a tag in `byLocalTag` is the INVITE of a call that is
up (`RegInv`).

*Media timeout.* A sleeping loop wakes no later than the end of the silence and no
later than one general timeout from now (`Sleeps`). The second half is the
point: the first packet can bring the end of the silence forward, and the cap on
the wake-up is what makes the invariant survive it. For `NoEarlyTimeout`,
`Decides` says that the loop decides with the values in force, or with values
that are overtaken in one of the ways the exception above names.

*Media port.* `LockInv`: `mu` is held by the caller that builds a pipeline or
waits for a reader in Close. `CloserInv`: one caller is in Close, and when
`DrainPort` runs it has left and nobody builds. `PipeInv`: a pipeline is for the
negotiated codec, exists only after `discardLoop` has stopped, and is the only
thing a session reads for; and what a caller that waits with `mu` held will find
when it goes on. These are inductive together, with `CloseIsFinal`; `OneReader`
follows, because the three readers belong to disjoint phases. The writers
(`WritersInv`) and the destination (`DstInv`), which `configure` changes on its
other branch, are on top of them for `MediaFollowsNegotiation`. `WaitsEnd` says
that whoever waits with `mu` held waits for a reader that was told to stop; it is
the part of `PortReleased` that is not about fairness.

*Room.* `QuietInv`: before `Subscribe` sets the flag there is neither a worker of
a recovery nor a callback about to register one; this is what makes
`NotBeforeSubscribe` inductive, since a worker subscribes without looking at the
flag again. `JoinInv`: a Close that waits for the workers has closed their
registration first, so that none can follow the last one. `NoneForgotten` is the
part of `RoomAudio` that is not about fairness: what the SDK knows of is heard, or
somebody is on the way to it. Its proof follows a lost subscription from hand to
hand: the SID that `onReconnecting` kept, which is older than the new session
(`SidInv`), the comparison in `onReconnected`, the worker; none of them gives up
unless the room is closed or left (`EndInv`).

Types are proved too: `CallTypeOK` of both calls (`CallTypeCorrect`) and `TypeOK`
of `MediaPort` (`PortTypeCorrect`), in groups of variables that change together.

Only model-checked: the liveness properties `EndRequestsHonoured` (inbound),
`CallEnds` (outbound), `EveryoneAnswered`, `TransferredHangsUp`, `PortReleased` and
`RoomAudio`, since fairness and ENABLED are out of the prover's reach. Their safety
halves are proved: `NoEndRequestIsLost` of both calls, `NobodyIsLeft`, `WaitsEnd`
and `NoneForgotten` say that what is waited for is on its way. Every other
property of a passing run is a theorem. The three violated runs show a schedule,
which needs no proof.

`RingingStops`, `AckIsForAnswer` and the other promises of the legs that no run
lists are conjuncts of the proved `SipInv`.

## 5. Not modelled

- Audio and codecs (`media.go`, `media_codecs.go`, `pkg/media`), the silence
  filler, the signal logger: they transform or count samples and keep no control
  state.
- `pkg/sealer`: cryptography over opaque bytes.
- Configuration, features and TLS: read once at start.
- Error classification (`errors.go`), the builders of signalling events, header
  and URI parsing, header mapping, participant attributes: functions without
  state, whose results no modelled decision depends on beyond the classes used.
- The order of deferred and forced updates of `CallState` on the wire; the loop
  that waits for the last call at shutdown and the health by CPU load: the
  counters they read are modelled per call, not over many calls.
- The dispatch lookup beyond its outcome, DTMF digits, audio prompts, statistics,
  logging and tracing.
- `setParticipantFromRoom` racing a reconnect (`room.go`): it refreshes the
  participant's identifiers and drives no step of the room.
- A re-INVITE of an outbound call beyond its negotiation: `RecordInvite`, which keeps
  the callee's CSeq for the next comparison (`inbound.go` 488-509).
- Test clients.
