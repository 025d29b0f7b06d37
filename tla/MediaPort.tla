----------------------------- MODULE MediaPort -----------------------------
(***************************************************************************)
(* The media port of a call (pkg/sip/media_port.go, media_pipeline.go and  *)
(* draining_port.go): the negotiation of media, the pipeline built from    *)
(* it, and the one UDP socket that three goroutines read in turn, the      *)
(* discardLoop until media is negotiated, the RTP session of the pipeline, *)
(* and DrainPort once the port is closed.                                  *)
(*                                                                         *)
(* The callers are the goroutines of a call: the one that sets it up, the  *)
(* handlers of re-INVITEs, and whoever closes it.  mu is held by one of    *)
(* them at a time, also while it waits for a reader to stop.  audioOut and *)
(* dtmfOut are swapped together and are one variable here.  The media      *)
(* timeout is the subject of the module MediaTimeout.                      *)
(***************************************************************************)
EXTENDS Integers, FiniteSets

CONSTANTS
  Callers,  \* goroutines that use the port
  Codecs,   \* what a negotiation selects: codec, DTMF and encryption
  Addrs,    \* addresses of the peer
  none

\* c.Remote, whose address is 0.0.0.0 when the peer asks for hold.
Remotes == Addrs \cup {"unspecified"}

\* An sdp.MediaConfig.
MediaConfigs == [codec : Codecs, remote : Remotes]

ASSUME MediaPortAssumption ==
  /\ none \notin Callers \cup Codecs \cup Addrs \cup MediaConfigs
  /\ "unspecified" \notin Addrs
  /\ Codecs \cap {"nil", "closed"} = {}

VARIABLES
  pc,          \* where each caller is
  config,      \* the MediaConfig the holder of mu builds a pipeline for
  answering,   \* the callers in ProcessAnswer
  mu,          \* the caller that holds p.mu
  closed,      \* the fuse p.closed
  offer,       \* an offer is pending
  negotiated,  \* p.negotiated
  pipeline,    \* what the pipeline was built for
  localSDP,    \* what p.localSDP describes
  out,         \* audioOut and dtmfOut
  armed,       \* the media timeout was enabled
  portClosed,  \* udpConn.closed
  discardStop, \* udpConn.discardStop
  discarding,  \* discardLoop runs
  receiving,   \* rtpLoop and its session run
  draining,    \* DrainPort
  deadline,    \* the read deadline of the socket
  symmetric,   \* udpConn.symmetric
  dst          \* udpConn.dst

negVars  == <<offer, negotiated, pipeline, localSDP, armed>>
sockVars == <<portClosed, discardStop, discarding, receiving, draining,
              deadline>>
dstVars  == <<symmetric, dst>>
vars     == <<pc, config, answering, mu, closed, negVars, out, sockVars, dstVars>>

TypeOK ==
  /\ pc \in [Callers -> {"idle", "configure", "build", "close",
                         "stopRTP", "stopDiscard"}]
  /\ config \in MediaConfigs \cup {none}
  /\ answering \subseteq Callers
  /\ mu \in Callers \cup {none}
  /\ negotiated \in MediaConfigs \cup {none}
  /\ {pipeline, localSDP} \subseteq Codecs \cup {none}
  /\ out \in Codecs \cup {"nil", "closed"}
  /\ {closed, offer, armed, portClosed, discardStop, discarding, receiving,
      symmetric} \subseteq BOOLEAN
  /\ draining \in {"off", "on", "done"}
  /\ deadline \in {"clear", "frame", "past"}
  /\ dst \in Remotes \cup {none}

\* NewMediaPortWith
Init ==
  /\ pc = [c \in Callers |-> "idle"]
  /\ config = none /\ answering = {}
  /\ mu = none
  /\ closed = FALSE
  /\ offer = FALSE /\ negotiated = none /\ pipeline = none /\ localSDP = none
  /\ out = "nil" /\ armed = FALSE
  /\ portClosed = FALSE
  /\ discardStop = FALSE /\ discarding = TRUE
  /\ receiving = FALSE /\ draining = "off"
  /\ deadline = "clear"
  /\ symmetric \in BOOLEAN /\ dst = none

Goto(c, from, to) ==
  /\ pc[c] = from
  /\ pc' = [pc EXCEPT ![c] = to]

-----------------------------------------------------------------------------
(* Negotiation.                                                             *)

GenerateOffer(c) ==
  /\ pc[c] = "idle" /\ mu = none
  /\ offer' = TRUE
  /\ UNCHANGED <<pc, config, answering, mu, closed, negotiated, pipeline,
                 localSDP, armed, out, sockVars, dstVars>>

\* An offer that cannot be answered changes nothing, and neither does a
\* request without one (GetLocalSDP).
GenerateAnswer(c) ==
  /\ Goto(c, "idle", "configure")
  /\ UNCHANGED <<config, answering, mu, closed, negVars, out, sockVars, dstVars>>

\* The pending offer is read here, and cleared by configure.
ProcessAnswer(c) ==
  /\ offer /\ mu = none
  /\ Goto(c, "idle", "configure")
  /\ answering' = answering \cup {c}
  /\ UNCHANGED <<config, mu, closed, negVars, out, sockVars, dstVars>>

\* udpConn.SetDst of a valid address
SetDst(addr) == dst' = addr

\* NewChangeSetSummary: what mc changes.
ChangeSet(mc) ==
  IF negotiated = none THEN {"new"}
  ELSE {f \in {"codec", "remote"} : negotiated[f] # mc[f]}

\* What becomes of the destination when media was already negotiated.  The
\* hold of a peer is not supported (holdEnabled is false): it is answered, and
\* the destination stays.
ReinviteDst(mc) ==
  IF "remote" \in ChangeSet(mc) /\ mc.remote \in Addrs THEN mc.remote ELSE dst

\* p.negotiated.Remote, updated in place.
ReinviteRemote(mc) ==
  IF mc.remote \in Addrs THEN mc.remote ELSE negotiated.remote

\* configure returns.  Without an error ProcessAnswer calls SetTimeout.
Return(c, ok) ==
  /\ mu' = none
  /\ config' = none
  /\ answering' = answering \ {c}
  /\ armed' = (armed \/ (ok /\ c \in answering))

configureClosed(c) ==
  /\ Goto(c, "configure", "idle")
  /\ mu = none
  /\ closed
  /\ offer' = FALSE
  /\ Return(c, FALSE)
  /\ UNCHANGED <<closed, negotiated, pipeline, localSDP, out, sockVars, dstVars>>

configureForgetsRemote(c) ==   \* mutant: negotiated.Remote is not updated
  /\ Goto(c, "configure", "idle")
  /\ mu = none
  /\ ~closed /\ negotiated # none
  /\ offer' = FALSE
  /\ \E mc \in MediaConfigs :
       /\ SetDst(ReinviteDst(mc))
       /\ negotiated' = IF "codec" \in ChangeSet(mc) THEN negotiated ELSE mc
  /\ Return(c, TRUE)
  /\ UNCHANGED <<closed, pipeline, localSDP, out, sockVars, symmetric>>

\* Media is negotiated already.  audioOut and dtmfOut are swapped out and back.
\* When the codec changed, only the address is taken over.
configureAgain(c) ==
  /\ Goto(c, "configure", "idle")
  /\ mu = none
  /\ ~closed /\ negotiated # none
  /\ offer' = FALSE
  /\ \E mc \in MediaConfigs :
       /\ SetDst(ReinviteDst(mc))
       /\ negotiated' = IF "codec" \in ChangeSet(mc)
                        THEN [negotiated EXCEPT !.remote = ReinviteRemote(mc)]
                        ELSE mc
  /\ Return(c, TRUE)
  /\ UNCHANGED <<closed, pipeline, localSDP, out, sockVars, symmetric>>

configureNewClosed(c) ==   \* mutant: the fuse is not checked
  /\ Goto(c, "configure", "build")
  /\ mu = none /\ mu' = c
  /\ negotiated = none
  /\ offer' = FALSE
  /\ config' \in MediaConfigs
  /\ out' = "nil"
  /\ discardStop' = TRUE
  /\ UNCHANGED <<closed, answering, negotiated, pipeline, localSDP, armed,
                 portClosed, discarding, receiving, draining, deadline, dstVars>>

\* The first negotiation: there is no pipeline to close yet.  stopDiscarding
\* asks discardLoop to stop, and waits with mu held.
configureNew(c) ==
  /\ Goto(c, "configure", "build")
  /\ mu = none /\ mu' = c
  /\ ~closed /\ negotiated = none
  /\ offer' = FALSE
  /\ config' \in MediaConfigs
  /\ out' = "nil"
  /\ discardStop' = TRUE
  /\ UNCHANGED <<closed, answering, negotiated, pipeline, localSDP, armed,
                 portClosed, discarding, receiving, draining, deadline, dstVars>>

\* IgnoreLocalAddrInSDP makes the port symmetric for a private address.
initPort(mc) ==
  /\ dst' = mc.remote
  /\ symmetric' \in {symmetric, TRUE}

\* The handlers from the session to the room decode what was negotiated.
setupInput(mc) == pipeline' = mc.codec

\* rtpLoop starts, and the writers of the room end in the encoder.
setupOutput(mc) == receiving' = TRUE /\ out' = mc.codec

buildWithoutWait(c) ==   \* mutant: discardLoop is not waited for
  /\ Goto(c, "build", "idle")
  /\ portClosed' = FALSE /\ deadline' = "clear"
  /\ initPort(config) /\ setupInput(config) /\ setupOutput(config)
  /\ localSDP' = config.codec
  /\ negotiated' = config
  /\ Return(c, TRUE)
  /\ UNCHANGED <<closed, offer, discardStop, discarding, draining>>

\* Reopen, then NewMediaPortPipeline.
build(c) ==
  /\ Goto(c, "build", "idle")
  /\ ~discarding
  /\ portClosed' = FALSE /\ deadline' = "clear"
  /\ initPort(config) /\ setupInput(config) /\ setupOutput(config)
  /\ localSDP' = config.codec
  /\ negotiated' = config
  /\ Return(c, TRUE)
  /\ UNCHANGED <<closed, offer, discardStop, discarding, draining>>

\* init fails and closes what it made: a session that was opened closes the
\* port, and its rtpLoop is waited for.
buildFails(c) ==
  /\ Goto(c, "build", "idle")
  /\ ~discarding
  /\ \/ portClosed' = TRUE /\ deadline' = "past"
     \/ portClosed' = FALSE /\ deadline' = "clear"
  /\ initPort(config)
  /\ Return(c, FALSE)
  /\ UNCHANGED <<closed, offer, negotiated, pipeline, localSDP, out,
                 discardStop, discarding, receiving, draining>>

-----------------------------------------------------------------------------
(* Closing.                                                                 *)

\* The fuse breaks first, then Close waits for mu.
Close(c) ==
  /\ Goto(c, "idle", "close")
  /\ ~closed /\ closed' = TRUE
  /\ UNCHANGED <<config, answering, mu, negVars, out, sockVars, dstVars>>

closeKeepsDeadline(c) ==   \* mutant: ongoing reads are not ended
  /\ Goto(c, "close", "stopRTP")
  /\ mu = none /\ mu' = c
  /\ out' = "nil"
  /\ portClosed' = (portClosed \/ pipeline # none)
  /\ UNCHANGED <<closed, config, answering, negVars, discardStop, discarding,
                 receiving, draining, deadline, dstVars>>

\* closePipelineLocked: the session closes the port, which ends its reads.
closePipelineLocked(c) ==
  /\ Goto(c, "close", "stopRTP")
  /\ mu = none /\ mu' = c
  /\ out' = "nil"
  /\ IF pipeline = none THEN UNCHANGED <<portClosed, deadline>>
     ELSE portClosed' = TRUE /\ deadline' = "past"
  /\ UNCHANGED <<closed, config, answering, negVars, discardStop, discarding,
                 receiving, draining, dstVars>>

\* rtpLoop has returned; then the port stops discardLoop.
closePort(c) ==
  /\ Goto(c, "stopRTP", "stopDiscard")
  /\ pipeline # none => ~receiving
  /\ pipeline' = none
  /\ discardStop' = TRUE
  /\ UNCHANGED <<config, answering, mu, closed, offer, negotiated, localSDP, armed,
                 out, portClosed, discarding, receiving, draining, deadline,
                 dstVars>>

\* DrainPort takes over the socket and the switches are closed.
closeDrains(c) ==
  /\ Goto(c, "stopDiscard", "idle")
  /\ ~discarding
  /\ portClosed' = TRUE /\ deadline' = "past"
  /\ draining' = "on"
  /\ out' = "closed"
  /\ mu' = none
  /\ UNCHANGED <<config, answering, closed, negVars, discardStop, discarding,
                 receiving, dstVars>>

-----------------------------------------------------------------------------
(* The readers of the socket.                                               *)

\* discardLoop reads with a deadline of one frame.
discardRead ==
  /\ discarding /\ ~discardStop
  /\ deadline' = "frame"
  /\ UNCHANGED <<pc, config, answering, mu, closed, negVars, out, portClosed,
                 discardStop, discarding, receiving, draining, dstVars>>

\* It was asked to stop, or the socket failed.
discardEnds(asked) ==
  /\ discarding /\ asked = discardStop
  /\ discarding' = FALSE
  /\ deadline' = "clear"
  /\ UNCHANGED <<pc, config, answering, mu, closed, negVars, out, portClosed,
                 discardStop, receiving, draining, dstVars>>

\* udpConn.Read of the session: a symmetric port answers to where a packet
\* came from, unless it is on hold.
receivePacket ==
  /\ receiving
  /\ \E src \in Addrs :
       dst' = IF symmetric /\ dst # "unspecified" THEN src ELSE dst
  /\ receiving' = ~portClosed
  /\ UNCHANGED <<pc, config, answering, mu, closed, negVars, out, portClosed,
                 discardStop, discarding, draining, deadline, symmetric>>

\* The read ends with io.EOF, and with it rtpLoop and every rtpReadLoop.
receiveEOF ==
  /\ receiving /\ portClosed /\ deadline = "past"
  /\ receiving' = FALSE
  /\ UNCHANGED <<pc, config, answering, mu, closed, negVars, out, portClosed,
                 discardStop, discarding, draining, deadline, dstVars>>

\* The read fails: rtpLoop returns, the pipeline stays.
receiveFails ==
  /\ receiving /\ ~portClosed
  /\ receiving' = FALSE
  /\ UNCHANGED <<pc, config, answering, mu, closed, negVars, out, portClosed,
                 discardStop, discarding, draining, deadline, dstVars>>

\* DrainPort closes the socket once it is idle or the time is over.
DrainPort ==
  /\ draining = "on" /\ draining' = "done"
  /\ UNCHANGED <<pc, config, answering, mu, closed, negVars, out, portClosed,
                 discardStop, discarding, receiving, deadline, dstVars>>

Caller(c) ==
  \/ GenerateOffer(c) \/ GenerateAnswer(c) \/ ProcessAnswer(c)
  \/ configureClosed(c) \/ configureAgain(c) \/ configureNew(c)
  \/ build(c) \/ buildFails(c)
  \/ Close(c) \/ closePipelineLocked(c) \/ closePort(c) \/ closeDrains(c)

Readers ==
  \/ discardRead \/ discardEnds(TRUE) \/ discardEnds(FALSE)
  \/ receivePacket \/ receiveEOF \/ receiveFails \/ DrainPort

Next == Readers \/ \E c \in Callers : Caller(c)

Spec == Init /\ [][Next]_vars

\* A goroutine that holds mu goes on; one that waits for mu gets it, since
\* sync.RWMutex does not starve a writer; discardLoop sees the flag within a
\* frame; a read past its deadline returns; DrainPort is bounded in time.
Fairness ==
  /\ \A c \in Callers :
       /\ SF_vars(closePipelineLocked(c))
       /\ WF_vars(closePort(c) \/ closeDrains(c) \/ build(c) \/ buildFails(c))
  /\ WF_vars(discardEnds(TRUE)) /\ WF_vars(receiveEOF) /\ WF_vars(DrainPort)

FairSpec == Spec /\ Fairness

-----------------------------------------------------------------------------
(* Properties.                                                              *)

\* The socket has one reader at a time: no packet of the call goes to
\* discardLoop or DrainPort while the session reads, and no loop changes the
\* deadline under another one.
OneReader ==
  /\ ~(discarding /\ receiving)
  /\ draining = "on" => ~discarding /\ ~receiving

\* What is sent agrees with p.negotiated, also after re-INVITEs that are
\* answered without a rebuild: the writers of the room end in the pipeline,
\* the pipeline and the local SDP are for the codec p.negotiated keeps (that of
\* the first negotiation when a re-INVITE asks for another one, which configure
\* does not take over), and a port that is not symmetric sends to the address
\* negotiated last.
MediaFollowsNegotiation ==
  /\ pipeline # none => pipeline = localSDP /\ negotiated.codec = pipeline
  /\ mu = none /\ ~closed => out = IF pipeline = none THEN "nil" ELSE pipeline
  /\ ~symmetric /\ negotiated # none /\ negotiated.remote \in Addrs
       => dst = negotiated.remote

\* Close is final although negotiations may be under way: once it handed the
\* socket to DrainPort there is no pipeline, no goroutine reads for the call,
\* and the writers are closed.
CloseIsFinal ==
  draining # "off" =>
    /\ closed /\ portClosed
    /\ pipeline = none /\ ~receiving /\ ~discarding
    /\ out = "closed"

\* A port that is closed releases its socket: neither the lock nor one of the
\* loops that Close waits for holds it up forever.
PortReleased == closed ~> draining = "done"
=============================================================================
