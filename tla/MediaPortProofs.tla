-------------------------- MODULE MediaPortProofs --------------------------
(***************************************************************************)
(* Proofs about media_port.go: the media timeout (MediaTimeout), for any   *)
(* length of time and any durations, and the port (MediaPort), for any     *)
(* number of goroutines that negotiate and close, any codecs and any       *)
(* addresses.                                                              *)
(*                                                                         *)
(* The invariant of the timeout says what a sleeping loop may rely on.     *)
(* Its timer is due no later than the end of the silence, and no later     *)
(* than one general timeout from now: the second half is what makes the    *)
(* first survive the first packet, which can bring the end of the silence  *)
(* forward.                                                                *)
(*                                                                         *)
(* The invariants of the port rest on what mu protects: who holds it, that *)
(* one Close runs at a time, and what the pipeline is while the holder     *)
(* waits for a reader with mu held.                                        *)
(***************************************************************************)
EXTENDS MediaPort, MediaTimeout, TLAPS

\* Zenon proves a leaf unless the leaf names SMT.  Most need a fraction of a
\* second; the limits leave room for a slow machine.
USE ZenonT(90)

-----------------------------------------------------------------------------
(* The timeout.                                                             *)

LoopType ==
  /\ now \in Nat \ {0} /\ start \in Nat /\ last \in Nat /\ timer \in Nat
  /\ initial \in Nat /\ general \in Nat
  /\ arg \in [initial : Nat, general : Nat]
  /\ loaded \in [start : Nat, last : Nat]

\* A loop that sleeps, with no SetTimeout under way, wakes up in time.
Sleeps ==
  loop = "select" /\ setter = "idle" /\ ~kick /\ start # 0 =>
    timer <= SilenceEnds /\ timer <= now + general

\* A loop that decides has the start in force, and the last packet unless one
\* came since.
Decides ==
  loop = "decide" /\ setter = "idle" /\ ~kick =>
    loaded.start = start /\ (loaded.last = last \/ last = now)

\* The loop ends with the port or with the call.
Ends == loop = "done" => ended \/ fired

LoopInv == LoopType /\ Sleeps /\ Decides /\ Ends

\* Every step keeps the types.
LEMMA LoopTypeStep == LoopType /\ [TimeoutNext]_timeoutVars => LoopType'
<1> SUFFICES ASSUME LoopType, [TimeoutNext]_timeoutVars PROVE LoopType'
  OBVIOUS
<1> USE MediaTimeoutAssumption DEF LoopType, setVars, loopVars
<1>1. CASE SetTimeout
  BY <1>1, SMTT(90) DEF SetTimeout
<1>2. CASE storeInitial \/ storeGeneral \/ storeStart \/ kickLoop
  BY <1>2 DEF storeInitial, storeGeneral, storeStart, kickLoop
<1>3. CASE loopClosed \/ loopWakes \/ decideFires
  BY <1>3, SMTT(90) DEF loopClosed, loopWakes, decideFires, disabledPark
<1>4. CASE resetTimer
  BY <1>4, SMTT(90) DEF resetTimer, DeadlineOf, Least
<1>5. CASE onNewMediaPacket \/ ClosePort \/ Tick
  BY <1>5, SMTT(90) DEF onNewMediaPacket, ClosePort, Tick
<1>6. CASE UNCHANGED timeoutVars
  BY <1>6 DEF timeoutVars
<1> QED
  BY <1>1, <1>2, <1>3, <1>4, <1>5, <1>6 DEF TimeoutNext

\* Every step keeps the invariant: resetTimer sets the timer from the values
\* in force, a packet cannot come before the capped wake-up, and whatever
\* SetTimeout changes is followed by its kick.
LEMMA LoopStep == LoopInv /\ [TimeoutNext]_timeoutVars => LoopInv'
<1> SUFFICES ASSUME LoopInv, [TimeoutNext]_timeoutVars
             PROVE  Sleeps' /\ Decides' /\ Ends'
  BY LoopTypeStep DEF LoopInv
<1> USE DEF LoopInv, LoopType, Sleeps, Decides, Ends, SilenceEnds, setVars,
      loopVars
<1>1. CASE SetTimeout
  BY <1>1 DEF SetTimeout
<1>2. CASE storeInitial \/ storeGeneral \/ storeStart
  BY <1>2 DEF storeInitial, storeGeneral, storeStart
<1>3. CASE kickLoop
  BY <1>3 DEF kickLoop
<1>4. CASE loopClosed
  BY <1>4 DEF loopClosed
<1>5. CASE loopWakes
  <2>1. CASE start = 0
    BY <1>5, <2>1 DEF loopWakes
  <2>2. CASE start # 0
    BY <1>5, <2>2, SMTT(90) DEF loopWakes
  <2> QED
    BY <2>1, <2>2
<1>6. CASE decideFires
  BY <1>6 DEF decideFires
<1>7. CASE resetTimer
  BY <1>7, SMTT(90) DEF resetTimer, DeadlineOf, Least
<1>8. CASE onNewMediaPacket
  BY <1>8 DEF onNewMediaPacket
<1>9. CASE ClosePort
  BY <1>9 DEF ClosePort
<1>10. CASE Tick
  BY <1>10, SMTT(90) DEF Tick, Idle
<1>11. CASE UNCHANGED timeoutVars
  BY <1>11 DEF timeoutVars
<1> QED
  BY <1>1, <1>2, <1>3, <1>4, <1>5, <1>6, <1>7, <1>8, <1>9, <1>10, <1>11
     DEF TimeoutNext

\* The invariant of the loop and of SetTimeout, for every behaviour.
THEOREM LoopInvariance == TimeoutSpec => []LoopInv
<1>1. TimeoutInit => LoopInv
  BY MediaTimeoutAssumption, SMTT(90) DEF TimeoutInit, LoopInv, LoopType,
     Sleeps, Decides, Ends, disabledPark
<1> QED
  BY <1>1, LoopStep, PTL DEF TimeoutSpec

-----------------------------------------------------------------------------
(* The properties.                                                          *)

\* A call without media ends in time: time does not pass the end of the
\* silence while mediaTimeoutLoop sleeps, whatever the durations, the packets
\* and the calls of SetTimeout.
THEOREM CallEndsInTime == TimeoutSpec => TimeoutInTime
<1> DEFINE InTime == now' # now /\ start # 0 /\ ~ended /\ ~fired
                       => now < SilenceEnds
<1>1. ASSUME LoopInv, [TimeoutNext]_timeoutVars PROVE [InTime]_timeoutVars
  <2>1. CASE Tick
    BY <1>1, <2>1, SMTT(90) DEF Tick, Idle, LoopInv, LoopType, Sleeps, Ends,
       SilenceEnds
  <2>2. CASE ~Tick
    <3>1. now' = now
      BY <1>1, <2>2
         DEF TimeoutNext, timeoutVars, SetTimeout, storeInitial, storeGeneral,
             storeStart, kickLoop, loopClosed, loopWakes, decideFires, resetTimer,
             onNewMediaPacket, ClosePort
    <3> QED
      BY <3>1
  <2> QED
    BY <2>1, <2>2
<1> QED
  BY <1>1, LoopInvariance, PTL DEF TimeoutSpec, TimeoutInTime

\* The loop has loaded the values in force, or something has torn them.
NotTorn ==
  loop = "decide" /\ ~torn => loaded.start = start /\ loaded.last = last

\* A call with media goes on: the decision of mediaTimeoutLoop is the right one
\* for the values in force, unless a packet or a SetTimeout overtakes it at that
\* very moment.
THEOREM CallIsNotEndedEarly == TimeoutSpec => []NoEarlyTimeout
<1> DEFINE Inv == NotTorn /\ NoEarlyTimeout
<1>1. TimeoutInit => Inv
  BY DEF TimeoutInit, NotTorn, NoEarlyTimeout
<1>2. LoopInv /\ Inv /\ [TimeoutNext]_timeoutVars => Inv'
  <2> SUFFICES ASSUME LoopInv, Inv, [TimeoutNext]_timeoutVars PROVE Inv'
    OBVIOUS
  <2> USE DEF LoopInv, LoopType, NotTorn, NoEarlyTimeout, setVars, loopVars
  <2>1. CASE SetTimeout \/ kickLoop \/ ClosePort \/ Tick
    BY <2>1, SMTT(90) DEF SetTimeout, kickLoop, ClosePort, Tick
  <2>2. CASE storeInitial \/ storeGeneral \/ storeStart
    <3>1. Tears
      BY <2>2 DEF storeInitial, storeGeneral, storeStart
    <3>2. loop' = loop /\ early' = early
      BY <2>2 DEF storeInitial, storeGeneral, storeStart
    <3> QED
      BY <3>1, <3>2 DEF Tears
  <2>3. CASE onNewMediaPacket
    BY <2>3 DEF onNewMediaPacket, Tears
  <2>4. CASE loopClosed \/ resetTimer
    BY <2>4, SMTT(90) DEF loopClosed, resetTimer
  <2>5. CASE loopWakes
    BY <2>5, SMTT(90) DEF loopWakes
  <2>6. CASE decideFires
    <3>1. ASSUME ~Overtaken PROVE now >= SilenceEnds
      <4>1. loaded.start = start /\ loaded.last = last
        BY <2>6, <3>1 DEF decideFires, Overtaken, Decides
      <4> QED
        BY <2>6, <4>1 DEF decideFires, DeadlineOf, SilenceEnds
    <3>2. ~(~Overtaken /\ now < SilenceEnds)
      BY <3>1, SMTT(90) DEF SilenceEnds
    <3> QED
      BY <2>6, <3>2 DEF decideFires
  <2>7. CASE UNCHANGED timeoutVars
    BY <2>7 DEF timeoutVars
  <2> QED
    BY <2>1, <2>2, <2>3, <2>4, <2>5, <2>6, <2>7 DEF TimeoutNext
<1>3. Inv => NoEarlyTimeout
  OBVIOUS
<1> QED
  BY <1>1, <1>2, <1>3, LoopInvariance, PTL DEF TimeoutSpec

-----------------------------------------------------------------------------
(* The port.                                                                *)

Holding == {"build", "stopRTP", "stopDiscard"}   \* with mu held
Closing == {"close", "stopRTP", "stopDiscard"}   \* in Close

\* mu is held by the caller that builds or closes a pipeline.
LockInv ==
  /\ pc \in [Callers -> {"idle", "configure", "build", "close",
                         "stopRTP", "stopDiscard"}]
  /\ mu \in Callers \cup {none}
  /\ \A c \in Callers : mu = c <=> pc[c] \in Holding

\* The fuse lets one caller into Close, and DrainPort runs only after that one
\* has left it; no pipeline is built from then on.
CloserInv ==
  /\ \A c \in Callers : pc[c] \in Closing =>
       /\ closed /\ draining = "off"
       /\ \A d \in Callers : pc[d] \in Closing => d = c
  /\ draining # "off" => closed /\ \A c \in Callers : pc[c] # "build"

\* A pipeline is for what was negotiated, and is built after discardLoop has
\* stopped; the session reads for a pipeline.
PipeInv ==
  /\ negotiated \in MediaConfigs \cup {none}
  /\ receiving => pipeline # none
  /\ pipeline # none =>
       /\ negotiated \in MediaConfigs /\ ~discarding
       /\ pipeline = localSDP /\ negotiated.codec = pipeline
  /\ \A c \in Callers :
       /\ pc[c] = "build" => /\ config \in MediaConfigs /\ out = "nil"
                             /\ negotiated = none
       /\ pc[c] = "stopDiscard" => pipeline = none

IndInv == LockInv /\ CloserInv /\ PipeInv

USE MediaPortAssumption

-----------------------------------------------------------------------------

\* mu changes hands as the callers of configure and Close take and release it.
LEMMA LockStep == LockInv /\ [Next]_vars => LockInv'
<1> SUFFICES ASSUME LockInv, [Next]_vars PROVE LockInv'
  OBVIOUS
<1> USE DEF LockInv, Goto, Holding
<1>f. ASSUME UNCHANGED <<pc, mu>> PROVE LockInv'
  BY <1>f
<1>1. CASE Readers
  <2>1. UNCHANGED <<pc, mu>>
    BY <1>1 DEF Readers, discardRead, discardEnds, receivePacket, receiveEOF,
       receiveFails, DrainPort
  <2> QED BY <2>1, <1>f
<1>2. ASSUME NEW c \in Callers, GenerateOffer(c) PROVE LockInv'
  BY <1>2, <1>f DEF GenerateOffer
<1>3. ASSUME NEW c \in Callers,
             GenerateAnswer(c) \/ ProcessAnswer(c) \/ Close(c)
      PROVE  LockInv'
  BY <1>3 DEF GenerateAnswer, ProcessAnswer, Close
<1>4. ASSUME NEW c \in Callers, configureClosed(c) PROVE LockInv'
  BY <1>4 DEF configureClosed, Return
<1>5. ASSUME NEW c \in Callers, configureAgain(c) PROVE LockInv'
  BY <1>5 DEF configureAgain, Return
<1>6. ASSUME NEW c \in Callers, configureNew(c) PROVE LockInv'
  BY <1>6 DEF configureNew
<1>7. ASSUME NEW c \in Callers, build(c) PROVE LockInv'
  BY <1>7 DEF build, Return
<1>8. ASSUME NEW c \in Callers, buildFails(c) PROVE LockInv'
  BY <1>8 DEF buildFails, Return
<1>9. ASSUME NEW c \in Callers, closePipelineLocked(c) PROVE LockInv'
  BY <1>9 DEF closePipelineLocked
<1>10. ASSUME NEW c \in Callers, closePort(c) PROVE LockInv'
  BY <1>10 DEF closePort
<1>11. ASSUME NEW c \in Callers, closeDrains(c) PROVE LockInv'
  BY <1>11 DEF closeDrains
<1>12. CASE UNCHANGED vars
  BY <1>12, <1>f DEF vars
<1> HIDE DEF LockInv
<1> QED
  BY <1>1, <1>2, <1>3, <1>4, <1>5, <1>6, <1>7, <1>8, <1>9, <1>10, <1>11, <1>12
     DEF Next, Caller

\* The fuse and mu keep a second Close, and a build, out of the way of a Close.
LEMMA CloserStep == LockInv /\ CloserInv /\ [Next]_vars => CloserInv'
<1> SUFFICES ASSUME LockInv, CloserInv, [Next]_vars PROVE CloserInv'
  OBVIOUS
<1> USE DEF LockInv, CloserInv, Goto, Holding, Closing
<1>f. ASSUME closed' = closed, draining' = draining,
             \A c \in Callers :
               /\ pc'[c] \in Closing => pc[c] \in Closing
               /\ pc'[c] = "build" => pc[c] = "build"
      PROVE  CloserInv'
  BY <1>f
<1>1. CASE discardRead \/ discardEnds(TRUE) \/ discardEnds(FALSE)
             \/ receivePacket \/ receiveEOF \/ receiveFails
  <2>1. UNCHANGED <<pc, closed, draining>>
    BY <1>1 DEF discardRead, discardEnds, receivePacket, receiveEOF,
       receiveFails
  <2> QED BY <2>1, <1>f
<1>2. CASE DrainPort
  BY <1>2 DEF DrainPort
<1>3. ASSUME NEW c \in Callers, GenerateOffer(c) PROVE CloserInv'
  BY <1>3, <1>f DEF GenerateOffer, sockVars
<1>4. ASSUME NEW c \in Callers, GenerateAnswer(c) PROVE CloserInv'
  BY <1>4, <1>f DEF GenerateAnswer, sockVars
<1>5. ASSUME NEW c \in Callers, ProcessAnswer(c) PROVE CloserInv'
  BY <1>5, <1>f DEF ProcessAnswer, sockVars
<1>6. ASSUME NEW c \in Callers, configureClosed(c) PROVE CloserInv'
  BY <1>6, <1>f DEF configureClosed, sockVars
<1>7. ASSUME NEW c \in Callers, configureAgain(c) PROVE CloserInv'
  BY <1>7, <1>f DEF configureAgain, sockVars
<1>8. ASSUME NEW c \in Callers, configureNew(c) PROVE CloserInv'
  BY <1>8 DEF configureNew
<1>9. ASSUME NEW c \in Callers, build(c) PROVE CloserInv'
  BY <1>9, <1>f, SMTT(90) DEF build
<1>10. ASSUME NEW c \in Callers, buildFails(c) PROVE CloserInv'
  BY <1>10, <1>f, SMTT(90) DEF buildFails
<1>11. ASSUME NEW c \in Callers, Close(c) PROVE CloserInv'
  BY <1>11 DEF Close, sockVars
<1>12. ASSUME NEW c \in Callers, closePipelineLocked(c) PROVE CloserInv'
  BY <1>12, SMTT(90) DEF closePipelineLocked
<1>13. ASSUME NEW c \in Callers, closePort(c) PROVE CloserInv'
  BY <1>13, SMTT(90) DEF closePort
<1>14. ASSUME NEW c \in Callers, closeDrains(c) PROVE CloserInv'
  BY <1>14, SMTT(90) DEF closeDrains
<1>15. CASE UNCHANGED vars
  BY <1>15, <1>f DEF vars, sockVars
<1> HIDE DEF LockInv, CloserInv
<1> QED
  BY <1>1, <1>2, <1>3, <1>4, <1>5, <1>6, <1>7, <1>8, <1>9, <1>10, <1>11, <1>12,
     <1>13, <1>14, <1>15 DEF Next, Caller, Readers

\* A step leaves the pipeline and the negotiation alone, starts no reader, and
\* lets no caller reach or disturb a build or the end of a Close.
PipeFrame ==
  /\ negotiated' = negotiated /\ pipeline' = pipeline /\ localSDP' = localSDP
  /\ receiving' => receiving
  /\ discarding' => discarding
  /\ \A c \in Callers :
       /\ pc'[c] = "build" => pc[c] = "build" /\ config' = config /\ out' = out
       /\ pc'[c] = "stopDiscard" => pc[c] = "stopDiscard"

\* The callers that wait for mu, and the readers, do not touch the pipeline.
LEMMA PipeFrames ==
  ASSUME LockInv, [Next]_vars
  PROVE  \/ PipeFrame
         \/ \E c \in Callers : \/ configureAgain(c) \/ configureNew(c)
                               \/ build(c) \/ closePort(c)
<1> USE DEF LockInv, Goto, Holding, PipeFrame
<1>1. CASE discardRead \/ DrainPort
  BY <1>1 DEF discardRead, DrainPort, negVars
<1>2. CASE discardEnds(TRUE) \/ discardEnds(FALSE)
  BY <1>2 DEF discardEnds, negVars
<1>3. CASE receivePacket
  BY <1>3 DEF receivePacket, negVars
<1>4. CASE receiveEOF \/ receiveFails
  BY <1>4 DEF receiveEOF, receiveFails, negVars
<1>5. ASSUME NEW c \in Callers, GenerateOffer(c) PROVE PipeFrame
  BY <1>5 DEF GenerateOffer, sockVars
<1>6. ASSUME NEW c \in Callers, GenerateAnswer(c) PROVE PipeFrame
  BY <1>6 DEF GenerateAnswer, sockVars, negVars
<1>7. ASSUME NEW c \in Callers, ProcessAnswer(c) PROVE PipeFrame
  BY <1>7 DEF ProcessAnswer, sockVars, negVars
<1>8. ASSUME NEW c \in Callers, configureClosed(c) PROVE PipeFrame
  BY <1>8 DEF configureClosed, Return, sockVars
<1>9. ASSUME NEW c \in Callers, buildFails(c) PROVE PipeFrame
  BY <1>9 DEF buildFails, Return
<1>10. ASSUME NEW c \in Callers, Close(c) PROVE PipeFrame
  BY <1>10 DEF Close, sockVars, negVars
<1>11. ASSUME NEW c \in Callers, closePipelineLocked(c) PROVE PipeFrame
  BY <1>11 DEF closePipelineLocked, negVars
<1>12. ASSUME NEW c \in Callers, closeDrains(c) PROVE PipeFrame
  BY <1>12 DEF closeDrains, negVars
<1>13. CASE UNCHANGED vars
  BY <1>13 DEF vars, negVars, sockVars
<1> HIDE DEF LockInv, PipeFrame
<1> QED
  BY <1>1, <1>2, <1>3, <1>4, <1>5, <1>6, <1>7, <1>8, <1>9, <1>10, <1>11, <1>12,
     <1>13 DEF Next, Caller, Readers

\* What a re-INVITE leaves of the negotiation: the codec stays the one the
\* pipeline was built for, and an address that is given is the new remote.
LEMMA Renegotiated ==
  ASSUME NEW c, configureAgain(c), negotiated \in MediaConfigs
  PROVE  /\ negotiated' \in MediaConfigs
         /\ negotiated'.codec = negotiated.codec
         /\ negotiated'.remote \in Addrs =>
              \/ dst' = negotiated'.remote
              \/ dst' = dst /\ negotiated'.remote = negotiated.remote
<1>1. PICK mc \in MediaConfigs :
        /\ dst' = ReinviteDst(mc)
        /\ negotiated' = IF "codec" \in ChangeSet(mc)
                         THEN [negotiated EXCEPT !.remote = ReinviteRemote(mc)]
                         ELSE mc
  BY DEF configureAgain, SetDst
<1>2. /\ "codec" \in ChangeSet(mc) <=> negotiated.codec # mc.codec
      /\ "remote" \in ChangeSet(mc) <=> negotiated.remote # mc.remote
  BY DEF ChangeSet, MediaConfigs
<1>3. CASE "codec" \in ChangeSet(mc)
  BY <1>1, <1>2, <1>3 DEF MediaConfigs, Remotes, ReinviteRemote, ReinviteDst
<1>4. CASE "codec" \notin ChangeSet(mc)
  BY <1>1, <1>2, <1>4 DEF MediaConfigs, Remotes, ReinviteDst
<1> QED BY <1>3, <1>4

\* The holder of mu builds for what it negotiated once discardLoop has ended,
\* and takes a pipeline down once its session has.
LEMMA PipeStep == LockInv /\ PipeInv /\ [Next]_vars => PipeInv'
<1> SUFFICES ASSUME LockInv, PipeInv, [Next]_vars PROVE PipeInv'
  OBVIOUS
<1>1. CASE PipeFrame
  BY <1>1 DEF PipeFrame, PipeInv
<1> USE DEF LockInv, PipeInv, Goto, Holding
<1>2. ASSUME NEW c \in Callers, configureAgain(c) PROVE PipeInv'
  <2>1. negotiated \in MediaConfigs
    BY <1>2 DEF configureAgain
  <2>2. negotiated' \in MediaConfigs /\ negotiated'.codec = negotiated.codec
    BY <1>2, <2>1, Renegotiated
  <2>3. \A d \in Callers : pc'[d] # "build" /\ pc'[d] # "stopDiscard"
    BY <1>2 DEF configureAgain
  <2>4. UNCHANGED <<pipeline, localSDP, receiving, discarding>>
    BY <1>2 DEF configureAgain, sockVars
  <2> QED BY <2>2, <2>3, <2>4
<1>3. ASSUME NEW c \in Callers, configureNew(c) PROVE PipeInv'
  BY <1>3 DEF configureNew
<1>4. ASSUME NEW c \in Callers, build(c) PROVE PipeInv'
  <2>1. config \in MediaConfigs /\ config.codec \in Codecs
    BY <1>4 DEF build, MediaConfigs
  <2> QED BY <1>4, <2>1 DEF build, setupInput, setupOutput
<1>5. ASSUME NEW c \in Callers, closePort(c) PROVE PipeInv'
  BY <1>5 DEF closePort
<1> HIDE DEF LockInv, PipeInv
<1> QED BY <1>1, <1>2, <1>3, <1>4, <1>5, PipeFrames

\* Once DrainPort has the socket, nothing of the call comes back: a negotiation
\* that waited for mu finds the fuse broken.
LEMMA FinalStep == IndInv /\ CloseIsFinal /\ [Next]_vars => CloseIsFinal'
<1> SUFFICES ASSUME IndInv, CloseIsFinal, [Next]_vars PROVE CloseIsFinal'
  OBVIOUS
<1> USE DEF IndInv, LockInv, CloserInv, PipeInv, CloseIsFinal, Goto,
       Holding, Closing
<1>f. ASSUME UNCHANGED <<closed, portClosed, pipeline, draining, out>>,
             receiving' => receiving, discarding' => discarding
      PROVE  CloseIsFinal'
  BY <1>f
<1>1. CASE discardRead
  BY <1>1, <1>f DEF discardRead, negVars
<1>2. CASE discardEnds(TRUE) \/ discardEnds(FALSE)
  BY <1>2, <1>f DEF discardEnds, negVars
<1>3. CASE receivePacket
  BY <1>3, <1>f DEF receivePacket, negVars
<1>4. CASE receiveEOF \/ receiveFails
  BY <1>4, <1>f DEF receiveEOF, receiveFails, negVars
<1>5. CASE DrainPort
  BY <1>5 DEF DrainPort, negVars
<1>6. ASSUME NEW c \in Callers, GenerateOffer(c) PROVE CloseIsFinal'
  BY <1>6, <1>f DEF GenerateOffer, sockVars
<1>7. ASSUME NEW c \in Callers, GenerateAnswer(c) PROVE CloseIsFinal'
  BY <1>7, <1>f DEF GenerateAnswer, sockVars, negVars
<1>8. ASSUME NEW c \in Callers, ProcessAnswer(c) PROVE CloseIsFinal'
  BY <1>8, <1>f DEF ProcessAnswer, sockVars, negVars
<1>9. ASSUME NEW c \in Callers, configureClosed(c) PROVE CloseIsFinal'
  BY <1>9, <1>f DEF configureClosed, sockVars
<1>10. ASSUME NEW c \in Callers, configureAgain(c) PROVE CloseIsFinal'
  BY <1>10, <1>f DEF configureAgain, sockVars
<1>11. ASSUME NEW c \in Callers, configureNew(c) PROVE CloseIsFinal'
  BY <1>11 DEF configureNew
<1>12. ASSUME NEW c \in Callers, build(c) PROVE CloseIsFinal'
  BY <1>12 DEF build
<1>13. ASSUME NEW c \in Callers, buildFails(c) PROVE CloseIsFinal'
  BY <1>13 DEF buildFails
<1>14. ASSUME NEW c \in Callers, Close(c) PROVE CloseIsFinal'
  BY <1>14 DEF Close, sockVars, negVars
<1>15. ASSUME NEW c \in Callers, closePipelineLocked(c) PROVE CloseIsFinal'
  BY <1>15 DEF closePipelineLocked
<1>16. ASSUME NEW c \in Callers, closePort(c) PROVE CloseIsFinal'
  BY <1>16 DEF closePort
<1>17. ASSUME NEW c \in Callers, closeDrains(c) PROVE CloseIsFinal'
  BY <1>17 DEF closeDrains, negVars
<1>18. CASE UNCHANGED vars
  BY <1>18, <1>f DEF vars, sockVars, negVars
<1> HIDE DEF IndInv, LockInv, CloserInv, PipeInv, CloseIsFinal
<1> QED
  BY <1>1, <1>2, <1>3, <1>4, <1>5, <1>6, <1>7, <1>8, <1>9, <1>10, <1>11, <1>12,
     <1>13, <1>14, <1>15, <1>16, <1>17, <1>18 DEF Next, Caller, Readers

\* The two halves of MediaFollowsNegotiation that PipeInv does not say: where
\* the writers of the room end, and where the port sends to.
WritersInv ==
  mu = none /\ ~closed => out = IF pipeline = none THEN "nil" ELSE pipeline

DstInv ==
  ~symmetric /\ negotiated # none /\ negotiated.remote \in Addrs
    => dst = negotiated.remote

\* The writers end in the pipeline whenever mu is free: the holder swaps them
\* out, and puts them back or leaves them off with a build that failed.
LEMMA WritersStep == IndInv /\ WritersInv /\ [Next]_vars => WritersInv'
<1> SUFFICES ASSUME LockInv, CloserInv, PipeInv, WritersInv, [Next]_vars
             PROVE  WritersInv'
  BY DEF IndInv
<1>f. ASSUME UNCHANGED <<mu, closed, out, pipeline>> PROVE WritersInv'
  BY <1>f DEF WritersInv
<1>1. CASE Readers
  <2>1. UNCHANGED <<mu, closed, out, pipeline>>
    BY <1>1 DEF Readers, discardRead, discardEnds, receivePacket, receiveEOF,
       receiveFails, DrainPort, negVars
  <2> QED BY <2>1, <1>f
<1>2. ASSUME NEW c \in Callers, GenerateOffer(c) PROVE WritersInv'
  BY <1>2, <1>f DEF GenerateOffer
<1>3. ASSUME NEW c \in Callers, GenerateAnswer(c) PROVE WritersInv'
  BY <1>3, <1>f DEF GenerateAnswer, negVars
<1>4. ASSUME NEW c \in Callers, ProcessAnswer(c) PROVE WritersInv'
  BY <1>4, <1>f DEF ProcessAnswer, negVars
<1>5. ASSUME NEW c \in Callers, configureClosed(c) PROVE WritersInv'
  BY <1>5 DEF configureClosed, WritersInv
<1>6. ASSUME NEW c \in Callers, configureAgain(c) PROVE WritersInv'
  BY <1>6 DEF configureAgain, WritersInv
<1>7. ASSUME NEW c \in Callers, configureNew(c) PROVE WritersInv'
  BY <1>7 DEF configureNew, WritersInv
<1>8. ASSUME NEW c \in Callers, build(c) PROVE WritersInv'
  <2>1. config.codec \in Codecs
    BY <1>8 DEF build, Goto, PipeInv, MediaConfigs
  <2> QED BY <1>8, <2>1 DEF build, setupInput, setupOutput, WritersInv
<1>9. ASSUME NEW c \in Callers, buildFails(c) PROVE WritersInv'
  BY <1>9 DEF buildFails, Goto, PipeInv, WritersInv
<1>10. ASSUME NEW c \in Callers, Close(c) PROVE WritersInv'
  BY <1>10 DEF Close, WritersInv
<1>11. ASSUME NEW c \in Callers, closePipelineLocked(c) PROVE WritersInv'
  BY <1>11 DEF closePipelineLocked, WritersInv
<1>12. ASSUME NEW c \in Callers, closePort(c) PROVE WritersInv'
  BY <1>12 DEF closePort, Goto, LockInv, Holding, WritersInv
<1>13. ASSUME NEW c \in Callers, closeDrains(c) PROVE WritersInv'
  BY <1>13 DEF closeDrains, Goto, CloserInv, Closing, WritersInv
<1>14. CASE UNCHANGED vars
  BY <1>14, <1>f DEF vars, negVars
<1> QED
  BY <1>1, <1>2, <1>3, <1>4, <1>5, <1>6, <1>7, <1>8, <1>9, <1>10, <1>11, <1>12,
     <1>13, <1>14 DEF Next, Caller

\* A port that is not symmetric sends to the remote of the last negotiation,
\* whether it was built for it or a re-INVITE moved it there.
LEMMA DstStep == PipeInv /\ DstInv /\ [Next]_vars => DstInv'
<1> SUFFICES ASSUME PipeInv, DstInv, [Next]_vars PROVE DstInv'
  OBVIOUS
<1>f. ASSUME UNCHANGED <<symmetric, negotiated, dst>> PROVE DstInv'
  BY <1>f DEF DstInv
<1>1. CASE discardRead \/ discardEnds(TRUE) \/ discardEnds(FALSE)
             \/ receiveEOF \/ receiveFails \/ DrainPort
  <2>1. UNCHANGED <<symmetric, negotiated, dst>>
    BY <1>1 DEF discardRead, discardEnds, receiveEOF, receiveFails, DrainPort,
       negVars, dstVars
  <2> QED BY <2>1, <1>f
<1>2. CASE receivePacket
  BY <1>2 DEF receivePacket, negVars, DstInv
<1>3. ASSUME NEW c \in Callers,
             \/ GenerateOffer(c) \/ GenerateAnswer(c) \/ ProcessAnswer(c)
             \/ configureClosed(c) \/ configureNew(c) \/ Close(c)
             \/ closePipelineLocked(c) \/ closePort(c) \/ closeDrains(c)
      PROVE  DstInv'
  <2>1. UNCHANGED <<symmetric, negotiated, dst>>
    BY <1>3 DEF GenerateOffer, GenerateAnswer, ProcessAnswer, configureClosed,
       configureNew, Close, closePipelineLocked, closePort, closeDrains,
       negVars, dstVars
  <2> QED BY <2>1, <1>f
<1>4. ASSUME NEW c \in Callers, configureAgain(c) PROVE DstInv'
  <2>1. /\ negotiated \in MediaConfigs /\ negotiated # none
        /\ symmetric' = symmetric
    BY <1>4 DEF configureAgain, PipeInv
  <2>2. negotiated'.remote \in Addrs =>
          \/ dst' = negotiated'.remote
          \/ dst' = dst /\ negotiated'.remote = negotiated.remote
    BY <1>4, <2>1, Renegotiated
  <2> QED BY <2>1, <2>2 DEF DstInv
<1>5. ASSUME NEW c \in Callers, build(c) PROVE DstInv'
  BY <1>5 DEF build, initPort, DstInv
<1>6. ASSUME NEW c \in Callers, buildFails(c) PROVE DstInv'
  BY <1>6 DEF buildFails, Goto, PipeInv, DstInv
<1>7. CASE UNCHANGED vars
  BY <1>7, <1>f DEF vars, negVars, dstVars
<1> QED
  BY <1>1, <1>2, <1>3, <1>4, <1>5, <1>6, <1>7 DEF Next, Caller, Readers

\* Whoever waits with mu held waits for a reader that was told to stop: rtpLoop
\* by a port that is closed and a deadline in the past, which no other loop
\* moves, and discardLoop by discardStop.
WaitsEnd ==
  \A c \in Callers :
    /\ pc[c] = "stopRTP" /\ receiving => portClosed /\ deadline = "past"
    /\ pc[c] \in {"build", "stopDiscard"} /\ discarding => discardStop

\* The readers change the deadline only when nobody waits for rtpLoop, and the
\* other callers leave the socket alone while mu is held.
LEMMA WaitsStep == LockInv /\ PipeInv /\ WaitsEnd /\ [Next]_vars => WaitsEnd'
<1> SUFFICES ASSUME LockInv, PipeInv, WaitsEnd, [Next]_vars PROVE WaitsEnd'
  OBVIOUS
<1> USE DEF WaitsEnd
<1>f. ASSUME UNCHANGED <<portClosed, deadline, discardStop>>,
             receiving' => receiving, discarding' => discarding,
             \A c \in Callers :
               /\ pc'[c] = "stopRTP" => pc[c] = "stopRTP"
               /\ pc'[c] \in {"build", "stopDiscard"} => pc'[c] = pc[c]
      PROVE  WaitsEnd'
  BY <1>f
<1> USE DEF LockInv, Goto, Holding
<1>1. CASE discardRead
  BY <1>1 DEF discardRead, PipeInv
<1>2. CASE discardEnds(TRUE) \/ discardEnds(FALSE)
  BY <1>2 DEF discardEnds, PipeInv
<1>3. CASE receivePacket
  BY <1>3, <1>f DEF receivePacket
<1>4. CASE receiveEOF \/ receiveFails \/ DrainPort
  BY <1>4, <1>f, SMTT(90) DEF receiveEOF, receiveFails, DrainPort
<1>5. ASSUME NEW c \in Callers, GenerateOffer(c) PROVE WaitsEnd'
  BY <1>5, <1>f DEF GenerateOffer, sockVars
<1>6. ASSUME NEW c \in Callers, GenerateAnswer(c) PROVE WaitsEnd'
  BY <1>6, <1>f DEF GenerateAnswer, sockVars
<1>7. ASSUME NEW c \in Callers, ProcessAnswer(c) PROVE WaitsEnd'
  BY <1>7, <1>f DEF ProcessAnswer, sockVars
<1>8. ASSUME NEW c \in Callers, configureClosed(c) PROVE WaitsEnd'
  BY <1>8, <1>f DEF configureClosed, sockVars
<1>9. ASSUME NEW c \in Callers, configureAgain(c) PROVE WaitsEnd'
  BY <1>9, <1>f DEF configureAgain, sockVars
<1>10. ASSUME NEW c \in Callers, configureNew(c) PROVE WaitsEnd'
  BY <1>10 DEF configureNew
<1>11. ASSUME NEW c \in Callers, build(c) PROVE WaitsEnd'
  BY <1>11 DEF build
<1>12. ASSUME NEW c \in Callers, buildFails(c) PROVE WaitsEnd'
  BY <1>12 DEF buildFails
<1>13. ASSUME NEW c \in Callers, Close(c) PROVE WaitsEnd'
  BY <1>13, <1>f DEF Close, sockVars
<1>14. ASSUME NEW c \in Callers, closePipelineLocked(c) PROVE WaitsEnd'
  BY <1>14 DEF closePipelineLocked, PipeInv
<1>15. ASSUME NEW c \in Callers, closePort(c) PROVE WaitsEnd'
  BY <1>15 DEF closePort
<1>16. ASSUME NEW c \in Callers, closeDrains(c) PROVE WaitsEnd'
  BY <1>16 DEF closeDrains
<1>17. CASE UNCHANGED vars
  BY <1>17, <1>f DEF vars, sockVars
<1> HIDE DEF LockInv, WaitsEnd
<1> QED
  BY <1>1, <1>2, <1>3, <1>4, <1>5, <1>6, <1>7, <1>8, <1>9, <1>10, <1>11, <1>12,
     <1>13, <1>14, <1>15, <1>16, <1>17 DEF Next, Caller, Readers

-----------------------------------------------------------------------------

\* The inductive invariant of the port.
LEMMA PortInductive ==
  Spec => [](IndInv /\ CloseIsFinal /\ WritersInv /\ DstInv)
<1>1. Init => IndInv /\ CloseIsFinal /\ WritersInv /\ DstInv
  BY DEF Init, IndInv, LockInv, CloserInv, PipeInv, CloseIsFinal, WritersInv,
     DstInv, Holding, Closing
<1>2. /\ IndInv /\ CloseIsFinal /\ WritersInv /\ DstInv
      /\ [Next]_vars
      => (IndInv /\ CloseIsFinal /\ WritersInv /\ DstInv)'
  BY LockStep, CloserStep, PipeStep, FinalStep, WritersStep, DstStep DEF IndInv
<1> QED BY <1>1, <1>2, PTL DEF Spec

\* The socket of a call has one reader: discardLoop, the RTP session and
\* DrainPort follow each other, whatever negotiations and Close do meanwhile.
THEOREM OneReaderAtATime == Spec => []OneReader
<1>1. IndInv /\ CloseIsFinal => OneReader
  BY DEF IndInv, PipeInv, CloseIsFinal, OneReader
<1> QED BY <1>1, PortInductive, PTL

\* What a call sends agrees with p.negotiated: the writers of the room, the
\* pipeline and the local SDP with its codec and the destination with its
\* address, through configure, its failures and re-INVITEs, of which only the
\* address is taken over, for any number of callers.
THEOREM MediaIsNegotiated == Spec => []MediaFollowsNegotiation
<1>1. IndInv /\ WritersInv /\ DstInv => MediaFollowsNegotiation
  BY DEF IndInv, PipeInv, WritersInv, DstInv, MediaFollowsNegotiation
<1> QED BY <1>1, PortInductive, PTL

\* Close of a media port is final: a configure that waits for mu, or that was
\* building when the fuse broke, brings nothing back to life.
THEOREM ClosedForGood == Spec => []CloseIsFinal
BY PortInductive, PTL

\* Close and configure do not wait for a reader that was not told to stop: what
\* holds mu up is a loop that discardStop, or the deadline of the closed port,
\* is about to end.
THEOREM ReadersAreStopped == Spec => []WaitsEnd
<1>1. Init => WaitsEnd
  BY DEF Init, WaitsEnd
<1>2. IndInv /\ WaitsEnd /\ [Next]_vars => WaitsEnd'
  BY WaitsStep DEF IndInv
<1> QED BY <1>1, <1>2, PortInductive, PTL DEF Spec

-----------------------------------------------------------------------------
(* Types.                                                                   *)

confOK == config \in MediaConfigs \cup {none} /\ answering \subseteq Callers
sdpOK ==
  /\ pipeline \in Codecs \cup {none} /\ localSDP \in Codecs \cup {none}
  /\ out \in Codecs \cup {"nil", "closed"}
callFlags == closed \in BOOLEAN /\ offer \in BOOLEAN /\ armed \in BOOLEAN
portFlags ==
  portClosed \in BOOLEAN /\ discardStop \in BOOLEAN /\ symmetric \in BOOLEAN
loopOK ==
  /\ discarding \in BOOLEAN /\ receiving \in BOOLEAN
  /\ draining \in {"off", "on", "done"}
  /\ deadline \in {"clear", "frame", "past"}
dstOK == dst \in Remotes \cup {none}

\* Each step gives the variables it assigns one of their values; what is built
\* is built for the MediaConfig the caller negotiated.
LEMMA PortTypeStep ==
  ASSUME PipeInv, [Next]_vars
  PROVE  /\ confOK => confOK'
         /\ sdpOK => sdpOK'
         /\ callFlags => callFlags'
         /\ portFlags => portFlags'
         /\ loopOK => loopOK'
         /\ dstOK => dstOK'
<1> USE DEF negVars, sockVars, dstVars
<1>1. CASE Readers \/ UNCHANGED vars
  <2> USE <1>1 DEF Readers, discardRead, discardEnds, receivePacket,
          receiveEOF, receiveFails, DrainPort, vars
  <2>1. (confOK => confOK') /\ (sdpOK => sdpOK')
    BY DEF confOK, sdpOK
  <2>2. (callFlags => callFlags') /\ (portFlags => portFlags')
    BY DEF callFlags, portFlags
  <2>3. loopOK => loopOK'
    BY DEF loopOK
  <2>4. dstOK => dstOK'
    BY DEF dstOK, Remotes
  <2> QED BY <2>1, <2>2, <2>3, <2>4
<1>2. ASSUME NEW c \in Callers, Caller(c)
      PROVE  /\ (confOK => confOK') /\ (sdpOK => sdpOK')
             /\ (callFlags => callFlags') /\ (portFlags => portFlags')
             /\ (loopOK => loopOK') /\ (dstOK => dstOK')
  <2>b. build(c) \/ buildFails(c)
          => config.codec \in Codecs /\ config.remote \in Remotes
    BY DEF build, buildFails, Goto, PipeInv, MediaConfigs
  <2> USE <1>2 DEF Caller, GenerateOffer, GenerateAnswer, ProcessAnswer,
          configureClosed, configureAgain, configureNew, build, buildFails,
          Close, closePipelineLocked, closePort, closeDrains, Return
  <2>1. confOK => confOK'
    BY DEF confOK
  <2>2. sdpOK => sdpOK'
    BY <2>b DEF sdpOK, setupInput, setupOutput
  <2>3. callFlags => callFlags'
    BY DEF callFlags
  <2>4. portFlags => portFlags'
    BY DEF portFlags, initPort
  <2>5. loopOK => loopOK'
    BY DEF loopOK, setupOutput
  <2>6. dstOK => dstOK'
    BY <2>b DEF dstOK, initPort, SetDst, ReinviteDst, Remotes
  <2> QED BY <2>1, <2>2, <2>3, <2>4, <2>5, <2>6
<1> QED BY <1>1, <1>2 DEF Next

\* The variables of a media port have their types, for any number of callers
\* and any codecs and addresses: configure never builds for less than a whole
\* MediaConfig, and the destination is an address the peer gave or used.
THEOREM PortTypeCorrect == Spec => []TypeOK
<1> DEFINE rest == /\ confOK /\ sdpOK /\ callFlags /\ portFlags /\ loopOK
                   /\ dstOK
<1>1. Init => rest
  BY DEF Init, confOK, sdpOK, callFlags, portFlags, loopOK, dstOK
<1>2. IndInv /\ rest /\ [Next]_vars => rest'
  BY PortTypeStep DEF IndInv
<1>3. IndInv /\ rest => TypeOK
  BY DEF IndInv, LockInv, PipeInv, TypeOK, confOK, sdpOK, callFlags,
     portFlags, loopOK, dstOK
<1> HIDE DEF rest
<1> QED BY <1>1, <1>2, <1>3, PortInductive, PTL DEF Spec
============================================================================
