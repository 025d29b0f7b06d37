-------------------------- MODULE SipInboundProofs --------------------------
(***************************************************************************)
(* Proofs about SipInbound for every INVITE CSeq, every number of          *)
(* repetitions of the 200 OK and every number of REFER and ACK requests.   *)
(* SipInv is inductive; the invariants and the action properties of the    *)
(* object follow from it.                                                  *)
(***************************************************************************)
EXTENDS SipInbound, TLAPS

\* Zenon proves a leaf unless the leaf names SMT.  Most need a fraction of a
\* second; the limits leave room for a slow machine.
USE ZenonT(90)

\* A new object for an INVITE satisfies the invariant.
LEMMA SipInitInv == SipInit => SipInv
  <1> SUFFICES ASSUME SipInit PROVE SipInv
    OBVIOUS
  <1>1. SipFlagsOK
    BY DEF SipInit, SipFlagsOK, legFlags, ringFlags, ackFlags, accFlags,
       okFlags, endFlags
  <1>2. SipValuesOK
    BY SipInboundAssumption, SMTT(90) DEF SipInit, SipValuesOK, Reject
  <1>3. QED
    BY <1>1, <1>2, SipInboundAssumption, SMTT(90) DEF SipInit, SipInv,
       SipTypeOK, LegShape, OneFinalAnswer, RingingStops, ByeOnlyWhenAnswered,
       StatusIsAnswer, AckIsForAnswer

\* Flags stay flags.  (The SMT backend does not tell a Boolean value from a
\* formula, so these are Zenon's, one group of flags at a time.)
LEMMA SipFlagsStep == SipFlagsOK /\ [SipNext]_sipVars => SipFlagsOK'
  <1> SUFFICES ASSUME SipFlagsOK, [SipNext]_sipVars PROVE SipFlagsOK'
    OBVIOUS
  <1>1. CASE SipNext
    <2> USE <1>1 DEF SipFlagsOK, SipNext, StartRinging, CancelArrives,
            RingerCancelled, RingerStopped, Drop, RespondAndDrop,
            AcceptBegins, AcceptWriteFails, AcceptWriteAndWait,
            AcceptWriteAndReturn, AcceptAcked, AcceptRetry, AcceptGivesUp,
            TxAckArrives, AcceptAck, AckReport, AcceptBye, newReferReq,
            SendBye, SendByeAgain, SendByeReturns, SendStatus, CloseDropped
    <2>1. legFlags'
      BY DEF legFlags, legVars, drop, accepted
    <2>2. ringFlags'
      BY DEF ringFlags, ringVars, drop, stopRinging
    <2>3. ackFlags'
      BY DEF ackFlags, ackVars
    <2>4. accFlags'
      BY DEF accFlags, accVars, okWritten
    <2>5. okFlags'
      BY DEF okFlags, okVars, okWritten
    <2>6. endFlags'
      BY DEF endFlags, byeVars
    <2>7. QED
      BY <2>1, <2>2, <2>3, <2>4, <2>5, <2>6 DEF SipFlagsOK
  <1>2. CASE UNCHANGED sipVars
    BY <1>2, SMTT(90) DEF SipFlagsOK, legFlags, ringFlags, ackFlags, accFlags,
       okFlags, endFlags, sipVars, legVars, ringVars, ackVars, accVars, okVars,
       byeVars
  <1>3. QED
    BY <1>1, <1>2

\* Every method, called at any time the lock allows, keeps the invariant.
LEMMA SipStepInv == SipInv /\ [SipNext]_sipVars => SipInv'
  <1> SUFFICES ASSUME SipInv, [SipNext]_sipVars PROVE SipInv'
    OBVIOUS
  <1>f. SipFlagsOK /\ SipFlagsOK'
    BY SipFlagsStep DEF SipInv, SipTypeOK
  <1> USE <1>f, SipInboundAssumption
      DEF SipInv, SipTypeOK, SipFlagsOK, legFlags, ringFlags, ackFlags,
          accFlags, okFlags, endFlags, SipValuesOK, LegShape,
          OneFinalAnswer, ByeOnlyWhenAnswered, StatusIsAnswer, RingingStops,
          AckIsForAnswer, Reject,
          legVars, ringVars, ackVars, accVars, byeVars, okVars, endVars
  <1>1. CASE StartRinging
    BY <1>1, SMTT(90) DEF StartRinging
  <1>2. CASE CancelArrives
    BY <1>2, SMTT(90) DEF CancelArrives
  <1>3. CASE RingerCancelled
    BY <1>3, SMTT(90) DEF RingerCancelled
  <1>4. CASE RingerStopped
    BY <1>4, SMTT(90) DEF RingerStopped
  <1>5. CASE Drop
    BY <1>5, SMTT(90) DEF Drop, drop, stopRinging
  <1>6. CASE RespondAndDrop
    BY <1>6, SMTT(90) DEF RespondAndDrop, respond, setLastStatus, drop,
       stopRinging
  <1>7. ASSUME NEW wait \in BOOLEAN, AcceptBegins(wait) PROVE SipInv'
    <2>1. SipValuesOK'
      BY <1>7, SMTT(90) DEF AcceptBegins, stopRinging
    <2>2. (LegShape /\ OneFinalAnswer /\ ByeOnlyWhenAnswered)'
      BY <1>7, SMTT(90) DEF AcceptBegins, stopRinging
    <2>3. (StatusIsAnswer /\ RingingStops /\ AckIsForAnswer)'
      BY <1>7, SMTT(90) DEF AcceptBegins, stopRinging
    <2>4. QED
      BY <2>1, <2>2, <2>3, <1>7, SMTT(90) DEF AcceptBegins, stopRinging
  <1>8. CASE AcceptWriteFails
    <2>1. SipValuesOK'
      BY <1>8, SMTT(90) DEF AcceptWriteFails
    <2>2. CASE try > 1
      BY <1>8, <2>1, <2>2 DEF AcceptWriteFails
    <2>3. CASE ~(try > 1)
      BY <1>8, <2>1, <2>3 DEF AcceptWriteFails
    <2>4. QED
      BY <2>2, <2>3, SMTT(90)
  <1>9. CASE AcceptWriteAndWait
    <2>1. SipValuesOK'
      BY <1>9, SMTT(90) DEF AcceptWriteAndWait, okWritten, setLastStatus
    <2>2. (LegShape /\ OneFinalAnswer /\ ByeOnlyWhenAnswered)'
      BY <1>9, SMTT(90) DEF AcceptWriteAndWait, okWritten, setLastStatus
    <2>3. (StatusIsAnswer /\ RingingStops /\ AckIsForAnswer)'
      BY <1>9, SMTT(90) DEF AcceptWriteAndWait, okWritten, setLastStatus
    <2>4. QED
      BY <2>1, <2>2, <2>3, <1>9, SMTT(90)
         DEF AcceptWriteAndWait, okWritten, setLastStatus
  <1>10. CASE AcceptWriteAndReturn
    <2>1. SipValuesOK'
      BY <1>10, SMTT(90) DEF AcceptWriteAndReturn, okWritten, setLastStatus,
         accepted
    <2>2. (LegShape /\ OneFinalAnswer /\ ByeOnlyWhenAnswered)'
      BY <1>10, SMTT(90) DEF AcceptWriteAndReturn, okWritten, setLastStatus,
         accepted
    <2>3. (StatusIsAnswer /\ RingingStops /\ AckIsForAnswer)'
      BY <1>10, SMTT(90) DEF AcceptWriteAndReturn, okWritten, setLastStatus,
         accepted
    <2>4. QED
      BY <2>1, <2>2, <2>3, <1>10, SMTT(90)
         DEF AcceptWriteAndReturn, okWritten, setLastStatus, accepted
  <1>11. CASE AcceptAcked
    BY <1>11, SMTT(90) DEF AcceptAcked, accepted
  <1>12. CASE AcceptRetry
    <2>1. SipValuesOK'
      BY <1>12, SMTT(90) DEF AcceptRetry, maxRetries
    <2>2. (LegShape /\ OneFinalAnswer /\ ByeOnlyWhenAnswered)'
      BY <1>12, SMTT(90) DEF AcceptRetry, maxRetries
    <2>3. (StatusIsAnswer /\ RingingStops /\ AckIsForAnswer)'
      BY <1>12, SMTT(90) DEF AcceptRetry, maxRetries
    <2>4. QED
      BY <2>1, <2>2, <2>3, <1>12, SMTT(90) DEF AcceptRetry, maxRetries
  <1>13. CASE AcceptGivesUp
    BY <1>13, SMTT(90) DEF AcceptGivesUp, accepted
  <1>14. CASE TxAckArrives
    BY <1>14, SMTT(90) DEF TxAckArrives
  <1>15. CASE AcceptAck
    BY <1>15, SMTT(90) DEF AcceptAck
  <1>16. CASE AckReport
    BY <1>16, SMTT(90) DEF AckReport
  <1>17. CASE AcceptBye
    BY <1>17, SMTT(90) DEF AcceptBye, drop, stopRinging
  <1>18. CASE newReferReq
    BY <1>18, SMTT(90) DEF newReferReq, setCSeq
  <1>19. CASE SendBye
    <2>1. SipValuesOK'
      BY <1>19, SMTT(90) DEF SendBye, setCSeq, drop, stopRinging
    <2>2. (LegShape /\ OneFinalAnswer /\ ByeOnlyWhenAnswered)'
      BY <1>19, SMTT(90) DEF SendBye, setCSeq, drop, stopRinging
    <2>3. (StatusIsAnswer /\ RingingStops /\ AckIsForAnswer)'
      BY <1>19, SMTT(90) DEF SendBye, setCSeq, drop, stopRinging
    <2>4. QED
      BY <2>1, <2>2, <2>3, <1>19, SMTT(90)
         DEF SendBye, setCSeq, drop, stopRinging
  <1>20. CASE SendByeAgain
    BY <1>20, SMTT(90) DEF SendByeAgain
  <1>21. CASE SendByeReturns
    BY <1>21, SMTT(90) DEF SendByeReturns
  <1>22. CASE SendStatus
    BY <1>22, SMTT(90) DEF SendStatus, respond, setLastStatus, drop,
       stopRinging
  <1>23. CASE CloseDropped
    BY <1>23, SMTT(90) DEF CloseDropped, drop, stopRinging
  <1>24. CASE UNCHANGED sipVars
    BY <1>24, SMTT(90) DEF sipVars
  <1> HIDE DEF SipInv, SipTypeOK, SipFlagsOK, legFlags, ringFlags, ackFlags,
          accFlags, okFlags, endFlags, SipValuesOK, LegShape,
          OneFinalAnswer, ByeOnlyWhenAnswered, StatusIsAnswer, RingingStops,
          AckIsForAnswer, Reject,
          legVars, ringVars, ackVars, accVars, byeVars, okVars, endVars
  <1>25. QED
    BY <1>1, <1>2, <1>3, <1>4, <1>5, <1>6, <1>7, <1>8, <1>9, <1>10, <1>11,
       <1>12, <1>13, <1>14, <1>15, <1>16, <1>17, <1>18, <1>19, <1>20,
       <1>21, <1>22, <1>23, <1>24 DEF SipNext

\* The object of one inbound INVITE keeps SipInv under any sequence of calls.
THEOREM SipInvariance == SipSpec => []SipInv
  BY SipInitInv, SipStepInv, PTL DEF SipSpec

\* Its variables keep their types.
THEOREM SipTypeCorrect == SipSpec => []SipTypeOK
  <1>1. SipInv => SipTypeOK
    BY DEF SipInv
  <1>2. QED
    BY <1>1, SipInvariance, PTL

\* One INVITE gets one final answer (respond, Accept, sendStatus), unless a
\* repeated 200 OK could not be written.
THEOREM OneAnswerPerInvite == SipSpec => []OneFinalAnswer
  <1>1. SipInv => OneFinalAnswer
    BY DEF SipInv
  <1>2. QED
    BY <1>1, SipInvariance, PTL

\* sendBye hangs up once, and only an answered call.
THEOREM ByeIsForAnswered == SipSpec => []ByeOnlyWhenAnswered
  <1>1. SipInv => ByeOnlyWhenAnswered
    BY DEF SipInv
  <1>2. QED
    BY <1>1, SipInvariance, PTL

\* setLastStatus: the reported status is 200 exactly when a 200 was written.
THEOREM StatusReportsAnswer == SipSpec => []StatusIsAnswer
  <1>1. SipInv => StatusIsAnswer
    BY DEF SipInv
  <1>2. QED
    BY <1>1, SipInvariance, PTL

\* stopRinging: the ringing goroutine has been told to stop once the INVITE has
\* its final answer or was dropped.
THEOREM RingingEnds == SipSpec => []RingingStops
  <1>1. SipInv => RingingStops
    BY DEF SipInv
  <1>2. QED
    BY <1>1, SipInvariance, PTL

\* AcceptAck and okSending: an ACK is reported only for an INVITE that Accept
\* has begun to answer.
THEOREM AckReportsAnswer == SipSpec => []AckIsForAnswer
  <1>1. SipInv => AckIsForAnswer
    BY DEF SipInv
  <1>2. QED
    BY <1>1, SipInvariance, PTL

\* okSending is true whenever a 200 OK is out or is being written.
LEMMA SendingStep == SipInv /\ SendingInv /\ [SipNext]_sipVars => SendingInv'
  <1> SUFFICES ASSUME SipInv, SendingInv, SipNext \/ UNCHANGED sipVars
               PROVE  SendingInv'
    OBVIOUS
  <1> USE DEF SendingInv
  <1>1. CASE AcceptWriteFails
    <2>1. lock = "accept" /\ writing => (answered <=> try > 1)
      BY DEF SipInv
    <2>2. try = 1 => ~(try > 1)
      BY SMTT(90)
    <2>3. QED
      BY <1>1, <2>1, <2>2 DEF AcceptWriteFails
  <1>2. CASE \/ AcceptWriteAndWait \/ AcceptWriteAndReturn \/ AcceptAcked
             \/ AcceptRetry \/ AcceptGivesUp
             \/ \E wait \in BOOLEAN : AcceptBegins(wait)
    BY <1>2 DEF AcceptWriteAndWait, AcceptWriteAndReturn, okWritten, AcceptAcked,
       AcceptRetry, AcceptGivesUp, AcceptBegins, okVars
  <1>3. CASE SendBye \/ SendByeAgain \/ SendByeReturns
    BY <1>3 DEF SendBye, SendByeAgain, SendByeReturns, okVars
  <1>4. CASE \/ UNCHANGED sipVars
             \/ StartRinging \/ CancelArrives \/ RingerCancelled
             \/ RingerStopped \/ Drop \/ RespondAndDrop \/ TxAckArrives
             \/ AcceptAck \/ AckReport \/ AcceptBye \/ newReferReq
             \/ SendStatus \/ CloseDropped
    BY <1>4 DEF sipVars, StartRinging, CancelArrives, RingerCancelled,
       RingerStopped, Drop, RespondAndDrop, TxAckArrives, AcceptAck, AckReport,
       AcceptBye, newReferReq, SendStatus, CloseDropped, okVars, accVars
  <1>5. QED
    BY <1>1, <1>2, <1>3, <1>4 DEF SipNext

\* AcceptAck reports an ACK that is handled once a 200 OK is out, and none that
\* is handled before Accept.
THEOREM AckIsReported == SipSpec => AckFollowsAnswer
  <1>1. SipInit => SendingInv
    BY DEF SipInit, SendingInv
  <1>2. SipInv /\ SendingInv /\ [SipNext]_sipVars
          => [acking' < acking => /\ answered => ackReported'
                                  /\ ackReported' => acceptCalled]_sipVars
    <2> SUFFICES ASSUME SipInv, SendingInv, SipNext, acking' < acking
                 PROVE  /\ answered => ackReported'
                        /\ ackReported' => acceptCalled
      OBVIOUS
    <2>1. acking' # acking
      BY SMTT(90) DEF SipInv, SipTypeOK, SipValuesOK
    <2>2. AckReport \/ AcceptAck
      BY <2>1 DEF SipNext, ackVars, StartRinging, CancelArrives,
         RingerCancelled, RingerStopped, Drop, RespondAndDrop, AcceptBegins,
         AcceptWriteFails, AcceptWriteAndWait, AcceptWriteAndReturn,
         AcceptAcked, AcceptRetry, AcceptGivesUp, TxAckArrives, AcceptBye,
         newReferReq, SendBye, SendByeAgain, SendByeReturns, SendStatus,
         CloseDropped
    <2>3. ~AcceptAck
      BY SMTT(90) DEF AcceptAck, SipInv, SipTypeOK, SipValuesOK
    <2>4. AckReport
      BY <2>2, <2>3
    <2>5. QED
      BY <2>4 DEF AckReport, SendingInv, SipInv, AckIsForAnswer
  <1>3. QED
    BY <1>1, <1>2, SendingStep, SipInvariance, PTL DEF SipSpec, AckFollowsAnswer

\* sendBye sends nothing after AcceptBye: the BYE finds the dialog dropped.
THEOREM PeerByeIsFinal == SipSpec => NoByeAfterPeerBye
  <1>1. SipInv /\ [SipNext]_sipVars => [byes' > byes => ~byeAccepted]_sipVars
    <2> SUFFICES ASSUME SipInv, SipNext, byes' > byes PROVE ~byeAccepted
      OBVIOUS
    <2>1. byes' # byes
      BY SMTT(90) DEF SipInv, SipTypeOK, SipValuesOK
    <2>2. SendBye
      BY <2>1 DEF SipNext, byeVars, StartRinging, CancelArrives,
         RingerCancelled, RingerStopped, Drop, RespondAndDrop, AcceptBegins,
         AcceptWriteFails, AcceptWriteAndWait, AcceptWriteAndReturn,
         AcceptAcked, AcceptRetry, AcceptGivesUp, TxAckArrives, AcceptAck,
         AckReport, AcceptBye, newReferReq, SendByeAgain, SendByeReturns,
         SendStatus, CloseDropped
    <2>3. QED
      BY <2>2 DEF SendBye, SipInv
  <1>2. QED
    BY <1>1, SipInvariance, PTL DEF SipSpec, NoByeAfterPeerBye

\* setCSeq and the repeated BYE never use a CSeq twice nor go back.
THEOREM RequestsAreOrdered == SipSpec => CSeqIncreases
  <1>1. SipInv /\ [SipNext]_sipVars
          => [refers' # refers \/ byes' # byes
                \/ (lock = "bye" /\ lock' = "byeRetry")
              => lastCSeq' > lastCSeq]_sipVars
    <2> SUFFICES ASSUME SipInv, SipNext,
                        refers' # refers \/ byes' # byes
                          \/ (lock = "bye" /\ lock' = "byeRetry")
                 PROVE  lastCSeq' > lastCSeq
      OBVIOUS
    <2>1. newReferReq \/ SendBye \/ SendByeAgain
      BY DEF SipNext, accVars, byeVars, StartRinging, CancelArrives,
         RingerCancelled, RingerStopped, Drop, RespondAndDrop, AcceptBegins,
         AcceptWriteFails, AcceptWriteAndWait, AcceptWriteAndReturn,
         AcceptAcked, AcceptRetry, AcceptGivesUp, TxAckArrives, AcceptAck,
         AckReport, AcceptBye, SendByeReturns, SendStatus, CloseDropped
    <2>2. QED
      BY <2>1, SMTT(90) DEF newReferReq, SendBye, SendByeAgain, setCSeq,
         SipInv, SipTypeOK, SipValuesOK
  <1>2. QED
    BY <1>1, SipInvariance, PTL DEF SipSpec, CSeqIncreases
=============================================================================
