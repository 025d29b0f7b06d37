----------------------- MODULE ColdTransferRefinement -----------------------
(***************************************************************************)
(* Proofs about ColdTransfer, continued: what follows from the invariant   *)
(* of ColdTransferProofs.  ColdTransfer implements TransferRequests, the   *)
(* gauges of the monitor and the call state balance, and the audio of the  *)
(* room comes back.                                                        *)
(***************************************************************************)
EXTENDS ColdTransferProofs, FiniteSetTheorems

\* Zenon proves a leaf unless the leaf names SMT.  Most need a fraction of a
\* second; the limits leave room for a slow machine.
USE ZenonT(90)

-----------------------------------------------------------------------------
(* The refinement of TransferRequests.                                      *)

\* A step of the transfer is a step of TransferRequests or changes nothing
\* there: SendDone settles the outcome, a receive answers with it.
LEMMA RefinementStep == IInv /\ [Next]_vars => [Requests!Next]_(Requests!vars)
<1> SUFFICES ASSUME IInv, [Next]_vars PROVE [Requests!Next]_(Requests!vars)
  OBVIOUS
<1> USE DEF IInv, TypeInv, RpcType, PendType, WorkerType, WorkerStates,
       Settled, Outcomes
<1> DEFINE begun == {t \in Reqs : wpc[t] # "off"}
           outcome == [t \in Reqs |->
                         IF wpc[t] \in Settled THEN result[t] ELSE none]
<1>0. ASSUME UNCHANGED <<to, joined, reply>>, begun' = begun, outcome' = outcome
      PROVE  UNCHANGED Requests!vars
  BY <1>0 DEF Requests!vars
<1>1. ASSUME NEW r \in Reqs, CheckProvider(r)
      PROVE  [Requests!Next]_(Requests!vars)
  <2>1. UNCHANGED <<to, joined, wpc, result>>
    BY <1>1 DEF CheckProvider, wrkVars
  <2>2. CASE Return(r, "refused")
    <3>1. Requests!Refuse(r)
      BY <1>1, <2>1, <2>2
         DEF CheckProvider, Return, ReqInv, Requests!Refuse, Requests!Fresh
    <3> QED
      BY <3>1 DEF Requests!Next
  <2>3. CASE UNCHANGED reply
    BY <1>0, <2>1, <2>3
  <2> QED
    BY <1>1, <2>2, <2>3 DEF CheckProvider
<1>2. ASSUME NEW r \in Reqs, getOrCreatePendingTransfer(r)
      PROVE  [Requests!Next]_(Requests!vars)
  <2>1. UNCHANGED <<to, result>>
    BY <1>2 DEF getOrCreatePendingTransfer
  <2>2. Requests!Fresh(r) /\ wpc[r] = "off"
    BY <1>2 DEF getOrCreatePendingTransfer, ReqInv, Requests!Fresh
  <2>3. \A t \in Reqs : t \in Requests!Running => pending = t
    BY ColdTransferAssumption DEF Requests!Running, PendInv, OutInv
  <2>4. CASE pending = none
    <3>1. Requests!Running = {}
      BY <2>3, <2>4, NoneIsNoRequest DEF Requests!Running
    <3>2. begun' = begun \cup {r} /\ outcome' = outcome
      BY <1>2, <2>1, <2>2, <2>4, SMTT(90) DEF getOrCreatePendingTransfer
    <3>3. joined' = [joined EXCEPT ![r] = r] /\ UNCHANGED reply
      BY <1>2, <2>4 DEF getOrCreatePendingTransfer
    <3>4. Requests!Begin(r)
      BY <2>1, <2>2, <3>1, <3>2, <3>3 DEF Requests!Begin
    <3> QED
      BY <3>4 DEF Requests!Next
  <2>5. CASE pending # none /\ to[pending] = to[r]
    <3>1. /\ pending \in Reqs /\ wpc[pending] # "off"
          /\ Requests!Running \subseteq {pending}
      BY <2>3, <2>5 DEF PendInv, Requests!Running
    <3>2. UNCHANGED <<wpc, reply>> /\ joined' = [joined EXCEPT ![r] = pending]
      BY <1>2, <2>5 DEF getOrCreatePendingTransfer
    <3>3. Requests!Join(r, pending)
      BY <2>1, <2>2, <2>5, <3>1, <3>2 DEF Requests!Join
    <3> QED
      BY <3>1, <3>3 DEF Requests!Next
  <2>6. CASE pending # none /\ to[pending] # to[r]
    <3>1. pending \in Reqs /\ wpc[pending] # "off"
      BY <2>6 DEF PendInv
    <3>2. UNCHANGED <<wpc, joined>> /\ reply' = [reply EXCEPT ![r] = "elsewhere"]
      BY <1>2, <2>6 DEF getOrCreatePendingTransfer, Return
    <3>3. Requests!Refuse(r)
      BY <2>1, <2>2, <2>6, <3>1, <3>2 DEF Requests!Refuse
    <3> QED
      BY <3>3 DEF Requests!Next
  <2> QED
    BY <2>4, <2>5, <2>6
<1>3. ASSUME NEW r \in Reqs, ReceiveDone(r)
      PROVE  [Requests!Next]_(Requests!vars)
  <2>1. UNCHANGED <<to, joined, wpc, result>>
    BY <1>3 DEF ReceiveDone, wrkVars
  <2>2. joined[r] \in Reqs /\ reply[r] = none
    BY <1>3 DEF ReceiveDone, ReqInv
  <2>3. /\ wpc[joined[r]] \in Settled
        /\ result[joined[r]] \in Outcomes
        /\ reply' = [reply EXCEPT ![r] = result[joined[r]]]
    BY <1>3, <2>2, ColdTransferAssumption DEF ReceiveDone, Return, OutInv
  <2>4. Requests!Answer(r)
    BY <2>1, <2>2, <2>3, NoneIsNoRequest, ColdTransferAssumption
       DEF Requests!Answer
  <2> QED
    BY <2>4 DEF Requests!Next
<1>4. ASSUME NEW r \in Reqs, RPCCanceled(r)
      PROVE  [Requests!Next]_(Requests!vars)
  <2>1. Requests!GiveUp(r)
    BY <1>4, NoneIsNoRequest
       DEF RPCCanceled, Return, ReqInv, wrkVars, Requests!GiveUp
  <2> QED
    BY <2>1 DEF Requests!Next
<1>5. ASSUME NEW r \in Reqs, SendDone(r)
      PROVE  [Requests!Next]_(Requests!vars)
  <2>1. UNCHANGED <<to, joined, reply, result>> /\ Move(r, "send", "store")
    BY <1>5 DEF SendDone, rpcVars
  <2>2. begun' = begun /\ result[r] \in Outcomes
    BY <2>1 DEF Move, OutInv
  <2>3. outcome' = [outcome EXCEPT ![r] = result[r]]
    BY <2>1 DEF Move
  <2>4. r \in Requests!Running
    BY <2>1 DEF Move, Requests!Running
  <2>5. Requests!Finish(r)
    BY <2>1, <2>2, <2>3, <2>4 DEF Requests!Finish
  <2> QED
    BY <2>5 DEF Requests!Next
<1>6. ASSUME NEW r \in Reqs,
        processParticipantTransfer(r)
      PROVE  [Requests!Next]_(Requests!vars)
  BY <1>0, <1>6, SMTT(90) DEF processParticipantTransfer, Move, rpcVars,
     wrkVars
<1>7. ASSUME NEW r \in Reqs,
        newReferReq(r) \/ sendRefer(r) \/ RingingTimeout(r) \/ CallDone(r)
           \/ GraceOver(r)
      PROVE  [Requests!Next]_(Requests!vars)
  BY <1>0, <1>7, SMTT(90) DEF newReferReq, Move, sendRefer, Ends,
     RingingTimeout, CallDone, GraceOver, rpcVars, wrkVars
<1>8. ASSUME NEW r \in Reqs,
        transferCallReturns(r)
      PROVE  [Requests!Next]_(Requests!vars)
  BY <1>0, <1>8 DEF transferCallReturns, Move, rpcVars, wrkVars
<1>9. ASSUME NEW r \in Reqs,
        StoreOutcome(r) \/ CloseDone(r) \/ DeletePending(r)
      PROVE  [Requests!Next]_(Requests!vars)
  BY <1>0, <1>9, SMTT(90) DEF StoreOutcome, Move, CloseDone, DeletePending,
     rpcVars, wrkVars
<1>10. ASSUME NEW n \in Notifies,
        handleReferNotify(n) \/ NotifyRefused(n) \/ NotifyTimeout(n)
      PROVE  [Requests!Next]_(Requests!vars)
  BY <1>0, <1>10 DEF handleReferNotify, NotifyRefused, NotifyTimeout,
     rpcVars, wrkVars
<1>11. ASSUME NEW n \in Notifies, NEW t \in Reqs,
        ReferDone(n, t)
      PROVE  [Requests!Next]_(Requests!vars)
  BY <1>0, <1>11 DEF ReferDone, rpcVars, wrkVars
<1>12. CASE (\E p \in Parts : PartEnds(p)) \/ HangUp
  BY <1>0, <1>12 DEF PartEnds, HangUp, rpcVars, wrkVars
<1>13. CASE UNCHANGED vars
  BY <1>0, <1>13 DEF vars, rpcVars, wrkVars
<1> QED
  BY <1>1, <1>2, <1>3, <1>4, <1>5, <1>6, <1>7, <1>8, <1>9, <1>10, <1>11,
     <1>12, <1>13
     DEF Next, Worker, Rest

\* "this ensures we return the same outcome to all callers": the worker, the
\* channel and the receives from it implement what TransferRequests promises
\* of the RPC, for any number of requests and targets.
THEOREM AnswersAsPromised == Spec => RequestsSpec
<1>1. Init => Requests!Init
  BY ColdTransferAssumption, SMTT(90) DEF Init, Requests!Init, Settled
<1> QED
  BY <1>1, Invariance, RefinementStep, PTL DEF Spec, RequestsSpec, Requests!Spec

-----------------------------------------------------------------------------
(* What a step does to the worker and to what it reports.                   *)

Busy == {"refer", "sent", "wait", "grace", "end"}

\* The steps of the callers, of NOTIFY requests and of the call.
QuietStep ==
  UNCHANGED <<wpc, result, infos, told, active, muted>> /\ gone \subseteq gone'

\* The worker of t moves from from to next, and reports nothing.
SilentMove(t, from, next) ==
  /\ Move(t, from, next)
  /\ UNCHANGED <<infos, told, active, muted, gone>>

BeginStep(t) == SilentMove(t, "off", "lookup") /\ UNCHANGED result

FailStep(t) ==
  SilentMove(t, "lookup", "send") /\ result' = [result EXCEPT ![t] = "failed"]

StartStep(t) ==
  /\ Move(t, "lookup", "refer")
  /\ active' = active + 1 /\ StartTransfer(t)
  /\ muted' = (muted \/ "over" \notin gone)
  /\ UNCHANGED <<result, gone>>

WaitStep(t) ==
  \E from, next \in Busy \ {"end"} : SilentMove(t, from, next) /\ UNCHANGED result

ResultStep(t) ==
  \E from \in Busy \ {"end"}, res \in Outcomes :
    SilentMove(t, from, "end") /\ result' = [result EXCEPT ![t] = res]

EndStep(t) ==
  /\ Move(t, "end", "send")
  /\ active' = active - 1 /\ EndTransfer(t, result[t] = "completed")
  /\ muted' = (muted /\ (result[t] = "completed" \/ "over" \in gone))
  /\ UNCHANGED <<result, gone>>

SettleStep(t) ==
  \E from \in Settled \cup {"send"}, next \in Settled :
    SilentMove(t, from, next) /\ UNCHANGED result

\* What a request is answered is what it was, or the settled result of the
\* transfer it waits for.
Answers ==
  \A r \in Reqs : reply'[r] \in Outcomes =>
    \/ reply'[r] = reply[r] /\ joined'[r] = joined[r]
    \/ /\ joined'[r] \in Reqs /\ wpc[joined'[r]] \in Settled
       /\ reply'[r] = result[joined'[r]]

\* Every step of the transfer is one of these.
LEMMA Effect ==
  IInv /\ [Next]_vars =>
    /\ Answers
    /\ \/ QuietStep
       \/ \E t \in Reqs : \/ BeginStep(t) \/ FailStep(t) \/ StartStep(t)
                          \/ WaitStep(t) \/ ResultStep(t) \/ EndStep(t)
                          \/ SettleStep(t)
<1> SUFFICES ASSUME IInv, [Next]_vars
             PROVE  /\ Answers
                    /\ \/ QuietStep
                       \/ \E t \in Reqs :
                            \/ BeginStep(t) \/ FailStep(t) \/ StartStep(t)
                            \/ WaitStep(t) \/ ResultStep(t) \/ EndStep(t)
                            \/ SettleStep(t)
  OBVIOUS
<1>0. UNCHANGED <<joined, reply>> => Answers
  BY DEF Answers
<1>1. ASSUME NEW r \in Reqs, CheckProvider(r)
      PROVE  Answers /\ QuietStep
  <2>1. Answers
    BY <1>1 DEF CheckProvider, Return, Answers, IInv, TypeInv, RpcType, Outcomes
  <2> QED
    BY <1>1, <2>1 DEF CheckProvider, QuietStep, wrkVars, monVars, sndVars
<1>2. ASSUME NEW r \in Reqs, RPCCanceled(r)
      PROVE  Answers /\ QuietStep
  <2>1. Answers
    BY <1>2 DEF RPCCanceled, Return, Answers, IInv, TypeInv, RpcType, Outcomes
  <2> QED
    BY <1>2, <2>1 DEF RPCCanceled, QuietStep, wrkVars, monVars, sndVars
<1>3. ASSUME NEW r \in Reqs, ReceiveDone(r)
      PROVE  Answers /\ QuietStep
  <2>1. joined[r] \in Reqs
    BY <1>3 DEF ReceiveDone, IInv, ReqInv
  <2>2. /\ wpc[joined[r]] \in Settled
        /\ reply' = [reply EXCEPT ![r] = result[joined[r]]]
    BY <1>3, <2>1, ColdTransferAssumption DEF ReceiveDone, Return, IInv,
       OutInv, TypeInv, PendType, Settled, Outcomes
  <2>3. UNCHANGED joined
    BY <1>3 DEF ReceiveDone
  <2>4. Answers
    BY <2>1, <2>2, <2>3 DEF Answers, IInv, TypeInv, RpcType
  <2> QED
    BY <1>3, <2>4 DEF ReceiveDone, QuietStep, wrkVars, monVars, sndVars
<1>4. ASSUME NEW r \in Reqs, getOrCreatePendingTransfer(r)
      PROVE  Answers /\ (QuietStep \/ BeginStep(r))
  <2>1. reply[r] = none /\ wpc[r] = "off"
    BY <1>4 DEF getOrCreatePendingTransfer, IInv, ReqInv
  <2>2. UNCHANGED <<gone, result, infos, told, active, muted>>
    BY <1>4 DEF getOrCreatePendingTransfer, monVars, sndVars
  <2>3. QuietStep \/ BeginStep(r)
    BY <1>4, <2>1, <2>2
       DEF getOrCreatePendingTransfer, QuietStep, BeginStep, SilentMove, Move
  <2>4. \/ \E t \in Reqs \cup {pending} :
             joined' = [joined EXCEPT ![r] = t] /\ UNCHANGED reply
        \/ UNCHANGED joined /\ reply' = [reply EXCEPT ![r] = "elsewhere"]
    BY <1>4 DEF getOrCreatePendingTransfer, Return
  <2>5. Answers
    BY <2>1, <2>4, ColdTransferAssumption
       DEF Answers, IInv, TypeInv, RpcType, Outcomes
  <2> QED
    BY <2>3, <2>5
<1>5. ASSUME NEW r \in Reqs, processParticipantTransfer(r)
      PROVE  Answers /\ (FailStep(r) \/ StartStep(r))
  BY <1>0, <1>5 DEF processParticipantTransfer, FailStep, StartStep,
     SilentMove, rpcVars
<1>6. ASSUME NEW r \in Reqs, newReferReq(r)
      PROVE  Answers /\ (WaitStep(r) \/ ResultStep(r))
  BY <1>0, <1>6 DEF newReferReq, WaitStep, ResultStep, SilentMove, rpcVars,
     sndVars, monVars, Busy, Outcomes
<1>7. ASSUME NEW r \in Reqs, NEW from \in Busy \ {"end"}, Ends(r, from, "failed")
      PROVE  Answers /\ ResultStep(r)
  BY <1>0, <1>7 DEF Ends, ResultStep, SilentMove, rpcVars, sndVars, monVars,
     Outcomes
<1>8. ASSUME NEW r \in Reqs, sendRefer(r) \/ CallDone(r)
      PROVE  Answers /\ (WaitStep(r) \/ ResultStep(r))
  BY <1>0, <1>7, <1>8 DEF sendRefer, CallDone, WaitStep, SilentMove, rpcVars,
     sndVars, monVars, Busy
<1>9. ASSUME NEW r \in Reqs, RingingTimeout(r) \/ GraceOver(r)
      PROVE  Answers /\ ResultStep(r)
  BY <1>7, <1>9 DEF RingingTimeout, GraceOver, Busy
<1>10. ASSUME NEW r \in Reqs, transferCallReturns(r)
      PROVE  Answers /\ EndStep(r)
  BY <1>0, <1>10 DEF transferCallReturns, EndStep, rpcVars
<1>11. ASSUME NEW r \in Reqs,
         SendDone(r) \/ StoreOutcome(r) \/ CloseDone(r) \/ DeletePending(r)
      PROVE  Answers /\ SettleStep(r)
  BY <1>0, <1>11 DEF SendDone, StoreOutcome, CloseDone, DeletePending,
     SettleStep, SilentMove, rpcVars, sndVars, monVars, Settled
<1>12. ASSUME NEW n \in Notifies,
         handleReferNotify(n) \/ NotifyRefused(n) \/ NotifyTimeout(n)
      PROVE  Answers /\ QuietStep
  BY <1>0, <1>12 DEF handleReferNotify, NotifyRefused, NotifyTimeout,
     QuietStep, rpcVars, sndVars, monVars, wrkVars
<1>13. ASSUME NEW n \in Notifies, NEW t \in Reqs, ReferDone(n, t)
      PROVE  Answers /\ ResultStep(t)
  <2>1. notify[n].msg.res \in Outcomes
    BY <1>13 DEF ReferDone, IInv, NotifyInv
  <2> QED
    BY <1>0, <1>13, <2>1 DEF ReferDone, ResultStep, SilentMove, Move, rpcVars,
       sndVars, monVars, Busy
<1>14. CASE (\E p \in Parts : PartEnds(p)) \/ HangUp
  BY <1>0, <1>14 DEF PartEnds, HangUp, QuietStep, rpcVars, sndVars, monVars,
     wrkVars
<1>15. CASE UNCHANGED vars
  BY <1>0, <1>15 DEF vars, QuietStep, rpcVars, sndVars, monVars, wrkVars
<1> QED
  BY <1>1, <1>2, <1>3, <1>4, <1>5, <1>6, <1>8, <1>9, <1>10, <1>11, <1>12,
     <1>13, <1>14, <1>15
     DEF Next, Worker, Rest

-----------------------------------------------------------------------------
(* The invariants that the properties need beside IInv.                     *)

\* The audio is muted by the transfer in progress, and a worker that has not
\* ended has no result.
AudioInv ==
  /\ \A t \in Reqs :
       wpc[t] \notin {"end", "send"} \cup Settled => result[t] = none
  /\ AudioRestored

ActiveInv == active = IF \E t \in Reqs : wpc[t] \in Busy THEN 1 ELSE 0

InfosInv ==
  infos \subseteq Reqs /\ \A t \in Reqs : t \in infos <=> wpc[t] \in Busy

ToldInv ==
  /\ told \in [Reqs -> {none, "ongoing", "successful", "failed"}]
  /\ \A t \in Reqs :
       /\ wpc[t] \in {"off", "lookup"} => told[t] = none
       /\ wpc[t] \in {"send"} \cup Settled =>
            told[t] = IF result[t] = "completed" THEN "successful"
                      ELSE IF told[t] = none THEN none ELSE "failed"

ReplyInv ==
  \A r \in Reqs : reply[r] \in Outcomes =>
    /\ joined[r] \in Reqs /\ wpc[joined[r]] \in Settled
    /\ reply[r] = result[joined[r]]

\* transferCall mutes the room's audio, and its deferred function unmutes it.
LEMMA AudioStep ==
  IInv /\ AudioInv /\ [Next]_vars => AudioInv'
<1> SUFFICES ASSUME IInv, AudioInv, [Next]_vars
             PROVE  AudioInv'
  OBVIOUS
<1> USE ColdTransferAssumption DEF IInv, TypeInv, WorkerType,
      AudioInv, AudioRestored, InTransfer, Settled, Outcomes, Busy
<1>1. CASE QuietStep
  BY <1>1 DEF QuietStep
<1>2. ASSUME NEW t \in Reqs, BeginStep(t)
      PROVE  AudioInv'
  BY <1>2 DEF BeginStep, SilentMove, Move
<1>3. ASSUME NEW t \in Reqs, FailStep(t)
      PROVE  AudioInv'
  BY <1>3 DEF FailStep, SilentMove, Move
<1>4. ASSUME NEW t \in Reqs, StartStep(t)
      PROVE  AudioInv'
  BY <1>4 DEF StartStep, Move
<1>5. ASSUME NEW t \in Reqs, WaitStep(t)
      PROVE  AudioInv'
  BY <1>5 DEF WaitStep, SilentMove, Move
<1>6. ASSUME NEW t \in Reqs, ResultStep(t)
      PROVE  AudioInv'
  BY <1>6 DEF ResultStep, SilentMove, Move
<1>7. ASSUME NEW t \in Reqs, EndStep(t)
      PROVE  AudioInv'
  BY <1>7 DEF EndStep, Move
<1>8. ASSUME NEW t \in Reqs, SettleStep(t)
      PROVE  AudioInv'
  BY <1>8, SMTT(90) DEF SettleStep, SilentMove, Move
<1> QED
  BY <1>1, <1>2, <1>3, <1>4, <1>5, <1>6, <1>7, <1>8, Effect

\* TransferStarted and the end of the transfer move the gauge by one each.
LEMMA ActiveStep ==
  IInv /\ ActiveInv /\ [Next]_vars => ActiveInv'
<1> SUFFICES ASSUME IInv, ActiveInv, [Next]_vars
             PROVE  ActiveInv'
  OBVIOUS
<1> USE ColdTransferAssumption DEF IInv, TypeInv, WorkerType,
      PendInv, ActiveInv, Settled, Busy
<1>1. CASE QuietStep
  BY <1>1 DEF QuietStep
<1>2. ASSUME NEW t \in Reqs, BeginStep(t)
      PROVE  ActiveInv'
  BY <1>2 DEF BeginStep, SilentMove, Move
<1>3. ASSUME NEW t \in Reqs, FailStep(t)
      PROVE  ActiveInv'
  BY <1>3 DEF FailStep, SilentMove, Move
<1>4. ASSUME NEW t \in Reqs, StartStep(t)
      PROVE  ActiveInv'
  BY <1>4, SMTT(90) DEF StartStep, Move
<1>5. ASSUME NEW t \in Reqs, WaitStep(t)
      PROVE  ActiveInv'
  BY <1>5 DEF WaitStep, SilentMove, Move
<1>6. ASSUME NEW t \in Reqs, ResultStep(t)
      PROVE  ActiveInv'
  BY <1>6 DEF ResultStep, SilentMove, Move
<1>7. ASSUME NEW t \in Reqs, EndStep(t)
      PROVE  ActiveInv'
  BY <1>7, SMTT(90) DEF EndStep, Move
<1>8. ASSUME NEW t \in Reqs, SettleStep(t)
      PROVE  ActiveInv'
  BY <1>8 DEF SettleStep, SilentMove, Move
<1> QED
  BY <1>1, <1>2, <1>3, <1>4, <1>5, <1>6, <1>7, <1>8, Effect

\* CallState.transferInfos holds the worker that is in transferCall.
LEMMA InfosStep ==
  IInv /\ InfosInv /\ [Next]_vars => InfosInv'
<1> SUFFICES ASSUME IInv, InfosInv, [Next]_vars
             PROVE  InfosInv'
  OBVIOUS
<1> USE ColdTransferAssumption DEF IInv, TypeInv, WorkerType,
      InfosInv, Settled, Busy
<1>1. CASE QuietStep
  BY <1>1 DEF QuietStep
<1>2. ASSUME NEW t \in Reqs, BeginStep(t)
      PROVE  InfosInv'
  BY <1>2 DEF BeginStep, SilentMove, Move
<1>3. ASSUME NEW t \in Reqs, FailStep(t)
      PROVE  InfosInv'
  BY <1>3 DEF FailStep, SilentMove, Move
<1>4. ASSUME NEW t \in Reqs, StartStep(t)
      PROVE  InfosInv'
  BY <1>4 DEF StartStep, Move, StartTransfer
<1>5. ASSUME NEW t \in Reqs, WaitStep(t)
      PROVE  InfosInv'
  BY <1>5 DEF WaitStep, SilentMove, Move
<1>6. ASSUME NEW t \in Reqs, ResultStep(t)
      PROVE  InfosInv'
  BY <1>6 DEF ResultStep, SilentMove, Move
<1>7. ASSUME NEW t \in Reqs, EndStep(t)
      PROVE  InfosInv'
  BY <1>7 DEF EndStep, Move, EndTransfer
<1>8. ASSUME NEW t \in Reqs, SettleStep(t)
      PROVE  InfosInv'
  BY <1>8 DEF SettleStep, SilentMove, Move
<1> QED
  BY <1>1, <1>2, <1>3, <1>4, <1>5, <1>6, <1>7, <1>8, Effect

\* HandleTransfer is told the result before it is sent on Done.
LEMMA ToldStep ==
  IInv /\ ToldInv /\ [Next]_vars => ToldInv'
<1> SUFFICES ASSUME IInv, ToldInv, [Next]_vars
             PROVE  ToldInv'
  OBVIOUS
<1> USE ColdTransferAssumption DEF IInv, TypeInv, WorkerType,
      ToldInv, Settled, Outcomes, Busy
<1>1. CASE QuietStep
  BY <1>1 DEF QuietStep
<1>2. ASSUME NEW t \in Reqs, BeginStep(t)
      PROVE  ToldInv'
  BY <1>2 DEF BeginStep, SilentMove, Move
<1>3. ASSUME NEW t \in Reqs, FailStep(t)
      PROVE  ToldInv'
  BY <1>3 DEF FailStep, SilentMove, Move
<1>4. ASSUME NEW t \in Reqs, StartStep(t)
      PROVE  ToldInv'
  BY <1>4 DEF StartStep, Move, StartTransfer
<1>5. ASSUME NEW t \in Reqs, WaitStep(t)
      PROVE  ToldInv'
  BY <1>5 DEF WaitStep, SilentMove, Move
<1>6. ASSUME NEW t \in Reqs, ResultStep(t)
      PROVE  ToldInv'
  BY <1>6, SMTT(90) DEF ResultStep, SilentMove, Move
<1>7. ASSUME NEW t \in Reqs, EndStep(t)
      PROVE  ToldInv'
  BY <1>7 DEF EndStep, Move, EndTransfer
<1>8. ASSUME NEW t \in Reqs, SettleStep(t)
      PROVE  ToldInv'
  BY <1>8 DEF SettleStep, SilentMove, Move
<1> QED
  BY <1>1, <1>2, <1>3, <1>4, <1>5, <1>6, <1>7, <1>8, Effect

\* A request is answered with the result of the worker it waited for.
LEMMA ReplyStep ==
  IInv /\ ReplyInv /\ [Next]_vars => ReplyInv'
<1> SUFFICES ASSUME IInv, ReplyInv, [Next]_vars
             PROVE  ReplyInv'
  OBVIOUS
<1>0. Answers
  BY Effect
<1> USE ColdTransferAssumption DEF IInv, TypeInv, WorkerType,
      ReplyInv, Answers, Settled, Busy
<1>1. CASE QuietStep
  BY <1>0, <1>1 DEF QuietStep
<1>2. ASSUME NEW t \in Reqs, BeginStep(t)
      PROVE  ReplyInv'
  BY <1>0, <1>2 DEF BeginStep, SilentMove, Move
<1>3. ASSUME NEW t \in Reqs, FailStep(t)
      PROVE  ReplyInv'
  BY <1>0, <1>3 DEF FailStep, SilentMove, Move
<1>4. ASSUME NEW t \in Reqs, StartStep(t)
      PROVE  ReplyInv'
  BY <1>0, <1>4 DEF StartStep, Move
<1>5. ASSUME NEW t \in Reqs, WaitStep(t)
      PROVE  ReplyInv'
  BY <1>0, <1>5, SMTT(90) DEF WaitStep, SilentMove, Move
<1>6. ASSUME NEW t \in Reqs, ResultStep(t)
      PROVE  ReplyInv'
  BY <1>0, <1>6, SMTT(90) DEF ResultStep, SilentMove, Move
<1>7. ASSUME NEW t \in Reqs, EndStep(t)
      PROVE  ReplyInv'
  BY <1>0, <1>7 DEF EndStep, Move
<1>8. ASSUME NEW t \in Reqs, SettleStep(t)
      PROVE  ReplyInv'
  BY <1>0, <1>8, SMTT(90) DEF SettleStep, SilentMove, Move
<1> QED
  BY <1>1, <1>2, <1>3, <1>4, <1>5, <1>6, <1>7, <1>8, Effect

\* The audio muted for the dial tone of a transfer comes back when it fails.
THEOREM AudioComesBack == Spec => []AudioRestored
<1>1. Init => AudioInv
  BY DEF Init, AudioInv, AudioRestored, Settled
<1>2. AudioInv => AudioRestored
  BY DEF AudioInv
<1> QED
  BY <1>1, <1>2, Invariance, AudioStep, PTL DEF Spec

\* The gauge and the call state hold the transfers in progress, and what the
\* state handler and the callers are told agrees.
THEOREM TransfersAreBalanced == Spec => []TransfersBalance
<1> DEFINE Bal == ActiveInv /\ InfosInv /\ ToldInv /\ ReplyInv
<1>1. Init => Bal
  BY ColdTransferAssumption, SMTT(90) DEF Init, ActiveInv, InfosInv, ToldInv,
     ReplyInv, Busy, Settled, Outcomes
<1>2. IInv /\ Bal /\ [Next]_vars => Bal'
  <2>1. IInv /\ Bal /\ [Next]_vars => ActiveInv' /\ InfosInv'
    BY ActiveStep, InfosStep
  <2>2. IInv /\ Bal /\ [Next]_vars => ToldInv' /\ ReplyInv'
    BY ToldStep, ReplyStep
  <2> QED
    BY <2>1, <2>2
<1>3. IInv /\ Bal => TransfersBalance
  <2> SUFFICES ASSUME IInv, Bal PROVE TransfersBalance
    OBVIOUS
  <2>1. infos = InTransfer
    BY DEF InfosInv, InTransfer, Busy
  <2>2. active = Cardinality(InTransfer)
    <3>1. CASE InTransfer = {}
      BY <3>1, FS_EmptySet DEF ActiveInv, InTransfer, Busy
    <3>2. CASE InTransfer # {}
      <4>1. PICK t \in Reqs : t \in InTransfer
        BY <3>2 DEF InTransfer
      <4>2. InTransfer = {t}
        BY <4>1 DEF InTransfer, IInv, PendInv
      <4>3. active = 1
        BY <4>1 DEF ActiveInv, InTransfer, Busy
      <4> QED
        BY <4>2, <4>3, FS_Singleton
    <3> QED
      BY <3>1, <3>2
  <2>3. ASSUME NEW r \in Reqs, reply[r] \in Outcomes
        PROVE  told[joined[r]] = IF reply[r] = "completed" THEN "successful"
                                 ELSE IF told[joined[r]] = none THEN none
                                 ELSE "failed"
    BY <2>3 DEF ReplyInv, ToldInv
  <2> QED
    BY <2>1, <2>2, <2>3 DEF TransfersBalance
<1> QED
  BY <1>1, <1>2, <1>3, Invariance, PTL DEF Spec
=============================================================================
