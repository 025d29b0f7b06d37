------------------------- MODULE ColdTransferProofs -------------------------
(***************************************************************************)
(* Proofs about ColdTransfer, for any number of requests, NOTIFYs and      *)
(* targets: its inductive invariant, the comparison of the event id, and   *)
(* that nobody waits for what does not come.                               *)
(*                                                                         *)
(* Everything rests on IInv: cm.pendingTransfers names the one worker that *)
(* runs, and what the channel, the stored outcome and the closed flag hold *)
(* follows from where that worker is.                                      *)
(***************************************************************************)
EXTENDS ColdTransfer, TLAPS

\* Zenon proves a leaf unless the leaf names SMT.  Most need a fraction of a
\* second; the limits leave room for a slow machine.
USE ZenonT(90)

WorkerStates == {"off", "lookup", "refer", "sent", "wait", "grace", "end",
                 "send"} \cup Settled

RpcType ==
  /\ to \in [Reqs -> Targets]
  /\ pc \in [Reqs -> {"idle", "create", "wait", "done"}]
  /\ joined \in [Reqs -> Reqs \cup {none}]
  /\ reply \in [Reqs -> Outcomes \cup
                         {none, "refused", "elsewhere", "canceled"}]

PendType ==
  /\ pending \in Reqs \cup {none}
  /\ chan \in [Reqs -> Outcomes \cup {none}]
  /\ closed \in [Reqs -> BOOLEAN]
  /\ stored \in [Reqs -> Outcomes \cup {none}]

WorkerType ==
  /\ wpc \in [Reqs -> WorkerStates]
  /\ result \in [Reqs -> Outcomes \cup {none}]

TypeInv == RpcType /\ PendType /\ WorkerType

Messages == [about : Nat, id : Nat, seen : Nat, res : Outcomes \cup {none}]

\* What a handler has for a worker: a result for a REFER that was sent before
\* the NOTIFY came, and an id that was compared.
NotifyInv ==
  /\ notify \in [Notifies -> [st : {"idle", "parked", "done"}, msg : Messages]]
  /\ \A n \in Notifies : notify[n].st = "parked" =>
       /\ notify[n].msg.res \in Outcomes
       /\ notify[n].msg.seen <= cseq
       /\ notify[n].msg.about \in 1..notify[n].msg.seen
       /\ notify[n].msg.id # 0 => /\ notify[n].msg.id = notify[n].msg.about
                                  /\ notify[n].msg.id = notify[n].msg.seen

\* The entry of the registry is the worker that runs.
PendInv ==
  \A t \in Reqs : pending = t <=> wpc[t] \notin {"off", "done"}

\* A request that waits, waits for a worker that was started.
ReqInv ==
  \A r \in Reqs :
    /\ pc[r] \in {"idle", "create"} =>
         joined[r] = none /\ reply[r] = none /\ wpc[r] = "off"
    /\ pc[r] = "wait" =>
         joined[r] \in Reqs /\ wpc[joined[r]] # "off" /\ reply[r] = none

\* The channel and the stored outcome hold the result of the worker, and the
\* outcome is stored before the channel is closed.
OutInv ==
  \A t \in Reqs :
    /\ wpc[t] \in {"end", "send"} \cup Settled => result[t] \in Outcomes
    /\ chan[t] # none => wpc[t] \in Settled /\ chan[t] = result[t]
    /\ wpc[t] \in {"close", "delete", "done"} => stored[t] = result[t]
    /\ stored[t] # none => wpc[t] \in Settled /\ stored[t] = result[t]
    /\ closed[t] => wpc[t] \in {"delete", "done"}

\* A worker that waits has sent the last REFER.
ReferInv ==
  /\ cseq \in Nat /\ refer \in [Reqs -> Nat]
  /\ \A t \in Reqs : wpc[t] \in {"sent", "wait", "grace"} => refer[t] = cseq

IInv == TypeInv /\ NotifyInv /\ PendInv /\ ReqInv /\ OutInv /\ ReferInv

\* none is not a request.
LEMMA NoneIsNoRequest == none \notin Reqs
BY ColdTransferAssumption, SMTT(90) DEF Reqs

-----------------------------------------------------------------------------
(* IInv is inductive.                                                       *)


\* cm.pendingTransfers names the worker that runs: the entry is created with
\* cm.mu held and deleted when the worker has closed Done.
LEMMA PendStep ==
  IInv /\ [Next]_vars => PendInv'
<1> SUFFICES ASSUME IInv, [Next]_vars
             PROVE  PendInv'
  OBVIOUS
<1> USE ColdTransferAssumption DEF IInv, TypeInv, PendType,
      WorkerType, PendInv, ReqInv, pendVars, wrkVars
<1>1. ASSUME NEW r \in Reqs,
        CheckProvider(r) \/ RPCCanceled(r) \/ ReceiveDone(r)
      PROVE  PendInv'
  BY <1>1 DEF CheckProvider, Return, RPCCanceled, ReceiveDone
<1>2. ASSUME NEW r \in Reqs, getOrCreatePendingTransfer(r)
      PROVE  PendInv'
  <2>1. CASE pending = none
    BY <1>2, <2>1, NoneIsNoRequest, SMTT(90) DEF getOrCreatePendingTransfer
  <2>2. CASE pending # none /\ to[pending] = to[r]
    BY <1>2, <2>2 DEF getOrCreatePendingTransfer
  <2>3. CASE pending # none /\ to[pending] # to[r]
    BY <1>2, <2>3 DEF getOrCreatePendingTransfer, Return
  <2> QED
    BY <2>1, <2>2, <2>3
<1>3. ASSUME NEW r \in Reqs, processParticipantTransfer(r)
      PROVE  PendInv'
  BY <1>3, SMTT(90) DEF processParticipantTransfer, Move, StartTransfer
<1>4. ASSUME NEW r \in Reqs,
        newReferReq(r) \/ sendRefer(r) \/ RingingTimeout(r) \/ CallDone(r)
           \/ GraceOver(r)
      PROVE  PendInv'
  BY <1>4, SMTT(90) DEF newReferReq, Move, sendRefer, Ends, RingingTimeout,
     CallDone, GraceOver
<1>5. ASSUME NEW r \in Reqs, transferCallReturns(r)
      PROVE  PendInv'
  BY <1>5 DEF transferCallReturns, Move, EndTransfer
<1>6. ASSUME NEW r \in Reqs,
        SendDone(r) \/ StoreOutcome(r) \/ CloseDone(r)
      PROVE  PendInv'
  BY <1>6, SMTT(90) DEF SendDone, Move, StoreOutcome, CloseDone
<1>7. ASSUME NEW r \in Reqs, DeletePending(r)
      PROVE  PendInv'
  BY <1>7, NoneIsNoRequest DEF DeletePending, Move
<1>8. ASSUME NEW n \in Notifies,
        handleReferNotify(n) \/ NotifyRefused(n) \/ NotifyTimeout(n)
      PROVE  PendInv'
  BY <1>8 DEF handleReferNotify, Handled, NotifyRefused, NotifyTimeout,
     NoNotify
<1>9. ASSUME NEW n \in Notifies, NEW t \in Reqs, ReferDone(n, t)
      PROVE  PendInv'
  BY <1>9 DEF ReferDone, NoNotify
<1>10. CASE (\E p \in Parts : PartEnds(p)) \/ HangUp
  BY <1>10 DEF PartEnds, HangUp
<1>11. CASE UNCHANGED vars
  BY <1>11 DEF vars
<1> QED
  BY <1>1, <1>2, <1>3, <1>4, <1>5, <1>6, <1>7, <1>8, <1>9, <1>10, <1>11
     DEF Next, Worker, Rest

\* A request waits only for a worker that was started.
LEMMA ReqStep ==
  IInv /\ [Next]_vars => ReqInv'
<1> SUFFICES ASSUME IInv, [Next]_vars
             PROVE  ReqInv'
  OBVIOUS
<1> USE ColdTransferAssumption DEF IInv, TypeInv, RpcType,
      PendType, WorkerType, PendInv, ReqInv, rpcVars, wrkVars
<1>1. ASSUME NEW r \in Reqs,
        RPCCanceled(r) \/ ReceiveDone(r)
      PROVE  ReqInv'
  BY <1>1, SMTT(90) DEF RPCCanceled, Return, ReceiveDone
<1>2. ASSUME NEW r \in Reqs, CheckProvider(r)
      PROVE  ReqInv'
  <2>0. UNCHANGED <<joined, wpc>>
    BY <1>2 DEF CheckProvider, wrkVars
  <2>1. CASE Return(r, "refused")
    BY <2>0, <2>1 DEF Return
  <2>2. CASE pc' = [pc EXCEPT ![r] = "create"] /\ UNCHANGED reply
    BY <1>2, <2>0, <2>2, SMTT(90) DEF CheckProvider
  <2> QED
    BY <1>2, <2>1, <2>2 DEF CheckProvider
<1>3. ASSUME NEW r \in Reqs, getOrCreatePendingTransfer(r)
      PROVE  ReqInv'
  <2>1. CASE pending = none
    BY <1>3, <2>1, NoneIsNoRequest, SMTT(90) DEF getOrCreatePendingTransfer
  <2>2. CASE pending # none /\ to[pending] = to[r]
    BY <1>3, <2>2, SMTT(90) DEF getOrCreatePendingTransfer
  <2>3. CASE pending # none /\ to[pending] # to[r]
    BY <1>3, <2>3, SMTT(90) DEF getOrCreatePendingTransfer, Return
  <2> QED
    BY <2>1, <2>2, <2>3
<1>4. ASSUME NEW r \in Reqs, processParticipantTransfer(r)
      PROVE  ReqInv'
  BY <1>4, SMTT(90) DEF processParticipantTransfer, Move, StartTransfer
<1>5. ASSUME NEW r \in Reqs,
        newReferReq(r) \/ sendRefer(r) \/ RingingTimeout(r) \/ CallDone(r)
           \/ GraceOver(r)
      PROVE  ReqInv'
  BY <1>5, SMTT(90) DEF newReferReq, Move, sendRefer, Ends, RingingTimeout,
     CallDone, GraceOver
<1>6. ASSUME NEW r \in Reqs, transferCallReturns(r)
      PROVE  ReqInv'
  BY <1>6 DEF transferCallReturns, Move, EndTransfer
<1>7. ASSUME NEW r \in Reqs,
        SendDone(r) \/ StoreOutcome(r) \/ CloseDone(r) \/ DeletePending(r)
      PROVE  ReqInv'
  BY <1>7, SMTT(90) DEF SendDone, Move, StoreOutcome, CloseDone, DeletePending
<1>8. ASSUME NEW n \in Notifies,
        handleReferNotify(n) \/ NotifyRefused(n) \/ NotifyTimeout(n)
      PROVE  ReqInv'
  BY <1>8 DEF handleReferNotify, Handled, NotifyRefused, NotifyTimeout,
     NoNotify
<1>9. ASSUME NEW n \in Notifies, NEW t \in Reqs, ReferDone(n, t)
      PROVE  ReqInv'
  BY <1>9 DEF ReferDone, NoNotify
<1>10. CASE (\E p \in Parts : PartEnds(p)) \/ HangUp
  BY <1>10 DEF PartEnds, HangUp
<1>11. CASE UNCHANGED vars
  BY <1>11 DEF vars
<1> QED
  BY <1>1, <1>2, <1>3, <1>4, <1>5, <1>6, <1>7, <1>8, <1>9, <1>10, <1>11
     DEF Next, Worker, Rest

\* A worker that waits has sent the last REFER, since no other one runs.
LEMMA ReferStep ==
  IInv /\ [Next]_vars => ReferInv'
<1> SUFFICES ASSUME IInv, [Next]_vars
             PROVE  ReferInv'
  OBVIOUS
<1> USE ColdTransferAssumption DEF IInv, TypeInv, PendType,
      WorkerType, PendInv, ReferInv, pendVars, wrkVars, legVars
<1>1. ASSUME NEW r \in Reqs,
        CheckProvider(r) \/ RPCCanceled(r) \/ ReceiveDone(r)
      PROVE  ReferInv'
  BY <1>1 DEF CheckProvider, Return, RPCCanceled, ReceiveDone
<1>2. ASSUME NEW r \in Reqs, getOrCreatePendingTransfer(r)
      PROVE  ReferInv'
  BY <1>2 DEF getOrCreatePendingTransfer, Return
<1>3. ASSUME NEW r \in Reqs, processParticipantTransfer(r)
      PROVE  ReferInv'
  BY <1>3 DEF processParticipantTransfer, Move, StartTransfer
<1>4. ASSUME NEW r \in Reqs,
        newReferReq(r) \/ sendRefer(r) \/ RingingTimeout(r) \/ CallDone(r)
           \/ GraceOver(r)
      PROVE  ReferInv'
  BY <1>4, SMTT(90) DEF newReferReq, Move, sendRefer, Ends, RingingTimeout,
     CallDone, GraceOver
<1>5. ASSUME NEW r \in Reqs, transferCallReturns(r)
      PROVE  ReferInv'
  BY <1>5 DEF transferCallReturns, Move, EndTransfer
<1>6. ASSUME NEW r \in Reqs,
        SendDone(r) \/ StoreOutcome(r) \/ CloseDone(r) \/ DeletePending(r)
      PROVE  ReferInv'
  BY <1>6 DEF SendDone, Move, StoreOutcome, CloseDone, DeletePending
<1>7. ASSUME NEW n \in Notifies,
        handleReferNotify(n) \/ NotifyRefused(n) \/ NotifyTimeout(n)
      PROVE  ReferInv'
  BY <1>7 DEF handleReferNotify, Handled, NotifyRefused, NotifyTimeout,
     NoNotify
<1>8. ASSUME NEW n \in Notifies, NEW t \in Reqs, ReferDone(n, t)
      PROVE  ReferInv'
  BY <1>8 DEF ReferDone, NoNotify
<1>9. CASE (\E p \in Parts : PartEnds(p)) \/ HangUp
  BY <1>9 DEF PartEnds, HangUp
<1>10. CASE UNCHANGED vars
  BY <1>10 DEF vars
<1> QED
  BY <1>1, <1>2, <1>3, <1>4, <1>5, <1>6, <1>7, <1>8, <1>9, <1>10
     DEF Next, Worker, Rest

\* The outcome is put in the channel and stored before Done is closed.
LEMMA OutStep ==
  IInv /\ [Next]_vars => OutInv'
<1> SUFFICES ASSUME IInv, [Next]_vars
             PROVE  OutInv'
  OBVIOUS
<1> USE ColdTransferAssumption DEF IInv, TypeInv, PendType,
      WorkerType, ReqInv, OutInv, Settled, Outcomes, pendVars, wrkVars
<1>1. ASSUME NEW r \in Reqs,
        CheckProvider(r) \/ RPCCanceled(r) \/ ReceiveDone(r)
      PROVE  OutInv'
  BY <1>1, SMTT(90) DEF CheckProvider, Return, RPCCanceled, ReceiveDone
<1>2. ASSUME NEW r \in Reqs, getOrCreatePendingTransfer(r)
      PROVE  OutInv'
  BY <1>2, SMTT(90) DEF getOrCreatePendingTransfer, Return
<1>3. ASSUME NEW r \in Reqs, processParticipantTransfer(r)
      PROVE  OutInv'
  BY <1>3, SMTT(90) DEF processParticipantTransfer, Move, StartTransfer
<1>4. ASSUME NEW r \in Reqs, newReferReq(r)
      PROVE  OutInv'
  BY <1>4, SMTT(90) DEF newReferReq, Move
<1>5. ASSUME NEW r \in Reqs, sendRefer(r)
      PROVE  OutInv'
  BY <1>5, SMTT(90) DEF sendRefer, Move, Ends
<1>6. ASSUME NEW r \in Reqs, RingingTimeout(r)
      PROVE  OutInv'
  BY <1>6, SMTT(90) DEF RingingTimeout, Ends, Move
<1>7. ASSUME NEW r \in Reqs, CallDone(r)
      PROVE  OutInv'
  BY <1>7, SMTT(90) DEF CallDone, Move
<1>8. ASSUME NEW r \in Reqs, GraceOver(r)
      PROVE  OutInv'
  BY <1>8, SMTT(90) DEF GraceOver, Ends, Move
<1>9. ASSUME NEW r \in Reqs, transferCallReturns(r)
      PROVE  OutInv'
  BY <1>9, SMTT(90) DEF transferCallReturns, Move, EndTransfer
<1>10. ASSUME NEW r \in Reqs, SendDone(r)
      PROVE  OutInv'
  BY <1>10, SMTT(90) DEF SendDone, Move
<1>11. ASSUME NEW r \in Reqs, StoreOutcome(r)
      PROVE  OutInv'
  BY <1>11, SMTT(90) DEF StoreOutcome, Move
<1>12. ASSUME NEW r \in Reqs, CloseDone(r)
      PROVE  OutInv'
  BY <1>12 DEF CloseDone, Move
<1>13. ASSUME NEW r \in Reqs, DeletePending(r)
      PROVE  OutInv'
  BY <1>13, SMTT(90) DEF DeletePending, Move
<1>14. ASSUME NEW n \in Notifies,
        handleReferNotify(n) \/ NotifyRefused(n) \/ NotifyTimeout(n)
      PROVE  OutInv'
  BY <1>14, SMTT(90) DEF handleReferNotify, Handled, NotifyRefused,
     NotifyTimeout, NoNotify
<1>15. ASSUME NEW n \in Notifies, NEW t \in Reqs, ReferDone(n, t)
      PROVE  OutInv'
  BY <1>15, SMTT(90) DEF ReferDone, NotifyInv
<1>16. CASE (\E p \in Parts : PartEnds(p)) \/ HangUp
  BY <1>16 DEF PartEnds, HangUp
<1>17. CASE UNCHANGED vars
  BY <1>17 DEF vars
<1> QED
  BY <1>1, <1>2, <1>3, <1>4, <1>5, <1>6, <1>7, <1>8, <1>9, <1>10, <1>11,
     <1>12, <1>13, <1>14, <1>15, <1>16, <1>17
     DEF Next, Worker, Rest

\* Every step of a request, a worker or a NOTIFY handler keeps the types.
LEMMA TypeStep ==
  IInv /\ [Next]_vars => TypeInv'
<1> SUFFICES ASSUME IInv, [Next]_vars
             PROVE  TypeInv'
  OBVIOUS
<1> USE ColdTransferAssumption DEF IInv, TypeInv, RpcType,
      PendType, WorkerType, WorkerStates, Settled, Outcomes, ReqInv, rpcVars,
      pendVars, legVars, monVars, sndVars, wrkVars
<1>1. ASSUME NEW r \in Reqs,
        CheckProvider(r) \/ RPCCanceled(r) \/ ReceiveDone(r)
      PROVE  TypeInv'
  BY <1>1, SMTT(90) DEF CheckProvider, Return, RPCCanceled, ReceiveDone
<1>2. ASSUME NEW r \in Reqs, getOrCreatePendingTransfer(r)
      PROVE  TypeInv'
  BY <1>2, SMTT(90) DEF getOrCreatePendingTransfer, Return
<1>3. ASSUME NEW r \in Reqs, processParticipantTransfer(r)
      PROVE  TypeInv'
  BY <1>3, SMTT(90) DEF processParticipantTransfer, Move, StartTransfer
<1>4. ASSUME NEW r \in Reqs, newReferReq(r)
      PROVE  TypeInv'
  BY <1>4, SMTT(90) DEF newReferReq, Move
<1>5. ASSUME NEW r \in Reqs, sendRefer(r)
      PROVE  TypeInv'
  BY <1>5, SMTT(90) DEF sendRefer, Move, Ends
<1>6. ASSUME NEW r \in Reqs, RingingTimeout(r)
      PROVE  TypeInv'
  BY <1>6 DEF RingingTimeout, Ends, Move
<1>7. ASSUME NEW r \in Reqs, CallDone(r)
      PROVE  TypeInv'
  BY <1>7 DEF CallDone, Move
<1>8. ASSUME NEW r \in Reqs, GraceOver(r)
      PROVE  TypeInv'
  BY <1>8 DEF GraceOver, Ends, Move
<1>9. ASSUME NEW r \in Reqs, transferCallReturns(r)
      PROVE  TypeInv'
  BY <1>9 DEF transferCallReturns, Move, EndTransfer
<1>10. ASSUME NEW r \in Reqs, SendDone(r)
      PROVE  TypeInv'
  BY <1>10 DEF SendDone, Move
<1>11. ASSUME NEW r \in Reqs, StoreOutcome(r)
      PROVE  TypeInv'
  BY <1>11 DEF StoreOutcome, Move
<1>12. ASSUME NEW r \in Reqs, CloseDone(r)
      PROVE  TypeInv'
  BY <1>12 DEF CloseDone, Move
<1>13. ASSUME NEW r \in Reqs, DeletePending(r)
      PROVE  TypeInv'
  BY <1>13 DEF DeletePending, Move
<1>14. ASSUME NEW n \in Notifies,
        handleReferNotify(n) \/ NotifyRefused(n) \/ NotifyTimeout(n)
      PROVE  TypeInv'
  BY <1>14, SMTT(90) DEF handleReferNotify, Handled, NotifyRefused,
     NotifyTimeout, NoNotify
<1>15. ASSUME NEW n \in Notifies, NEW t \in Reqs, ReferDone(n, t)
      PROVE  TypeInv'
  BY <1>15 DEF ReferDone, NotifyInv
<1>16. CASE (\E p \in Parts : PartEnds(p)) \/ HangUp
  BY <1>16, SMTT(90) DEF PartEnds, HangUp
<1>17. CASE UNCHANGED vars
  BY <1>17 DEF vars
<1> QED
  BY <1>1, <1>2, <1>3, <1>4, <1>5, <1>6, <1>7, <1>8, <1>9, <1>10, <1>11,
     <1>12, <1>13, <1>14, <1>15, <1>16, <1>17
     DEF Next, Worker, Rest

\* What a NOTIFY says of the transfer is an outcome, or that it goes on.
LEMMA NotifyResultType ==
  ASSUME NEW status \in Statuses, NEW sub \in Subscriptions
  PROVE  notifyResult(status, sub) \in Outcomes \cup {none}
BY DEF notifyResult, Outcomes

\* A handler parks with a result, and with an id only if it equals referCseq:
\* handleReferNotify compares it before the send on referDone.
LEMMA NotifyStep ==
  IInv /\ [Next]_vars => NotifyInv'
<1> SUFFICES ASSUME IInv, [Next]_vars
             PROVE  NotifyInv'
  OBVIOUS
<1>1. ASSUME UNCHANGED notify, cseq' \in {cseq, cseq + 1}
      PROVE  NotifyInv'
  BY <1>1, SMTT(90) DEF IInv, ReferInv, NotifyInv, Messages
<1>2. ASSUME NEW r \in Reqs,
        CheckProvider(r) \/ RPCCanceled(r) \/ ReceiveDone(r)
          \/ getOrCreatePendingTransfer(r)
      PROVE  UNCHANGED <<notify, cseq>>
  BY <1>2 DEF CheckProvider, RPCCanceled, ReceiveDone,
     getOrCreatePendingTransfer, legVars
<1>3. ASSUME NEW r \in Reqs,
        processParticipantTransfer(r) \/ transferCallReturns(r)
          \/ SendDone(r) \/ StoreOutcome(r) \/ CloseDone(r) \/ DeletePending(r)
      PROVE  UNCHANGED <<notify, cseq>>
  BY <1>3 DEF processParticipantTransfer, transferCallReturns, SendDone,
     StoreOutcome, CloseDone, DeletePending, legVars
<1>4. ASSUME NEW r \in Reqs,
        sendRefer(r) \/ RingingTimeout(r) \/ CallDone(r) \/ GraceOver(r)
      PROVE  UNCHANGED <<notify, cseq>>
  BY <1>4 DEF sendRefer, Ends, RingingTimeout, CallDone, GraceOver, legVars
<1>5. ASSUME NEW r \in Reqs, newReferReq(r)
      PROVE  UNCHANGED notify /\ cseq' \in {cseq, cseq + 1}
  BY <1>5 DEF newReferReq, legVars
<1>6. ASSUME (\E p \in Parts : PartEnds(p)) \/ HangUp \/ UNCHANGED vars
      PROVE  UNCHANGED <<notify, cseq>>
  BY <1>6 DEF PartEnds, HangUp, vars, legVars
<1>7. ASSUME NEW n \in Notifies, handleReferNotify(n)
      PROVE  NotifyInv'
  <2> PICK about \in 1..cseq, status \in Statuses, sub \in Subscriptions :
         \E id \in {0, about} :
           Handled(n, [about |-> about, id |-> id, seen |-> cseq, res |-> none],
                   notifyResult(status, sub), id \in {0, cseq})
    BY <1>7 DEF handleReferNotify
  <2> PICK id \in {0, about} :
         Handled(n, [about |-> about, id |-> id, seen |-> cseq, res |-> none],
                 notifyResult(status, sub), id \in {0, cseq})
    OBVIOUS
  <2> DEFINE res == notifyResult(status, sub)
             msg == [about |-> about, id |-> id, seen |-> cseq, res |-> res]
  <2>1. res \in Outcomes \cup {none}
    BY NotifyResultType
  <2> HIDE DEF res
  <2>2. cseq \in Nat /\ about \in Nat
    BY SMTT(90) DEF IInv, ReferInv
  <2>3. msg \in Messages /\ NoNotify \in Messages
    BY <2>1, <2>2, SMTT(90) DEF Messages, NoNotify
  <2>4. cseq' = cseq
    BY <1>7 DEF handleReferNotify, legVars
  <2>5. CASE id \in {0, cseq} /\ res # none
    <3>0. [[about |-> about, id |-> id, seen |-> cseq, res |-> none]
             EXCEPT !.res = res] = msg
      BY SMTT(90)
    <3>1. notify' = [notify EXCEPT ![n] = [st |-> "parked", msg |-> msg]]
      BY <2>5, <3>0 DEF Handled, res
    <3> HIDE DEF msg
    <3>2. /\ msg.res \in Outcomes /\ msg.seen <= cseq
          /\ msg.about \in 1..msg.seen
          /\ msg.id # 0 => msg.id = msg.about /\ msg.id = msg.seen
      BY <2>1, <2>2, <2>5, SMTT(90) DEF msg
    <3> QED
      BY <2>3, <2>4, <3>1, <3>2 DEF IInv, NotifyInv
  <2>6. CASE ~(id \in {0, cseq} /\ res # none)
    <3>1. notify' = [notify EXCEPT ![n] = [st |-> "done", msg |-> NoNotify]]
      BY <2>6 DEF Handled, res
    <3> QED
      BY <2>3, <2>4, <3>1 DEF IInv, NotifyInv
  <2> QED
    BY <2>5, <2>6
<1> USE ColdTransferAssumption DEF IInv, ReferInv, NotifyInv,
      Messages, NoNotify, Outcomes, legVars
<1>8. ASSUME NEW n \in Notifies, NotifyRefused(n)
      PROVE  NotifyInv'
  BY <1>8, SMTT(90) DEF NotifyRefused
<1>9. ASSUME NEW n \in Notifies, NotifyTimeout(n)
      PROVE  NotifyInv'
  BY <1>9, SMTT(90) DEF NotifyTimeout, NoNotify
<1>10. ASSUME NEW n \in Notifies, NEW t \in Reqs, ReferDone(n, t)
      PROVE  NotifyInv'
  BY <1>10, SMTT(90) DEF ReferDone, NoNotify
<1> QED
  BY <1>1, <1>2, <1>3, <1>4, <1>5, <1>6, <1>7, <1>8, <1>9, <1>10
     DEF Next, Worker, Rest

\* IInv holds initially.
LEMMA InitIInv == Init => IInv
<1> SUFFICES ASSUME Init PROVE IInv
  OBVIOUS
<1> USE ColdTransferAssumption DEF Init
<1>1. TypeInv
  BY DEF TypeInv, RpcType, PendType, WorkerType, WorkerStates
<1>2. NotifyInv
  BY DEF NotifyInv, NoNotify, Messages
<1>3. PendInv /\ ReqInv
  BY NoneIsNoRequest DEF PendInv, ReqInv
<1>4. OutInv /\ ReferInv
  BY DEF OutInv, ReferInv, Settled
<1> QED
  BY <1>1, <1>2, <1>3, <1>4 DEF IInv

\* The invariant of the transfer, for every behaviour.
THEOREM Invariance == Spec => []IInv
<1>1. IInv /\ [Next]_vars => IInv'
  BY TypeStep, NotifyStep, PendStep, ReqStep, OutStep, ReferStep DEF IInv
<1> QED
  BY <1>1, InitIInv, PTL DEF Spec

-----------------------------------------------------------------------------
(* The NOTIFY requests.                                                     *)

\* A rendezvous on referDone with a compared id carries the worker's result.
LEMMA NotifyIdStep ==
  IInv /\ NotifyIdHonoured /\ [Next]_vars => NotifyIdHonoured'
<1> SUFFICES ASSUME IInv /\ NotifyIdHonoured, [Next]_vars
             PROVE  NotifyIdHonoured'
  OBVIOUS
<1>1. ASSUME NEW r \in Reqs,
        CheckProvider(r) \/ RPCCanceled(r) \/ ReceiveDone(r)
          \/ getOrCreatePendingTransfer(r)
      PROVE  UNCHANGED misled
  BY <1>1 DEF CheckProvider, RPCCanceled, ReceiveDone,
     getOrCreatePendingTransfer, wrkVars
<1>2. ASSUME NEW r \in Reqs,
        processParticipantTransfer(r) \/ transferCallReturns(r)
          \/ SendDone(r) \/ StoreOutcome(r) \/ CloseDone(r) \/ DeletePending(r)
      PROVE  UNCHANGED misled
  BY <1>2 DEF processParticipantTransfer, transferCallReturns, SendDone,
     StoreOutcome, CloseDone, DeletePending
<1>3. ASSUME NEW r \in Reqs,
        newReferReq(r) \/ sendRefer(r) \/ RingingTimeout(r) \/ CallDone(r)
          \/ GraceOver(r)
      PROVE  UNCHANGED misled
  BY <1>3 DEF newReferReq, sendRefer, Ends, RingingTimeout, CallDone, GraceOver
<1>4. ASSUME NEW n \in Notifies,
        handleReferNotify(n) \/ NotifyRefused(n) \/ NotifyTimeout(n)
      PROVE  UNCHANGED misled
  BY <1>4 DEF handleReferNotify, NotifyRefused, NotifyTimeout, wrkVars
<1>5. ASSUME NEW n \in Notifies, NEW t \in Reqs, ReferDone(n, t)
      PROVE  NotifyIdHonoured'
  <2>1. notify[n].msg.about = refer[t] \/ notify[n].msg.seen < refer[t]
          \/ notify[n].msg.id = 0
    BY <1>5, SMTT(90) DEF ReferDone, IInv, ReferInv, NotifyInv, Messages
  <2> QED
    BY <1>5, <2>1 DEF ReferDone, NotifyIdHonoured
<1>6. ASSUME (\E p \in Parts : PartEnds(p)) \/ HangUp \/ UNCHANGED vars
      PROVE  UNCHANGED misled
  BY <1>6 DEF PartEnds, HangUp, vars, wrkVars
<1>7. UNCHANGED misled => NotifyIdHonoured'
  BY DEF NotifyIdHonoured
<1> QED
  BY <1>1, <1>2, <1>3, <1>4, <1>5, <1>6, <1>7 DEF Next, Worker, Rest

\* "NOTIFY for a different REFER, skip": with an id that was compared, a worker
\* is given the result of its own REFER, however many NOTIFYs are on their way.
THEOREM NotifyIdsAreCompared == Spec => []NotifyIdHonoured
<1>1. Init => NotifyIdHonoured
  BY DEF Init, NotifyIdHonoured
<1> QED
  BY <1>1, Invariance, NotifyIdStep, PTL DEF Spec

\* A worker is given the result of another REFER only in a call that has been
\* referred before: what run stale_refer shows takes a second transfer.
FirstTransferIsOwn ==
  misled # {} => cseq > 1

\* The first transfer of a call is answered with the result of its own REFER,
\* with or without ids in the NOTIFYs and however long they wait on referDone.
THEOREM FirstResultIsOwn == Spec => []FirstTransferIsOwn
<1>1. Init => FirstTransferIsOwn
  BY DEF Init, FirstTransferIsOwn
<1>2. IInv /\ FirstTransferIsOwn /\ [Next]_vars => FirstTransferIsOwn'
  <2> SUFFICES ASSUME IInv, FirstTransferIsOwn, [Next]_vars
               PROVE  FirstTransferIsOwn'
    OBVIOUS
  <2>c. cseq \in Nat
    BY DEF IInv, ReferInv
  <2>1. ASSUME UNCHANGED misled, cseq' \in {cseq, cseq + 1}
        PROVE  FirstTransferIsOwn'
    BY <2>1, <2>c, SMTT(90) DEF FirstTransferIsOwn
  <2>2. ASSUME NEW r \in Reqs,
          CheckProvider(r) \/ RPCCanceled(r) \/ ReceiveDone(r)
            \/ getOrCreatePendingTransfer(r) \/ Worker(r)
        PROVE  UNCHANGED misled /\ cseq' \in {cseq, cseq + 1}
    BY <2>2 DEF CheckProvider, RPCCanceled, ReceiveDone,
       getOrCreatePendingTransfer, Worker, processParticipantTransfer,
       newReferReq, sendRefer, Ends, RingingTimeout, CallDone, GraceOver,
       transferCallReturns, SendDone, StoreOutcome, CloseDone, DeletePending,
       legVars, wrkVars
  <2>3. ASSUME NEW n \in Notifies,
          handleReferNotify(n) \/ NotifyRefused(n) \/ NotifyTimeout(n)
        PROVE  UNCHANGED <<misled, cseq>>
    BY <2>3 DEF handleReferNotify, NotifyRefused, NotifyTimeout, wrkVars,
       legVars
  <2>4. ASSUME NEW n \in Notifies, NEW t \in Reqs, ReferDone(n, t)
        PROVE  FirstTransferIsOwn'
    <3>1. /\ notify[n].msg.about \in 1..notify[n].msg.seen
          /\ notify[n].msg.seen <= cseq /\ notify[n].msg.seen \in Nat
          /\ refer[t] = cseq
      BY <2>4, SMTT(90) DEF ReferDone, IInv, NotifyInv, Messages, ReferInv
    <3>2. cseq > 1 \/ notify[n].msg.about = refer[t]
      BY <2>c, <3>1, SMTT(90)
    <3>3. cseq' = cseq
      BY <2>4 DEF ReferDone, legVars
    <3>4. CASE notify[n].msg.about = refer[t]
      <4>1. UNCHANGED misled
        BY <2>4, <3>4 DEF ReferDone
      <4> QED
        BY <2>1, <3>3, <4>1
    <3> QED
      BY <3>2, <3>3, <3>4 DEF FirstTransferIsOwn
  <2>5. ASSUME (\E p \in Parts : PartEnds(p)) \/ HangUp \/ UNCHANGED vars
        PROVE  UNCHANGED <<misled, cseq>>
    BY <2>5 DEF PartEnds, HangUp, vars, wrkVars, legVars
  <2> QED
    BY <2>1, <2>2, <2>3, <2>4, <2>5 DEF Next, Rest
<1> QED
  BY <1>1, <1>2, Invariance, PTL DEF Spec

-----------------------------------------------------------------------------
(* What requests and a transferred call wait for.                           *)

\* A request waits for the worker that runs, or for a channel that was closed;
\* and the transfer that succeeded is about to arm the timer, has armed it, or
\* the call is over.
NobodyIsLeft ==
  /\ \A r \in Reqs : pc[r] = "wait" => pending = joined[r] \/ closed[joined[r]]
  /\ \A t \in Reqs : result[t] = "completed" =>
       wpc[t] = "end" \/ hangup \/ "over" \in gone

\* A worker leaves the registry after it closed the channel, and transferCall
\* arms the timer before it returns.
LeaveInv ==
  \A t \in Reqs :
    /\ wpc[t] \in {"delete", "done"} => closed[t]
    /\ result[t] = "completed" => wpc[t] = "end" \/ hangup \/ "over" \in gone

\* Every step keeps LeaveInv.
LEMMA LeaveStep == IInv /\ LeaveInv /\ [Next]_vars => LeaveInv'
<1> SUFFICES ASSUME IInv, LeaveInv, [Next]_vars PROVE LeaveInv'
  OBVIOUS
<1>t. /\ wpc \in [Reqs -> WorkerStates] /\ closed \in [Reqs -> BOOLEAN]
      /\ result \in [Reqs -> Outcomes \cup {none}]
  BY DEF IInv, TypeInv, PendType, WorkerType
<1>f. ASSUME UNCHANGED <<wpc, result, closed>>, gone \subseteq gone',
             hangup => hangup' \/ "over" \in gone'
      PROVE  LeaveInv'
  BY <1>f DEF LeaveInv
<1>1. ASSUME NEW r \in Reqs,
        CheckProvider(r) \/ RPCCanceled(r) \/ ReceiveDone(r)
      PROVE  LeaveInv'
  <2>1. UNCHANGED <<wpc, result, closed, hangup, gone>>
    BY <1>1 DEF CheckProvider, RPCCanceled, ReceiveDone, wrkVars, sndVars,
       pendVars
  <2> QED
    BY <1>f, <2>1
<1>2. ASSUME NEW r \in Reqs, getOrCreatePendingTransfer(r) PROVE LeaveInv'
  <2>1. UNCHANGED <<gone, closed, result, hangup>>
    BY <1>2 DEF getOrCreatePendingTransfer, sndVars
  <2>2. wpc[r] = "off"
    BY <1>2 DEF getOrCreatePendingTransfer, IInv, ReqInv
  <2>3. wpc' = [wpc EXCEPT ![r] = "lookup"] \/ UNCHANGED wpc
    BY <1>2 DEF getOrCreatePendingTransfer
  <2> QED
    BY <1>t, <2>1, <2>2, <2>3 DEF LeaveInv
<1>3. ASSUME NEW r \in Reqs, processParticipantTransfer(r) PROVE LeaveInv'
  <2>1. UNCHANGED <<gone, closed, hangup>> /\ wpc[r] = "lookup"
    BY <1>3 DEF processParticipantTransfer, Move, pendVars
  <2>2. \/ /\ wpc' = [wpc EXCEPT ![r] = "send"]
           /\ result' = [result EXCEPT ![r] = "failed"]
        \/ wpc' = [wpc EXCEPT ![r] = "refer"] /\ UNCHANGED result
    BY <1>3 DEF processParticipantTransfer, Move
  <2> QED
    BY <1>t, <2>1, <2>2 DEF LeaveInv
<1>4. ASSUME NEW r \in Reqs,
        newReferReq(r) \/ sendRefer(r) \/ RingingTimeout(r) \/ CallDone(r)
          \/ GraceOver(r)
      PROVE  LeaveInv'
  <2>1. UNCHANGED <<gone, closed, hangup>> /\ wpc[r] # "end"
    BY <1>4 DEF newReferReq, sendRefer, Ends, RingingTimeout, CallDone,
       GraceOver, Move, pendVars, sndVars
  <2>2. \E q \in {"sent", "wait", "grace", "end"} :
          /\ wpc' = [wpc EXCEPT ![r] = q]
          /\ UNCHANGED result \/ result' = [result EXCEPT ![r] = "failed"]
    BY <1>4 DEF newReferReq, sendRefer, Ends, RingingTimeout, CallDone,
       GraceOver, Move
  <2> QED
    BY <1>t, <2>1, <2>2 DEF LeaveInv
<1>5. ASSUME NEW r \in Reqs, transferCallReturns(r) PROVE LeaveInv'
  <2>1. /\ UNCHANGED <<gone, closed, result>>
        /\ wpc' = [wpc EXCEPT ![r] = "send"]
    BY <1>5 DEF transferCallReturns, Move, pendVars
  <2>2. (hangup => hangup') /\ (result[r] = "completed" => hangup')
    BY <1>5 DEF transferCallReturns
  <2> QED
    BY <1>t, <2>1, <2>2 DEF LeaveInv
<1>6. ASSUME NEW r \in Reqs, SendDone(r) \/ StoreOutcome(r) \/ DeletePending(r)
      PROVE  LeaveInv'
  <2>1. /\ UNCHANGED <<gone, closed, result, hangup>>
        /\ wpc[r] \in {"send", "store", "delete"}
        /\ wpc' = [wpc EXCEPT ![r] = CASE wpc[r] = "send" -> "store"
                                       [] wpc[r] = "store" -> "close"
                                       [] OTHER -> "done"]
    BY <1>6 DEF SendDone, StoreOutcome, DeletePending, Move, sndVars
  <2> QED
    BY <1>t, <2>1 DEF LeaveInv
<1>7. ASSUME NEW r \in Reqs, CloseDone(r) PROVE LeaveInv'
  BY <1>7, <1>t DEF CloseDone, Move, LeaveInv, sndVars
<1>8. ASSUME NEW n \in Notifies,
        handleReferNotify(n) \/ NotifyRefused(n) \/ NotifyTimeout(n)
      PROVE  LeaveInv'
  <2>1. UNCHANGED <<wpc, result, closed, hangup, gone>>
    BY <1>8 DEF handleReferNotify, NotifyRefused, NotifyTimeout, wrkVars,
       sndVars, pendVars
  <2> QED
    BY <1>f, <2>1
<1>9. ASSUME NEW n \in Notifies, NEW t \in Reqs, ReferDone(n, t)
      PROVE  LeaveInv'
  <2>1. /\ UNCHANGED <<gone, closed, hangup>>
        /\ wpc' = [wpc EXCEPT ![t] = "end"]
        /\ result' = [result EXCEPT ![t] = notify[n].msg.res]
    BY <1>9 DEF ReferDone, pendVars, sndVars
  <2> QED
    BY <1>t, <2>1 DEF LeaveInv
<1>10. CASE (\E p \in Parts : PartEnds(p)) \/ HangUp \/ UNCHANGED vars
  BY <1>10, <1>f, SMTT(90) DEF PartEnds, HangUp, vars, wrkVars, sndVars,
     pendVars
<1> QED
  BY <1>1, <1>2, <1>3, <1>4, <1>5, <1>6, <1>7, <1>8, <1>9, <1>10
     DEF Next, Worker, Rest

\* Nobody waits in vain: a request that waits has a worker in the registry or a
\* closed channel to receive from, and a transferred call has its timer armed.
THEOREM NobodyWaitsInVain == Spec => []NobodyIsLeft
<1>1. Init => LeaveInv
  BY ColdTransferAssumption DEF Init, LeaveInv, Outcomes
<1>2. IInv /\ LeaveInv => NobodyIsLeft
  BY DEF IInv, ReqInv, PendInv, LeaveInv, NobodyIsLeft
<1> QED
  BY <1>1, <1>2, LeaveStep, Invariance, PTL DEF Spec
=============================================================================
