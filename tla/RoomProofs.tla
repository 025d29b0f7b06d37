----------------------------- MODULE RoomProofs -----------------------------
(***************************************************************************)
(* Proofs about Room, for any set of tracks and any number of sessions and *)
(* of goroutines that close the room.  They rest on the flag that          *)
(* Subscribe sets, on recoveryClosed, and on the SID that onReconnecting   *)
(* keeps.                                                                  *)
(***************************************************************************)
EXTENDS Room, TLAPS

\* Zenon proves a leaf unless the leaf names SMT.  Most need a fraction of a
\* second; the limits leave room for a slow machine.
USE ZenonT(90)

\* Before the flag is set nothing that would subscribe to a track is under way:
\* no worker of a recovery, and no callback about to register one.
QuietInv ==
  pc \in {"new", "joining", "joined", "flag"} =>
    /\ ~subscribe /\ subs = {}
    /\ started = 0 /\ working = 0
    /\ cb # "register"

\* A Close that waits for the workers, or has, has stopped their registration;
\* and once one has returned there are none.
JoinInv ==
  /\ started \in Nat /\ working \in Nat
  /\ closer \in [Closers -> {"idle", "disconnect", "join", "wait",
                              "returned"}]
  /\ \A k \in Closers : closer[k] \in {"wait", "returned"} => recoveryClosed
  /\ \A k \in Closers : closer[k] = "returned" => started = 0 /\ working = 0

-----------------------------------------------------------------------------

\* Every way to a subscription goes through the flag that Subscribe sets:
\* Subscribe itself, the callbacks of the SDK, and the recovery.
LEMMA QuietStep == JoinInv /\ QuietInv /\ [Next]_vars => QuietInv'
<1> SUFFICES ASSUME JoinInv, QuietInv, [Next]_vars PROVE QuietInv'
  OBVIOUS
<1>f. ASSUME UNCHANGED <<pc, subs, started, working, cb>>,
             subscribe' => subscribe
      PROVE  QuietInv'
  BY <1>f DEF QuietInv
<1>1. CASE Reconnecting \/ OnDisconnected \/ UNCHANGED vars
  <2>1. UNCHANGED <<pc, subs, started, working, cb, subscribe>>
    BY <1>1 DEF Reconnecting, OnDisconnected, vars, callVars, recVars
  <2> QED BY <2>1, <1>f
<1>2. ASSUME NEW i \in Items, Published(i) PROVE QuietInv'
  <2>1. UNCHANGED <<pc, subs, started, working, cb, subscribe>>
    BY <1>2 DEF Published, callVars, recVars
  <2> QED BY <2>1, <1>f
<1>3. ASSUME NEW k \in Closers,
             \/ CloseWithReason(k) \/ disconnect(k)
             \/ stopRecovery(k) \/ closeReturns(k)
      PROVE  QuietInv'
  <2>1. UNCHANGED <<pc, subs, started, working, cb>>
    BY <1>3 DEF CloseWithReason, disconnect, stopRecovery, closeReturns,
       callVars, recVars
  <2>2. subscribe' => subscribe
    BY <1>3 DEF CloseWithReason, disconnect, stopRecovery, closeReturns
  <2> QED BY <2>1, <2>2, <1>f
<1> USE DEF QuietInv
<1>4. CASE join \/ Connect \/ Subscribe
  <2>1. UNCHANGED <<subs, started, working, cb, subscribe>>
    BY <1>4 DEF join, Connect, Subscribe, recVars
  <2>2. pc \in {"new", "joining", "joined"}
    BY <1>4 DEF join, Connect, Subscribe
  <2> QED BY <2>1, <2>2
<1>5. CASE storeFlag \/ listParticipants \/ subscribeAll
  BY <1>5 DEF storeFlag, listParticipants, subscribeAll
<1>6. CASE compareSID
  BY <1>6 DEF compareSID, callVars
<1>7. CASE registerWorker
  BY <1>7 DEF registerWorker, callVars
<1>8. ASSUME NEW i \in Items, OnPublished(i) PROVE QuietInv'
  BY <1>8 DEF OnPublished, callVars, recVars
<1>9. CASE resubscribeAfterReconnect
  BY <1>9, SMTT(90) DEF resubscribeAfterReconnect, callVars
<1>10. CASE workerSubscribes
  BY <1>10, SMTT(90) DEF workerSubscribes, callVars
<1>11. CASE NewSession
  BY <1>11 DEF NewSession, callVars, recVars
<1>12. CASE Reconnected
  BY <1>12 DEF Reconnected, onReconnected, callVars
<1> HIDE DEF QuietInv
<1> QED
  BY <1>1, <1>2, <1>3, <1>4, <1>5, <1>6, <1>7, <1>8, <1>9, <1>10, <1>11, <1>12
     DEF Next, Call, Callbacks, Workers, Closing, SDK

\* recoveryMu orders a registration before or after the Close: one before it is
\* waited for, one after it is refused.
LEMMA JoinStep == JoinInv /\ [Next]_vars => JoinInv'
<1> SUFFICES ASSUME JoinInv, [Next]_vars PROVE JoinInv'
  OBVIOUS
<1>f. ASSUME UNCHANGED <<started, working, closer, recoveryClosed>>
      PROVE  JoinInv'
  BY <1>f DEF JoinInv
<1>1. CASE \/ Call \/ compareSID \/ UNCHANGED vars
           \/ Reconnecting \/ NewSession \/ Reconnected
           \/ OnDisconnected
  <2>1. UNCHANGED <<started, working, closer, recoveryClosed>>
    BY <1>1 DEF Call, join, Connect, Subscribe, storeFlag, listParticipants,
       subscribeAll, compareSID, Reconnecting, NewSession, Reconnected,
       onReconnected, OnDisconnected, vars, recVars, endVars
  <2> QED BY <2>1, <1>f
<1>2. ASSUME NEW i \in Items, OnPublished(i) \/ Published(i)
      PROVE  JoinInv'
  <2>1. UNCHANGED <<started, working, closer, recoveryClosed>>
    BY <1>2 DEF OnPublished, Published, recVars, endVars
  <2> QED BY <2>1, <1>f
<1> USE DEF JoinInv
<1>3. CASE registerWorker
  BY <1>3, SMTT(90) DEF registerWorker, endVars
<1>4. CASE resubscribeAfterReconnect
  BY <1>4, SMTT(90) DEF resubscribeAfterReconnect, endVars
<1>5. CASE workerSubscribes
  BY <1>5, SMTT(90) DEF workerSubscribes, endVars
<1>6. ASSUME NEW k \in Closers, CloseWithReason(k) PROVE JoinInv'
  BY <1>6 DEF CloseWithReason, recVars
<1>7. ASSUME NEW k \in Closers, disconnect(k) PROVE JoinInv'
  BY <1>7 DEF disconnect, recVars
<1>8. ASSUME NEW k \in Closers, stopRecovery(k) PROVE JoinInv'
  BY <1>8 DEF stopRecovery, recVars
<1>9. ASSUME NEW k \in Closers, closeReturns(k) PROVE JoinInv'
  BY <1>9, SMTT(90) DEF closeReturns, recVars
<1> HIDE DEF JoinInv
<1> QED
  BY <1>1, <1>2, <1>3, <1>4, <1>5, <1>6, <1>7, <1>8, <1>9
     DEF Next, Callbacks, Workers, Closing, SDK

\* The two invariants together.
LEMMA RoomInductive == Spec => [](QuietInv /\ JoinInv)
<1>1. Init => QuietInv /\ JoinInv
  BY SMTT(90) DEF Init, QuietInv, JoinInv
<1>2. QuietInv /\ JoinInv /\ [Next]_vars => (QuietInv /\ JoinInv)'
  BY QuietStep, JoinStep
<1> QED BY <1>1, <1>2, PTL DEF Spec

-----------------------------------------------------------------------------

\* No audio of the room is subscribed to before the call calls Subscribe,
\* however publications, reconnects and closes of the room interleave.
THEOREM SilentUntilSubscribe == Spec => []NotBeforeSubscribe
<1>1. QuietInv => NotBeforeSubscribe
  BY DEF QuietInv, NotBeforeSubscribe
<1> QED BY <1>1, RoomInductive, PTL

\* Every Close of the room that has returned, a second one included, left no
\* worker of resubscribeAfterReconnect behind, and none is registered later.
THEOREM RecoveryJoined == Spec => []CloseJoinsRecovery
<1>1. JoinInv => CloseJoinsRecovery
  BY SMTT(90) DEF JoinInv, CloseJoinsRecovery
<1> QED BY <1>1, RoomInductive, PTL

-----------------------------------------------------------------------------
(* No track is forgotten.                                                   *)

\* r.closed comes first in every Close, the room is there between Connect and
\* Close, and OnDisconnected is the end of the connection.
EndInv ==
  /\ stopped => conn = "gone"
  /\ recoveryClosed => closed
  /\ \A k \in Closers : closer[k] # "idle" => closed
  /\ pc = "new" => conn = "off" /\ ~room
  /\ pc \in {"new", "joining", "joined", "flag"} => ~subscribe
  /\ pc \in {"flag", "list", "subscribe"} /\ ~closed => room
  /\ subscribe /\ ~closed => room

\* The SID kept in r.reconnect is not newer than the session, and there is one
\* while the connection is down.
SidInv ==
  /\ sid \in Nat /\ reconnect \in Int /\ prev \in Int
  /\ reconnect <= sid /\ prev <= sid
  /\ conn = "down" => reconnect # -1

\* A track is subscribed to; another SIP participant unblocks the call.
Heard(i) == IF i = sip THEN subscribed ELSE i \in subs

\* Somebody is on the way to it: a callback, Subscribe, or the recovery, from the
\* SID that onReconnecting kept to the worker.
Due(i) ==
  \/ i \in events
  \/ pc = "list" \/ (pc = "subscribe" /\ i \in todo)
  \/ conn = "down" /\ reconnect # sid
  \/ cb = "compare" /\ prev # sid
  \/ cb = "register" \/ started > 0 \/ working > 0

\* What the SDK knows of is heard once the call subscribes, or is due.
NoneForgotten ==
  \A i \in Items :
    subscribe /\ ~closed /\ conn # "gone" /\ i \in known => Heard(i) \/ Due(i)

-----------------------------------------------------------------------------

\* Only Connect and Close touch r.room, and Close breaks the fuse before it does.
LEMMA EndStep == JoinInv /\ EndInv /\ [Next]_vars => EndInv'
<1> SUFFICES ASSUME JoinInv, EndInv, [Next]_vars PROVE EndInv'
  OBVIOUS
<1> USE DEF EndInv, JoinInv, recVars, endVars, sdkVars, callVars
<1>1. CASE join
  BY <1>1 DEF join
<1>2. CASE Connect \/ Subscribe \/ storeFlag
  BY <1>2, SMTT(90) DEF Connect, Subscribe, storeFlag
<1>3. CASE listParticipants \/ subscribeAll
  BY <1>3, SMTT(90) DEF listParticipants, subscribeAll
<1>4. CASE compareSID \/ registerWorker
  BY <1>4, SMTT(90) DEF compareSID, registerWorker
<1>5. ASSUME NEW i \in Items, OnPublished(i) PROVE EndInv'
  BY <1>5 DEF OnPublished
<1>6. CASE Workers
  BY <1>6, SMTT(90) DEF Workers, resubscribeAfterReconnect, workerSubscribes
<1>7. ASSUME NEW k \in Closers, CloseWithReason(k) PROVE EndInv'
  BY <1>7 DEF CloseWithReason
<1>8. ASSUME NEW k \in Closers, disconnect(k) PROVE EndInv'
  <2>1. closed
    BY <1>8 DEF disconnect
  <2>2. stopped' => conn' = "gone"
    BY <1>8 DEF disconnect
  <2>3. pc = "new" => conn' = "off" /\ ~room'
    BY <1>8 DEF disconnect
  <2> QED
    BY <1>8, <2>1, <2>2, <2>3 DEF disconnect
<1>9. ASSUME NEW k \in Closers, stopRecovery(k) \/ closeReturns(k) PROVE EndInv'
  BY <1>9, SMTT(90) DEF stopRecovery, closeReturns
<1>10. CASE Reconnecting \/ NewSession \/ Reconnected
  BY <1>10, SMTT(90) DEF Reconnecting, NewSession, Reconnected
<1>11. CASE OnDisconnected
  BY <1>11 DEF OnDisconnected
<1>12. ASSUME NEW i \in Items, Published(i) PROVE EndInv'
  BY <1>12 DEF Published
<1>13. CASE UNCHANGED vars
  BY <1>13 DEF vars
<1> QED
  BY <1>1, <1>2, <1>3, <1>4, <1>5, <1>6, <1>7, <1>8, <1>9, <1>10, <1>11,
     <1>12, <1>13 DEF Next, Call, Callbacks, Closing, SDK

\* A new session has a new SID, and the attempts that follow each other keep
\* the first one.
LEMMA SidStep == SidInv /\ [Next]_vars => SidInv'
<1> SUFFICES ASSUME SidInv, [Next]_vars PROVE SidInv'
  OBVIOUS
<1> USE DEF SidInv, recVars, endVars, sdkVars
<1>f. ASSUME UNCHANGED <<sid, reconnect, prev>>, conn' = "down" => conn = "down"
      PROVE  SidInv'
  BY <1>f
<1>1. CASE Call
  BY <1>1, <1>f DEF Call, join, Connect, Subscribe, storeFlag, listParticipants,
     subscribeAll
<1>2. CASE compareSID \/ registerWorker
  BY <1>2, SMTT(90) DEF compareSID, registerWorker
<1>3. ASSUME NEW i \in Items, OnPublished(i) \/ Published(i) PROVE SidInv'
  BY <1>3, <1>f DEF OnPublished, Published
<1>4. CASE Workers
  BY <1>4, <1>f DEF Workers, resubscribeAfterReconnect, workerSubscribes
<1>5. ASSUME NEW k \in Closers,
        CloseWithReason(k) \/ disconnect(k) \/ stopRecovery(k) \/ closeReturns(k)
      PROVE  SidInv'
  BY <1>5, <1>f DEF CloseWithReason, disconnect, stopRecovery, closeReturns
<1>6. CASE Reconnecting
  BY <1>6, SMTT(90) DEF Reconnecting, onReconnecting
<1>7. CASE NewSession \/ OnDisconnected
  BY <1>7, SMTT(90) DEF NewSession, OnDisconnected
<1>8. CASE Reconnected
  BY <1>8, SMTT(90) DEF Reconnected, onReconnected
<1>9. CASE UNCHANGED vars
  BY <1>9, <1>f DEF vars
<1> QED
  BY <1>1, <1>2, <1>3, <1>4, <1>5, <1>6, <1>7, <1>8, <1>9
     DEF Next, Callbacks, Closing, SDK

\* Whoever gives up an item that is due hands it on: the callback and Subscribe
\* subscribe to it, and the recovery passes it from the kept SID to a worker.
LEMMA HeardStep ==
  EndInv /\ SidInv /\ JoinInv /\ NoneForgotten /\ [Next]_vars => NoneForgotten'
<1> SUFFICES ASSUME EndInv, SidInv, JoinInv, NoneForgotten, [Next]_vars,
                    NEW i \in Items, subscribe', ~closed', conn' # "gone",
                    i \in known'
             PROVE  Heard(i)' \/ Due(i)'
  BY DEF NoneForgotten
<1> USE DEF recVars, endVars, sdkVars, callVars
<1>0. ASSUME subscribe, ~closed, conn # "gone", i \in known
      PROVE  Heard(i) \/ Due(i)
  BY <1>0 DEF NoneForgotten
<1>s. ASSUME NEW S, subscribeTo(S), conn # "gone"
      PROVE  (Heard(i) \/ i \in S => Heard(i)')
  BY <1>s DEF subscribeTo, Heard
<1>1. CASE join \/ Connect \/ Subscribe
  BY <1>1 DEF join, Connect, Subscribe, EndInv
<1>2. CASE storeFlag
  BY <1>2 DEF storeFlag, Due
<1>3. CASE listParticipants
  BY <1>3 DEF listParticipants, Due
<1>4. CASE subscribeAll
  BY <1>4, <1>0, <1>s DEF subscribeAll, Due
<1>5. CASE compareSID
  BY <1>5, <1>0 DEF compareSID, Due, Heard, EndInv
<1>6. CASE registerWorker
  BY <1>6, <1>0, SMTT(90) DEF registerWorker, Due, Heard, EndInv, JoinInv
<1>7. ASSUME NEW j \in Items, OnPublished(j) PROVE Heard(i)' \/ Due(i)'
  BY <1>7, <1>0, <1>s DEF OnPublished, Due
<1>8. CASE resubscribeAfterReconnect
  BY <1>8, <1>0, SMTT(90) DEF resubscribeAfterReconnect, Due, Heard, EndInv,
     JoinInv
<1>9. CASE workerSubscribes
  BY <1>9, <1>0, <1>s DEF workerSubscribes, Due
<1>10. ASSUME NEW k \in Closers, CloseWithReason(k) PROVE FALSE
  BY <1>10 DEF CloseWithReason
<1>11. ASSUME NEW k \in Closers,
         disconnect(k) \/ stopRecovery(k) \/ closeReturns(k)
       PROVE  FALSE
  BY <1>11 DEF disconnect, stopRecovery, closeReturns, EndInv
<1>12. CASE Reconnecting
  BY <1>12, <1>0 DEF Reconnecting, onReconnecting, Due, Heard, SidInv
<1>13. CASE NewSession
  BY <1>13, <1>0, SMTT(90) DEF NewSession, Due, Heard, SidInv
<1>14. CASE Reconnected
  BY <1>14, <1>0 DEF Reconnected, onReconnected, Due, Heard
<1>15. CASE OnDisconnected
  BY <1>15 DEF OnDisconnected
<1>16. ASSUME NEW j \in Items, Published(j) PROVE Heard(i)' \/ Due(i)'
  BY <1>16, <1>0 DEF Published, Due, Heard
<1>17. CASE UNCHANGED vars
  BY <1>17, <1>0 DEF vars, Due, Heard
<1> QED
  BY <1>1, <1>2, <1>3, <1>4, <1>5, <1>6, <1>7, <1>8, <1>9, <1>10, <1>11,
     <1>12, <1>13, <1>14, <1>15, <1>16, <1>17
     DEF Next, Call, Callbacks, Workers, Closing, SDK

\* A call that subscribes hears the room: whatever the SDK knows of is heard, or
\* a callback, Subscribe or the recovery is on the way to it, through resumes,
\* full reconnects and attempts that fail.
THEOREM NoTrackIsForgotten == Spec => []NoneForgotten
<1>1. Init => EndInv /\ SidInv /\ NoneForgotten
  BY RoomAssumption, SMTT(90) DEF Init, EndInv, SidInv, NoneForgotten
<1>2. JoinInv /\ EndInv /\ SidInv /\ NoneForgotten /\ [Next]_vars
        => (EndInv /\ SidInv /\ NoneForgotten)'
  BY EndStep, SidStep, HeardStep
<1> QED BY <1>1, <1>2, RoomInductive, PTL DEF Spec
=============================================================================
