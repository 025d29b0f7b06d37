-------------------------------- MODULE Room --------------------------------
(***************************************************************************)
(* The LiveKit room of a call (pkg/sip/room.go): connecting, subscribing   *)
(* to the audio of the other participants when the call asks for it, doing *)
(* so again after a reconnect, and closing.                                *)
(*                                                                         *)
(* The goroutines are the one of the call (Connect, Subscribe), the SDK's, *)
(* which runs the callbacks, a worker for every reconnect, and whoever     *)
(* closes the room.  The SDK and the server are modelled from how room.go  *)
(* describes them: a resume keeps the session and its subscriptions, a     *)
(* reconnect has a new SID and none, and a recovery that fails starts      *)
(* another one.                                                            *)
(***************************************************************************)
EXTENDS Integers

CONSTANTS
  Tracks,       \* audio tracks of other participants
  sip,          \* another SIP participant
  MaxClosers,   \* goroutines that close the room, in the order they start
  MaxSessions   \* sessions with the server

ASSUME RoomAssumption ==
  sip \notin Tracks /\ MaxSessions \in Nat \ {0} /\ MaxClosers \in Nat

Closers == 1..MaxClosers

Items == Tracks \cup {sip}   \* what subscribeAll looks at

VARIABLES
  pc,         \* where the call is
  todo,       \* what its subscribeAll found
  room,       \* r.room is set
  subscribe,  \* the flag r.subscribe
  subscribed, \* the fuse r.subscribed
  stopped,    \* the fuse r.stopped
  closed,     \* the fuse r.closed
  reconnect,  \* r.reconnect: a SID, 0 if it was unknown, or -1 for nil
  recoveryClosed,
  cb,         \* where onReconnected is
  prev,       \* the state it swapped out
  started,    \* workers that have not looked at the fuses yet
  working,    \* workers in subscribeAll
  closer,     \* where each goroutine that closes the room is
  conn,       \* the connection: "off", "up", "down" or "gone"
  sid,        \* the SID of our participant
  known,      \* the participants and tracks the SDK knows of
  events,     \* callbacks of the SDK that are due
  subs        \* the tracks that are subscribed to in this session

sdkVars  == <<conn, sid, known, events>>
callVars == <<pc, todo>>
recVars  == <<reconnect, cb, prev, started, working>>
endVars  == <<stopped, closed, recoveryClosed, closer>>
vars     == <<callVars, room, subscribe, subscribed, subs, recVars, endVars,
              sdkVars>>

Init ==
  /\ pc = "new" /\ todo = {}
  /\ room = FALSE /\ subscribe = FALSE /\ subscribed = FALSE
  /\ stopped = FALSE /\ closed = FALSE
  /\ reconnect = -1 /\ recoveryClosed = FALSE
  /\ cb = "none" /\ prev = -1
  /\ started = 0 /\ working = 0
  /\ closer = [k \in Closers |-> "idle"]
  /\ conn = "off" /\ sid = 1 /\ known = {} /\ events = {} /\ subs = {}

-----------------------------------------------------------------------------
(* The call.                                                                *)

\* JoinWithContextAndToken returns an error, or there are others in the room.
join ==
  /\ pc = "new"
  /\ \/ /\ pc' = "joining" /\ conn' = "up"
        /\ known' \in SUBSET Items
     \/ pc' = "done" /\ UNCHANGED <<conn, known>>
  /\ UNCHANGED <<todo, room, subscribe, subscribed, subs, recVars, endVars, sid,
                 events>>

\* r.room.Store, whether r was closed meanwhile or not.
Connect ==
  /\ pc = "joining" /\ pc' = "joined"
  /\ room' = TRUE
  /\ UNCHANGED <<todo, subscribe, subscribed, subs, recVars, endVars, sdkVars>>

\* Subscribe is called once the call is answered, or, for an inbound call without
\* a pin, before it is: the call is accepted when there is someone to talk to.
Subscribe ==
  /\ pc = "joined"
  /\ pc' = IF room THEN "flag" ELSE "done"
  /\ UNCHANGED <<todo, room, subscribe, subscribed, subs, recVars, endVars,
                 sdkVars>>

storeFlag ==
  /\ pc = "flag" /\ pc' = "list"
  /\ subscribe' = TRUE
  /\ UNCHANGED <<todo, room, subscribed, subs, recVars, endVars, sdkVars>>

\* GetRemoteParticipants
listParticipants ==
  /\ pc = "list" /\ pc' = "subscribe"
  /\ todo' = known
  /\ UNCHANGED <<room, subscribe, subscribed, subs, recVars, endVars, sdkVars>>

\* participantJoin for another SIP participant, subscribeTo for a track, which
\* fails on a room that was left.
subscribeTo(items) ==
  LET tracks == IF conn = "gone" THEN {} ELSE items \ {sip} IN
  /\ subs' = subs \cup tracks
  /\ subscribed' = (subscribed \/ tracks # {} \/ sip \in items)

subscribeAll ==
  /\ pc = "subscribe" /\ pc' = "done"
  /\ subscribeTo(todo)
  /\ todo' = {}
  /\ UNCHANGED <<room, subscribe, recVars, endVars, sdkVars>>

-----------------------------------------------------------------------------
(* The callbacks of the SDK.                                                *)

\* OnParticipantConnected and OnTrackPublished
OnPublished(i) ==
  /\ i \in events /\ events' = events \ {i}
  /\ IF subscribe THEN subscribeTo({i}) ELSE UNCHANGED <<subs, subscribed>>
  /\ UNCHANGED <<callVars, room, subscribe, recVars, endVars, conn, sid, known>>

onReconnectingOverwrites ==   \* mutant: the last attempt is kept
  reconnect' = IF room THEN sid ELSE 0

\* The first state is kept while attempts follow each other.
onReconnecting ==
  reconnect' = IF reconnect # -1 THEN reconnect ELSE IF room THEN sid ELSE 0

\* onReconnected: the state is swapped out.
onReconnected ==
  /\ cb = "none" /\ cb' = "compare"
  /\ prev' = reconnect /\ reconnect' = -1

recoverUnasked ==   \* mutant: the flag is not looked at
  /\ cb = "compare"
  /\ cb' = IF ~room \/ prev = sid THEN "none" ELSE "register"
  /\ prev' = -1
  /\ UNCHANGED <<callVars, room, subscribe, subscribed, subs, reconnect,
                 started, working, endVars, sdkVars>>

\* A resume, a room that is closed, or a call that has not subscribed yet needs
\* nothing.
compareSID ==
  /\ cb = "compare"
  /\ cb' = IF ~room \/ prev = sid \/ ~subscribe THEN "none" ELSE "register"
  /\ prev' = -1
  /\ UNCHANGED <<callVars, room, subscribe, subscribed, subs, reconnect,
                 started, working, endVars, sdkVars>>

registerAlways ==   \* mutant: recoveryClosed is not looked at
  /\ cb = "register" /\ cb' = "none"
  /\ started' = started + 1
  /\ UNCHANGED <<callVars, room, subscribe, subscribed, subs, reconnect, prev,
                 working, endVars, sdkVars>>

\* recoveryWG.Add under recoveryMu, and the goroutine.
registerWorker ==
  /\ cb = "register" /\ cb' = "none"
  /\ started' = IF recoveryClosed THEN started ELSE started + 1
  /\ UNCHANGED <<callVars, room, subscribe, subscribed, subs, reconnect, prev,
                 working, endVars, sdkVars>>

-----------------------------------------------------------------------------
(* The workers.                                                             *)

resubscribeAfterReconnect ==
  /\ started > 0 /\ started' = started - 1
  /\ working' = IF closed \/ stopped THEN working ELSE working + 1
  /\ UNCHANGED <<callVars, room, subscribe, subscribed, subs, reconnect, cb,
                 prev, endVars, sdkVars>>

workerSubscribes ==
  /\ working > 0 /\ working' = working - 1
  /\ subscribeTo(known)
  /\ UNCHANGED <<callVars, room, subscribe, reconnect, cb, prev, started,
                 endVars, sdkVars>>

-----------------------------------------------------------------------------
(* Closing.                                                                 *)

\* The closed fuse, and the flag.  A second Close goes on to the workers.
CloseWithReason(k) ==
  /\ closer[k] = "idle" /\ \A j \in 1..(k - 1) : closer[j] # "idle"
  /\ closer' = [closer EXCEPT ![k] = IF closed THEN "join" ELSE "disconnect"]
  /\ closed' = TRUE
  /\ subscribe' = (closed /\ subscribe)
  /\ UNCHANGED <<callVars, room, subscribed, subs, recVars, stopped,
                 recoveryClosed, sdkVars>>

\* r.room is cleared and the SDK disconnects, which may call OnDisconnected.
disconnect(k) ==
  /\ closer[k] = "disconnect"
  /\ closer' = [closer EXCEPT ![k] = "join"]
  /\ room' = FALSE
  /\ IF room THEN /\ conn' = "gone" /\ events' = {}
                  /\ stopped' \in {stopped, TRUE}
             ELSE UNCHANGED <<conn, events, stopped>>
  /\ UNCHANGED <<callVars, subscribe, subscribed, subs, recVars, closed,
                 recoveryClosed, sid, known>>

\* No worker is registered from here on.
stopRecovery(k) ==
  /\ closer[k] = "join"
  /\ closer' = [closer EXCEPT ![k] = "wait"]
  /\ recoveryClosed' = TRUE
  /\ UNCHANGED <<callVars, room, subscribe, subscribed, subs, recVars, stopped,
                 closed, sdkVars>>

\* recoveryWG.Wait
closeReturns(k) ==
  /\ closer[k] = "wait" /\ started + working = 0
  /\ closer' = [closer EXCEPT ![k] = "returned"]
  /\ UNCHANGED <<callVars, room, subscribe, subscribed, subs, recVars, stopped,
                 closed, recoveryClosed, sdkVars>>

-----------------------------------------------------------------------------
(* The SDK and the server.                                                  *)

\* Someone joins or publishes, the SDK knows, and calls back.
Published(i) ==
  /\ conn = "up" /\ i \notin known
  /\ known' = known \cup {i} /\ events' = events \cup {i}
  /\ UNCHANGED <<callVars, room, subscribe, subscribed, subs, recVars, endVars,
                 conn, sid>>

\* The connection is lost, or an attempt to recover it is followed by another.
Reconnecting ==
  /\ conn \in {"up", "down"} /\ conn' = "down"
  /\ onReconnecting
  /\ UNCHANGED <<callVars, room, subscribe, subscribed, subs, cb, prev, started,
                 working, endVars, sid, known, events>>

\* A full reconnect: a new session, without subscriptions.
NewSession ==
  /\ conn = "down" /\ sid < MaxSessions
  /\ sid' = sid + 1 /\ subs' = {}
  /\ UNCHANGED <<callVars, room, subscribe, subscribed, recVars, endVars, conn,
                 known, events>>

Reconnected ==
  /\ conn = "down" /\ conn' = "up"
  /\ onReconnected
  /\ UNCHANGED <<callVars, room, subscribe, subscribed, subs, started, working,
                 endVars, sid, known, events>>

OnDisconnected ==
  /\ conn \in {"up", "down"} /\ conn' = "gone"
  /\ stopped' = TRUE /\ events' = {}
  /\ UNCHANGED <<callVars, room, subscribe, subscribed, subs, recVars, closed,
                 recoveryClosed, closer, sid, known>>

Call == join \/ Connect \/ Subscribe \/ storeFlag \/ listParticipants
          \/ subscribeAll

Callbacks == compareSID \/ registerWorker \/ \E i \in Items : OnPublished(i)

Workers == resubscribeAfterReconnect \/ workerSubscribes

Closing == \E k \in Closers : CloseWithReason(k) \/ disconnect(k)
                                \/ stopRecovery(k) \/ closeReturns(k)

SDK == Reconnecting \/ NewSession \/ Reconnected \/ OnDisconnected
         \/ \E i \in Items : Published(i)

Next == Call \/ Callbacks \/ Workers \/ Closing \/ SDK

Spec == Init /\ [][Next]_vars

\* Subscribe goes on once it was called, the SDK runs the callbacks that are
\* due, and the workers run.
Fairness ==
  /\ WF_vars(storeFlag \/ listParticipants \/ subscribeAll)
  /\ WF_vars(compareSID \/ registerWorker)
  /\ \A i \in Items : WF_vars(OnPublished(i))
  /\ WF_vars(resubscribeAfterReconnect) /\ WF_vars(workerSubscribes)

FairSpec == Spec /\ Fairness

-----------------------------------------------------------------------------
(* Properties.                                                              *)

\* Nothing of the room is subscribed to before the call asks for it: until
\* Subscribe neither a callback nor the recovery from a reconnect takes a track.
\* For an outbound call and for a call with a pin this is before the leg was
\* accepted; an inbound call without a pin subscribes while it still rings.
NotBeforeSubscribe == pc \in {"new", "joining", "joined"} => subs = {}

\* Close joins the recovery: once a Close has returned, whichever it was, no
\* worker of a reconnect runs or will be started.
CloseJoinsRecovery ==
  (\E k \in Closers : closer[k] = "returned") =>
    /\ recoveryClosed
    /\ started + working = 0

\* The caller hears the room: once the call subscribes, every audio track is
\* subscribed to, however its publication, Subscribe and reconnects interleave,
\* unless the room is left or recovering; and another SIP participant, which
\* may wait for this one, unblocks the call.
RoomAudio ==
  \A i \in Items :
    (subscribe /\ i \in known) ~>
      ((IF i = sip THEN subscribed ELSE i \in subs) \/ closed \/ conn # "up")
=============================================================================
