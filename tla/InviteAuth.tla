----------------------------- MODULE InviteAuth -----------------------------
(***************************************************************************)
(* How the INVITEs of one caller (one Call-ID and From tag) become calls:  *)
(* processInvite of pkg/sip/inbound.go, with the auth lookup of            *)
(* pkg/service/psrpc.go, the digest challenge, the timer that ends a       *)
(* challenged call which is not retried, and the caches that tie a retry   *)
(* to its challenge.  Every INVITE has a goroutine of its own; a call that *)
(* was set up goes on in the module InboundCall.                           *)
(*                                                                         *)
(* authChallengeTimeout bounds both the age of a nonce and the timer.  The *)
(* nonce is made before the timer is started, so it has expired when the   *)
(* timer is due.  Time is the set expired of the nonces that are too old.  *)
(***************************************************************************)
EXTENDS Integers, FiniteSets

CONSTANTS
  MaxInvites,   \* INVITEs of the caller, in the order they arrive
  MaxEvictions  \* entries that are evicted from the caches

ASSUME InviteAuthAssumption ==
  MaxInvites \in Nat \ {0} /\ MaxEvictions \in Nat

\* The same numbers name an INVITE, the local tag and the inboundCallInfo made
\* for it, the nonce it is challenged with and its timer; 0 is none.
Invites == 1..MaxInvites
Ref     == 0..MaxInvites

VARIABLES
  st,        \* where each INVITE is
  tag,       \* cc.ID()
  cseq,      \* cc.InviteCSeq()
  cred,      \* the nonce its Proxy-Authorization answers
  beside,    \* the INVITEs in progress when it arrived (history)
  retryOf,   \* the challenge it is a retry of, in time (history)
  prov,      \* provisionalInvites: the local tag for the caller
  rejected,  \* rejectedInvites has a response for the caller
  info,      \* infos.byLocalTag: the inboundCallInfo of a tag
  obj,       \* the inboundCallInfo an INVITE uses
  current,   \* challengeTimer of an inboundCallInfo
  timer,     \* the timer of each challenge
  expired,   \* the nonces older than digestNonceTTL
  reg,       \* byLocalTag: the INVITE whose call has the tag
  ends,      \* EventCallEnded emitted for an INVITE (history)
  challenged,\* INVITEs answered with a 407 (history)
  stopped,   \* challenges superseded by another INVITE (history)
  honoured,  \* nonces accepted from a retry tied to its challenge (history)
  evicted,   \* how many entries were evicted (history)
  second     \* a call replaced another one of its tag (history)

cacheVars == <<prov, rejected, info>>
timerVars == <<current, timer, stopped>>
invVars   == <<tag, cseq, cred, beside, retryOf>>
histVars  == <<challenged, honoured, evicted, second>>
vars      == <<st, invVars, cacheVars, obj, timerVars, expired, reg, ends,
               histVars>>

Init ==
  /\ st = [i \in Invites |-> "idle"]
  /\ tag = [i \in Invites |-> 0]
  /\ cseq = [i \in Ref |-> 0]
  /\ cred = [i \in Invites |-> 0]
  /\ beside = [i \in Ref |-> {}]
  /\ retryOf = [i \in Invites |-> 0]
  /\ prov = 0 /\ rejected = FALSE
  /\ info = [t \in Invites |-> 0]
  /\ obj = [i \in Invites |-> 0]
  /\ current = [o \in Invites |-> 0]
  /\ timer = [i \in Invites |-> "off"]
  /\ expired = {}
  /\ reg = [t \in Invites |-> 0]
  /\ ends = [i \in Invites |-> 0]
  /\ challenged = {} /\ stopped = {} /\ honoured = {} /\ evicted = 0
  /\ second = {}

Goto(i, from, next) ==
  /\ st[i] = from
  /\ st' = [st EXCEPT ![i] = next]

InProgress ==
  {i \in Invites : st[i] \in {"lookup", "check", "keep", "challenge", "setup"}}

-----------------------------------------------------------------------------
(* The arrival of an INVITE.                                                *)

\* The local tag: the To tag of a request in a dialog, else the one an
\* earlier response gave the caller, else a new one.
newInbound(i, toTag) ==
  IF toTag # 0 THEN toTag ELSE IF prov # 0 THEN prov ELSE i

\* To tags: none, or the one of a call.
Dialogs == {0} \cup {tag[j] : j \in {k \in Invites : st[k] = "up"}}

arriveNoReinvite(i) ==   \* mutant: byLocalTag is not consulted
  /\ st[i] = "idle" /\ \A j \in 1..(i - 1) : st[j] # "idle"
  /\ \E toTag \in Dialogs, n \in {cseq[i - 1], cseq[i - 1] + 1} \ {0},
        k \in {0} \cup challenged :
       /\ toTag # 0 => n > cseq[i - 1] /\ k = 0
       /\ tag' = [tag EXCEPT ![i] = newInbound(i, toTag)]
       /\ cseq' = [cseq EXCEPT ![i] = n]
       /\ cred' = [cred EXCEPT ![i] = k]
       /\ retryOf' = [retryOf EXCEPT ![i] = IF k \in expired THEN 0 ELSE k]
       /\ st' = [st EXCEPT ![i] = IF rejected THEN "done" ELSE "lookup"]
  /\ beside' = [beside EXCEPT ![i] = InProgress]
  /\ UNCHANGED <<cacheVars, obj, timerVars, expired, reg, ends, histVars>>

\* An INVITE with the CSeq of the one before it or the next one, and with no
\* credentials or with an answer to a challenge; within a dialog the CSeq
\* increases and the caller is not challenged.  A cached rejection is
\* replayed; an INVITE newer than the one of the call that has its tag is a
\* re-INVITE, answered at once.
processInvite(i) ==
  /\ st[i] = "idle" /\ \A j \in 1..(i - 1) : st[j] # "idle"
  /\ \E toTag \in Dialogs, n \in {cseq[i - 1], cseq[i - 1] + 1} \ {0},
        k \in {0} \cup challenged :
       /\ toTag # 0 => n > cseq[i - 1] /\ k = 0
       /\ tag' = [tag EXCEPT ![i] = newInbound(i, toTag)]
       /\ cseq' = [cseq EXCEPT ![i] = n]
       /\ cred' = [cred EXCEPT ![i] = k]
       /\ retryOf' = [retryOf EXCEPT ![i] = IF k \in expired THEN 0 ELSE k]
       /\ LET existing == reg[newInbound(i, toTag)] IN
          st' = [st EXCEPT ![i] =
            IF rejected \/ (existing # 0 /\ cseq[existing] < n) THEN "done"
            ELSE "lookup"]
  /\ beside' = [beside EXCEPT ![i] = InProgress]
  /\ UNCHANGED <<cacheVars, obj, timerVars, expired, reg, ends, histVars>>

\* A source address or headers that cannot be used.
inviteInvalid(i) ==
  /\ st[i] = "idle" /\ \A j \in 1..(i - 1) : st[j] # "idle"
  /\ st' = [st EXCEPT ![i] = "done"]
  /\ cseq' = [cseq EXCEPT ![i] = cseq[i - 1]]
  /\ UNCHANGED <<tag, cred, beside, retryOf, cacheVars, obj, timerVars,
                 expired, reg, ends, histVars>>

-----------------------------------------------------------------------------
(* The answer of the auth lookup.                                           *)

Ended(i) == ends' = [ends EXCEPT ![i] = @ + 1]

\* The lookup fails, or it refuses the call: it is answered, the answer is
\* cached and the deferred function reports the end.
lookupRejects(i) ==
  /\ Goto(i, "lookup", "done")
  /\ rejected' = TRUE
  /\ Ended(i)
  /\ cred' = [cred EXCEPT ![i] = 0]
  /\ UNCHANGED <<tag, cseq, beside, retryOf, prov, info, obj, timerVars,
                 expired, reg, histVars>>

\* AuthDrop: no answer.
lookupDrops(i) ==
  /\ Goto(i, "lookup", "done")
  /\ Ended(i)
  /\ cred' = [cred EXCEPT ![i] = 0]
  /\ UNCHANGED <<tag, cseq, beside, retryOf, cacheVars, obj, timerVars,
                 expired, reg, histVars>>

getCallInfo(i) ==
  LET o == IF info[tag[i]] # 0 THEN info[tag[i]] ELSE i IN
  /\ info' = [info EXCEPT ![tag[i]] = o]
  /\ obj' = [obj EXCEPT ![i] = o]

\* AuthAccept: no password.  The timer of a challenge goes on.
lookupAccepts(i) ==
  /\ Goto(i, "lookup", "setup")
  /\ getCallInfo(i)
  /\ cred' = [cred EXCEPT ![i] = 0]
  /\ UNCHANGED <<tag, cseq, beside, retryOf, prov, rejected, timerVars,
                 expired, reg, ends, histVars>>

\* The effect of stopChallengeTimerLocked and of a new value c for
\* challengeTimer: a timer that is still armed is stopped.
setChallengeTimer(o, c) ==
  LET p == current[o] IN
  /\ current' = [current EXCEPT ![o] = c]
  /\ stopped' = IF p = 0 THEN stopped ELSE stopped \cup {p}
  /\ timer' = [k \in Invites |->
       IF k = c THEN "armed"
       ELSE IF k = p /\ timer[k] = "armed" THEN "off" ELSE timer[k]]

\* AuthPassword: "A new INVITE supersedes the pending challenge".
lookupPassword(i) ==
  /\ Goto(i, "lookup", "check")
  /\ getCallInfo(i)
  /\ setChallengeTimer(obj'[i], 0)
  /\ UNCHANGED <<invVars, prov, rejected, expired, reg, ends, histVars>>

\* The error code, the drop flag and the credentials of the response.
GetAuthCredentials(i) ==
  \/ lookupRejects(i) \/ lookupDrops(i)
  \/ lookupAccepts(i) \/ lookupPassword(i)

-----------------------------------------------------------------------------
(* The digest.                                                              *)

checkDigestNonceForever(k) == TRUE   \* mutant: a nonce does not expire

\* The nonce is no older than digestNonceTTL.
checkDigestNonce(k) == k \notin expired

\* validateAuthorization: credentials that are malformed, of another user,
\* with another response or for a nonce that is not ours are refused, and so
\* is an INVITE for which no nonce can be made.  The local tag is kept for
\* the next INVITE.
authRefused(i) ==
  /\ Goto(i, "check", "done")
  /\ prov' = tag[i]
  /\ Ended(i)
  /\ cred' = [cred EXCEPT ![i] = 0]
  /\ UNCHANGED <<tag, cseq, beside, retryOf, rejected, info, obj, timerVars,
                 expired, reg, histVars>>

\* No credentials, or good ones for an old nonce: a new nonce and a 407.
authChallenge(i) ==
  /\ Goto(i, "check", "keep")
  /\ cred[i] # 0 => ~checkDigestNonce(cred[i])
  /\ challenged' = challenged \cup {i}
  /\ cred' = [cred EXCEPT ![i] = 0]
  /\ UNCHANGED <<tag, cseq, beside, retryOf, cacheVars, obj, timerVars,
                 expired, reg, ends, honoured, evicted, second>>

\* After the 407 the local tag is kept for the retry.
keepTag(i) ==
  /\ Goto(i, "keep", "challenge")
  /\ prov' = tag[i]
  /\ UNCHANGED <<invVars, rejected, info, obj, timerVars, expired, reg, ends,
                 histVars>>

\* The retry i found the challenge k: the caches have kept their entries, and
\* the goroutine of k had started the timer when i arrived.
Tied(i, k) == evicted = 0 /\ tag[i] = tag[k] /\ k \notin beside[i]

authAccepted(i) ==
  /\ Goto(i, "check", "setup")
  /\ cred[i] # 0 /\ checkDigestNonce(cred[i])
  /\ honoured' = honoured \cup {k \in {cred[i]} : Tied(i, k)}
  /\ cred' = [cred EXCEPT ![i] = 0]
  /\ UNCHANGED <<tag, cseq, beside, retryOf, cacheVars, obj, timerVars,
                 expired, reg, ends, challenged, evicted, second>>

startTimerUnset(i) ==   \* mutant: challengeTimer is not set to the new timer
  /\ Goto(i, "challenge", "done")
  /\ timer' = [timer EXCEPT ![i] = "armed"]
  /\ UNCHANGED <<invVars, cacheVars, obj, current, stopped, expired, reg,
                 ends, histVars>>

\* The end of a challenged INVITE is left to the timer or the next INVITE.
startChallengeTimer(i) ==
  /\ Goto(i, "challenge", "done")
  /\ setChallengeTimer(obj[i], i)
  /\ UNCHANGED <<invVars, cacheVars, obj, expired, reg, ends, histVars>>

-----------------------------------------------------------------------------
(* The challenge timer.                                                     *)

NonceExpires(k) ==
  /\ k \in challenged \ expired
  /\ expired' = expired \cup {k}
  /\ UNCHANGED <<st, invVars, cacheVars, obj, timerVars, reg, ends, histVars>>

\* The timer is due: its function runs and waits for the lock.
timerDue(k) ==
  /\ timer[k] = "armed" /\ k \in expired
  /\ timer' = [timer EXCEPT ![k] = "running"]
  /\ UNCHANGED <<st, invVars, cacheVars, obj, current, stopped, expired, reg,
                 ends, histVars>>

timerAlwaysCurrent(k) ==   \* mutant: a stopped timer fires as well
  /\ timer[k] = "running"
  /\ timer' = [timer EXCEPT ![k] = "firing"]
  /\ current' = [current EXCEPT ![obj[k]] = 0]
  /\ UNCHANGED <<st, invVars, cacheVars, obj, stopped, expired, reg, ends,
                 histVars>>

\* "only the current one fires"
timerLocked(k) ==
  /\ timer[k] = "running"
  /\ \/ /\ current[obj[k]] = k
        /\ timer' = [timer EXCEPT ![k] = "firing"]
        /\ current' = [current EXCEPT ![obj[k]] = 0]
     \/ /\ current[obj[k]] # k
        /\ timer' = [timer EXCEPT ![k] = "off"]
        /\ UNCHANGED current
  /\ UNCHANGED <<st, invVars, cacheVars, obj, stopped, expired, reg, ends,
                 histVars>>

\* The state of the challenged INVITE gets its final update and its end.
timerFires(k) ==
  /\ timer[k] = "firing"
  /\ timer' = [timer EXCEPT ![k] = "fired"]
  /\ Ended(k)
  /\ UNCHANGED <<st, invVars, cacheVars, obj, current, stopped, expired, reg,
                 histVars>>

-----------------------------------------------------------------------------
(* The call.                                                                *)

\* INVITEs that were in progress together.
Overlap(i, j) == j \in beside[i] \/ i \in beside[j]

newInboundCall(i) ==
  /\ Goto(i, "setup", "up")
  /\ reg' = [reg EXCEPT ![tag[i]] = i]
  /\ LET j == reg[tag[i]] IN
     second' = second \cup
       CASE j = 0 -> {}
         [] j # 0 /\ Overlap(i, j) -> {"overlap"}
         [] j # 0 /\ ~Overlap(i, j) /\ cseq[j] >= cseq[i] -> {"sameCSeq"}
         [] OTHER -> {"newer"}
  /\ UNCHANGED <<invVars, cacheVars, obj, timerVars, expired, ends, challenged,
                 honoured,
                 evicted>>

\* inboundCall.close; a call that was not answered leaves its rejection in
\* the cache.
callCloses(i) ==
  /\ Goto(i, "up", "done")
  /\ Ended(i)
  /\ reg' = [reg EXCEPT ![tag[i]] = 0]
  /\ rejected' \in {rejected, TRUE}
  /\ UNCHANGED <<invVars, prov, info, obj, timerVars, expired, histVars>>

-----------------------------------------------------------------------------
(* The caches hold maxCallCache entries for callCacheTTL.                   *)

evictInfo(t) ==
  /\ info[t] # 0 /\ evicted < MaxEvictions
  /\ info' = [info EXCEPT ![t] = 0]
  /\ evicted' = evicted + 1
  /\ UNCHANGED <<st, invVars, prov, rejected, obj, timerVars, expired, reg,
                 ends, challenged, honoured, second>>

evictInvite ==
  /\ evicted < MaxEvictions
  /\ evicted' = evicted + 1
  /\ \/ prov # 0 /\ prov' = 0 /\ UNCHANGED rejected
     \/ rejected /\ rejected' = FALSE /\ UNCHANGED prov
  /\ UNCHANGED <<st, invVars, info, obj, timerVars, expired, reg, ends,
                 challenged, honoured, second>>

Steps(i) ==
  \/ authRefused(i) \/ authChallenge(i) \/ authAccepted(i)
  \/ keepTag(i) \/ startChallengeTimer(i) \/ newInboundCall(i)

Timers(k) ==
  NonceExpires(k) \/ timerDue(k) \/ timerLocked(k) \/ timerFires(k)

Next ==
  \/ \E i \in Invites :
       \/ processInvite(i) \/ inviteInvalid(i)
       \/ GetAuthCredentials(i)
       \/ Steps(i) \/ Timers(i)
       \/ callCloses(i)
       \/ evictInfo(i)
  \/ evictInvite

Spec == Init /\ [][Next]_vars

-----------------------------------------------------------------------------
(* Properties.                                                              *)

\* A 407 was sent and nothing has come of it yet.
Awaiting(i) ==
  i \in challenged /\ st[i] = "done" /\ i \notin stopped /\ ends[i] = 0

\* An INVITE reports at most one end, and a challenged one reports none once
\* another INVITE took over from it, even when its timer was running at that
\* moment: the two end once between them.
TakenOverEndsOnce ==
  \A i \in Invites : ends[i] <= 1 /\ (i \in stopped => ends[i] = 0)

\* The timer never ends a challenge whose nonce was accepted: digestNonceTTL
\* "matches how long we wait for the authenticated retry".  The retry must be
\* tied to the challenge by the caches, and must not overtake the goroutine
\* that has sent the 407 and is about to start the timer.
AcceptedChallengeIsQuiet ==
  \A k \in honoured : timer[k] \notin {"firing", "fired"}

\* A call takes the place of another one of its tag only when their INVITEs
\* were in progress together, or came with the same CSeq.
NoSecondCall ==
  "newer" \notin second

\* A challenged call does not stay open: until another INVITE takes over or
\* its end is reported, its timer is pending and is the current one.
ChallengePending ==
  \A i \in Invites :
    Awaiting(i) => \/ timer[i] \in {"armed", "running"} /\ current[obj[i]] = i
                   \/ timer[i] = "firing"

-----------------------------------------------------------------------------
(* What the code's comments say and its behaviour does not bear out.        *)

\* "The call still ends with exactly one EventCallEnded: from the retry when
\* the call finishes, or, if no retry arrives within the challenge timeout,
\* from the challenged INVITE" (signaling_events.go): a challenged INVITE and
\* the retry that came in time are one call, and only one of them reports its
\* end.
CallEndsOnce ==
  \A i, k \in Invites : retryOf[i] = k => ends[i] + ends[k] <= 1
=============================================================================
