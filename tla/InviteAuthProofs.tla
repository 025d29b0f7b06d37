-------------------------- MODULE InviteAuthProofs --------------------------
(***************************************************************************)
(* Proofs about InviteAuth, for any number of INVITEs and evictions.       *)
(*                                                                         *)
(* The invariant follows a challenge from hand to hand.  A timer that      *)
(* stopChallengeTimerLocked comes too late for is not current any more, so *)
(* its function does nothing; a retry that is tied to its challenge finds  *)
(* the same inboundCallInfo, so it stops the timer before its credentials  *)
(* are looked at.                                                          *)
(***************************************************************************)
EXTENDS InviteAuth, TLAPS

\* Zenon proves a leaf unless the leaf names SMT.  Most need a fraction of a
\* second; the limits leave room for a slow machine.
USE ZenonT(90)

Progress == {"lookup", "check", "keep", "challenge", "setup"}

TypeInv ==
  /\ st \in [Invites -> Progress \cup {"idle", "up", "done"}]
  /\ tag \in [Invites -> Ref] /\ cseq \in [Ref -> Nat]
  /\ cred \in [Invites -> Ref] /\ beside \in [Ref -> SUBSET Invites]
  /\ prov \in Ref /\ info \in [Invites -> Ref] /\ obj \in [Invites -> Ref]
  /\ current \in [Invites -> Ref]
  /\ timer \in [Invites -> {"off", "armed", "running", "firing", "fired"}]
  /\ reg \in [Invites -> Ref] /\ ends \in [Invites -> Nat]
  /\ challenged \subseteq Invites /\ stopped \subseteq Invites
  /\ evicted \in Nat
  /\ \A i \in Invites :
       /\ st[i] \in Progress \cup {"up"} => tag[i] # 0
       /\ st[i] \in {"check", "keep", "challenge"} => obj[i] # 0
       /\ obj[i] # 0 => tag[i] # 0 /\ st[i] \notin {"idle", "lookup"}

\* What an INVITE has reported, and in whose hand its challenge is: the timer
\* that is current for its inboundCallInfo, the function of that timer, or the
\* INVITE that stopped it.
Challenge(i) ==
  /\ i \in challenged => st[i] \in {"keep", "challenge", "done"}
  /\ st[i] \in {"keep", "challenge"} => i \in challenged
  /\ st[i] # "done" => ends[i] = 0 /\ timer[i] = "off"
  /\ timer[i] # "off" => i \in challenged
  /\ ends[i] <= 1
  /\ i \in challenged => ends[i] = IF timer[i] = "fired" THEN 1 ELSE 0
  /\ i \in stopped => /\ i \in challenged /\ st[i] = "done"
                      /\ timer[i] \in {"off", "running"}
                      /\ obj[i] # 0 /\ current[obj[i]] # i
  /\ timer[i] \in {"running", "firing", "fired"} => i \in expired
  /\ i \in challenged /\ st[i] = "done" /\ i \notin stopped =>
       /\ obj[i] # 0
       /\ \/ timer[i] \in {"armed", "running"} /\ current[obj[i]] = i
          \/ timer[i] \in {"firing", "fired"}

\* The current timer k of an inboundCallInfo o is pending.
Current(o, k) ==
  /\ k \in challenged /\ k \notin stopped /\ obj[k] = o
  /\ st[k] = "done" /\ timer[k] \in {"armed", "running"}

TimerInv ==
  \A i \in Invites :
    Challenge(i) /\ (current[i] # 0 => Current(i, current[i]))

\* Until something is evicted, the INVITEs of a tag share an inboundCallInfo.
InfoInv ==
  evicted = 0 => \A i \in Invites : obj[i] # 0 => info[tag[i]] = obj[i]

\* A retry that is tied to its challenge has stopped the timer before its
\* credentials are checked.
RetryInv ==
  /\ honoured \subseteq stopped
  /\ \A i \in Invites : cred[i] # 0 =>
       /\ st[i] \in {"lookup", "check", "done"}
       /\ cred[i] \in challenged
       /\ cred[i] \notin beside[i] => st[cred[i]] = "done"
       /\ st[i] = "check" /\ Tied(i, cred[i]) /\ cred[i] \notin expired =>
            cred[i] \in stopped

\* INVITEs in progress overlap, and the call of a tag is not older than an
\* INVITE in progress for it unless they overlap.
RegInv ==
  /\ "newer" \notin second
  /\ \A t \in Invites : reg[t] # 0 => st[reg[t]] = "up" /\ tag[reg[t]] = t
  /\ \A i, j \in InProgress : i # j => Overlap(i, j)
  /\ \A i \in InProgress : reg[tag[i]] # 0 =>
       Overlap(i, reg[tag[i]]) \/ cseq[reg[tag[i]]] >= cseq[i]

IInv == TypeInv /\ TimerInv /\ InfoInv /\ RetryInv /\ RegInv

\* A reference is an INVITE or 0, and so is the number before an INVITE.
LEMMA RefFact ==
  /\ 0 \in Ref /\ 0 \notin Invites
  /\ \A i \in Invites : i \in Ref /\ i # 0 /\ i - 1 \in Ref
  /\ \A r \in Ref : r # 0 => r \in Invites
BY InviteAuthAssumption, SMTT(90) DEF Ref, Invites

-----------------------------------------------------------------------------
(* IInv is inductive.                                                       *)

\* Every step keeps the types.
LEMMA TypeStep == TypeInv /\ [Next]_vars => TypeInv'
<1> SUFFICES ASSUME TypeInv, [Next]_vars PROVE TypeInv'
  OBVIOUS
<1> USE RefFact DEF TypeInv, Progress, invVars, cacheVars,
      timerVars, histVars
<1>1. ASSUME NEW i \in Invites, processInvite(i) PROVE TypeInv'
  <2>1. PICK toTag \in Dialogs, n \in {cseq[i - 1], cseq[i - 1] + 1} \ {0},
             k \in {0} \cup challenged :
               /\ tag' = [tag EXCEPT ![i] = newInbound(i, toTag)]
               /\ cseq' = [cseq EXCEPT ![i] = n]
               /\ cred' = [cred EXCEPT ![i] = k]
               /\ LET existing == reg[newInbound(i, toTag)] IN
                  st' = [st EXCEPT ![i] =
                    IF rejected \/ (existing # 0 /\ cseq[existing] < n)
                    THEN "done" ELSE "lookup"]
    BY <1>1 DEF processInvite
  <2>2. newInbound(i, toTag) \in Invites
    BY SMTT(90) DEF newInbound, Dialogs
  <2>3. n \in Nat /\ k \in Ref /\ i - 1 \in Ref
    BY SMTT(90)
  <2> QED
    BY <1>1, <2>1, <2>2, <2>3, SMTT(90) DEF processInvite, InProgress
<1>2. ASSUME NEW i \in Invites, inviteInvalid(i) PROVE TypeInv'
  BY <1>2 DEF inviteInvalid
<1>3. ASSUME NEW i \in Invites, lookupRejects(i) \/ lookupDrops(i)
      PROVE  TypeInv'
  BY <1>3, SMTT(90) DEF lookupRejects, Goto, Ended, lookupDrops
<1>4. ASSUME NEW i \in Invites, lookupAccepts(i) PROVE TypeInv'
  BY <1>4 DEF lookupAccepts, Goto, getCallInfo
<1>5. ASSUME NEW i \in Invites, lookupPassword(i) PROVE TypeInv'
  BY <1>5, SMTT(90) DEF lookupPassword, Goto, getCallInfo, setChallengeTimer
<1>6. ASSUME NEW i \in Invites, authRefused(i) PROVE TypeInv'
  BY <1>6, SMTT(90) DEF authRefused, Goto, Ended
<1>7. ASSUME NEW i \in Invites, authChallenge(i) PROVE TypeInv'
  BY <1>7 DEF authChallenge, Goto
<1>8. ASSUME NEW i \in Invites, keepTag(i) PROVE TypeInv'
  BY <1>8 DEF keepTag, Goto
<1>9. ASSUME NEW i \in Invites, authAccepted(i) PROVE TypeInv'
  BY <1>9 DEF authAccepted, Goto, Tied
<1>10. ASSUME NEW i \in Invites, startChallengeTimer(i) PROVE TypeInv'
  BY <1>10 DEF startChallengeTimer, Goto, setChallengeTimer
<1>11. ASSUME NEW i \in Invites, NonceExpires(i) PROVE TypeInv'
  BY <1>11 DEF NonceExpires
<1>12. ASSUME NEW i \in Invites, timerDue(i) PROVE TypeInv'
  BY <1>12 DEF timerDue
<1>13. ASSUME NEW i \in Invites, timerLocked(i) PROVE TypeInv'
  <2>1. UNCHANGED <<st, tag, cseq, cred, beside, prov, info, obj, reg, ends,
                    challenged, stopped, evicted>>
    BY <1>13 DEF timerLocked
  <2>2. current' \in [Invites -> Ref]
    BY <1>13, SMTT(90) DEF timerLocked
  <2>3. timer' \in [Invites -> {"off", "armed", "running", "firing", "fired"}]
    BY <1>13, SMTT(90) DEF timerLocked
  <2> QED
    BY <2>1, <2>2, <2>3
<1>14. ASSUME NEW i \in Invites, timerFires(i) PROVE TypeInv'
  BY <1>14, SMTT(90) DEF timerFires, Ended
<1>15. ASSUME NEW i \in Invites, newInboundCall(i) PROVE TypeInv'
  BY <1>15 DEF newInboundCall, Goto
<1>16. ASSUME NEW i \in Invites, callCloses(i) PROVE TypeInv'
  BY <1>16, SMTT(90) DEF callCloses, Goto, Ended
<1>17. ASSUME NEW i \in Invites, evictInfo(i) PROVE TypeInv'
  BY <1>17, SMTT(90) DEF evictInfo
<1>18. CASE evictInvite
  BY <1>18, SMTT(90) DEF evictInvite
<1>19. CASE UNCHANGED vars
  BY <1>19 DEF vars
<1> QED
  BY <1>1, <1>2, <1>3, <1>4, <1>5, <1>6, <1>7, <1>8, <1>9, <1>10, <1>11,
     <1>12, <1>13, <1>14, <1>15, <1>16, <1>17, <1>18, <1>19
     DEF Next, GetAuthCredentials, Steps, Timers

\* A challenge stays in one hand: a timer is stopped or fires under the lock of
\* its inboundCallInfo, and only while it is the current one.
LEMMA TimerStep == IInv /\ [Next]_vars => TimerInv'
<1> SUFFICES ASSUME IInv, [Next]_vars PROVE TimerInv'
  OBVIOUS
<1> USE RefFact DEF IInv, TypeInv, TimerInv, Challenge, Current,
      invVars, cacheVars, timerVars, histVars
<1>1. ASSUME NEW i \in Invites, processInvite(i) PROVE TimerInv'
  BY <1>1, SMTT(90) DEF processInvite
<1>2. ASSUME NEW i \in Invites, inviteInvalid(i) PROVE TimerInv'
  BY <1>2, SMTT(90) DEF inviteInvalid
<1>3. ASSUME NEW i \in Invites, lookupRejects(i) \/ lookupDrops(i)
      PROVE  TimerInv'
  BY <1>3, SMTT(90) DEF lookupRejects, Goto, Ended, lookupDrops
<1>4. ASSUME NEW i \in Invites, lookupAccepts(i) PROVE TimerInv'
  BY <1>4, SMTT(90) DEF lookupAccepts, Goto, getCallInfo
<1>5. ASSUME NEW i \in Invites, lookupPassword(i) PROVE TimerInv'
  <2> DEFINE o == obj'[i]
             p == current[o]
  <2>1. /\ o \in Invites /\ p \in Ref
        /\ obj' = [obj EXCEPT ![i] = o]
        /\ st[i] = "lookup" /\ st' = [st EXCEPT ![i] = "check"]
        /\ UNCHANGED <<challenged, ends, expired>>
    BY <1>5, SMTT(90) DEF lookupPassword, Goto, getCallInfo
  <2>2. /\ current' = [current EXCEPT ![o] = 0]
        /\ stopped' = IF p = 0 THEN stopped ELSE stopped \cup {p}
        /\ \A k \in Invites : timer'[k] =
             IF k = p /\ timer[k] = "armed" THEN "off" ELSE timer[k]
    BY <1>5, <2>1, SMTT(90) DEF lookupPassword, setChallengeTimer
  <2>3. p # 0 => /\ p \in challenged \ stopped /\ obj[p] = o /\ p # i
                 /\ st[p] = "done" /\ timer[p] \in {"armed", "running"}
    BY <2>1
  <2> HIDE DEF o, p
  <2>5. ASSUME NEW k \in Invites PROVE Challenge(k)'
    <3>1. CASE k = i
      BY <2>1, <2>2, <2>3, <3>1, SMTT(90)
    <3>2. CASE k = p /\ k # i
      BY <2>1, <2>2, <2>3, <3>2, SMTT(90)
    <3>3. CASE k # i /\ k # p
      <4>1. /\ timer'[k] = timer[k] /\ st'[k] = st[k] /\ obj'[k] = obj[k]
            /\ k \in stopped' <=> k \in stopped
        BY <2>1, <2>2, <2>3, <3>3, SMTT(90)
      <4>2. obj[k] # 0 => (current'[obj[k]] = k <=> current[obj[k]] = k)
        BY <2>1, <2>2, <2>3, <3>3, SMTT(90) DEF p
      <4> QED
        BY <2>1, <4>1, <4>2, SMTT(90)
    <3> QED
      BY <3>1, <3>2, <3>3
  <2>6. ASSUME NEW k \in Invites, current'[k] # 0
        PROVE  Current(k, current[k])'
    BY <2>6, <2>1, <2>2, <2>3, SMTT(90)
  <2> QED
    BY <2>5, <2>6, SMTT(90)
<1>6. ASSUME NEW i \in Invites, authRefused(i) PROVE TimerInv'
  BY <1>6, SMTT(90) DEF authRefused, Goto, Ended
<1>7. ASSUME NEW i \in Invites, authChallenge(i) PROVE TimerInv'
  BY <1>7, SMTT(90) DEF authChallenge, Goto
<1>8. ASSUME NEW i \in Invites, keepTag(i) PROVE TimerInv'
  BY <1>8, SMTT(90) DEF keepTag, Goto
<1>9. ASSUME NEW i \in Invites, authAccepted(i) PROVE TimerInv'
  BY <1>9, SMTT(90) DEF authAccepted, Goto, Tied
<1>10. ASSUME NEW i \in Invites, startChallengeTimer(i) PROVE TimerInv'
  <2> DEFINE o == obj[i]
             p == current[o]
  <2>1. /\ o \in Invites /\ p \in Ref /\ obj[i] = o
        /\ st[i] = "challenge" /\ st' = [st EXCEPT ![i] = "done"]
        /\ UNCHANGED <<challenged, ends, expired, obj>>
    BY <1>10, SMTT(90) DEF startChallengeTimer, Goto
  <2>2. /\ current' = [current EXCEPT ![o] = i]
        /\ stopped' = IF p = 0 THEN stopped ELSE stopped \cup {p}
        /\ \A k \in Invites : timer'[k] =
             IF k = i THEN "armed"
             ELSE IF k = p /\ timer[k] = "armed" THEN "off" ELSE timer[k]
    BY <1>10, <2>1 DEF startChallengeTimer, setChallengeTimer
  <2>3. p # 0 => /\ p \in challenged \ stopped /\ obj[p] = o /\ p # i
                 /\ st[p] = "done" /\ timer[p] \in {"armed", "running"}
    BY <2>1
  <2>4. /\ i \in challenged /\ i \notin stopped
        /\ ends[i] = 0 /\ timer[i] = "off"
    BY <2>1
  <2> HIDE DEF o, p
  <2>5. ASSUME NEW k \in Invites PROVE Challenge(k)'
    <3>1. CASE k = i
      BY <2>1, <2>2, <2>3, <2>4, <3>1, SMTT(90)
    <3>2. CASE k = p /\ k # i
      BY <2>1, <2>2, <2>3, <2>4, <3>2, SMTT(90)
    <3>3. CASE k # i /\ k # p
      <4>1. /\ timer'[k] = timer[k] /\ st'[k] = st[k] /\ obj'[k] = obj[k]
            /\ k \in stopped' <=> k \in stopped
        BY <2>1, <2>2, <2>3, <2>4, <3>3, SMTT(90)
      <4>2. obj[k] # 0 => (current'[obj[k]] = k <=> current[obj[k]] = k)
        BY <2>1, <2>2, <2>3, <2>4, <3>3, SMTT(90) DEF p
      <4> QED
        BY <2>1, <4>1, <4>2, SMTT(90)
    <3> QED
      BY <3>1, <3>2, <3>3
  <2>6. ASSUME NEW k \in Invites, current'[k] # 0
        PROVE  Current(k, current[k])'
    <3>1. CASE k = o
      BY <2>1, <2>2, <2>3, <2>4, <3>1, SMTT(90)
    <3>2. CASE k # o
      <4>1. current'[k] = current[k] /\ current[k] \in Invites
        BY <2>1, <2>2, <2>6, <3>2, SMTT(90)
      <4>2. current[k] # i /\ current[k] # p
        BY <2>1, <2>3, <2>6, <3>2, <4>1, SMTT(90)
      <4> QED
        BY <2>1, <2>2, <2>6, <4>1, <4>2, SMTT(90)
    <3> QED
      BY <3>1, <3>2
  <2> QED
    BY <2>5, <2>6, SMTT(90)
<1>11. ASSUME NEW i \in Invites, NonceExpires(i) PROVE TimerInv'
  BY <1>11 DEF NonceExpires
<1>12. ASSUME NEW i \in Invites, timerDue(i) PROVE TimerInv'
  BY <1>12, SMTT(90) DEF timerDue
<1>13. ASSUME NEW i \in Invites, timerLocked(i) PROVE TimerInv'
  <2>1. obj[i] \in Invites /\ i \in challenged /\ st[i] = "done"
    BY <1>13 DEF timerLocked
  <2>2. CASE current[obj[i]] = i
    BY <1>13, <2>1, <2>2, SMTT(90) DEF timerLocked
  <2>3. CASE current[obj[i]] # i
    BY <1>13, <2>1, <2>3, SMTT(90) DEF timerLocked
  <2> QED
    BY <2>2, <2>3
<1>14. ASSUME NEW i \in Invites, timerFires(i) PROVE TimerInv'
  BY <1>14, SMTT(90) DEF timerFires, Ended
<1>15. ASSUME NEW i \in Invites, newInboundCall(i) PROVE TimerInv'
  BY <1>15, SMTT(90) DEF newInboundCall, Goto
<1>16. ASSUME NEW i \in Invites, callCloses(i) PROVE TimerInv'
  BY <1>16, SMTT(90) DEF callCloses, Goto, Ended
<1>17. ASSUME NEW i \in Invites, evictInfo(i) PROVE TimerInv'
  BY <1>17 DEF evictInfo
<1>18. CASE evictInvite
  BY <1>18 DEF evictInvite
<1>19. CASE UNCHANGED vars
  BY <1>19 DEF vars
<1> QED
  BY <1>1, <1>2, <1>3, <1>4, <1>5, <1>6, <1>7, <1>8, <1>9, <1>10, <1>11,
     <1>12, <1>13, <1>14, <1>15, <1>16, <1>17, <1>18, <1>19
     DEF Next, GetAuthCredentials, Steps, Timers

\* getCallInfo gives the INVITEs of a tag the same inboundCallInfo.
LEMMA InfoStep == IInv /\ [Next]_vars => InfoInv'
<1> SUFFICES ASSUME IInv, [Next]_vars PROVE InfoInv'
  OBVIOUS
<1> USE RefFact DEF IInv, TypeInv, InfoInv, invVars, cacheVars,
      timerVars, histVars
<1>1. ASSUME NEW i \in Invites, processInvite(i) PROVE InfoInv'
  BY <1>1 DEF processInvite
<1>2. ASSUME NEW i \in Invites, inviteInvalid(i) PROVE InfoInv'
  BY <1>2 DEF inviteInvalid
<1>3. ASSUME NEW i \in Invites, lookupRejects(i) \/ lookupDrops(i)
      PROVE  InfoInv'
  BY <1>3 DEF lookupRejects, Goto, Ended, lookupDrops
<1>4. ASSUME NEW i \in Invites, lookupAccepts(i) PROVE InfoInv'
  <2>1. tag[i] \in Invites /\ UNCHANGED <<tag, evicted>>
    BY <1>4 DEF lookupAccepts, Goto
  <2> QED
    BY <1>4, <2>1, SMTT(90) DEF lookupAccepts, getCallInfo
<1>5. ASSUME NEW i \in Invites, lookupPassword(i) PROVE InfoInv'
  <2>1. tag[i] \in Invites /\ UNCHANGED <<tag, evicted>>
    BY <1>5 DEF lookupPassword, Goto
  <2> QED
    BY <1>5, <2>1, SMTT(90) DEF lookupPassword, getCallInfo
<1>6. ASSUME NEW i \in Invites, authRefused(i) PROVE InfoInv'
  BY <1>6 DEF authRefused, Goto, Ended
<1>7. ASSUME NEW i \in Invites, authChallenge(i) PROVE InfoInv'
  BY <1>7 DEF authChallenge, Goto
<1>8. ASSUME NEW i \in Invites, keepTag(i) PROVE InfoInv'
  BY <1>8 DEF keepTag, Goto
<1>9. ASSUME NEW i \in Invites, authAccepted(i) PROVE InfoInv'
  BY <1>9 DEF authAccepted, Goto, Tied
<1>10. ASSUME NEW i \in Invites, startChallengeTimer(i) PROVE InfoInv'
  BY <1>10 DEF startChallengeTimer, Goto, setChallengeTimer
<1>11. ASSUME NEW i \in Invites, NonceExpires(i) PROVE InfoInv'
  BY <1>11 DEF NonceExpires
<1>12. ASSUME NEW i \in Invites, timerDue(i) PROVE InfoInv'
  BY <1>12 DEF timerDue
<1>13. ASSUME NEW i \in Invites, timerLocked(i) PROVE InfoInv'
  BY <1>13 DEF timerLocked
<1>14. ASSUME NEW i \in Invites, timerFires(i) PROVE InfoInv'
  BY <1>14 DEF timerFires, Ended
<1>15. ASSUME NEW i \in Invites, newInboundCall(i) PROVE InfoInv'
  BY <1>15 DEF newInboundCall, Goto
<1>16. ASSUME NEW i \in Invites, callCloses(i) PROVE InfoInv'
  BY <1>16 DEF callCloses, Goto, Ended
<1>17. ASSUME NEW i \in Invites, evictInfo(i) PROVE InfoInv'
  BY <1>17, SMTT(90) DEF evictInfo
<1>18. CASE evictInvite
  BY <1>18, SMTT(90) DEF evictInvite
<1>19. CASE UNCHANGED vars
  BY <1>19 DEF vars
<1> QED
  BY <1>1, <1>2, <1>3, <1>4, <1>5, <1>6, <1>7, <1>8, <1>9, <1>10, <1>11,
     <1>12, <1>13, <1>14, <1>15, <1>16, <1>17, <1>18, <1>19
     DEF Next, GetAuthCredentials, Steps, Timers

\* A retry stops the timer of its challenge before it is validated.
LEMMA RetryStep == IInv /\ [Next]_vars => RetryInv'
<1> SUFFICES ASSUME IInv, [Next]_vars PROVE RetryInv'
  OBVIOUS
<1> USE RefFact DEF IInv, TypeInv, RetryInv, Tied, invVars,
      cacheVars, timerVars, histVars
<1>1. ASSUME NEW i \in Invites, processInvite(i) PROVE RetryInv'
  <2>1. PICK toTag \in Dialogs, n \in {cseq[i - 1], cseq[i - 1] + 1} \ {0},
             k \in {0} \cup challenged :
               /\ tag' = [tag EXCEPT ![i] = newInbound(i, toTag)]
               /\ cseq' = [cseq EXCEPT ![i] = n]
               /\ cred' = [cred EXCEPT ![i] = k]
               /\ LET existing == reg[newInbound(i, toTag)] IN
                  st' = [st EXCEPT ![i] =
                    IF rejected \/ (existing # 0 /\ cseq[existing] < n)
                    THEN "done" ELSE "lookup"]
    BY <1>1 DEF processInvite
  <2>2. /\ st[i] = "idle" /\ i \notin challenged /\ k # i
        /\ beside' = [beside EXCEPT ![i] = InProgress]
        /\ UNCHANGED <<challenged, stopped, expired, honoured, evicted>>
    BY <1>1 DEF processInvite, TimerInv, Challenge
  <2>3. k # 0 /\ k \notin InProgress => st[k] = "done"
    BY DEF TimerInv, Challenge, InProgress
  <2>4. ASSUME NEW r \in Invites, cred'[r] # 0, r # i
        PROVE  /\ UNCHANGED <<cred[r], st[r], beside[r], tag[r]>>
               /\ cred[r] # i /\ UNCHANGED <<st[cred[r]], tag[cred[r]]>>
    BY <2>1, <2>2, <2>4
  <2>5. cred'[i] = k /\ st'[i] # "check" /\ st'[i] \in {"lookup", "done"}
        /\ beside'[i] = InProgress /\ (k # 0 => st'[k] = st[k])
    BY <2>1, <2>2
  <2> QED
    BY <2>2, <2>3, <2>4, <2>5, SMTT(90)
<1>2. ASSUME NEW i \in Invites, inviteInvalid(i) PROVE RetryInv'
  BY <1>2 DEF inviteInvalid
<1>3. ASSUME NEW i \in Invites, lookupRejects(i) \/ lookupDrops(i)
      PROVE  RetryInv'
  BY <1>3, SMTT(90) DEF lookupRejects, Goto, Ended, lookupDrops
<1>4. ASSUME NEW i \in Invites, lookupAccepts(i) PROVE RetryInv'
  BY <1>4, SMTT(90) DEF lookupAccepts, Goto, getCallInfo
<1>5. ASSUME NEW i \in Invites, lookupPassword(i) PROVE RetryInv'
  <2>1. /\ UNCHANGED <<cred, tag, beside, challenged, expired, honoured,
                       evicted>>
        /\ st[i] = "lookup" /\ st' = [st EXCEPT ![i] = "check"]
        /\ obj'[i] = IF info[tag[i]] # 0 THEN info[tag[i]] ELSE i
    BY <1>5 DEF lookupPassword, Goto, getCallInfo
  <2>2. /\ stopped \subseteq stopped'
        /\ current[obj'[i]] # 0 => current[obj'[i]] \in stopped'
    BY <1>5 DEF lookupPassword, setChallengeTimer
  <2>3. ASSUME cred[i] # 0, Tied(i, cred[i]), cred[i] \notin expired
        PROVE  cred[i] \in stopped'
    <3> DEFINE k == cred[i]
    <3>1. k \in challenged /\ st[k] = "done" /\ k # 0
      BY <2>3
    <3>2. CASE k \notin stopped
      <4>1. obj[k] # 0 /\ current[obj[k]] = k
        BY <2>3, <3>1, <3>2 DEF TimerInv, Challenge
      <4>2. info[tag[i]] = obj[k]
        BY <2>3, <3>1, <4>1 DEF InfoInv
      <4> QED
        BY <2>1, <2>2, <3>1, <4>1, <4>2
    <3> QED
      BY <2>2, <3>2
  <2> QED
    BY <2>1, <2>2, <2>3
<1>6. ASSUME NEW i \in Invites, authRefused(i) PROVE RetryInv'
  BY <1>6, SMTT(90) DEF authRefused, Goto, Ended
<1>7. ASSUME NEW i \in Invites, authChallenge(i) PROVE RetryInv'
  BY <1>7, SMTT(90) DEF authChallenge, Goto
<1>8. ASSUME NEW i \in Invites, keepTag(i) PROVE RetryInv'
  BY <1>8 DEF keepTag, Goto
<1>9. ASSUME NEW i \in Invites, authAccepted(i) PROVE RetryInv'
  <2>1. /\ st[i] = "check" /\ st' = [st EXCEPT ![i] = "setup"]
        /\ cred' = [cred EXCEPT ![i] = 0] /\ cred[i] # 0
        /\ UNCHANGED <<tag, beside, challenged, expired, stopped, evicted>>
    BY <1>9 DEF authAccepted, Goto
  <2>2. honoured' \subseteq stopped
    BY <1>9, <2>1, SMTT(90) DEF authAccepted, checkDigestNonce
  <2> QED
    BY <2>1, <2>2, SMTT(90) DEF TimerInv, Challenge
<1>10. ASSUME NEW i \in Invites, startChallengeTimer(i) PROVE RetryInv'
  BY <1>10 DEF startChallengeTimer, Goto, setChallengeTimer
<1>11. ASSUME NEW i \in Invites, NonceExpires(i) PROVE RetryInv'
  BY <1>11 DEF NonceExpires
<1>12. ASSUME NEW i \in Invites, timerDue(i) PROVE RetryInv'
  BY <1>12 DEF timerDue
<1>13. ASSUME NEW i \in Invites, timerLocked(i) PROVE RetryInv'
  BY <1>13 DEF timerLocked
<1>14. ASSUME NEW i \in Invites, timerFires(i) PROVE RetryInv'
  BY <1>14 DEF timerFires, Ended
<1>15. ASSUME NEW i \in Invites, newInboundCall(i) PROVE RetryInv'
  BY <1>15 DEF newInboundCall, Goto
<1>16. ASSUME NEW i \in Invites, callCloses(i) PROVE RetryInv'
  BY <1>16 DEF callCloses, Goto, Ended
<1>17. ASSUME NEW i \in Invites, evictInfo(i) PROVE RetryInv'
  BY <1>17, SMTT(90) DEF evictInfo
<1>18. CASE evictInvite
  BY <1>18, SMTT(90) DEF evictInvite
<1>19. CASE UNCHANGED vars
  BY <1>19 DEF vars
<1> QED
  BY <1>1, <1>2, <1>3, <1>4, <1>5, <1>6, <1>7, <1>8, <1>9, <1>10, <1>11,
     <1>12, <1>13, <1>14, <1>15, <1>16, <1>17, <1>18, <1>19
     DEF Next, GetAuthCredentials, Steps, Timers

\* processInvite of one INVITE goes on, or ends without a call: the calls of
\* the tags are the same.
LEMMA RegKept ==
  ASSUME IInv, NEW i \in Invites,
         NEW from \in Progress, NEW next \in Progress \cup {"done"},
         Goto(i, from, next), UNCHANGED <<tag, cseq, beside, reg, second>>
  PROVE  RegInv'
<1>1. /\ InProgress' \subseteq InProgress
      /\ \A r \in Invites : st[r] = "up" => st'[r] = "up"
  BY SMTT(90) DEF IInv, TypeInv, InProgress, Progress, Goto
<1>2. \A t \in Invites : reg[t] # 0 => reg[t] \in Invites
  BY RefFact DEF IInv, TypeInv
<1> QED
  BY <1>1, <1>2, SMTT(90) DEF IInv, RegInv, Overlap

\* A call is registered only beside INVITEs that are in progress with it.
LEMMA RegStep == IInv /\ [Next]_vars => RegInv'
<1> SUFFICES ASSUME IInv, [Next]_vars PROVE RegInv'
  OBVIOUS
<1> USE DEF Progress, invVars, cacheVars, timerVars, histVars
<1>3. ASSUME NEW i \in Invites, lookupRejects(i) PROVE RegInv'
  BY <1>3, RegKept DEF lookupRejects
<1>4. ASSUME NEW i \in Invites, lookupDrops(i) PROVE RegInv'
  BY <1>4, RegKept DEF lookupDrops
<1>5. ASSUME NEW i \in Invites, lookupAccepts(i) PROVE RegInv'
  BY <1>5, RegKept DEF lookupAccepts
<1>6. ASSUME NEW i \in Invites, lookupPassword(i) PROVE RegInv'
  BY <1>6, RegKept DEF lookupPassword
<1>7. ASSUME NEW i \in Invites, authRefused(i) PROVE RegInv'
  BY <1>7, RegKept DEF authRefused
<1>8. ASSUME NEW i \in Invites, authChallenge(i) PROVE RegInv'
  BY <1>8, RegKept DEF authChallenge
<1>9. ASSUME NEW i \in Invites, keepTag(i) PROVE RegInv'
  BY <1>9, RegKept DEF keepTag
<1>10. ASSUME NEW i \in Invites, authAccepted(i) PROVE RegInv'
  BY <1>10, RegKept DEF authAccepted
<1>11. ASSUME NEW i \in Invites, startChallengeTimer(i) PROVE RegInv'
  BY <1>11, RegKept DEF startChallengeTimer
<1> USE RefFact DEF IInv, TypeInv, RegInv, InProgress, Overlap
<1>1. ASSUME NEW i \in Invites, processInvite(i) PROVE RegInv'
  <2>1. PICK toTag \in Dialogs, n \in {cseq[i - 1], cseq[i - 1] + 1} \ {0},
             k \in {0} \cup challenged :
               /\ tag' = [tag EXCEPT ![i] = newInbound(i, toTag)]
               /\ cseq' = [cseq EXCEPT ![i] = n]
               /\ cred' = [cred EXCEPT ![i] = k]
               /\ LET existing == reg[newInbound(i, toTag)] IN
                  st' = [st EXCEPT ![i] =
                    IF rejected \/ (existing # 0 /\ cseq[existing] < n)
                    THEN "done" ELSE "lookup"]
    BY <1>1 DEF processInvite
  <2>2. /\ st[i] = "idle" /\ beside' = [beside EXCEPT ![i] = InProgress]
        /\ UNCHANGED <<reg, second>>
    BY <1>1 DEF processInvite
  <2>3. ASSUME NEW r \in Invites, r # i
        PROVE  UNCHANGED <<st[r], tag[r], cseq[r], beside[r]>>
    BY <2>1, <2>2, <2>3, SMTT(90)
  <2>4. \A t \in Invites : reg[t] # i
    BY <2>2, SMTT(90)
  <2>5. ASSUME NEW a \in InProgress', NEW b \in InProgress', a # b
        PROVE  Overlap(a, b)'
    BY <2>2, <2>3, <2>5, SMTT(90)
  <2>6. ASSUME NEW a \in InProgress', reg'[tag'[a]] # 0
        PROVE  (Overlap(a, reg[tag[a]]) \/ cseq[reg[tag[a]]] >= cseq[a])'
    <3>1. CASE a = i
      <4> DEFINE t == newInbound(i, toTag)
                 existing == reg[t]
      <4>1. t \in Invites /\ n \in Nat /\ cseq[existing] \in Nat
        BY SMTT(90) DEF newInbound, Dialogs
      <4>2. tag'[a] = t /\ reg'[t] = existing /\ existing # 0 /\ existing # i
        BY <2>1, <2>2, <2>4, <2>6, <3>1, <4>1, SMTT(90)
      <4>3. ~(cseq[existing] < n)
        BY <2>1, <2>6, <3>1, <4>2, SMTT(90)
      <4>4. cseq'[existing] = cseq[existing] /\ cseq'[a] = n
        BY <2>1, <3>1, <4>1, <4>2
      <4> HIDE DEF t, existing
      <4> QED
        BY <4>1, <4>2, <4>3, <4>4, SMTT(90)
    <3>2. CASE a # i
      BY <2>2, <2>3, <2>4, <2>6, <3>2, SMTT(90)
    <3> QED
      BY <3>1, <3>2
  <2>7. ASSUME NEW t \in Invites, reg'[t] # 0
        PROVE  st'[reg'[t]] = "up" /\ tag'[reg'[t]] = t
    BY <2>2, <2>3, <2>4, <2>7, SMTT(90)
  <2> HIDE DEF InProgress, Overlap
  <2> QED
    BY <2>2, <2>5, <2>6, <2>7
<1>2. ASSUME NEW i \in Invites, inviteInvalid(i) PROVE RegInv'
  <2>1. /\ st[i] = "idle" /\ st' = [st EXCEPT ![i] = "done"]
        /\ cseq' = [cseq EXCEPT ![i] = cseq[i - 1]]
        /\ UNCHANGED <<reg, second, tag, beside>>
    BY <1>2 DEF inviteInvalid
  <2>2. \A r \in InProgress' : r # i /\ r \in InProgress /\ cseq'[r] = cseq[r]
    BY <2>1, SMTT(90)
  <2>3. \A t \in Invites : reg[t] # 0 =>
          reg[t] # i /\ UNCHANGED <<st[reg[t]], cseq[reg[t]]>>
    BY <2>1, SMTT(90)
  <2>4. \A r \in InProgress : r \in Invites /\ tag[r] \in Invites
    BY SMTT(90)
  <2> HIDE DEF InProgress, Overlap, IInv, TypeInv
  <2>5. RegInv
    BY DEF IInv
  <2>6. \A a, b \in InProgress' : a # b => Overlap(a, b)'
    BY <2>1, <2>2, <2>5 DEF Overlap
  <2>7. \A a \in InProgress' : reg'[tag'[a]] # 0 =>
          (Overlap(a, reg[tag[a]]) \/ cseq[reg[tag[a]]] >= cseq[a])'
    BY <2>1, <2>2, <2>3, <2>4, <2>5, SMTT(90) DEF Overlap
  <2>8. \A t \in Invites : reg'[t] # 0 => st'[reg'[t]] = "up" /\ tag'[reg'[t]] = t
    BY <2>1, <2>3, <2>5
  <2> QED
    BY <2>1, <2>5, <2>6, <2>7, <2>8
<1>12. ASSUME NEW i \in Invites, NonceExpires(i) PROVE RegInv'
  BY <1>12, SMTT(90) DEF NonceExpires
<1>13. ASSUME NEW i \in Invites, timerDue(i) PROVE RegInv'
  BY <1>13, SMTT(90) DEF timerDue
<1>14. ASSUME NEW i \in Invites, timerLocked(i) PROVE RegInv'
  BY <1>14, SMTT(90) DEF timerLocked
<1>15. ASSUME NEW i \in Invites, timerFires(i) PROVE RegInv'
  BY <1>15, SMTT(90) DEF timerFires
<1>16. ASSUME NEW i \in Invites, newInboundCall(i) PROVE RegInv'
  BY <1>16, SMTT(90) DEF newInboundCall, Goto
<1>17. ASSUME NEW i \in Invites, callCloses(i) PROVE RegInv'
  BY <1>17, SMTT(90) DEF callCloses, Goto, Ended
<1>18. ASSUME NEW i \in Invites, evictInfo(i) PROVE RegInv'
  BY <1>18 DEF evictInfo
<1>19. CASE evictInvite
  BY <1>19 DEF evictInvite
<1>20. CASE UNCHANGED vars
  BY <1>20 DEF vars
<1> QED
  BY <1>1, <1>2, <1>3, <1>4, <1>5, <1>6, <1>7, <1>8, <1>9, <1>10, <1>11,
     <1>12, <1>13, <1>14, <1>15, <1>16, <1>17, <1>18, <1>19, <1>20
     DEF Next, GetAuthCredentials, Steps, Timers

\* The invariant of the INVITEs, for every behaviour.
THEOREM Invariance == Spec => []IInv
<1>1. Init => IInv
  <2> SUFFICES ASSUME Init PROVE IInv
    OBVIOUS
  <2> USE RefFact DEF Init
  <2>1. TypeInv
    BY DEF TypeInv, Progress
  <2>2. TimerInv /\ InfoInv /\ RetryInv
    BY SMTT(90) DEF TimerInv, Challenge, InfoInv, RetryInv
  <2>3. RegInv
    BY DEF RegInv, InProgress
  <2> QED
    BY <2>1, <2>2, <2>3 DEF IInv
<1>2. IInv /\ [Next]_vars => IInv'
  BY TypeStep, TimerStep, InfoStep, RetryStep, RegStep DEF IInv
<1> QED
  BY <1>1, <1>2, PTL DEF Spec

-----------------------------------------------------------------------------
(* The properties.                                                          *)

\* An INVITE reports its end at most once, by the deferred function of
\* processInvite, by the call or by the timer, and a challenged INVITE that
\* another one took over reports none.
THEOREM EndsOnce == Spec => []TakenOverEndsOnce
<1>1. IInv => TakenOverEndsOnce
  BY DEF IInv, TimerInv, Challenge, TakenOverEndsOnce
<1> QED
  BY <1>1, Invariance, PTL

\* The timer does not end a challenge whose nonce was accepted, if the retry
\* was tied to the challenge.
THEOREM AcceptedIsQuiet == Spec => []AcceptedChallengeIsQuiet
<1>1. IInv => AcceptedChallengeIsQuiet
  BY DEF IInv, TypeInv, TimerInv, Challenge, RetryInv, AcceptedChallengeIsQuiet
<1> QED
  BY <1>1, Invariance, PTL

\* A challenged call that nothing has come of has a pending timer.
THEOREM ChallengeIsPending == Spec => []ChallengePending
<1>1. IInv => ChallengePending
  BY SMTT(90) DEF IInv, TimerInv, Challenge, ChallengePending, Awaiting
<1> QED
  BY <1>1, Invariance, PTL

\* byLocalTag is overwritten only by an INVITE that overlapped the call's own
\* or that repeats its CSeq.
THEOREM NoCallIsReplaced == Spec => []NoSecondCall
<1>1. IInv => NoSecondCall
  BY DEF IInv, RegInv, NoSecondCall
<1> QED
  BY <1>1, Invariance, PTL
=============================================================================
