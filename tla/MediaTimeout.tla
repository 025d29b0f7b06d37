---------------------------- MODULE MediaTimeout ----------------------------
(***************************************************************************)
(* The media timeout of pkg/sip/media_port.go: mediaTimeoutLoop, which     *)
(* ends a call without media, SetTimeout, which a call uses to enable it   *)
(* and to change it, and the packets, which put it off.  Nothing is        *)
(* locked.  Every store of SetTimeout is a step.  The loop has two steps:  *)
(* it loads the start and the last packet, then the durations, and         *)
(* decides.  Merging the loads loses nothing: once there was a packet the  *)
(* start is not used, so the first two are of one moment, and a duration   *)
(* stored after its load is followed by the kick of that SetTimeout, as    *)
(* one stored after the decision is.                                       *)
(*                                                                         *)
(* Time is discrete.  The goroutines are prompt: time does not pass while  *)
(* one of them can go on (Tick), so that a deadline can be stated.         *)
(***************************************************************************)
EXTENDS Integers

CONSTANTS
  MaxTime,          \* the bound on time
  Durations,        \* values given to SetTimeout
  defaultInitial,   \* opts.MediaTimeoutInitial
  defaultGeneral,   \* opts.MediaTimeout
  MaxSets           \* calls of SetTimeout

ASSUME MediaTimeoutAssumption ==
  /\ MaxTime \in Nat /\ Durations \subseteq Nat /\ MaxSets \in Nat
  /\ defaultInitial \in Nat \ {0} /\ defaultGeneral \in Nat \ {0}

Time == 1..MaxTime   \* 0 is no time at all

VARIABLES
  now,
  initial,   \* timeoutInitial
  general,   \* timeoutGeneral
  start,     \* timeoutStart, 0 while the timeout is disabled
  kick,      \* timeoutKick has an element
  last,      \* lastPacketTime, 0 before the first packet
  setter,    \* where SetTimeout is
  arg,       \* its arguments
  sets,      \* calls of SetTimeout so far
  loop,      \* where mediaTimeoutLoop is
  loaded,    \* the start and the packet it loaded
  timer,     \* when its timer is due
  ended,     \* the fuse p.closed
  fired,     \* the fuse p.mediaTimeout
  torn,      \* the values of the loop are not of one moment (history)
  early      \* the timeout fired before it was due (history)

setVars     == <<initial, general, start, kick, setter, arg, sets>>
loopVars    == <<loop, loaded, timer, fired, torn, early>>
timeoutVars == <<now, last, ended, setVars, loopVars>>

Least(a, b) == IF a <= b THEN a ELSE b
Greatest(a, b) == IF a >= b THEN a ELSE b

\* NewMediaPortWith.  A loop whose timeout is disabled parks for an hour; that
\* time is not reached here.
disabledPark == MaxTime + 1

TimeoutInit ==
  /\ now = 1
  /\ initial = defaultInitial /\ general = defaultGeneral
  /\ start = 0 /\ kick = FALSE /\ last = 0
  /\ setter = "idle" /\ arg = [initial |-> 0, general |-> 0] /\ sets = 0
  /\ loop = "select" /\ loaded = [start |-> 0, last |-> 0]
  /\ timer = disabledPark
  /\ ended = FALSE /\ fired = FALSE
  /\ torn = FALSE /\ early = FALSE

-----------------------------------------------------------------------------
(* SetTimeout.                                                              *)

\* A zero duration stands for the default.
SetTimeout ==
  /\ setter = "idle" /\ sets < MaxSets
  /\ setter' = "initial" /\ sets' = sets + 1
  /\ \E i \in Durations, g \in Durations :
       arg' = [initial |-> IF i = 0 THEN defaultInitial ELSE i,
               general |-> IF g = 0 THEN defaultGeneral ELSE g]
  /\ UNCHANGED <<now, last, ended, initial, general, start, kick, loopVars>>

\* A value is stored while the loop decides with the ones it loaded.
Tears == torn' = (torn \/ loop = "decide")

storeInitial ==
  /\ setter = "initial" /\ setter' = "general"
  /\ initial' = arg.initial
  /\ Tears
  /\ UNCHANGED <<now, last, ended, general, start, kick, arg, sets, loop,
                 loaded, timer, fired, early>>

storeGeneral ==
  /\ setter = "general" /\ setter' = "start"
  /\ general' = arg.general
  /\ Tears
  /\ UNCHANGED <<now, last, ended, initial, start, kick, arg, sets, loop,
                 loaded, timer, fired, early>>

storeStart ==
  /\ setter = "start" /\ setter' = "kick"
  /\ start' = now
  /\ Tears
  /\ UNCHANGED <<now, last, ended, initial, general, kick, arg, sets, loop,
                 loaded, timer, fired, early>>

\* The loop is woken, unless it is about to be.
kickLoop ==
  /\ setter = "kick" /\ setter' = "idle"
  /\ kick' = TRUE
  /\ UNCHANGED <<now, last, ended, initial, general, start, arg, sets,
                 loopVars>>

-----------------------------------------------------------------------------
(* mediaTimeoutLoop.                                                        *)

loopClosed ==
  /\ loop = "select" /\ ended
  /\ loop' = "done"
  /\ UNCHANGED <<now, last, ended, setVars, loaded, timer, fired, torn, early>>

\* The loop wakes up and loads the start and the last packet.
loopWakes ==
  /\ loop = "select"
  /\ \/ kick /\ kick' = FALSE
     \/ now >= timer /\ UNCHANGED kick
  /\ IF start = 0
     THEN /\ timer' = disabledPark
          /\ UNCHANGED <<loop, loaded, torn>>
     ELSE /\ loop' = "decide"
          /\ loaded' = [start |-> start, last |-> last]
          /\ torn' = (setter \in {"general", "start"})
          /\ timer' = disabledPark
  /\ UNCHANGED <<now, last, ended, initial, general, start, setter, arg, sets,
                 fired, early>>

deadlineFromStart(s, p) == Greatest(s, p) + general   \* mutant: one window

\* No packet ever: the initial window applies, else the general one.
DeadlineOf(s, p) == IF p = 0 THEN s + initial ELSE p + general

\* The silence that ends the call has lasted, for the values now in force.
SilenceEnds == IF last = 0 THEN start + initial ELSE last + general

\* The decision is overtaken: its values are not of one moment, because a packet
\* came at this one, or because of a SetTimeout that is under way or whose kick
\* the loop has yet to see.
Overtaken == torn /\ (last = now \/ setter # "idle" \/ kick)

decideFires ==
  /\ loop = "decide"
  /\ now >= DeadlineOf(loaded.start, loaded.last)
  /\ fired' = TRUE /\ loop' = "done"
  /\ early' = (~Overtaken /\ now < SilenceEnds)
  /\ UNCHANGED <<now, last, ended, setVars, loaded, timer, torn>>

resetToDeadline ==   \* mutant: the wake-up is not capped
  /\ loop = "decide"
  /\ now < DeadlineOf(loaded.start, loaded.last)
  /\ loop' = "select"
  /\ timer' = DeadlineOf(loaded.start, loaded.last)
  /\ UNCHANGED <<now, last, ended, setVars, loaded, fired, torn, early>>

\* The wake-up is capped at the general timeout.
resetTimer ==
  /\ loop = "decide"
  /\ now < DeadlineOf(loaded.start, loaded.last)
  /\ loop' = "select"
  /\ timer' = Least(DeadlineOf(loaded.start, loaded.last), now + general)
  /\ UNCHANGED <<now, last, ended, setVars, loaded, fired, torn, early>>

-----------------------------------------------------------------------------
(* The port.                                                                *)

onNewMediaPacket ==
  /\ ~ended
  /\ last' = now
  /\ Tears
  /\ UNCHANGED <<now, ended, setVars, loop, loaded, timer, fired, early>>

ClosePort ==
  /\ ~ended /\ ended' = TRUE
  /\ UNCHANGED <<now, last, setVars, loopVars>>

\* No goroutine can go on: SetTimeout has returned, and the loop waits.
Idle ==
  /\ setter = "idle"
  /\ loop = "done" \/ (loop = "select" /\ ~ended /\ ~kick /\ now < timer)

Tick ==
  /\ Idle /\ now < MaxTime
  /\ now' = now + 1
  /\ UNCHANGED <<last, ended, setVars, loopVars>>

TimeoutNext ==
  \/ SetTimeout \/ storeInitial \/ storeGeneral \/ storeStart \/ kickLoop
  \/ loopClosed \/ loopWakes \/ decideFires \/ resetTimer
  \/ onNewMediaPacket \/ ClosePort \/ Tick

TimeoutSpec == TimeoutInit /\ [][TimeoutNext]_timeoutVars

-----------------------------------------------------------------------------
(* Properties.                                                              *)

\* A call without media ends in time: once the timeout is enabled, time does
\* not pass the end of the silence without the timeout having fired, whatever
\* packets came during a long initial window and whenever the values were
\* changed.  The cap on the wake-up and the kick of SetTimeout are there for it.
TimeoutInTime ==
  [][now' # now /\ start # 0 /\ ~ended /\ ~fired
       => now < SilenceEnds]_timeoutVars

\* A call with media goes on: the timeout does not fire before the silence has
\* lasted, unless a packet or a SetTimeout overtakes the loop between its loads
\* and its decision; and then it does so at that very moment, not later, so that
\* no loop goes on deciding with values that were replaced.
NoEarlyTimeout == ~early
=============================================================================
