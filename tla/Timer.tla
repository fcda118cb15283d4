-------------------------------- MODULE Timer --------------------------------
(***************************************************************************)
(* Timers of a loop: runAfter(), runEvery() and cancel() (EventLoop.cc)    *)
(* and Timer with its timerfd (Timer.cc), all in the loop's thread.        *)
(* Channel.tla has the channels of timers; this module has their times.    *)
(*                                                                         *)
(* A delay is a number of milliseconds, a time on the clock a number of    *)
(* microseconds; there are `Base` milliseconds in a second and as many     *)
(* microseconds in a millisecond, 1000 in the code.  Callbacks may cancel  *)
(* timers and make new ones.  A positive delay of less than a millisecond  *)
(* disarms the timerfd and is left out.                                    *)
(***************************************************************************)
EXTENDS Naturals, FiniteSets

CONSTANTS Base,       \* 1000
          Delays,     \* the delays and intervals that users ask for
          MaxTimers, MaxTimerClock  \* bounds: timers in all, the clock

ASSUME TimerAssumption ==
  /\ Base \in Nat \ {0} /\ Delays \subseteq Nat
  /\ MaxTimers \in Nat /\ MaxTimerClock \in Nat

VARIABLES timerClock,  \* CLOCK_MONOTONIC
          created,     \* s_numCreate
          timers,      \* timers_: sequence -> how it was made
          nextAt,      \* when the timerfd expires next, 0: it is disarmed
          expired,     \* the timerfd is readable
          inTimer,     \* the timer whose callback runs, or 0
          timerRuns,   \* how often each callback has run
          cancelled    \* the timers that users have cancelled

timerVars == <<timerClock, created, timers, nextAt, expired, inTimer, timerRuns, cancelled>>

Sequence == 1..MaxTimers
Milli == Base
Second == Base * Base

TimerTypeOK ==
  /\ timerClock \in 0..MaxTimerClock /\ created \in 0..MaxTimers
  /\ DOMAIN timers \subseteq 1..created
  /\ \A s \in DOMAIN timers : timers[s] \in [delay : Delays, every : BOOLEAN, start : Nat]
  /\ nextAt \in [Sequence -> Nat] /\ expired \subseteq 1..created
  /\ inTimer \in 0..created /\ timerRuns \in [Sequence -> Nat]
  /\ cancelled \subseteq 1..created

TimerInit ==
  /\ timerClock = 0 /\ created = 0 /\ timers = [s \in {} |-> 0]
  /\ nextAt = [s \in Sequence |-> 0] /\ expired = {} /\ inTimer = 0
  /\ timerRuns = [s \in Sequence |-> 0] /\ cancelled = {}
------------------------------------------------------------------------------
\* Mutant: the seconds are forgotten.
IntervalWithoutSeconds(delay) == delay % Base

\* The itimerspec of addTimerInLoop(): the milliseconds behind the full seconds, times
\* 1000, are taken for nanoseconds: each of them lasts a microsecond.  A first expiry
\* after 0 would disarm the timerfd, so it is one millisecond.
Interval(delay) == ((delay \div Base) * Second) + (delay % Base)
Howlong(delay) == Interval(IF delay = 0 THEN 1 ELSE delay)

\* runAfter() and runEvery().
AddTimer(delay, every) ==
  /\ created < MaxTimers /\ created' = created + 1
  /\ timers' = [s \in DOMAIN timers \cup {created + 1} |->
                  IF s \in DOMAIN timers THEN timers[s]
                  ELSE [delay |-> delay, every |-> every, start |-> timerClock]]
  /\ nextAt' = [nextAt EXCEPT ![created + 1] = timerClock + Howlong(delay)]
  /\ UNCHANGED <<timerClock, expired, inTimer, timerRuns, cancelled>>

\* timers_.erase() destroys the timer and closes its timerfd; a timer whose callback
\* runs is kept alive by the tie of its channel until the callback returns.
EraseTimer(s) ==
  /\ timers' = [u \in DOMAIN timers \ {s} |-> timers[u]]
  /\ nextAt' = [nextAt EXCEPT ![s] = 0] /\ expired' = expired \ {s}

CancelTimer(s) ==
  /\ s \in DOMAIN timers /\ EraseTimer(s) /\ cancelled' = cancelled \cup {s}
  /\ UNCHANGED <<timerClock, created, inTimer, timerRuns>>

\* handleRead(): the expirations are read as one and the callback runs.
HandleTimer(s) ==
  /\ inTimer = 0 /\ s \in expired /\ inTimer' = s
  /\ expired' = expired \ {s} /\ timerRuns' = [timerRuns EXCEPT ![s] = @ + 1]
  /\ UNCHANGED <<timerClock, created, timers, nextAt, cancelled>>

\* After the callback a timer without an interval is erased.
CallbackReturns ==
  /\ inTimer # 0 /\ inTimer' = 0
  /\ IF inTimer \in DOMAIN timers
        /\ ~(timers[inTimer].every /\ Interval(timers[inTimer].delay) > 0)
     THEN EraseTimer(inTimer) ELSE UNCHANGED <<timers, nextAt, expired>>
  /\ UNCHANGED <<timerClock, created, timerRuns, cancelled>>

\* A microsecond passes; timerfds expire and are set again by their interval.
Elapse ==
  /\ timerClock < MaxTimerClock /\ timerClock' = timerClock + 1
  /\ LET due == {s \in DOMAIN timers : nextAt[s] = timerClock + 1}
         again(s) == timers[s].every /\ Interval(timers[s].delay) > 0
     IN  /\ expired' = expired \cup due
         /\ nextAt' = [s \in Sequence |->
              IF s \notin due THEN nextAt[s]
              ELSE IF again(s) THEN nextAt[s] + Interval(timers[s].delay) ELSE 0]
  /\ UNCHANGED <<created, timers, inTimer, timerRuns, cancelled>>

TimerNext ==
  \/ \E d \in Delays, every \in BOOLEAN : AddTimer(d, every)
  \/ \E s \in Sequence : CancelTimer(s) \/ HandleTimer(s)
  \/ CallbackReturns \/ Elapse
TimerSpec == TimerInit /\ [][TimerNext]_timerVars
------------------------------------------------------------------------------
\* A timer of whole seconds never runs before its time, nor more often than its time
\* has come; when its time has come it has run or is about to, unless it was cancelled.
\* A timer for once runs once (Timer.cc:79, EventLoop.cc:220).
TimersKeepTime ==
  \A s \in 1..created :
    /\ s \in DOMAIN timers /\ timers[s].delay % Base = 0 /\ timers[s].delay > 0 =>
         LET due == (timerClock - timers[s].start) \div ((timers[s].delay \div Base) * Second)
         IN  /\ timerRuns[s] <= IF timers[s].every THEN due ELSE 1
             /\ due >= 1 => timerRuns[s] >= 1 \/ s \in expired
             /\ due = 0 => timerRuns[s] = 0
    /\ s \notin DOMAIN timers /\ s \notin cancelled => timerRuns[s] = 1
==============================================================================
