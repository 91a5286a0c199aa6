-------------------------------- MODULE Delay --------------------------------
(***************************************************************************)
(* delay_us (delay.c): the CPU polls a 32-bit timer that counts down and   *)
(* starts again at its period.  One step of the program is a poll; `Gap`   *)
(* clocks pass between two polls at most.                                  *)
(***************************************************************************)
EXTENDS Integers

CONSTANTS
  Period,   \* 2^32 clocks of the timer
  MHz,      \* clocks in a microsecond: TIMER_DELAY_32BIT_FREQ, 100
  Delays,   \* the delays asked for, in microseconds
  Gap       \* longest time from one poll to the next, in clocks

\* t * (2500000000 / _TIMER_FREQUENCY)
Ticks(t) == t * (2500 \div MHz)

ASSUME DelayAssumption ==
  /\ Period \in Nat \ {0} /\ MHz \in 1 .. 2500 /\ Gap \in Nat \ {0}
  /\ Delays \subseteq Nat
  /\ \A t \in Delays : Ticks(t) \in Nat /\ Ticks(t) < Period

VARIABLES
  timer,               \* the timer
  polling, asked_us,   \* in delay_us, and its argument
  TimerTick, TimerSnap,
  elapsed              \* clocks since TimerSnap was read (history), counted
                       \* up to two periods (bound)

delayVars == <<timer, polling, asked_us, TimerTick, TimerSnap, elapsed>>

DelayInit ==
  /\ timer \in 0 .. Period - 1
  /\ polling = FALSE /\ asked_us = 0
  /\ TimerTick = 0 /\ TimerSnap = timer /\ elapsed = 0

-----------------------------------------------------------------------------
\* The timer after n clocks
CountDown(n) == IF timer >= n THEN timer - n ELSE timer - n + Period

delay_us(t) ==
  /\ ~polling /\ polling' = TRUE /\ asked_us' = t
  /\ TimerTick' = Ticks(t) /\ TimerSnap' = timer /\ elapsed' = 0
  /\ UNCHANGED timer

Counted(n) == IF n < 2 * Period THEN n ELSE 2 * Period

TargetOfUpCounter == (TimerSnap + TimerTick) % Period   \* mutant: counts up

\* TimerSnap - TimerTick in unsigned arithmetic
Target ==
  IF TimerSnap >= TimerTick THEN TimerSnap - TimerTick
                            ELSE TimerSnap - TimerTick + Period

\* The condition of the loop: before the timer wraps, or when it has to
Waiting(now) == IF TimerSnap > TimerTick THEN now > Target ELSE now < Target

\* readTimer_us
Poll(n) ==
  /\ polling /\ n <= Period
  /\ timer' = CountDown(n) /\ elapsed' = Counted(elapsed + n)
  /\ polling' = Waiting(timer')
  /\ UNCHANGED <<asked_us, TimerTick, TimerSnap>>

\* The program does something else.
Work == ~polling /\ timer' = CountDown(1) /\ elapsed' = 0
        /\ UNCHANGED <<polling, asked_us, TimerTick, TimerSnap>>

DelayNext ==
  \/ \E t \in Delays : delay_us(t)
  \/ \E n \in 1 .. Gap : Poll(n)
  \/ Work

DelaySpec == DelayInit /\ [][DelayNext]_delayVars

-----------------------------------------------------------------------------
(* Properties *)

\* The variables have their types.
DelayTypeOK ==
  /\ timer \in 0 .. Period - 1 /\ polling \in BOOLEAN /\ asked_us \in Nat
  /\ TimerTick \in 0 .. Period - 1 /\ TimerSnap \in 0 .. Period - 1
  /\ elapsed \in Nat

\* delay_us has just returned
Returns == polling /\ ~polling'

\* Started far enough from the timer's end, a delay lasts its ticks and at
\* most a poll longer.  It ends early only when the timer has to wrap: then
\* after what was left of the timer's period, or at once.
DelayWindow ==
  [][Returns =>
       /\ TimerSnap >= TimerTick + Gap => elapsed' \in TimerTick .. TimerTick + Gap
       /\ elapsed' < TimerTick => TimerSnap <= TimerTick /\ elapsed' <= TimerSnap + Gap
    ]_delayVars

\* "Blocca la CPU per il tempo specificato in us" (delay.c:50): it blocks the
\* CPU for as many microseconds as it was asked, at least when the timer does not
\* come to its end meanwhile (what happens then is told by DelayWindow).
LastsAsAsked ==
  [][Returns /\ TimerSnap >= asked_us * MHz + Gap => elapsed' >= asked_us * MHz]_delayVars
=============================================================================
