------------------------------ MODULE Calendar ------------------------------
(***************************************************************************)
(* The times of the game's week, counted in ticks from a weekly reset,     *)
(* Tuesday 17:00 UTC.  Xur comes on Friday at the same hour and leaves at  *)
(* the next weekly reset.  Five minutes are several ticks, so that times   *)
(* within five minutes of an event are told apart from it.                 *)
(***************************************************************************)
EXTENDS Naturals, FiniteSetsExt

CONSTANTS Floor,        \* five minutes: what no entry is cached for less than
          Day           \* from one daily reset to the next

Week == 7 * Day
Friday == 3 * Day

\* The first time past t that is phase ticks into the period.
Following(t, phase, period) ==
    LET into == (t + period - phase) % period IN t + (period - into)

NextWeeklyReset(t) == Following(t, 0, Week)
NextDailyReset(t) == Following(t, 0, Day)
NextXurArrival(t) == Following(t, Friday, Week)
XurPresent(t) == t % Week >= Friday

\* What the cache holds at t of an entry set before.
Kept(entry, none, t) == IF entry # none /\ t < entry.expires THEN entry ELSE none

=============================================================================
