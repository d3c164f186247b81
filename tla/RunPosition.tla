---------------------------- MODULE RunPosition ----------------------------
(***************************************************************************)
(* Where a run is, as pure arithmetic: the durations of a series           *)
(* (rt_logic/program.h), the event an elapsed time falls in and how long   *)
(* the run loop may sleep from there (rt_logic/run_position.h).            *)
(*                                                                         *)
(* A series is a record whose field "events" is a sequence of events, and  *)
(* an event a record whose field "ms" is its duration.  Series and events  *)
(* are numbered from 1 here and from 0 in the code.  Times are             *)
(* milliseconds since the series started.                                  *)
(***************************************************************************)
EXTENDS Integers, Sequences

CONSTANTS Second,    \* the 1000 of run_position.h and Executor::tick
          MaxSleep   \* kMaxSleepMs

ASSUME SleepAssumption == /\ Second \in Nat \ {0}
                          /\ MaxSleep \in Nat \ {0}

MinOf(a, b) == IF a <= b THEN a ELSE b
MaxOf(a, b) == IF a <= b THEN b ELSE a

(***************************************************************************)
(* EndsAt(events)[i] is the time event i ends, and EndsAt(events)[0] = 0:  *)
(* the running sum both total_ms() and locate_event() accumulate.          *)
(***************************************************************************)
EndsAt(events) ==
  LET ends[i \in 0 .. Len(events)] ==
        IF i = 0 THEN 0 ELSE ends[i - 1] + events[i].ms
  IN  ends

TotalMs(events) == EndsAt(events)[Len(events)]

(***************************************************************************)
(* locate_event(): the event whose half-open interval holds "elapsed" is   *)
(* the first that ends after it.  The location is invalid when there is    *)
(* none, which the callers read as "the series is over".                   *)
(***************************************************************************)
Holds(events, i, elapsed) ==
  /\ EndsAt(events)[i - 1] <= elapsed
  /\ elapsed < EndsAt(events)[i]

LocationValid(events, elapsed) ==
  \E i \in 1 .. Len(events) : Holds(events, i, elapsed)

EventAt(events, elapsed) ==
  CHOOSE i \in 1 .. Len(events) : Holds(events, i, elapsed)

OffsetAt(events, elapsed) ==
  elapsed - EndsAt(events)[EventAt(events, elapsed) - 1]

(* Slip: the sleep runs past the end of the event under way.               *)
NextSleepPastEvent(elapsed, eventEnd, total) ==
  LET nextTick == (elapsed \div Second + 1) * Second
  IN  MaxOf(1, MinOf(MaxSleep, MinOf(nextTick, total) - elapsed))

(* Slip: the sleep runs past the whole second.                             *)
NextSleepPastSecond(elapsed, eventEnd, total) ==
  MaxOf(1, MinOf(MaxSleep, MinOf(eventEnd, total) - elapsed))

(***************************************************************************)
(* next_sleep_ms(): until the next whole second, the end of the event or   *)
(* the end of the series, whichever is first; at most MaxSleep, at least 1 *)
(***************************************************************************)
NextSleep(elapsed, eventEnd, total) ==
  LET nextTick == (elapsed \div Second + 1) * Second
      wakeAt   == MinOf(MinOf(nextTick, eventEnd), total)
  IN  MaxOf(1, MinOf(MaxSleep, wakeAt - elapsed))
=============================================================================
