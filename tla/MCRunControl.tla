---------------------------- MODULE MCRunControl ----------------------------
(***************************************************************************)
(* Small instances of RunControl.  A second is 3 ticks of the clock, the   *)
(* run loop sleeps at most 2 of them while it runs and 4 when it idles, so *)
(* that events end before, on and after whole seconds.                     *)
(***************************************************************************)
EXTENDS RunControl

Ev(ms, command, show, hide, audio) ==
  [ms |-> ms, command |-> command, show |-> show, hide |-> hide,
   audio |-> audio]

Timed(timerStart, events) == [timerStart |-> timerStart, events |-> events]

(* Two series with audio, a preamble and split banks; the second series    *)
(* ends with an event as short as the scheduler is late.                   *)
Duel == [id |-> 1, series |-> <<
  Timed(1, <<Ev(2, "hide", {}, {}, <<"load">>),
                Ev(4, "leave", {1}, {2}, <<"fire">>)>>),
  Timed(0, <<Ev(5, "show", {}, {1}, <<>>),
                Ev(1, "leave", {}, {}, <<"stop">>)>>)>>]

(* The same number of banks, one event of which shows what the other hides *)
Sweep == [id |-> 2, series |-> <<
  Timed(0, <<Ev(2, "show", {}, {2}, <<"fire">>),
                Ev(3, "hide", {2}, {}, <<>>),
                Ev(2, "leave", {}, {}, <<"stop">>)>>)>>]

Wide   == [id |-> 3, series |-> <<
  Timed(0, <<Ev(2, "leave", {3}, {}, <<>>)>>)>>]
Empty  == [id |-> 4, series |-> <<>>]
Hollow == [id |-> 5, series |-> <<
  Timed(0, <<>>), Timed(0, <<Ev(1, "show", {}, {}, <<>>)>>)>>]

AllPrograms == {Duel, Sweep, Wide, Empty, Hollow}
=============================================================================
