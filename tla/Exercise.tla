------------------------------ MODULE Exercise ------------------------------
(***************************************************************************)
(* What the device promises the range officer, without clocks, tasks or    *)
(* frames: a run walks the events of the selected series in order, one at  *)
(* a time; it is over after the last of them and not before; a pause       *)
(* resumes the event it stopped in; and a run left alone gets to its end.  *)
(* Only a client's call does anything else to it.                          *)
(***************************************************************************)
EXTENDS Integers, Sequences

CONSTANTS Programs, None,
          Lateness     \* an event this short may be missed

VARIABLES program, phase, series, event,
          serving      \* a client's call is being served

runVars      == <<program, phase, series, event>>
exerciseVars == <<runVars, serving>>

NothingLoaded(p, ph, s, e) ==
  p = None /\ ph = "unloaded" /\ s = None /\ e = None

Init == NothingLoaded(program, phase, series, event) /\ ~ serving

Events == program.series[series].events

LastEvent == Len(Events)

Missable(first, last) == \A e \in first .. last : Events[e].ms <= Lateness

-----------------------------------------------------------------------------
(* What the device does by itself.                                         *)

NextEvent == /\ phase = "running"
             /\ \E e \in event + 1 .. LastEvent :
                  event' = e /\ Missable(event + 1, e - 1)
             /\ UNCHANGED <<program, phase, series, serving>>

(* The next series, if there is one, waits to be started.                  *)
Finish == /\ phase = "running"
          /\ Missable(event + 1, LastEvent)
          /\ phase' = "ready"
          /\ IF series < Len(program.series)
             THEN series' = series + 1 /\ event' = 1
             ELSE UNCHANGED <<series, event>>
          /\ UNCHANGED <<program, serving>>

-----------------------------------------------------------------------------
(* What the clients' calls do.                                             *)

Load(p) == /\ program' = p
           /\ phase' = "ready"
           /\ series' = 1
           /\ event' = 1

(* From the top of the series.                                             *)
Begin == /\ phase = "ready"
         /\ series \in 1 .. Len(program.series)
         /\ phase' = "running"
         /\ event' = 1
         /\ UNCHANGED <<program, series>>

Resume == /\ phase = "paused"
          /\ phase' = "running"
          /\ UNCHANGED <<program, series, event>>

Pause == /\ phase = "running"
         /\ phase' = "paused"
         /\ UNCHANGED <<program, series, event>>

Select(i) == /\ phase' = "ready"
             /\ series' = i
             /\ event' = 1
             /\ UNCHANGED program

Unload == /\ phase # "unloaded"
          /\ NothingLoaded(program', phase', series', event')

Rewind == phase # "unloaded" /\ Select(series)

Skip == phase # "unloaded" /\ \E i \in 1 .. Len(program.series) : Select(i)

Call == /\ ~ serving
        /\ serving'
        /\ \/ \E p \in Programs : Load(p)
           \/ Begin \/ Resume \/ Pause
           \/ Rewind \/ Skip \/ Unload
           \/ UNCHANGED runVars

Answer == serving /\ ~ serving' /\ UNCHANGED runVars

Next == NextEvent \/ Finish \/ Call \/ Answer

Spec == /\ Init
        /\ [][Next]_exerciseVars
        /\ WF_exerciseVars(NextEvent \/ Finish)
=============================================================================
