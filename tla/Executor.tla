------------------------------ MODULE Executor ------------------------------
(***************************************************************************)
(* rt::Executor and the rt::ProgramState it owns (rt_logic/executor.cpp,   *)
(* rt_logic/program_state.h): the loaded program, the run through one of   *)
(* its series, and the banks of targets.  Every operation is one locked    *)
(* section of program_executor.cpp, so every action here is atomic.        *)
(*                                                                         *)
(* The clock is only ever subtracted (executor.h), so the model keeps the  *)
(* difference: "elapsed" is now_ms() - series_start_ms.  Nothing in this   *)
(* module says when ticks and calls happen; RunControl adds the two tasks  *)
(* that make them happen.                                                  *)
(***************************************************************************)
EXTENDS RunPosition

CONSTANTS Programs,   \* every document a client may have loaded
          AudioIds,   \* the clips events may name
          BankCount,  \* targets::count(): the banks this device has
          MaxBanks,   \* kMaxTargetBanks: the banks a program may name
          MaxElapsed, \* bound: the clock is not followed past this
          None        \* a null pointer or an unset Nullable

Banks    == 1 .. BankCount
AllBanks == 1 .. MaxBanks   \* the bits of a mask that can reach a pin

Events == [ms : Nat \ {0}, command : {"show", "hide", "leave"},
           show : SUBSET AllBanks, hide : SUBSET AllBanks,
           audio : Seq(AudioIds)]

SeriesType == [timerStart : Nat, events : Seq(Events)]

ASSUME BankAssumption == /\ BankCount \in Nat \ {0}
                         /\ MaxBanks \in Nat
                         /\ BankCount <= MaxBanks

(* What parse_program() accepts: kMinEventMs, two commands, letters A..H,  *)
(* an anchor that is an event of the series.                               *)
ASSUME ProgramsAssumption ==
  /\ \A p \in Programs :
       /\ p \in [id : Int, series : Seq(SeriesType)]
       /\ \A s \in 1 .. Len(p.series) :
            \/ p.series[s].timerStart = 0
            \/ p.series[s].timerStart < Len(p.series[s].events)
  /\ None \notin Programs
  /\ None \notin Int

ASSUME ElapsedAssumption == MaxElapsed \in Nat

VARIABLES program,   \* the loaded program, or None
          running,
          series,    \* current_series_index + 1, or None
          event,     \* current_event_index + 1, or None
          ticker,    \* ticker_ms, or None
          anchored,  \* has_series_start
          elapsed,   \* now_ms() - series_start_ms while anchored, else 0
          shown,     \* bank_shown, and the level targets::set() left the pins at
          dirty,     \* pending_broadcast
          clips      \* the audio task's queue of one request; <<>> when empty

executorVars == <<program, running, series, event, ticker, anchored, elapsed,
          shown, dirty, clips>>

ProgramStateInit ==
  /\ program = None /\ series = None /\ event = None /\ ticker = None
  /\ running = FALSE /\ anchored = FALSE /\ elapsed = 0

(* init_banks(): the device adopts the level the pins were latched to, and *)
(* executor::init() drops the broadcast that would announce it.            *)
ExecutorInit == /\ ProgramStateInit
                /\ shown \in {{}, Banks}
                /\ dirty = FALSE
                /\ clips = <<>>

-----------------------------------------------------------------------------
(* Reading the state *)

IsLoaded == program # None

SeriesSelected == IsLoaded /\ series \in 1 .. Len(program.series)

CurrentEvents == program.series[series].events

Named(e) == e.show \cup e.hide

NamedBanks(p) ==
  UNION {UNION {Named(p.series[s].events[i]) :
                  i \in 1 .. Len(p.series[s].events)} :
           s \in 1 .. Len(p.series)}

(* banks_required(): the highest letter any event names, or 1.             *)
BanksRequired(p) ==
  CHOOSE n \in NamedBanks(p) \cup {1} : \A m \in NamedBanks(p) : m <= n

ResumeFrom == IF ticker = None THEN 0 ELSE ticker

(* state_update_json(): what clients are sent.  The ticker goes out        *)
(* relative to the anchor event of the current series.                     *)
TickerMs ==
  IF ticker = None \/ ~ SeriesSelected THEN ticker
  ELSE ticker - EndsAt(CurrentEvents)[program.series[series].timerStart]

StateUpdate ==
  [loadedProgramId |-> IF IsLoaded THEN program.id ELSE None,
   programState    |-> IF IsLoaded
                       THEN <<running, series, event, TickerMs>>
                       ELSE None,
   targetBanks     |-> shown]

-----------------------------------------------------------------------------
(* Steps the operations share *)

ClearRunAnchor == anchored' = FALSE /\ elapsed' = 0
StateChanged   == dirty' = TRUE

(* Stopped at the first event of the series, nothing to resume from.       *)
Rewound == /\ running' = FALSE
           /\ event' = 1
           /\ ticker' = None
           /\ ClearRunAnchor

(* enter_event(): the named banks go the way the event says, the command   *)
(* is the baseline for the rest; show is driven before hide.               *)
Driven(e) ==
  LET rest   == AllBanks \ Named(e)
      toShow == e.show \cup IF e.command = "show" THEN rest ELSE {}
      toHide == e.hide \cup IF e.command = "hide" THEN rest ELSE {}
  IN  (shown \cup (toShow \cap Banks)) \ toHide

EnterEvent(i, playAudio) ==
  LET e == CurrentEvents[i]
  IN  /\ event' = i
      /\ shown' = Driven(e)
      /\ clips' = IF playAudio /\ e.audio # <<>> THEN e.audio ELSE clips

StayInEvent == UNCHANGED <<event, shown, clips>>

-----------------------------------------------------------------------------
(* The control surface: one action per REST endpoint *)

(* "p" is what programs::get() found; None is refused.                     *)
Load(p) ==
  /\ p # None
  /\ program' = p
  /\ series' = 1
  /\ Rewound
  /\ StateChanged
  /\ UNCHANGED <<shown, clips>>

(* Slip: the banks a program names are not checked.                        *)
StartOutcomeAnyBanks(id) ==
  IF ~ IsLoaded THEN "kNotLoaded"
  ELSE IF program.id # id THEN "kMismatch"
  ELSE IF ~ running /\ ~ SeriesSelected THEN "kNotLoaded"
  ELSE "kStarted"

StartOutcome(id) ==
  IF ~ IsLoaded THEN "kNotLoaded"
  ELSE IF program.id # id THEN "kMismatch"
  ELSE IF BanksRequired(program) > BankCount THEN "kBanksUnavailable"
  ELSE IF ~ running /\ ~ SeriesSelected THEN "kNotLoaded"
  ELSE "kStarted"

(* Slip: a resume plays the clip of its event again.                       *)
StartReplays(id) ==
  /\ StartOutcome(id) = "kStarted"
  /\ ~ running
  /\ running' = TRUE
  /\ anchored' = TRUE
  /\ elapsed' = ResumeFrom
  /\ ticker' = ResumeFrom
  /\ IF LocationValid(CurrentEvents, ResumeFrom)
     THEN EnterEvent(EventAt(CurrentEvents, ResumeFrom), TRUE)
     ELSE StayInEvent
  /\ StateChanged
  /\ UNCHANGED <<program, series>>

Start(id) ==
  /\ StartOutcome(id) = "kStarted"
  /\ ~ running
  /\ running' = TRUE
  /\ anchored' = TRUE
  /\ elapsed' = ResumeFrom
  /\ ticker' = ResumeFrom
  /\ IF LocationValid(CurrentEvents, ResumeFrom)
     THEN EnterEvent(EventAt(CurrentEvents, ResumeFrom),
                     OffsetAt(CurrentEvents, ResumeFrom) = 0)
     ELSE StayInEvent
  /\ StateChanged
  /\ UNCHANGED <<program, series>>

Stop == /\ running
        /\ running' = FALSE
        /\ ClearRunAnchor
        /\ StateChanged
        /\ UNCHANGED <<program, series, event, ticker, shown, clips>>

(* Slip: the position the run was paused at is kept.                       *)
ResetKeepsTicker == /\ IsLoaded
                    /\ running' = FALSE
                    /\ event' = 1
                    /\ ClearRunAnchor
                    /\ StateChanged
                    /\ UNCHANGED <<program, series, ticker, shown, clips>>

Reset == /\ IsLoaded
         /\ Rewound
         /\ StateChanged
         /\ UNCHANGED <<program, series, shown, clips>>

SkipOutcome(i, id) ==
  IF ~ IsLoaded THEN "kInvalid"
  ELSE IF program.id # id THEN "kMismatch"
  ELSE IF i \notin 1 .. Len(program.series) THEN "kInvalid"
  ELSE "kSkipped"

SkipToSeries(i, id) ==
  /\ SkipOutcome(i, id) = "kSkipped"
  /\ series' = i
  /\ Rewound
  /\ StateChanged
  /\ UNCHANGED <<program, shown, clips>>

ForceUnload ==
  /\ program' = None /\ series' = None /\ event' = None /\ ticker' = None
  /\ running' = FALSE
  /\ ClearRunAnchor
  /\ StateChanged
  /\ UNCHANGED <<shown, clips>>

Unload == ~ running /\ IsLoaded /\ ForceUnload

(* The program is deleted out from under whatever it is doing.             *)
UnloadIfLoaded(id) == IsLoaded /\ program.id = id /\ ForceUnload

RunUntouched == UNCHANGED <<program, running, series, event, ticker,
                            anchored, elapsed, clips>>

SetTargets(mask, show) ==
  /\ shown' = IF show THEN shown \cup (mask \cap Banks) ELSE shown \ mask
  /\ StateChanged
  /\ RunUntouched

(* toggle_targets(): all of the masked banks together.                     *)
ToggleTargets(mask) ==
  LET matched == mask \cap Banks
  IN  /\ shown' = IF matched \subseteq shown THEN shown \ matched
                  ELSE shown \cup matched
      /\ StateChanged
      /\ RunUntouched

(* flip_targets(): each masked bank against its own state.                 *)
FlipTargets(mask) ==
  LET matched == mask \cap Banks
  IN  /\ shown' = (shown \ matched) \cup (matched \ shown)
      /\ StateChanged
      /\ RunUntouched

(* A call whose guards refuse it, or that finds nothing to do.             *)
Refused == UNCHANGED executorVars

-----------------------------------------------------------------------------
(* The run loop's tick *)

AtEnd == elapsed >= TotalMs(CurrentEvents)

(* Slip: the series after the last is selected too.                        *)
SelectFollowingPastTheLast == series' = series + 1 /\ event' = 1

(* complete_series(): the next series is selected and waits; after the     *)
(* last one the indices stay.  No branch touches the targets.              *)
SelectFollowing ==
  IF series < Len(program.series)
  THEN series' = series + 1 /\ event' = 1
  ELSE UNCHANGED <<series, event>>

TickIdle == /\ ~ (running /\ anchored)
            /\ UNCHANGED executorVars

(* Slip: the end of a series turns the targets away.                       *)
TickStopsAndHides ==
  /\ running /\ anchored
  /\ SeriesSelected => AtEnd
  /\ running' = FALSE
  /\ ClearRunAnchor
  /\ StateChanged
  /\ IF SeriesSelected THEN ticker' = None /\ SelectFollowing
     ELSE UNCHANGED <<ticker, series, event>>
  /\ shown' = {}
  /\ UNCHANGED <<program, clips>>

TickStops ==
  /\ running /\ anchored
  /\ SeriesSelected => AtEnd
  /\ running' = FALSE
  /\ ClearRunAnchor
  /\ StateChanged
  /\ IF SeriesSelected THEN ticker' = None /\ SelectFollowing
     ELSE UNCHANGED <<ticker, series, event>>
  /\ UNCHANGED <<program, shown, clips>>

(* Slip: a new event is published with the next whole second.              *)
TickRunsPublishesSeconds ==
  /\ running /\ anchored /\ SeriesSelected /\ ~ AtEnd
  /\ LET here      == EventAt(CurrentEvents, elapsed)
         newSecond == \/ ticker = None
                      \/ ticker \div Second # elapsed \div Second
     IN  /\ IF here # event THEN EnterEvent(here, TRUE) ELSE StayInEvent
         /\ IF newSecond THEN ticker' = elapsed /\ StateChanged
                         ELSE UNCHANGED <<ticker, dirty>>
  /\ UNCHANGED <<program, running, series, anchored, elapsed>>

(* The event under way: entered if it is a new one, and the ticker         *)
(* published when the event or the whole second changed.                   *)
TickRuns ==
  /\ running /\ anchored /\ SeriesSelected /\ ~ AtEnd
  /\ LET here      == EventAt(CurrentEvents, elapsed)
         entered   == here # event
         newSecond == \/ ticker = None
                      \/ ticker \div Second # elapsed \div Second
     IN  /\ IF entered THEN EnterEvent(here, TRUE) ELSE StayInEvent
         /\ IF entered \/ newSecond
            THEN ticker' = elapsed /\ StateChanged
            ELSE UNCHANGED <<ticker, dirty>>
  /\ UNCHANGED <<program, running, series, anchored, elapsed>>

Tick == TickIdle \/ TickStops \/ TickRuns

-----------------------------------------------------------------------------
(* Around the executor *)

TimePasses ==
  /\ elapsed' = IF anchored THEN elapsed + 1 ELSE elapsed
  /\ UNCHANGED <<program, running, series, event, ticker, anchored,
                 shown, dirty, clips>>

Published ==
  /\ dirty' = FALSE
  /\ UNCHANGED <<program, running, series, event, ticker, anchored,
                 elapsed, shown, clips>>

PlaybackTakes ==
  /\ clips # <<>>
  /\ clips' = <<>>
  /\ UNCHANGED <<program, running, series, event, ticker, anchored,
                 elapsed, shown, dirty>>

Call ==
  \/ \E p \in Programs : Load(p) \/ Start(p.id) \/ UnloadIfLoaded(p.id)
  \/ \E p \in Programs : \E i \in 1 .. Len(p.series) : SkipToSeries(i, p.id)
  \/ Stop \/ Reset \/ Unload
  \/ \E mask \in SUBSET AllBanks :
       \/ \E show \in BOOLEAN : SetTargets(mask, show)
       \/ ToggleTargets(mask)
       \/ FlipTargets(mask)

ExecutorNext == \/ Call
                \/ Tick
                \/ elapsed < MaxElapsed /\ TimePasses
                \/ Published
                \/ PlaybackTakes

ExecutorSpec == ExecutorInit /\ [][ExecutorNext]_executorVars

-----------------------------------------------------------------------------
ExecutorTypeOK ==
  /\ program \in Programs \cup {None}
  /\ running \in BOOLEAN
  /\ series \in Nat \cup {None}
  /\ event \in Nat \cup {None}
  /\ ticker \in Nat \cup {None}
  /\ anchored \in BOOLEAN
  /\ elapsed \in Nat
  /\ shown \in SUBSET Banks
  /\ dirty \in BOOLEAN
  /\ clips \in Seq(AudioIds)

(* The event under way, 0 in a series that has none.                       *)
UnderWay == MinOf(event, Len(CurrentEvents))

(* What the operations rely on without checking: a run has a position in a *)
(* series of a loaded program that names no bank this device lacks, and an *)
(* anchor is only there for a run, so that no call leaves one behind that  *)
(* would place a later run somewhere else.                                 *)
RunStateOK ==
  /\ anchored = running
  /\ running => ticker # None /\ NamedBanks(program) \subseteq Banks
  /\ ticker # None => SeriesSelected
  /\ IsLoaded => series \in Nat /\ event \in Nat
  /\ ~ IsLoaded => series = None /\ event = None

(* A paused run resumes in the event it stopped in: the position start()   *)
(* reads back lies in the event that clients see as current, and in no     *)
(* event already over.  A series with no events has only its start.        *)
ResumesInItsEvent ==
  ticker # None =>
    IF CurrentEvents = <<>> THEN ticker = 0
    ELSE event \in 1 .. Len(CurrentEvents) /\ Holds(CurrentEvents, event, ticker)

(* Whatever is called in whatever order, a run has a place in a startable  *)
(* program, and a pause resumes there (executor.cpp:132-153, 193-243).     *)
RunHasItsPlace == RunStateOK /\ ResumesInItsEvent
=============================================================================
