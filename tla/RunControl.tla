----------------------------- MODULE RunControl -----------------------------
(***************************************************************************)
(* The two tasks that share rt::Executor (main/executor/                   *)
(* program_executor.cpp): the run loop, which ticks, publishes and sleeps  *)
(* for as long as the tick said, and the httpd task, which serves one      *)
(* control call at a time: the locked section that acts, the flush that    *)
(* publishes, and the notification that wakes the run loop.  The tasks     *)
(* interleave between those sections in every order.                       *)
(***************************************************************************)
EXTENDS Executor

CONSTANTS IdleSleep,  \* kIdleSleepMs
          MaxLate     \* bound: what the scheduler may add to the waits, below

ASSUME LatenessAssumption == IdleSleep \in Nat \ {0} /\ MaxLate \in Nat

VARIABLES loop,      \* run_task: about to "tick", to "flush", or in its "wait"
          sleep,     \* ms left of ulTaskNotifyTake's timeout
          notified,  \* the run task's notification count is not zero
          http,      \* httpd: "idle", or the rest of the call it serves
          frame,     \* the last stateUpdate handed to the SSE hub
          late       \* ms the tasks have been held up since the last tick

taskVars == <<loop, sleep, notified, http, frame, late>>
vars     == <<executorVars, taskVars>>

(* A page that connects is sent the current state, so the frame a client   *)
(* starts from is the boot state.                                          *)
Init == /\ ExecutorInit
        /\ loop = "tick" /\ sleep = 0 /\ notified = FALSE
        /\ http = "idle"
        /\ frame = StateUpdate
        /\ late = 0

-----------------------------------------------------------------------------
(* flush(): the snapshot is taken and handed over under one lock.          *)
Flush == IF dirty THEN frame' = StateUpdate /\ Published
         ELSE UNCHANGED <<frame, executorVars>>

(* The locked section of a call; flush(true) or flush(false) is still to   *)
(* come.                                                                   *)
Serve(rest) == /\ http = "idle"
               /\ http' = rest
               /\ UNCHANGED <<loop, sleep, notified, frame, late>>

HttpLoad   == (\E p \in Programs : Load(p)) /\ Serve("flushWake")
HttpStart  == (\E p \in Programs : Start(p.id)) /\ Serve("flushWake")
HttpStop   == Stop /\ Serve("flushWake")
HttpReset  == Reset /\ Serve("flushWake")
HttpUnload == Unload /\ Serve("flushWake")

HttpSkip ==
  /\ \E p \in Programs : \E i \in 1 .. Len(p.series) : SkipToSeries(i, p.id)
  /\ Serve("flushWake")

HttpDelete == /\ \E p \in Programs : UnloadIfLoaded(p.id)
              /\ Serve("flushWake")

(* Every endpoint above also has a way to refuse, and still flushes.       *)
HttpRefused == Refused /\ Serve("flushWake")

(* A body names banks the device has; no body means all of them.           *)
HttpTargets ==
  /\ \/ \E mask \in (SUBSET Banks \ {{}}) \cup {AllBanks} :
          \E show \in BOOLEAN : SetTargets(mask, show)
     \/ ToggleTargets(AllBanks)
     \/ \E mask \in SUBSET Banks \ {{}} : FlipTargets(mask)
  /\ Serve("flush")

HttpFlush == /\ http \in {"flush", "flushWake"}
             /\ Flush
             /\ http' = IF http = "flush" THEN "idle" ELSE "wake"
             /\ UNCHANGED <<loop, sleep, notified, late>>

(* Slip: the call returns without waking the run loop.                     *)
HttpWakeForgotten == /\ http = "wake"
                     /\ http' = "idle"
                     /\ UNCHANGED <<loop, sleep, notified, frame, late,
                                    executorVars>>

(* xTaskNotifyGive                                                         *)
HttpWake == /\ http = "wake"
            /\ notified' = TRUE
            /\ http' = "idle"
            /\ UNCHANGED <<loop, sleep, frame, late, executorVars>>

HttpCall == \/ HttpLoad \/ HttpStart \/ HttpStop \/ HttpReset \/ HttpUnload
            \/ HttpSkip \/ HttpDelete \/ HttpRefused \/ HttpTargets

-----------------------------------------------------------------------------
(* What Executor::tick() returns.                                          *)
TickSleep ==
  IF running /\ anchored /\ SeriesSelected /\ ~ AtEnd
  THEN NextSleep(elapsed,
                 EndsAt(CurrentEvents)[EventAt(CurrentEvents, elapsed)],
                 TotalMs(CurrentEvents))
  ELSE IdleSleep

LoopTick == /\ loop = "tick"
            /\ Tick
            /\ sleep' = TickSleep
            /\ loop' = "flush"
            /\ late' = 0
            /\ UNCHANGED <<notified, http, frame>>

(* Slip: only control calls publish.                                       *)
LoopFlushForgotten ==
  /\ loop = "flush"
  /\ loop' = "wait"
  /\ UNCHANGED <<sleep, notified, http, frame, late, executorVars>>

LoopFlush == /\ loop = "flush"
             /\ Flush
             /\ loop' = "wait"
             /\ UNCHANGED <<sleep, notified, http, late>>

(* ulTaskNotifyTake(pdTRUE, ...) returns: notified, or timed out.          *)
LoopWake == /\ loop = "wait"
            /\ notified \/ sleep = 0
            /\ loop' = "tick"
            /\ notified' = FALSE
            /\ UNCHANGED <<sleep, http, frame, late, executorVars>>

AudioTakes == PlaybackTakes /\ UNCHANGED taskVars

-----------------------------------------------------------------------------
(* One millisecond.  While a task owes the run something - the loop is not *)
(* asleep, or a call has changed the run and not yet woken it - the        *)
(* scheduler has held it up, and may do so for MaxLate ms between ticks.   *)
WakePending == notified \/ http \in {"flushWake", "wake"}

Owed == loop # "wait" \/ sleep = 0 \/ WakePending

Advance == /\ Owed => late < MaxLate
           /\ late' = IF Owed THEN late + 1 ELSE late
           /\ sleep' = IF loop = "wait" /\ sleep > 0 THEN sleep - 1 ELSE sleep
           /\ TimePasses
           /\ UNCHANGED <<loop, notified, http, frame>>

Next == \/ HttpCall \/ HttpFlush \/ HttpWake
        \/ LoopTick \/ LoopFlush \/ LoopWake
        \/ AudioTakes
        \/ Advance

(* The clock runs, and FreeRTOS runs every task that is ready.  Nothing    *)
(* makes a client call.                                                    *)
Fairness == /\ WF_vars(Advance)
            /\ WF_vars(LoopTick) /\ WF_vars(LoopFlush) /\ WF_vars(LoopWake)
            /\ WF_vars(HttpFlush) /\ WF_vars(HttpWake)
            /\ WF_vars(AudioTakes)

SafetySpec == Init /\ [][Next]_vars
Spec       == SafetySpec /\ Fairness

-----------------------------------------------------------------------------
(* Every variable holds what the code could hold.                          *)
TypeOK == /\ ExecutorTypeOK
          /\ loop \in {"tick", "flush", "wait"}
          /\ sleep \in Nat
          /\ notified \in BOOLEAN
          /\ http \in {"idle", "flush", "flushWake", "wake"}
          /\ late \in 0 .. MaxLate

(* No client is left holding a stale frame: once nothing is waiting to be  *)
(* published, the last frame handed over is the state the device is in,    *)
(* whichever task changed it and whichever task published it.              *)
PublishedIsCurrent == ~ dirty => frame = StateUpdate

(* A control call is never slept through and no event is held too long:    *)
(* the targets stay as an event put them until it ends, plus at most the   *)
(* scheduler's lateness, even when the start found the run loop idle.      *)
EventHeldOnTime ==
  running => elapsed <= EndsAt(CurrentEvents)[UnderWay] + MaxLate

(* The position clients hold, which is also where a pause resumes, is at   *)
(* most a second old.                                                      *)
TickerFresh == running => elapsed <= ticker + Second + MaxLate

(* A run keeps its times, however calls, ticks and flushes interleave: the *)
(* loop never sleeps past the end of an event, nor past a whole second     *)
(* (program_executor.cpp:59-95, 130-147, run_position.h:44-60).            *)
RunKeepsItsTimes == EventHeldOnTime /\ TickerFresh

(* A run loses no event to the sleeps the run loop chooses: the events a   *)
(* tick jumps over, or that a completion cuts off, lasted together no      *)
(* longer than the scheduler was late.                                     *)
NothingSkipped ==
  [][LoopTick /\ running =>
       LET into == IF running' THEN event' - 1 ELSE Len(CurrentEvents)
       IN  /\ running' => event' >= event
           /\ EndsAt(CurrentEvents)[into] - EndsAt(CurrentEvents)[UnderWay]
                <= MaxLate]_vars

(* Between series people stand at the targets: nothing but a run entering  *)
(* an event, or a call that asks for exactly that, turns one.              *)
OnlyEventsTurnTargets ==
  [][shown' # shown => \/ running' /\ (event' # event \/ ~ running)
                       \/ http = "idle" /\ http' = "flush"]_vars

(* A clip is asked for when its event begins, and never again from the     *)
(* middle of it: not by a resume, not by a tick.                           *)
ClipsStartWithTheirEvent ==
  [][clips' \notin {clips, <<>>} =>
       /\ running'
       /\ clips' = CurrentEvents[event'].audio
       /\ \/ running /\ event' # event
          \/ ~ running /\ ticker' = EndsAt(CurrentEvents)[event' - 1]]_vars

(* Whatever changes is published, also when the call that changed it is    *)
(* overtaken by the run loop.                                              *)
ChangesArePublished == dirty ~> ~ dirty

-----------------------------------------------------------------------------
(* The run the abstract specification sees: a position to resume from is   *)
(* what tells a pause from a series that waits to be started.              *)
Phase == IF ~ IsLoaded THEN "unloaded"
         ELSE IF running THEN "running"
         ELSE IF ticker # None THEN "paused"
         ELSE "ready"

Promise == INSTANCE Exercise WITH phase <- Phase, Lateness <- MaxLate,
                                  serving <- http # "idle"

(* The two tasks, their clock and their sleeps implement Exercise, its     *)
(* liveness included: a run misses no event longer than the scheduler's    *)
(* lateness, and ends early, moves back or changes only at a client's call.*)
KeepsPromise == Promise!Spec
=============================================================================
