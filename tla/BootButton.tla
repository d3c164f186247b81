----------------------------- MODULE BootButton -----------------------------
(***************************************************************************)
(* The BOOT button and the configuration window it opens                   *)
(* (main/io/boot_button.cpp, rt_logic/button_gesture.h,                    *)
(* rt_logic/press_sequence.h): a task polls the pin and makes gestures of  *)
(* what it sees; a short press authorises one submission at the setup      *)
(* portal, three of them open the window, and a hold of ten seconds is a   *)
(* factory reset.                                                          *)
(*                                                                         *)
(* Time counts in ticks no shorter than a poll.  The scheduler may be late *)
(* by MaxGap ticks; a finger keeps the pin as it is for longer than that,  *)
(* so that every press is seen.                                            *)
(***************************************************************************)
EXTENDS Integers, Sequences

CONSTANTS Debounce, ArmHold, ResetHold,  \* of a hold, in ticks
          UnlockPresses, UnlockWindow,   \* of PressSequence
          ConfigWindow,                  \* how long the window stays open
          PressValid,                    \* how long a press authorises
          MaxGap,                        \* bound: ticks from poll to poll
          MaxNow                         \* bound: ticks in all

ASSUME ButtonAssumption ==
  /\ {Debounce, ArmHold, ResetHold, UnlockPresses, UnlockWindow, ConfigWindow,
      PressValid, MaxGap, MaxNow} \subseteq Nat \ {0}
  /\ Debounce <= ArmHold
  /\ ArmHold <= ResetHold

VARIABLES now,
          pinDown,    \* the finger
          pinSince,   \* when it last moved
          pinWasUp,   \* it has been up at some time of this boot
          lastHold,   \* how long it was down when it was last let go
          mode,       \* of the boot: "joining", then "portal" or "serving"
          polled,     \* when the task last ran
          publishing, \* the task is between the gesture and the publication
          gesture,    \* rt::ButtonGesture
          times,      \* rt::PressSequence: its count_ times_
          lastPress,  \* s_last_press_ms, 0 when there is none
          until,      \* s_window_until_ms
          playing,    \* executor::is_running()
          published,  \* s_last_published_open, s_last_published_until_ms
          submission, \* the press the portal's request has loaded, or 0
          rhythm,     \* the presses since the window was last opened
          spent       \* the presses that have authorised a submission

pinVars    == <<pinDown, pinSince, pinWasUp, lastHold>>
taskVars   == <<polled, publishing, gesture, times, published>>
pressVars  == <<rhythm, spent>>
vars       == <<now, pinVars, mode, taskVars, lastPress, until, playing,
                submission, pressVars>>

Window == [open : BOOLEAN, until : Nat]

(* The type invariant.                                                     *)
TypeOK ==
  /\ {now, pinSince, lastHold, polled, lastPress, until, submission}
       \subseteq Nat
  /\ pinDown \in BOOLEAN
  /\ pinWasUp \in BOOLEAN
  /\ mode \in {"joining", "portal", "serving"}
  /\ publishing \in BOOLEAN
  /\ gesture \in [wasUp : BOOLEAN, down : BOOLEAN, armed : BOOLEAN, since : Nat]
  /\ times \in Seq(Nat)
  /\ Len(times) <= UnlockPresses
  /\ playing \in BOOLEAN
  /\ published \in Window
  /\ rhythm \in Seq(Nat)
  /\ spent \subseteq Nat

NewGesture == [wasUp |-> FALSE, down |-> FALSE, armed |-> FALSE, since |-> 0]
Shut       == [open |-> FALSE, until |-> 0]

(* A boot, with a finger on the button or not.                             *)
Booted == /\ pinWasUp' = ~pinDown
          /\ mode' = "joining"
          /\ polled' = now
          /\ publishing' = FALSE
          /\ gesture' = NewGesture
          /\ times' = <<>>
          /\ lastPress' = 0
          /\ until' = 0
          /\ playing' = FALSE
          /\ published' = Shut
          /\ submission' = 0
          /\ rhythm' = <<>>

Init == /\ now = 1
        /\ pinDown \in BOOLEAN
        /\ pinSince = 1
        /\ pinWasUp = ~pinDown
        /\ lastHold = 0
        /\ mode = "joining"
        /\ polled = 1
        /\ publishing = FALSE
        /\ gesture = NewGesture
        /\ times = <<>>
        /\ lastPress = 0
        /\ until = 0
        /\ playing = FALSE
        /\ published = Shut
        /\ submission = 0
        /\ rhythm = <<>>
        /\ spent = {}

-----------------------------------------------------------------------------
(* rt::ButtonGesture::update()                                             *)

HeldFor == now - gesture.since

(* Slip: a pin that reads pressed from the first sample counts as a hold.  *)
UpdatedWithoutGuard(g) ==
  IF pinDown /\ ~g.down
  THEN [g EXCEPT !.down = TRUE, !.since = now, !.armed = FALSE]
  ELSE IF ~pinDown THEN [g EXCEPT !.wasUp = TRUE, !.down = FALSE]
  ELSE [g EXCEPT !.armed = @ \/ HeldFor >= ArmHold]

(* Its state after a sample of the pin, and what it then says.             *)
Updated(g) ==
  IF pinDown /\ ~g.wasUp THEN g
  ELSE IF pinDown /\ ~g.down
  THEN [g EXCEPT !.down = TRUE, !.since = now, !.armed = FALSE]
  ELSE IF ~pinDown THEN [g EXCEPT !.wasUp = TRUE, !.down = FALSE]
  ELSE [g EXCEPT !.armed = @ \/ HeldFor >= ArmHold]

SaysReset == pinDown /\ gesture.down /\ HeldFor >= ResetHold

SaysPress == /\ ~pinDown
             /\ gesture.down
             /\ ~gesture.armed
             /\ HeldFor >= Debounce

(* rt::PressSequence::press(): the times it holds then, or none because    *)
(* they complete the sequence.                                             *)
Slid == Append(IF Len(times) < UnlockPresses THEN times ELSE Tail(times), now)

Unlocks(s) == Len(s) = UnlockPresses /\ now - s[1] <= UnlockWindow

-----------------------------------------------------------------------------
(* Whether and until when the window is open; a run blocks it once         *)
(* app_main() has registered the condition.                                *)
WindowOpen == ~(mode = "serving" /\ playing) /\ now < until

Current == [open |-> WindowOpen, until |-> until]

(* The task, from the sample of the pin to the gesture it makes of it.     *)
(* Slip: a completed sequence is not forgotten.                            *)
PressedAndKept ==
  /\ lastPress' = now
  /\ IF Unlocks(Slid)
     THEN /\ until' = now + ConfigWindow
          /\ times' = Slid
          /\ rhythm' = <<>>
     ELSE /\ UNCHANGED until
          /\ times' = Slid
          /\ rhythm' = Append(rhythm, now)

Pressed ==
  /\ lastPress' = now
  /\ IF Unlocks(Slid)
     THEN /\ until' = now + ConfigWindow
          /\ times' = <<>>
          /\ rhythm' = <<>>
     ELSE /\ UNCHANGED until
          /\ times' = Slid
          /\ rhythm' = Append(rhythm, now)

Poll == /\ ~publishing
        /\ ~SaysReset
        /\ gesture' = Updated(gesture)
        /\ IF SaysPress THEN Pressed
           ELSE UNCHANGED <<lastPress, until, times, rhythm>>
        /\ polled' = now
        /\ publishing' = TRUE
        /\ UNCHANGED <<now, pinVars, mode, playing, published,
                       submission, spent>>

(* factory_reset::perform() ends in a restart.                             *)
FactoryReset == /\ ~publishing
                /\ SaysReset
                /\ Booted
                /\ UNCHANGED <<now, pinDown, pinSince, lastHold, spent>>

(* Slip: only the flag counts as a change of the window.                   *)
PublishTheFlag ==
  /\ publishing
  /\ publishing' = FALSE
  /\ published' = IF Current.open # published.open THEN Current ELSE published
  /\ UNCHANGED <<now, pinVars, mode, polled, gesture, times, lastPress, until,
                 playing, submission, pressVars>>

Publish ==
  /\ publishing
  /\ publishing' = FALSE
  /\ published' = Current
  /\ UNCHANGED <<now, pinVars, mode, polled, gesture, times, lastPress, until,
                 playing, submission, pressVars>>

-----------------------------------------------------------------------------
(* boot_button::consume_press(), in two steps of the portal's httpd task   *)
ConsumeLoads == /\ mode = "portal"
                /\ submission = 0
                /\ lastPress # 0
                /\ now - lastPress <= PressValid
                /\ submission' = lastPress
                /\ UNCHANGED <<now, pinVars, mode, taskVars, lastPress, until,
                               playing, pressVars>>

(* Slip: the press is read, and stays.                                     *)
ConsumeKeeps == /\ submission # 0
                /\ spent' = spent \cup {submission}
                /\ submission' = 0
                /\ UNCHANGED <<now, pinVars, mode, taskVars, lastPress, until,
                               playing, rhythm>>

ConsumeStores == /\ submission # 0
                 /\ lastPress' = 0
                 /\ spent' = spent \cup {submission}
                 /\ submission' = 0
                 /\ UNCHANGED <<now, pinVars, mode, taskVars, until, playing,
                                rhythm>>

(* app_main(), after net_mgr::connect(): on a network the condition and    *)
(* the callback are registered and the server starts; without, the portal. *)
Joins == /\ mode = "joining"
         /\ mode' \in {"portal", "serving"}
         /\ UNCHANGED <<now, pinVars, taskVars, lastPress, until, playing,
                        submission, pressVars>>

RunStartsOrEnds == /\ mode = "serving"
                   /\ playing' = ~playing
                   /\ UNCHANGED <<now, pinVars, mode, taskVars, lastPress,
                                  until, submission, pressVars>>

-----------------------------------------------------------------------------
Finger == /\ now - pinSince > MaxGap
          /\ pinDown' = ~pinDown
          /\ pinSince' = now
          /\ pinWasUp' = (pinWasUp \/ ~pinDown')
          /\ lastHold' = IF pinDown THEN now - pinSince ELSE lastHold
          /\ UNCHANGED <<now, mode, taskVars, lastPress, until, playing,
                         submission, pressVars>>

Tick == /\ now < MaxNow
        /\ ~publishing
        /\ now - polled < MaxGap
        /\ now' = now + 1
        /\ UNCHANGED <<pinVars, mode, taskVars, lastPress, until, playing,
                       submission, pressVars>>

Next == \/ Poll \/ FactoryReset \/ Publish
        \/ ConsumeLoads \/ ConsumeStores
        \/ Joins \/ RunStartsOrEnds
        \/ Finger \/ Tick

Spec == Init /\ [][Next]_vars

(* The task has nothing to wait for but its delay.                         *)
FairSpec == Spec /\ WF_vars(Poll \/ FactoryReset) /\ WF_vars(Publish)

-----------------------------------------------------------------------------
(* A hold means one thing, whatever the scheduler did meanwhile.  A        *)
(* factory reset takes a finger that came to the button in this boot and   *)
(* stayed: neither a pin that is stuck, nor the rest of the hold that      *)
(* reset the device before, nor presses that add up.  And what is recorded *)
(* as a press was one: nothing as short as a bounce, and no hold that      *)
(* armed the reset (button_gesture.h:70-117).                              *)
HoldMeansOneThing ==
  [][/\ FactoryReset => /\ pinWasUp
                        /\ pinDown
                        /\ now - pinSince >= ResetHold
     /\ lastPress' \notin {lastPress, 0} =>
          /\ lastHold >= Debounce - MaxGap
          /\ lastHold < ArmHold + 2 * MaxGap]_vars

(* The window opens, or opens again, on the last of UnlockPresses presses  *)
(* within UnlockWindow of one another since it last opened, and whenever   *)
(* there are such: the sliding times say what the whole history says       *)
(* (press_sequence.h:47-60).                                               *)
Rhythmic(h) == /\ Len(h) >= UnlockPresses
               /\ h[Len(h)] - h[Len(h) - UnlockPresses + 1] <= UnlockWindow

RhythmOpensTheWindow ==
  [][lastPress' \notin {lastPress, 0} =>
       (until' # until <=> Rhythmic(Append(rhythm, now)))]_vars

(* A finger does what it meant to, and nothing else.                       *)
PressesAreMeant == HoldMeansOneThing /\ RhythmOpensTheWindow

(* One press authorises one submission at most, whenever the next press    *)
(* falls between the load and the store (boot_button.cpp:162-170).         *)
OnePressOneSubmission == submission \notin spent

(* A page that listens comes to show the window as it is: that it opened,  *)
(* opened again for longer, lapsed or is held shut by a run                *)
(* (boot_button.cpp:118-128).                                              *)
PagesSeeTheWindow ==
  [](mode = "serving" /\ published # Current =>
       <>(published = Current \/ mode # "serving"))

=============================================================================
