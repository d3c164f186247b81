-------------------------- MODULE BootButton_proofs --------------------------
(***************************************************************************)
(* What holds of BootButton in every reachable state and of every step,    *)
(* for every duration, delay and number of presses, checked by TLAPS.      *)
(* The task sees the pin only when it polls; ButtonOK relates what it      *)
(* thinks of the button to what the finger did, by the delay there may be  *)
(* between the two, and a gesture to the presses recorded before it.       *)
(***************************************************************************)
EXTENDS BootButton, TLAPS

(* The task is never late by more than MaxGap.                             *)
ClockOK == /\ 1 <= now
           /\ polled <= now
           /\ now <= polled + MaxGap
           /\ pinSince <= now

(* What the gesture holds is down was down at the last poll, and has been  *)
(* down since the last poll but one before gesture.since, or since then.   *)
GestureOK ==
  /\ ~pinDown => pinWasUp
  /\ gesture.wasUp => pinWasUp
  /\ gesture.down => gesture.wasUp
  /\ gesture.down => gesture.since <= polled
  /\ gesture.down /\ ~gesture.armed => polled < gesture.since + ArmHold
  /\ gesture.down /\ pinDown => /\ pinSince <= gesture.since
                                /\ gesture.since <= pinSince + MaxGap
  /\ gesture.down /\ ~pinDown => /\ polled <= pinSince
                                 /\ pinSince <= gesture.since + lastHold
                                 /\ gesture.since + lastHold <= pinSince + MaxGap
  /\ ~gesture.down /\ pinDown /\ gesture.wasUp => polled <= pinSince

(* Presses are no younger than t, and the window closes ConfigWindow after *)
(* one of them.                                                            *)
PressedBy(t) == /\ lastPress <= t
                /\ submission <= t
                /\ \A press \in spent : press <= t
                /\ until <= t + ConfigWindow

PressesOK == /\ PressedBy(now)
             /\ gesture.down => PressedBy(gesture.since)
             /\ 0 \notin spent
             /\ lastPress \notin spent
             /\ submission \notin spent

(* The sliding times are the last presses of the history.                  *)
Slides(s, h) == /\ Len(s) = IF Len(h) < UnlockPresses THEN Len(h)
                            ELSE UnlockPresses
                /\ \A i \in 1 .. Len(s) : s[i] = h[Len(h) - Len(s) + i]

ButtonOK == TypeOK /\ ClockOK /\ GestureOK /\ PressesOK /\ Slides(times, rhythm)

LEMMA Bounds ==
  /\ Debounce \in Nat \ {0} /\ ArmHold \in Nat \ {0} /\ ResetHold \in Nat \ {0}
  /\ UnlockPresses \in Nat \ {0} /\ UnlockWindow \in Nat \ {0}
  /\ ConfigWindow \in Nat \ {0} /\ PressValid \in Nat \ {0}
  /\ MaxGap \in Nat \ {0} /\ MaxNow \in Nat \ {0}
BY ButtonAssumption

Numbers == /\ now \in Nat /\ pinSince \in Nat /\ lastHold \in Nat
           /\ polled \in Nat /\ lastPress \in Nat /\ until \in Nat
           /\ submission \in Nat /\ spent \subseteq Nat

LEMMA Typed ==
  ASSUME TypeOK
  PROVE  /\ Numbers
         /\ gesture \in [wasUp : BOOLEAN, down : BOOLEAN, armed : BOOLEAN, since : Nat]
         /\ gesture.since \in Nat
         /\ times \in Seq(Nat) /\ rhythm \in Seq(Nat)
         /\ Len(times) <= UnlockPresses
<1>1. gesture \in [wasUp : BOOLEAN, down : BOOLEAN, armed : BOOLEAN, since : Nat]
  BY Zenon DEF TypeOK
<1>2. gesture.since \in Nat
  BY <1>1
<1>3. {now, pinSince, lastHold, polled, lastPress, until, submission} \subseteq Nat
  BY Zenon DEF TypeOK
<1>4. /\ now \in Nat /\ pinSince \in Nat /\ lastHold \in Nat /\ polled \in Nat
      /\ lastPress \in Nat /\ until \in Nat /\ submission \in Nat
  BY <1>3
<1> QED
  BY <1>1, <1>2, <1>4, Zenon DEF TypeOK, Numbers

(* A step that moves nothing the invariant is about, but the presses.      *)
LEMMA ButtonInitOK == Init => ButtonOK
<1> SUFFICES ASSUME Init PROVE ButtonOK
  OBVIOUS
<1> USE Bounds DEF Init, NewGesture, Shut
<1>1. TypeOK
  <2>1. {now, pinSince, lastHold, polled, lastPress, until, submission} \subseteq Nat
    OBVIOUS
  <2>2. gesture \in [wasUp : BOOLEAN, down : BOOLEAN, armed : BOOLEAN, since : Nat]
    OBVIOUS
  <2>3. published \in Window /\ times \in Seq(Nat) /\ rhythm \in Seq(Nat)
    BY DEF Window
  <2>4. Len(times) <= UnlockPresses /\ spent \subseteq Nat
    OBVIOUS
  <2>5. /\ pinDown \in BOOLEAN /\ pinWasUp \in BOOLEAN /\ publishing \in BOOLEAN
        /\ playing \in BOOLEAN /\ mode \in {"joining", "portal", "serving"}
    BY Zenon
  <2> QED
    BY <2>1, <2>2, <2>3, <2>4, <2>5, Zenon DEF TypeOK
<1>2. ~gesture.down /\ ~gesture.wasUp /\ pinWasUp = ~pinDown
  OBVIOUS
<1>3. ClockOK
  BY DEF ClockOK
<1>4. GestureOK
  BY <1>2, Zenon DEF GestureOK
<1>5. PressesOK
  <2>1. PressedBy(now)
    BY DEF PressedBy
  <2> QED
    BY <2>1, <1>2 DEF PressesOK
<1>6. Slides(times, rhythm)
  BY DEF Slides
<1> QED
  BY <1>1, <1>3, <1>4, <1>5, <1>6, Zenon DEF ButtonOK

(* What a press adds to the times and to the history stays in step, and    *)
(* the times know as much of it as it takes.                               *)
LEMMA SlidesOn ==
  ASSUME times \in Seq(Nat), rhythm \in Seq(Nat), now \in Nat, Slides(times, rhythm)
  PROVE  /\ Slid \in Seq(Nat) /\ Append(rhythm, now) \in Seq(Nat)
         /\ Len(Slid) <= UnlockPresses
         /\ Slides(Slid, Append(rhythm, now))
         /\ Unlocks(Slid) <=> Rhythmic(Append(rhythm, now))
<1> DEFINE h == Append(rhythm, now)
           kept == IF Len(times) < UnlockPresses THEN times ELSE Tail(times)
<1> USE Bounds
<1>1. /\ h \in Seq(Nat) /\ Len(h) = Len(rhythm) + 1 /\ h[Len(h)] = now
      /\ \A i \in 1 .. Len(rhythm) : h[i] = rhythm[i]
      /\ Len(rhythm) \in Nat /\ Len(times) \in Nat
  OBVIOUS
<1>2. /\ Len(times) = IF Len(rhythm) < UnlockPresses THEN Len(rhythm) ELSE UnlockPresses
      /\ \A i \in 1 .. Len(times) : times[i] = rhythm[Len(rhythm) - Len(times) + i]
  BY DEF Slides
<1>3. /\ kept \in Seq(Nat) /\ Len(kept) \in Nat /\ Len(kept) < UnlockPresses
      /\ Len(kept) <= Len(rhythm)
      /\ Len(kept) + 1 = IF Len(h) < UnlockPresses THEN Len(h) ELSE UnlockPresses
  <2>1. CASE Len(times) < UnlockPresses
    BY <2>1, <1>1, <1>2
  <2>2. CASE ~(Len(times) < UnlockPresses)
    <3>1. times # <<>> /\ Len(times) = UnlockPresses
      BY <2>2, <1>1, <1>2
    <3>2. Tail(times) \in Seq(Nat) /\ Len(Tail(times)) = Len(times) - 1
      BY <3>1
    <3> QED
      BY <3>1, <3>2, <1>1, <1>2
  <2> QED
    BY <2>1, <2>2
<1>4. ASSUME NEW i \in 1 .. Len(kept)
      PROVE  kept[i] = rhythm[Len(rhythm) - Len(kept) + i]
  <2>1. CASE Len(times) < UnlockPresses
    BY <2>1, <1>1, <1>2, <1>4
  <2>2. CASE ~(Len(times) < UnlockPresses)
    <3>1. times # <<>> /\ Len(times) = UnlockPresses
      BY <2>2, <1>1, <1>2
    <3>2. Len(Tail(times)) = Len(times) - 1 /\ kept = Tail(times)
      BY <3>1, <2>2
    <3>3. i \in 1 .. Len(Tail(times)) /\ i + 1 \in 1 .. Len(times)
      BY <3>2, <1>4, <1>1
    <3>4. Tail(times)[i] = times[i + 1]
      BY <3>1, <3>3
    <3>5. times[i + 1] = rhythm[Len(rhythm) - Len(times) + (i + 1)]
      BY <1>2, <3>3
    <3>6. Len(rhythm) - Len(times) + (i + 1) = Len(rhythm) - Len(kept) + i
      <4>1. Len(kept) = Len(times) - 1 /\ i \in Nat
        BY <3>2, <3>3, <1>1
      <4> HIDE DEF kept
      <4> QED
        BY <4>1, <1>1
    <3> QED
      BY <3>2, <3>4, <3>5, <3>6
  <2> QED
    BY <2>1, <2>2
<1>5. /\ Slid = Append(kept, now)
      /\ Slid \in Seq(Nat) /\ Len(Slid) = Len(kept) + 1 /\ Slid[Len(Slid)] = now
      /\ \A i \in 1 .. Len(kept) : Slid[i] = kept[i]
  <2>1. Slid = Append(kept, now)
    BY Zenon DEF Slid
  <2> HIDE DEF kept
  <2> QED
    BY <2>1, <1>3
<1> HIDE DEF h, kept
<1>6. ASSUME NEW i \in 1 .. Len(Slid) PROVE Slid[i] = h[Len(h) - Len(Slid) + i]
  <2>1. CASE i = Len(Slid)
    <3>1. Len(h) - Len(Slid) + i = Len(h)
      BY <2>1, <1>1, <1>3, <1>5
    <3> QED
      BY <2>1, <3>1, <1>1, <1>5
  <2>2. CASE i # Len(Slid)
    <3>1. i \in 1 .. Len(kept)
      BY <2>2, <1>3, <1>5, <1>6
    <3>2. /\ Len(h) - Len(Slid) + i = Len(rhythm) - Len(kept) + i
          /\ Len(rhythm) - Len(kept) + i \in 1 .. Len(rhythm)
      BY <3>1, <1>1, <1>3, <1>5
    <3> QED
      BY <3>1, <3>2, <1>1, <1>4, <1>5
  <2> QED
    BY <2>1, <2>2
<1>7. Slides(Slid, h)
  BY <1>3, <1>5, <1>6 DEF Slides
<1>8. Unlocks(Slid) <=> Rhythmic(h)
  <2>1. CASE Len(h) < UnlockPresses
    BY <2>1, <1>3, <1>5, <1>1 DEF Unlocks, Rhythmic
  <2>2. CASE ~(Len(h) < UnlockPresses)
    <3>1. Len(Slid) = UnlockPresses /\ Len(h) >= UnlockPresses
      BY <2>2, <1>1, <1>3, <1>5
    <3>2. Slid[1] = h[Len(h) - Len(Slid) + 1]
      BY <3>1, <1>6
    <3>3. Slid[1] = h[Len(h) - UnlockPresses + 1]
      BY <3>1, <3>2
    <3> QED
      BY <3>1, <3>3, <1>1 DEF Unlocks, Rhythmic
  <2> QED
    BY <2>1, <2>2
<1> QED
  BY <1>1, <1>3, <1>5, <1>7, <1>8 DEF h

-----------------------------------------------------------------------------
(* The parts of the invariant, where a step leaves them alone.             *)
gestureVars == <<gesture, polled, pinVars>>

LEMMA ClockStands ==
  ClockOK /\ UNCHANGED <<now, polled, pinSince>> => ClockOK'
BY DEF ClockOK

LEMMA GestureStands == GestureOK /\ UNCHANGED gestureVars => GestureOK'
<1> SUFFICES ASSUME GestureOK, UNCHANGED gestureVars PROVE GestureOK'
  OBVIOUS
<1>1. UNCHANGED <<gesture, polled, pinDown, pinSince, pinWasUp, lastHold>>
  BY Zenon DEF gestureVars, pinVars
<1> QED
  BY <1>1, SMT DEF GestureOK

LEMMA SlidesStand ==
  Slides(times, rhythm) /\ UNCHANGED <<times, rhythm>> => Slides(times, rhythm)'
BY Zenon DEF Slides

LEMMA PressesStand ==
  ASSUME PressesOK, UNCHANGED <<now, gesture, lastPress, until, submission, spent>>
  PROVE  PressesOK'
BY Zenon DEF PressesOK, PressedBy

LEMMA TypesOfNumbers ==
  Numbers => {now, pinSince, lastHold, polled, lastPress, until, submission} \subseteq Nat
BY DEF Numbers

LEMMA PublishOK == ButtonOK /\ Publish => ButtonOK'
<1> SUFFICES ASSUME ButtonOK, Publish PROVE ButtonOK'
  OBVIOUS
<1>1. UNCHANGED <<now, pinVars, mode, polled, gesture, times, lastPress, until, playing,
                  submission, pressVars>>
  BY Zenon DEF Publish
<1>2. UNCHANGED <<now, pinDown, pinSince, pinWasUp, lastHold, mode, polled, gesture, times,
                  lastPress, until, playing, submission, rhythm, spent>>
  BY <1>1, Zenon DEF pinVars, pressVars
<1>3. published' \in Window /\ publishing' = FALSE
  <2>1. until \in Nat
    BY Typed, Zenon DEF Numbers, ButtonOK
  <2>2. WindowOpen \in BOOLEAN
    BY Zenon DEF WindowOpen
  <2>3. published' = [open |-> WindowOpen, until |-> until] /\ publishing' = FALSE
    BY Zenon DEF Publish, Current
  <2> HIDE DEF WindowOpen
  <2> QED
    BY <2>1, <2>2, <2>3, Zenon DEF Window
<1>4. TypeOK'
  BY <1>2, <1>3, Zenon DEF TypeOK, ButtonOK
<1> QED
  BY <1>2, <1>4, ClockStands, GestureStands, SlidesStand, PressesStand, Zenon
  DEF ButtonOK, gestureVars, pinVars

LEMMA JoinsOK == ButtonOK /\ (Joins \/ RunStartsOrEnds) => ButtonOK'
<1> SUFFICES ASSUME ButtonOK, Joins \/ RunStartsOrEnds PROVE ButtonOK'
  OBVIOUS
<1>1. UNCHANGED <<now, pinVars, taskVars, lastPress, until, submission, pressVars>>
  BY Zenon DEF Joins, RunStartsOrEnds
<1>2. UNCHANGED <<now, pinDown, pinSince, pinWasUp, lastHold, polled, publishing, gesture,
                  times, published, lastPress, until, submission, rhythm, spent>>
  BY <1>1, Zenon DEF pinVars, pressVars, taskVars
<1>3. playing' \in BOOLEAN /\ mode' \in {"joining", "portal", "serving"}
  BY Zenon DEF Joins, RunStartsOrEnds, TypeOK, ButtonOK
<1>4. TypeOK'
  BY <1>2, <1>3, Zenon DEF TypeOK, ButtonOK
<1> QED
  BY <1>2, <1>4, ClockStands, GestureStands, SlidesStand, PressesStand, Zenon
  DEF ButtonOK, gestureVars, pinVars

LEMMA ConsumeLoadsOK == ButtonOK /\ ConsumeLoads => ButtonOK'
<1> SUFFICES ASSUME ButtonOK, ConsumeLoads PROVE ButtonOK'
  OBVIOUS
<1>1. submission' = lastPress
      /\ UNCHANGED <<now, pinVars, mode, taskVars, lastPress, until, playing, pressVars>>
  BY Zenon DEF ConsumeLoads
<1>2. UNCHANGED <<now, pinDown, pinSince, pinWasUp, lastHold, mode, polled, publishing,
                  gesture, times, published, lastPress, until, playing, rhythm, spent>>
  BY <1>1, Zenon DEF pinVars, pressVars, taskVars
<1>3. TypeOK'
  <2>1. Numbers'
    BY <1>1, <1>2, Typed, Zenon DEF Numbers, ButtonOK
  <2>2. {now', pinSince', lastHold', polled', lastPress', until', submission'} \subseteq Nat
    BY <2>1 DEF Numbers
  <2> QED
    BY <1>2, <2>2, Zenon DEF TypeOK, ButtonOK
<1>4. PressesOK'
  BY <1>1, <1>2, Zenon DEF PressesOK, PressedBy, ButtonOK
<1> QED
  BY <1>2, <1>3, <1>4, ClockStands, GestureStands, SlidesStand, Zenon
  DEF ButtonOK, gestureVars, pinVars

LEMMA ConsumeStoresOK == ButtonOK /\ ConsumeStores => ButtonOK'
<1> SUFFICES ASSUME ButtonOK, ConsumeStores PROVE ButtonOK'
  OBVIOUS
<1>1. /\ submission # 0 /\ submission' = 0 /\ lastPress' = 0
      /\ spent' = spent \cup {submission}
      /\ UNCHANGED <<now, pinVars, mode, taskVars, until, playing, rhythm>>
  BY Zenon DEF ConsumeStores
<1>2. UNCHANGED <<now, pinDown, pinSince, pinWasUp, lastHold, mode, polled, publishing,
                  gesture, times, published, until, playing, rhythm>>
  BY <1>1, Zenon DEF pinVars, taskVars
<1>t. Numbers /\ gesture.since \in Nat
  BY Typed, Zenon DEF ButtonOK
<1>3. TypeOK'
  <2>1. Numbers'
    BY <1>1, <1>2, <1>t DEF Numbers
  <2>2. {now', pinSince', lastHold', polled', lastPress', until', submission'} \subseteq Nat
    BY <2>1 DEF Numbers
  <2> QED
    BY <1>2, <2>1, <2>2, Zenon DEF TypeOK, ButtonOK, Numbers
<1>4. PressesOK'
  <2>1. ASSUME NEW t \in Nat, PressedBy(t)
        PROVE  lastPress' <= t /\ submission' <= t /\ (\A press \in spent' : press <= t)
               /\ until' <= t + ConfigWindow
    BY <1>1, <1>2, <2>1 DEF PressedBy
  <2>2. 0 \notin spent'
    BY <1>1 DEF PressesOK, ButtonOK
  <2>3. PressedBy(now)'
    BY <2>1, <1>2, <1>t, Zenon DEF PressedBy, Numbers, PressesOK, ButtonOK
  <2>4. gesture'.down => PressedBy(gesture.since)'
    BY <2>1, <1>2, <1>t, Zenon DEF PressedBy, PressesOK, ButtonOK
  <2> QED
    BY <1>1, <2>2, <2>3, <2>4, Zenon DEF PressesOK
<1> QED
  BY <1>2, <1>3, <1>4, ClockStands, GestureStands, SlidesStand, Zenon
  DEF ButtonOK, gestureVars, pinVars

LEMMA TickOK == ButtonOK /\ Tick => ButtonOK'
<1> SUFFICES ASSUME ButtonOK, Tick PROVE ButtonOK'
  OBVIOUS
<1>1. /\ now - polled < MaxGap /\ now' = now + 1
      /\ UNCHANGED <<pinVars, mode, taskVars, lastPress, until, playing, submission,
                     pressVars>>
  BY Zenon DEF Tick
<1>2. UNCHANGED <<pinDown, pinSince, pinWasUp, lastHold, mode, polled, publishing, gesture,
                  times, published, lastPress, until, playing, submission, rhythm, spent>>
  BY <1>1, Zenon DEF pinVars, pressVars, taskVars
<1>t. Numbers
  BY Typed, Zenon DEF ButtonOK
<1>3. TypeOK'
  <2>1. {now', pinSince', lastHold', polled', lastPress', until', submission'} \subseteq Nat
    BY <1>1, <1>2, <1>t DEF Numbers
  <2> QED
    BY <1>2, <2>1, Zenon DEF TypeOK, ButtonOK
<1>4. ClockOK'
  BY <1>1, <1>2, <1>t, Bounds DEF ClockOK, ButtonOK, Numbers
<1>5. PressesOK'
  <2>1. PressedBy(now)'
    <3>1. PressedBy(now)
      BY Zenon DEF PressesOK, ButtonOK
    <3> QED
      BY <3>1, <1>1, <1>2, <1>t, Bounds DEF PressedBy, Numbers
  <2> QED
    BY <2>1, <1>2, Zenon DEF PressesOK, PressedBy, ButtonOK
<1> QED
  BY <1>2, <1>3, <1>4, <1>5, GestureStands, SlidesStand, Zenon
  DEF ButtonOK, gestureVars, pinVars

LEMMA FingerOK == ButtonOK /\ Finger => ButtonOK'
<1> SUFFICES ASSUME ButtonOK, Finger PROVE ButtonOK'
  OBVIOUS
<1>1. /\ now - pinSince > MaxGap
      /\ pinDown' = ~pinDown
      /\ pinSince' = now
      /\ pinWasUp' = (pinWasUp \/ ~pinDown')
      /\ lastHold' = IF pinDown THEN now - pinSince ELSE lastHold
      /\ UNCHANGED <<now, mode, taskVars, lastPress, until, playing, submission, pressVars>>
  BY Zenon DEF Finger
<1>2. UNCHANGED <<now, mode, polled, publishing, gesture, times, published, lastPress,
                  until, playing, submission, rhythm, spent>>
  BY <1>1, Zenon DEF pressVars, taskVars
<1>t. Numbers /\ gesture.since \in Nat /\ ClockOK
  BY Typed, Zenon DEF ButtonOK
<1>3. now - pinSince \in Nat
  BY <1>t DEF Numbers, ClockOK
<1>4. lastHold' \in Nat
  BY <1>1, <1>3, <1>t, Zenon DEF Numbers
<1>5. TypeOK'
  <2>1. {now', pinSince', lastHold', polled', lastPress', until', submission'} \subseteq Nat
    BY <1>1, <1>2, <1>4, <1>t DEF Numbers
  <2>2. pinDown' \in BOOLEAN /\ pinWasUp' \in BOOLEAN
    BY <1>1, Zenon
  <2> QED
    BY <1>2, <2>1, <2>2, Zenon DEF TypeOK, ButtonOK
<1>6. ClockOK'
  BY <1>1, <1>2, <1>t DEF ClockOK, Numbers
<1>7. GestureOK'
  <2>1. CASE pinDown
    <3>1. ~pinDown' /\ lastHold' = now - pinSince /\ pinWasUp'
      BY <2>1, <1>1, Zenon
    <3>2. gesture.wasUp => pinWasUp'
      BY <3>1
    <3>3. /\ gesture.down => gesture.wasUp
          /\ gesture.down => gesture.since <= polled
          /\ gesture.down /\ ~gesture.armed => polled < gesture.since + ArmHold
          /\ gesture.down => /\ pinSince <= gesture.since
                            /\ gesture.since <= pinSince + MaxGap
      BY <2>1, Zenon DEF GestureOK, ButtonOK
    <3>4. gesture.down => /\ polled <= now
                          /\ now <= gesture.since + (now - pinSince)
                          /\ gesture.since + (now - pinSince) <= now + MaxGap
      BY <3>3, <1>t, Bounds DEF Numbers, ClockOK
    <3> QED
      BY <3>1, <3>2, <3>3, <3>4, <1>1, <1>2, Zenon DEF GestureOK
  <2>2. CASE ~pinDown
    <3>1. pinDown' /\ pinWasUp'
      BY <2>2, <1>1, Zenon DEF GestureOK, ButtonOK
    <3>2. ~gesture.down
      <4>1. gesture.down => polled <= pinSince
        BY <2>2, Zenon DEF GestureOK, ButtonOK
      <4>2. now <= polled + MaxGap
        BY <1>t, Zenon DEF ClockOK
      <4>3. ~(polled <= pinSince)
        BY <4>2, <1>1, <1>t, Bounds DEF Numbers
      <4> QED
        BY <4>1, <4>3, Zenon
    <3>3. polled <= now
      BY <1>t, Zenon DEF ClockOK
    <3> QED
      BY <3>1, <3>2, <3>3, <1>1, <1>2, Zenon DEF GestureOK
  <2> QED
    BY <2>1, <2>2
<1> QED
  BY <1>2, <1>5, <1>6, <1>7, SlidesStand, PressesStand, Zenon DEF ButtonOK

LEMMA FactoryResetOK == ButtonOK /\ FactoryReset => ButtonOK'
<1> SUFFICES ASSUME ButtonOK, FactoryReset PROVE ButtonOK'
  OBVIOUS
<1>1. /\ pinDown /\ Booted
      /\ UNCHANGED <<now, pinDown, pinSince, lastHold, spent>>
  BY Zenon DEF FactoryReset, SaysReset
<1>2. /\ pinWasUp' = ~pinDown /\ mode' = "joining" /\ polled' = now /\ publishing' = FALSE
      /\ gesture' = NewGesture /\ times' = <<>> /\ lastPress' = 0 /\ until' = 0
      /\ playing' = FALSE /\ published' = Shut /\ submission' = 0 /\ rhythm' = <<>>
  BY <1>1, Zenon DEF Booted
<1>t. Numbers /\ ClockOK
  BY Typed, Zenon DEF ButtonOK
<1>3. TypeOK'
  <2>1. {now', pinSince', lastHold', polled', lastPress', until', submission'} \subseteq Nat
    BY <1>1, <1>2, <1>t DEF Numbers
  <2>2. gesture' \in [wasUp : BOOLEAN, down : BOOLEAN, armed : BOOLEAN, since : Nat]
    BY <1>2 DEF NewGesture
  <2>3. published' \in Window /\ times' \in Seq(Nat) /\ rhythm' \in Seq(Nat)
    BY <1>2 DEF Window, Shut
  <2>4. Len(times') <= UnlockPresses
    BY <1>2, Bounds
  <2>5. /\ pinWasUp' \in BOOLEAN /\ publishing' \in BOOLEAN /\ playing' \in BOOLEAN
        /\ mode' \in {"joining", "portal", "serving"}
    BY <1>2, Zenon
  <2> QED
    BY <1>1, <2>1, <2>2, <2>3, <2>4, <2>5, Zenon DEF TypeOK, ButtonOK
<1>4. ~gesture'.down /\ ~gesture'.wasUp
  BY <1>2 DEF NewGesture
<1>5. ClockOK'
  BY <1>1, <1>2, <1>t, Bounds DEF ClockOK, Numbers
<1>6. GestureOK'
  BY <1>1, <1>2, <1>4, Zenon DEF GestureOK
<1>7. PressesOK'
  <2>1. PressedBy(now)'
    <3>1. \A press \in spent : press <= now
      BY Zenon DEF PressedBy, PressesOK, ButtonOK
    <3>2. lastPress' <= now' /\ submission' <= now' /\ until' <= now' + ConfigWindow
      BY <1>1, <1>2, <1>t, Bounds DEF Numbers
    <3> QED
      BY <3>1, <3>2, <1>1, Zenon DEF PressedBy
  <2> QED
    BY <2>1, <1>1, <1>2, <1>4, Zenon DEF PressesOK, ButtonOK
<1>8. Slides(times, rhythm)'
  BY <1>2, Bounds DEF Slides
<1> QED
  BY <1>3, <1>5, <1>6, <1>7, <1>8, Zenon DEF ButtonOK

(* What a poll makes of the gesture.                                       *)
LEMMA PollGesture ==
  ASSUME ButtonOK, Poll
  PROVE  /\ gesture' \in [wasUp : BOOLEAN, down : BOOLEAN, armed : BOOLEAN, since : Nat]
         /\ GestureOK'
         /\ gesture'.down =>
              pinDown /\ (gesture'.since = now \/ (gesture.down /\ gesture'.since = gesture.since))
<1>1. /\ gesture' = Updated(gesture) /\ polled' = now
      /\ UNCHANGED <<now, pinDown, pinSince, pinWasUp, lastHold>>
  BY Zenon DEF Poll, pinVars
<1>t. /\ Numbers /\ ClockOK /\ gesture.since \in Nat
      /\ gesture \in [wasUp : BOOLEAN, down : BOOLEAN, armed : BOOLEAN, since : Nat]
  BY Typed, Zenon DEF ButtonOK
<1>g. GestureOK
  BY Zenon DEF ButtonOK
<1>2. CASE pinDown /\ ~gesture.wasUp
  <2>1. gesture' = gesture /\ ~gesture.down
    BY <1>1, <1>2, <1>g, Zenon DEF Updated, GestureOK
  <2> QED
    BY <2>1, <1>1, <1>2, <1>g, <1>t, Zenon DEF GestureOK
<1>3. CASE pinDown /\ gesture.wasUp /\ ~gesture.down
  <2>1. gesture' = [gesture EXCEPT !.down = TRUE, !.since = now, !.armed = FALSE]
    BY <1>1, <1>3, Zenon DEF Updated
  <2>2. /\ gesture'.down /\ gesture'.since = now /\ ~gesture'.armed
        /\ gesture'.wasUp
    BY <2>1, <1>t, <1>3
  <2>3. gesture' \in [wasUp : BOOLEAN, down : BOOLEAN, armed : BOOLEAN, since : Nat]
    BY <2>1, <1>t DEF Numbers
  <2>4. pinWasUp
    BY <1>3, <1>g, Zenon DEF GestureOK
  <2>5. polled <= pinSince
    BY <1>3, <1>g, Zenon DEF GestureOK
  <2>6. now <= now /\ now < now + ArmHold /\ pinSince <= now /\ now <= pinSince + MaxGap
    BY <2>5, <1>t, Bounds DEF Numbers, ClockOK
  <2>7. /\ gesture'.since <= polled' /\ polled' < gesture'.since + ArmHold
        /\ pinSince' <= gesture'.since /\ gesture'.since <= pinSince' + MaxGap
    BY <2>2, <2>6, <1>1, Zenon
  <2>8. pinDown' /\ pinWasUp'
    BY <2>4, <1>1, <1>3, Zenon
  <2>9. GestureOK'
    BY <2>2, <2>7, <2>8, Zenon DEF GestureOK
  <2> QED
    BY <2>2, <2>3, <2>9, <1>3
<1>4. CASE ~pinDown
  <2>1. gesture' = [gesture EXCEPT !.wasUp = TRUE, !.down = FALSE]
    BY <1>1, <1>4, Zenon DEF Updated
  <2>2. ~gesture'.down
    BY <2>1, <1>t
  <2>3. gesture' \in [wasUp : BOOLEAN, down : BOOLEAN, armed : BOOLEAN, since : Nat]
    BY <2>1, <1>t
  <2>4. pinWasUp
    BY <1>4, <1>g, Zenon DEF GestureOK
  <2> QED
    BY <2>2, <2>3, <2>4, <1>1, <1>4, Zenon DEF GestureOK
<1>5. CASE pinDown /\ gesture.wasUp /\ gesture.down
  <2>1. gesture' = [gesture EXCEPT !.armed = @ \/ HeldFor >= ArmHold]
    BY <1>1, <1>5, Zenon DEF Updated
  <2>2. /\ gesture'.down /\ gesture'.since = gesture.since /\ gesture'.wasUp
        /\ ~gesture'.armed => ~(HeldFor >= ArmHold)
    BY <2>1, <1>t, <1>5
  <2>3. gesture' \in [wasUp : BOOLEAN, down : BOOLEAN, armed : BOOLEAN, since : Nat]
    BY <2>1, <1>t
  <2>4. pinWasUp /\ gesture.since <= polled /\ pinSince <= gesture.since
        /\ gesture.since <= pinSince + MaxGap
    BY <1>5, <1>g, Zenon DEF GestureOK
  <2>5. gesture.since <= now
    BY <2>4, <1>t DEF Numbers, ClockOK
  <2>6. ~(HeldFor >= ArmHold) => now < gesture.since + ArmHold
    BY <1>t, Bounds DEF HeldFor, Numbers
  <2> QED
    BY <2>2, <2>3, <2>4, <2>5, <2>6, <1>1, <1>5, Zenon DEF GestureOK
<1> QED
  BY <1>2, <1>3, <1>4, <1>5

(* A gesture that says a press is younger than every press before it.      *)
LEMMA PressIsNew ==
  ASSUME ButtonOK, SaysPress
  PROVE  /\ now \notin spent /\ now # submission /\ now # lastPress /\ now # 0
         /\ until # now + ConfigWindow
<1>1. gesture.down /\ HeldFor >= Debounce
  BY Zenon DEF SaysPress
<1>t. Numbers /\ gesture.since \in Nat
  BY Typed, Zenon DEF ButtonOK
<1>2. PressedBy(gesture.since)
  BY <1>1, Zenon DEF PressesOK, ButtonOK
<1>3. gesture.since < now
  BY <1>1, <1>t, Bounds DEF HeldFor, Numbers
<1> QED
  BY <1>2, <1>3, <1>t, Bounds DEF PressedBy, Numbers

LEMMA PollOK == ButtonOK /\ Poll => ButtonOK'
<1> SUFFICES ASSUME ButtonOK, Poll PROVE ButtonOK'
  OBVIOUS
<1>1. /\ polled' = now /\ publishing' = TRUE
      /\ UNCHANGED <<now, pinDown, pinSince, pinWasUp, lastHold, mode, playing, published,
                     submission, spent>>
  BY Zenon DEF Poll, pinVars
<1>2. /\ gesture' \in [wasUp : BOOLEAN, down : BOOLEAN, armed : BOOLEAN, since : Nat]
      /\ GestureOK'
      /\ gesture'.down =>
           pinDown /\ (gesture'.since = now \/ (gesture.down /\ gesture'.since = gesture.since))
  BY PollGesture, Zenon
<1>t. /\ Numbers /\ ClockOK /\ times \in Seq(Nat) /\ rhythm \in Seq(Nat)
      /\ Len(times) <= UnlockPresses
  BY Typed, Zenon DEF ButtonOK
<1>3. ClockOK'
  BY <1>1, <1>t, Bounds DEF ClockOK, Numbers
<1>4. CASE SaysPress
  <2>1. /\ lastPress' = now
        /\ IF Unlocks(Slid)
           THEN until' = now + ConfigWindow /\ times' = <<>> /\ rhythm' = <<>>
           ELSE UNCHANGED until /\ times' = Slid /\ rhythm' = Append(rhythm, now)
    BY <1>4, Zenon DEF Poll, Pressed
  <2>2. /\ Slid \in Seq(Nat) /\ Append(rhythm, now) \in Seq(Nat)
        /\ Len(Slid) <= UnlockPresses /\ Slides(Slid, Append(rhythm, now))
    BY <1>t, SlidesOn, Zenon DEF ButtonOK, Numbers
  <2>3. /\ times' \in Seq(Nat) /\ rhythm' \in Seq(Nat) /\ Len(times') <= UnlockPresses
        /\ Slides(times', rhythm')
    <3>1. /\ <<>> \in Seq(Nat) /\ Len(<<>>) <= UnlockPresses /\ Slides(<<>>, <<>>)
      BY Bounds DEF Slides
    <3> QED
      BY <2>1, <2>2, <3>1, Zenon
  <2>4. Slides(times, rhythm)'
    BY <2>3, Zenon DEF Slides
  <2>5. until' \in Nat /\ until' <= now + ConfigWindow
    BY <2>1, <1>t, Bounds DEF Numbers, PressesOK, PressedBy, ButtonOK
  <2>6. TypeOK'
    <3>1. {now', pinSince', lastHold', polled', lastPress', until', submission'} \subseteq Nat
      BY <1>1, <1>t, <2>1, <2>5 DEF Numbers
    <3> QED
      BY <1>1, <1>2, <2>3, <3>1, Zenon DEF TypeOK, ButtonOK
  <2>7. PressesOK'
    <3>1. PressedBy(now)'
      <4>1. submission <= now /\ \A press \in spent : press <= now
        BY Zenon DEF PressesOK, PressedBy, ButtonOK
      <4>2. lastPress' <= now
        BY <2>1, <1>t DEF Numbers
      <4> QED
        BY <4>1, <4>2, <2>5, <1>1, Zenon DEF PressedBy
    <3>2. ~gesture'.down
      BY <1>2, <1>4, Zenon DEF SaysPress
    <3>3. lastPress' \notin spent'
      BY <1>4, <1>1, <2>1, PressIsNew, Zenon
    <3> QED
      BY <3>1, <3>2, <3>3, <1>1, Zenon DEF PressesOK, ButtonOK
  <2> QED
    BY <1>2, <1>3, <2>4, <2>6, <2>7, Zenon DEF ButtonOK
<1>5. CASE ~SaysPress
  <2>1. UNCHANGED <<lastPress, until, times, rhythm>>
    BY <1>5, Zenon DEF Poll
  <2>2. TypeOK'
    <3>1. {now', pinSince', lastHold', polled', lastPress', until', submission'} \subseteq Nat
      BY <1>1, <1>t, <2>1 DEF Numbers
    <3> QED
      BY <1>1, <1>2, <2>1, <3>1, Zenon DEF TypeOK, ButtonOK
  <2>3. PressesOK'
    <3>1. PressedBy(now) /\ (gesture.down => PressedBy(gesture.since))
      BY Zenon DEF PressesOK, ButtonOK
    <3>2. ASSUME NEW t, PressedBy(t)
          PROVE  /\ lastPress' <= t /\ submission' <= t
                 /\ \A press \in spent' : press <= t
                 /\ until' <= t + ConfigWindow
      BY <3>2, <1>1, <2>1, Zenon DEF PressedBy
    <3>3. PressedBy(now)'
      BY <3>1, <3>2, <1>1, Zenon DEF PressedBy
    <3>4. gesture'.down => PressedBy(gesture.since)'
      BY <3>1, <3>2, <1>2, Zenon DEF PressedBy
    <3> QED
      BY <3>3, <3>4, <1>1, <2>1, Zenon DEF PressesOK, ButtonOK
  <2> QED
    BY <1>2, <1>3, <2>1, <2>2, <2>3, SlidesStand, Zenon DEF ButtonOK
<1> QED
  BY <1>4, <1>5

LEMMA ButtonStands == ButtonOK /\ UNCHANGED vars => ButtonOK'
<1> SUFFICES ASSUME ButtonOK, UNCHANGED vars PROVE ButtonOK'
  OBVIOUS
<1>1. UNCHANGED <<now, pinDown, pinSince, pinWasUp, lastHold, mode, polled, publishing,
                  gesture, times, published, lastPress, until, playing, submission, rhythm,
                  spent>>
  BY Zenon DEF vars, pinVars, taskVars, pressVars
<1>2. TypeOK'
  BY <1>1, Zenon DEF TypeOK, ButtonOK
<1> QED
  BY <1>1, <1>2, ClockStands, GestureStands, SlidesStand, PressesStand, Zenon
  DEF ButtonOK, gestureVars, pinVars

LEMMA ButtonStepOK == ButtonOK /\ [Next]_vars => ButtonOK'
BY PollOK, FactoryResetOK, PublishOK, ConsumeLoadsOK, ConsumeStoresOK, JoinsOK, FingerOK,
   TickOK, ButtonStands, Zenon DEF Next

(* The inductive invariant: the finger, the task that polls and publishes, *)
(* and the portal's request, in any order (boot_button.cpp:60-170).        *)
THEOREM ButtonCorrect == Spec => []ButtonOK
BY ButtonInitOK, ButtonStepOK, PTL DEF Spec

(* Every variable keeps to the values the code gives it.                   *)
THEOREM ButtonTypes == Spec => []TypeOK
<1>1. ButtonOK => TypeOK
  BY DEF ButtonOK
<1> QED
  BY <1>1, ButtonCorrect, PTL

(* One press authorises one submission at most, for every delay between    *)
(* the load and the store (boot_button.cpp:162-170).                       *)
THEOREM OnePressAlwaysOneSubmission == Spec => []OnePressOneSubmission
<1>1. ButtonOK => OnePressOneSubmission
  BY DEF ButtonOK, PressesOK, OnePressOneSubmission
<1> QED
  BY <1>1, ButtonCorrect, PTL

(* Only a poll that says a press records one.                              *)
LEMMA RecordedByPoll ==
  ASSUME [Next]_vars, lastPress' \notin {lastPress, 0}
  PROVE  /\ Poll /\ SaysPress /\ lastPress' = now
         /\ IF Unlocks(Slid) THEN until' = now + ConfigWindow ELSE UNCHANGED until
<1>1. Poll
  BY Zenon DEF Next, vars, FactoryReset, Booted, Publish, ConsumeLoads, ConsumeStores,
     Joins, RunStartsOrEnds, Finger, Tick
<1>2. SaysPress
  BY <1>1, Zenon DEF Poll
<1> QED
  BY <1>1, <1>2, Zenon DEF Poll, Pressed

(* A factory reset takes a hold of this boot, and what is recorded as a    *)
(* press was one, however late the task was (button_gesture.h:70-117).     *)
THEOREM HoldsMeanOneThing == Spec => HoldMeansOneThing
<1>1. ASSUME ButtonOK, FactoryReset
      PROVE  pinWasUp /\ pinDown /\ now - pinSince >= ResetHold
  <2>1. pinDown /\ gesture.down /\ HeldFor >= ResetHold
    BY <1>1, Zenon DEF FactoryReset, SaysReset
  <2>2. pinWasUp /\ pinSince <= gesture.since
    BY <1>1, <2>1, Zenon DEF GestureOK, ButtonOK
  <2>3. Numbers /\ gesture.since \in Nat
    BY <1>1, Typed, Zenon DEF ButtonOK
  <2>4. now - pinSince >= ResetHold
    BY <2>1, <2>2, <2>3, Bounds DEF HeldFor, Numbers
  <2> QED
    BY <2>1, <2>2, <2>4
<1>2. ASSUME ButtonOK, [Next]_vars, lastPress' \notin {lastPress, 0}
      PROVE  lastHold >= Debounce - MaxGap /\ lastHold < ArmHold + 2 * MaxGap
  <2>1. ~pinDown /\ gesture.down /\ ~gesture.armed /\ HeldFor >= Debounce
    BY <1>2, RecordedByPoll, Zenon DEF SaysPress
  <2>2. /\ gesture.since <= polled /\ polled < gesture.since + ArmHold
        /\ polled <= pinSince /\ pinSince <= gesture.since + lastHold
        /\ gesture.since + lastHold <= pinSince + MaxGap
    BY <1>2, <2>1, Zenon DEF GestureOK, ButtonOK
  <2>3. Numbers /\ ClockOK /\ gesture.since \in Nat
    BY <1>2, Typed, Zenon DEF ButtonOK
  <2>4. now - gesture.since >= Debounce
    BY <2>1, Zenon DEF HeldFor
  <2> QED
    BY <2>2, <2>3, <2>4, Bounds DEF Numbers, ClockOK
<1>3. ButtonOK /\ [Next]_vars =>
        [/\ FactoryReset => pinWasUp /\ pinDown /\ now - pinSince >= ResetHold
         /\ lastPress' \notin {lastPress, 0} =>
              lastHold >= Debounce - MaxGap /\ lastHold < ArmHold + 2 * MaxGap]_vars
  BY <1>1, <1>2, Zenon
<1> QED
  BY <1>3, ButtonCorrect, PTL DEF Spec, HoldMeansOneThing

(* The window opens on the last of UnlockPresses presses within the window *)
(* of one another and on nothing else, for every number of them and every  *)
(* history (press_sequence.h:47-60).                                       *)
THEOREM RhythmAlwaysOpensTheWindow == Spec => RhythmOpensTheWindow
<1>1. ASSUME ButtonOK, [Next]_vars, lastPress' \notin {lastPress, 0}
      PROVE  until' # until <=> Rhythmic(Append(rhythm, now))
  <2>1. /\ SaysPress
        /\ IF Unlocks(Slid) THEN until' = now + ConfigWindow ELSE UNCHANGED until
    BY <1>1, RecordedByPoll, Zenon
  <2>2. until # now + ConfigWindow
    BY <1>1, <2>1, PressIsNew, Zenon
  <2>3. Unlocks(Slid) <=> Rhythmic(Append(rhythm, now))
    BY <1>1, Typed, SlidesOn, Zenon DEF ButtonOK, Numbers
  <2> QED
    BY <2>1, <2>2, <2>3, Zenon
<1>2. ButtonOK /\ [Next]_vars =>
        [lastPress' \notin {lastPress, 0} =>
           (until' # until <=> Rhythmic(Append(rhythm, now)))]_vars
  BY <1>1, Zenon
<1> QED
  BY <1>2, ButtonCorrect, PTL DEF Spec, RhythmOpensTheWindow

(* A finger does what it meant to, and nothing else.                       *)
THEOREM PressesAreAlwaysMeant == Spec => PressesAreMeant
BY HoldsMeanOneThing, RhythmAlwaysOpensTheWindow DEF PressesAreMeant

=============================================================================
