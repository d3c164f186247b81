----------------------------- MODULE SseOutbox -----------------------------
(***************************************************************************)
(* rt::SseOutbox (rt_logic/sse_outbox.h): the frames that wait for the     *)
(* httpd task and the decision when to wake it, as operators on an outbox. *)
(* Every operation runs under s_outbox_lock.                               *)
(***************************************************************************)
EXTENDS Naturals, Sequences

CONSTANTS Capacity,    \* kSseOutboxCapacity: the kEach frames that may wait
          RepostAfter  \* kBeatRepostAfter

ASSUME OutboxAssumption == Capacity \in Nat /\ RepostAfter \in Nat \ {0}

(* "stateUpdate" and "heartbeat" are sent kLatest, "notice" stands for the *)
(* one-off events sent kEach; n tells two frames of an event apart.        *)
LatestEvents == {"stateUpdate", "heartbeat"}
EachEvents   == {"notice"}

Frames == [event : LatestEvents \cup EachEvents, n : Nat]

Latest(frame) == frame.event \in LatestEvents

Outboxes == [frames : Seq(Frames), drainPosted : BOOLEAN,
             beatWaiting : BOOLEAN, beatWaits : 0 .. RepostAfter]

EmptyOutbox == [frames |-> <<>>, drainPosted |-> FALSE,
                beatWaiting |-> FALSE, beatWaits |-> 0]

(* The frames that are of the given events, among the first k and in all.  *)
Picked(frames, events) ==
  LET picked[k \in 0 .. Len(frames)] ==
        IF k = 0 THEN <<>>
        ELSE IF frames[k].event \in events THEN Append(picked[k - 1], frames[k])
        ELSE picked[k - 1]
  IN  picked

Of(frames, events) == Picked(frames, events)[Len(frames)]

EachOf(frames) == Of(frames, EachEvents)

-----------------------------------------------------------------------------
(* push(): a newer frame goes behind everything raised before it and takes *)
(* the place of the one it supersedes; a full outbox refuses a notice.     *)
Refuses(o, frame) == ~ Latest(frame) /\ Len(EachOf(o.frames)) >= Capacity

Outliving(frame) ==
  (LatestEvents \cup EachEvents) \ (IF Latest(frame) THEN {frame.event} ELSE {})

(* Slip: a kLatest frame clears whatever waits.                            *)
PushErasesAll(o, frame) ==
  IF Refuses(o, frame) THEN o
  ELSE [o EXCEPT
         !.frames = IF Latest(frame) THEN <<frame>> ELSE Append(@, frame),
         !.drainPosted = TRUE]

Push(o, frame) ==
  IF Refuses(o, frame) THEN o
  ELSE [o EXCEPT
         !.frames = Append(Of(@, Outliving(frame)), frame),
         !.drainPosted = TRUE]

PostsDrain(o, frame) == ~ Refuses(o, frame) /\ ~ o.drainPosted

(* take(): what the caller gets is o.frames.                               *)
Take(o) == [o EXCEPT !.frames = <<>>, !.drainPosted = FALSE]

DrainNotPosted(o) == [o EXCEPT !.drainPosted = FALSE]

-----------------------------------------------------------------------------
(* beat(): one waiting beat is left to run for RepostAfter calls.          *)
BeatPosts(o) == ~ o.beatWaiting \/ o.beatWaits + 1 >= RepostAfter

Beat(o) == IF BeatPosts(o)
           THEN [o EXCEPT !.beatWaiting = TRUE, !.beatWaits = 0]
           ELSE [o EXCEPT !.beatWaits = @ + 1]

(* beat_ran() returns o.beatWaiting.                                       *)
BeatRan(o) == [o EXCEPT !.beatWaiting = FALSE]

BeatNotPosted(o) == [o EXCEPT !.beatWaiting = FALSE]
=============================================================================
