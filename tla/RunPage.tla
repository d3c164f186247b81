------------------------------- MODULE RunPage -------------------------------
(***************************************************************************)
(* The page that starts programs (routes/run.tsx) and what it acts on: the *)
(* device's run state, the event stream that brings it (useSSE.ts), the    *)
(* query cache between them, and requests whose answers may be lost.       *)
(*                                                                         *)
(* A frame is in the cache at once, the page is drawn from it later; every *)
(* other event of the page draws it too, with what is in the cache then.   *)
(* The switches for the targets change nothing here and are left out, and  *)
(* so is a browser that may not control, which has none of the buttons.    *)
(***************************************************************************)
EXTENDS Naturals, Sequences, FiniteSets, SequencesExt

CONSTANTS Programs,
          Wide,        \* the programs that need more banks than there are
          NoProgram,
          MaxRequests, \* bound: starts on their way, and other requests
          MaxFrames    \* bound: frames on their way

VARIABLES onDevice,    \* the run state: program and running
          stream,      \* "up", "silent" (lost, and nobody noticed) or "down"
          frames,      \* stateUpdate frames on their way
          cached,      \* the query ['state']; sse-status is stream # "down"
          page,        \* what is drawn, and the component's own state
          requests     \* requests, with their answers on the way back

runPageVars == <<onDevice, stream, frames, cached, page, requests>>

RunState == [program : Programs \cup {NoProgram}, running : BOOLEAN]
Unloaded == [program |-> NoProgram, running |-> FALSE]
Loaded(id) == [program |-> id, running |-> FALSE]

(* pendingLoad: what the operator picked, and what was loaded then.        *)
NoPick == [id |-> NoProgram, previous |-> NoProgram]

(* A countdown is on or off: a tick that leaves time only draws the page.  *)
(* What the page says is nothing, what the device answered, or that and    *)
(* why a start did not go out.                                             *)
Notices == {"", "answer", "not_started"}

RunPageInit ==
  /\ onDevice = Unloaded /\ stream = "down" /\ frames = <<>>
  /\ cached = Unloaded
  /\ page = [shown |-> Unloaded, pick |-> NoPick, countdown |-> FALSE,
             armed |-> NoProgram, notice |-> ""]
  /\ requests = {}

-----------------------------------------------------------------------------
(* Drawing the page settles what drifted away under it.                    *)

Loading(sent) == \E r \in sent : r.op = "load"

(* Slip: only the picked program itself answers the pick.                  *)
PickIsAnsweredByItself(p, state) == state.program = p.pick.id

(* The device holds another program than when the pick was made, or it is  *)
(* the picked one.                                                         *)
PickIsAnswered(p, state) ==
  state.program # p.pick.previous \/ state.program = p.pick.id

Drawn(p, state, sent) ==
  LET answered == p.pick # NoPick /\ ~ Loading(sent) /\ PickIsAnswered(p, state)
      drifted == p.armed # NoProgram /\ p.armed # state.program
  IN  [shown |-> state,
       pick |-> IF answered THEN NoPick ELSE p.pick,
       countdown |-> p.countdown /\ ~ drifted,
       armed |-> IF drifted THEN NoProgram ELSE p.armed,
       notice |-> IF drifted THEN "not_started" ELSE p.notice]

(* An event of the page: its own state becomes p, the requests are sent.   *)
Becomes(p, sent) ==
  /\ requests' = sent
  /\ page' = Drawn(p, cached, sent)
  /\ UNCHANGED <<onDevice, stream, frames, cached>>

Request(op, id) == [op |-> op, id |-> id, at |-> "sent"]
Starts == {r \in requests : r.op = "start"}
MayAsk(op) == /\ Cardinality(requests \ Starts) < MaxRequests
              /\ \A r \in requests : r.op # op

(* What is behind the countdown's dialog cannot be pressed.                *)
Reachable == ~ page.countdown

ProgramConfirmed == page.shown.program # NoProgram /\ page.pick = NoPick

PickProgram(id) ==
  /\ Reachable /\ ~ Loading(requests) /\ MayAsk("load")
  /\ Becomes([page EXCEPT !.notice = "",
                          !.pick = [id |-> id, previous |-> page.shown.program]],
             requests \cup {Request("load", id)})

(* Slip: asked of what is drawn.                                           *)
RefusalAsDrawn(id) == page.shown.program # id \/ stream = "down"

(* refuseStart(), from the cache and not from what is drawn.               *)
Refusal(id) == cached.program # id \/ stream = "down"

StartIfDeviceAgrees(id, p) ==
  \/ /\ Refusal(id)
     /\ Becomes([p EXCEPT !.notice = "not_started"], requests)
  \/ /\ ~ Refusal(id)
     /\ Cardinality(Starts) < MaxRequests
     /\ Becomes(p, requests \cup {Request("start", id)})

CountdownClosed == [page EXCEPT !.countdown = FALSE, !.armed = NoProgram]

PressStart ==
  /\ Reachable /\ ProgramConfirmed
  /\ ~ page.shown.running /\ page.shown.program \notin Wide
  /\ \/ StartIfDeviceAgrees(page.shown.program, [page EXCEPT !.notice = ""])
     \/ Becomes([page EXCEPT !.notice = "", !.countdown = TRUE,
                             !.armed = page.shown.program], requests)

(* The countdown's end, or Start Now.                                      *)
CountdownEnds == page.countdown /\ StartIfDeviceAgrees(page.armed, CountdownClosed)

CancelCountdown == page.countdown /\ Becomes(CountdownClosed, requests)

PressPause ==
  /\ Reachable /\ page.shown.running /\ MayAsk("stop")
  /\ Becomes(page, requests \cup {Request("stop", NoProgram)})

PressReset ==
  /\ Reachable /\ ProgramConfirmed /\ ~ page.shown.running /\ MayAsk("reset")
  /\ Becomes(page, requests \cup {Request("reset", NoProgram)})

PressUnload ==
  /\ Reachable /\ page.shown.program # NoProgram /\ MayAsk("unload")
  /\ Becomes([page EXCEPT !.notice = ""], requests \cup {Request("unload", NoProgram)})

PickSeries ==
  /\ Reachable /\ page.shown.program # NoProgram /\ ~ page.shown.running /\ MayAsk("skip")
  /\ Becomes(page, requests \cup {Request("skip", page.shown.program)})

DrawPage == page.shown # cached /\ Becomes(page, requests)

-----------------------------------------------------------------------------
(* The device answers a request, and publishes the state it changed.       *)

Grants(r) ==
  CASE r.op = "load" -> TRUE
    [] r.op = "start" -> onDevice.program = r.id /\ r.id \notin Wide
    [] r.op = "stop" -> onDevice.running
    [] r.op = "reset" -> onDevice.program # NoProgram
    [] r.op = "unload" -> ~ onDevice.running
    [] r.op = "skip" -> onDevice.program = r.id

After(r) ==
  CASE r.op = "load" -> Loaded(r.id)
    [] r.op = "start" -> [onDevice EXCEPT !.running = TRUE]
    [] r.op = "unload" -> Unloaded
    [] OTHER -> [onDevice EXCEPT !.running = FALSE]

(* A frame that nobody took yet is replaced by the next one, and the page  *)
(* may be drawn once for both.                                             *)
Publish(state) ==
  /\ onDevice' = state
  /\ IF state = onDevice \/ stream # "up" THEN UNCHANGED frames
     ELSE \/ Len(frames) < MaxFrames /\ frames' = Append(frames, state)
          \/ frames # <<>> /\ frames' = Append(Front(frames), state)

(* Nothing listens to the answers of stop and reset.                       *)
Heeded == {r \in requests : r.op \notin {"stop", "reset"}}

Answer(r, at) ==
  requests' = (requests \ {r}) \cup {[q EXCEPT !.at = at] : q \in {r} \cap Heeded}

Handle(r) ==
  /\ r.at = "sent"
  /\ Publish(IF Grants(r) THEN After(r) ELSE onDevice)
  /\ Answer(r, IF Grants(r) THEN "ok" ELSE "refused")
  /\ UNCHANGED <<stream, cached, page>>

(* Another browser loads, starts, stops or unloads; a run ends by itself.  *)
OthersAct ==
  /\ \E state \in RunState :
       /\ state # onDevice
       /\ \/ ~ state.running /\ state.program # NoProgram
          \/ state = Unloaded /\ ~ onDevice.running
          \/ state = [onDevice EXCEPT !.running = TRUE] /\ state.program \notin Wide \cup {NoProgram}
       /\ Publish(state)
  /\ UNCHANGED <<stream, cached, page, requests>>

AnswerTaken(r) ==
  /\ r.at # "sent"
  /\ LET p == CASE r.op = "load" /\ r.at = "refused" ->
                     [page EXCEPT !.pick = NoPick, !.notice = "answer"]
                [] r.op \in {"start", "skip", "unload"} /\ r.at = "refused" ->
                     [page EXCEPT !.notice = "answer"]
                [] r.op = "unload" /\ r.at = "ok" ->
                     [page EXCEPT !.notice = IF @ = "" THEN "answer" ELSE @]
                [] OTHER -> page
     IN  Becomes(p, requests \ {r})

(* The connection fails before the request is handled, or before the       *)
(* answer is there.                                                        *)
LoseRequest(r) ==
  /\ r.at # "refused"
  /\ Answer(r, "refused")
  /\ UNCHANGED <<onDevice, stream, frames, cached, page>>

Deliver ==
  /\ frames # <<>> /\ stream = "up"
  /\ cached' = Head(frames) /\ frames' = Tail(frames)
  /\ UNCHANGED <<onDevice, stream, page, requests>>

StreamBreaks ==
  /\ stream # "down"
  /\ stream' \in {"silent", "down"} \ {stream}
  /\ frames' = <<>>
  /\ UNCHANGED <<onDevice, cached, page, requests>>

(* The device sends a new listener its state.                              *)
StreamOpens ==
  /\ stream = "down" /\ stream' = "up"
  /\ frames' = <<onDevice>>
  /\ UNCHANGED <<onDevice, cached, page, requests>>

RunPageNext ==
  \/ \E id \in Programs : PickProgram(id)
  \/ PressStart \/ CountdownEnds \/ CancelCountdown
  \/ PressPause \/ PressReset \/ PressUnload \/ PickSeries \/ DrawPage
  \/ \E r \in requests : Handle(r) \/ AnswerTaken(r) \/ LoseRequest(r)
  \/ OthersAct \/ Deliver \/ StreamBreaks \/ StreamOpens

RunPageSpec == RunPageInit /\ [][RunPageNext]_runPageVars

-----------------------------------------------------------------------------
(* A start goes out only for the program the operator saw when pressing    *)
(* Start, while it is the last one the device reported and contact is not  *)
(* known to be lost; and a countdown ends in a start, in a notice, or by   *)
(* Cancel (run.tsx:158-173, 318-325, 405-416, 470-496).                    *)
StartsAreMeant ==
  [][/\ \A r \in requests' \ requests :
          r.op = "start" /\ r.at = "sent" =>
            /\ r.id = IF page.armed = NoProgram THEN page.shown.program ELSE page.armed
            /\ r.id = cached.program /\ stream # "down" /\ page.pick = NoPick
     /\ page.armed # NoProgram /\ page'.armed # page.armed =>
          \/ Request("start", page.armed) \in requests'
          \/ page'.notice = "not_started"
          \/ CancelCountdown]_runPageVars

(* Nothing is on its way and the page is drawn.                            *)
Quiet == stream = "up" /\ frames = <<>> /\ requests = {} /\ page.shown = cached

(* Once everything arrived the page shows what is on the device, and a     *)
(* pick is open only while the device is back at the program it was made   *)
(* from; a countdown runs for the program that is drawn (run.tsx:184-203,  *)
(* 306-325).                                                               *)
PageAgrees ==
  /\ page.armed \in {NoProgram, page.shown.program}
  /\ page.countdown <=> page.armed # NoProgram
  /\ Quiet => /\ page.shown = onDevice
              /\ page.pick # NoPick => onDevice.program = page.pick.previous

(* As the comments promise: once a load is answered, the device's program  *)
(* can be started again (run.tsx:189-194, 306-309).                        *)
StartIsOffered == Quiet /\ onDevice.program # NoProgram => ProgramConfirmed
=============================================================================
