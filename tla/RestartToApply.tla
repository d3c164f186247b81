---------------------------- MODULE RestartToApply ----------------------------
(***************************************************************************)
(* The button that applies what was saved (RestartToApply.tsx), and the    *)
(* two reads that tell whether there is anything to apply                  *)
(* (useRestartPending.ts), against a device that saves what others tell    *)
(* it, goes down a while after it was asked to, and comes back.            *)
(***************************************************************************)
EXTENDS Naturals

VARIABLES unused,      \* the device: what is saved and not in use
          restart,     \* the device: "up", "scheduled" or "down"
          sse,         \* the stream: "connected", "silent" or "error"
          pendingRead, \* what the page's two reads said
          stateReads,  \* their fetches: "idle", "asked", or what was answered
          restartPage, \* the component's own state
          restartAsked \* its request: "none", "sent", "ok" or "failed"

restartPageVars == <<unused, restart, sse, pendingRead, stateReads, restartPage, restartAsked>>

Subjects == {"hardware", "wifi"}
Yes == "required"
No == "not required"

RestartPageInit ==
  /\ unused = {} /\ restart = "up" /\ sse = "error"
  /\ pendingRead = {} /\ stateReads = [s \in Subjects |-> "asked"]
  /\ restartPage = [confirming |-> FALSE, restarting |-> FALSE,
                    dropped |-> FALSE, since |-> FALSE]
  /\ restartAsked = "none"

deviceSideVars == <<unused, restart>>

-----------------------------------------------------------------------------
(* Slip: a connected stream is taken for the device being back.            *)
BackOnSight(p, read) == TRUE

(* The stream was gone since the click, or nothing is left to apply.       *)
Back(p, read) == p.dropped \/ read = {}

(* The effect, which runs when one of the three changes.                   *)
Effect(p, stream, read) ==
  CASE ~ p.restarting -> [p EXCEPT !.dropped = FALSE]
    [] p.restarting /\ stream = "error" -> [p EXCEPT !.dropped = TRUE]
    [] p.restarting /\ stream # "error" ->
         IF Back(p, read) THEN [p EXCEPT !.restarting = FALSE, !.dropped = FALSE] ELSE p

(* Whether the stream failed, or nothing was left to apply, since the      *)
(* click is remembered besides.                                            *)
Told(p, stream, read) == [p EXCEPT !.since = @ \/ stream = "error" \/ read = {}]

RestartPageBecomes(p, stream, read) ==
  restartPage' = Told(Effect(p, stream, read), stream, read) /\ sse' = stream /\ pendingRead' = read

Offered == pendingRead # {} \/ restartPage.restarting

PressRestart ==
  /\ Offered /\ ~ restartPage.restarting /\ ~ restartPage.confirming
  /\ RestartPageBecomes([restartPage EXCEPT !.confirming = TRUE], sse, pendingRead)
  /\ UNCHANGED <<deviceSideVars, stateReads, restartAsked>>

CancelRestart ==
  /\ Offered /\ restartPage.confirming
  /\ RestartPageBecomes([restartPage EXCEPT !.confirming = FALSE], sse, pendingRead)
  /\ UNCHANGED <<deviceSideVars, stateReads, restartAsked>>

(* One request at a time, which stands for the last that was sent.         *)
ConfirmRestart ==
  /\ Offered /\ restartPage.confirming /\ restartAsked = "none"
  /\ RestartPageBecomes([restartPage EXCEPT !.confirming = FALSE, !.restarting = TRUE,
                                            !.since = FALSE], sse, pendingRead)
  /\ restartAsked' = "sent"
  /\ UNCHANGED <<deviceSideVars, stateReads>>

RestartAnswered ==
  /\ restartAsked \in {"ok", "failed"} /\ restartAsked' = "none"
  /\ RestartPageBecomes(IF restartAsked = "ok" THEN restartPage
                        ELSE [restartPage EXCEPT !.restarting = FALSE], sse, pendingRead)
  /\ UNCHANGED <<deviceSideVars, stateReads>>

-----------------------------------------------------------------------------
(* The device.                                                             *)

(* Refused while a program runs, or when there is no memory for the task.  *)
HandleRestart ==
  /\ restartAsked = "sent" /\ restart # "down"
  /\ \/ restartAsked' = "ok" /\ restart' = "scheduled"
     \/ restartAsked' = "failed" /\ UNCHANGED restart
  /\ UNCHANGED <<unused, sse, pendingRead, stateReads, restartPage>>

LoseRestart ==
  /\ restartAsked \in {"sent", "ok"} /\ restartAsked' = "failed"
  /\ UNCHANGED <<deviceSideVars, sse, pendingRead, stateReads, restartPage>>

(* Put back by hand, what was saved is in use.                             *)
SavedElsewhere ==
  /\ restart # "down"
  /\ \/ \E s \in Subjects : unused' = unused \cup {s}
     \/ unused' = unused \ {"hardware"}
  /\ UNCHANGED <<restart, sse, pendingRead, stateReads, restartPage, restartAsked>>

(* Streams go with it, and the page may be late to notice.                 *)
GoDown ==
  /\ restart = "scheduled" /\ restart' = "down" /\ unused' = {}
  /\ RestartPageBecomes(restartPage, IF sse = "connected" THEN "silent" ELSE sse, pendingRead)
  /\ UNCHANGED <<stateReads, restartAsked>>

ComeUp ==
  /\ restart = "down" /\ restart' = "up"
  /\ UNCHANGED <<unused, sse, pendingRead, stateReads, restartPage, restartAsked>>

-----------------------------------------------------------------------------
StreamFails ==
  /\ sse # "error"
  /\ RestartPageBecomes(restartPage, "error", pendingRead)
  /\ UNCHANGED <<deviceSideVars, stateReads, restartAsked>>

(* Both are read again.                                                    *)
StreamIsBack ==
  /\ sse = "error" /\ restart # "down"
  /\ RestartPageBecomes(restartPage, "connected", pendingRead)
  /\ stateReads' = [s \in Subjects |-> "asked"]
  /\ UNCHANGED <<deviceSideVars, restartAsked>>

(* The page's own save, or one of the reads grows old.                     *)
ReadAgain(s) ==
  /\ stateReads[s] = "idle" /\ stateReads' = [stateReads EXCEPT ![s] = "asked"]
  /\ UNCHANGED <<deviceSideVars, sse, pendingRead, restartPage, restartAsked>>

ServeRead(s) ==
  /\ stateReads[s] = "asked" /\ restart # "down"
  /\ stateReads' = [stateReads EXCEPT ![s] = IF s \in unused THEN Yes ELSE No]
  /\ UNCHANGED <<deviceSideVars, sse, pendingRead, restartPage, restartAsked>>

ReadEnds(s) ==
  /\ stateReads[s] \in {Yes, No} /\ stateReads' = [stateReads EXCEPT ![s] = "idle"]
  /\ RestartPageBecomes(restartPage, sse,
       IF stateReads[s] = Yes THEN pendingRead \cup {s} ELSE pendingRead \ {s})
  /\ UNCHANGED <<deviceSideVars, restartAsked>>

ReadFails(s) ==
  /\ stateReads[s] # "idle" /\ stateReads' = [stateReads EXCEPT ![s] = "idle"]
  /\ UNCHANGED <<deviceSideVars, sse, pendingRead, restartPage, restartAsked>>

RestartPageNext ==
  \/ PressRestart \/ CancelRestart \/ ConfirmRestart \/ RestartAnswered
  \/ HandleRestart \/ LoseRestart \/ SavedElsewhere \/ GoDown \/ ComeUp
  \/ StreamFails \/ StreamIsBack
  \/ \E s \in Subjects : ReadAgain(s) \/ ServeRead(s) \/ ReadEnds(s) \/ ReadFails(s)

RestartPageSpec == RestartPageInit /\ [][RestartPageNext]_restartPageVars

-----------------------------------------------------------------------------
(* Restarting... is no one-way door: with the request answered, the device *)
(* up and heard, the button can be pressed again.  And it is not a way out *)
(* too early: while the device is about to go down for this page's request *)
(* it cannot, unless the stream was gone since the click, nothing is left  *)
(* to apply, or the page was told that the request failed                  *)
(* (RestartToApply.tsx:55-71).                                             *)
RestartingIsTrue ==
  /\ restartAsked = "none" /\ restart = "up" /\ sse = "connected" => ~ restartPage.restarting
  /\ restartAsked = "ok" /\ restart = "scheduled" /\ sse = "connected" /\ pendingRead # {} =>
       restartPage.restarting \/ restartPage.since
=============================================================================
