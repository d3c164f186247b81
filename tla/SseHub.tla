------------------------------- MODULE SseHub -------------------------------
(***************************************************************************)
(* The /sse/v2 stream (main/net/sse_hub.cpp): tasks push frames into the   *)
(* outbox and post "drain" messages to the httpd task, the heartbeat timer *)
(* posts "beat" messages, and the httpd task takes the frames, writes them *)
(* to the clients and closes those that cannot take a whole one.  Its      *)
(* mailbox is short and loses what does not fit without an error.          *)
(*                                                                         *)
(* RunControl stands behind "version": which of its states a stateUpdate   *)
(* was made from.                                                          *)
(***************************************************************************)
EXTENDS SseOutbox, SequencesExt

CONSTANTS Sockets,      \* the httpd sessions, which are slots that are reused
          MailboxSize,  \* what lwip's receive mailbox of httpd_queue_work holds
          MaxVersion,   \* bound: changes of the run state
          MaxNotices,   \* bound: one-off events raised
          MaxSessions,  \* bound: connections made
          MaxRefusals   \* bound: posts the network stack refuses with an error

ASSUME HubAssumption == /\ MailboxSize \in Nat \ {0}
                        /\ MaxVersion \in Nat \ {0}
                        /\ MaxNotices \in Nat
                        /\ MaxSessions \in Nat
                        /\ MaxRefusals \in Nat

(* Who publishes the run state, and who raises one-off events.             *)
Publishers == {"run_loop", "httpd"}
Noticers   == {"httpd", "audio"}
Tasks      == Publishers \cup Noticers

VARIABLES version,  \* of the run state
          dirty,    \* pending_broadcast
          lock,     \* who holds the run-state lock across a step
          notices,  \* one-off events the outbox has accepted
          outbox,
          posting,  \* per task: a drain, or for the timer a beat, yet to post
          mailbox,
          httpd,    \* between messages, or in the "drain" or "send" part of one
          batch,    \* the frames the httpd task took and is sending
          session,  \* per socket: the connection that holds it, or 0
          peer,     \* per socket: what the other end does
          closing,  \* rt::SseClients: "no", or dropped and "fresh" or "aged"
          view,     \* per socket: what its connection was sent
          sessions, \* connections so far
          refusals  \* posts refused so far

clientVars == <<session, peer, closing, view, sessions>>
runVars    == <<version, dirty, lock, notices>>
vars       == <<runVars, outbox, posting, mailbox, refusals, httpd, batch,
                clientVars>>

Drain    == [kind |-> "drain"]
BeatMsg  == [kind |-> "beat"]
Close(s) == [kind |-> "close", sock |-> s, of |-> session[s]]

NoView == [state |-> 0, since |-> 0, notices |-> <<>>]

Init ==
  /\ version = 1 /\ dirty = FALSE /\ lock = "free" /\ notices = 0
  /\ outbox = EmptyOutbox
  /\ posting = [t \in Tasks \cup {"timer"} |-> FALSE]
  /\ mailbox = <<>> /\ httpd = "idle" /\ batch = <<>>
  /\ session = [s \in Sockets |-> 0]
  /\ peer = [s \in Sockets |-> "none"]
  /\ closing = [s \in Sockets |-> "no"]
  /\ view = [s \in Sockets |-> NoView]
  /\ sessions = 0 /\ refusals = 0

(* httpd_queue_work: messages that do not fit are gone.                    *)
Posted(box, msgs) ==
  box \o SubSeq(msgs, 1, IF Len(box) + Len(msgs) <= MailboxSize
                         THEN Len(msgs) ELSE MailboxSize - Len(box))

(* request_close() of each: a close that could not be queued is lost too.  *)
CloseEach(box, socks) ==
  LET order == SetToSeq(socks)
  IN  Posted(box, [i \in 1 .. Len(order) |-> Close(order[i])])

HttpdFree == httpd = "idle" /\ ~ posting["httpd"]

MayEnqueue(t) == ~ posting[t] /\ (t = "httpd" => httpd = "idle")

-----------------------------------------------------------------------------
(* Any task *)

(* An operation of the executor.                                           *)
StateChanges == /\ version < MaxVersion
                /\ lock = "free"
                /\ version' = version + 1
                /\ dirty' = TRUE
                /\ UNCHANGED <<refusals, lock, notices, outbox, posting, mailbox, httpd,
                               batch, clientVars>>

Enqueue(t, frame) ==
  /\ outbox' = Push(outbox, frame)
  /\ posting' = [posting EXCEPT ![t] = PostsDrain(outbox, frame)]

(* executor flush(): snapshot and enqueue() under the run-state lock.      *)
Publish(t) ==
  /\ MayEnqueue(t) /\ dirty /\ lock = "free"
  /\ dirty' = FALSE
  /\ Enqueue(t, [event |-> "stateUpdate", n |-> version])
  /\ lock' = IF posting'[t] THEN t ELSE "free"
  /\ UNCHANGED <<refusals, version, notices, mailbox, httpd, batch, clientVars>>

(* broadcast_issue() and broadcast_library_changed(), without that lock.   *)
Notify(t) ==
  /\ MayEnqueue(t) /\ notices < MaxNotices
  /\ LET frame == [event |-> "notice", n |-> notices + 1]
     IN  /\ notices' = IF Refuses(outbox, frame) THEN notices ELSE notices + 1
         /\ Enqueue(t, frame)
  /\ UNCHANGED <<refusals, version, dirty, lock, mailbox, httpd, batch, clientVars>>

(* The post of the drain that push() asked for: it may be lost.            *)
PostDrain(t) ==
  /\ posting[t]
  /\ posting' = [posting EXCEPT ![t] = FALSE]
  /\ mailbox' = Posted(mailbox, <<Drain>>)
  /\ lock' = IF lock = t THEN "free" ELSE lock
  /\ UNCHANGED <<refusals, version, dirty, notices, outbox, httpd, batch, clientVars>>

Refused == refusals < MaxRefusals /\ refusals' = refusals + 1

PostDrainFails(t) ==
  /\ posting[t] /\ Refused
  /\ posting' = [posting EXCEPT ![t] = FALSE]
  /\ outbox' = DrainNotPosted(outbox)
  /\ lock' = IF lock = t THEN "free" ELSE lock
  /\ UNCHANGED <<version, dirty, notices, mailbox, httpd, batch, clientVars>>

-----------------------------------------------------------------------------
(* The heartbeat timer: send_heartbeat() *)

Heartbeat ==
  /\ ~ posting["timer"]
  /\ LET pushed == Push(outbox, [event |-> "heartbeat", n |-> 0])
     IN  /\ outbox' = Beat(pushed)
         /\ posting' = [posting EXCEPT !["timer"] = BeatPosts(pushed)]
  /\ UNCHANGED <<refusals, runVars, mailbox, httpd, batch, clientVars>>

PostBeat ==
  /\ posting["timer"]
  /\ posting' = [posting EXCEPT !["timer"] = FALSE]
  /\ mailbox' = Posted(mailbox, <<BeatMsg>>)
  /\ UNCHANGED <<refusals, runVars, outbox, httpd, batch, clientVars>>

PostBeatFails ==
  /\ posting["timer"] /\ Refused
  /\ posting' = [posting EXCEPT !["timer"] = FALSE]
  /\ outbox' = BeatNotPosted(outbox)
  /\ UNCHANGED <<runVars, mailbox, httpd, batch, clientVars>>

-----------------------------------------------------------------------------
(* The httpd task *)

Receives(msg) == HttpdFree /\ mailbox # <<>> /\ Head(mailbox) = msg

RunDrain == /\ Receives(Drain)
            /\ mailbox' = Tail(mailbox)
            /\ httpd' = "drain"
            /\ UNCHANGED <<refusals, runVars, outbox, posting, batch, clientVars>>

(* overdue() ages what is closing and returns what had aged; then the      *)
(* connections whose peer is gone are dropped.                             *)
Overdue == {s \in Sockets : closing[s] = "aged"}
Dead    == {s \in Sockets : peer[s] = "gone" /\ closing[s] = "no"}

(* Slip: whose close was lost is not asked for again.                      *)
ReapTheDead(box) ==
  /\ mailbox' = CloseEach(box, Dead)
  /\ closing' = [s \in Sockets |-> IF s \in Dead THEN "fresh" ELSE closing[s]]

Reap(box) ==
  /\ mailbox' = CloseEach(CloseEach(box, Overdue), Dead)
  /\ closing' = [s \in Sockets |->
                   IF s \in Dead THEN "fresh"
                   ELSE IF closing[s] = "fresh" THEN "aged" ELSE closing[s]]

(* Slip: a beat reaps, and leaves what a lost drain left behind.            *)
RunBeatOnlyReaps ==
  /\ Receives(BeatMsg)
  /\ outbox' = BeatRan(outbox)
  /\ IF outbox.beatWaiting THEN Reap(Tail(mailbox))
     ELSE mailbox' = Tail(mailbox) /\ UNCHANGED closing
  /\ UNCHANGED <<refusals, runVars, posting, httpd, batch, session, peer, view,
                 sessions>>

RunBeat == /\ Receives(BeatMsg)
           /\ outbox' = BeatRan(outbox)
           /\ IF outbox.beatWaiting THEN Reap(Tail(mailbox))
              ELSE mailbox' = Tail(mailbox) /\ UNCHANGED closing
           /\ httpd' = "drain"
           /\ UNCHANGED <<refusals, runVars, posting, batch, session, peer, view, sessions>>

TakeFrames ==
  /\ httpd = "drain"
  /\ batch' = outbox.frames
  /\ outbox' = Take(outbox)
  /\ httpd' = IF outbox.frames = <<>> THEN "idle" ELSE "send"
  /\ UNCHANGED <<refusals, runVars, posting, mailbox, clientVars>>

(* Slip: a connection that is closing is written to.                       *)
ReceivingOpen == {s \in Sockets : session[s] # 0}

Receiving == {s \in Sockets : session[s] # 0 /\ closing[s] = "no"}

(* What a connection has seen once it took the given frames whole.         *)
Seen(v, frames) ==
  LET states == Of(frames, {"stateUpdate"})
      each   == EachOf(frames)
  IN  [v EXCEPT
        !.state = IF states = <<>> THEN @ ELSE states[Len(states)].n,
        !.notices = @ \o [i \in 1 .. Len(each) |-> each[i].n]]

(* drain_on_httpd_task() and SseClients::send(): a peer that does not read *)
(* or has gone takes some of the batch, and is dropped at the frame it     *)
(* does not take whole.                                                    *)
SendFrames ==
  /\ httpd = "send"
  /\ \E took \in [Receiving -> 0 .. Len(batch)] :
       LET cut == {s \in Receiving : took[s] < Len(batch)}
       IN  /\ \A s \in cut : peer[s] # "reading"
           /\ view' = [s \in Sockets |->
                         IF s \in Receiving
                         THEN Seen(view[s], SubSeq(batch, 1, took[s]))
                         ELSE view[s]]
           /\ closing' = [s \in Sockets |->
                            IF s \in cut THEN "fresh" ELSE closing[s]]
           /\ mailbox' = CloseEach(mailbox, cut)
  /\ httpd' = "idle"
  /\ batch' = <<>>
  /\ UNCHANGED <<refusals, runVars, outbox, posting, session, peer, sessions>>

(* onClose: the socket is forgotten because its number will be reused.     *)
Ends(s) ==
  /\ session' = [session EXCEPT ![s] = 0]
  /\ peer' = [peer EXCEPT ![s] = "none"]
  /\ closing' = [closing EXCEPT ![s] = "no"]
  /\ view' = [view EXCEPT ![s] = NoView]
  /\ UNCHANGED sessions

(* A close message names a slot: whoever holds it now is closed.           *)
RunClose ==
  /\ \E s \in Sockets :
       /\ HttpdFree /\ mailbox # <<>>
       /\ Head(mailbox).kind = "close" /\ Head(mailbox).sock = s
       /\ IF session[s] # 0 THEN Ends(s) ELSE UNCHANGED clientVars
  /\ mailbox' = Tail(mailbox)
  /\ UNCHANGED <<refusals, runVars, outbox, posting, httpd, batch>>

(* esp_http_server ends a session itself: its peer closed it, or it was    *)
(* the least recently used when the sockets ran out.                       *)
ServerCloses(s) ==
  /\ HttpdFree /\ session[s] # 0
  /\ Ends(s)
  /\ UNCHANGED <<refusals, runVars, outbox, posting, mailbox, httpd, batch>>

(* Slip: a page that connects waits for the next change.                   *)
ConnectSilently(s) ==
  /\ HttpdFree /\ lock = "free"
  /\ session[s] = 0 /\ sessions < MaxSessions
  /\ sessions' = sessions + 1
  /\ session' = [session EXCEPT ![s] = sessions + 1]
  /\ \E whole \in BOOLEAN :
       /\ peer' = [peer EXCEPT ![s] = IF whole THEN "reading" ELSE "stalled"]
       /\ closing' = [closing EXCEPT ![s] = IF whole THEN "no" ELSE "fresh"]
       /\ mailbox' = IF whole THEN mailbox
                     ELSE Posted(mailbox, <<[Close(s) EXCEPT !.of = sessions + 1]>>)
       /\ view' = [view EXCEPT ![s] =
                     [state   |-> 0,
                      since   |-> notices - Len(EachOf(outbox.frames)),
                      notices |-> <<>>]]
  /\ UNCHANGED <<refusals, runVars, outbox, posting, httpd, batch>>

(* onOpen: the state as it is, to this client alone, ahead of the outbox.  *)
Connect(s) ==
  /\ HttpdFree /\ lock = "free"
  /\ session[s] = 0 /\ sessions < MaxSessions
  /\ sessions' = sessions + 1
  /\ session' = [session EXCEPT ![s] = sessions + 1]
  /\ \E whole \in BOOLEAN :
       /\ peer' = [peer EXCEPT ![s] = IF whole THEN "reading" ELSE "stalled"]
       /\ closing' = [closing EXCEPT ![s] = IF whole THEN "no" ELSE "fresh"]
       /\ mailbox' = IF whole THEN mailbox
                     ELSE Posted(mailbox, <<[Close(s) EXCEPT !.of = sessions + 1]>>)
       /\ view' = [view EXCEPT ![s] =
                     [state   |-> IF whole THEN version ELSE 0,
                      since   |-> notices - Len(EachOf(outbox.frames)),
                      notices |-> <<>>]]
  /\ UNCHANGED <<refusals, runVars, outbox, posting, httpd, batch>>

-----------------------------------------------------------------------------
(* The clients *)

PeerBecomes(s, how) ==
  /\ session[s] # 0 /\ peer[s] = "reading"
  /\ peer' = [peer EXCEPT ![s] = how]
  /\ UNCHANGED <<refusals, runVars, outbox, posting, mailbox, httpd, batch, session,
                 closing, view, sessions>>

PeerStalls(s) == PeerBecomes(s, "stalled")
PeerGoes(s)   == PeerBecomes(s, "gone")

-----------------------------------------------------------------------------
HttpdWorks == RunDrain \/ RunBeat \/ RunClose \/ TakeFrames \/ SendFrames

Next ==
  \/ StateChanges
  \/ \E t \in Publishers : Publish(t)
  \/ \E t \in Noticers : Notify(t)
  \/ \E t \in Tasks : PostDrain(t) \/ PostDrainFails(t)
  \/ Heartbeat \/ PostBeat \/ PostBeatFails
  \/ RunDrain \/ RunBeat \/ RunClose \/ TakeFrames \/ SendFrames
  \/ \E s \in Sockets : ServerCloses(s) \/ Connect(s) \/ PeerStalls(s) \/ PeerGoes(s)

(* Tasks and the timer run, and a changed state is flushed, which          *)
(* RunControl shows.                                                       *)
Fairness == /\ WF_vars(HttpdWorks)
            /\ WF_vars(Heartbeat)
            /\ WF_vars(PostBeat \/ PostBeatFails)
            /\ \A t \in Tasks : WF_vars(PostDrain(t) \/ PostDrainFails(t))
            /\ WF_vars(\E t \in Publishers : Publish(t))

Spec == Init /\ [][Next]_vars /\ Fairness

-----------------------------------------------------------------------------
(* Every variable holds what the code could hold.                          *)
TypeOK ==
  /\ version \in 1 .. MaxVersion /\ dirty \in BOOLEAN
  /\ lock \in Publishers \cup {"free"}
  /\ notices \in 0 .. MaxNotices
  /\ outbox \in Outboxes
  /\ posting \in [Tasks \cup {"timer"} -> BOOLEAN]
  /\ Len(mailbox) <= MailboxSize
  /\ httpd \in {"idle", "drain", "send"}
  /\ batch \in Seq(Frames)
  /\ session \in [Sockets -> 0 .. MaxSessions]
  /\ peer \in [Sockets -> {"none", "reading", "stalled", "gone"}]
  /\ closing \in [Sockets -> {"no", "fresh", "aged"}]
  /\ view \in [Sockets -> [state : 0 .. MaxVersion, since : 0 .. MaxNotices,
                           notices : Seq(1 .. MaxNotices)]]
  /\ sessions \in 0 .. MaxSessions /\ refusals \in 0 .. MaxRefusals

(* Notices the httpd task has sent or tried to send.                       *)
SentNotices == notices - Len(EachOf(outbox.frames)) - Len(EachOf(batch))

(* The one-off events: a client that keeps up gets every one that was      *)
(* accepted while it was connected, once and in the order raised, and one  *)
(* that is dropped gets a beginning of them.                               *)
EveryNoticeInOrder ==
  \A s \in Sockets : session[s] # 0 =>
    LET due == [i \in 1 .. SentNotices - view[s].since |-> view[s].since + i]
    IN  IF closing[s] = "no" THEN view[s].notices = due
        ELSE \E n \in 0 .. Len(due) : view[s].notices = SubSeq(due, 1, n)

(* A stream that was cut in the middle of a frame carries nothing more,    *)
(* whatever still waits behind the close.                                  *)
NothingAfterTheCut ==
  [][\A s \in Sockets :
       closing[s] # "no" /\ session'[s] = session[s] => view'[s] = view[s]]_vars

(* What is accepted goes out, however many drains and beats the mailbox    *)
(* loses.                                                                  *)
FramesGoOut == outbox.frames # <<>> ~> outbox.frames = <<>>

(* A client that stays and reads comes to hold the state the device is in. *)
ClientsCatchUp ==
  \A s \in Sockets :
    (session[s] # 0 /\ peer[s] = "reading" /\ view[s].state # version)
      ~> (session[s] = 0 \/ peer[s] # "reading" \/ view[s].state = version)

(* A dropped client gives its socket back.                                 *)
ClosingEnds ==
  \A s \in Sockets : closing[s] # "no" ~> closing[s] = "no"

(* No lost drain, beat or close holds the hub up for good: frames go out,  *)
(* and sockets come back (sse_hub.cpp:46-70, 158-201).                     *)
HubGoesOn == FramesGoOut /\ ClosingEnds

=============================================================================
