----------------------------- MODULE Boot_proofs -----------------------------
(***************************************************************************)
(* What holds of OtaUpdate, and of Boot, which joins a network before it,  *)
(* in every reachable state, checked by TLAPS.                             *)
(* The invariants the run checks are not inductive: why the boot slot is   *)
(* never erased, for one, follows from where it is while an image was or   *)
(* was not installed, and why no run is going from the httpd task having   *)
(* served no start since the upload began.  UpdateOK says all of that, and *)
(* JoinOK below what connect(), on_event() and the driver know of each     *)
(* other.                                                                  *)
(***************************************************************************)
EXTENDS Boot, SequenceTheorems, TLAPS

(* Where the httpd task is in an upload, and what it has done by then.     *)
RequestOK ==
  /\ handle = inProgress
  /\ request \in {"part", "verified"} => inProgress
  /\ request \in {"part", "verified", "chosen"} => ~session.installed
  /\ request \in {"part", "verified", "chosen"} => ~playing
  /\ request \in {"part", "verified"} => ~installs
  /\ request = "chosen" => installs
  /\ request = "body" => (installs <=> session.installed)
  /\ request # "none" => answer = "none"

(* Which slot is which: the boot slot leaves the running one only when an  *)
(* image is installed, and a slot that may yet be needed is not written.   *)
SlotsOK ==
  /\ image[running] = "ours"
  /\ session.installed \/ request = "chosen" =>
       boot = Other(running) /\ verdict = "new" /\ image[boot] = "ours"
  /\ ~session.installed /\ request # "chosen" => boot = running
  /\ verdict = "new" => boot = Other(running)
  /\ verdict = "pending" => boot = running /\ image[Other(running)] = "ours"
  /\ request \in {"part", "verified"} => verdict = "valid"
  /\ request = "verified" => image[Other(running)] = "ours"

(* The restart that was promised is on its way, and nothing runs.          *)
RestartOK ==
  /\ "update" \in restarts <=> RestartPending
  /\ session.restarting => RestartPending /\ installs
  /\ UpdateInProgress => ~playing

UpdateOK == TypeOK /\ RequestOK /\ SlotsOK /\ RestartOK /\ AnswersAreTrue

LEMMA InitOK == Init => UpdateOK
<1> SUFFICES ASSUME Init PROVE UpdateOK
  OBVIOUS
<1>1. TypeOK
  BY DEF Init, TypeOK, Slots, Images, Uploads, Answers, Sessions, Refusals,
         Requests, NewSession
<1>2. RequestOK
  BY DEF Init, RequestOK, NewSession
<1>3. SlotsOK
  BY DEF Init, SlotsOK, NewSession, Slots
<1>4. RestartOK
  BY DEF Init, RestartOK, NewSession, RestartPending, UpdateInProgress
<1>5. AnswersAreTrue
  BY DEF Init, AnswersAreTrue
<1> QED
  BY <1>1, <1>2, <1>3, <1>4, <1>5 DEF UpdateOK

LEMMA UploadOK ==
  ASSUME UpdateOK, NEW multipart \in BOOLEAN, Upload(multipart)
  PROVE  UpdateOK'
<1> USE DEF UpdateOK, TypeOK, Slots, Other, bootVars, uploadVars
<1>1. TypeOK'
  BY DEF Upload, Gate, Gated, AlreadyInstalled, Clear, Images, Uploads,
      Answers, Sessions, Refusals, Requests
<1>2. RequestOK'
  BY DEF Upload, Gate, Gated, AlreadyInstalled, Clear, RequestOK, Sessions
<1>3. SlotsOK'
  BY DEF Upload, Gate, Gated, AlreadyInstalled, Clear, RequestOK, SlotsOK,
      Sessions
<1>4. RestartOK'
  BY DEF Upload, Gate, Gated, AlreadyInstalled, Clear, RequestOK, RestartOK,
      RestartPending, UpdateInProgress, Sessions
<1>5. AnswersAreTrue'
  BY DEF Upload, Gate, Gated, AlreadyInstalled, Clear, RequestOK, SlotsOK,
      RestartOK, RestartPending, AnswersAreTrue, Sessions
<1> QED
  BY <1>1, <1>2, <1>3, <1>4, <1>5

LEMMA FirstChunkRefusedOK ==
  ASSUME UpdateOK, FirstChunkRefused
  PROVE  UpdateOK'
<1> USE DEF UpdateOK, TypeOK, Slots, Other, bootVars, uploadVars
<1>1. TypeOK'
  BY DEF FirstChunkRefused, Begun, MayBegin, Images, Uploads, Answers,
      Sessions, Refusals, Requests
<1>2. RequestOK'
  BY DEF FirstChunkRefused, Begun, MayBegin, RequestOK, Sessions
<1>3. SlotsOK'
  BY DEF FirstChunkRefused, Begun, MayBegin, RequestOK, SlotsOK, Sessions
<1>4. RestartOK'
  BY DEF FirstChunkRefused, Begun, MayBegin, RequestOK, RestartOK,
      RestartPending, UpdateInProgress, Sessions
<1>5. AnswersAreTrue'
  BY DEF FirstChunkRefused, Begun, MayBegin, RequestOK, SlotsOK, RestartOK,
      RestartPending, AnswersAreTrue, Sessions
<1> QED
  BY <1>1, <1>2, <1>3, <1>4, <1>5

LEMMA FirstChunkFailsOK ==
  ASSUME UpdateOK, FirstChunkFails
  PROVE  UpdateOK'
<1> USE DEF UpdateOK, TypeOK, Slots, Other, bootVars, uploadVars
<1>1. TypeOK'
  <2>1. session' \in Sessions
    BY DEF FirstChunkFails, Begun, Sessions, Refusals
  <2>2. image' \in [Slots -> Images]
    BY DEF FirstChunkFails, Images
  <2> QED
    BY <2>1, <2>2 DEF FirstChunkFails, Clear
<1>2. RequestOK'
  BY DEF FirstChunkFails, Begun, MayBegin, Clear, RequestOK, Sessions
<1>3. SlotsOK'
  BY DEF FirstChunkFails, Begun, MayBegin, Clear, RequestOK, SlotsOK,
      Sessions
<1>4. RestartOK'
  BY DEF FirstChunkFails, Begun, MayBegin, Clear, RequestOK, RestartOK,
      RestartPending, UpdateInProgress, Sessions
<1>5. AnswersAreTrue'
  BY DEF FirstChunkFails, Begun, MayBegin, Clear, RequestOK, SlotsOK,
      RestartOK, RestartPending, AnswersAreTrue, Sessions
<1> QED
  BY <1>1, <1>2, <1>3, <1>4, <1>5

LEMMA FirstChunkOK ==
  ASSUME UpdateOK, FirstChunk
  PROVE  UpdateOK'
<1> USE DEF UpdateOK, TypeOK, Slots, Other, bootVars, uploadVars
<1>1. TypeOK'
  BY DEF FirstChunk, Begun, MayBegin, Images, Uploads, Answers, Sessions,
      Refusals, Requests
<1>2. RequestOK'
  BY DEF FirstChunk, Begun, MayBegin, RequestOK, Sessions
<1>3. SlotsOK'
  BY DEF FirstChunk, Begun, MayBegin, RequestOK, SlotsOK, Sessions
<1>4. RestartOK'
  BY DEF FirstChunk, Begun, MayBegin, RequestOK, RestartOK, RestartPending,
      UpdateInProgress, Sessions
<1>5. AnswersAreTrue'
  BY DEF FirstChunk, Begun, MayBegin, RequestOK, SlotsOK, RestartOK,
      RestartPending, AnswersAreTrue, Sessions
<1> QED
  BY <1>1, <1>2, <1>3, <1>4, <1>5

(* The session an upload is left with may differ in how it failed only.    *)
SameInstall(s) == /\ s.installed = session.installed
                  /\ s.scheduled = session.scheduled
                  /\ s.restarting = session.restarting

LEMMA SessionEdits ==
  ASSUME session \in Sessions, NEW why \in Refusals
  PROVE  /\ Failed \in Sessions /\ SameInstall(Failed)
         /\ Refused(why) \in Sessions /\ SameInstall(Refused(why))
  BY DEF Sessions, Failed, Refused, SameInstall

LEMMA PartEndsOK ==
  ASSUME UpdateOK, request \in {"part", "verified"},
         NEW s \in Sessions, SameInstall(s), PartEnds(s)
  PROVE  UpdateOK'
<1> USE DEF UpdateOK, TypeOK, PartEnds, Clear, SameInstall, bootVars
<1>1. TypeOK'
  BY DEF Requests
<1>2. RequestOK'
  BY DEF RequestOK
<1>3. SlotsOK'
  BY DEF RequestOK, SlotsOK, Other
<1>4. RestartOK'
  BY DEF RequestOK, RestartOK, RestartPending, UpdateInProgress
<1>5. AnswersAreTrue'
  BY DEF RequestOK, AnswersAreTrue
<1> QED
  BY <1>1, <1>2, <1>3, <1>4, <1>5

LEMMA WriteFailsOK ==
  ASSUME UpdateOK, WriteFails
  PROVE  UpdateOK'
<1>0. session \in Sessions
  BY DEF UpdateOK, TypeOK
<1>1. /\ "invalid_image" \in Refusals
     /\ Failed \in Sessions /\ SameInstall(Failed)
     /\ Refused("invalid_image") \in Sessions /\ SameInstall(Refused("invalid_image"))
  BY <1>0, SessionEdits DEF Refusals
<1> QED
  BY <1>1, PartEndsOK DEF WriteFails

LEMMA ImageRefusedOK ==
  ASSUME UpdateOK, ImageRefused
  PROVE  UpdateOK'
<1>0. session \in Sessions
  BY DEF UpdateOK, TypeOK
<1>1. /\ "empty_image" \in Refusals
     /\ Failed \in Sessions /\ SameInstall(Failed)
     /\ Refused("empty_image") \in Sessions /\ SameInstall(Refused("empty_image"))
  BY <1>0, SessionEdits DEF Refusals
<1>2. /\ "project_mismatch" \in Refusals
     /\ Failed \in Sessions /\ SameInstall(Failed)
     /\ Refused("project_mismatch") \in Sessions /\ SameInstall(Refused("project_mismatch"))
  BY <1>0, SessionEdits DEF Refusals
<1> QED
  BY <1>1, <1>2, PartEndsOK DEF ImageRefused

LEMMA EndFailsOK ==
  ASSUME UpdateOK, EndFails
  PROVE  UpdateOK'
<1>0. session \in Sessions
  BY DEF UpdateOK, TypeOK
<1>1. /\ "invalid_image" \in Refusals
     /\ Failed \in Sessions /\ SameInstall(Failed)
     /\ Refused("invalid_image") \in Sessions /\ SameInstall(Refused("invalid_image"))
  BY <1>0, SessionEdits DEF Refusals
<1> QED
  BY <1>1, PartEndsOK DEF EndFails

LEMMA EndOK ==
  ASSUME UpdateOK, End
  PROVE  UpdateOK'
<1> USE DEF UpdateOK, TypeOK, Slots, Other, bootVars, uploadVars
<1>1. TypeOK'
  BY DEF End, Images, Uploads, Answers, Sessions, Refusals, Requests
<1>2. RequestOK'
  BY DEF End, RequestOK, Sessions
<1>3. SlotsOK'
  BY DEF End, RequestOK, SlotsOK, Sessions
<1>4. RestartOK'
  BY DEF End, RequestOK, RestartOK, RestartPending, UpdateInProgress,
      Sessions
<1>5. AnswersAreTrue'
  BY DEF End, RequestOK, SlotsOK, RestartOK, RestartPending, AnswersAreTrue,
      Sessions
<1> QED
  BY <1>1, <1>2, <1>3, <1>4, <1>5

LEMMA SetBootFailsOK ==
  ASSUME UpdateOK, SetBootFails
  PROVE  UpdateOK'
<1>0. session \in Sessions
  BY DEF UpdateOK, TypeOK
<1>1. /\ "none" \in Refusals
     /\ Failed \in Sessions /\ SameInstall(Failed)
     /\ Refused("none") \in Sessions /\ SameInstall(Refused("none"))
  BY <1>0, SessionEdits DEF Refusals
<1> QED
  BY <1>1, PartEndsOK DEF SetBootFails

LEMMA SetBootOK ==
  ASSUME UpdateOK, SetBoot
  PROVE  UpdateOK'
<1> USE DEF UpdateOK, TypeOK, Slots, Other, bootVars, uploadVars
<1>1. TypeOK'
  <2>1. boot' \in Slots
    BY DEF SetBoot
  <2> QED
    BY <2>1 DEF SetBoot, Clear, Requests
<1>2. RequestOK'
  BY DEF SetBoot, Clear, RequestOK, Sessions
<1>3. SlotsOK'
  BY DEF SetBoot, Clear, RequestOK, SlotsOK, Sessions
<1>4. RestartOK'
  BY DEF SetBoot, Clear, RequestOK, RestartOK, RestartPending,
      UpdateInProgress, Sessions
<1>5. AnswersAreTrue'
  BY DEF SetBoot, Clear, RequestOK, SlotsOK, RestartOK, RestartPending,
      AnswersAreTrue, Sessions
<1> QED
  BY <1>1, <1>2, <1>3, <1>4, <1>5

LEMMA InstallOK ==
  ASSUME UpdateOK, Install
  PROVE  UpdateOK'
<1> USE DEF UpdateOK, TypeOK, Slots, Other, bootVars, uploadVars
<1>1. TypeOK'
  <2>1. session' \in Sessions
    BY DEF Install, Sessions
  <2>2. restarts' \subseteq {"update", "request", "portal"}
    BY DEF Install
  <2> QED
    BY <2>1, <2>2 DEF Install, Requests
<1>2. RequestOK'
  BY DEF Install, RequestOK, Sessions
<1>3. SlotsOK'
  BY DEF Install, RequestOK, SlotsOK, Sessions
<1>4. RestartOK'
  BY DEF Install, RequestOK, RestartOK, RestartPending, UpdateInProgress,
      Sessions
<1>5. AnswersAreTrue'
  BY DEF Install, RequestOK, SlotsOK, RestartOK, RestartPending,
      AnswersAreTrue, Sessions
<1> QED
  BY <1>1, <1>2, <1>3, <1>4, <1>5

LEMMA RespondOK ==
  ASSUME UpdateOK, Respond
  PROVE  UpdateOK'
<1> USE DEF UpdateOK, TypeOK, Slots, Other, bootVars, uploadVars
<1>1. TypeOK'
  BY DEF Respond, Response, AlreadyInstalled, Images, Uploads, Answers,
      Sessions, Refusals, Requests
<1>2. RequestOK'
  BY DEF Respond, Response, AlreadyInstalled, RequestOK, Sessions
<1>3. SlotsOK'
  BY DEF Respond, Response, AlreadyInstalled, RequestOK, SlotsOK, Sessions
<1>4. RestartOK'
  BY DEF Respond, Response, AlreadyInstalled, RequestOK, RestartOK,
      RestartPending, UpdateInProgress, Sessions
<1>5. AnswersAreTrue'
  BY DEF Respond, Response, AlreadyInstalled, RequestOK, SlotsOK, RestartOK,
      RestartPending, AnswersAreTrue, Sessions
<1> QED
  BY <1>1, <1>2, <1>3, <1>4, <1>5

LEMMA BodyDiesOK ==
  ASSUME UpdateOK, BodyDies
  PROVE  UpdateOK'
<1> USE DEF UpdateOK, TypeOK, Slots, Other, bootVars, uploadVars
<1>1. TypeOK'
  BY DEF BodyDies, Images, Uploads, Answers, Sessions, Refusals, Requests
<1>2. RequestOK'
  BY DEF BodyDies, RequestOK, Sessions
<1>3. SlotsOK'
  BY DEF BodyDies, RequestOK, SlotsOK, Sessions
<1>4. RestartOK'
  BY DEF BodyDies, RequestOK, RestartOK, RestartPending, UpdateInProgress,
      Sessions
<1>5. AnswersAreTrue'
  BY DEF BodyDies, RequestOK, SlotsOK, RestartOK, RestartPending,
      AnswersAreTrue, Sessions
<1> QED
  BY <1>1, <1>2, <1>3, <1>4, <1>5

LEMMA StartOK ==
  ASSUME UpdateOK, Start
  PROVE  UpdateOK'
<1> USE DEF UpdateOK, TypeOK, Slots, Other, bootVars, uploadVars
<1>1. TypeOK'
  BY DEF Start, Images, Uploads, Answers, Sessions, Refusals, Requests
<1>2. RequestOK'
  BY DEF Start, RequestOK, Sessions
<1>3. SlotsOK'
  BY DEF Start, RequestOK, SlotsOK, Sessions
<1>4. RestartOK'
  BY DEF Start, RequestOK, RestartOK, RestartPending, UpdateInProgress,
      Sessions
<1>5. AnswersAreTrue'
  BY DEF Start, RequestOK, SlotsOK, RestartOK, RestartPending,
      AnswersAreTrue, Sessions
<1> QED
  BY <1>1, <1>2, <1>3, <1>4, <1>5

LEMMA RunEndsOK ==
  ASSUME UpdateOK, RunEnds
  PROVE  UpdateOK'
<1> USE DEF UpdateOK, TypeOK, Slots, Other, bootVars, uploadVars
<1>1. TypeOK'
  BY DEF RunEnds
<1>2. RequestOK'
  BY DEF RunEnds, RequestOK, Sessions
<1>3. SlotsOK'
  BY DEF RunEnds, RequestOK, SlotsOK, Sessions
<1>4. RestartOK'
  BY DEF RunEnds, RequestOK, RestartOK, RestartPending, UpdateInProgress,
      Sessions
<1>5. AnswersAreTrue'
  BY DEF RunEnds, RequestOK, SlotsOK, RestartOK, RestartPending,
      AnswersAreTrue, Sessions
<1> QED
  BY <1>1, <1>2, <1>3, <1>4, <1>5

LEMMA RequestRestartOK ==
  ASSUME UpdateOK, RequestRestart
  PROVE  UpdateOK'
<1> USE DEF UpdateOK, TypeOK, Slots, Other, bootVars, uploadVars
<1>1. TypeOK'
  BY DEF RequestRestart, Images, Uploads, Answers, Sessions, Refusals,
      Requests
<1>2. RequestOK'
  BY DEF RequestRestart, RequestOK, Sessions
<1>3. SlotsOK'
  BY DEF RequestRestart, RequestOK, SlotsOK, Sessions
<1>4. RestartOK'
  BY DEF RequestRestart, RequestOK, RestartOK, RestartPending,
      UpdateInProgress, Sessions
<1>5. AnswersAreTrue'
  BY DEF RequestRestart, RequestOK, SlotsOK, RestartOK, RestartPending,
      AnswersAreTrue, Sessions
<1> QED
  BY <1>1, <1>2, <1>3, <1>4, <1>5

LEMMA PortalSavesOK ==
  ASSUME UpdateOK, PortalSaves
  PROVE  UpdateOK'
<1> USE DEF UpdateOK, TypeOK, Slots, Other, bootVars, uploadVars
<1>1. TypeOK'
  BY DEF PortalSaves, Images, Uploads, Answers, Sessions, Refusals, Requests
<1>2. RequestOK'
  BY DEF PortalSaves, RequestOK, Sessions
<1>3. SlotsOK'
  BY DEF PortalSaves, RequestOK, SlotsOK, Sessions
<1>4. RestartOK'
  BY DEF PortalSaves, RequestOK, RestartOK, RestartPending,
      UpdateInProgress, Sessions
<1>5. AnswersAreTrue'
  BY DEF PortalSaves, RequestOK, SlotsOK, RestartOK, RestartPending,
      AnswersAreTrue, Sessions
<1> QED
  BY <1>1, <1>2, <1>3, <1>4, <1>5

LEMMA RebootOK ==
  ASSUME UpdateOK, Reboot
  PROVE  UpdateOK'
<1> USE DEF UpdateOK, TypeOK, Slots, Other, bootVars, uploadVars
<1>1. TypeOK'
  <2>1. /\ boot' \in Slots /\ running' \in Slots
        /\ verdict' \in {"new", "pending", "valid"}
    BY DEF Reboot, Bootloader
  <2>2. session' \in Sessions
    BY DEF Reboot, NewSession, Sessions, Refusals
  <2> QED
    BY <2>1, <2>2 DEF Reboot, Requests, Answers
<1>2. RequestOK'
  BY DEF Reboot, Bootloader, NewSession, RequestOK, Sessions
<1>3. SlotsOK'
  BY DEF Reboot, Bootloader, NewSession, RequestOK, SlotsOK, Sessions
<1>4. RestartOK'
  BY DEF Reboot, Bootloader, NewSession, RequestOK, RestartOK,
      RestartPending, UpdateInProgress, Sessions
<1>5. AnswersAreTrue'
  BY DEF Reboot, Bootloader, NewSession, RequestOK, SlotsOK, RestartOK,
      RestartPending, AnswersAreTrue, Sessions
<1> QED
  BY <1>1, <1>2, <1>3, <1>4, <1>5

LEMMA NoNetworkOK ==
  ASSUME UpdateOK, NoNetwork
  PROVE  UpdateOK'
<1> USE DEF UpdateOK, TypeOK, Slots, Other, bootVars, uploadVars
<1>1. TypeOK'
  BY DEF NoNetwork, Images, Uploads, Answers, Sessions, Refusals, Requests
<1>2. RequestOK'
  BY DEF NoNetwork, RequestOK, Sessions
<1>3. SlotsOK'
  BY DEF NoNetwork, RequestOK, SlotsOK, Sessions
<1>4. RestartOK'
  BY DEF NoNetwork, RequestOK, RestartOK, RestartPending, UpdateInProgress,
      Sessions
<1>5. AnswersAreTrue'
  BY DEF NoNetwork, RequestOK, SlotsOK, RestartOK, RestartPending,
      AnswersAreTrue, Sessions
<1> QED
  BY <1>1, <1>2, <1>3, <1>4, <1>5

LEMMA ServeOK ==
  ASSUME UpdateOK, Serve
  PROVE  UpdateOK'
<1> USE DEF UpdateOK, TypeOK, Slots, Other, bootVars, uploadVars
<1>1. TypeOK'
  BY DEF Serve, Images, Uploads, Answers, Sessions, Refusals, Requests
<1>2. RequestOK'
  BY DEF Serve, RequestOK, Sessions
<1>3. SlotsOK'
  BY DEF Serve, RequestOK, SlotsOK, Sessions
<1>4. RestartOK'
  BY DEF Serve, RequestOK, RestartOK, RestartPending, UpdateInProgress,
      Sessions
<1>5. AnswersAreTrue'
  BY DEF Serve, RequestOK, SlotsOK, RestartOK, RestartPending,
      AnswersAreTrue, Sessions
<1> QED
  BY <1>1, <1>2, <1>3, <1>4, <1>5

LEMMA MarkValidOK ==
  ASSUME UpdateOK, MarkValid
  PROVE  UpdateOK'
<1> USE DEF UpdateOK, TypeOK, Slots, Other, bootVars, uploadVars
<1>1. TypeOK'
  BY DEF MarkValid, Images, Uploads, Answers, Sessions, Refusals, Requests
<1>2. RequestOK'
  BY DEF MarkValid, RequestOK, Sessions
<1>3. SlotsOK'
  BY DEF MarkValid, RequestOK, SlotsOK, Sessions
<1>4. RestartOK'
  BY DEF MarkValid, RequestOK, RestartOK, RestartPending, UpdateInProgress,
      Sessions
<1>5. AnswersAreTrue'
  BY DEF MarkValid, RequestOK, SlotsOK, RestartOK, RestartPending,
      AnswersAreTrue, Sessions
<1> QED
  BY <1>1, <1>2, <1>3, <1>4, <1>5

LEMMA StepOK == UpdateOK /\ [Next]_vars => UpdateOK'
<1> SUFFICES ASSUME UpdateOK, [Next]_vars PROVE UpdateOK'
  OBVIOUS
<1>1. CASE \E multipart \in BOOLEAN : Upload(multipart)
  BY <1>1, UploadOK
<1>2. CASE HttpdStep
  BY <1>2, FirstChunkRefusedOK, FirstChunkFailsOK, FirstChunkOK, WriteFailsOK,
     ImageRefusedOK, EndFailsOK, EndOK, SetBootFailsOK, SetBootOK, InstallOK,
     RespondOK, BodyDiesOK
  DEF HttpdStep
<1>3. CASE Start \/ RunEnds \/ RequestRestart \/ PortalSaves
  BY <1>3, StartOK, RunEndsOK, RequestRestartOK, PortalSavesOK
<1>4. CASE RestartFires \/ PowerCycle
  BY <1>4, RebootOK DEF RestartFires, PowerCycle
<1>5. CASE NoNetwork \/ Serve \/ MarkValid
  BY <1>5, NoNetworkOK, ServeOK, MarkValidOK
<1>6. CASE UNCHANGED vars
  BY <1>6 DEF vars, bootVars, uploadVars, UpdateOK, TypeOK, RequestOK,
     SlotsOK, RestartOK, RestartPending, UpdateInProgress, AnswersAreTrue
<1> QED
  BY <1>1, <1>2, <1>3, <1>4, <1>5, <1>6 DEF Next

(* The inductive invariant holds in every reachable state: the httpd task, *)
(* the run loop, the restart tasks and the power supply in any order.      *)
THEOREM UpdateCorrect == Spec => []UpdateOK
  BY InitOK, StepOK, PTL DEF Spec

(* Every variable keeps to the values the code gives it.                   *)
THEOREM UpdateTypes == Spec => []TypeOK
<1>1. UpdateOK => TypeOK
  BY DEF UpdateOK
<1> QED
  BY <1>1, UpdateCorrect, PTL

(* The slot that boots next, and the one a first try would go back to,     *)
(* hold whole images of this project, whenever the power fails.            *)
THEOREM AlwaysBootsIntact == Spec => []BootsIntact
<1>1. UpdateOK => BootsIntact
  BY DEF UpdateOK, TypeOK, SlotsOK, BootsIntact, Slots, Other
<1> QED
  BY <1>1, UpdateCorrect, PTL

(* No run is going from the first erased block to the restart, though the  *)
(* start and the upload ask about each other at different times.           *)
THEOREM UpdateAlwaysHasTheDevice == Spec => []UpdateHasTheDevice
<1>1. UpdateOK => UpdateHasTheDevice
  BY DEF UpdateOK, RestartOK, UpdateHasTheDevice, UpdateInProgress
<1> QED
  BY <1>1, UpdateCorrect, PTL

(* What the client of an upload is told of it is so.                       *)
THEOREM AnswersAlwaysTrue == Spec => []AnswersAreTrue
<1>1. UpdateOK => AnswersAreTrue
  BY DEF UpdateOK
<1> QED
  BY <1>1, UpdateCorrect, PTL

-----------------------------------------------------------------------------
(* Joining a network.  FullBudgetEach is about the moment a network is     *)
(* given up, and follows from what was counted before it: while the first  *)
(* join is under way there is one attempt, or the report of its end, or    *)
(* neither, and the counts of the driver's side and of on_event()'s differ *)
(* by what is still to be handled.                                         *)
Reasons == {Lost, LostAnswered}

FreshCount == /\ bits = {} /\ retries = 0 /\ tries = 0
              /\ ~answered /\ ~heard

(* With n reports to be handled.                                           *)
Counted(n) == /\ bits = {}
              /\ tries = retries + n
              /\ retries <= Budget(answered)

UsedUp == /\ bits = {"failed"}
          /\ answered = heard
          /\ tries = Budget(heard) + 1

(* connect() is at a network, and waits or is about to.                    *)
Begins == /\ pc = "next" /\ at = 0 /\ result = "none"
          /\ radio = "off" /\ events = <<>> /\ config = 0
          /\ FreshCount

GoesOn == /\ pc = "next" /\ at > 0 /\ result = "none"
          /\ radio = "idle" /\ events = <<>> /\ config = at
          /\ UsedUp

AboutToGo == /\ pc = "go" /\ at > 0 /\ result = "none"
             /\ radio \in {"off", "idle"} /\ events = <<>> /\ config = at
             /\ FreshCount

NotStarted == radio = "idle" /\ events = <<StaStart>> /\ FreshCount

Attempting == /\ radio \in {"trying", "linked"} /\ events = <<>>
              /\ Counted(0) /\ answered = heard

Denied == /\ radio = "idle" /\ Counted(1)
          /\ \E reason \in Reasons :
               /\ events = <<reason>>
               /\ heard = (answered \/ reason = LostAnswered)

Exhausted == radio = "idle" /\ events = <<>> /\ UsedUp

Addressed == /\ bits = {}
             /\ \/ radio = "online" /\ events = <<GotIp>>
                \/ /\ radio = "idle"
                   /\ \E reason \in Reasons : events = <<GotIp, reason>>

Waits == /\ pc = "wait" /\ at > 0 /\ result = "none" /\ config = at
         /\ (NotStarted \/ Attempting \/ Denied \/ Exhausted \/ Addressed)

InPortal == /\ pc = "done"
            /\ \/ result = "portal" /\ radio = "off" /\ events = <<>>
               \/ /\ result = "portal up" /\ config = 0 /\ radio = "idle"
                  /\ events \in {<<>>, <<StaStart>>}
            /\ (bits = {} \/ UsedUp)

(* Before the first address, and after it.                                 *)
Joining == /\ ~joinedOnce /\ ~timer /\ backoff = FirstBackoff
           /\ (Begins \/ GoesOn \/ AboutToGo \/ Waits \/ InPortal)

Joined == /\ joinedOnce /\ bits = {"connected"}
          /\ retries = 0 /\ tries = 0 /\ ~heard
          /\ radio # "off" /\ at > 0 /\ config = at
          /\ \/ pc = "wait" /\ result = "none"
             \/ pc = "done" /\ result = "connected"

(* JoinTypeOK in the provers' terms: bounds, truth values and the rest.     *)
JoinSizes == /\ known \in Nat /\ known <= MaxNetworks
             /\ at \in Nat /\ at <= known
             /\ config \in Nat /\ config <= known
             /\ retries \in Nat /\ retries <= 3 * Retries
             /\ tries \in Nat /\ tries <= 3 * Retries + 1
             /\ backoff \in Nat
             /\ FirstBackoff <= backoff /\ backoff <= BackoffCap

JoinTruths == /\ answered \in BOOLEAN /\ joinedOnce \in BOOLEAN
              /\ timer \in BOOLEAN /\ heard \in BOOLEAN

JoinKinds == /\ pc \in {"next", "go", "wait", "done"}
             /\ result \in {"none", "connected", "portal", "portal up"}
             /\ bits \subseteq {"connected", "failed"}
             /\ radio \in {"off", "idle", "trying", "linked", "online"}
             /\ events \in Seq({StaStart, GotIp, Lost, LostAnswered})

JoinOK == JoinSizes /\ JoinTruths /\ JoinKinds /\ (Joining \/ Joined)

LEMMA Ranges ==
  ASSUME NEW n \in Nat, NEW x
  PROVE  x \in 0 .. n <=> x \in Nat /\ x <= n
OBVIOUS

LEMMA JoinTypes == JoinTypeOK <=> JoinSizes /\ JoinTruths /\ JoinKinds
<1>1. /\ MaxNetworks \in Nat /\ 3 * Retries \in Nat /\ 3 * Retries + 1 \in Nat
  BY WifiJoinAssumption
<1>2. \A n \in Nat : /\ at \in 0 .. n <=> at \in Nat /\ at <= n
                     /\ config \in 0 .. n <=> config \in Nat /\ config <= n
  BY Ranges, Zenon
<1>3. /\ known \in 0 .. MaxNetworks <=> known \in Nat /\ known <= MaxNetworks
      /\ retries \in 0 .. 3 * Retries <=> retries \in Nat /\ retries <= 3 * Retries
      /\ tries \in 0 .. 3 * Retries + 1 <=> tries \in Nat /\ tries <= 3 * Retries + 1
  BY <1>1, Ranges, Zenon
<1>4. backoff \in FirstBackoff .. BackoffCap
        <=> backoff \in Nat /\ FirstBackoff <= backoff /\ backoff <= BackoffCap
  BY WifiJoinAssumption
<1> QED
  BY <1>2, <1>3, <1>4, Zenon DEF JoinTypeOK, JoinSizes, JoinTruths, JoinKinds

(* What a sequence of one or two events is, and what is left of it.        *)
LEMMA ShortSequences ==
  ASSUME NEW S, NEW a \in S, NEW b \in S
  PROVE  /\ <<>> \in Seq(S) /\ <<a>> \in Seq(S) /\ <<a, b>> \in Seq(S)
         /\ <<a>> # <<>> /\ <<a, b>> # <<>>
         /\ Head(<<a>>) = a /\ Tail(<<a>>) = <<>>
         /\ Head(<<a, b>>) = a /\ Tail(<<a, b>>) = <<b>>
         /\ Append(<<>>, a) = <<a>> /\ Append(<<a>>, b) = <<a, b>>
<1>1. Append(<<a>>, b) = <<a, b>>
  <2>1. Append(<<a>>, b) \in Seq(S) /\ <<a, b>> \in Seq(S)
    OBVIOUS
  <2>2. Len(Append(<<a>>, b)) = 2 /\ Len(<<a, b>>) = 2
    OBVIOUS
  <2>3. \A i \in 1 .. 2 : Append(<<a>>, b)[i] = <<a, b>>[i]
    OBVIOUS
  <2> QED
    BY <2>1, <2>2, <2>3, SeqEqual
<1>2. <<>> \in Seq(S) /\ <<a>> \in Seq(S) /\ <<a, b>> \in Seq(S)
  OBVIOUS
<1>3. <<a>> # <<>> /\ <<a, b>> # <<>>
  OBVIOUS
<1>4. Head(<<a>>) = a /\ Tail(<<a>>) = <<>>
  OBVIOUS
<1>5. Head(<<a, b>>) = a /\ Tail(<<a, b>>) = <<b>>
  OBVIOUS
<1>6. Append(<<>>, a) = <<a>>
  OBVIOUS
<1> QED
  BY <1>1, <1>2, <1>3, <1>4, <1>5, <1>6

LEMMA EventTails ==
  ASSUME NEW S, NEW e \in Seq(S)
  PROVE  /\ e # <<>> => Tail(e) \in Seq(S) /\ Head(e) \in S
         /\ \A a \in S : Append(e, a) \in Seq(S)
OBVIOUS

(* Nothing counted yet is counted right.                                   *)
LEMMA FreshIsCounted == JoinTruths /\ FreshCount => Counted(0) /\ answered = heard
<1> SUFFICES ASSUME JoinTruths, FreshCount PROVE Counted(0) /\ answered = heard
  OBVIOUS
<1>1. answered = FALSE /\ heard = FALSE
  BY Zenon DEF JoinTruths, FreshCount
<1>2. Budget(answered) = Retries
  BY <1>1, Zenon DEF Budget
<1>3. bits = {} /\ retries = 0 /\ tries = 0
  BY Zenon DEF FreshCount
<1>4. Counted(0)
  BY <1>2, <1>3, WifiJoinAssumption DEF Counted
<1> QED
  BY <1>1, <1>4

LEMMA JoinInitOK == JoinInit => JoinOK
<1> SUFFICES ASSUME JoinInit PROVE JoinOK
  OBVIOUS
<1>1. JoinSizes
  BY WifiJoinAssumption DEF JoinInit, JoinSizes
<1>2. JoinTruths
  BY Zenon DEF JoinInit, JoinTruths
<1>3. JoinKinds
  BY DEF JoinInit, JoinKinds
<1>4. Joining
  BY DEF JoinInit, Joining, Begins, FreshCount
<1> QED
  BY <1>1, <1>2, <1>3, <1>4 DEF JoinOK

LEMMA PrepareOK == JoinOK /\ Prepare => JoinOK'
<1> SUFFICES ASSUME JoinOK, Prepare PROVE JoinOK'
  OBVIOUS
<1>1. Joining /\ (Begins \/ GoesOn)
  BY DEF JoinOK, Joining, Joined, AboutToGo, Waits, InPortal, Prepare
<1>2. JoinSizes'
  BY WifiJoinAssumption DEF JoinOK, JoinSizes, Prepare
<1>3. JoinTruths'
  BY Zenon DEF JoinOK, JoinTruths, Prepare
<1>4. JoinKinds'
  BY DEF JoinOK, JoinKinds, Prepare
<1>5. Joining'
  BY <1>1 DEF JoinOK, JoinSizes, Prepare, Joining, Begins, GoesOn, AboutToGo, FreshCount
<1> QED
  BY <1>2, <1>3, <1>4, <1>5 DEF JoinOK

LEMMA GoOK == JoinOK /\ Go => JoinOK'
<1> SUFFICES ASSUME JoinOK, Go PROVE JoinOK'
  OBVIOUS
<1>1. Joining /\ AboutToGo
  BY DEF JoinOK, Joining, Joined, Begins, GoesOn, AboutToGo, Waits, InPortal, Go
<1>0. config # 0
  BY <1>1 DEF AboutToGo, JoinOK, JoinSizes
<1>2. JoinSizes'
  BY DEF JoinOK, JoinSizes, Go, stateVars
<1>3. JoinTruths'
  BY Zenon DEF JoinOK, JoinTruths, Go, stateVars
<1>4. JoinKinds' /\ Joining'
  <2> USE <1>1 DEF JoinOK, JoinKinds, Go, stateVars, Joining, AboutToGo, Waits, FreshCount
  <2>1. CASE radio = "off"
    <3>1. radio' = "idle" /\ events' = <<StaStart>>
      BY <2>1, ShortSequences
    <3> QED
      BY <3>1, ShortSequences DEF NotStarted
  <2>2. CASE radio # "off"
    <3>1. radio' = "trying" /\ events' = <<>>
      BY <2>2, <1>0 DEF Connect
    <3>2. Counted(0) /\ answered = heard
      BY FreshIsCounted
    <3>3. Attempting'
      BY <3>1, <3>2 DEF Attempting, Counted, Budget
    <3> QED
      BY <3>1, <3>3
  <2> QED
    BY <2>1, <2>2
<1> QED
  BY <1>2, <1>3, <1>4 DEF JoinOK

LEMMA WokenOK == JoinOK /\ Woken => JoinOK'
<1> SUFFICES ASSUME JoinOK, Woken PROVE JoinOK'
  OBVIOUS
<1> USE DEF JoinOK, Woken, stateVars, driverVars
<1>1. JoinSizes'
  BY DEF JoinSizes
<1>2. JoinTruths'
  BY Zenon DEF JoinTruths
<1>3. JoinKinds'
  BY DEF JoinKinds
<1>4. CASE Joined
  BY <1>1, <1>2, <1>3, <1>4 DEF Joined
<1>5. CASE Joining
  <2>1. Waits /\ Exhausted
    BY <1>5 DEF Joining, Begins, GoesOn, AboutToGo, Waits, InPortal, FreshCount, UsedUp,
           NotStarted, Attempting, Denied, Counted, Addressed
  <2>2. GoesOn'
    BY <2>1 DEF GoesOn, Waits, Exhausted, UsedUp, Budget
  <2> QED
    BY <1>5, <2>2, <1>1, <1>2, <1>3 DEF Joining
<1> QED
  BY <1>4, <1>5

LEMMA GiveUpOK == JoinOK /\ GiveUp => JoinOK'
<1> SUFFICES ASSUME JoinOK, GiveUp PROVE JoinOK'
  OBVIOUS
<1> USE DEF JoinOK, GiveUp, stateVars
<1>1. JoinSizes'
  BY DEF JoinSizes
<1>2. JoinTruths'
  BY Zenon DEF JoinTruths
<1>3. JoinKinds'
  BY DEF JoinKinds
<1>4. Joining /\ (Begins \/ GoesOn)
  BY DEF Joining, Joined, AboutToGo, Waits, InPortal
<1>5. InPortal'
  BY <1>4 DEF Begins, GoesOn, FreshCount, UsedUp, InPortal, Budget
<1> QED
  BY <1>4, <1>5, <1>1, <1>2, <1>3 DEF Joining

(* Which states of connect() have something for on_event() to handle.      *)
LEMMA WhatIsHandled ==
  ASSUME Joining, NEW event, Handled(event)
  PROVE  \/ Waits /\ NotStarted /\ event = StaStart /\ events' = <<>>
         \/ Waits /\ Denied /\ event \in Reasons /\ events' = <<>>
            /\ heard = (answered \/ event = LostAnswered)
         \/ Waits /\ Addressed /\ event = GotIp
         \/ InPortal /\ result = "portal up" /\ event = StaStart /\ events' = <<>>
<1>1. events # <<>> /\ Head(events) = event /\ events' = Tail(events)
  BY DEF Handled
<1>2. Head(<<StaStart>>) = StaStart /\ Tail(<<StaStart>>) = <<>>
  BY ShortSequences
<1>3. ASSUME NEW reason \in Reasons
      PROVE  /\ Head(<<reason>>) = reason /\ Tail(<<reason>>) = <<>>
             /\ Head(<<GotIp, reason>>) = GotIp
  BY ShortSequences
<1>4. Head(<<GotIp>>) = GotIp
  BY ShortSequences
<1>5. CASE Waits /\ NotStarted
  BY <1>1, <1>2, <1>5 DEF NotStarted
<1>6. CASE Waits /\ Denied
  <2>1. PICK reason \in Reasons : /\ events = <<reason>>
                                 /\ heard = (answered \/ reason = LostAnswered)
    BY <1>6, Zenon DEF Denied
  <2>2. event = reason /\ events' = <<>>
    BY <2>1, <1>1, <1>3
  <2> QED
    BY <2>1, <2>2, <1>6, Zenon
<1>7. CASE Waits /\ Addressed
  BY <1>1, <1>3, <1>4, <1>7 DEF Addressed
<1>8. CASE InPortal
  BY <1>1, <1>2, <1>8 DEF InPortal
<1>9. (Waits /\ (NotStarted \/ Denied \/ Addressed)) \/ InPortal
  BY <1>1 DEF Joining, Begins, GoesOn, AboutToGo, Waits, Attempting, Exhausted
<1> QED
  BY <1>5, <1>6, <1>7, <1>8, <1>9, Zenon

LEMMA EventKinds ==
  /\ StaStart # GotIp
  /\ \A reason \in Reasons : reason # StaStart /\ reason # GotIp
  /\ Reasons \subseteq {StaStart, GotIp, Lost, LostAnswered}
BY DEF Reasons, StaStart, GotIp, Lost, LostAnswered

LEMMA OnStartOK == JoinOK /\ OnStart => JoinOK'
<1> SUFFICES ASSUME JoinOK, OnStart PROVE JoinOK'
  OBVIOUS
<1>0. Handled(StaStart)
  BY DEF OnStart
<1> USE DEF JoinOK, OnStart, taskVars, stateVars
<1>1. JoinSizes'
  BY DEF JoinSizes
<1>2. JoinTruths'
  BY Zenon DEF JoinTruths
<1>3. JoinKinds'
  <2>1. events' \in Seq({StaStart, GotIp, Lost, LostAnswered})
    BY <1>0, EventTails, Zenon DEF JoinKinds, Handled
  <2>2. radio' \in {"off", "idle", "trying", "linked", "online"}
    BY DEF JoinKinds, Connect
  <2> QED
    BY <2>1, <2>2, Zenon DEF JoinKinds
<1>4. CASE Joined
  <2>1. radio' # "off"
    BY <1>4 DEF Joined, Connect
  <2> QED
    BY <1>4, <2>1, <1>1, <1>2, <1>3 DEF Joined
<1>5. CASE Joining
  <2>1. \/ Waits /\ NotStarted /\ events' = <<>>
        \/ InPortal /\ result = "portal up" /\ events' = <<>>
    BY <1>5, <1>0, WhatIsHandled, EventKinds, Zenon
  <2>2. CASE Waits /\ NotStarted /\ events' = <<>>
    <3>1. known > 0 /\ config # 0
      BY <2>2 DEF Waits, JoinSizes
    <3>2. radio' = "trying"
      BY <3>1, <2>2 DEF NotStarted, Connect
    <3>4. Counted(0) /\ answered = heard
      BY <2>2, FreshIsCounted DEF NotStarted
    <3>3. Attempting'
      BY <3>2, <2>2, <3>4 DEF Attempting, Counted, Budget
    <3> QED
      BY <3>3, <2>2, <1>5, <1>1, <1>2, <1>3 DEF Waits, Joining
  <2>3. CASE InPortal /\ result = "portal up" /\ events' = <<>>
    <3>1. radio' = "idle"
      BY <2>3 DEF InPortal, Connect
    <3>2. InPortal'
      BY <2>3, <3>1 DEF InPortal, UsedUp, Budget
    <3> QED
      BY <3>2, <1>5, <1>1, <1>2, <1>3 DEF Joining
  <2> QED
    BY <2>1, <2>2, <2>3
<1> QED
  BY <1>4, <1>5

LEMMA BudgetGrows ==
  ASSUME NEW a \in BOOLEAN, NEW b \in BOOLEAN
  PROVE  /\ Budget(a) \in Nat /\ Budget(a) <= 3 * Retries
         /\ Budget(a) <= Budget(a \/ b)
<1>1. Retries \in Nat /\ 3 * Retries \in Nat /\ Retries <= 3 * Retries
  BY WifiJoinAssumption
<1>2. CASE a = TRUE
  BY <1>1, <1>2 DEF Budget
<1>3. CASE a = FALSE
  <2>1. Budget(a) = Retries
    BY <1>3 DEF Budget
  <2>2. Budget(a \/ b) \in {Retries, 3 * Retries}
    BY Zenon DEF Budget
  <2> QED
    BY <1>1, <2>1, <2>2
<1> QED
  BY <1>2, <1>3

LEMMA OnDisconnectedOK == JoinOK /\ OnDisconnected => JoinOK'
<1> SUFFICES ASSUME JoinOK, OnDisconnected PROVE JoinOK'
  OBVIOUS
<1>1. PICK reason \in Reasons :
        /\ Handled(reason)
        /\ IF joinedOnce
           THEN Reconnect /\ UNCHANGED <<retries, answered, bits>>
           ELSE RetryOrFail(reason) /\ UNCHANGED <<backoff, timer>>
  BY Zenon DEF OnDisconnected, Reasons
<1>2. UNCHANGED <<taskVars, joinedOnce, config, tries, heard>>
  BY Zenon DEF OnDisconnected
<1>3. events' \in Seq({StaStart, GotIp, Lost, LostAnswered})
  BY <1>1, EventTails, Zenon DEF JoinOK, JoinKinds, Handled
<1>4. CASE Joined
  <2>1. Reconnect /\ UNCHANGED <<retries, answered, bits>>
    BY <1>1, <1>4, Zenon DEF Joined
  <2>2. radio' # "off" /\ radio' \in {"off", "idle", "trying", "linked", "online"}
    BY <2>1, <1>4 DEF Reconnect, Connect, Joined, JoinOK, JoinKinds
  <2>3. backoff' \in Nat /\ FirstBackoff <= backoff' /\ backoff' <= BackoffCap
    BY <2>1, WifiJoinAssumption DEF Reconnect, JoinOK, JoinSizes
  <2>4. timer' \in BOOLEAN
    BY <2>1, Zenon DEF Reconnect, JoinOK, JoinTruths
  <2>5. JoinSizes'
    BY <2>1, <2>3, <1>2 DEF JoinOK, JoinSizes, taskVars
  <2>6. JoinTruths'
    BY <2>1, <2>4, <1>2, Zenon DEF JoinOK, JoinTruths
  <2>7. JoinKinds'
    BY <2>1, <2>2, <1>3, <1>2 DEF JoinOK, JoinKinds, taskVars
  <2>8. Joined'
    BY <2>1, <2>2, <1>2, <1>4 DEF Joined, taskVars
  <2> QED
    BY <2>5, <2>6, <2>7, <2>8 DEF JoinOK
<1>5. CASE Joining
  <2>0. ~joinedOnce
    BY <1>5, Zenon DEF Joining
  <2>1. RetryOrFail(reason) /\ UNCHANGED <<backoff, timer>>
    BY <1>1, <2>0, Zenon
  <2>2. /\ Waits /\ Denied /\ events' = <<>>
        /\ heard = (answered \/ reason = LostAnswered)
    BY <1>1, <1>5, WhatIsHandled, EventKinds, Zenon
  <2>3. answered' = heard
    BY <2>1, <2>2, Zenon DEF RetryOrFail
  <2>4. JoinTruths'
    BY <2>1, <2>3, <1>2, Zenon DEF JoinOK, JoinTruths
  <2>5. /\ retries \in Nat /\ retries <= 3 * Retries
        /\ bits = {} /\ radio = "idle" /\ tries = retries + 1
        /\ retries <= Budget(answered)
    BY <2>2 DEF Denied, Counted, JoinOK, JoinSizes
  <2>6. /\ Budget(heard) \in Nat /\ Budget(heard) <= 3 * Retries
        /\ Budget(answered) \in Nat /\ Budget(answered) <= Budget(heard)
    BY <2>2, BudgetGrows, Zenon DEF JoinOK, JoinTruths
  <2>7. retries <= Budget(heard)
    BY <2>5, <2>6
  <2>8. config # 0
    BY <2>2 DEF Waits, JoinOK, JoinSizes
  <2>9. CASE retries < Budget(answered')
    <3>1. retries' = retries + 1 /\ Connect /\ UNCHANGED bits
      BY <2>1, <2>9, Zenon DEF RetryOrFail
    <3>2. radio' = "trying"
      BY <3>1, <2>5, <2>8 DEF Connect
    <3>3. retries' \in Nat /\ retries' <= 3 * Retries /\ retries' <= Budget(answered')
      BY <3>1, <2>3, <2>5, <2>6, <2>9, WifiJoinAssumption
    <3>4. JoinSizes'
      BY <3>3, <2>1, <1>2 DEF JoinOK, JoinSizes, taskVars
    <3>5. JoinKinds'
      BY <3>1, <3>2, <1>3, <1>2 DEF JoinOK, JoinKinds, taskVars
    <3>6. Counted(0)'
      BY <3>1, <3>3, <2>5, <1>2 DEF Counted
    <3>7. answered' = heard'
      BY <2>3, <1>2, Zenon
    <3>8. Attempting'
      BY <3>2, <3>6, <3>7, <2>2 DEF Attempting
    <3> QED
      BY <3>4, <3>5, <3>8, <2>4, <2>1, <2>2, <1>2, <1>5 DEF JoinOK, Joining, Waits, taskVars
  <2>10. CASE ~(retries < Budget(answered'))
    <3>1. bits' = {"failed"} /\ UNCHANGED <<retries, radio>>
      <4>1. bits' = bits \cup {"failed"} /\ UNCHANGED <<retries, radio>>
        BY <2>1, <2>10, Zenon DEF RetryOrFail
      <4> QED
        BY <4>1, <2>5
    <3>2. retries = Budget(heard)
      BY <2>3, <2>5, <2>6, <2>7, <2>10
    <3>3. JoinSizes'
      BY <3>1, <2>1, <1>2 DEF JoinOK, JoinSizes, taskVars
    <3>4. JoinKinds'
      BY <3>1, <1>3, <1>2 DEF JoinOK, JoinKinds, taskVars
    <3>5. tries' = Budget(heard') + 1
      BY <3>2, <2>5, <1>2
    <3>6. answered' = heard'
      BY <2>3, <1>2, Zenon
    <3>7. Exhausted'
      BY <3>1, <3>5, <3>6, <2>2, <2>5 DEF Exhausted, UsedUp
    <3> QED
      BY <3>3, <3>4, <3>7, <2>4, <2>1, <2>2, <1>2, <1>5 DEF JoinOK, Joining, Waits, taskVars
  <2> QED
    BY <2>9, <2>10
<1> QED
  BY <1>4, <1>5 DEF JoinOK

LEMMA OnGotIpOK == JoinOK /\ OnGotIp => JoinOK'
<1> SUFFICES ASSUME JoinOK, OnGotIp PROVE JoinOK'
  OBVIOUS
<1>1. Handled(GotIp)
  BY Zenon DEF OnGotIp
<1>2. events' \in Seq({StaStart, GotIp, Lost, LostAnswered})
  BY <1>1, EventTails, Zenon DEF JoinOK, JoinKinds, Handled
<1>w. Joining => Waits /\ Addressed
  <2> SUFFICES ASSUME Joining PROVE Waits /\ Addressed
    OBVIOUS
  <2>0. \/ Waits /\ NotStarted /\ GotIp = StaStart /\ events' = <<>>
        \/ Waits /\ Denied /\ GotIp \in Reasons /\ events' = <<>>
           /\ heard = (answered \/ GotIp = LostAnswered)
        \/ Waits /\ Addressed /\ GotIp = GotIp
        \/ InPortal /\ result = "portal up" /\ GotIp = StaStart /\ events' = <<>>
    BY <1>1, WhatIsHandled, Zenon
  <2>1. \/ GotIp = StaStart
        \/ GotIp \in Reasons
        \/ Waits /\ Addressed
    BY <2>0, Zenon
  <2> QED
    BY <2>1, EventKinds, Zenon
<1> USE DEF OnGotIp, JoinOK, taskVars
<1>3. JoinSizes'
  BY WifiJoinAssumption DEF JoinSizes
<1>4. JoinTruths'
  BY Zenon DEF JoinTruths
<1>5. JoinKinds'
  BY <1>2 DEF JoinKinds
<1>6. /\ radio # "off" /\ at > 0 /\ config = at
      /\ \/ pc = "wait" /\ result = "none"
         \/ pc = "done" /\ result = "connected"
      /\ bits \subseteq {"connected"}
  <2>1. CASE Joined
    BY <2>1 DEF Joined
  <2>2. CASE Joining
    <3>1. Waits /\ Addressed
      BY <2>2, <1>w
    <3> QED
      BY <3>1 DEF Waits, Addressed
  <2> QED
    BY <2>1, <2>2
<1>7. bits' = {"connected"}
  BY <1>6
<1>8. Joined'
  BY <1>6, <1>7 DEF Joined
<1> QED
  BY <1>3, <1>4, <1>5, <1>8

LEMMA OnReconnectTimerOK == JoinOK /\ OnReconnectTimer => JoinOK'
<1> SUFFICES ASSUME JoinOK, OnReconnectTimer PROVE JoinOK'
  OBVIOUS
<1> USE DEF OnReconnectTimer, JoinOK, taskVars
<1>1. JoinSizes'
  BY DEF JoinSizes
<1>2. JoinTruths'
  BY Zenon DEF JoinTruths
<1>3. JoinKinds'
  BY DEF JoinKinds, Connect
<1>4. Joined
  BY Zenon DEF Joining
<1>5. Joined'
  BY <1>4 DEF Joined, Connect
<1> QED
  BY <1>1, <1>2, <1>3, <1>5

(* The end of an attempt at a link and its loss, which report a reason.    *)
LEMMA ReportOK ==
  ASSUME JoinOK, radio \in {"trying", "linked", "online"},
         NEW reason \in Reasons, Reports(reason)
  PROVE  JoinOK'
<1>0. /\ radio' = "idle" /\ events' = Append(events, reason)
      /\ UNCHANGED <<taskVars, stateVars, config>>
  BY Zenon DEF Reports
<1>1. events' \in Seq({StaStart, GotIp, Lost, LostAnswered})
  BY <1>0, EventTails, EventKinds, Zenon DEF JoinOK, JoinKinds
<1>2. JoinKinds'
  BY <1>0, <1>1 DEF JoinOK, JoinKinds, taskVars, stateVars
<1>3. CASE Joined
  <2>1. UNCHANGED <<tries, heard>>
    BY <1>3, Zenon DEF Joined, Reports
  <2>2. JoinSizes'
    BY <1>0, <2>1 DEF JoinOK, JoinSizes, taskVars, stateVars
  <2>3. JoinTruths'
    BY <1>0, <2>1, Zenon DEF JoinOK, JoinTruths, taskVars, stateVars
  <2>4. Joined'
    BY <1>0, <2>1, <1>3 DEF Joined, taskVars, stateVars
  <2> QED
    BY <1>2, <2>2, <2>3, <2>4 DEF JoinOK
<1>4. CASE Joining
  <2>1. Waits /\ (Attempting \/ (Addressed /\ radio = "online"))
    BY <1>4 DEF Joining, Begins, GoesOn, AboutToGo, Waits, NotStarted, Denied, Exhausted,
           Addressed, InPortal
  <2>2. CASE Attempting
    <3>0. events = <<>> /\ ~joinedOnce
      BY <2>2, <1>4, Zenon DEF Attempting, Joining
    <3>1. GotIp \notin {events[i] : i \in DOMAIN events}
      BY <3>0
    <3>2. /\ tries' = IF tries < MaxTries THEN tries + 1 ELSE tries
          /\ heard' = (heard \/ reason = LostAnswered)
      BY <3>0, <3>1, Zenon DEF Reports
    <3>3. /\ tries = retries /\ retries \in Nat /\ retries <= 3 * Retries
          /\ retries <= Budget(answered) /\ bits = {}
      BY <2>2 DEF Attempting, Counted, JoinOK, JoinSizes
    <3>4. tries' = retries + 1
      BY <3>2, <3>3, WifiJoinAssumption DEF MaxTries
    <3>5. UNCHANGED <<retries, bits, answered, joinedOnce, timer, backoff, config, at, pc,
                      result, known>>
      BY <1>0, Zenon DEF taskVars, stateVars
    <3>6. JoinSizes'
      <4>1. JoinSizes
        BY Zenon DEF JoinOK
      <4>2. tries' \in Nat /\ tries' <= 3 * Retries + 1
        BY <3>3, <3>4, WifiJoinAssumption
      <4> QED
        BY <4>1, <4>2, <3>5, Zenon DEF JoinSizes
    <3>7. JoinTruths'
      BY <3>2, <3>5, Zenon DEF JoinOK, JoinTruths
    <3>8. Counted(1)'
      BY <3>3, <3>4, <3>5 DEF Counted
    <3>9. heard' = (answered' \/ reason = LostAnswered)
      BY <3>2, <3>5, <2>2, Zenon DEF Attempting
    <3>10. radio' = "idle" /\ events' = <<reason>>
      BY <1>0, <3>0, ShortSequences
    <3>11. Denied'
      BY <3>8, <3>9, <3>10, Zenon DEF Denied
    <3>12. Waits'
      BY <3>5, <3>11, <2>1, Zenon DEF Waits
    <3>13. Joining'
      BY <3>5, <3>12, <1>4, Zenon DEF Joining
    <3> QED
      BY <1>2, <3>6, <3>7, <3>13 DEF JoinOK
  <2>3. CASE Addressed /\ radio = "online"
    <3>1. events = <<GotIp>> /\ bits = {}
      BY <2>3 DEF Addressed
    <3>2. GotIp \in {events[i] : i \in DOMAIN events}
      BY <3>1
    <3>3. UNCHANGED <<tries, heard>>
      BY <3>2, Zenon DEF Reports
    <3>4. UNCHANGED <<retries, bits, answered, joinedOnce, timer, backoff, config, at, pc,
                      result, known>>
      BY <1>0, Zenon DEF taskVars, stateVars
    <3>5. events' = <<GotIp, reason>>
      BY <1>0, <3>1, EventKinds, ShortSequences, Zenon
    <3>6. Addressed'
      BY <1>0, <3>1, <3>4, <3>5, Zenon DEF Addressed
    <3>7. Waits'
      BY <3>4, <3>6, <2>1, Zenon DEF Waits
    <3>8. Joining'
      BY <3>4, <3>7, <1>4, Zenon DEF Joining
    <3>9. JoinSizes'
      BY <3>3, <3>4 DEF JoinOK, JoinSizes
    <3>10. JoinTruths'
      BY <3>3, <3>4, Zenon DEF JoinOK, JoinTruths
    <3> QED
      BY <1>2, <3>8, <3>9, <3>10 DEF JoinOK
  <2> QED
    BY <2>1, <2>2, <2>3
<1> QED
  BY <1>3, <1>4 DEF JoinOK

LEMMA AttemptFailsOK == JoinOK /\ AttemptFails => JoinOK'
<1> SUFFICES ASSUME JoinOK, AttemptFails PROVE JoinOK'
  OBVIOUS
<1>1. PICK reason \in Reasons : Reports(reason)
  BY Zenon DEF AttemptFails, Reasons
<1>2. radio \in {"trying", "linked", "online"}
  BY DEF AttemptFails
<1> QED
  BY <1>1, <1>2, ReportOK

LEMMA LinkLostOK == JoinOK /\ LinkLost => JoinOK'
<1> SUFFICES ASSUME JoinOK, LinkLost PROVE JoinOK'
  OBVIOUS
<1>1. PICK reason \in Reasons : Reports(reason)
  BY Zenon DEF LinkLost, Reasons
<1>2. radio \in {"trying", "linked", "online"}
  BY DEF LinkLost
<1> QED
  BY <1>1, <1>2, ReportOK

LEMMA AssociatesOK == JoinOK /\ Associates => JoinOK'
<1> SUFFICES ASSUME JoinOK, Associates PROVE JoinOK'
  OBVIOUS
<1> USE DEF Associates, JoinOK, taskVars, stateVars
<1>1. JoinSizes'
  BY DEF JoinSizes
<1>2. JoinTruths'
  BY Zenon DEF JoinTruths
<1>3. JoinKinds'
  BY DEF JoinKinds
<1>4. CASE Joined
  BY <1>4, <1>1, <1>2, <1>3 DEF Joined
<1>5. CASE Joining
  <2>1. Waits /\ Attempting
    BY <1>5 DEF Joining, Begins, GoesOn, AboutToGo, Waits, NotStarted, Denied, Exhausted,
           Addressed, InPortal
  <2>2. Attempting'
    BY <2>1 DEF Attempting, Counted, Budget
  <2> QED
    BY <2>1, <2>2, <1>5, <1>1, <1>2, <1>3 DEF Joining, Waits
<1> QED
  BY <1>4, <1>5

LEMMA LeasedOK == JoinOK /\ Leased => JoinOK'
<1> SUFFICES ASSUME JoinOK, Leased PROVE JoinOK'
  OBVIOUS
<1>0. events' \in Seq({StaStart, GotIp, Lost, LostAnswered})
  BY EventTails, EventKinds, Zenon DEF JoinOK, JoinKinds, Leased
<1> USE DEF Leased, JoinOK, taskVars, stateVars
<1>1. JoinSizes'
  BY DEF JoinSizes
<1>2. JoinTruths'
  BY Zenon DEF JoinTruths
<1>3. JoinKinds'
  BY <1>0 DEF JoinKinds
<1>4. CASE Joined
  BY <1>4, <1>1, <1>2, <1>3 DEF Joined
<1>5. CASE Joining
  <2>1. Waits /\ Attempting
    BY <1>5 DEF Joining, Begins, GoesOn, AboutToGo, Waits, NotStarted, Denied, Exhausted,
           Addressed, InPortal
  <2>2. events' = <<GotIp>> /\ bits = {}
    BY <2>1, ShortSequences DEF Attempting, Counted
  <2>3. Addressed'
    BY <2>2 DEF Addressed
  <2> QED
    BY <2>1, <2>3, <1>5, <1>1, <1>2, <1>3 DEF Joining, Waits
<1> QED
  BY <1>4, <1>5

LEMMA StartApOK == JoinOK /\ StartAp => JoinOK'
<1> SUFFICES ASSUME JoinOK, StartAp PROVE JoinOK'
  OBVIOUS
<1>3. Joining /\ InPortal /\ result = "portal"
  BY DEF StartAp, JoinOK, Joining, Joined, Begins, GoesOn, AboutToGo, Waits
<1>0. events' = <<StaStart>>
  BY <1>3, EventKinds, ShortSequences DEF StartAp, InPortal
<1>a. known \in Nat
  BY Zenon DEF JoinOK, JoinSizes
<1>b. \A n \in Nat : 0 \in Nat /\ 0 <= n
  OBVIOUS
<1> USE DEF StartAp, JoinOK, stateVars
<1>1. JoinSizes'
  BY <1>a, <1>b, Zenon DEF JoinSizes
<1>2. JoinTruths'
  BY Zenon DEF JoinTruths
<1>4. JoinKinds'
  BY <1>0, ShortSequences DEF JoinKinds
<1>5. InPortal'
  BY <1>0, <1>3 DEF InPortal, UsedUp, Budget
<1> QED
  BY <1>1, <1>2, <1>3, <1>4, <1>5 DEF Joining

LEMMA JoinAnewOK == JoinAnew => JoinOK'
<1> SUFFICES ASSUME JoinAnew PROVE JoinOK'
  OBVIOUS
<1>1. JoinSizes'
  BY WifiJoinAssumption DEF JoinAnew, JoinSizes
<1>2. JoinTruths'
  BY Zenon DEF JoinAnew, JoinTruths
<1>3. JoinKinds'
  BY DEF JoinAnew, JoinKinds
<1>4. Joining'
  BY DEF JoinAnew, Joining, Begins, FreshCount
<1> QED
  BY <1>1, <1>2, <1>3, <1>4 DEF JoinOK

(* The two together: what connect() returned is what app_main() goes on    *)
(* with.                                                                   *)
BootOK == /\ (phase = "portal") <=> (result = "portal up")
          /\ (phase = "up") => (result = "connected")

BootInv == JoinOK /\ UpdateOK /\ BootOK

LEMMA JoinsOK == JoinOK /\ Joins => JoinOK'
BY PrepareOK, GoOK, WokenOK, GiveUpOK, OnStartOK, OnDisconnectedOK, OnGotIpOK,
   OnReconnectTimerOK, AttemptFailsOK, LinkLostOK, AssociatesOK, LeasedOK, Zenon DEF Joins

LEMMA JoinStands == JoinOK /\ UNCHANGED joinVars => JoinOK'
<1> SUFFICES ASSUME JoinOK, UNCHANGED joinVars PROVE JoinOK'
  OBVIOUS
<1>1. UNCHANGED <<known, at, pc, result, retries, answered, joinedOnce, bits, backoff, timer,
                  config, radio, events, tries, heard>>
  BY Zenon DEF joinVars, taskVars, stateVars, driverVars
<1>2. JoinSizes' /\ JoinTruths' /\ JoinKinds'
  BY <1>1, Zenon DEF JoinOK, JoinSizes, JoinTruths, JoinKinds
<1>3. FreshCount <=> FreshCount'
  BY <1>1, Zenon DEF FreshCount
<1>4. UsedUp <=> UsedUp'
  BY <1>1, Zenon DEF UsedUp
<1>5. \A n : Counted(n) <=> Counted(n)'
  BY <1>1, Zenon DEF Counted
<1>6. Begins => Begins'
  BY <1>1, <1>3, Zenon DEF Begins
<1>7. GoesOn => GoesOn'
  BY <1>1, <1>4, Zenon DEF GoesOn
<1>8. AboutToGo => AboutToGo'
  BY <1>1, <1>3, Zenon DEF AboutToGo
<1>9. InPortal => InPortal'
  BY <1>1, <1>4, Zenon DEF InPortal
<1>10. NotStarted => NotStarted'
  BY <1>1, <1>3, Zenon DEF NotStarted
<1>11. Attempting => Attempting'
  BY <1>1, <1>5, Zenon DEF Attempting
<1>12. Denied => Denied'
  BY <1>1, <1>5, Zenon DEF Denied
<1>13. Exhausted => Exhausted'
  BY <1>1, <1>4, Zenon DEF Exhausted
<1>14. Addressed => Addressed'
  BY <1>1, Zenon DEF Addressed
<1>15. Waits => Waits'
  BY <1>1, <1>10, <1>11, <1>12, <1>13, <1>14, Zenon DEF Waits
<1>16. Joining => Joining'
  BY <1>1, <1>6, <1>7, <1>8, <1>9, <1>15, Zenon DEF Joining
<1>17. Joined => Joined'
  BY <1>1, Zenon DEF Joined
<1> QED
  BY <1>2, <1>16, <1>17, Zenon DEF JoinOK

-----------------------------------------------------------------------------
(* Every step of the device is a step of an update or none of its business *)
(* and a step of joining a network or the end of one.                      *)
LEMMA UpdateSteps == [BootNext]_deviceVars => [Next]_vars
<1> SUFFICES ASSUME [BootNext]_deviceVars PROVE [Next]_vars
  OBVIOUS
<1>1. CASE JoinStep
  BY <1>1, Zenon DEF JoinStep
<1>2. CASE RunSetupPortal \/ StartServing \/ MarksValid
  BY <1>2, Zenon DEF RunSetupPortal, StartServing, MarksValid, Next
<1>3. CASE UpdateStep
  BY <1>3, Zenon DEF UpdateStep, Next
<1>4. CASE Restarts \/ PowerGoes
  BY <1>4, Zenon DEF Restarts, PowerGoes, Next
<1>5. CASE UNCHANGED deviceVars
  BY <1>5, Zenon DEF deviceVars
<1> QED
  BY <1>1, <1>2, <1>3, <1>4, <1>5, Zenon DEF BootNext

(* The update steps leave the phase of the boot alone.                     *)
LEMMA UpdateKeepsPhase == UpdateStep => UNCHANGED phase /\ UNCHANGED joinVars
<1> SUFFICES ASSUME UpdateStep PROVE UNCHANGED phase
  BY Zenon DEF UpdateStep
<1>1. ASSUME NEW multipart \in BOOLEAN, Upload(multipart) PROVE UNCHANGED phase
  BY <1>1, Zenon DEF Upload, bootVars
<1>2. ASSUME NEW outcome, PartEnds(outcome) PROVE UNCHANGED phase
  BY <1>2, Zenon DEF PartEnds, bootVars
<1>3. CASE FirstChunkRefused \/ FirstChunkFails \/ FirstChunk \/ End \/ SetBoot
  BY <1>3, Zenon DEF FirstChunkRefused, FirstChunkFails, FirstChunk, End, SetBoot, bootVars
<1>4. CASE WriteFails \/ ImageRefused \/ EndFails \/ SetBootFails
  BY <1>4, <1>2, Zenon DEF WriteFails, ImageRefused, EndFails, SetBootFails
<1>5. CASE Install \/ Respond \/ BodyDies
  BY <1>5, Zenon DEF Install, Respond, BodyDies, bootVars
<1>6. CASE Start \/ RunEnds \/ RequestRestart \/ PortalSaves
  BY <1>6, Zenon DEF Start, RunEnds, RequestRestart, PortalSaves, bootVars
<1>7. HttpdStep => UNCHANGED phase
  BY <1>3, <1>4, <1>5, Zenon DEF HttpdStep
<1> QED
  BY <1>1, <1>6, <1>7, Zenon DEF UpdateStep

(* connect() returns once, before app_main() goes on.                      *)
LEMMA JoinsReturn ==
  ASSUME JoinOK, Joins
  PROVE  \/ UNCHANGED result
         \/ result = "none" /\ result' \in {"connected", "portal"}
<1>1. CASE Prepare \/ Go \/ OnStart \/ OnDisconnected
  BY <1>1, Zenon DEF Prepare, Go, OnStart, OnDisconnected, taskVars
<1>2. CASE OnGotIp \/ OnReconnectTimer \/ AttemptFails \/ LinkLost \/ Associates \/ Leased
  BY <1>2, Zenon DEF OnGotIp, OnReconnectTimer, AttemptFails, LinkLost, Reports, Associates,
     Leased, taskVars
<1>3. CASE Woken
  <2>1. pc = "wait" /\ (UNCHANGED result \/ result' = "connected")
    BY <1>3 DEF Woken
  <2>2. result = "none"
    BY <2>1 DEF JoinOK, Joining, Begins, GoesOn, AboutToGo, Waits, InPortal, Joined
  <2> QED
    BY <2>1, <2>2
<1>4. CASE GiveUp
  <2>1. pc = "next" /\ result' = "portal"
    BY <1>4 DEF GiveUp
  <2>2. result = "none"
    BY <2>1 DEF JoinOK, Joining, Begins, GoesOn, AboutToGo, Waits, InPortal, Joined
  <2> QED
    BY <2>1, <2>2
<1> QED
  BY <1>1, <1>2, <1>3, <1>4, Zenon DEF Joins

LEMMA BootInitOK == BootInit => BootInv
<1> SUFFICES ASSUME BootInit PROVE BootInv
  OBVIOUS
<1>1. JoinOK /\ UpdateOK
  BY JoinInitOK, InitOK, Zenon DEF BootInit
<1>2. phase = "booting" /\ result = "none"
  BY Zenon DEF BootInit, JoinInit, Init
<1>3. BootOK
  BY <1>2 DEF BootOK
<1> QED
  BY <1>1, <1>3 DEF BootInv

LEMMA BootStepOK == BootInv /\ [BootNext]_deviceVars => BootInv'
<1> SUFFICES ASSUME BootInv, [BootNext]_deviceVars PROVE BootInv'
  OBVIOUS
<1>1. UpdateOK'
  BY UpdateSteps, StepOK, Zenon DEF BootInv
<1>2. CASE JoinStep
  <2>1. JoinOK'
    BY <1>2, JoinsOK, Zenon DEF BootInv, JoinStep
  <2>2. UNCHANGED phase
    BY <1>2, Zenon DEF JoinStep, vars, bootVars
  <2>3. \/ UNCHANGED result
        \/ result = "none" /\ result' \in {"connected", "portal"}
    BY <1>2, JoinsReturn, Zenon DEF BootInv, JoinStep
  <2>4. BootOK'
    BY <2>2, <2>3 DEF BootInv, BootOK
  <2> QED
    BY <1>1, <2>1, <2>4 DEF BootInv
<1>3. CASE RunSetupPortal
  <2>1. JoinOK'
    BY <1>3, StartApOK, Zenon DEF BootInv, RunSetupPortal
  <2>2. phase' = "portal" /\ result' = "portal up"
    BY <1>3, Zenon DEF RunSetupPortal, StartAp, NoNetwork
  <2>3. BootOK'
    BY <2>2 DEF BootOK
  <2> QED
    BY <1>1, <2>1, <2>3 DEF BootInv
<1>4. CASE StartServing
  <2>1. JoinOK'
    BY <1>4, JoinStands, Zenon DEF BootInv, StartServing
  <2>2. phase' = "up" /\ result' = "connected"
    BY <1>4, Zenon DEF StartServing, Serve, joinVars, taskVars
  <2>3. BootOK'
    BY <2>2 DEF BootOK
  <2> QED
    BY <1>1, <2>1, <2>3 DEF BootInv
<1>5. ASSUME UNCHANGED joinVars, UNCHANGED phase PROVE BootInv'
  <2>1. JoinOK'
    BY <1>5, JoinStands, Zenon DEF BootInv
  <2>2. UNCHANGED result
    BY <1>5, Zenon DEF joinVars, taskVars
  <2>3. BootOK'
    BY <1>5, <2>2, Zenon DEF BootInv, BootOK
  <2> QED
    BY <1>1, <2>1, <2>3 DEF BootInv
<1>6. CASE MarksValid
  BY <1>5, <1>6, Zenon DEF MarksValid, MarkValid
<1>7. CASE UpdateStep
  BY <1>5, <1>7, UpdateKeepsPhase, Zenon
<1>8. CASE Restarts \/ PowerGoes
  <2>1. JoinAnew /\ phase' = "booting"
    BY <1>8, Zenon DEF Restarts, PowerGoes, RestartFires, PowerCycle, Reboot
  <2>2. JoinOK' /\ result' = "none"
    BY <2>1, JoinAnewOK, Zenon DEF JoinAnew
  <2>3. BootOK'
    BY <2>1, <2>2 DEF BootOK
  <2> QED
    BY <1>1, <2>2, <2>3 DEF BootInv
<1>9. CASE UNCHANGED deviceVars
  BY <1>5, <1>9, Zenon DEF deviceVars, vars, bootVars
<1> QED
  BY <1>2, <1>3, <1>4, <1>6, <1>7, <1>8, <1>9, Zenon DEF BootNext

(* The inductive invariant of the device: connect(), on_event() and the    *)
(* driver against each other, and app_main() after them, in any order and  *)
(* through any restart (wifi_mgr.cpp:67-139, 200-280).                     *)
THEOREM BootCorrect == BootSpec => []BootInv
BY BootInitOK, BootStepOK, PTL DEF BootSpec

(* Every variable of joining and of updating keeps to its values.          *)
THEOREM BootTypes == BootSpec => []BootTypeOK
<1>1. BootInv => BootTypeOK
  BY JoinTypes, Zenon DEF BootInv, JoinOK, UpdateOK, BootTypeOK
<1> QED
  BY BootCorrect, <1>1, PTL

(* A network is given up only after the whole budget of attempts that its  *)
(* answers earned it, for every budget and every list of networks          *)
(* (wifi_mgr.cpp:102-120).                                                 *)
THEOREM AlwaysFullBudgetEach == BootSpec => []FullBudgetEach
<1>1. BootInv => FullBudgetEach
  <2> SUFFICES ASSUME BootInv, "failed" \in bits PROVE tries = Budget(heard) + 1
    BY DEF FullBudgetEach
  <2>1. UsedUp
    <3>1. ~Joined /\ bits # {}
      BY DEF Joined
    <3> QED
      BY <3>1, Zenon DEF BootInv, JoinOK, Joining, Begins, GoesOn, AboutToGo, Waits,
         NotStarted, Attempting, Denied, Exhausted, Addressed, InPortal, FreshCount, Counted
  <2> QED
    BY <2>1, Zenon DEF UsedUp
<1> QED
  BY BootCorrect, <1>1, PTL

(* A device in its setup portal never rejoins a network on the side        *)
(* (setup_portal.cpp:368-374).                                             *)
THEOREM PortalAlwaysStaysAlone == BootSpec => []PortalStaysAlone
<1>1. BootInv => PortalStaysAlone
  BY DEF BootInv, JoinOK, Joining, Begins, GoesOn, AboutToGo, Waits, InPortal, Joined,
     PortalStaysAlone
<1> QED
  BY BootCorrect, <1>1, PTL

(* The device as a whole is a device that updates itself: what is proved   *)
(* of an update holds whenever and however it joins its networks.          *)
THEOREM BootImplementsUpdate == BootSpec => Spec
<1>1. BootInit => Init
  BY DEF BootInit
<1> QED
  BY <1>1, UpdateSteps, PTL DEF BootSpec, Spec

=============================================================================
