----------------------------- MODULE OtaUpdate -----------------------------
(***************************************************************************)
(* Firmware updates and restarts (main/ota/ota.cpp, rt_logic/ota_upload.h, *)
(* main/system/restart.cpp): an upload streams an image into the slot that *)
(* does not run, makes it the boot partition and has the device restarted; *)
(* the bootloader tries it once and goes back unless app_main() got far    *)
(* enough to mark it valid.                                                *)
(*                                                                         *)
(* The httpd task serves one request at a time, but a request takes many   *)
(* steps: the run loop, the restart tasks and the power supply act between *)
(* any two of them, and a client may vanish in the middle of its body.     *)
(***************************************************************************)
EXTENDS Integers

VARIABLES phase,     \* of the boot: "booting", in the setup "portal", or "up"
          running,   \* the slot this boot runs from
          boot,      \* the slot otadata names
          verdict,   \* otadata on that slot: "new", tried once, or "valid"
          image,     \* per slot: what it holds
          playing,   \* executor::is_running()
          restarts,  \* the restart tasks that wait for their 1500 ms
          request,   \* the upload the httpd task is in, or "none"
          incoming,  \* the image the file part carries
          handle,    \* s_handle # 0
          inProgress,\* s_in_progress
          session,   \* rt::ota::UploadSession
          installs,  \* this upload made its image the boot partition
          answer     \* to the upload that ended last, or "none"

bootVars   == <<phase, running, boot, verdict>>
uploadVars == <<request, incoming, handle, inProgress, session, installs,
                answer>>
vars       == <<bootVars, image, playing, restarts, uploadVars>>

Slots    == {0, 1}
Other(s) == 1 - s

(* What a client may send: an image of this project or of another one, one *)
(* that the verification of ESP-IDF refuses, or less than an image header. *)
Uploads == {"ours", "foreign", "damaged", "tiny"}

(* A slot holds a whole image or what an update left behind.               *)
Images == {"ours", "foreign", "broken"}

Refusals == {"none", "program_running", "project_mismatch", "empty_image",
             "invalid_image"}

Answers == {"none", "accepted", "restart_pending", "restart_failed",
            "missing_file", "write_failed", "program_running",
            "image_refused", "error"}

Sessions == [refusal : Refusals, failed : BOOLEAN, restarting : BOOLEAN,
             installed : BOOLEAN, scheduled : BOOLEAN]

NewSession == [refusal |-> "none", failed |-> FALSE, restarting |-> FALSE,
               installed |-> FALSE, scheduled |-> FALSE]

(* Between requests, in the body outside a part that is being written, in  *)
(* such a part, and after esp_ota_end() and esp_ota_set_boot_partition().  *)
Requests == {"none", "body", "part", "verified", "chosen"}

(* The type invariant.                                                     *)
TypeOK == /\ phase \in {"booting", "portal", "up"}
          /\ running \in Slots
          /\ boot \in Slots
          /\ verdict \in {"new", "pending", "valid"}
          /\ image \in [Slots -> Images]
          /\ playing \in BOOLEAN
          /\ restarts \subseteq {"update", "request", "portal"}
          /\ request \in Requests
          /\ incoming \in Uploads
          /\ handle \in BOOLEAN
          /\ inProgress \in BOOLEAN
          /\ session \in Sessions
          /\ installs \in BOOLEAN
          /\ answer \in Answers

(* A device as it was flashed: one image, marked valid by its first boot.  *)
Init == /\ phase = "booting"
        /\ running = 0
        /\ boot = 0
        /\ verdict = "valid"
        /\ image = [s \in Slots |-> IF s = 0 THEN "ours" ELSE "broken"]
        /\ playing = FALSE
        /\ restarts = {}
        /\ request = "none"
        /\ incoming = "ours"
        /\ handle = FALSE
        /\ inProgress = FALSE
        /\ session = NewSession
        /\ installs = FALSE
        /\ answer = "none"

-----------------------------------------------------------------------------
(* rt::ota::UploadSession                                                  *)

RestartPending == session.installed /\ session.scheduled

(* ota::in_progress(): what POST /programs/start asks.                     *)
UpdateInProgress == inProgress \/ RestartPending

AlreadyInstalled ==
  IF session.scheduled THEN "restart_pending" ELSE "restart_failed"

(* Before the body: an answer ends the request, "none" lets it in.         *)
Gate(multipart) == IF session.installed THEN AlreadyInstalled
                   ELSE IF ~multipart THEN "missing_file"
                   ELSE "none"

Gated == [session EXCEPT !.restarting = FALSE, !.failed = FALSE,
                         !.refusal = "none"]

(* Slip: the second file part of a request overwrites what the first one   *)
(* installed.                                                              *)
MayBeginAgain == ~playing

MayBegin == ~session.installed /\ ~playing

Begun == IF session.installed THEN session
         ELSE [session EXCEPT
                 !.refusal = IF playing THEN "program_running" ELSE "none"]

Refused(why) == [session EXCEPT !.refusal = why]
Failed       == [session EXCEPT !.failed = TRUE]

(* Slip: the installed image is not thought of when the answer is made.    *)
ResponseForgetsInstall ==
  IF session.restarting THEN "accepted"
  ELSE IF session.failed /\ session.refusal = "none" THEN "write_failed"
  ELSE IF session.refusal = "program_running" THEN "program_running"
  ELSE "image_refused"

Response == CASE session.restarting -> "accepted"
              [] ~session.restarting /\ session.installed -> AlreadyInstalled
              [] OTHER ->
                   IF session.failed /\ session.refusal = "none"
                   THEN "write_failed"
                   ELSE IF session.refusal = "program_running"
                   THEN "program_running"
                   ELSE "image_refused"

-----------------------------------------------------------------------------
(* The httpd task in an upload                                             *)

(* clear(), and abort_upload(), which closes the handle in the driver too. *)
Clear == handle' = FALSE /\ inProgress' = FALSE

Upload(multipart) ==
  LET told == Gate(multipart) IN
  /\ phase = "up"
  /\ request = "none"
  /\ IF handle THEN Clear ELSE UNCHANGED <<handle, inProgress>>
  /\ session' = Gated
  /\ answer' = told
  /\ request' = IF told = "none" THEN "body" ELSE "none"
  /\ installs' = FALSE
  /\ UNCHANGED <<bootVars, image, playing, restarts, incoming>>

(* The first chunk of a file part: nothing is written, esp_ota_begin()     *)
(* fails, as it always does in an image not yet marked valid, or it erases *)
(* the slot.                                                               *)
FirstChunkRefused == /\ request = "body"
                     /\ ~MayBegin
                     /\ session' = Begun
                     /\ UNCHANGED <<bootVars, image, playing, restarts,
                                    request, incoming, handle, inProgress,
                                    installs, answer>>

FirstChunkFails == /\ request = "body"
                   /\ MayBegin
                   /\ session' = [Begun EXCEPT !.failed = TRUE]
                   /\ image' \in {image,
                                  [image EXCEPT ![Other(running)] =
                                     IF verdict = "valid" THEN "broken"
                                     ELSE @]}
                   /\ Clear
                   /\ UNCHANGED <<bootVars, playing, restarts, request,
                                  incoming, installs, answer>>

FirstChunk == /\ request = "body"
              /\ MayBegin
              /\ verdict # "pending"
              /\ session' = Begun
              /\ image' = [image EXCEPT ![Other(running)] = "broken"]
              /\ handle' = TRUE
              /\ inProgress' = TRUE
              /\ incoming' \in Uploads
              /\ request' = "part"
              /\ UNCHANGED <<bootVars, playing, restarts, installs, answer>>

(* esp_ota_write() refuses a chunk, or the last step of the part refuses   *)
(* what has been written; the rest of the part is dropped.                 *)
PartEnds(outcome) == /\ session' = outcome
                     /\ Clear
                     /\ request' = "body"
                     /\ UNCHANGED <<bootVars, image, playing, restarts,
                                    incoming, installs, answer>>

WriteFails == /\ request = "part"
              /\ \/ PartEnds(Failed)
                 \/ incoming = "damaged" /\ PartEnds(Refused("invalid_image"))

(* check_image(), while the handle is still open.                          *)
ImageRefused ==
  /\ request = "part"
  /\ \/ incoming = "tiny" /\ PartEnds(Refused("empty_image"))
     \/ /\ incoming \in {"foreign", "tiny"}
        /\ PartEnds(Refused("project_mismatch"))

EndFails ==
  /\ request = "part"
  /\ incoming \in {"ours", "damaged"}
  /\ PartEnds(IF incoming = "damaged" THEN Refused("invalid_image")
              ELSE Failed)

(* esp_ota_end() frees the handle; s_handle is cleared below.              *)
End == /\ request = "part"
       /\ incoming = "ours"
       /\ image' = [image EXCEPT ![Other(running)] = "ours"]
       /\ request' = "verified"
       /\ UNCHANGED <<bootVars, playing, restarts, incoming, handle,
                      inProgress, session, installs, answer>>

SetBootFails == request = "verified" /\ PartEnds(Failed)

SetBoot == /\ request = "verified"
           /\ boot' = Other(running)
           /\ verdict' = "new"
           /\ installs' = TRUE
           /\ Clear
           /\ request' = "chosen"
           /\ UNCHANGED <<phase, running, image, playing, restarts, incoming,
                          session, answer>>

(* device_restart::schedule(), which fails for want of memory, and         *)
(* UploadSession::install().                                               *)
Install ==
  /\ request = "chosen"
  /\ \E scheduled \in BOOLEAN :
       /\ restarts' = IF scheduled THEN restarts \cup {"update"} ELSE restarts
       /\ session' = [session EXCEPT !.installed = TRUE,
                                     !.scheduled = scheduled,
                                     !.restarting = scheduled]
  /\ request' = "body"
  /\ UNCHANGED <<bootVars, image, playing, incoming, handle, inProgress,
                 installs, answer>>

Respond == /\ request = "body"
           /\ answer' = Response
           /\ request' = "none"
           /\ UNCHANGED <<bootVars, image, playing, restarts, incoming,
                          handle, inProgress, session, installs>>

(* The connection fails within the body: no final chunk, no onRequest.     *)
BodyDies == /\ request \in {"body", "part"}
            /\ answer' = "error"
            /\ request' = "none"
            /\ UNCHANGED <<bootVars, image, playing, restarts, incoming,
                           handle, inProgress, session, installs>>

-----------------------------------------------------------------------------
(* Other requests, and the run loop                                        *)

(* Slip: the start does not ask whether an update is under way.            *)
StartAnyway == /\ phase = "up"
               /\ request = "none"
               /\ playing' = TRUE
               /\ UNCHANGED <<bootVars, image, restarts, uploadVars>>

Start == /\ phase = "up"
         /\ request = "none"
         /\ ~UpdateInProgress
         /\ playing' = TRUE
         /\ UNCHANGED <<bootVars, image, restarts, uploadVars>>

(* A stop, a reset, or the run loop at the end of the last series.         *)
RunEnds == /\ playing
           /\ playing' = FALSE
           /\ UNCHANGED <<bootVars, image, restarts, uploadVars>>

RequestRestart == /\ phase = "up"
                  /\ request = "none"
                  /\ ~playing
                  /\ restarts' = restarts \cup {"request"}
                  /\ UNCHANGED <<bootVars, image, playing, uploadVars>>

PortalSaves == /\ phase = "portal"
               /\ restarts' = restarts \cup {"portal"}
               /\ UNCHANGED <<bootVars, image, playing, uploadVars>>

-----------------------------------------------------------------------------
(* Restarts and the boot                                                   *)

(* The bootloader takes the slot otadata names; a new image is tried once, *)
(* and one that was tried and not marked valid gives way to the other.     *)
Bootloader ==
  LET goesBack == verdict = "pending" IN
  /\ boot' = IF goesBack THEN Other(boot) ELSE boot
  /\ running' = boot'
  /\ verdict' = IF verdict = "new" THEN "pending" ELSE "valid"

(* All that is in RAM is gone.                                             *)
Reboot == /\ Bootloader
          /\ phase' = "booting"
          /\ playing' = FALSE
          /\ restarts' = {}
          /\ request' = "none"
          /\ handle' = FALSE
          /\ inProgress' = FALSE
          /\ session' = NewSession
          /\ installs' = FALSE
          /\ answer' = "none"
          /\ UNCHANGED <<image, incoming>>

RestartFires == restarts # {} /\ Reboot

(* The supply, a watchdog, the factory reset of the button or the console, *)
(* or a boot that ends in esp_restart() for want of storage or a server.   *)
PowerCycle == Reboot

(* Without a network the setup portal is run, which never returns.         *)
NoNetwork == /\ phase = "booting"
             /\ phase' = "portal"
             /\ UNCHANGED <<running, boot, verdict, image, playing, restarts,
                            uploadVars>>

(* web_server::start(): requests are served from here.                     *)
Serve == /\ phase = "booting"
         /\ phase' = "up"
         /\ UNCHANGED <<running, boot, verdict, image, playing, restarts,
                        uploadVars>>

(* The last line of app_main().                                            *)
MarkValid == /\ phase = "up"
             /\ verdict = "pending"
             /\ verdict' = "valid"
             /\ UNCHANGED <<phase, running, boot, image, playing, restarts,
                            uploadVars>>

HttpdStep == \/ FirstChunkRefused \/ FirstChunkFails \/ FirstChunk
             \/ WriteFails \/ ImageRefused \/ EndFails \/ End
             \/ SetBootFails \/ SetBoot \/ Install \/ Respond \/ BodyDies

Next == \/ \E multipart \in BOOLEAN : Upload(multipart)
        \/ HttpdStep
        \/ Start \/ RunEnds \/ RequestRestart \/ PortalSaves
        \/ RestartFires \/ PowerCycle
        \/ NoNetwork \/ Serve \/ MarkValid

Spec == Init /\ [][Next]_vars

-----------------------------------------------------------------------------
(* The slot the device would boot from next holds a whole image of this    *)
(* project whenever the power fails, and so does the one it would go back  *)
(* to.  An upload erases the next slot before it knows what it is sent,    *)
(* and the next slot is the boot slot once an image was installed: only    *)
(* UploadSession stands in between (ota_upload.h:49-52).                   *)
BootsIntact == /\ image[boot] = "ours"
               /\ verdict # "valid" => image[Other(boot)] = "ours"

(* From the first erased block to the restart into the new image no run is *)
(* going, which the restart or the flash would cut (web_server.cpp:288-294 *)
(* and ota.cpp:98-103 each hold one end of it), however the uploads die.   *)
UpdateHasTheDevice == UpdateInProgress \/ "update" \in restarts => ~playing

(* What the client of an upload is told is so: "accepted" when this upload *)
(* chose the image and the restart is on its way, "nothing was changed"    *)
(* and the other refusals when it did not (ota_upload.h:74-100).           *)
AnswersAreTrue ==
  /\ answer = "accepted" => installs /\ "update" \in restarts
  /\ answer \in {"write_failed", "program_running", "image_refused",
                 "missing_file"} => ~installs
  /\ answer = "restart_pending" => boot # running /\ "update" \in restarts
  /\ answer = "restart_failed" => boot # running /\ "update" \notin restarts

=============================================================================
