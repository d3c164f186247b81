-------------------------------- MODULE Boot --------------------------------
(***************************************************************************)
(* The device from one boot to the next: app_main() joins a network        *)
(* (WifiJoin) or ends in the setup portal, serves, and then marks the      *)
(* image it runs valid (OtaUpdate).  An update and every other restart     *)
(* takes both back to the start, in the middle of whatever they were at.   *)
(***************************************************************************)
EXTENDS WifiJoin, OtaUpdate

deviceVars == <<joinVars, vars>>

(* The type invariant.                                                     *)
BootTypeOK == JoinTypeOK /\ TypeOK

BootInit == JoinInit /\ Init

-----------------------------------------------------------------------------
(* The main task, the event task, the timer and the driver, up to what     *)
(* connect() returns, and for as long as the device is up.                 *)
JoinStep == Joins /\ UNCHANGED vars

(* app_main() goes on with what connect() returned: run_setup_portal(), or *)
(* web_server::start() and what follows it.                                *)
RunSetupPortal == StartAp /\ NoNetwork

StartServing == /\ result = "connected"
                /\ Serve
                /\ UNCHANGED joinVars

MarksValid == MarkValid /\ UNCHANGED joinVars

(* Uploads, runs and requests to restart.                                  *)
UpdateStep == /\ \/ \E multipart \in BOOLEAN : Upload(multipart)
                 \/ HttpdStep
                 \/ Start \/ RunEnds
                 \/ RequestRestart \/ PortalSaves
              /\ UNCHANGED joinVars

(* Nothing in RAM is left, and the networks known may be others.           *)
Restarts == RestartFires /\ JoinAnew

PowerGoes == PowerCycle /\ JoinAnew

BootNext == \/ JoinStep
            \/ RunSetupPortal \/ StartServing \/ MarksValid
            \/ UpdateStep
            \/ Restarts \/ PowerGoes

(* The tasks run, and the driver ends every attempt.                       *)
BootSpec == /\ BootInit
            /\ [][BootNext]_deviceVars
            /\ JoinFairness
            /\ WF_deviceVars(RunSetupPortal \/ StartServing \/ MarksValid)

(* In the end the device is left on.                                       *)
StaysOn == <>[][~PowerGoes /\ ~Restarts]_deviceVars

-----------------------------------------------------------------------------
(* connect() waits, with no timeout, on a link that neither gets an address*)
(* nor is lost (wifi_mgr.cpp:262-263).                                     *)
WaitsForALease == pc = "wait" /\ radio = "linked"

(* A device that stays on ends where it can be reached: serving an image   *)
(* that is marked valid, or in its setup portal (app_main.cpp:108-112,     *)
(* 140-142, wifi_mgr.cpp:262-277).  Only a network that lets it associate  *)
(* and then never gives it an address keeps it from there.                 *)
BootEnds ==
  StaysOn => \/ <>(phase = "portal" \/ (phase = "up" /\ verdict = "valid"))
             \/ <>[]WaitsForALease

(* A device can be reached: a boot ends where it can, and one that was on  *)
(* its network comes back to it (WifiJoin).                                *)
StaysReachable == BootEnds /\ ComesBack

=============================================================================
