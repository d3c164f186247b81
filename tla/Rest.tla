-------------------------------- MODULE Rest --------------------------------
(***************************************************************************)
(* The REST surface of the device (main/net/web_server.cpp): which route   *)
(* answers a request (PsychicHttpServer::_process(), the static files and  *)
(* the page's own addresses behind it), the refusals of each route in the  *)
(* order the code tries them, and what an accepted request changes.        *)
(*                                                                         *)
(* A path is the sequence of its segments, "/" is <<"">>.  The parts of    *)
(* the device are as small as the refusals need: a program is the kind of  *)
(* document it is, a clip is there or not, a session is the client it was  *)
(* given to.  Modules of their own have the details.                       *)
(***************************************************************************)
EXTENDS Integers, SequencesExt

CONSTANT Clients

(* Program "1" and clip "1" are shipped; "2" is for what is uploaded.      *)
Shipped   == "1"
Uploaded  == "2"
NoId      == "none"
Numbers   == {"0", "1", "2", "9"}  \* the segments that are all digits

(* What the documents of programs differ in: one plays clip "2", one needs *)
(* a bank more than the device has, one has no series.                     *)
Docs      == {"speaking", "wide", "empty"}
Uses(doc) == IF doc = "speaking" THEN {Uploaded} ELSE {}
Files     == {<<"">>, <<"app.js">>}
Asset     == {"app.js", "gone.js"}  \* the segments with an extension

VARIABLES locked, sessions,    \* the control lock, the clients with a session
          library,             \* programs: the document of each id
          loaded, running,
          clips, playing,      \* audios, and the one that is being played
          window,              \* the BOOT button's window
          updating,            \* the handle of an update is open
          restarting,          \* "no", or the restart that is scheduled
          saved, network,      \* hardware and network as stored
          shown                \* the targets

lockVars    == <<locked, sessions>>
programVars == <<library, loaded, running>>
audioVars   == <<clips, playing>>
configVars  == <<saved, network>>
systemVars  == <<window, updating, restarting>>
restVars    == <<lockVars, programVars, audioVars, configVars, systemVars, shown>>

RestInit ==
  /\ locked = FALSE /\ sessions = {}
  /\ library = [id \in {Shipped} |-> "plain"] /\ loaded = NoId /\ running = FALSE
  /\ clips = {Shipped} /\ playing = NoId
  /\ saved = "default" /\ network = "none"
  /\ window = FALSE /\ updating = FALSE /\ restarting = "no"
  /\ shown = TRUE

-----------------------------------------------------------------------------
(* Routes *)

Api(path) == <<"api", "v2">> \o path
Route(method, path, op) == [method |-> method, path |-> Api(path), op |-> op]

(* As they are registered.                                                 *)
Routes ==
  <<[method |-> "OPTIONS", path |-> <<"*">>, op |-> "preflight"],
    Route("GET", <<"version">>, "getVersion"),
    Route("GET", <<"control-lock", "status">>, "getControlLockStatus"),
    Route("POST", <<"control-lock", "enable">>, "enableControlLock"),
    Route("POST", <<"control-lock", "login">>, "loginControlLock"),
    Route("POST", <<"control-lock", "logout">>, "logoutControlLock"),
    Route("POST", <<"control-lock", "disable">>, "disableControlLock"),
    Route("POST", <<"programs", "start">>, "startProgram"),
    Route("POST", <<"programs", "stop">>, "stopProgram"),
    Route("POST", <<"programs", "reset">>, "resetProgram"),
    Route("POST", <<"programs", "unload">>, "unloadProgram"),
    Route("POST", <<"programs", "series", "*">>, "skipToSeries"),
    Route("GET", <<"programs">>, "listPrograms"),
    Route("POST", <<"programs">>, "createProgram"),
    Route("GET", <<"programs", "*">>, "getProgram"),
    Route("PUT", <<"programs", "*">>, "updateProgram"),
    Route("POST", <<"programs", "*">>, "loadProgram"),
    Route("DELETE", <<"programs", "*">>, "deleteProgram"),
    Route("GET", <<"diagnostics", "info">>, "getDiagnosticsInfo"),
    Route("GET", <<"diagnostics", "bundle">>, "getDiagnosticsBundle"),
    Route("POST", <<"targets", "show">>, "showTargets"),
    Route("POST", <<"targets", "hide">>, "hideTargets"),
    Route("POST", <<"targets", "toggle">>, "toggleTargets"),
    Route("GET", <<"audios">>, "listAudios"),
    Route("POST", <<"audios", "*">>, "playAudio"),
    Route("DELETE", <<"audios", "*">>, "deleteAudio"),
    Route("POST", <<"audios">>, "createAudio"),
    Route("GET", <<"config", "hardware">>, "getHardwareConfig"),
    Route("PUT", <<"config", "hardware">>, "putHardwareConfig"),
    Route("POST", <<"config", "hardware", "reset">>, "resetHardwareConfig"),
    Route("GET", <<"wifi">>, "getWifiStatus"),
    Route("GET", <<"wifi", "networks">>, "getWifiNetworks"),
    Route("PUT", <<"wifi">>, "putWifiCredentials"),
    Route("POST", <<"system", "restart">>, "restartSystem"),
    Route("POST", <<"ota">>, "uploadFirmware"),
    [method |-> "GET", path |-> <<"sse", "v2">>, op |-> "stream"]>>

(* httpd_uri_match_wildcard(): a star stands for what follows its slash.   *)
Matches(pattern, path) ==
  IF Last(pattern) = "*" THEN Len(pattern) <= Len(path) /\ IsPrefix(Front(pattern), path)
  ELSE pattern = path

(* Slip: only a path with an extension is left alone.                      *)
NavigatesInTheApi(path) == Last(path) \notin Asset

(* spa_fallback_eligible().                                                *)
Navigates(path) ==
  /\ path[1] \notin {"api", "sse"}
  /\ ".." \notin ToSet(path)
  /\ Last(path) \notin Asset

(* requestHandler(): the first endpoint of that method that matches, the   *)
(* static files, and then notFoundHandler().                               *)
Served(method, path) ==
  LET hits == {k \in DOMAIN Routes :
                 Routes[k].method = method /\ Matches(Routes[k].path, path)}
  IN  IF hits # {} THEN Routes[Min(hits)].op
      ELSE IF method = "GET" /\ path \in Files THEN "file"
      ELSE IF method = "GET" /\ Navigates(path) THEN "index"
      ELSE "notFound"

(* path_id(): the segment in the place of the "*", if it is a number and   *)
(* the rest of the path is as the route wants it.                          *)
PathId(path, before, after) ==
  LET at == Len(before) + 3
  IN  IF Len(path) >= at /\ path[at] \in Numbers
         /\ path = Api(before) \o <<path[at]>> \o after
      THEN path[at] ELSE NoId

ProgramAt(path)  == PathId(path, <<"programs">>, <<>>)
LoadAt(path)     == PathId(path, <<"programs">>, <<"load">>)
DeletedAt(path)  == PathId(path, <<"programs">>, <<"delete">>)
SeriesAt(path)   == PathId(path, <<"programs", "series">>, <<"skip_to">>)
PlayedAt(path)   == PathId(path, <<"audios">>, <<"play">>)
ClipAt(path)     == PathId(path, <<"audios">>, <<"delete">>)

-----------------------------------------------------------------------------
(* Requests: who asks, with a session or without; what the body is; and    *)
(* whether the storage or the memory the route needs is there              *)

(* What the API describes: its operations and their paths.                 *)
Operation(op, method, paths) == [op : {op}, method : {method}, path : {Api(p) : p \in paths}]
Ids == {"1", "2", "9"}
Contract == UNION {
  Operation("getVersion", "GET", {<<"version">>}),
  Operation("getControlLockStatus", "GET", {<<"control-lock", "status">>}),
  Operation("enableControlLock", "POST", {<<"control-lock", "enable">>}),
  Operation("loginControlLock", "POST", {<<"control-lock", "login">>}),
  Operation("logoutControlLock", "POST", {<<"control-lock", "logout">>}),
  Operation("disableControlLock", "POST", {<<"control-lock", "disable">>}),
  Operation("listPrograms", "GET", {<<"programs">>}),
  Operation("createProgram", "POST", {<<"programs">>}),
  Operation("getProgram", "GET", {<<"programs", id>> : id \in Ids}),
  Operation("updateProgram", "PUT", {<<"programs", id>> : id \in Ids}),
  Operation("loadProgram", "POST", {<<"programs", id, "load">> : id \in Ids}),
  Operation("deleteProgram", "DELETE", {<<"programs", id, "delete">> : id \in Ids}),
  Operation("startProgram", "POST", {<<"programs", "start">>}),
  Operation("stopProgram", "POST", {<<"programs", "stop">>}),
  Operation("resetProgram", "POST", {<<"programs", "reset">>}),
  Operation("unloadProgram", "POST", {<<"programs", "unload">>}),
  Operation("skipToSeries", "POST",
            {<<"programs", "series", i, "skip_to">> : i \in {"0", "9"}}),
  Operation("showTargets", "POST", {<<"targets", "show">>}),
  Operation("hideTargets", "POST", {<<"targets", "hide">>}),
  Operation("toggleTargets", "POST", {<<"targets", "toggle">>}),
  Operation("listAudios", "GET", {<<"audios">>}),
  Operation("createAudio", "POST", {<<"audios">>}),
  Operation("playAudio", "POST", {<<"audios", id, "play">> : id \in Ids}),
  Operation("deleteAudio", "DELETE", {<<"audios", id, "delete">> : id \in Ids}),
  Operation("getHardwareConfig", "GET", {<<"config", "hardware">>}),
  Operation("putHardwareConfig", "PUT", {<<"config", "hardware">>}),
  Operation("resetHardwareConfig", "POST", {<<"config", "hardware", "reset">>}),
  Operation("getWifiStatus", "GET", {<<"wifi">>}),
  Operation("getWifiNetworks", "GET", {<<"wifi", "networks">>}),
  Operation("putWifiCredentials", "PUT", {<<"wifi">>}),
  Operation("restartSystem", "POST", {<<"system", "restart">>}),
  Operation("uploadFirmware", "POST", {<<"ota">>}),
  Operation("getDiagnosticsInfo", "GET", {<<"diagnostics", "info">>}),
  Operation("getDiagnosticsBundle", "GET", {<<"diagnostics", "bundle">>})}

(* Of nothing; the page's own; and what only looks like the API.           *)
Asked(methods, paths) == [method : methods, path : paths]
Misses ==
  Asked({"GET", "PUT"}, {Api(<<"nothing">>), Api(<<"programs", "1", "what", "">>)})
  \cup Asked({"POST", "DELETE"}, {<<"run">>, Api(<<"programs", "x", "load">>)})
  \cup Asked({"GET"}, {<<"gone.js">>, <<"sse">>, <<"..", "run">>})
Pages == Asked({"GET"}, {<<"run">>, <<"apiary">>, <<"run", "1">>})
Others ==
  Asked({"GET"}, Files \cup {<<"sse", "v2">>})
  \cup Asked({"OPTIONS"}, {Api(<<"ota">>), Api(<<"programs", "1">>)})

(* The bodies that a route tells apart; "" is none.                        *)
Bodies(op) ==
  CASE op \in {"startProgram", "skipToSeries"} -> {"", "1", "2"}
    [] op \in {"createProgram", "updateProgram"} -> Docs \cup {"", "invalid", "of another id"}
    [] op \in {"showTargets", "hideTargets", "toggleTargets"} -> {"", "A", "B"}
    [] op \in {"enableControlLock", "loginControlLock"} -> {"", "password"}
    [] op = "putHardwareConfig" -> {"", "valid", "targetsShownAtBoot", "out of range"}
    [] op = "putWifiCredentials" -> {"", "valid", "ssid too long"}
    [] op = "createAudio" -> {"", "no title", "no wav", "clip"}
    [] op = "uploadFirmware" -> {"", "image", "no image", "cut off"}
    [] OTHER -> {""}

Stores == {"updateProgram", "deleteProgram", "createAudio", "putWifiCredentials",
           "restartSystem", "uploadFirmware"}

RequestsFor(method, path) ==
  LET op == Served(method, path)
  IN  [op : {op}, method : {method}, path : {path}, who : Clients, body : Bodies(op),
       works : IF op \in Stores THEN BOOLEAN ELSE {TRUE}]

MissedRequests == UNION {RequestsFor(m.method, m.path) : m \in Misses}
Requests ==
  MissedRequests \cup
  UNION {RequestsFor(c.method, c.path) : c \in Contract \cup Pages \cup Others}

-----------------------------------------------------------------------------
(* Refusals, in the order the code comes to them *)

Fine == "fine"
FirstOf(checks) ==
  LET hits == {k \in DOMAIN checks : checks[k][1]}
  IN  IF hits = {} THEN Fine ELSE checks[Min(hits)][2]

(* require_control_lock().                                                 *)
LockedOut(r) == <<locked /\ r.who \notin sessions, "control_lock_credentials_required">>

(* config_window_open(): a run holds it shut.                              *)
WindowOpen   == window /\ ~ running
WindowClosed == <<~ WindowOpen, "hardware_config_window_closed">>
Busy         == <<running, "program_running">>
InUse(id)    == loaded # NoId /\ id \in Uses(library[loaded])
InProgress   == updating \/ restarting = "updated"

StartChecks(r) ==
  <<LockedOut(r),
    <<InProgress, "program_running">>,
    <<r.body = "", "start_id_required">>,
    <<loaded = NoId, "no_program_loaded">>,
    <<loaded # r.body, "start_program_mismatch">>,
    <<loaded # NoId /\ library[loaded] = "wide", "program_banks_unavailable">>,
    <<~ running /\ loaded # NoId /\ library[loaded] = "empty", "no_program_loaded">>>>

SkipChecks(r) ==
  <<LockedOut(r),
    <<SeriesAt(r.path) = NoId, "route_not_found">>,
    <<r.body = "", "skip_id_required">>,
    <<loaded = NoId, "series_index_invalid">>,
    <<loaded # r.body, "skip_program_mismatch">>,
    <<SeriesAt(r.path) # "0" \/ (loaded # NoId /\ library[loaded] = "empty"),
      "series_index_invalid">>>>

UpdateChecks(r) ==
  <<LockedOut(r),
    <<ProgramAt(r.path) \notin DOMAIN library, "program_not_found">>,
    <<ProgramAt(r.path) = Shipped, "program_readonly">>,
    <<ProgramAt(r.path) = loaded, "program_loaded">>,
    <<r.body = "", "program_invalid">>,
    <<r.body = "of another id", "program_id_mismatch">>,
    <<r.body = "invalid", "program_invalid">>,
    <<~ r.works, "program_store_failed">>>>

DeleteChecks(r) ==
  <<LockedOut(r),
    <<DeletedAt(r.path) = NoId, "route_not_found">>,
    <<DeletedAt(r.path) \notin DOMAIN library, "program_not_found">>,
    <<DeletedAt(r.path) = Shipped, "program_readonly">>>>

(* Read at the request, whichever way the targets are to turn.             *)
TargetChecks(r) == <<LockedOut(r), <<r.body = "B", "bank_unavailable">>>>

PlayChecks(r) ==
  <<LockedOut(r),
    <<PlayedAt(r.path) = NoId, "route_not_found">>,
    <<PlayedAt(r.path) \notin clips, "audio_not_found">>>>

(* Slip: only a run in progress keeps the clips of its program.            *)
DeleteAudioChecksRunning(r) ==
  <<LockedOut(r),
    <<ClipAt(r.path) = NoId, "route_not_found">>,
    <<ClipAt(r.path) \notin clips, "audio_not_found">>,
    <<ClipAt(r.path) = Shipped, "audio_readonly">>,
    Busy,
    <<ClipAt(r.path) = playing, "audio_playing">>>>

DeleteAudioChecks(r) ==
  <<LockedOut(r),
    <<ClipAt(r.path) = NoId, "route_not_found">>,
    <<ClipAt(r.path) \notin clips, "audio_not_found">>,
    <<ClipAt(r.path) = Shipped, "audio_readonly">>,
    <<InUse(ClipAt(r.path)), "audio_in_use">>,
    Busy,
    <<ClipAt(r.path) = playing, "audio_playing">>>>

(* The lock is asked before the body is read.                              *)
CreateAudioChecks(r) ==
  <<LockedOut(r),
    <<r.body = "", "upload_missing_file">>,
    <<r.body = "no title", "upload_missing_title">>,
    <<r.body = "no wav", "audio_format_unsupported">>,
    <<~ r.works, "audio_store_failed">>>>

PutHardwareChecks(r) ==
  <<LockedOut(r),
    <<r.body = "", "hardware_config_invalid">>,
    <<r.body = "targetsShownAtBoot", "hardware_config_serial_only">>,
    Busy, WindowClosed,
    <<r.body = "out of range", "hardware_config_invalid">>>>

(* Slip: the reset of the hardware is not asked for a session.             *)
ResetHardwareChecksForAll(r) == <<Busy, WindowClosed>>

ResetHardwareChecks(r) == <<LockedOut(r), Busy, WindowClosed>>

PutWifiChecks(r) ==
  <<LockedOut(r),
    <<r.body = "", "wifi_credentials_invalid">>,
    Busy, WindowClosed,
    <<r.body = "ssid too long", "wifi_credentials_invalid">>,
    <<~ r.works, "wifi_store_failed">>>>

RestartChecks(r) == <<LockedOut(r), Busy, <<~ r.works, "restart_failed">>>>

(* The gate of ota.cpp, and what its answer is after the body.             *)
FirmwareChecks(r) ==
  <<LockedOut(r),
    <<restarting = "updated", "restart_pending">>,
    <<r.body = "", "upload_missing_file">>,
    Busy,
    <<r.body = "no image", "ota_image_refused">>,
    <<~ r.works, "ota_write_failed">>>>

Checks(r) ==
  CASE r.op = "enableControlLock" ->
         <<<<locked, "control_lock_already_enabled">>, <<r.body = "", "invalid_password">>>>
    [] r.op = "loginControlLock" ->
         <<<<~ locked, "control_lock_not_enabled">>, <<r.body = "", "invalid_password">>>>
    [] r.op = "disableControlLock" -> <<LockedOut(r)>>
    [] r.op = "startProgram" -> StartChecks(r)
    [] r.op = "stopProgram" -> <<LockedOut(r), <<~ running, "program_not_running">>>>
    [] r.op = "resetProgram" -> <<LockedOut(r), <<loaded = NoId, "no_program_loaded">>>>
    [] r.op = "unloadProgram" -> <<LockedOut(r), Busy>>
    [] r.op = "skipToSeries" -> SkipChecks(r)
    [] r.op = "createProgram" -> <<LockedOut(r), <<r.body \notin Docs, "program_invalid">>>>
    [] r.op = "getProgram" -> <<<<ProgramAt(r.path) \notin DOMAIN library, "program_not_found">>>>
    [] r.op = "updateProgram" -> UpdateChecks(r)
    [] r.op = "loadProgram" ->
         <<LockedOut(r), <<LoadAt(r.path) = NoId, "route_not_found">>,
           <<LoadAt(r.path) \notin DOMAIN library, "program_not_found">>>>
    [] r.op = "deleteProgram" -> DeleteChecks(r)
    [] r.op \in {"getDiagnosticsBundle", "getWifiNetworks"} -> <<WindowClosed>>
    [] r.op \in {"showTargets", "hideTargets", "toggleTargets"} -> TargetChecks(r)
    [] r.op = "playAudio" -> PlayChecks(r)
    [] r.op = "deleteAudio" -> DeleteAudioChecks(r)
    [] r.op = "createAudio" -> CreateAudioChecks(r)
    [] r.op = "putHardwareConfig" -> PutHardwareChecks(r)
    [] r.op = "resetHardwareConfig" -> ResetHardwareChecks(r)
    [] r.op = "putWifiCredentials" -> PutWifiChecks(r)
    [] r.op = "restartSystem" -> RestartChecks(r)
    [] r.op = "uploadFirmware" -> FirmwareChecks(r)
    [] r.op = "notFound" -> <<<<TRUE, "route_not_found">>>>
    [] OTHER -> <<>>

Refusal(r) == FirstOf(Checks(r))

-----------------------------------------------------------------------------
(* What an accepted request changes *)

Accepted(r, op) == r.op = op /\ Refusal(r) = Fine

(* The control lock.                                                       *)
EnableControlLock(r) ==
  /\ Accepted(r, "enableControlLock")
  /\ locked' = TRUE /\ sessions' = {r.who}
  /\ UNCHANGED <<programVars, audioVars, configVars, systemVars, shown>>

LoginControlLock(r) ==
  /\ Accepted(r, "loginControlLock")
  /\ sessions' = sessions \cup {r.who}
  /\ UNCHANGED <<locked, programVars, audioVars, configVars, systemVars, shown>>

LogoutControlLock(r) ==
  /\ Accepted(r, "logoutControlLock")
  /\ sessions' = sessions \ {r.who}
  /\ UNCHANGED <<locked, programVars, audioVars, configVars, systemVars, shown>>

DisableControlLock(r) ==
  /\ Accepted(r, "disableControlLock")
  /\ locked' = FALSE /\ sessions' = {}
  /\ UNCHANGED <<programVars, audioVars, configVars, systemVars, shown>>

(* The run.  Loading ends one, whatever was loaded.                        *)
StartProgram(r) ==
  /\ Accepted(r, "startProgram")
  /\ running' = TRUE
  /\ UNCHANGED <<lockVars, library, loaded, audioVars, configVars, systemVars, shown>>

StopProgram(r) ==
  /\ \/ Accepted(r, "stopProgram") \/ Accepted(r, "resetProgram")
     \/ Accepted(r, "skipToSeries")
  /\ running' = FALSE
  /\ UNCHANGED <<lockVars, library, loaded, audioVars, configVars, systemVars, shown>>

UnloadProgram(r) ==
  /\ Accepted(r, "unloadProgram")
  /\ loaded' = NoId
  /\ UNCHANGED <<lockVars, library, running, audioVars, configVars, systemVars, shown>>

LoadProgram(r) ==
  /\ Accepted(r, "loadProgram")
  /\ loaded' = LoadAt(r.path) /\ running' = FALSE
  /\ UNCHANGED <<lockVars, library, audioVars, configVars, systemVars, shown>>

(* The libraries.  Bound: one program and one clip are uploaded.           *)
CreateProgram(r) ==
  /\ Accepted(r, "createProgram") /\ Uploaded \notin DOMAIN library
  /\ library' = [id \in DOMAIN library \cup {Uploaded} |->
                   IF id = Uploaded THEN r.body ELSE library[id]]
  /\ UNCHANGED <<lockVars, loaded, running, audioVars, configVars, systemVars, shown>>

UpdateProgram(r) ==
  /\ Accepted(r, "updateProgram")
  /\ library' = [library EXCEPT ![ProgramAt(r.path)] = r.body]
  /\ UNCHANGED <<lockVars, loaded, running, audioVars, configVars, systemVars, shown>>

(* Unloaded first, and still there when its file cannot be removed.        *)
DeleteProgram(r) ==
  /\ Accepted(r, "deleteProgram")
  /\ LET id == DeletedAt(r.path)
     IN  /\ loaded' = IF loaded = id THEN NoId ELSE loaded
         /\ running' = (running /\ loaded # id)
         /\ library' = IF r.works THEN Restrict(library, DOMAIN library \ {id}) ELSE library
  /\ UNCHANGED <<lockVars, audioVars, configVars, systemVars, shown>>

PlayAudio(r) ==
  /\ Accepted(r, "playAudio")
  /\ playing' = PlayedAt(r.path)
  /\ UNCHANGED <<lockVars, programVars, clips, configVars, systemVars, shown>>

DeleteAudio(r) ==
  /\ Accepted(r, "deleteAudio")
  /\ clips' = clips \ {ClipAt(r.path)}
  /\ UNCHANGED <<lockVars, programVars, playing, configVars, systemVars, shown>>

CreateAudio(r) ==
  /\ Accepted(r, "createAudio") /\ Uploaded \notin clips
  /\ clips' = clips \cup {Uploaded}
  /\ UNCHANGED <<lockVars, programVars, playing, configVars, systemVars, shown>>

SetTargets(r) ==
  /\ \/ Accepted(r, "showTargets") /\ shown' = TRUE
     \/ Accepted(r, "hideTargets") /\ shown' = FALSE
     \/ Accepted(r, "toggleTargets") /\ shown' = ~ shown
  /\ UNCHANGED <<lockVars, programVars, audioVars, configVars, systemVars>>

(* The device.                                                             *)
StoreHardware(r) ==
  /\ \/ Accepted(r, "putHardwareConfig") /\ saved' = "own"
     \/ Accepted(r, "resetHardwareConfig") /\ saved' = "default"
  /\ UNCHANGED <<lockVars, programVars, audioVars, network, systemVars, shown>>

PutWifiCredentials(r) ==
  /\ Accepted(r, "putWifiCredentials")
  /\ network' = "own"
  /\ UNCHANGED <<lockVars, programVars, audioVars, saved, systemVars, shown>>

RestartSystem(r) ==
  /\ Accepted(r, "restartSystem")
  /\ restarting' = IF restarting = "no" THEN "asked" ELSE restarting
  /\ UNCHANGED <<lockVars, programVars, audioVars, configVars, window, updating, shown>>

(* An upload that is cut off leaves its handle open.                       *)
UploadFirmware(r) ==
  /\ Accepted(r, "uploadFirmware")
  /\ updating' = (r.body = "cut off")
  /\ restarting' = IF r.body = "image" THEN "updated" ELSE restarting
  /\ UNCHANGED <<lockVars, programVars, audioVars, configVars, window, shown>>

-----------------------------------------------------------------------------
(* What happens without a request *)

RunEnds ==
  /\ running /\ running' = FALSE
  /\ UNCHANGED <<lockVars, library, loaded, audioVars, configVars, systemVars, shown>>

(* The clip ends, or the run starts the one of its event.                  *)
PlaybackTurns ==
  /\ playing' \in {NoId} \cup IF running THEN Uses(library[loaded]) \cap clips ELSE {}
  /\ playing' # playing
  /\ UNCHANGED <<lockVars, programVars, clips, configVars, systemVars, shown>>

WindowTurns ==
  /\ window' = ~ window
  /\ UNCHANGED <<lockVars, programVars, audioVars, configVars, updating, restarting, shown>>

SessionEnds ==
  /\ \E c \in sessions : sessions' = sessions \ {c}
  /\ UNCHANGED <<locked, programVars, audioVars, configVars, systemVars, shown>>

(* The restart that was scheduled.                                         *)
Reboots ==
  /\ restarting # "no"
  /\ locked' = FALSE /\ sessions' = {} /\ loaded' = NoId /\ running' = FALSE
  /\ playing' = NoId /\ window' = FALSE /\ updating' = FALSE /\ restarting' = "no"
  /\ shown' = TRUE
  /\ UNCHANGED <<library, clips, configVars>>

Call(r) ==
  \/ EnableControlLock(r) \/ LoginControlLock(r) \/ LogoutControlLock(r) \/ DisableControlLock(r)
  \/ StartProgram(r) \/ StopProgram(r) \/ UnloadProgram(r) \/ LoadProgram(r)
  \/ CreateProgram(r) \/ UpdateProgram(r) \/ DeleteProgram(r)
  \/ PlayAudio(r) \/ DeleteAudio(r) \/ CreateAudio(r) \/ SetTargets(r)
  \/ StoreHardware(r) \/ PutWifiCredentials(r) \/ RestartSystem(r) \/ UploadFirmware(r)

RestNext == \/ \E r \in Requests : Call(r)
        \/ RunEnds \/ PlaybackTurns \/ WindowTurns \/ SessionEnds \/ Reboots

RestSpec == RestInit /\ [][RestNext]_restVars

-----------------------------------------------------------------------------
(* Properties *)

(* Every operation of the API reaches its own route, although wildcards    *)
(* are tried in the order they were registered (web_server.cpp:275-277);   *)
(* a miss under /api or of an asset stays a 404 and never turns into the   *)
(* page, and the page's addresses do (1634-1647).                          *)
WellRouted == /\ \A c \in Contract : Served(c.method, c.path) = c.op
              /\ \A p \in Pages : Served(p.method, p.path) = "index"
RoutesReachTheirOwn ==
  /\ WellRouted
  /\ \A r \in MissedRequests :
       Refusal(r) \in {"route_not_found", "program_not_found",
                       "control_lock_credentials_required"}

(* While the lock is on, whatever is not a read and not the lock's own     *)
(* door asks for a session before it says anything else (124-148).         *)
Entrances == {"enableControlLock", "loginControlLock", "logoutControlLock", "preflight"}
NothingWithoutASession ==
  \A r \in Requests :
    locked /\ r.who \notin sessions /\ r.method # "GET" /\ r.op \notin Entrances \cup {"notFound"}
      => Refusal(r) = "control_lock_credentials_required"

(* What belongs to whoever stands at the device needs the window, which a  *)
(* run holds shut (740-752, 1251-1262).                                    *)
AtTheDevice == {"putHardwareConfig", "resetHardwareConfig", "putWifiCredentials",
                "getWifiNetworks", "getDiagnosticsBundle"}
SomebodyIsThere ==
  \A r \in Requests : r.op \in AtTheDevice /\ Refusal(r) = Fine => window /\ ~ running

RequestsAreGuarded == RoutesReachTheirOwn /\ NothingWithoutASession /\ SomebodyIsThere

(* The program that is loaded, and the clips it plays, stay as they are,   *)
(* paused or running; while it runs no request changes what the device is  *)
(* or schedules its end (463-470, 977-980, 1240-1243); and what is shipped *)
(* stays for good.                                                         *)
RunsAreLeftAlone ==
  [][/\ loaded # NoId /\ loaded' = loaded =>
          /\ library'[loaded] = library[loaded]
          /\ Uses(library[loaded]) \cap clips \subseteq clips'
     /\ running /\ running' => UNCHANGED configVars /\ (restarting' = restarting)
                              /\ (updating' => updating)
     /\ Shipped \in clips' /\ library'[Shipped] = library[Shipped]]_restVars
=============================================================================
