# Verification of the rotation target firmware

The device turns shooting targets to the beat of a *program*: a list of series,
each a list of timed events that show or hide banks of targets and play clips.
It is an ESP32-S3 with a REST API, a server-sent event stream and a web page.
This directory holds TLA+ models of the firmware, of the HTTP library under it
and of the web page in front of it, the TLC runs that check them, and theorems
that TLAPS proves about them. Paths below are relative
to `src/firmware/`, those of the page to `src/webapp/src/`.

## 1. The system

### Tasks

| task | priority | what it does |
| --- | --- | --- |
| `run_loop` | 4 | ticks the executor, publishes, sleeps for as long as the tick said or until notified (`main/executor/program_executor.cpp`) |
| httpd | 5 | one task for every REST handler, every SSE connection and every message posted to it (`main/net/`) |
| audio | 5 | takes requests from a queue of one and plays them (`main/io/audio.cpp`) |
| `boot_button` | | polls the button every 20 ms, owns the configuration window (`main/io/boot_button.cpp`) |
| esp_timer | | the SSE heartbeat every 10 s |
| restart | | ends the process 1.5 s after it was asked to (`main/system/restart.cpp`) |

One recursive mutex guards the run state and the executor; `s_outbox_lock`
guards the SSE outbox; everything about SSE clients belongs to the httpd task.

### Components, their state, and what makes them correct

| component | state | operations | what must hold |
| --- | --- | --- | --- |
| run position (`lib/rt_logic/run_position.h`, `program.h`) | none | total, locate, next sleep | every time before the end lies in exactly one event; a sleep never passes an event end or a whole second |
| executor (`executor.cpp`, `program_state.h`) | loaded program, running, series, event, ticker, anchor, bank levels | load, start, stop, reset, skip, unload, target calls, tick | a run is always somewhere in a startable program; a pause resumes in its event; targets turn only for an event or a call |
| run loop and control calls (`program_executor.cpp`) | notification, pending broadcast, sleep | one locked section per call, flush, wake | no call is slept through; no client keeps a stale frame; no event is lost; a run ends |
| SSE outbox (`sse_outbox.h`) | frames, drain posted, beat waiting | push, take, beat | what is accepted goes out, one-off frames in order and once |
| SSE hub and clients (`sse_hub.cpp`, `sse_clients.h`) | client list, closing list, mailbox of httpd | enqueue, drain, beat, reap, connect, close | a client that stays catches up; a cut stream stays silent; sockets come back |
| control lock (`control_lock.h`) | password, tokens with their age | enable, disable, login, logout, authorize | no session outlives the lock or its password, and none ends early but for a reason; eviction takes the right one |
| program library (`main/repositories/programs.cpp`, `id_range.h`) | programs by id, files | boot scan, add, update, remove | the executor never points at a freed program; an id names one program; memory and files agree |
| audio library (`main/repositories/audios.cpp`) | index, WAV files | boot scan, upload, remove | index and files agree after a failure; a clip in use stays |
| audio playback (`main/io/audio.cpp`) | queue of one, what plays | play, take | the newest request is played; `is_playing` tells the truth |
| BOOT button (`boot_button.cpp`, `button_gesture.h`, `press_sequence.h`) | gesture, presses, window | poll, consume, open, lapse | a press, a hold and a bounce are told apart whatever the polls; the window opens for the rhythm and nothing else; one press, one submission; pages see the window |
| OTA and restart (`main/ota/ota.cpp`, `ota_upload.h`, `restart.cpp`) | upload session, flash handle, two slots, boot slot and its verdict, restarts on their way | chunks, finish, abort, restart, rollback | the device can always boot a whole image; nothing runs across an update; clients are told what happened |
| hardware configuration (`hardware_store.cpp`, `hardware_config.cpp`) | keys in NVS, values latched at boot | put, reset, boot-targets, boot | a change that was answered is what the next boot adopts, whatever comes after; no configuration is half of one and half of another |
| network (`wifi_mgr.cpp`, `wifi_store.cpp`, `setup_portal.cpp`, `eth_mgr.cpp`) | credentials, attempts, backoff | join, retry, reconnect, portal, save | the device ends connected or in the portal; each network has its whole budget; a lost link is taken up again for ever; the portal's station joins nothing |
| REST surface (`web_server.cpp`, `uri_path.h`) | none of its own | every operation of the API, the page's addresses, static files | every operation is answered by its own route; each changes only what it may, with the session, the window and no run or update under way; a refusal changes nothing |
| HTTP library (`lib/psychic_http`) | clients, their handlers' lists, sessions, the body being received | open, request, receive, close, multipart | a session, its client and its stream live and die together; every byte of an upload reaches the callback of its file |
| editor (`program-editor.ts`, `ProgramEditor.tsx`, `program-document.ts`) | draft, keys, baseline, JSON view, save on its way | every edit, apply, save, answer, close | what is saved is what was shown; the clock stays on the event it was put on; nothing typed is lost unless it was given up |
| run page (`routes/run.tsx`) | pick, pending starts and loads, what the stream mirrors | pick, start, stop, reset, skip, frames | a start is of the program and the state that were on screen |
| caches (`useSSE.ts`, react-query) | answers by key, notices | fetch, invalidate, reconnect | a page that stays ends up with what the device holds |
| pages of programs and clips | file picked, checks under way, dialogs | pick, upload, delete | a request is about the row and the file its author saw |
| forms for hardware and network, restart (`HardwareSection.tsx`, `WifiConfigSection.tsx`, `RestartToApply.tsx`) | draft over a copy, request on its way | edit, save, rescan, restart | a save writes what its author changed, and what the page says of it is true |
| tabs of a browser (`SettingsContext.tsx`, `ControlLockSection.tsx`, `client.ts`) | token of each tab, what they share | enable, log in, log out, 401 | tabs agree in the end |
| editor without a device (`StandaloneEditorApp.tsx`) | repository browsed, document, id | browse, open, id question | what is opened, and its id, are what was asked for |


Storage mounts, the embedded file system, the LED, diagnostics and the codecs
are I/O or pure formatting and are not modelled (section 7).

### How they interact

A control call locks the run state, acts through `rt::Executor`, unlocks, and
then *flushes*: under the lock again it takes the pending-broadcast flag and
hands a snapshot to the SSE hub, and finally it notifies the run loop. The run
loop ticks under the lock, flushes in the same way, and sleeps. The hub never
writes to a socket on the caller's task: it puts the frame in the outbox and
posts a *drain* message to the httpd task, through a mailbox that loses what
does not fit. The heartbeat timer posts a *beat* message which drains as well
and reaps dead clients.

The settings meet in one NVS namespace, written by httpd, by the serial console
and by a factory reset that the button or the console asks for; none of them
locks it. `executor::is_running()` is what updates, settings and restarts ask
before they begin, and `ota::in_progress()` what a start asks. The button's
task owns the window that settings need, publishes it through the SSE hub, and
records the press that the setup portal consumes.

The page never asks twice what the stream tells it: a `stateUpdate` frame goes
into the query cache, a `libraryChanged` or `configWindow` notice makes it fetch
again, and a component is drawn from the cache later than it was filled.
Requests go out with the token of the tab they come from, and their answers may
be lost or come after the component that asked is gone.

### What is hard

Lost wakeups and lost frames between two tasks that change and publish the same
state; sleeps that must end at the right boundary; positions that survive
pause, skip, reset and unload in any order; messages lost in the mailbox and
retries that run after all; socket numbers reused while a close is pending;
power that fails between two keys, two files or two slots; uploads that die in
their body and leave something behind; handlers that stay registered for
another mode of the radio than the one they were written for; pages that are
drawn once for two frames, answers that arrive after the question has changed,
and saves of a copy that is no longer what the device holds.
Every such place is listed with its line under `hazards` in `PROJECT.json`.

## 2. Modules

| module | models | notes |
| --- | --- | --- |
| `RunPosition` | `run_position.h`, `Series::total_ms` | `EndsAt(events)` is the running sum both functions accumulate, as a recursive function |
| `Executor` | `executor.cpp`, `program_state.h` | one action per operation; `elapsed` stands for `now - series_start_ms`; indices count from 1; `None` is a null pointer or unset `Nullable` |
| `RunControl` | `program_executor.cpp` | the two tasks around `Executor`: locked section, flush, wake; tick, flush, wait; the clock |
| `Exercise` | the abstract promise | a run walks the events in order, pauses and resumes in an event, ends after the last; the device itself does nothing else |
| `MCRunControl` | | the small programs the runs use |
| `SseOutbox` | `sse_outbox.h` | operators on an outbox record |
| `SseHub` | `sse_hub.cpp`, `sse_clients.h` | tasks that publish, the heartbeat timer, the httpd task, the mailbox, clients and sockets |
| `ProgramLibrary`, `MCProgramLibrary` | `repositories/programs.cpp`, `id_range.h`, the program handlers of `web_server.cpp` | memory and files as two functions on ids; one step for each operation that can fail or be cut off |
| `AudioLibrary`, `MCAudioLibrary` | `repositories/audios.cpp`, `io/audio.cpp`, the clip handlers of `web_server.cpp`, `MultipartProcessor.cpp` | entries, index, WAV files and staging file, the body that is received, the audio task |
| `OtaUpdate` | `ota/ota.cpp`, `ota_upload.h`, `ota_policy.h`, `restart.cpp`, the end of `app_main.cpp` | the upload, the two slots, otadata and the bootloader, restarts on their way |
| `ControlLock`, `MCControlLock` | `control_lock.h`, its routes, and what the page keeps (`src/webapp`) | a session is its number; a page has a stored token and a cookie |
| `BootButton` | `boot_button.cpp`, `button_gesture.h`, `press_sequence.h` | the task in two steps, the gesture and the publication; the finger; the portal's request |
| `Settings` | `hardware_store.cpp`, `hardware_overlay.cpp`, `hardware_config.cpp`, `wifi_store.cpp`, `factory_reset.cpp`, `targets.cpp`, the configuration handlers, boot-targets | NVS key by key |
| `WifiJoin` | `wifi_mgr.cpp`, the start of `setup_portal.cpp` | the main task, the event task, the timer, the driver |
| `Boot` | `app_main.cpp`; extends `WifiJoin` and `OtaUpdate` | the device from boot to boot |
| `HttpServer` | `PsychicHttpServer.cpp`, `PsychicHandler.cpp`, `PsychicEventSource.cpp`, `PsychicRequest.cpp`, `PsychicWebHandler.cpp` | client objects are addresses that are freed and reused |
| `Multipart` | `MultipartProcessor.cpp`, `PsychicUploadHandler.cpp` | the parser as a function of a body |
| `Rest`, `MCRest` | `web_server.cpp`, `uri_path.h`, `psychic_uri_match` | every route with its refusals in order; `MCRest` puts the layers of a request side by side |
| `ProgramDocument` | `program-document.ts`, `program.h`, `program.cpp` | three readers and two writers of a program, as operators |
| `ProgramEditor`, `MCPrograms` | `program-editor.ts`, `ProgramEditor.tsx` | one session of the editor; `MCPrograms` puts it beside the library |
| `RunPage` | `routes/run.tsx`, `useSSE.ts` | the page, the stream and the run state |
| `PageCaches` | `useSSE.ts`, the `use*` hooks | versions of what the device holds, in the cache and on their way |
| `ProgramsPage`, `AudiosPage` | `routes/programs.tsx`, `routes/audios.tsx` | files being read and converted, dialogs, requests |
| `HardwareForm`, `WifiForm`, `RestartToApply` | `HardwareSection.tsx`, `WifiConfigSection.tsx`, `RestartToApply.tsx`, `useRestartPending.ts`, `useConfigWindow.ts` | drafts over a copy, against a device that others change |
| `BrowserTabs` | `SettingsContext.tsx`, `ControlLockSection.tsx`, `client.ts` | what is stored, what each tab holds, and the storage events between them |
| `StandaloneEditor` | `StandaloneEditorApp.tsx`, `github-contents.ts` | lists, titles and files that arrive late |
| `Mirrors` | `bank-state.ts`, `ssid-choice.ts`, and what the device computes of the same | a computation and its mirror |
| `MCPages` | | settings and pages, a part to a behaviour |
| `RunControl_proofs`, `SseHub_proofs`, `Programs_proofs`, `AudioLibrary_proofs`, `Boot_proofs`, `BootButton_proofs`, `Rest_proofs`, `Pages_proofs` | | theorems, see 5 |

Parts that share no state (the pages, say) are composed as alternatives: `MCPages`,
`MCRest` and `MCPrograms` choose one at the start of a behaviour and move only
it, so that one run covers several modules without multiplying their states.


Definitions introduced by a comment that begins with `Slip:` are plausible
mistakes in the definition that follows them. They are never part of the
specification; each shows, when put in place of the original, that one of the
properties would notice.

### Correspondence

*Executor.* `Start`, `Stop`, `Reset`, `SkipToSeries`, `Load`, `Unload`,
`ForceUnload`, the three target operations and the three branches of `tick()`
(`TickIdle`, `TickStops`, `TickRuns`) are each the whole function:
`enter_event()` and `complete_series()` are the operators `EnterEvent` and
`SelectFollowing` inside them. `ProgramsAssumption` is what `parse_program()`
accepts. `shown` is at once `bank_shown` and the level of the pins, because
`set_targets()` writes both under the lock. `clips` is the audio task's queue of
one request.

*RunControl.* `loop` says where `run_task` is, `http` what is left of the call
httpd serves. `frame` is the last snapshot handed to the hub; `flush()` takes
the snapshot and hands it over under one lock and so is one step. One tick of
the clock is `Advance`. While a task owes the run something (the loop is not
asleep, or a call has changed the run and not yet woken it), the scheduler may
hold it up for `MaxLate` ticks in total between two ticks of the loop; this
bounds the environment, not the code.

*Exercise.* `Phase` maps the executor's state to the abstract one: running,
paused (there is a position to resume from), ready, unloaded. Targets, audio,
clock, tasks and frames are invisible to it. It tells what a client asks for
from what the device does by itself (`serving`: httpd is in a call): by itself
the device may only go on to the next event or finish after the last, and may
miss only events that are no longer than the scheduler's lateness. A run that
ended early or sat in an event for good would not implement it.

*SseHub.* A version number stands for the run state: which of its states a
`stateUpdate` was made from. The run-state lock is a variable because
`enqueue()` posts its drain while `flush()` holds it. "notice" stands for the
one-off events `backend_issue` and `libraryChanged`; `configWindow`, sent like
`stateUpdate`, is left out. A socket is also the slot of the session: a close
message names a slot, and closes whoever holds it when it runs
(esp_http_server, external). A drain is three steps: the message is taken, the
outbox emptied, the batch written. `ServerCloses` is the server ending a
session by itself, because the peer closed it or to free the least recently
used socket.

*ProgramLibrary.* A request is a variable `call` that says how far the handler
is; only httpd serves requests, so there is one. `write_program()` is `Stage`,
`Rename` and their failures, and `Store` the map update and the answer.
`StageLosesTail` is a write that `fwrite()` accepts and `fclose()` loses:
LittleFS then keeps what the file was before. `PowerCut` drops what is in memory
at any step and `Boot` scans again, possibly with another firmware image and so
other shipped programs; a file that cannot be read or parsed is skipped. `told`
is what clients were last answered about an id, or would have been if the
change was on flash when the power failed. `held` is a copy of the document the
executor's pointer meant when it was loaded. The executor is reduced to what it
points at and whether it runs.

*AudioLibrary.* A WAV is represented by the number of the upload it came with.
`call` goes through the body (`ChunkIsWritten`, `ChunkIsLost`, `ChunkFails`, and
the ways a connection ends), `onRequest`, the probe and `add_uploaded()`, or through the
steps of a delete. The lock of the map is held exactly at the steps `MapLocked`
names. The entry and the file change in one step, since nobody can look between
them but the power. `stage` is where `play_one()` is: the file is `opened`
before the lock is taken, and closed after it is given back. `doneKey` is the
key of the session; connections are used one after another. `torn`, `unseen`,
`told` and `damaged` are history: uploads of which bytes did not reach the file,
those of them of which only `fclose()` lost some, what clients were told, and
ids whose index entry was lost, or left behind by a delete that was cut off. A
boot that cannot read the index and shipped clips are left out.

*OtaUpdate.* `request` says where httpd is in an upload: in the body outside a
part that is written, in such a part, after `esp_ota_end()`, after
`esp_ota_set_boot_partition()`. A body may carry any number of file parts. What
a client sends is an image of this project, of another one, one that ESP-IDF's
verification refuses, or too little for one. `session` is the code's
`UploadSession` field by field. `verdict` is what otadata says of the boot
slot: new, tried once, or valid; `Bootloader` is external. A body that dies
leaves `handle` and `inProgress` as the code does, for the next upload's
middleware to find.

*ControlLock.* Tokens are numbered as they are issued; an answer may be lost,
so that a session exists that nobody knows. `stored` and `cookie` are the two
places a page keeps a token in, and the page's own Log out only empties the
first. `era` numbers passwords. The clock may advance between any two requests.

*BootButton.* `Poll` is the sample, the gesture and what the task makes of it,
`Publish` the comparison and the callback further down; runs start and end,
and the portal's request loads and stores, between the two. `rhythm` and
`spent` are history. Ticks are polls; a tick may pass without one (`MaxGap`).
A build without a button, whose window is always open, is left out.

*Settings.* A request is the list of keys it has still to write, one step each,
and any of them may fail: a save of the hardware goes on, the others give up.
`told` is the configuration clients may rely on, `sure` which part of it was
written without a failure, `network` the network they were last told of. Of
the scalar keys one, the LED's pin, stands for all. `Erase` takes the handle of
a request that is writing with it. `Boot` latches what is stored and drives the
pins, `ExecutorInit` drives them again. Whether a request may change settings
at all, the window, the lock and the run, is not part of this module.

*WifiJoin.* `events` is the queue of the default event loop between the driver
and `on_event()`. `Connect` is `esp_wifi_connect()`: without effect while an
attempt is under way. `tries` and `heard` are history: what the driver reported
of this network before the device ever had an address.

*Boot.* `JoinStep` is whatever `WifiJoin` does, from power-on for as long as the
device is up; `RunSetupPortal`, `StartServing` and `MarksValid` are what
`app_main()` goes on with, in its order. A restart keeps the flash of
`OtaUpdate` and starts both modules again, with other networks if they were
changed.

*HttpServer.* A client object is its address. `held` is each handler's list of
pointers; a search of it compares sockets through them, so it may stop at, or
read, an object that was freed: `Found` has every index it can end with.
`closeCallback()` only tells the handlers of endpoints, so the handler of
`defaultEndpoint` keeps its pointers; the property is about the others, and
section 4 about that one.

*Multipart.* `Parse` is what the parser makes of a byte, `Feed` a turn of the
loop that receives, `Parsed` the parser after a body; the calls of the upload
callback are part of it, and each has to go on where the one before it stopped.
A header line counts as one byte.

*Rest.* `Route` is a pattern and a method in the order they are registered;
`Served` is what `_process()` finds, then the static files, then the page's
addresses. Each `...Checks` is the sequence of refusals in the order of the
handler, and `Accepted` that none applies; a body is one of the kinds that the
route tells apart, `works` whether the storage it needs works. Reading
operations change nothing, and are routed and guarded all the same.

*ProgramDocument, ProgramEditor.* A document is what the JSON says; `Parsed` is
what the device makes of it, `PageView` what the page does. The editor's state
is the reducer's, every operation of which is an action; undo does not exist in
it. `sent` is the save on its way, taken or not, and its answer may be lost.
`wanted` is history: the event each series' clock was last put on.

*RunPage.* `onDevice` is the run state, `frames` are on their way, `cached` is
what the stream last brought, and `page` what was drawn from it with the
component's own state: effects run when it is drawn, a press acts on what is
drawn, and a start reads the cache once more.

*PageCaches.* A version stands for what the device holds under a key. A fetch
answers with the version at the time it is served. `outrun` is history: a
notice whose fetch was absorbed by one under way.

*ProgramsPage, AudiosPage.* Reading and converting a file takes time, in which
the page goes on; what comes of it is for the row, or the choice, it was made
for.

*HardwareForm, WifiForm, RestartToApply.* `known` is the page's copy of what
the device stores, the form a set of fields over it. Others save and the window
opens and shuts at any time; the component is on screen only while the query
says that the window is open. `restart` is the device: up, scheduled, down.

*BrowserTabs.* `storage` is what the tabs share, `news` the storage events a
tab has not heard yet; `crossed` is history: a tab wrote before it had heard.

*StandaloneEditor.* Every repository has a file under every path, so that what
is opened can be told apart by repository and path; lists, titles and files
arrive in any order, also after the page moved on. `strays` is history: the
paths whose title came while no list was on the page.

*Mirrors.* `BothAgree` compares a computation and its mirror on every input.

## 3. Runs

| run | checks | shows |
| --- | --- | --- |
| `run_control` | `RunHasItsPlace`, `PublishedIsCurrent`, `RunKeepsItsTimes`, `OnlyEventsTurnTargets`, `ClipsStartWithTheirEvent`, `ChangesArePublished`, `KeepsPromise` | runs in every interleaving of calls, ticks, flushes, wakes and time; changes are published; the tasks implement `Exercise`, liveness included |
| `sse_hub` | `EveryNoticeInOrder`, `NothingAfterTheCut` | what two clients are sent, with lost messages, stalled peers and reused sockets |
| `sse_hub_live` | `HubGoesOn` (frames go out, closes end), `ClientsCatchUp` | accepted frames go out although drains and beats are lost or refused, clients that stay hold the current state, closes that were lost are retried |
| `program_library` (`MCPrograms`) | `AnswersHold`, `LoadedStays`, `DraftInOrder`, `SavesAreAsShown` | memory, flash and answers agree through power cuts, failed writes and firmware updates, and the executor's pointer is sound; or: the editor's draft keeps what its author chose, and the device keeps what the page showed |
| `audio_library` | `ClipsAreAsTold`, `NoClipSeenTorn`, `RunNotHeldUp`, `RunClipsStay`, `DeletesEnd` | listed clips can be played, answered uploads stay, an upload of which a chunk was seen to fail is refused, a run keeps its clips and is never blocked by a clip, and a delete that waits for the audio task ends |
| `rest` (`MCRest`) | `SessionsInOrder`, `SessionEndsForAReason`, `RequestsAreGuarded`, `RunsAreLeftAlone`, `SessionsAreWhole`, `UploadsArriveAsSent` | a request layer by layer: connections and their clients, the bytes of an upload, the table of sessions and its eviction, every operation with its guards |
| `boot` | `BootsIntact`, `UpdateHasTheDevice`, `AnswersAreTrue`, `FullBudgetEach`, `PortalStaysAlone`, `StaysReachable` | the device can boot whenever the power fails, no run is cut by an update, clients are told what happened; joining, giving up, coming back and the portal in every order of events; a device that stays on ends where it can be reached, unless it waits for a lease that never comes |
| `boot_button` | `PressesAreMeant` (a hold means one thing, the rhythm opens the window), `OnePressOneSubmission`, `PagesSeeTheWindow` | late polls, bounces, stuck pins and presses in the middle of anything |
| `pages` (`MCPages`) | `SettingsAreAsTold`, `PagesAgree`, `FormsAreAsShown`, `BothAgree`, `RequestsAreMeant` | the settings of the device from request to boot, with three tasks writing and the power failing anywhere; every page that sends something, against a device that others change and a stream that is lost |
| `failed_write` | `FailedWriteKeepsPrevious` is violated | an incomplete write can replace a program (finding) |
| `targets_rest_as_stored` | `TargetsRestAsStored` is violated | a boot ends with the targets where they were compiled to rest, not where they were told to (finding) |
| `start_is_offered` | `StartIsOffered` is violated | a pick that another browser undid stays open and keeps Start back (finding) |

The properties of `pages` are conjunctions by what they are about, of one
property for each part: `RequestsAreMeant` of what is sent (`StartsAreMeant`,
`WritesAreMeant`, `SavesAreTheAuthors`), `PagesAgree` of
what is shown once all is quiet (`PageAgrees`, `PageKeepsUp`, `RestartingIsTrue`, `TabsAgree`),
`FormsAreAsShown` of what is saved or opened (`NetworkIsAsShown`,
`ClipIsTheLastChoice`, `OpenedAsAsked`) or listed to be opened
(`TitlesAreOfTheList`), `BothAgree` of what is computed twice (`MirrorsAgree`), `SettingsAreAsTold` of `HardwareIsAsTold`
and `NetworkIsAsTold`. Each conjunct has a mutant of its own.

The type invariants, `TypeOK` and its like, are no properties of a run; where a
proof module exists they are theorems.

### Bounds

`run_control`: two banks of which programs may name three, so that one program
cannot start; a second of 3 ticks, sleeps of at most 2, an idle sleep of 4 and
a lateness of 1, so that events of 1 to 5 ticks end before, on and after whole
seconds, shorter and longer than the longest sleep, and a start can find the
run loop in the middle of an idle sleep that would pass the first event. The
programs have a preamble, split banks, clips, an event no longer than the
lateness, no series at all, and a series with no events. Larger numbers repeat
these orders. The clock needs no bound of its own: a run that is not ticked
exhausts the lateness.

`sse_hub`: two sockets, a mailbox of two messages and an outbox of one notice,
so that both overflow; two connections and two notices. `sse_hub_live` has one
socket that is used twice, a change of the run state, one notice, one refused
post and a mailbox of a single message, so that drains, beats and closes push
each other out. A waiting beat is repeated after 2 instead of 6.

`program_library`, the library: one shipped id, two for uploads, two documents, and two
images, of which one ships a program under an upload's id; one lost write and
one skipped file. Two uploads suffice for an id to be freed, reused and passed
over; power cuts need no bound. `audio_library`: two ids, two uploads, two
faults and one power cut, so that an id is reused after a delete that failed
half-way; programs play one clip or both.

The editor: a session of four edits and saves, on a new program or on one of
two (one with a preamble, one that is untidy), with at most two
series, three events of a series, two banks, durations that the page takes and
ones it does not (zero, not a number), four texts in the JSON view, and one
lost answer. Two edits make a series or an event, the third moves or copies it,
the fourth saves.

`rest`: two browsers, a table of two sessions, four sessions in all and a life
of two ticks, so that a session is evicted, expires in the table, or is left
behind. Two sockets and three addresses, so that a freed address and a reused
socket need not meet; the list of the handler for misses is at most two long;
a body of one byte fits and one of two does not. A multipart body has one part
of up to five bytes or two of up to two, over CR, LF, a dash and two letters,
with the boundary "-b" and buffers of three bytes: every prefix of a delimiter,
each repeated or broken off, across the end of a buffer. `EveryBodyArrives` has
none of these bounds. Routes: one shipped
and one uploaded program and clip, two clients, and every operation with every
body that its route tells apart, and paths that are nobody's.

`boot`: up to three networks and budgets of 3 and 9, so that each can be the
first, a middle one and the last; the backoff reaches its cap. Slots, images,
sessions and restarts are finite, and nothing bounds their number.

`boot_button`: a press is at least 2 ticks, a hold arms at 4 and
resets at 5, two presses (three in the code) within 4 ticks open the window for
9, polls come up to 1 tick late, 20 ticks in all: enough for two rhythms, a
rhythm that is missed, and a window that lapses or is opened again.

`pages`, each part by itself. Settings: three pins, at most two banks, one
compiled-in network and one other, three requests, commands or resets; their
failures, the restarts and the power cuts are not bounded. Run page: two
programs, one start and one other request on their way, and one frame, so that
a frame is coalesced with the next. Caches: one key in use at a time and two
changes, which is one more than a fetch can absorb. Programs: three rows, one
of them shipped, two files being read and two requests. Clips: three choices.
Hardware: one pin for the banks, two ports, two rows, one save. WiFi: two names
and two passwords. Tabs: two of them, two tokens. Editor without a device: two
repositories of two files, two files being read. Mirrors: names of up to three
characters, runs of up to two events on two banks.

### Fairness

The clock advances and every ready task runs (weak fairness of each task's
steps); no client is assumed to call, so the liveness properties hold for calls
in any number, also none. In `SseHub` the httpd task, the timer and posts that
were begun are weakly fair, and a changed state is flushed, which `RunControl`
shows. A post is refused with an error only finitely often (`MaxRefusals`):
with refusals for ever, beats could fail whenever they matter. Losing messages
in a full mailbox is not bounded. In `AudioLibrary` only the audio task and a
delete that was begun are weakly fair: a delete has no place in line for the
I2S lock, and ends because no run and no client can ask for another clip
meanwhile. In `BootButton` only the task is fair, which waits for nothing but
its delay. In `WifiJoin` and `Boot` the main task, the event task and the timer are fair,
and the driver ends each attempt it started. Nothing is assumed of a link, which
may stay without an address for ever, nor of networks, except in `ComesBack`,
whose premise is a network that is there: tried again and again, it lets the
device associate and have an address. `BootEnds` is about devices that in the
end are left on (`StaysOn`), and names the one place where they may wait for ever
(`WaitsForALease`). The pages are checked for safety, and for what they show
once nothing is on its way: nobody presses anything by fairness.

## 4. Findings

1. `FailedWriteKeepsPrevious`: `write_program()` ignores the result of
   `fclose()`, so an incomplete file may be renamed over the previous document.
2. `TargetsRestAsStored`: `targets::init()` drives the pins to where
   boot-targets was told they rest, and `executor::init(kTargetsShownAtBoot)`
   then drives them to the value the image was compiled with. The promise is
   made at `console.cpp:201` and `app_main.cpp:89-91`.
3. `StartIsOffered`: the run page closes a pick when the stream reports it, or
   anything but what the device held at the pick. When another browser puts
   that back before the page is drawn, the pick stays open with a program
   loaded, and Start and Reset are kept back until somebody loads again
   (`routes/run.tsx:190-194`, `306-316`).

Read in the code while modelling, and not a property of any run:

*Runs and the stream*

- `stop()` leaves `ticker_ms` at the last published position, so a resume loses
  up to a second, where the comment at `executor.cpp:112-114` promises an exact
  one; `docs/api-v2.md:292-296` describes the published position.
- The frame sent on connect bypasses the outbox (`sse_hub.cpp:213`), so a page
  that connects between a change and its flush may see the newer state and then
  the older one, which `docs/ARCHITECTURE.md:69` rules out. The next flush
  repairs it: `ClientsCatchUp` holds.
- `beat_ran()` cannot tell a repeated beat from a new one requested meanwhile.
  When a repeated beat and the first both run with a new request between them,
  `overdue()` may ask for a second close while the first is pending, which the
  comment at `lib/rt_logic/sse_clients.h:66-68` rules out.
- A restart that was asked for over HTTP or at the portal cuts a run that
  starts within its 1.5 s: a start only asks `ota::in_progress()`
  (`restart.cpp:17`, `docs/DECISIONS.md:1790-1791`).

*Libraries and bodies*

- `play_one()` opens its file (`audio.cpp:160`) before it says that it plays;
  a delete in between unlinks an open file, which `audio.h:24-26` warns of.
- `is_playing()` waits for the clip to end and then answers false
  (`audio.cpp:225`), so the refusal of `docs/api-v2.md:531` is never sent; the
  delete and all of httpd wait instead.
- A connection closed in the middle of a body makes `httpd_req_recv()` return 0.
  `MultipartProcessor::process()` retries on a timeout and stops on a failure,
  and 0 is neither: httpd reads nothing for ever (`BodyEnds` and `ReadsNothing`
  in `AudioLibrary`).
- A chunk of a clip that `fwrite()` took and `fclose()` lost counts as written
  (`web_server.cpp:1040-1041`), and the comment that follows, "Never leave the
  partial behind" (1045), holds of what `fwrite()` reports alone. If the header
  is there, such a clip is accepted: the probe takes a data chunk that is longer
  than the file for the length of the file (`wav_header.cpp:87-91`).
  `ChunkIsLost` in `AudioLibrary`; `NoClipSeenTorn` excepts it (`unseen`).
- The session key that marks a finished body is emptied, not removed, and
  `hasSessionKey()` only asks whether it exists, so a request without a file
  passes for an upload on a connection used before (`doneKey`); the probe of the
  missing staging file then refuses it with another problem.
- `next_free_id()` looks at ids in memory, and a file that the boot scan
  skipped has one too: an upload that gets its id replaces it
  (`programs.cpp:170`).
- `next_free_id()` hands out the id of a deleted program again, so a start that
  was decided for the deleted one passes the check by id.
- `docs/api-v2.md:460` says that uploaded ids start at 100 where `config.h:102`
  says 1000, and `config.h:98` that a shipped resource is shadowed by an upload
  where the boot scan keeps the shipped one.
- The mark that a body arrived is kept per connection, not per request
  (`web_server.cpp:1076`); see the session key above.
- POST of a program is not idempotent: a page that tries again after a lost
  answer makes a second one. Two authors of one program: the last save wins.

*HTTP library*

- `closeCallback()` tells only the handlers of `_endpoints`
  (`PsychicHttpServer.cpp:604`), so `defaultEndpoint`'s keeps the pointers of
  clients that were freed, and reads them at the next miss (`misused`).
- `loadBody()` reports success after a failed receive
  (`PsychicRequest.cpp:251`, `263`), and the body ends at its first NUL, where
  `web_server.cpp:423-425` relies on the announced length. A peer that closes
  gives it 0 bytes for ever, as in the multipart loop.
- Multipart: a part with a content type and no filename is taken for a file,
  under the name of the one before; an error of the callback and a
  `PARSE_ERROR` are ignored, and `onRequest` runs; an empty file calls nobody.
- The comment at `web_server.cpp:445` describes an order that the code no
  longer has.
- `contracts/openapi.yaml:49-50` says that the answers of an operation are all
  listed: resetting the hardware answers 403 and 409 unlisted (1126-1153,
  `web_server.cpp:1310-1321`), a start answers `program_running` during an
  update (291-294). 713-717 says that nothing loaded outranks the check of the
  id, and a start checks the id of the body first (`web_server.cpp:296-300`).

*Settings and networks*

- `hardware_store::save()` answers success when `nvs_open()` fails (226-229) and
  ignores every key that fails; `POST /config/hardware/reset` ignores the result
  of `reset()` (`web_server.cpp:1324`). `sure` in `Settings` is what is left to
  rely on.
- A PUT that the power interrupts can leave a set of pins that `validate()`
  refuses, and the boot then takes every default, the resting place of the
  targets included. The reset of the hardware also erases that place, which a
  PUT may not change (`web_server.cpp:1217-1221`).
- A PUT that races a factory reset is answered, and lost.
- `wifi_store::save()` erases the mark of a factory reset first (95): a save
  that fails after it brings the compiled-in networks back.
- `restartRequired` compares with `same_config()` (`web_server.cpp:1165-1171`),
  which leaves out the LED, the I2S pins, the port and the retries.
- An image that is pending and boots into the portal is rolled back by the
  restart that saving credentials causes, since only `app_main()`'s serving
  branch marks it valid.
- `init_nvs()` erases a partition that has no free pages, and its comment
  (`app_main.cpp:35-36`) says that only calibration data lives there, where the
  configuration and the credentials do as well.
- A network that associates and never gives an address keeps `connect()`
  waiting for ever (`wifi_mgr.cpp:262-263`), and the portal away: the exception
  of `BootEnds`. `s_ip` is
  never cleared, so `ip_address()` answers with the last address after the link
  is lost. The result of `esp_wifi_connect()` is ignored in the handlers.

*Lock and button*

- The page's Log out forgets the stored token and not the cookie, and the
  browser goes on sending the cookie (`client.ts:169`): a page that shows
  itself as view-only can still change things. `PageLogout` is the action.
- A press that lands between the load and the store of `consume_press()` is
  wiped with the one consumed; it authorises nothing, and
  `OnePressOneSubmission` holds.
- A window that opens and shuts, or a run that starts and ends, between two
  publications is not published.

*Web page*

- What is typed while a save is on its way is replaced by the answer
  (`ProgramEditor.tsx:264`, `459-468`); the stepper of the banks does the same to
  text in the JSON view that was not applied. A clock that starts at the first
  event is not carried by a duplicate or a save, which cannot be told from none.
- `useSSE.ts:67` says that the device sends nothing on connect; `sse_hub.cpp:209`
  sends the state. A refetch of the window is absorbed by the first fetch (121-127),
  and the answer of an older fetch may overwrite a newer `configWindow` event;
  what was fetched before the stream first opened is not fetched again.
- Clips: the form's reset after an upload drops a file chosen meanwhile; a
  second delete of a row says that it could not be deleted.
- Hardware: banks are sent whole, so the rows another browser changed are put
  back. An emptied number becomes 0, and one that is no number becomes JSON's
  null, which the device takes for "unchanged" while the page says saved; the
  rows of banks guard against it (336-343).
- WiFi: after a save the name stays and the password is empty, so that a second
  Save stores an empty password. The fields can be edited under the question,
  which can then be sent without a name (and is refused); a network that is
  gone from a scan stays picked.
- Restart: the question stays open while the button is not offered, and comes
  back with it; the firmware section's `restarting` never ends by itself.
- A late 401 of an old token logs out the session that replaced it
  (`client.ts:178`). Two tabs that change the token at once stay apart (`crossed`).
  The section says that nobody else can change anything while several sessions
  may be held.
- Editor without a device: titles of the previous repository that come while
  the next list is on its way stay in the new list under the same path until the
  file's own title comes, since `browse()` gives up nothing
  (`StandaloneEditorApp.tsx:162-176`), against the comment at 135-137:
  `TitlesAreOfTheList` excepts these `strays`. A file that arrives while the
  id is asked for replaces the document and keeps the first one's id
  (`ConfirmOpen` has no key); the line about the origin names what the fields
  say, not what was browsed; and a late file reopens the question after Back.
- `locateEvent()` of `lib/run-position.ts` is used by nothing but its tests.

## 5. Proofs

The theorems hold for every value of the constants that satisfies the named
`ASSUME`s beside them: every set of programs, number of banks, lateness, sleep
and clock, every number of clients, ids and boots. They are in eight modules;
each extends the modules whose behaviours it is about.

`RunControl_proofs`. First the arithmetic: `EndsAt` exists and grows (an
induction over sets of indices, `UpTo`, since the induction theorems that take
an operator cannot be used), and `Located`: every time before the end lies in
the one event that `EventAt` finds. Then the executor: `ExecutorInv` is the type
invariant with `RunStateOK` and `ResumesInItsEvent` (together `RunHasItsPlace`).
A run can only resume in its event because its series is one of the program's,
and every operation that changes the series clears the ticker. Then the loop: neither
`EventHeldOnTime` nor `TickerFresh` (together `RunKeepsItsTimes`) is inductive,
because what a run exceeds later was decided when the loop went to sleep. The
strengthening `Deadlines` counts the sleep still to come: while a run is under
way, `elapsed` plus the remaining sleep passes neither the end of the event nor
the next whole second by more than the lateness already used; the remaining
sleep counts as nothing when a wake is pending. That is why `start()` must wake
the loop also when its broadcast was already consumed. `RunInvariant` adds the
types, the executor's invariant and `PublishedIsCurrent`; from it follow
`TypeCorrect`, `RunStateCoherent`, `PauseResumes`, `RunsHaveTheirPlace`,
`NoStaleFrame`, `EventsEndOnTime`, `TickerIsFresh`, `RunsKeepTheirTimes`, and
the action properties `NoEventIsLost`, `TargetsStayPut` and
`ClipsStartWithTheirEvent`. `RunsAsPromised` is the safety half of `KeepsPromise`:
each step of the device is a step of `Exercise` or a stutter. It needs
`EmptyAtItsStart`, that a run whose series has no events stands at its start.

`SseHub_proofs`. `SocketInv` says that only a socket held by a connection is
closing or has a peer; `CutStreamsAreSilent` follows step by step. For
`EveryNoticeInOrder`, what waits in the mailbox, what is being sent and what each
client has seen are consecutive stretches of one count, so that nothing is
missing between them; the filter over outboxes is a recursive function, `Picked`,
with a lemma for its unfolding.

`Programs_proofs`, the library. `ToldIsKept` and `ListedIsTold` (with `ShippedIsServed`,
`AnswersHold`) are not inductive,
because in the middle of a call files, memory and answers differ. `LibraryInv`
says how far the call has got: before the rename or the unlink the file of its
id is still what was answered, after it what the call will answer, and all
other ids are untouched. It also holds that a call works on an id no shipped
program has, which is why a firmware update cannot meet a half-done one.

`Programs_proofs`, the editor. `EditorInv` has two parts. `DraftOK` says of the
draft that every key in it was given once, before `nextKey` (`KeysOK`), that no
event names a bank past the count, that the anchor of every series is the one
its author asked for, under a key that was given (`ClocksOK`), and that what is
ticked is seen. Every operation of the reducer is one of a few changes, each
with a lemma that says what it must respect: one series (`SeriesChanged`), the
events of one (`EventsChanged`), the list of series (`ListChanged`, by the place each
one comes from), all events at once (`AllChanged`), a document that is read
(`ReplaceKeeps`). `SavesOK` says that whatever is asked about or on its way is `Sendable`: the
device accepts it, its durations and clips are in range, and it has no issues,
or no more than what the session was opened on; that what is stored is besides
written as the device writes it; and that the baseline is what is stored unless
an answer is missing. It needs three facts about the readers and writers: the
device stores such a document as it is sent but for a start of 0
(`StoredIs`), reading a document as a draft and writing it drops the same start and
nothing else (`ReadAndWritten`), and what the page read it can show (`PageViewIs`). The
keys of a draft that is read and the filters of lists are recursive functions,
unfolded by `StepByStep` and followed with `UpTo`, an induction over a set. From
`EditorCorrect` follow `DraftAlwaysInOrder` and `SavesAlwaysAsShown`. Assumed is, of the
constants, that the shortest event is no longer than the longest, that there is
a bank, and that a session is opened on what a device would answer
(`DocumentAssumption`, `EditorAssumption`); the bounds on edits, series and events
are not used.

`AudioLibrary_proofs`. The invariant has a part about bodies (what is staged is
of the upload at work, and has its start only if no chunk was seen to fail), one about
the library (the id an upload takes is neither listed nor, unless damaged, in
the index or known to clients, which is what makes rolling it back safe), and
one about deletes. `TypeCorrect` is the one fact about all of the state: a
playlist is filtered by a recursive function, `PathsFor`, which has a value by
`FoldExists` and is followed with `UpTo`.

`Boot_proofs`. About the device from boot to boot: its steps are those of the
update and of the network side by side. `UpdateOK` says for
each place of httpd in an upload what the session, the handle and the slots
are (`RequestOK`), that otadata names the other slot exactly once an image was
installed (`SlotsOK`), and that an install is followed by its restart or a
session that says so (`RestartOK`); `BootsAreIntact` follows. `JoinOK` names the stages of
joining a network (`Begins`, `GoesOn`, `AboutToGo`, `NotStarted`, `Attempting`,
`Denied`, `Exhausted`, `Addressed`, `Waits`, `InPortal`, `Joined`) and what is pending in
each, the timer and the events on their way: an attempt that is counted again,
or a portal that is left, would be a stage that is none of these. `AlwaysFullBudgetEach`
and `PortalAlwaysStaysAlone` follow; `BootImplementsUpdate` says that the device as a
whole implements the specification of its updates, so that what holds of one holds of
the other.

`BootButton_proofs`. `ButtonOK` relates the finger, what the task read last and the gesture
that is recognised: how long the button has been down or up, in ticks, is
bounded on both sides by what the gesture counted, by at most the longest gap
between two polls. From it `OnePressAlwaysOneSubmission`, `HoldsMeanOneThing`,
`PressesAreAlwaysMeant` and `RhythmAlwaysOpensTheWindow`, for every length of the
debounce and the holds. The proof corrected `HoldMeansOneThing`, which was false for
durations other than those of its run: a release that is noticed late may leave a hold of exactly
`Debounce - MaxGap`.

`Rest_proofs`. Three layers of a request, and the body of one. The lock:
`LockOK` is the type invariant with `SessionsInOrder` and that no token is
younger than the clock. A session that disappears before its time was the head
of a full table; because the table is in order of issue, all the others are
newer, and not older than it: they are live if it was. The connections:
`HttpOK` says that the server's list of clients, the lists its handlers keep
and the sessions of the sockets name the same objects except in the middle of
the call that is moving one; `SessionsAlwaysWhole` follows although addresses
are freed and used again.

The routes: `RequestsAlwaysGuarded` is about the whole table, `RunsAlwaysLeftAlone`
the action property beside it. A path is told apart by the number of its
segments and the first of them, so each pattern has one way to be matched
(`Matches...`), each operation one row (`GetRow` to `DeleteRow`), and no row
registered before it fits. What no row serves is looked up as a file, as a
page's address, and refused (`MissesSaySo`); a path with an id that is none is
refused because `RestOK` says that no stored program is called `NoId`.

The bodies: `EveryBodyArrives` is about any list of fields and files, not the
ones of the run. While contents are read, what the parser holds back is a
prefix of the delimiter and the tail of what was read (`Holding`), what is
written is the rest (`Within`), and since the delimiter does not occur in the
contents the two cannot be mistaken; a Cr that breaks a delimiter off may begin
the next, which is the case that the code parses again. `Between` says what was
told after any number of whole parts, `PartRead` that one more part keeps it,
and `PartsRead` goes over the list. The recursive functions of the model have
their values by `FoldExists`.

`Pages_proofs`. One invariant to each part of `MCPages`; `OnePartMoves` reduces a
step of the whole to a step of one part. For the settings,
`SavesGoOn`: what a clean request planned is written, or still in its list, in
order; and what was answered is what is stored (`StoredAsTold`, `JoinAsTold`), which
gives `SettingsAlwaysAsTold` also over a boot in the middle. For the pages, each invariant adds what the
answers on their way may still say to what the page shows: of a run, of the caches, of the dialogs
and their requests, of forms over a copy that others change, of two tabs.
`PagesAlwaysAgree`, `FormsAlwaysAsShown` and `RequestsAlwaysMeant` follow.
Writing them showed two things the model had left to its instances: ports are
positive (`HardwareAssumption`), and there are eight keys for ports, `gpio0` to
`gpio7`, so that no two banks share one (`SettingsAssumption`).
`BothAlwaysAgree` has no state: what the masks of the device show after an event
is, bank by bank, what the page computes, by induction over the events; and what
is left of a name when spaces are counted off its ends is what the page cuts out
between the first and the last character that is none (`TrimsAgree`). Neither
depends on how many letters, events or characters there are.

Every safety property of a passing run is stated by a theorem. Only
model-checked, because this prover has no means for fairness, are the liveness
properties: `ChangesArePublished`, the fairness in `KeepsPromise`, `HubGoesOn`,
`ClientsCatchUp`, `DeletesEnd`, `StaysReachable` and `PagesSeeTheWindow`.

## 6. Plan

Done: the executor, its run loop and their abstract promise; the stream; the
two libraries; updates, the control lock, the button, the settings and the
network, composed from boot to boot; the HTTP library and the routes; the editor
and the pages; theorems about each of these. What would come next, in this order:

1. An abstract store, a map from ids to documents that survives restarts, which
   both libraries are shown to implement.
2. The int32 sum of durations, which an assumption on the programs now keeps
   from overflowing.
3. The pages composed with `SseHub` and the routes instead of with a device of
   their own.
4. The timeline, the page of the firmware upload, exporting.

## 7. Not modelled

- `lib/arduinojson`: vendored, a step of the handlers that use it. Of
  `lib/psychic_http`, WebSockets, static files, headers, cookies and the async
  workers: the firmware does not use them, or what they do is formatting.
- `storage/`, the embedded file system, `diagnostics/`, the LED, the console's
  reports: they mount, read, print or show, and keep no state anything depends
  on.
- ZIP, WAV, ADPCM, version and JSON codecs: pure functions on bytes, for which
  the repository has host tests; TLC could only enumerate toy inputs.
- Parsing of requests beyond what their routes tell apart: one that does not
  parse changes nothing. What `parse_program()` accepts is `ProgramsAssumption`
  in `Executor` and `DeviceAccepts` in `ProgramDocument`.
- The captive portal's page and DNS, WiFi scans, mDNS, the emulator's Ethernet,
  a build without a BOOT button.
- Of the web page: the timeline, the page of the firmware upload, exporting,
  converting clips, and everything that only renders.

The largest part of the lines without a model is vendored, generated, a test
server, formatting or rendering.
