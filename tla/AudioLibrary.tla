---------------------------- MODULE AudioLibrary ----------------------------
(***************************************************************************)
(* The uploaded clips: their entries in memory, their index and WAV files  *)
(* on flash (main/repositories/audios.cpp), the task that plays them       *)
(* (main/io/audio.cpp), the requests that upload, play and delete them     *)
(* (main/net/web_server.cpp) and the run that needs them.                  *)
(*                                                                         *)
(* A WAV file is represented by the number of the upload it came with, and *)
(* 0 is no file.  Shipped clips only add paths that nobody can delete, and *)
(* are left out.                                                           *)
(***************************************************************************)
EXTENDS Naturals, Sequences, Functions

CONSTANTS FirstUploadId,  \* kFirstUploadId
          LastId,         \* bound: the highest id there is room for
          ClipLists,      \* bound: what the programs' events may play
          MaxUploads,     \* bound: uploads that bring a file
          MaxFaults,      \* bound: writes and removals that fail
          MaxPowerCuts    \* bound: power cuts and restarts

UploadIds == FirstUploadId .. LastId
Uploads   == 1 .. MaxUploads

ASSUME AudioAssumption ==
  /\ FirstUploadId \in Nat \ {0} /\ LastId \in Nat
  /\ ClipLists \subseteq Seq(UploadIds)
  /\ MaxUploads \in Nat /\ MaxFaults \in Nat /\ MaxPowerCuts \in Nat

VARIABLES up,
          audios,    \* s_audios: the ids that are listed
          index,     \* /userdata/audio/audios.json: the ids it names
          wav,       \* /userdata/audio/<id>.wav: the upload it is of, or 0
          staged,    \* the staging file: of which upload, or 0, and whether it
                     \* begins where the upload does
          uploads,   \* the uploads so far
          call,      \* what the httpd task is doing
          doneKey,   \* the connection's session has the key "upload_done"
          uses,      \* the clips the loaded program plays; none if not loaded
          running,
          queue,     \* s_queue: the playlist that waits
          rest,      \* what the audio task still has to play of its playlist
          reading,   \* the clip whose file the audio task has open, or 0
          stage,     \* where play_one() is
          told,      \* per id: the upload that clients were told it is, or 0
          torn,      \* uploads of which bytes did not reach the file
          unseen,    \* those of them of which the callback saw no chunk fail
          damaged,   \* ids of which index and memory may differ
          faults, cuts

library == <<audios, index, wav, staged>>
sender  == <<uploads, doneKey, torn, unseen>>
run     == <<uses, running>>
sound   == <<queue, rest, reading, stage>>
answers == <<told, damaged>>
counts  == <<faults, cuts>>
vars    == <<up, library, sender, call, run, sound, answers, counts>>

Idle     == [at |-> "idle", id |-> 0, of |-> 0, heard |-> FALSE]
NoStaged == [of |-> 0, start |-> FALSE]

(* httpd is up and between requests.                                       *)
Ready == up /\ call = Idle

(* play_one() holds s_i2s_lock while it plays.                             *)
I2sLocked == stage = "playing"

(* s_playing: empty whenever the lock is free.                             *)
Playing == IF I2sLocked THEN reading ELSE 0

(* add_uploaded() and remove() hold the lock of the map from here to there.*)
MapLocked == call.at \in {"rename", "index", "ask", "unlink", "reindex"}

Init ==
  /\ up = TRUE /\ audios = {} /\ index = {}
  /\ wav = [id \in UploadIds |-> 0]
  /\ staged = NoStaged /\ uploads = 0
  /\ call = Idle /\ doneKey = FALSE
  /\ uses = <<>> /\ running = FALSE
  /\ queue = <<>> /\ rest = <<>> /\ reading = 0 /\ stage = "idle"
  /\ told = [id \in UploadIds |-> 0]
  /\ torn = {} /\ unseen = {} /\ damaged = {} /\ faults = 0 /\ cuts = 0

Fault == faults < MaxFaults /\ faults' = faults + 1 /\ UNCHANGED cuts

-----------------------------------------------------------------------------
(* Power *)

(* A delete that was cut off after the file and before the index leaves an *)
(* entry without a file.                                                   *)
PowerCut ==
  /\ up /\ cuts < MaxPowerCuts
  /\ cuts' = cuts + 1
  /\ up' = FALSE
  /\ damaged' = IF call.at = "reindex" THEN damaged \cup {call.id} ELSE damaged
  /\ audios' = {} /\ call' = Idle /\ doneKey' = FALSE
  /\ uses' = <<>> /\ running' = FALSE
  /\ queue' = <<>> /\ rest' = <<>> /\ reading' = 0 /\ stage' = "idle"
  /\ UNCHANGED <<index, wav, staged, uploads, torn, unseen, told, faults>>

(* load_all(), and register_audio_routes() discards what is still staged.  *)
Boot ==
  /\ ~ up
  /\ up' = TRUE /\ audios' = index /\ staged' = NoStaged
  /\ UNCHANGED <<index, wav, sender, call, run, sound, answers, counts>>

-----------------------------------------------------------------------------
(* POST /audios *)

(* What an upload does before add_uploaded() has the library untouched.    *)
KeepsLibrary == UNCHANGED <<up, audios, index, wav, run, sound, answers>>

(* The middleware, for a request on the same connection or another one.    *)
UploadBegins ==
  /\ Ready
  /\ audios # UploadIds
  /\ staged' = NoStaged
  /\ call' = [Idle EXCEPT !.at = "body"]
  /\ doneKey' \in {doneKey, FALSE}
  /\ KeepsLibrary /\ UNCHANGED <<uploads, torn, unseen, counts>>

(* The upload whose chunk arrives: the first chunk starts one.             *)
Sender == IF call.of = 0 THEN uploads + 1 ELSE call.of
ChunkArrives ==
  /\ up /\ call.at = "body"
  /\ Sender \in Uploads
  /\ uploads' = IF call.of = 0 THEN Sender ELSE uploads

(* The upload callback appends a chunk; after a chunk that was lost, what  *)
(* follows starts the file anew.  The last chunk marks the session.        *)
ChunkIsWritten ==
  /\ ChunkArrives
  /\ staged' = IF call.of # 0 /\ staged = NoStaged
               THEN [of |-> Sender, start |-> FALSE]
               ELSE [of |-> Sender, start |-> call.of = 0 \/ staged.start]
  /\ \/ call' = [call EXCEPT !.of = Sender] /\ UNCHANGED doneKey
     \/ call' = [call EXCEPT !.of = Sender, !.at = "answer"] /\ doneKey' = TRUE
  /\ KeepsLibrary /\ UNCHANGED <<torn, unseen, counts>>

(* fwrite() took it all into its buffer and fclose() lost bytes of it,     *)
(* which nobody asks: the chunk counts as written.                         *)
ChunkIsLost ==
  /\ ChunkArrives /\ Fault
  /\ \E start \in BOOLEAN :
       /\ call.of # 0 => start = staged.start
       /\ staged' = [of |-> Sender, start |-> start]
  /\ torn' = torn \cup {Sender}
  /\ unseen' = unseen \cup ({Sender} \ torn)
  /\ \/ call' = [call EXCEPT !.of = Sender] /\ UNCHANGED doneKey
     \/ call' = [call EXCEPT !.of = Sender, !.at = "answer"] /\ doneKey' = TRUE
  /\ KeepsLibrary

(* Slip: the part that was written stays.                                  *)
ChunkFailsHalfway ==
  /\ ChunkArrives /\ Fault
  /\ staged' = [of |-> Sender, start |-> call.of = 0 \/ staged.start]
  /\ torn' = torn \cup {Sender} /\ unseen' = unseen \ {Sender}
  /\ \E at \in {"body", "answer"} :
       call' = [call EXCEPT !.of = Sender, !.at = at]
  /\ KeepsLibrary /\ UNCHANGED doneKey

(* A chunk that cannot be written, or is past the limit, takes the staging *)
(* file with it.  The multipart parser goes on all the same.               *)
ChunkFails ==
  /\ ChunkArrives /\ Fault
  /\ staged' = NoStaged
  /\ torn' = torn \cup {Sender} /\ unseen' = unseen \ {Sender}
  /\ \E at \in {"body", "answer"} :
       call' = [call EXCEPT !.of = Sender, !.at = at]
  /\ KeepsLibrary /\ UNCHANGED doneKey

(* A body without a file, or with one that is not named .wav.              *)
NoFile ==
  /\ up /\ call.at = "body" /\ call.of = 0
  /\ call' = [call EXCEPT !.at = "answer"]
  /\ KeepsLibrary /\ UNCHANGED <<staged, sender, counts>>

(* The connection fails in the middle of the body: onRequest is skipped,   *)
(* and what was staged stays for the next upload to discard.               *)
BodyDies ==
  /\ up /\ call.at = "body"
  /\ call' = Idle /\ doneKey' = FALSE
  /\ KeepsLibrary /\ UNCHANGED <<staged, uploads, torn, unseen, counts>>

(* The client closes the connection instead: httpd_req_recv() returns 0,   *)
(* which is neither a timeout nor a failure to MultipartProcessor::process.*)
BodyEnds ==
  /\ up /\ call.at = "body"
  /\ call' = [call EXCEPT !.at = "gone"]
  /\ KeepsLibrary /\ UNCHANGED <<staged, sender, counts>>

ReadsNothing == up /\ call.at = "gone" /\ UNCHANGED vars

(* onRequest: the key is emptied, which still leaves it in the session.    *)
UploadAnswers ==
  /\ up /\ call.at = "answer"
  /\ doneKey' = TRUE
  /\ \/ doneKey /\ call' = [call EXCEPT !.at = "probe"] /\ UNCHANGED staged
     \/ call' = Idle /\ staged' = NoStaged
  /\ KeepsLibrary /\ UNCHANGED <<uploads, torn, unseen, counts>>

(* probe_wav() reads the header, which only the first chunk has.           *)
UploadIsProbed ==
  /\ up /\ call.at = "probe"
  /\ IF staged.start
     THEN call' = [call EXCEPT !.at = "rename"] /\ UNCHANGED staged
     ELSE call' = Idle /\ staged' = NoStaged
  /\ KeepsLibrary /\ UNCHANGED <<sender, counts>>

(* next_free_id().                                                         *)
NextFreeId(id) == id \notin audios /\ FirstUploadId .. id - 1 \subseteq audios

(* add_uploaded(): the staging file becomes <id>.wav and is listed.        *)
UploadIsMoved ==
  /\ up /\ call.at = "rename"
  /\ \E id \in UploadIds :
       /\ NextFreeId(id)
       /\ wav' = [wav EXCEPT ![id] = staged.of]
       /\ audios' = audios \cup {id}
       /\ call' = [call EXCEPT !.at = "index", !.id = id]
  /\ staged' = NoStaged
  /\ UNCHANGED <<up, index, sender, run, sound, answers, counts>>

MoveFails ==
  /\ up /\ call.at = "rename" /\ Fault
  /\ call' = Idle /\ staged' = NoStaged
  /\ KeepsLibrary /\ UNCHANGED sender

(* Slip: the index is written before the entry is made.                    *)
UploadIndexedFirst ==
  /\ up /\ call.at = "index"
  /\ index' = audios \ {call.id}
  /\ told' = [told EXCEPT ![call.id] = wav[call.id]]
  /\ damaged' = damaged \ {call.id}
  /\ call' = Idle
  /\ UNCHANGED <<up, audios, wav, staged, sender, run, sound, counts>>

(* write_upload_index().  The client is told, or would be if its connection*)
(* and the power last.                                                     *)
UploadIsIndexed ==
  /\ up /\ call.at = "index"
  /\ index' = audios
  /\ told' = [told EXCEPT ![call.id] = wav[call.id]]
  /\ damaged' = damaged \ {call.id}
  /\ call' = Idle
  /\ UNCHANGED <<up, audios, wav, staged, sender, run, sound, counts>>

(* fwrite() took it all into its buffer and fclose() lost it, which nobody *)
(* asks: the index stays as it was.                                        *)
UploadIndexIsLost ==
  /\ up /\ call.at = "index" /\ Fault
  /\ told' = [told EXCEPT ![call.id] = wav[call.id]]
  /\ damaged' = damaged \cup {call.id}
  /\ call' = Idle
  /\ UNCHANGED <<up, library, sender, run, sound>>

(* Slip: only the file is taken back.                                      *)
UploadKeepsEntry ==
  /\ up /\ call.at = "index" /\ Fault
  /\ wav' = [wav EXCEPT ![call.id] = 0]
  /\ call' = Idle
  /\ UNCHANGED <<up, audios, index, staged, sender, run, sound, answers>>

(* The failure is noticed and the upload is taken back, though the WAV may *)
(* stay behind.                                                            *)
UploadIsTakenBack ==
  /\ up /\ call.at = "index" /\ Fault
  /\ audios' = audios \ {call.id}
  /\ \E left \in {0, wav[call.id]} : wav' = [wav EXCEPT ![call.id] = left]
  /\ call' = Idle
  /\ UNCHANGED <<up, index, staged, sender, run, sound, answers>>

-----------------------------------------------------------------------------
(* DELETE /audios/{id}/delete *)

(* The call remembers whether the clip is being heard.                     *)
Asks(id) ==
  /\ call' = [at |-> "ask", id |-> id, of |-> 0,
              heard |-> Playing = id]
  /\ UNCHANGED <<up, library, sender, run, sound, answers, counts>>

(* Slip: what the loaded program plays is only looked at during a run.     *)
DeleteBetweenRuns(id) ==
  /\ Ready /\ id \in audios /\ ~ running
  /\ Asks(id)

(* Slip: only what the loaded program plays is looked at.                  *)
DeleteDuringRuns(id) ==
  /\ Ready /\ id \in audios /\ id \notin Range(uses)
  /\ Asks(id)

(* The refusals of the handler.                                            *)
Delete(id) ==
  /\ Ready /\ id \in audios /\ id \notin Range(uses) /\ ~ running
  /\ Asks(id)

(* is_playing() waits for the I2S lock; whoever has it finds s_playing     *)
(* empty.                                                                  *)
AskIfPlaying ==
  /\ up /\ call.at = "ask" /\ ~ I2sLocked
  /\ call' = IF Playing = call.id THEN Idle ELSE [call EXCEPT !.at = "unlink"]
  /\ UNCHANGED <<up, library, sender, run, sound, answers, counts>>

(* The file is removed and the entry goes.                                 *)
Forget ==
  /\ up /\ call.at = "unlink"
  /\ wav' = [wav EXCEPT ![call.id] = 0]
  /\ audios' = audios \ {call.id}
  /\ call' = [call EXCEPT !.at = "reindex"]
  /\ UNCHANGED <<up, index, staged, sender, run, sound, answers, counts>>

(* The entry goes also if the file stays.                                  *)
ForgetOrphans ==
  /\ up /\ call.at = "unlink" /\ Fault
  /\ audios' = audios \ {call.id}
  /\ call' = [call EXCEPT !.at = "reindex"]
  /\ UNCHANGED <<up, index, wav, staged, sender, run, sound, answers>>

DeleteIsIndexed ==
  /\ up /\ call.at = "reindex"
  /\ index' = audios
  /\ told' = [told EXCEPT ![call.id] = 0]
  /\ damaged' = damaged \ {call.id}
  /\ call' = Idle
  /\ UNCHANGED <<up, audios, wav, staged, sender, run, sound, counts>>

(* Noticed or not, the client is told that the clip is gone.               *)
DeleteIndexFails ==
  /\ up /\ call.at = "reindex" /\ Fault
  /\ told' = [told EXCEPT ![call.id] = 0]
  /\ damaged' = damaged \cup {call.id}
  /\ call' = Idle
  /\ UNCHANGED <<up, library, sender, run, sound>>

-----------------------------------------------------------------------------
(* The run, and what asks for a clip *)

Load(clips) ==
  /\ Ready
  /\ uses' = clips /\ running' = FALSE
  /\ UNCHANGED <<up, library, sender, call, sound, answers, counts>>

Start ==
  /\ Ready
  /\ uses # <<>> /\ ~ running
  /\ running' = TRUE
  /\ UNCHANGED <<up, library, sender, call, uses, sound, answers, counts>>

(* A client pauses the run, or the run loop ends it.                       *)
StopRunning ==
  /\ up /\ running
  /\ running' = FALSE
  /\ UNCHANGED <<up, library, sender, call, uses, sound, answers, counts>>

(* audio::play(): the newest request replaces the one that waits.          *)
Queued(clips) ==
  /\ queue' = IF clips = <<>> THEN queue ELSE clips
  /\ UNCHANGED <<up, library, sender, call, run, rest, reading, stage>>
  /\ UNCHANGED <<answers, counts>>

(* paths_for(): what is not listed is skipped.                             *)
PathsFor(ids) ==
  LET paths[n \in 0 .. Len(ids)] ==
        IF n = 0 THEN <<>>
        ELSE IF ids[n] \in audios THEN Append(paths[n - 1], ids[n])
        ELSE paths[n - 1]
  IN  paths[Len(ids)]

(* The run loop enters an event.                                           *)
EventPlays ==
  /\ up /\ running /\ ~ MapLocked
  /\ Queued(PathsFor(uses))

(* POST /audios/{id}/play.                                                 *)
Play(id) ==
  /\ Ready /\ id \in audios
  /\ Queued(<<id>>)

-----------------------------------------------------------------------------
(* The audio task *)

ByAudioTask == /\ up
               /\ UNCHANGED <<up, library, sender, call, run, answers, counts>>

TakePlaylist ==
  /\ ByAudioTask
  /\ stage = "idle" /\ rest = <<>> /\ queue # <<>>
  /\ rest' = queue /\ queue' = <<>>
  /\ UNCHANGED <<reading, stage>>

(* Slip: a clip that was played is not taken off the playlist.             *)
OpenClipAgain ==
  /\ ByAudioTask
  /\ stage = "idle" /\ rest # <<>> /\ wav[Head(rest)] # 0
  /\ reading' = Head(rest) /\ stage' = "opened"
  /\ UNCHANGED <<queue, rest>>

(* play_one() opens the file before it takes the lock; what is not there   *)
(* is an issue for the clients and the next clip is played.                *)
OpenClip ==
  /\ ByAudioTask
  /\ stage = "idle" /\ rest # <<>>
  /\ rest' = Tail(rest)
  /\ IF wav[Head(rest)] = 0
     THEN UNCHANGED <<reading, stage>>
     ELSE reading' = Head(rest) /\ stage' = "opened"
  /\ UNCHANGED queue

StartClip ==
  /\ ByAudioTask
  /\ stage = "opened"
  /\ stage' = "playing"
  /\ UNCHANGED <<queue, rest, reading>>

(* The clip ends, or the output could not be set up.                       *)
EndClip ==
  /\ ByAudioTask
  /\ stage = "playing"
  /\ stage' = "closing"
  /\ UNCHANGED <<queue, rest, reading>>

CloseClip ==
  /\ ByAudioTask
  /\ stage = "closing"
  /\ stage' = "idle" /\ reading' = 0
  /\ UNCHANGED <<queue, rest>>

AudioTask == TakePlaylist \/ OpenClip \/ StartClip \/ EndClip \/ CloseClip

-----------------------------------------------------------------------------
Upload ==
  \/ UploadBegins \/ ChunkIsWritten \/ ChunkIsLost \/ ChunkFails \/ NoFile
  \/ BodyDies \/ BodyEnds \/ ReadsNothing
  \/ UploadAnswers \/ UploadIsProbed \/ UploadIsMoved \/ MoveFails
  \/ UploadIsIndexed \/ UploadIndexIsLost \/ UploadIsTakenBack

(* What httpd does of a delete by itself.                                  *)
DeleteGoesOn == \/ AskIfPlaying \/ Forget \/ ForgetOrphans
                \/ DeleteIsIndexed \/ DeleteIndexFails

Next ==
  \/ PowerCut \/ Boot \/ Upload \/ DeleteGoesOn \/ AudioTask
  \/ \E id \in UploadIds : Delete(id) \/ Play(id)
  \/ \E clips \in ClipLists : Load(clips)
  \/ Start \/ StopRunning \/ EventPlays

Spec == Init /\ [][Next]_vars

(* The tasks run; clients, faults and the power do as they like.           *)
FairSpec == Spec /\ WF_vars(DeleteGoesOn) /\ WF_vars(AudioTask)

-----------------------------------------------------------------------------
(* Properties *)

Stages == {"idle", "opened", "playing", "closing"}
Calls == [at : {"idle", "body", "gone", "answer", "probe", "rename", "index",
                "ask", "unlink", "reindex"},
          id : UploadIds \cup {0}, of : Uploads \cup {0}, heard : BOOLEAN]

(* The types of the state: only clips that were uploaded are listed, read  *)
(* and deleted, and a call that changes the library works on one of them.  *)
TypeOK ==
  /\ up \in BOOLEAN
  /\ audios \subseteq UploadIds /\ index \subseteq UploadIds
  /\ wav \in [UploadIds -> Uploads \cup {0}]
  /\ staged \in [of : Uploads \cup {0}, start : BOOLEAN]
  /\ uploads \in 0 .. MaxUploads
  /\ call \in Calls
  /\ call.at \in {"index", "ask", "unlink", "reindex"} => call.id \in UploadIds
  /\ doneKey \in BOOLEAN /\ running \in BOOLEAN
  /\ {uses, queue, rest} \subseteq Seq(UploadIds)
  /\ reading \in UploadIds \cup {0} /\ stage \in Stages
  /\ stage = "idle" <=> reading = 0
  /\ told \in [UploadIds -> Uploads \cup {0}]
  /\ torn \subseteq Uploads /\ unseen \subseteq torn
  /\ damaged \subseteq UploadIds
  /\ faults \in 0 .. MaxFaults /\ cuts \in 0 .. MaxPowerCuts

(* A call is at work on the files of this clip.                            *)
Changing(id) == call.at \in {"index", "reindex"} /\ call.id = id

(* A listed clip has its file, and it is the one that clients were told:   *)
(* also after a failed upload, a failed removal and a power cut, as long   *)
(* as no index write for that clip was lost.                               *)
ListedPlays ==
  up => \A id \in audios \ damaged :
          Changing(id) \/ (told[id] # 0 /\ wav[id] = told[id])

(* An upload that was answered is listed until it is deleted, and stays in *)
(* the index that the next boot reads.                                     *)
ToldIsKept ==
  \A id \in UploadIds \ damaged :
    told[id] # 0 /\ ~ Changing(id) => /\ id \in index
                                      /\ up => id \in audios

(* Clients, index and files agree on every clip, through failed writes and *)
(* power cuts (audios.cpp:153-274).                                        *)
ClipsAreAsTold == ListedPlays /\ ToldIsKept

(* A clip of which a chunk was seen to fail is never accepted, although the*)
(* parser goes on with the rest of the body: removing the staging file also*)
(* removes the header (web_server.cpp:1043-1049).  A clip that only lost   *)
(* bytes in an fclose() is accepted as it is (README, section 4).          *)
NoClipSeenTorn == \A id \in UploadIds : told[id] \notin torn \ unseen

(* The clips of the loaded program stay, entry and file, also between runs:*)
(* on a range, a command that is silently missing is a safety problem.     *)
(* Only an upload that fails is taken back.                                *)
RunClipsStay ==
  [][up' => \A id \in Range(uses) \cap audios :
              Changing(id) \/ (id \in audios' /\ wav'[id] = wav[id])]_vars

(* The run loop never waits, inside the executor's lock, for a clip to     *)
(* end: a delete that waits for the audio task holds the lock of the map.  *)
RunNotHeldUp == running => call.at # "ask"

(* A delete ends although it waits with no place in the line: clips that   *)
(* wait run out, and nobody can ask for more.                              *)
DeletesEnd == call.at \in {"ask", "unlink", "reindex"} ~> call = Idle

=============================================================================
