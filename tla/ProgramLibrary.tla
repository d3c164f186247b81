--------------------------- MODULE ProgramLibrary ---------------------------
(***************************************************************************)
(* The programs the device knows about (main/repositories/programs.cpp):   *)
(* those baked into the firmware image and those uploaded to it, in memory *)
(* and as files, with the REST handlers that add, replace and delete them  *)
(* (main/net/web_server.cpp), the program the executor points at, power    *)
(* cuts, boots and firmware updates.                                       *)
(*                                                                         *)
(* One httpd task serves every handler, so handlers do not interleave with *)
(* each other; the run loop runs and the power fails between their steps.  *)
(***************************************************************************)
EXTENDS Naturals, FiniteSets

CONSTANTS Docs,           \* program documents, as parse_program() returns them
          FirstUploadId,  \* kFirstUploadId
          LastId,         \* bound: the highest id there is room for
          Images,         \* firmware images: the shipped programs, by id
          MaxLostWrites,  \* bound: writes whose tail is lost at fclose()
          MaxSkips,       \* bound: stored files a boot scan cannot read or parse
          None            \* no program, a null pointer

(* What a file or an answer holds besides a document.                      *)
Nothing == "nothing"
Empty   == "empty"

Ids       == 1 .. LastId
UploadIds == FirstUploadId .. LastId

ASSUME LibraryAssumption ==
  /\ FirstUploadId \in Nat \ {0} /\ LastId \in Nat
  /\ {Nothing, Empty} \cap Docs = {}
  /\ \A image \in Images : DOMAIN image \subseteq Ids
                           /\ \A id \in DOMAIN image : image[id] \in Docs
  /\ MaxLostWrites \in Nat /\ MaxSkips \in Nat
  /\ None \notin Nat \cup [doc : Docs, readonly : BOOLEAN]

VARIABLES up,        \* whether the device is
          image,     \* the firmware it runs
          files,     \* /userdata/programs/<id>.json
          staged,    \* /userdata/programs/<id>.json.tmp
          programs,  \* s_programs
          loaded,    \* the id of the program the executor points at
          running,
          call,      \* what the httpd task is doing
          held,      \* the document that was loaded
          told,      \* per upload id: what clients were answered about it
          damaged,   \* the ids whose file a fault of the flash has touched
          lost,      \* writes that lost their tail so far
          skips      \* files that were skipped so far

flash    == <<files, staged>>
executor == <<loaded, running, held>>
faults   == <<damaged, lost, skips>>
vars     == <<up, image, flash, programs, executor, call, told, faults>>

Idle == [at |-> "idle", op |-> "none", id |-> 0, doc |-> Nothing]

(* httpd is up and between requests.                                       *)
Ready == up /\ call = Idle
Busy(id) == call.at # "idle" /\ call.id = id

Shipped(doc)  == [doc |-> doc, readonly |-> TRUE]
Uploaded(doc) == [doc |-> doc, readonly |-> FALSE]
Entry(file)   == IF file \in Docs THEN Uploaded(file) ELSE None

(* Slip: the scan lets an upload replace the shipped program of its id.    *)
UploadsWin(onImage, skipped) ==
  [id \in Ids |->
     IF id \in UploadIds \ skipped /\ files[id] \in Docs THEN Uploaded(files[id])
     ELSE IF id \in DOMAIN onImage THEN Shipped(onImage[id]) ELSE None]

(* load_all(): the shipped programs first, which uploads do not shadow;    *)
(* files that cannot be read or parsed, or are empty, are skipped.         *)
Scanned(onImage, skipped) ==
  [id \in Ids |-> IF id \in DOMAIN onImage THEN Shipped(onImage[id])
                  ELSE IF id \in UploadIds \ skipped THEN Entry(files[id])
                  ELSE None]

Init ==
  /\ up = TRUE /\ image \in Images
  /\ files = [id \in UploadIds |-> Nothing]
  /\ staged = [id \in UploadIds |-> Nothing]
  /\ programs = Scanned(image, {})
  /\ loaded = None /\ running = FALSE /\ held = Nothing
  /\ call = Idle
  /\ told = [id \in UploadIds |-> Nothing]
  /\ damaged = {} /\ lost = 0 /\ skips = 0

-----------------------------------------------------------------------------
(* Power *)

(* What the file holds when the call at work has done its part.            *)
Target == IF call.op = "delete" THEN Nothing ELSE call.doc

(* The power is cut, or the device restarts.  A call that got as far as    *)
(* the file has taken effect, though nobody was answered.                  *)
PowerCut ==
  /\ up
  /\ up' = FALSE
  /\ told' = IF call # Idle /\ files[call.id] = Target
             THEN [told EXCEPT ![call.id] = Target] ELSE told
  /\ call' = Idle
  /\ programs' = [id \in Ids |-> None]
  /\ loaded' = None /\ running' = FALSE /\ held' = Nothing
  /\ UNCHANGED <<image, flash, faults>>

(* app_main() up to the server, with the image that was flashed last.      *)
Boot ==
  /\ ~ up
  /\ up' = TRUE
  /\ image' \in Images
  /\ \E skipped \in SUBSET {id \in UploadIds : files[id] # Nothing} :
       /\ skips + Cardinality(skipped) <= MaxSkips
       /\ skips' = skips + Cardinality(skipped)
       /\ damaged' = damaged \cup skipped
       /\ programs' = Scanned(image', skipped)
  /\ UNCHANGED <<flash, executor, call, told, lost>>

-----------------------------------------------------------------------------
(* POST, PUT and DELETE *)

(* next_free_id().                                                         *)
NextFreeId(id) == /\ programs[id] = None
                  /\ \A j \in FirstUploadId .. id - 1 : programs[j] # None

(* add_uploaded().                                                         *)
Post(doc) ==
  /\ Ready
  /\ \E id \in UploadIds :
       /\ NextFreeId(id)
       /\ call' = [at |-> "stage", op |-> "post", id |-> id, doc |-> doc]
  /\ UNCHANGED <<up, image, flash, programs, executor, told, faults>>

(* Slip: a loaded program is replaced too.                                 *)
PutAnyway(id, doc) ==
  /\ Ready
  /\ programs[id] # None /\ ~ programs[id].readonly
  /\ call' = [at |-> "stage", op |-> "put", id |-> id, doc |-> doc]
  /\ UNCHANGED <<up, image, flash, programs, executor, told, faults>>

(* The PUT handler and update_uploaded(): not a shipped program, and not   *)
(* the one the executor points at.                                         *)
Put(id, doc) ==
  /\ Ready
  /\ programs[id] # None /\ ~ programs[id].readonly
  /\ loaded # id
  /\ call' = [at |-> "stage", op |-> "put", id |-> id, doc |-> doc]
  /\ UNCHANGED <<up, image, flash, programs, executor, told, faults>>

(* What fopen(staging, "wb") alone leaves: a leftover of an earlier write  *)
(* keeps its content until fclose() (LittleFS).                            *)
Opened(id) == IF staged[id] = Nothing THEN Empty ELSE staged[id]

(* Slip: the document is written over the file, not beside it.             *)
WriteInPlace ==
  /\ up /\ call.at = "stage"
  /\ files' = [files EXCEPT ![call.id] = Empty]
  /\ staged' = [staged EXCEPT ![call.id] = call.doc]
  /\ call' = [call EXCEPT !.at = "rename"]
  /\ UNCHANGED <<up, image, programs, executor, told, faults>>

(* write_program(): the document goes to a temporary file.                 *)
Stage ==
  /\ up /\ call.at = "stage"
  /\ staged' = [staged EXCEPT ![call.id] = call.doc]
  /\ call' = [call EXCEPT !.at = "rename"]
  /\ UNCHANGED <<up, image, files, programs, executor, told, faults>>

(* fwrite() took it all into its buffer, but fclose() could not write the  *)
(* rest, which nobody asks.                                                *)
StageLosesTail ==
  /\ up /\ call.at = "stage" /\ lost < MaxLostWrites
  /\ lost' = lost + 1
  /\ damaged' = damaged \cup {call.id}
  /\ staged' = [staged EXCEPT ![call.id] = Opened(call.id)]
  /\ call' = [call EXCEPT !.at = "rename"]
  /\ UNCHANGED <<up, image, files, programs, executor, told, skips>>

Rename ==
  /\ up /\ call.at = "rename"
  /\ files' = [files EXCEPT ![call.id] = staged[call.id]]
  /\ staged' = [staged EXCEPT ![call.id] = Nothing]
  /\ call' = [call EXCEPT !.at = "store"]
  /\ UNCHANGED <<up, image, programs, executor, told, faults>>

(* fopen(), fwrite() or rename() fails and is noticed: the temporary file  *)
(* is removed, if that works, and the client is told.                      *)
WriteFails ==
  /\ up /\ call.at \in {"stage", "rename"}
  /\ \E left \in {Nothing, staged[call.id], Opened(call.id)} :
       staged' = [staged EXCEPT ![call.id] = left]
  /\ call' = Idle
  /\ UNCHANGED <<up, image, files, programs, executor, told, faults>>

(* The map takes the document and the client is answered.                  *)
Store ==
  /\ up /\ call.at = "store"
  /\ programs' = [programs EXCEPT ![call.id] = Uploaded(call.doc)]
  /\ told' = [told EXCEPT ![call.id] = call.doc]
  /\ call' = Idle
  /\ UNCHANGED <<up, image, flash, executor, faults>>

(* The DELETE handler: deletability first.                                 *)
Delete(id) ==
  /\ Ready
  /\ programs[id] # None /\ ~ programs[id].readonly
  /\ call' = [at |-> "unload", op |-> "delete", id |-> id, doc |-> Nothing]
  /\ UNCHANGED <<up, image, flash, programs, executor, told, faults>>

(* executor::unload_if_loaded().                                           *)
UnloadIfLoaded ==
  /\ up /\ call.at = "unload"
  /\ IF loaded = call.id
     THEN loaded' = None /\ running' = FALSE /\ held' = Nothing
     ELSE UNCHANGED executor
  /\ call' = [call EXCEPT !.at = "unlink"]
  /\ UNCHANGED <<up, image, flash, programs, told, faults>>

(* programs::remove().                                                     *)
Unlink ==
  /\ up /\ call.at = "unlink"
  /\ files' = [files EXCEPT ![call.id] = Nothing]
  /\ call' = [call EXCEPT !.at = "erase"]
  /\ UNCHANGED <<up, image, staged, programs, executor, told, faults>>

(* Slip: the entry goes although the file stays.                           *)
EraseAnyway ==
  /\ up /\ call.at = "unlink"
  /\ programs' = [programs EXCEPT ![call.id] = None]
  /\ call' = Idle
  /\ UNCHANGED <<up, image, flash, executor, told, faults>>

UnlinkFails ==
  /\ up /\ call.at = "unlink"
  /\ call' = Idle
  /\ UNCHANGED <<up, image, flash, programs, executor, told, faults>>

Erase ==
  /\ up /\ call.at = "erase"
  /\ programs' = [programs EXCEPT ![call.id] = None]
  /\ told' = [told EXCEPT ![call.id] = Nothing]
  /\ call' = Idle
  /\ UNCHANGED <<up, image, flash, executor, faults>>

-----------------------------------------------------------------------------
(* The executor, as far as it matters here *)

Load(id) ==
  /\ Ready
  /\ programs[id] # None
  /\ loaded' = id /\ running' = FALSE /\ held' = programs[id].doc
  /\ UNCHANGED <<up, image, flash, programs, call, told, faults>>

Unload ==
  /\ Ready
  /\ loaded # None /\ ~ running
  /\ loaded' = None /\ held' = Nothing
  /\ UNCHANGED <<up, image, flash, programs, running, call, told, faults>>

Start ==
  /\ Ready
  /\ loaded # None /\ ~ running
  /\ running' = TRUE
  /\ UNCHANGED <<up, image, flash, programs, loaded, held, call, told, faults>>

(* A client pauses the run, or the run loop ends it.                       *)
StopRunning ==
  /\ up /\ running
  /\ running' = FALSE
  /\ UNCHANGED <<up, image, flash, programs, loaded, held, call, told, faults>>

-----------------------------------------------------------------------------
Next ==
  \/ PowerCut \/ Boot
  \/ \E doc \in Docs : Post(doc)
  \/ \E id \in Ids, doc \in Docs : Put(id, doc)
  \/ Stage \/ StageLosesTail \/ Rename \/ WriteFails \/ Store
  \/ \E id \in Ids : Delete(id) \/ Load(id)
  \/ UnloadIfLoaded \/ Unlink \/ UnlinkFails \/ Erase
  \/ Unload \/ Start \/ StopRunning

Spec == Init /\ [][Next]_vars

-----------------------------------------------------------------------------
(* Properties *)

FileContents == Docs \cup {Nothing, Empty}
Entries == [doc : Docs, readonly : BOOLEAN] \cup {None}
Calls == [at : {"idle", "stage", "rename", "store", "unload", "unlink", "erase"},
          op : {"none", "post", "put", "delete"},
          id : UploadIds \cup {0}, doc : Docs \cup {Nothing}]

(* The types of the state: files are named after upload ids only, and a    *)
(* call works on one of them.                                              *)
TypeOK ==
  /\ up \in BOOLEAN /\ image \in Images
  /\ files \in [UploadIds -> FileContents]
  /\ staged \in [UploadIds -> FileContents]
  /\ programs \in [Ids -> Entries]
  /\ loaded \in Ids \cup {None} /\ running \in BOOLEAN
  /\ held \in Docs \cup {Nothing}
  /\ call \in Calls /\ (call # Idle => call.id \in UploadIds)
  /\ told \in [UploadIds -> Docs \cup {Nothing}]
  /\ damaged \subseteq UploadIds
  /\ lost \in 0 .. MaxLostWrites /\ skips \in 0 .. MaxSkips

(* What clients were answered is what the flash holds, whatever the power  *)
(* does: a call at work has either done all of its part or nothing.  This  *)
(* is what the temporary file and the rename in write_program() are for.   *)
ToldIsKept ==
  \A id \in UploadIds \ damaged :
    files[id] = told[id] \/ (Busy(id) /\ files[id] = Target)

(* What clients can list and fetch is what they were answered, also after  *)
(* a boot: memory, files and answers agree for every upload that no        *)
(* shipped program shadows.                                                *)
ListedIsTold ==
  up => \A id \in UploadIds \ (damaged \cup DOMAIN image) :
          programs[id] = Entry(told[id])

(* The pointer of the executor is never dangling, and the series it points *)
(* at are the ones that were loaded: handlers unload or refuse first.      *)
LoadedStays ==
  loaded # None => /\ programs[loaded] # None
                   /\ programs[loaded].doc = held

(* A shipped program is served under its id whatever uploads are stored    *)
(* there, so that an update which ships it takes effect (#129).            *)
ShippedIsServed ==
  up => \A id \in DOMAIN image : programs[id] = Shipped(image[id])

(* Clients, flash and memory agree on every program: what was answered is  *)
(* kept and listed, or shadowed by what is shipped, through failures, power*)
(* cuts and updates (programs.cpp:46-79, 132-219).                         *)
AnswersHold == ToldIsKept /\ ListedIsTold /\ ShippedIsServed

(* api-v2.md:479-481: "staged through a temporary file and renamed into    *)
(* place, so a write that fails leaves the previous document intact".  It  *)
(* does not when the failure comes out at fclose().                        *)
FailedWriteKeepsPrevious ==
  [][\A id \in UploadIds :
       Busy(id) /\ call.op = "put" /\ files'[id] # files[id]
         => files'[id] = call.doc]_vars
=============================================================================
