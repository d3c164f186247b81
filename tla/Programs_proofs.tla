-------------------------- MODULE Programs_proofs ---------------------------
(***************************************************************************)
(* Proofs about ProgramLibrary, for every set of documents and images, any *)
(* number of ids and any number of faults of the flash, and about          *)
(* ProgramEditor, for every program it is opened on and any text typed,    *)
(* however many series, events and banks there are.                        *)
(*                                                                         *)
(* LibraryInv says how far the call at work has got: up to the rename or   *)
(* the unlink the file of its id is what was answered, after it the file   *)
(* is what the call will answer.                                           *)
(*                                                                         *)
(* EditorInv says that a draft has given every key once and knows what its *)
(* author asked of every clock, and of a save that whatever is asked       *)
(* about, on its way or stored is a document the device stores as it is.   *)
(* Each operation on the draft is one of a few changes (of one series, one *)
(* event, the list of series, or all events at once), and there is a lemma *)
(* for each change: SeriesChanged, EventsChanged, ListChanged, AllChanged. *)
(***************************************************************************)
EXTENDS ProgramLibrary, ProgramEditor,
        SequenceTheorems, FiniteSetTheorems, TLAPS

-----------------------------------------------------------------------------
(* The library *)

Writing == call.at \in {"stage", "rename", "store"}
Past    == call.at \in {"store", "erase"}

CallOK ==
  call # Idle =>
    /\ up
    /\ call.at # "idle"
    /\ call.id \notin DOMAIN image
    /\ Writing => call.op # "delete" /\ call.doc \in Docs
    /\ ~ Writing => call.op = "delete"
    /\ call.at # "unload" => loaded # call.id

StagedOK == call.at = "rename" /\ call.id \notin damaged
              => staged[call.id] = call.doc

FilesOK == \A id \in UploadIds \ damaged :
             IF Busy(id) /\ Past THEN files[id] = Target
                                 ELSE files[id] = told[id]

(* Only entries of uploads can be written, and nothing is at work or       *)
(* loaded while the device is down.                                        *)
OwnersOK == \A id \in Ids :
              programs[id] # None /\ ~ programs[id].readonly => id \in UploadIds
DownOK   == ~ up => call = Idle /\ loaded = None

LibraryInv == /\ TypeOK /\ CallOK /\ StagedOK /\ FilesOK /\ OwnersOK /\ DownOK
              /\ ListedIsTold /\ LoadedStays /\ ShippedIsServed

-----------------------------------------------------------------------------
(* What the invariant is for: ToldIsKept follows from how far the call is. *)
LEMMA FilesGiveTold == FilesOK => ToldIsKept
BY DEF FilesOK, ToldIsKept

(* The upload ids are ids, and a scan finds documents.                     *)
LEMMA ScanTypes ==
  ASSUME TypeOK, NEW onImage \in Images, NEW skipped
  PROVE  /\ UploadIds \subseteq Ids
         /\ Scanned(onImage, skipped) \in [Ids -> Entries]
         /\ \A id \in Ids : Scanned(onImage, skipped)[id] # None
              /\ ~ Scanned(onImage, skipped)[id].readonly => id \in UploadIds
         /\ \A id \in DOMAIN onImage :
              Scanned(onImage, skipped)[id] = Shipped(onImage[id])
         /\ \A id \in UploadIds \ (skipped \cup DOMAIN onImage) :
              Scanned(onImage, skipped)[id] = Entry(files[id])
<1>1. UploadIds \subseteq Ids
  BY LibraryAssumption DEF UploadIds, Ids
<1>2. DOMAIN onImage \subseteq Ids /\ \A id \in DOMAIN onImage : onImage[id] \in Docs
  BY LibraryAssumption
<1>3. \A id \in UploadIds : Entry(files[id]) \in Entries
  BY DEF Entry, Entries, Uploaded
<1>4. \A id \in DOMAIN onImage : Shipped(onImage[id]) \in Entries
                                 /\ Shipped(onImage[id]).readonly
  BY <1>2 DEF Shipped, Entries
<1>5. None \in Entries
  BY DEF Entries
<1>6. Scanned(onImage, skipped) \in [Ids -> Entries]
  BY <1>1, <1>3, <1>4, <1>5 DEF Scanned
<1>7. \A id \in Ids : Scanned(onImage, skipped)[id] # None
        /\ ~ Scanned(onImage, skipped)[id].readonly => id \in UploadIds
  BY <1>4 DEF Scanned
<1> QED
  BY <1>1, <1>2, <1>6, <1>7 DEF Scanned

(* The initial state: no uploads, nothing at work.                         *)
LEMMA LibraryInit == Init => LibraryInv
<1> SUFFICES ASSUME Init PROVE LibraryInv
  OBVIOUS
<1>1. TypeOK
  <2>1. /\ up \in BOOLEAN /\ image \in Images /\ call \in Calls /\ call = Idle
        /\ files \in [UploadIds -> FileContents]
        /\ staged \in [UploadIds -> FileContents]
        /\ told \in [UploadIds -> Docs \cup {Nothing}]
        /\ loaded \in Ids \cup {None} /\ running \in BOOLEAN
        /\ held \in Docs \cup {Nothing} /\ damaged \subseteq UploadIds
    BY DEF Init, FileContents, Calls, Idle
  <2>2. lost \in 0 .. MaxLostWrites /\ skips \in 0 .. MaxSkips
    BY LibraryAssumption DEF Init
  <2>3. \A id \in UploadIds : Entry(files[id]) = None
    BY LibraryAssumption DEF Init, Entry
  <2>4. /\ UploadIds \subseteq Ids
        /\ \A id \in DOMAIN image : Shipped(image[id]) \in Entries
    BY LibraryAssumption DEF Init, UploadIds, Ids, Shipped, Entries
  <2>5. programs \in [Ids -> Entries]
    BY <2>3, <2>4 DEF Init, Scanned, Entries
  <2> QED
    BY <2>1, <2>2, <2>5 DEF TypeOK
<1>2. image \in Images /\ programs = Scanned(image, {})
  BY DEF Init
<1>3. \A id \in UploadIds : files[id] = Nothing /\ told[id] = Nothing
  BY DEF Init
<1>4. OwnersOK /\ ShippedIsServed
  BY <1>1, <1>2, ScanTypes DEF OwnersOK, ShippedIsServed
<1>5. ListedIsTold
  BY <1>1, <1>2, <1>3, ScanTypes DEF ListedIsTold
<1>6. CallOK /\ StagedOK /\ FilesOK /\ DownOK /\ LoadedStays
  BY <1>3 DEF Init, CallOK, StagedOK, FilesOK, DownOK, LoadedStays, Idle, Busy
<1> QED
  BY <1>1, <1>4, <1>5, <1>6 DEF LibraryInv
-----------------------------------------------------------------------------
(* One lemma for each operation *)

(* A call that begins: it works on an id that no shipped program has, and  *)
(* files, memory and answers are still as they were.                       *)
LEMMA CallBegins ==
  ASSUME LibraryInv, Ready, up' = up,
         UNCHANGED <<image, flash, programs, executor, told, faults>>,
         NEW id \in UploadIds, NEW at, NEW op, NEW doc,
         \/ at = "stage" /\ op \in {"post", "put"} /\ doc \in Docs /\ loaded # id
         \/ at = "unload" /\ op = "delete" /\ doc = Nothing,
         id \notin DOMAIN image,
         call' = [at |-> at, op |-> op, id |-> id, doc |-> doc]
  PROVE  LibraryInv'
<1>1. call' \in Calls /\ call'.id \in UploadIds /\ call'.at \in {"stage", "unload"}
  BY DEF Calls
<1>2. call = Idle
  BY DEF Ready
<1>3. TypeOK'
  BY <1>1 DEF LibraryInv, TypeOK, flash, executor, faults
<1>4. CallOK'
  BY <1>1 DEF LibraryInv, Ready, CallOK, Writing, flash, executor
<1>5. FilesOK'
  BY <1>1, <1>2 DEF LibraryInv, FilesOK, Busy, Past, Idle, flash, faults
<1>6. StagedOK' /\ OwnersOK' /\ DownOK'
  BY <1>1 DEF LibraryInv, Ready, StagedOK, OwnersOK, DownOK, executor
<1>7. ListedIsTold' /\ LoadedStays' /\ ShippedIsServed'
  BY DEF LibraryInv, ListedIsTold, LoadedStays, ShippedIsServed, executor,
     faults
<1> QED
  BY <1>3, <1>4, <1>5, <1>6, <1>7 DEF LibraryInv

(* What can be written is not shipped.                                     *)
LEMMA UploadsAreNotShipped ==
  ASSUME up, ShippedIsServed, NEW id, ~ programs[id].readonly
  PROVE  id \notin DOMAIN image
<1> SUFFICES ASSUME id \in DOMAIN image PROVE FALSE
  OBVIOUS
<1>1. programs[id] = Shipped(image[id])
  BY DEF ShippedIsServed
<1> QED
  BY <1>1 DEF Shipped

(* POST takes an id that has no program, shipped or loaded.                *)
LEMMA PostKeeps == \A doc \in Docs : LibraryInv /\ Post(doc) => LibraryInv'
<1> SUFFICES ASSUME NEW doc \in Docs, LibraryInv, Post(doc) PROVE LibraryInv'
  OBVIOUS
<1>1. PICK id \in UploadIds :
        /\ programs[id] = None
        /\ call' = [at |-> "stage", op |-> "post", id |-> id, doc |-> doc]
  BY DEF Post, NextFreeId
<1>2. loaded # id
  <2>1. id # None
    BY LibraryAssumption DEF UploadIds
  <2> QED
    BY <1>1, <2>1 DEF LibraryInv, LoadedStays
<1>3. id \notin DOMAIN image
  <2> SUFFICES ASSUME id \in DOMAIN image PROVE FALSE
    OBVIOUS
  <2>1. programs[id] = Shipped(image[id])
    BY DEF LibraryInv, ShippedIsServed, Post, Ready
  <2>2. image[id] \in Docs
    BY LibraryAssumption DEF LibraryInv, TypeOK
  <2> QED
    BY <1>1, <2>1, <2>2, LibraryAssumption DEF Shipped
<1> QED
  BY <1>1, <1>2, <1>3, CallBegins DEF Post, Ready

(* PUT and DELETE refuse shipped programs, PUT the loaded one.             *)
LEMMA PutKeeps ==
  \A id \in Ids, doc \in Docs : LibraryInv /\ Put(id, doc) => LibraryInv'
<1> SUFFICES ASSUME NEW id \in Ids, NEW doc \in Docs, LibraryInv, Put(id, doc)
             PROVE  LibraryInv'
  OBVIOUS
<1>1. id \in UploadIds
  BY DEF LibraryInv, OwnersOK, Put
<1>2. id \notin DOMAIN image
  BY UploadsAreNotShipped DEF LibraryInv, Put, Ready
<1> QED
  BY <1>1, <1>2, CallBegins DEF Put, Ready

(* DELETE only looks at deletability before it unloads.                    *)
LEMMA DeleteKeeps == \A id \in Ids : LibraryInv /\ Delete(id) => LibraryInv'
<1> SUFFICES ASSUME NEW id \in Ids, LibraryInv, Delete(id) PROVE LibraryInv'
  OBVIOUS
<1>1. id \in UploadIds
  BY DEF LibraryInv, OwnersOK, Delete
<1>2. id \notin DOMAIN image
  BY UploadsAreNotShipped DEF LibraryInv, Delete, Ready
<1> QED
  BY <1>1, <1>2, CallBegins DEF Delete, Ready

(* The temporary file holds the document.                                  *)
LEMMA StageKeeps == LibraryInv /\ Stage => LibraryInv'
<1> SUFFICES ASSUME LibraryInv, Stage PROVE LibraryInv'
  OBVIOUS
<1>1. call \in Calls /\ call # Idle /\ call.id \in UploadIds
  BY DEF LibraryInv, TypeOK, Stage, Idle
<1>2. call' \in Calls /\ call' # Idle /\ call'.at = "rename"
      /\ call'.id = call.id /\ call'.op = call.op /\ call'.doc = call.doc
  BY <1>1 DEF Stage, Calls, Idle
<1>3. Writing /\ Writing'
  BY <1>2 DEF Stage, Writing
<1>4. /\ staged' \in [UploadIds -> FileContents]
      /\ staged'[call.id] = call.doc /\ call.doc \in Docs
  BY <1>1, <1>3 DEF LibraryInv, TypeOK, CallOK, Stage, FileContents
<1>5. TypeOK'
  BY <1>1, <1>2, <1>4 DEF LibraryInv, TypeOK, Stage, executor, faults
<1>6. CallOK'
  BY <1>1, <1>2, <1>3 DEF LibraryInv, CallOK, Stage, executor
<1>7. StagedOK'
  BY <1>1, <1>2, <1>4 DEF StagedOK
<1>8. FilesOK'
  BY <1>1, <1>2 DEF LibraryInv, FilesOK, Busy, Past, Stage, faults
<1>9. OwnersOK' /\ DownOK' /\ ListedIsTold' /\ LoadedStays' /\ ShippedIsServed'
  BY DEF LibraryInv, OwnersOK, DownOK, ListedIsTold, LoadedStays,
     ShippedIsServed, Stage, executor, faults
<1> QED
  BY <1>5, <1>6, <1>7, <1>8, <1>9 DEF LibraryInv

(* A lost tail damages the id.                                             *)
LEMMA StageLosesTailKeeps == LibraryInv /\ StageLosesTail => LibraryInv'
<1> SUFFICES ASSUME LibraryInv, StageLosesTail PROVE LibraryInv'
  OBVIOUS
<1>1. call \in Calls /\ call # Idle /\ call.id \in UploadIds
  BY DEF LibraryInv, TypeOK, StageLosesTail, Idle
<1>2. call' \in Calls /\ call' # Idle /\ call'.at = "rename"
      /\ call'.id = call.id /\ call'.op = call.op /\ call'.doc = call.doc
  BY <1>1 DEF StageLosesTail, Calls, Idle
<1>3. Writing /\ Writing'
  BY <1>2 DEF StageLosesTail, Writing
<1>4. /\ staged' \in [UploadIds -> FileContents]
      /\ call.id \in damaged'
  BY <1>1 DEF LibraryInv, TypeOK, StageLosesTail, Opened, FileContents
<1>5. TypeOK'
  <2>1. lost' \in 0 .. MaxLostWrites
    BY LibraryAssumption DEF LibraryInv, TypeOK, StageLosesTail
  <2>2. damaged' \subseteq UploadIds
    BY <1>1 DEF LibraryInv, TypeOK, StageLosesTail
  <2> QED
    BY <1>1, <1>2, <1>4, <2>1, <2>2 DEF LibraryInv, TypeOK, StageLosesTail,
       executor
<1>6. CallOK'
  BY <1>1, <1>2, <1>3 DEF LibraryInv, CallOK, StageLosesTail, executor
<1>7. StagedOK'
  BY <1>1, <1>2, <1>4 DEF StagedOK
<1>8. FilesOK'
  BY <1>1, <1>2 DEF LibraryInv, FilesOK, Busy, Past, StageLosesTail
<1>9. OwnersOK' /\ DownOK' /\ ListedIsTold' /\ LoadedStays' /\ ShippedIsServed'
  BY DEF LibraryInv, OwnersOK, DownOK, ListedIsTold, LoadedStays,
     ShippedIsServed, StageLosesTail, executor
<1> QED
  BY <1>5, <1>6, <1>7, <1>8, <1>9 DEF LibraryInv

(* The file is now what the call will answer.                              *)
LEMMA RenameKeeps == LibraryInv /\ Rename => LibraryInv'
<1> SUFFICES ASSUME LibraryInv, Rename PROVE LibraryInv'
  OBVIOUS
<1>1. call \in Calls /\ call # Idle /\ call.id \in UploadIds /\ Writing
  BY DEF LibraryInv, TypeOK, Rename, Idle, Writing
<1>2. call' \in Calls /\ call' # Idle /\ call'.at = "store"
      /\ call'.id = call.id /\ call'.op = call.op /\ call'.doc = call.doc
  BY <1>1 DEF Rename, Calls, Idle
<1>3. call.op # "delete" /\ up /\ call.id \notin DOMAIN image /\ call.doc \in Docs
      /\ loaded # call.id
  BY <1>1 DEF LibraryInv, CallOK, Rename
<1>4. TypeOK'
  BY <1>1, <1>2 DEF LibraryInv, TypeOK, Rename, FileContents, executor, faults
<1>5. CallOK'
  BY <1>2, <1>3 DEF CallOK, Rename, Writing, executor
<1>6. FilesOK'
  <2> SUFFICES ASSUME NEW id \in UploadIds \ damaged
               PROVE  IF Busy(id)' /\ Past' THEN files'[id] = Target'
                                            ELSE files'[id] = told[id]
    BY DEF FilesOK, Rename, faults
  <2>1. CASE id = call.id
    <3>1. staged[id] = call.doc
      BY <2>1 DEF LibraryInv, StagedOK, Rename
    <3>2. files'[id] = call.doc
      BY <1>1, <2>1, <3>1 DEF LibraryInv, TypeOK, Rename
    <3> QED
      BY <1>2, <1>3, <2>1, <3>2 DEF Busy, Past, Target
  <2>2. CASE id # call.id
    <3>1. files'[id] = files[id]
      BY <2>2 DEF LibraryInv, TypeOK, Rename
    <3> QED
      BY <1>2, <2>2, <3>1 DEF LibraryInv, FilesOK, Busy
  <2> QED
    BY <2>1, <2>2
<1>7. StagedOK' /\ OwnersOK' /\ DownOK'
  BY <1>2, <1>3 DEF LibraryInv, StagedOK, OwnersOK, DownOK, Rename, executor
<1>8. ListedIsTold' /\ LoadedStays' /\ ShippedIsServed'
  BY DEF LibraryInv, ListedIsTold, LoadedStays, ShippedIsServed, Rename,
     executor, faults
<1> QED
  BY <1>4, <1>5, <1>6, <1>7, <1>8 DEF LibraryInv

(* A call that fails leaves the file as it was.                            *)
LEMMA WriteFailsKeeps == LibraryInv /\ WriteFails => LibraryInv'
<1> SUFFICES ASSUME LibraryInv, WriteFails PROVE LibraryInv'
  OBVIOUS
<1>1. call' = Idle /\ call' \in Calls /\ up /\ ~ Past
  BY DEF LibraryInv, WriteFails, Idle, Calls, Past
<1>2. TypeOK'
  <2>1. call # Idle /\ call.id \in UploadIds
    BY DEF LibraryInv, TypeOK, WriteFails, Idle
  <2>2. staged' \in [UploadIds -> FileContents]
    BY <2>1 DEF LibraryInv, TypeOK, WriteFails, Opened, FileContents
  <2> QED
    BY <1>1, <2>2 DEF LibraryInv, TypeOK, WriteFails, executor, faults
<1>3. FilesOK'
  BY <1>1 DEF LibraryInv, FilesOK, Busy, Idle, WriteFails, faults
<1>4. CallOK' /\ StagedOK' /\ DownOK'
  BY <1>1 DEF CallOK, StagedOK, DownOK, Idle, WriteFails
<1>5. OwnersOK' /\ ListedIsTold' /\ LoadedStays' /\ ShippedIsServed'
  BY DEF LibraryInv, OwnersOK, ListedIsTold, LoadedStays, ShippedIsServed,
     WriteFails, executor, faults
<1> QED
  BY <1>2, <1>3, <1>4, <1>5 DEF LibraryInv

(* A failed unlink leaves file and entry as they were.                     *)
LEMMA UnlinkFailsKeeps == LibraryInv /\ UnlinkFails => LibraryInv'
<1> SUFFICES ASSUME LibraryInv, UnlinkFails PROVE LibraryInv'
  OBVIOUS
<1>1. call' = Idle /\ call' \in Calls /\ up /\ ~ Past
  BY DEF LibraryInv, UnlinkFails, Idle, Calls, Past
<1>2. TypeOK'
  BY <1>1 DEF LibraryInv, TypeOK, UnlinkFails, flash, executor, faults
<1>3. FilesOK'
  BY <1>1 DEF LibraryInv, FilesOK, Busy, Idle, UnlinkFails, flash, faults
<1>4. CallOK' /\ StagedOK' /\ DownOK'
  BY <1>1 DEF CallOK, StagedOK, DownOK, Idle, UnlinkFails
<1>5. OwnersOK' /\ ListedIsTold' /\ LoadedStays' /\ ShippedIsServed'
  BY DEF LibraryInv, OwnersOK, ListedIsTold, LoadedStays, ShippedIsServed,
     UnlinkFails, executor, faults
<1> QED
  BY <1>2, <1>3, <1>4, <1>5 DEF LibraryInv

(* Memory and the answer follow the file.                                  *)
LEMMA StoreKeeps == LibraryInv /\ Store => LibraryInv'
<1> SUFFICES ASSUME LibraryInv, Store PROVE LibraryInv'
  OBVIOUS
<1>1. call \in Calls /\ call # Idle /\ call.id \in UploadIds /\ Past
  BY DEF LibraryInv, TypeOK, Store, Idle, Past
<1>2. call' = Idle /\ call' \in Calls /\ up
  BY DEF Store, Idle, Calls
<1>3. call.id \notin DOMAIN image /\ loaded # call.id /\ Target = call.doc
      /\ call.doc \in Docs \cup {Nothing} /\ Entry(call.doc) = Uploaded(call.doc)
  BY <1>1, LibraryAssumption DEF LibraryInv, CallOK, Target, Store, Writing,
     Past, Entry
<1>4. UploadIds \subseteq Ids /\ Uploaded(call.doc) \in Entries
  BY <1>3, LibraryAssumption DEF UploadIds, Ids, Entries, Entry, Uploaded
<1>5. /\ programs' = [programs EXCEPT ![call.id] = Uploaded(call.doc)]
      /\ told' = [told EXCEPT ![call.id] = call.doc]
      /\ UNCHANGED <<up, image, files, staged, loaded, running, held,
                     damaged, lost, skips>>
  BY DEF Store, flash, executor, faults
<1>6. TypeOK'
  BY <1>2, <1>3, <1>4, <1>5 DEF LibraryInv, TypeOK
<1>7. FilesOK'
  <2> SUFFICES ASSUME NEW id \in UploadIds \ damaged
               PROVE  files[id] = told'[id]
    BY <1>2, <1>5 DEF FilesOK, Busy, Idle
  <2>1. CASE id = call.id
    BY <1>1, <1>3, <1>5, <2>1 DEF LibraryInv, FilesOK, TypeOK, Busy, Idle, Past
  <2>2. CASE id # call.id
    BY <1>5, <2>2 DEF LibraryInv, FilesOK, TypeOK, Busy
  <2> QED
    BY <2>1, <2>2
<1>8. CallOK' /\ StagedOK' /\ DownOK'
  BY <1>2, <1>5 DEF CallOK, StagedOK, DownOK, Idle
<1>9. ListedIsTold'
  <2> SUFFICES ASSUME NEW id \in UploadIds \ (damaged \cup DOMAIN image)
               PROVE  programs'[id] = Entry(told'[id])
    BY <1>5 DEF ListedIsTold
  <2>1. CASE id = call.id
    BY <1>3, <1>4, <1>5, <2>1 DEF LibraryInv, TypeOK
  <2>2. CASE id # call.id
    BY <1>2, <1>4, <1>5, <2>2 DEF LibraryInv, ListedIsTold, TypeOK
  <2> QED
    BY <2>1, <2>2
<1>10. OwnersOK' /\ LoadedStays' /\ ShippedIsServed'
  BY <1>1, <1>2, <1>3, <1>4, <1>5, LibraryAssumption DEF LibraryInv, TypeOK,
     OwnersOK, LoadedStays, ShippedIsServed
<1> QED
  BY <1>6, <1>7, <1>8, <1>9, <1>10 DEF LibraryInv

(* The entry goes after the file, and nobody points at it.                 *)
LEMMA EraseKeeps == LibraryInv /\ Erase => LibraryInv'
<1> SUFFICES ASSUME LibraryInv, Erase PROVE LibraryInv'
  OBVIOUS
<1>1. call \in Calls /\ call # Idle /\ call.id \in UploadIds /\ Past
  BY DEF LibraryInv, TypeOK, Erase, Idle, Past
<1>2. call' = Idle /\ call' \in Calls /\ up
  BY DEF Erase, Idle, Calls
<1>3. call.id \notin DOMAIN image /\ loaded # call.id /\ Target = Nothing
      /\ Nothing \in Docs \cup {Nothing} /\ Entry(Nothing) = None
  BY <1>1, LibraryAssumption DEF LibraryInv, CallOK, Target, Erase, Writing,
     Past, Entry
<1>4. UploadIds \subseteq Ids /\ None \in Entries
  BY <1>3, LibraryAssumption DEF UploadIds, Ids, Entries, Entry, Uploaded
<1>5. /\ programs' = [programs EXCEPT ![call.id] = None]
      /\ told' = [told EXCEPT ![call.id] = Nothing]
      /\ UNCHANGED <<up, image, files, staged, loaded, running, held,
                     damaged, lost, skips>>
  BY DEF Erase, flash, executor, faults
<1>6. TypeOK'
  BY <1>2, <1>3, <1>4, <1>5 DEF LibraryInv, TypeOK
<1>7. FilesOK'
  <2> SUFFICES ASSUME NEW id \in UploadIds \ damaged
               PROVE  files[id] = told'[id]
    BY <1>2, <1>5 DEF FilesOK, Busy, Idle
  <2>1. CASE id = call.id
    BY <1>1, <1>3, <1>5, <2>1 DEF LibraryInv, FilesOK, TypeOK, Busy, Idle, Past
  <2>2. CASE id # call.id
    BY <1>5, <2>2 DEF LibraryInv, FilesOK, TypeOK, Busy
  <2> QED
    BY <2>1, <2>2
<1>8. CallOK' /\ StagedOK' /\ DownOK'
  BY <1>2, <1>5 DEF CallOK, StagedOK, DownOK, Idle
<1>9. ListedIsTold'
  <2> SUFFICES ASSUME NEW id \in UploadIds \ (damaged \cup DOMAIN image)
               PROVE  programs'[id] = Entry(told'[id])
    BY <1>5 DEF ListedIsTold
  <2>1. CASE id = call.id
    BY <1>3, <1>4, <1>5, <2>1 DEF LibraryInv, TypeOK
  <2>2. CASE id # call.id
    BY <1>2, <1>4, <1>5, <2>2 DEF LibraryInv, ListedIsTold, TypeOK
  <2> QED
    BY <2>1, <2>2
<1>10. OwnersOK' /\ LoadedStays' /\ ShippedIsServed'
  BY <1>1, <1>2, <1>3, <1>4, <1>5, LibraryAssumption DEF LibraryInv, TypeOK,
     OwnersOK, LoadedStays, ShippedIsServed
<1> QED
  BY <1>6, <1>7, <1>8, <1>9, <1>10 DEF LibraryInv

(* Unloading comes before the unlink.                                      *)
LEMMA UnloadIfLoadedKeeps == LibraryInv /\ UnloadIfLoaded => LibraryInv'
<1> SUFFICES ASSUME LibraryInv, UnloadIfLoaded PROVE LibraryInv'
  OBVIOUS
<1>1. call \in Calls /\ call # Idle /\ call.id \in UploadIds /\ ~ Writing /\ ~ Past
  BY DEF LibraryInv, TypeOK, UnloadIfLoaded, Idle, Writing, Past
<1>2. call' \in Calls /\ call' # Idle /\ call'.at = "unlink"
      /\ call'.id = call.id /\ call'.op = call.op
  BY <1>1 DEF UnloadIfLoaded, Calls, Idle
<1>3. ~ Writing' /\ ~ Past'
  BY <1>2 DEF Writing, Past
<1>4. \/ loaded = call.id /\ loaded' = None /\ ~ running' /\ held' = Nothing
      \/ loaded # call.id /\ UNCHANGED <<loaded, running, held>>
  BY DEF UnloadIfLoaded, executor
<1>5. loaded' # call.id
  BY <1>1, <1>4, LibraryAssumption DEF UploadIds
<1>6. TypeOK'
  BY <1>1, <1>2, <1>4 DEF LibraryInv, TypeOK, UnloadIfLoaded, flash, faults
<1>7. CallOK'
  BY <1>1, <1>2, <1>3, <1>5 DEF LibraryInv, CallOK, UnloadIfLoaded
<1>8. FilesOK'
  BY <1>1, <1>2, <1>3 DEF LibraryInv, FilesOK, UnloadIfLoaded, flash, faults
<1>9. StagedOK' /\ OwnersOK' /\ DownOK'
  BY <1>2 DEF LibraryInv, StagedOK, OwnersOK, DownOK, UnloadIfLoaded
<1>10. ListedIsTold' /\ LoadedStays' /\ ShippedIsServed'
  BY <1>4 DEF LibraryInv, ListedIsTold, LoadedStays, ShippedIsServed,
     UnloadIfLoaded, faults
<1> QED
  BY <1>6, <1>7, <1>8, <1>9, <1>10 DEF LibraryInv

(* The file goes, as the call will answer.                                 *)
LEMMA UnlinkKeeps == LibraryInv /\ Unlink => LibraryInv'
<1> SUFFICES ASSUME LibraryInv, Unlink PROVE LibraryInv'
  OBVIOUS
<1>1. call \in Calls /\ call # Idle /\ call.id \in UploadIds /\ ~ Writing /\ ~ Past
  BY DEF LibraryInv, TypeOK, Unlink, Idle, Writing, Past
<1>2. call' \in Calls /\ call' # Idle /\ call'.at = "erase"
      /\ call'.id = call.id /\ call'.op = call.op
  BY <1>1 DEF Unlink, Calls, Idle
<1>3. ~ Writing' /\ Past' /\ Target' = Nothing /\ call.op = "delete"
  BY <1>1, <1>2 DEF LibraryInv, CallOK, Writing, Past, Target
<1>4. TypeOK'
  BY <1>1, <1>2 DEF LibraryInv, TypeOK, Unlink, FileContents, executor, faults
<1>5. CallOK'
  BY <1>1, <1>2, <1>3 DEF LibraryInv, CallOK, Unlink, executor
<1>6. FilesOK'
  <2> SUFFICES ASSUME NEW id \in UploadIds \ damaged
               PROVE  IF Busy(id)' /\ Past' THEN files'[id] = Target'
                                            ELSE files'[id] = told[id]
    BY DEF FilesOK, Unlink, faults
  <2>1. CASE id = call.id
    BY <1>1, <1>2, <1>3, <2>1 DEF LibraryInv, TypeOK, Unlink, Busy
  <2>2. CASE id # call.id
    BY <1>2, <2>2 DEF LibraryInv, TypeOK, FilesOK, Unlink, Busy
  <2> QED
    BY <2>1, <2>2
<1>7. StagedOK' /\ OwnersOK' /\ DownOK'
  BY <1>2 DEF LibraryInv, StagedOK, OwnersOK, DownOK, Unlink
<1>8. ListedIsTold' /\ LoadedStays' /\ ShippedIsServed'
  BY DEF LibraryInv, ListedIsTold, LoadedStays, ShippedIsServed, Unlink,
     executor, faults
<1> QED
  BY <1>4, <1>5, <1>6, <1>7, <1>8 DEF LibraryInv

(* A call that got as far as the file has taken effect.                    *)
LEMMA PowerCutKeeps == LibraryInv /\ PowerCut => LibraryInv'
<1> SUFFICES ASSUME LibraryInv, PowerCut PROVE LibraryInv'
  OBVIOUS
<1>1. call' = Idle /\ call' \in Calls /\ ~ up' /\ loaded' = None
  BY DEF PowerCut, Idle, Calls
<1>2. told' \in [UploadIds -> Docs \cup {Nothing}]
  BY DEF LibraryInv, TypeOK, PowerCut, Target, CallOK, Writing
<1>3. TypeOK'
  BY <1>1, <1>2 DEF LibraryInv, TypeOK, PowerCut, Entries, flash, faults
<1>4. FilesOK'
  <2> SUFFICES ASSUME NEW id \in UploadIds \ damaged
               PROVE  files[id] = told'[id]
    BY <1>1 DEF FilesOK, Busy, Idle, PowerCut, flash, faults
  <2>1. CASE call # Idle /\ files[call.id] = Target /\ id = call.id
    BY <2>1 DEF LibraryInv, TypeOK, PowerCut
  <2>2. CASE call # Idle /\ files[call.id] = Target /\ id # call.id
    BY <2>2 DEF LibraryInv, TypeOK, FilesOK, Busy, PowerCut
  <2>3. CASE call = Idle \/ files[call.id] # Target
    <3>1. told' = told
      BY <2>3 DEF PowerCut
    <3>2. ~ (Busy(id) /\ Past) \/ files[id] # Target
      BY <2>3 DEF Busy, Idle
    <3> QED
      BY <3>1, <3>2 DEF LibraryInv, FilesOK
  <2> QED
    BY <2>1, <2>2, <2>3
<1>5. CallOK' /\ StagedOK' /\ DownOK'
  BY <1>1 DEF CallOK, StagedOK, DownOK, Idle
<1>6. OwnersOK' /\ ListedIsTold' /\ LoadedStays' /\ ShippedIsServed'
  BY <1>1 DEF OwnersOK, ListedIsTold, LoadedStays, ShippedIsServed, PowerCut
<1> QED
  BY <1>3, <1>4, <1>5, <1>6 DEF LibraryInv

(* A boot lists what the files hold.                                       *)
LEMMA BootKeeps == LibraryInv /\ Boot => LibraryInv'
<1> SUFFICES ASSUME LibraryInv, Boot PROVE LibraryInv'
  OBVIOUS
<1>1. call = Idle /\ loaded = None /\ call \in Calls
  BY DEF LibraryInv, TypeOK, DownOK, Boot
<1>2. PICK skipped \in SUBSET UploadIds :
        /\ skips + Cardinality(skipped) <= MaxSkips
        /\ skips' = skips + Cardinality(skipped)
        /\ damaged' = damaged \cup skipped
        /\ programs' = Scanned(image', skipped)
  BY DEF Boot
<1>3. /\ up' /\ image' \in Images
      /\ UNCHANGED <<files, staged, loaded, running, held, call, told, lost>>
  BY DEF Boot, flash, executor
<1>4. /\ UploadIds \subseteq Ids
      /\ programs' \in [Ids -> Entries]
      /\ \A id \in Ids : programs'[id] # None /\ ~ programs'[id].readonly
                          => id \in UploadIds
      /\ \A id \in DOMAIN image' : programs'[id] = Shipped(image'[id])
      /\ \A id \in UploadIds \ (skipped \cup DOMAIN image') :
           programs'[id] = Entry(files[id])
  BY <1>2, <1>3, ScanTypes DEF LibraryInv
<1>5. skips' \in 0 .. MaxSkips
  <2>1. IsFiniteSet(UploadIds)
    BY LibraryAssumption, FS_Interval DEF UploadIds
  <2>2. Cardinality(skipped) \in Nat
    BY <2>1, FS_Subset, FS_CardinalityType
  <2> QED
    BY <1>2, <2>2, LibraryAssumption DEF LibraryInv, TypeOK
<1>6. TypeOK'
  BY <1>2, <1>3, <1>4, <1>5 DEF LibraryInv, TypeOK, Boot
<1>7. FilesOK' /\ CallOK' /\ StagedOK' /\ DownOK'
  BY <1>1, <1>2, <1>3 DEF LibraryInv, FilesOK, CallOK, StagedOK, DownOK, Busy,
     Idle
<1>8. OwnersOK' /\ LoadedStays' /\ ShippedIsServed'
  BY <1>1, <1>3, <1>4 DEF OwnersOK, LoadedStays, ShippedIsServed
<1>9. ListedIsTold'
  <2>1. \A id \in UploadIds \ damaged : files[id] = told[id]
    BY <1>1 DEF LibraryInv, FilesOK, Busy, Idle
  <2> QED
    BY <1>2, <1>3, <1>4, <2>1 DEF ListedIsTold
<1> QED
  BY <1>6, <1>7, <1>8, <1>9 DEF LibraryInv

(* The executor's pointer moves only while no call is at work, or stays.   *)
LEMMA ExecutorKeeps ==
  ASSUME LibraryInv, up,
         UNCHANGED <<up, image, flash, programs, call, told, faults>>,
         running' \in BOOLEAN,
         \/ UNCHANGED <<loaded, held>>
         \/ call = Idle /\ loaded' = None /\ held' = Nothing
         \/ call = Idle /\ loaded' \in Ids /\ programs[loaded'] # None
            /\ held' = programs[loaded'].doc
  PROVE  LibraryInv'
<1>1. held' \in Docs \cup {Nothing}
  <2>1. CASE call = Idle /\ loaded' \in Ids /\ programs[loaded'] # None
             /\ held' = programs[loaded'].doc
    <3>1. programs[loaded'] \in [doc : Docs, readonly : BOOLEAN]
      BY <2>1 DEF LibraryInv, TypeOK, Entries
    <3> QED
      BY <2>1, <3>1
  <2> QED
    BY <2>1 DEF LibraryInv, TypeOK
<1>2. TypeOK'
  BY <1>1 DEF LibraryInv, TypeOK, flash, faults
<1>3. CallOK' /\ StagedOK' /\ FilesOK' /\ DownOK'
  BY DEF LibraryInv, CallOK, StagedOK, FilesOK, DownOK, Writing, Past, Busy,
     Target, flash, faults
<1>4. OwnersOK' /\ ListedIsTold' /\ LoadedStays' /\ ShippedIsServed'
  BY DEF LibraryInv, OwnersOK, ListedIsTold, LoadedStays, ShippedIsServed,
     faults
<1> QED
  BY <1>2, <1>3, <1>4 DEF LibraryInv

(* The steps of clients and of the run loop that only use the pointer.     *)
LEMMA RunsKeep ==
  LibraryInv /\ (\/ \E id \in Ids : Load(id)
                 \/ Unload \/ Start \/ StopRunning) => LibraryInv'
<1> SUFFICES ASSUME LibraryInv,
                    \/ \E id \in Ids : Load(id)
                    \/ Unload \/ Start \/ StopRunning
             PROVE  LibraryInv'
  OBVIOUS
<1> USE DEF Ready, executor
<1>1. running \in BOOLEAN
  BY DEF LibraryInv, TypeOK
<1>2. ASSUME NEW id \in Ids, Load(id) PROVE LibraryInv'
  BY <1>1, <1>2, ExecutorKeeps DEF Load
<1>3. CASE Unload
  BY <1>1, <1>3, ExecutorKeeps DEF Unload
<1>4. CASE Start
  BY <1>1, <1>4, ExecutorKeeps DEF Start
<1>5. CASE StopRunning
  BY <1>1, <1>5, ExecutorKeeps DEF StopRunning
<1> QED
  BY <1>2, <1>3, <1>4, <1>5

(* A step that changes nothing keeps everything.                           *)
LEMMA StutterKeeps == LibraryInv /\ UNCHANGED vars => LibraryInv'
<1> SUFFICES ASSUME LibraryInv, UNCHANGED vars PROVE LibraryInv'
  OBVIOUS
<1> USE DEF vars, flash, executor, faults
<1>1. TypeOK'
  BY DEF LibraryInv, TypeOK
<1>2. CallOK' /\ StagedOK' /\ FilesOK' /\ DownOK'
  BY DEF LibraryInv, CallOK, StagedOK, FilesOK, DownOK, Writing, Past, Busy,
     Target
<1>3. OwnersOK' /\ ListedIsTold' /\ LoadedStays' /\ ShippedIsServed'
  BY DEF LibraryInv, OwnersOK, ListedIsTold, LoadedStays, ShippedIsServed
<1> QED
  BY <1>1, <1>2, <1>3 DEF LibraryInv

-----------------------------------------------------------------------------
(* The library keeps its invariant, whatever is called and whenever the    *)
(* power fails (programs.cpp and the handlers of web_server.cpp).          *)
THEOREM LibraryInvariant == Spec => []LibraryInv
<1>1. LibraryInv /\ [Next]_vars => LibraryInv'
  <2> SUFFICES ASSUME LibraryInv, [Next]_vars PROVE LibraryInv'
    OBVIOUS
  <2>1. CASE PowerCut \/ Boot
    BY <2>1, PowerCutKeeps, BootKeeps
  <2>2. CASE \E doc \in Docs : Post(doc)
    BY <2>2, PostKeeps
  <2>3. CASE \E id \in Ids, doc \in Docs : Put(id, doc)
    BY <2>3, PutKeeps
  <2>4. CASE Stage \/ StageLosesTail \/ Rename \/ WriteFails \/ Store
    BY <2>4, StageKeeps, StageLosesTailKeeps, RenameKeeps, WriteFailsKeeps,
       StoreKeeps
  <2>5. CASE \E id \in Ids : Delete(id)
    BY <2>5, DeleteKeeps
  <2>6. CASE UnloadIfLoaded \/ Unlink \/ UnlinkFails \/ Erase
    BY <2>6, UnloadIfLoadedKeeps, UnlinkKeeps, UnlinkFailsKeeps, EraseKeeps
  <2>7. CASE \/ \E id \in Ids : Load(id)
             \/ Unload \/ Start \/ StopRunning
    BY <2>7, RunsKeep
  <2>8. CASE UNCHANGED vars
    BY <2>8, StutterKeeps
  <2> QED
    BY <2>1, <2>2, <2>3, <2>4, <2>5, <2>6, <2>7, <2>8 DEF Next
<1> QED
  BY <1>1, LibraryInit, PTL DEF Spec

(* The types of the library's state.                                       *)
THEOREM LibraryTypes == Spec => []TypeOK
<1>1. LibraryInv => TypeOK
  BY DEF LibraryInv
<1> QED
  BY <1>1, LibraryInvariant, PTL

(* What clients were answered survives every power cut: write_program()    *)
(* stages and renames, remove() unlinks before it forgets.                 *)
THEOREM AnswersSurvive == Spec => []ToldIsKept
<1>1. LibraryInv => ToldIsKept
  BY FilesGiveTold DEF LibraryInv
<1> QED
  BY <1>1, LibraryInvariant, PTL

(* What is listed is what was answered, also after boots with other images.*)
THEOREM ListingIsTrue == Spec => []ListedIsTold
<1>1. LibraryInv => ListedIsTold
  BY DEF LibraryInv
<1> QED
  BY <1>1, LibraryInvariant, PTL

(* The executor never points at a program that is gone or was replaced.    *)
THEOREM PointerIsSound == Spec => []LoadedStays
<1>1. LibraryInv => LoadedStays
  BY DEF LibraryInv
<1> QED
  BY <1>1, LibraryInvariant, PTL

(* No upload shadows a shipped program (load_dir(), would_shadow_shipped). *)
THEOREM ShippedPrevails == Spec => []ShippedIsServed
<1>1. LibraryInv => ShippedIsServed
  BY DEF LibraryInv
<1> QED
  BY <1>1, LibraryInvariant, PTL

(* Clients, flash and memory agree, whatever fails and whenever.           *)
THEOREM AnswersAlwaysHold == Spec => []AnswersHold
<1>1. ToldIsKept /\ ListedIsTold /\ ShippedIsServed => AnswersHold
  BY DEF AnswersHold
<1> QED
  BY <1>1, AnswersSurvive, ListingIsTrue, ShippedPrevails, PTL
-----------------------------------------------------------------------------
(* The editor's invariant *)

EventDrafts  == [key : Nat, duration : Int \cup {Typo}, command : Commands,
                 banks : BankMaps, clips : Seq(Nat)]
SeriesDrafts == [key : Nat, name : Names, anchor : Nat, events : Seq(EventDrafts)]
Drafts       == [title : Names, series : Seq(SeriesDrafts)]

(* All keys were given once, before the next one.                          *)
KeysOK(d, next) ==
  \A i \in DOMAIN d.series :
    /\ KeysAreItsOwn(d.series[i])
    /\ KeysIn(d.series[i]) \subseteq 1 .. next - 1
    /\ \A k \in DOMAIN d.series \ {i} : KeysIn(d.series[i]) \cap KeysIn(d.series[k]) = {}

(* Every bank that is named is among the first, and well spelt.            *)
NamesOK(e, count) == /\ DOMAIN e.banks \subseteq 1 .. count
                     /\ \A bank \in DOMAIN e.banks : e.banks[bank] \in Turns
BanksOK(d, count) == \A i \in DOMAIN d.series : \A j \in DOMAIN d.series[i].events :
                       NamesOK(d.series[i].events[j], count)

(* Every clock is on the event its author chose.                           *)
ClocksOK(d, w, next) ==
  /\ DOMAIN w \subseteq 1 .. next - 1
  /\ \A i \in DOMAIN d.series : /\ d.series[i].key \in DOMAIN w
                                /\ w[d.series[i].key] = d.series[i].anchor

(* A row is ticked only where it can be seen.                              *)
Seen(d, folded, key) ==
  \E i \in DOMAIN d.series :
    /\ d.series[i].key \notin folded
    /\ \E j \in DOMAIN d.series[i].events : key = d.series[i].events[j].key
TicksOK(d, ticked, folded) == \A key \in ticked : Seen(d, folded, key)

DraftOK ==
  /\ draft \in Drafts
  /\ nextKey \in Nat \ {0}
  /\ bankCount \in 1 .. MaxBanks
  /\ KeysOK(draft, nextKey)
  /\ BanksOK(draft, bankCount)
  /\ ClocksOK(draft, wanted, nextKey)
  /\ TicksOK(draft, selection, collapsed)

(* What the device stores as it is sent, but for a start that is 0.        *)
Settled(doc) ==
  \A i \in DOMAIN doc.series : \A j \in DOMAIN doc.series[i].events :
    LET e == doc.series[i].events[j]
    IN  e.duration \in MinMs .. MaxMs /\ \A k \in DOMAIN e.clips : e.clips[k] <= MaxClip

(* What the device may be sent by a session that was opened on from, and   *)
(* what it may hold.                                                       *)
Sendable(doc, from) ==
  /\ doc \in Documents /\ DeviceAccepts(doc) /\ Settled(doc)
  /\ IF from = NoDoc THEN ~ HasIssues(doc) ELSE NoWorse(from, doc)
Held(doc, from) == Sendable(doc, from) /\ Plain(doc) = doc

SavesOK ==
  /\ opened \in Sources
  /\ text \in Texts \cup {NoDoc}
  /\ baseline \in Documents
  /\ asked # NoDoc => Sendable(asked, opened) /\ sent = NoDoc
  /\ sent # NoDoc => /\ sent \in [doc : Documents, done : BOOLEAN]
                     /\ Sendable(sent.doc, opened)
                     /\ sent.done => stored = Stored(sent.doc)
  /\ stored # NoDoc => Held(stored, opened)
  /\ unsure \in BOOLEAN
  /\ opened = NoDoc => baseline.title = NoName
  /\ opened # NoDoc =>
       /\ stored # NoDoc
       /\ NoWorse(opened, baseline)
       /\ ~ unsure /\ (sent = NoDoc \/ ~ sent.done) => baseline = stored

EditorInv == DraftOK /\ SavesOK

(* Induction over Nat, stated for a set.                                   *)
LEMMA UpTo ==
  ASSUME NEW n \in Nat, NEW S,
         0 \in S,
         \A i \in 1 .. n : i - 1 \in S => i \in S
  PROVE  0 .. n \subseteq S
<1>1. SUFFICES ASSUME NEW Bad, Bad = (0 .. n) \ S, Bad # {}
               PROVE  FALSE
  OBVIOUS
<1>2. PICK m \in Bad : \A k \in Bad : ~ (<<k, m>> \in OpToRel(<, Nat))
  <2>1. Bad \subseteq Nat
    BY <1>1
  <2> QED
    BY <2>1, <1>1, NatLessThanWellFounded, WFMin, Zenon
<1>3. m \in 1 .. n /\ m - 1 \in 0 .. n
  BY <1>1
<1>4. m - 1 \notin S
  BY <1>1, <1>3
<1>5. m - 1 \in Bad
  BY <1>1, <1>3, <1>4
<1>6. <<m - 1, m>> \in OpToRel(<, Nat)
  BY <1>3 DEF OpToRel
<1> QED
  BY <1>2, <1>5, <1>6

(* What is defined step by step from what came before it is defined.       *)
Steps(D, N) == [(1 .. N) \X D -> D]
Taken(g, D, z, N, h) == /\ g \in [0 .. N -> D]
                        /\ g[0] = z
                        /\ \A k \in 1 .. N : g[k] = h[<<k, g[k - 1]>>]
LEMMA StepByStep ==
  ASSUME NEW D, NEW z \in D, NEW N \in Nat, NEW h \in Steps(D, N)
  PROVE  \E g : Taken(g, D, z, N, h)
<1> DEFINE Follows(g, m) == g[0] = z /\ \A k \in 1 .. m : g[k] = h[<<k, g[k - 1]>>]
           Reached == {m \in 0 .. N : \E g \in [0 .. N -> D] : Follows(g, m)}
<1>0. h \in [(1 .. N) \X D -> D]
  BY DEF Steps
<1>1. 0 \in Reached
  <2> DEFINE first == [k \in 0 .. N |-> z]
  <2>1. first \in [0 .. N -> D] /\ first[0] = z
    OBVIOUS
  <2>2. Follows(first, 0)
    <3> HIDE DEF first
    <3> QED
      BY <2>1
  <2> HIDE DEF first, Follows
  <2> QED
    BY <2>1, <2>2
<1>2. ASSUME NEW m \in 1 .. N, m - 1 \in Reached
      PROVE  m \in Reached
  <2>1. PICK g \in [0 .. N -> D] : Follows(g, m - 1)
    BY <1>2
  <2>2. m \in 0 .. N /\ m - 1 \in 0 .. N /\ m # 0 /\ <<m, g[m - 1]>> \in (1 .. N) \X D
    OBVIOUS
  <2> DEFINE more == [g EXCEPT ![m] = h[<<m, g[m - 1]>>]]
  <2>3. more \in [0 .. N -> D]
    BY <2>2, <1>0
  <2>4. more[0] = z
    BY <2>1, <2>2
  <2>5. ASSUME NEW k \in 1 .. m
        PROVE  more[k] = h[<<k, more[k - 1]>>]
    <3>1. k \in 0 .. N /\ k - 1 \in 0 .. N /\ k - 1 # m
      OBVIOUS
    <3>2. more[k - 1] = g[k - 1]
      BY <3>1
    <3>3. CASE k = m
      BY <3>1, <3>2, <3>3
    <3>4. CASE k # m
      <4>1. k \in 1 .. m - 1
        BY <3>4
      <4>2. g[k] = h[<<k, g[k - 1]>>]
        BY <4>1, <2>1
      <4>3. more[k] = g[k]
        BY <3>1, <3>4
      <4> QED
        BY <3>2, <4>2, <4>3
    <3> QED
      BY <3>3, <3>4
  <2>6. Follows(more, m)
    BY <2>4, <2>5
  <2> HIDE DEF more, Follows
  <2> QED
    BY <2>3, <2>6, <2>2
<1>3. 0 .. N \subseteq Reached
  <2> HIDE DEF Reached
  <2> QED
    BY <1>1, <1>2, UpTo
<1>4. N \in Reached
  BY <1>3
<1>5. PICK g \in [0 .. N -> D] : Follows(g, N)
  BY <1>4
<1>6. Taken(g, D, z, N, h)
  BY <1>5 DEF Taken
<1> QED
  BY <1>6
-----------------------------------------------------------------------------
(* Lists *)

(* What inserting, removing and moving do to a list, place by place.       *)
LeavesOut(new, list, i) ==
  /\ Len(new) = Len(list) - 1
  /\ \A k \in 1 .. Len(list) - 1 : new[k] = IF k < i THEN list[k] ELSE list[k + 1]
TakesIn(new, list, i, x) ==
  /\ Len(new) = Len(list) + 1
  /\ \A k \in 1 .. Len(list) + 1 :
       new[k] = IF k < i THEN list[k] ELSE IF k = i THEN x ELSE list[k - 1]

LEMMA RemoveAtIs ==
  ASSUME NEW A, NEW list \in Seq(A), NEW i \in 1 .. Len(list)
  PROVE  RemoveAt(list, i) \in Seq(A) /\ LeavesOut(RemoveAt(list, i), list, i)
<1> DEFINE N == Len(list)
           front == SubSeq(list, 1, i - 1)
           back  == SubSeq(list, i + 1, N)
<1>0. N \in Nat /\ i \in 1 .. N
  OBVIOUS
<1>1. /\ front \in Seq(A) /\ Len(front) = i - 1
      /\ \A k \in 1 .. i - 1 : front[k] = list[k]
  BY <1>0
<1>2. /\ back \in Seq(A) /\ Len(back) = N - i
      /\ \A k \in 1 .. N - i : back[k] = list[i + k]
  BY <1>0
<1>3. RemoveAt(list, i) = front \o back
  BY DEF RemoveAt
<1> HIDE DEF front, back, N
<1>4. /\ front \o back \in Seq(A)
      /\ Len(front \o back) = N - 1
  <2>1. /\ front \o back \in Seq(A)
        /\ Len(front \o back) = Len(front) + Len(back)
    BY <1>1, <1>2, ConcatProperties
  <2> QED
    BY <2>1, <1>0, <1>1, <1>2
<1>5. ASSUME NEW k \in 1 .. N - 1
      PROVE  (front \o back)[k] = IF k < i THEN list[k] ELSE list[k + 1]
  <2>1. CASE k < i
    <3>1. k \in 1 .. Len(front)
      BY <2>1, <1>0, <1>1
    <3>2. (front \o back)[k] = front[k]
      BY <3>1, <1>1, <1>2
    <3> QED
      BY <2>1, <3>1, <3>2, <1>1
  <2>2. CASE ~ k < i
    <3>1. k - Len(front) \in 1 .. N - i /\ i + (k - Len(front)) = k + 1
      BY <2>2, <1>0, <1>1
    <3>2. (front \o back)[k] = back[k - Len(front)]
      <4>1. k \in 1 .. Len(front) + Len(back) /\ ~ k <= Len(front)
        BY <2>2, <1>0, <1>1, <1>2
      <4> QED
        BY <4>1, <1>1, <1>2, ConcatProperties
    <3>3. back[k - Len(front)] = list[i + (k - Len(front))]
      BY <3>1, <1>2
    <3> QED
      BY <2>2, <3>1, <3>2, <3>3
  <2> QED
    BY <2>1, <2>2
<1> QED
  BY <1>3, <1>4, <1>5 DEF N, LeavesOut

(* InsertAt makes room for one.                                            *)
LEMMA InsertAtIs ==
  ASSUME NEW A, NEW list \in Seq(A), NEW i \in 1 .. Len(list) + 1, NEW x \in A
  PROVE  InsertAt(list, i, x) \in Seq(A) /\ TakesIn(InsertAt(list, i, x), list, i, x)
<1> DEFINE N == Len(list)
           front == SubSeq(list, 1, i - 1)
           back  == SubSeq(list, i, N)
           start == front \o <<x>>
<1>0. N \in Nat /\ i \in 1 .. N + 1
  OBVIOUS
<1>1. /\ front \in Seq(A) /\ Len(front) = i - 1
      /\ \A k \in 1 .. i - 1 : front[k] = list[k]
  BY <1>0
<1>2. /\ back \in Seq(A) /\ Len(back) = N - i + 1
      /\ \A k \in 1 .. N - i + 1 : back[k] = list[i + k - 1]
  BY <1>0
<1>3. InsertAt(list, i, x) = start \o back
  BY DEF InsertAt
<1> HIDE DEF front
<1>4. /\ start \in Seq(A) /\ Len(start) = i
      /\ \A k \in 1 .. i : start[k] = IF k < i THEN list[k] ELSE x
  BY <1>0, <1>1
<1> HIDE DEF start, back, N
<1>5. /\ start \o back \in Seq(A)
      /\ Len(start \o back) = N + 1
  <2>1. /\ start \o back \in Seq(A)
        /\ Len(start \o back) = Len(start) + Len(back)
    BY <1>2, <1>4, ConcatProperties
  <2> QED
    BY <2>1, <1>0, <1>2, <1>4
<1>6. ASSUME NEW k \in 1 .. N + 1
      PROVE  (start \o back)[k] = IF k < i THEN list[k] ELSE IF k = i THEN x ELSE list[k - 1]
  <2>1. CASE k <= i
    <3>1. k \in 1 .. Len(start)
      BY <2>1, <1>0, <1>4
    <3>2. (start \o back)[k] = start[k]
      BY <3>1, <1>4, <1>2
    <3> QED
      BY <2>1, <3>1, <3>2, <1>4, <1>0
  <2>2. CASE ~ k <= i
    <3>1. k - i \in 1 .. N - i + 1 /\ i + (k - i) - 1 = k - 1
      BY <2>2, <1>0
    <3>2. (start \o back)[k] = back[k - i]
      <4>1. /\ k \in 1 .. Len(start) + Len(back) /\ ~ k <= Len(start)
            /\ k - Len(start) = k - i
        BY <2>2, <1>0, <1>2, <1>4
      <4>2. (start \o back)[k]
              = IF k <= Len(start) THEN start[k] ELSE back[k - Len(start)]
        BY <4>1, <1>2, <1>4, ConcatProperties
      <4> QED
        BY <4>1, <4>2
    <3>3. back[k - i] = list[i + (k - i) - 1]
      BY <3>1, <1>2
    <3> QED
      BY <2>2, <3>1, <3>2, <3>3, <1>0
  <2> QED
    BY <2>1, <2>2
<1> QED
  BY <1>3, <1>5, <1>6 DEF N, TakesIn

(* Moved swaps two neighbours.                                             *)
LEMMA MovedIs ==
  ASSUME NEW A, NEW list \in Seq(A), NEW move \in Beside(Len(list))
  PROVE  /\ move \in (1 .. Len(list)) \X (1 .. Len(list))
         /\ Moved(list, move[1], move[2])
              = [list EXCEPT ![move[1]] = list[move[2]], ![move[2]] = list[move[1]]]
<1> DEFINE N == Len(list)
           j == move[1]
           k == move[2]
           rest == RemoveAt(list, j)
           swapped == [list EXCEPT ![j] = list[k], ![k] = list[j]]
<1>1. /\ N \in Nat /\ j \in 1 .. N /\ k \in 1 .. N
      /\ k = j - 1 \/ k = j + 1
      /\ move \in (1 .. Len(list)) \X (1 .. Len(list))
  BY DEF Beside
<1>2. rest \in Seq(A) /\ Len(rest) = N - 1 /\ list[j] \in A
  BY <1>1, RemoveAtIs DEF LeavesOut
<1>3. \A m \in 1 .. N - 1 : rest[m] = IF m < j THEN list[m] ELSE list[m + 1]
  BY <1>1, RemoveAtIs DEF LeavesOut
<1>4. Moved(list, j, k) = InsertAt(rest, k, list[j])
  BY DEF Moved
<1> HIDE DEF rest
<1>5. k \in 1 .. Len(rest) + 1 /\ Len(rest) + 1 = N
  BY <1>1, <1>2
<1> HIDE DEF j, k
<1>6. Moved(list, j, k) \in Seq(A) /\ Len(Moved(list, j, k)) = N
  BY <1>2, <1>4, <1>5, InsertAtIs DEF TakesIn
<1>7. \A m \in 1 .. N : Moved(list, j, k)[m] = IF m < k THEN rest[m]
                                               ELSE IF m = k THEN list[j] ELSE rest[m - 1]
  <2>1. \A m \in 1 .. Len(rest) + 1 :
          InsertAt(rest, k, list[j])[m] = IF m < k THEN rest[m]
                                          ELSE IF m = k THEN list[j] ELSE rest[m - 1]
    BY <1>2, <1>5, InsertAtIs DEF TakesIn
  <2> QED
    BY <2>1, <1>4, <1>5
<1>8. swapped \in Seq(A) /\ Len(swapped) = N
  BY <1>1
<1>9. \A m \in 1 .. N : swapped[m] = IF m = k THEN list[j] ELSE IF m = j THEN list[k] ELSE list[m]
  BY <1>1
<1>10. ASSUME NEW m \in 1 .. N
       PROVE  Moved(list, j, k)[m] = swapped[m]
  <2>1. CASE m = k
    BY <2>1, <1>7, <1>9
  <2>2. CASE m < k
    <3>1. m \in 1 .. N - 1 /\ Moved(list, j, k)[m] = rest[m]
      BY <2>2, <1>1, <1>7
    <3>2. rest[m] = IF m < j THEN list[m] ELSE list[m + 1]
      BY <3>1, <1>3
    <3>3. swapped[m] = IF m = j THEN list[k] ELSE list[m]
      BY <2>2, <1>1, <1>9
    <3> QED
      BY <2>2, <3>1, <3>2, <3>3, <1>1
  <2>3. CASE m > k
    <3>1. m - 1 \in 1 .. N - 1 /\ Moved(list, j, k)[m] = rest[m - 1]
      BY <2>3, <1>1, <1>7
    <3>2. rest[m - 1] = IF m - 1 < j THEN list[m - 1] ELSE list[m]
      BY <3>1, <1>3
    <3>3. swapped[m] = IF m = j THEN list[k] ELSE list[m]
      BY <2>3, <1>1, <1>9
    <3> QED
      BY <2>3, <3>1, <3>2, <3>3, <1>1
  <2> QED
    BY <1>1, <2>1, <2>2, <2>3
<1> HIDE DEF swapped
<1>11. Moved(list, j, k) = swapped
  BY <1>6, <1>8, <1>10, SeqEqual
<1> QED
  BY <1>1, <1>11 DEF swapped, j, k

LEMMA MovedTyped ==
  ASSUME NEW A, NEW list \in Seq(A), NEW move \in Beside(Len(list))
  PROVE  Moved(list, move[1], move[2]) \in Seq(A)
<1> DEFINE j == move[1]
           k == move[2]
<1>1. /\ j \in 1 .. Len(list) /\ k \in 1 .. Len(list)
      /\ Moved(list, j, k) = [list EXCEPT ![j] = list[k], ![k] = list[j]]
  <2>1. /\ move \in (1 .. Len(list)) \X (1 .. Len(list))
        /\ Moved(list, move[1], move[2])
             = [list EXCEPT ![move[1]] = list[move[2]], ![move[2]] = list[move[1]]]
    BY MovedIs
  <2> QED
    BY <2>1
<1> HIDE DEF j, k
<1>2. list[j] \in A /\ list[k] \in A
  BY <1>1
<1> QED
  BY <1>1, <1>2 DEF j, k

(* One step of Among.                                                      *)
Kept(list, good, f) ==
  [k \in 0 .. Len(list) |->
     IF k = 0 THEN <<>>
     ELSE IF list[k] \in good THEN Append(f[k - 1], list[k]) ELSE f[k - 1]]

(* What is kept of a list is some of its elements, in their order: each    *)
(* comes from a place of its own.                                          *)
LEMMA AmongIs ==
  ASSUME NEW A, NEW list \in Seq(A), NEW good
  PROVE  /\ Among(list, good) \in Seq(A)
         /\ \E src \in [1 .. Len(Among(list, good)) -> 1 .. Len(list)] :
              /\ \A j, k \in 1 .. Len(Among(list, good)) : src[j] = src[k] => j = k
              /\ \A k \in 1 .. Len(Among(list, good)) :
                   Among(list, good)[k] = list[src[k]] /\ list[src[k]] \in good
         /\ (\A k \in 1 .. Len(list) : list[k] \in good) => Among(list, good) = list
<1> DEFINE N == Len(list)
           Step == [p \in (1 .. N) \X Seq(A) |->
                      IF list[p[1]] \in good THEN Append(p[2], list[p[1]]) ELSE p[2]]
           F == CHOOSE f : f = Kept(list, good, f)
<1>0. N \in Nat /\ \A i \in 1 .. N : list[i] \in A
  OBVIOUS
<1>s. /\ <<>> \in Seq(A)
      /\ \A l \in Seq(A), x \in A : Append(l, x) \in Seq(A)
  OBVIOUS
<1> HIDE DEF N
<1>1. Step \in [(1 .. N) \X Seq(A) -> Seq(A)]
  <2>1. \A p \in (1 .. N) \X Seq(A) :
          (IF list[p[1]] \in good THEN Append(p[2], list[p[1]]) ELSE p[2]) \in Seq(A)
    BY <1>0, <1>s
  <2> QED
    BY <2>1
<1>2. PICK g \in [0 .. N -> Seq(A)] :
        g[0] = <<>> /\ \A k \in 1 .. N : g[k] = Step[<<k, g[k - 1]>>]
  <2> DEFINE D == Seq(A)
             z == <<>>
  <2>1. Step \in Steps(D, N) /\ z \in D /\ N \in Nat
    BY <1>0, <1>1, <1>s DEF Steps
  <2> HIDE DEF Step, D, z
  <2>2. \E g : Taken(g, D, z, N, Step)
    BY <2>1, StepByStep
  <2> QED
    BY <2>2 DEF D, z, Taken
<1>3. \A k \in 1 .. N : g[k] = IF list[k] \in good THEN Append(g[k - 1], list[k]) ELSE g[k - 1]
  <2> TAKE k \in 1 .. N
  <2>1. k - 1 \in 0 .. N
    BY <1>0
  <2>2. <<k, g[k - 1]>> \in (1 .. N) \X Seq(A)
    BY <2>1
  <2> QED
    BY <2>2, <1>2
<1>4. g = Kept(list, good, g)
  <2>1. \A k \in 0 .. N : k # 0 => k \in 1 .. N
    BY <1>0
  <2>2. \A k \in 0 .. N : g[k] = IF k = 0 THEN <<>>
          ELSE IF list[k] \in good THEN Append(g[k - 1], list[k]) ELSE g[k - 1]
    BY <1>2, <1>3, <2>1
  <2> QED
    BY <2>2 DEF Kept, N
<1>5. F = Kept(list, good, F)
  BY <1>4
<1>6. Among(list, good) = F[N]
  BY DEF Among, Kept, N
<1> HIDE DEF F
<1>7. /\ F[0] = <<>>
      /\ \A k \in 1 .. N : F[k] = IF list[k] \in good THEN Append(F[k - 1], list[k])
                                  ELSE F[k - 1]
  <2>1. \A k \in 1 .. N : k \in 0 .. N /\ k # 0
    BY <1>0
  <2>2. 0 \in 0 .. N
    BY <1>0
  <2> QED
    BY <1>5, <2>1, <2>2 DEF Kept, N
<1> DEFINE From(l, n) ==
             \E src \in [1 .. Len(l) -> 1 .. n] :
               /\ \A j, k \in 1 .. Len(l) : src[j] = src[k] => j = k
               /\ \A k \in 1 .. Len(l) : l[k] = list[src[k]] /\ list[src[k]] \in good
           Right == {n \in 0 .. N : F[n] \in Seq(A) /\ From(F[n], n)}
<1>8. 0 \in Right
  <2>1. Len(F[0]) = 0 /\ F[0] \in Seq(A)
    BY <1>7, <1>s
  <2>2. From(F[0], 0)
    <3> DEFINE none == [k \in 1 .. 0 |-> k]
    <3>1. none \in [1 .. Len(F[0]) -> 1 .. 0]
      BY <2>1
    <3> HIDE DEF none
    <3>2. \A k \in 1 .. Len(F[0]) : FALSE
      BY <2>1
    <3> QED
      BY <3>1, <3>2
  <2> HIDE DEF From
  <2> QED
    BY <2>1, <2>2, <1>0
<1>9. ASSUME NEW n \in 1 .. N, n - 1 \in Right
      PROVE  n \in Right
  <2> DEFINE l == F[n - 1]
  <2>0. l \in Seq(A) /\ From(l, n - 1)
    BY <1>9
  <2>i. n \in 0 .. N /\ list[n] \in A
    BY <1>0
  <2>1. PICK src \in [1 .. Len(l) -> 1 .. n - 1] :
          /\ \A j, k \in 1 .. Len(l) : src[j] = src[k] => j = k
          /\ \A k \in 1 .. Len(l) : l[k] = list[src[k]] /\ list[src[k]] \in good
    BY <2>0
  <2> HIDE DEF l
  <2>2. CASE list[n] \in good
    <3> DEFINE more == Append(l, list[n])
               M == Len(l) + 1
               from == [k \in 1 .. M |-> IF k = M THEN n ELSE src[k]]
    <3>0. Len(l) \in Nat
      BY <2>0
    <3>1. /\ more \in Seq(A) /\ Len(more) = M
          /\ \A k \in 1 .. M : more[k] = IF k = M THEN list[n] ELSE l[k]
      BY <2>0, <2>i
    <3>2. F[n] = more
      BY <2>2, <1>7 DEF l
    <3>3. \A k \in 1 .. M : k # M => k \in 1 .. Len(l) /\ src[k] \in 1 .. n - 1
      BY <3>0
    <3> HIDE DEF more, M
    <3>4. from \in [1 .. M -> 1 .. n]
      BY <3>3, <2>i
    <3>5. \A k \in 1 .. M : from[k] = IF k = M THEN n ELSE src[k]
      OBVIOUS
    <3> HIDE DEF from
    <3>6. ASSUME NEW j \in 1 .. M, NEW k \in 1 .. M, from[j] = from[k] PROVE j = k
      <4>1. CASE j # M /\ k # M
        BY <4>1, <3>3, <3>5, <3>6, <2>1
      <4>2. CASE j = M /\ k # M
        <5>1. from[j] = n /\ from[k] \in 1 .. n - 1
          BY <4>2, <3>3, <3>5
        <5> QED
          BY <5>1, <3>6
      <4>3. CASE j # M /\ k = M
        <5>1. from[k] = n /\ from[j] \in 1 .. n - 1
          BY <4>3, <3>3, <3>5
        <5> QED
          BY <5>1, <3>6
      <4> QED
        BY <4>1, <4>2, <4>3
    <3>7. \A k \in 1 .. M : more[k] = list[from[k]] /\ list[from[k]] \in good
      BY <3>1, <3>3, <3>5, <2>1, <2>2
    <3>8. From(F[n], n)
      BY <3>1, <3>2, <3>4, <3>6, <3>7
    <3> HIDE DEF From
    <3> QED
      BY <3>1, <3>2, <3>8, <2>i
  <2>3. CASE list[n] \notin good
    <3>1. F[n] = l
      BY <2>3, <1>7 DEF l
    <3>2. src \in [1 .. Len(l) -> 1 .. n]
      <4>1. \A k \in 1 .. Len(l) : src[k] \in 1 .. n
        OBVIOUS
      <4> QED
        BY <4>1
    <3>3. From(F[n], n)
      BY <3>1, <3>2, <2>1
    <3> HIDE DEF From
    <3> QED
      BY <3>1, <3>3, <2>0, <2>i
  <2> QED
    BY <2>2, <2>3
<1>10. N \in Right
  <2>1. 0 .. N \subseteq Right
    <3> HIDE DEF Right
    <3> QED
      BY <1>0, <1>8, <1>9, UpTo
  <2> QED
    <3>1. N \in 0 .. N
      BY <1>0
    <3> HIDE DEF Right
    <3> QED
      BY <2>1, <3>1
<1>11. ASSUME \A k \in 1 .. N : list[k] \in good
       PROVE  F[N] = list
  <2> DEFINE Same == {n \in 0 .. N : F[n] = SubSeq(list, 1, n)}
  <2>1. 0 \in Same
    <3>1. SubSeq(list, 1, 0) = <<>>
      OBVIOUS
    <3>2. F[0] = SubSeq(list, 1, 0) /\ 0 \in 0 .. N
      BY <3>1, <1>0, <1>7
    <3> QED
      BY <3>2
  <2>2. ASSUME NEW n \in 1 .. N, n - 1 \in Same
        PROVE  n \in Same
    <3>1. F[n] = Append(SubSeq(list, 1, n - 1), list[n])
      BY <2>2, <1>7, <1>11
    <3>2. Append(SubSeq(list, 1, n - 1), list[n]) = SubSeq(list, 1, n)
      BY <1>0 DEF N
    <3>3. F[n] = SubSeq(list, 1, n) /\ n \in 0 .. N
      BY <3>1, <3>2, <1>0
    <3> QED
      BY <3>3
  <2>3. 0 .. N \subseteq Same
    <3> HIDE DEF Same
    <3> QED
      BY <1>0, <2>1, <2>2, UpTo
  <2>4. F[N] = SubSeq(list, 1, N)
    BY <2>3, <1>0
  <2> QED
    BY <2>4 DEF N
<1> QED
  BY <1>6, <1>10, <1>11 DEF N
-----------------------------------------------------------------------------
(* Sets of numbers *)

LEMMA MaxIs ==
  ASSUME NEW b \in Nat, NEW S, S \subseteq 0 .. b, S # {}
  PROVE  Max(S) \in S /\ \A y \in S : y <= Max(S)
<1> DEFINE Below == {b - x : x \in S}
<1>1. Below \subseteq Nat /\ Below # {}
  <2>1. PICK x \in S : TRUE
    OBVIOUS
  <2>2. b - x \in Below
    BY <2>1
  <2> QED
    BY <2>2
<1>2. PICK m \in Below : \A k \in Below : ~ (<<k, m>> \in OpToRel(<, Nat))
  <2> HIDE DEF Below
  <2> QED
    BY <1>1, NatLessThanWellFounded, WFMin, Zenon
<1>3. PICK x \in S : m = b - x
  BY <1>2
<1>4. ASSUME NEW y \in S
      PROVE  y <= x
  <2>1. b - y \in Below /\ b - y \in Nat /\ m \in Nat /\ x \in Nat /\ y \in Nat
    BY <1>1, <1>3
  <2>2. ~ (<<b - y, m>> \in OpToRel(<, Nat))
    BY <1>2, <2>1
  <2>3. ~ (b - y < m)
    BY <2>1, <2>2 DEF OpToRel
  <2> QED
    BY <2>1, <2>3, <1>3
<1>5. \E z \in S : \A y \in S : z >= y
  <2>1. \A y \in S : x >= y
    BY <1>4
  <2> QED
    BY <2>1
<1>6. Max(S) \in S /\ \A y \in S : Max(S) >= y
  BY <1>5 DEF Max
<1> QED
  BY <1>6

LEMMA MinOfOne == ASSUME NEW k \in Nat PROVE Min({k}) = k
BY DEF Min
-----------------------------------------------------------------------------
(* Keys *)

LEMMA KeysInIs ==
  ASSUME NEW s \in SeriesDrafts
  PROVE  /\ DOMAIN s.events = 1 .. Len(s.events) /\ Len(s.events) \in Nat
         /\ s.key \in KeysIn(s)
         /\ \A j \in 1 .. Len(s.events) : /\ s.events[j] \in EventDrafts
                                          /\ s.events[j].key \in KeysIn(s)
         /\ \A key \in KeysIn(s) :
              key = s.key \/ \E j \in 1 .. Len(s.events) : key = s.events[j].key
         /\ KeysAreItsOwn(s)
              <=> /\ \A j \in 1 .. Len(s.events) : s.events[j].key # s.key
                  /\ \A j, k \in 1 .. Len(s.events) : s.events[j].key = s.events[k].key => j = k
<1>1. s.events \in Seq(EventDrafts)
  BY DEF SeriesDrafts
<1>2. /\ DOMAIN s.events = 1 .. Len(s.events) /\ Len(s.events) \in Nat
      /\ \A j \in 1 .. Len(s.events) : s.events[j] \in EventDrafts
  BY <1>1
<1> DEFINE E == s.events
           N == Len(E)
<1>3. /\ ToSet(E) = {E[j] : j \in 1 .. N}
  BY <1>2 DEF ToSet
<1> HIDE DEF E, N
<1>4. KeysIn(s) = {s.key} \cup {E[j].key : j \in 1 .. N}
  BY <1>3 DEF KeysIn, E
<1>5. KeysAreItsOwn(s)
        <=> /\ \A j \in 1 .. N : E[j].key # s.key
            /\ \A j, k \in 1 .. N : E[j].key = E[k].key => j = k
  BY <1>2, <1>3 DEF KeysAreItsOwn, E, N
<1> QED
  BY <1>2, <1>4, <1>5 DEF E, N

(* A draft, part by part.                                                  *)
LEMMA DraftIs ==
  ASSUME NEW d \in Drafts
  PROVE  /\ DOMAIN d.series = 1 .. Len(d.series) /\ Len(d.series) \in Nat
         /\ d.series \in Seq(SeriesDrafts)
         /\ \A i \in 1 .. Len(d.series) : d.series[i] \in SeriesDrafts
BY DEF Drafts

(* One series changes, with keys of its own and new ones.                  *)
LEMMA KeysOfOne ==
  ASSUME NEW d \in Drafts, NEW n \in Nat \ {0}, NEW m \in Nat, n <= m, KeysOK(d, n),
         NEW i \in 1 .. Len(d.series), NEW s \in SeriesDrafts, KeysAreItsOwn(s),
         KeysIn(s) \subseteq KeysIn(d.series[i]) \cup (n .. m - 1)
  PROVE  /\ [d EXCEPT !.series[i] = s] \in Drafts
         /\ KeysOK([d EXCEPT !.series[i] = s], m)
<1> DEFINE new == [d EXCEPT !.series[i] = s]
           N == Len(d.series)
<1>1. /\ DOMAIN d.series = 1 .. N /\ N \in Nat
      /\ d.series \in Seq(SeriesDrafts)
  BY DraftIs
<1>2. new \in Drafts
  BY <1>1 DEF Drafts
<1>3. /\ DOMAIN new.series = 1 .. N
      /\ \A k \in 1 .. N : new.series[k] = IF k = i THEN s ELSE d.series[k]
  BY <1>1 DEF Drafts
<1> HIDE DEF new, N
<1>4. \A k \in 1 .. N :
        /\ KeysAreItsOwn(d.series[k])
        /\ KeysIn(d.series[k]) \subseteq 1 .. n - 1
        /\ \A l \in 1 .. N : l # k => KeysIn(d.series[k]) \cap KeysIn(d.series[l]) = {}
  BY <1>1 DEF KeysOK
<1>5. i \in 1 .. N
  BY DEF N
<1>6. ASSUME NEW k \in 1 .. N
      PROVE  KeysAreItsOwn(new.series[k]) /\ KeysIn(new.series[k]) \subseteq 1 .. m - 1
  <2>1. 1 .. n - 1 \subseteq 1 .. m - 1
    OBVIOUS
  <2>2. \A x \in KeysIn(s) : x \in 1 .. m - 1
    <3>1. n .. m - 1 \subseteq 1 .. m - 1
      OBVIOUS
    <3> QED
      BY <3>1, <2>1, <1>4, <1>5
  <2> QED
    BY <2>1, <2>2, <1>3, <1>4
<1>7. ASSUME NEW k \in 1 .. N, NEW l \in 1 .. N, l # k
      PROVE  KeysIn(new.series[k]) \cap KeysIn(new.series[l]) = {}
  <2>1. \A x \in n .. m - 1 : x \notin 1 .. n - 1
    OBVIOUS
  <2>2. ASSUME NEW o \in 1 .. N, o # i
        PROVE  KeysIn(s) \cap KeysIn(d.series[o]) = {}
    <3>1. KeysIn(d.series[o]) \subseteq 1 .. n - 1 /\ KeysIn(d.series[i]) \cap KeysIn(d.series[o]) = {}
      BY <2>2, <1>4, <1>5
    <3> QED
      BY <3>1, <2>1
  <2>3. CASE k = i
    BY <2>2, <2>3, <1>3, <1>7
  <2>4. CASE l = i
    <3>1. KeysIn(new.series[l]) \cap KeysIn(new.series[k]) = {}
      BY <2>2, <2>4, <1>3, <1>7
    <3> QED
      BY <3>1
  <2>5. CASE k # i /\ l # i
    BY <2>5, <1>3, <1>4, <1>7
  <2> QED
    BY <2>3, <2>4, <2>5
<1>8. KeysOK(new, m)
  BY <1>3, <1>6, <1>7 DEF KeysOK
<1> QED
  BY <1>2, <1>8 DEF new

(* What is seen of a draft when some series are folded away.               *)
LEMMA VisibleIs ==
  ASSUME NEW folded
  PROVE  \A x : x \in VisibleEvents(folded) <=> Seen(draft, folded, x)
<1> DEFINE L == draft.series
<1>1. VisibleEvents(folded)
        = {e.key : e \in UNION {{s.events[j] : j \in DOMAIN s.events} :
                                  s \in {t \in {L[i] : i \in DOMAIN L} : t.key \notin folded}}}
  BY DEF VisibleEvents, ToSet, Series
<1>2. \A x : Seen(draft, folded, x) <=>
        \E i \in DOMAIN L : L[i].key \notin folded /\ \E j \in DOMAIN L[i].events : x = L[i].events[j].key
  BY DEF Seen
<1> HIDE DEF L
<1> TAKE x
<1>3. ASSUME x \in VisibleEvents(folded)
      PROVE  \E i \in DOMAIN L : L[i].key \notin folded /\ \E j \in DOMAIN L[i].events : x = L[i].events[j].key
  BY <1>1, <1>3
<1>4. ASSUME NEW i \in DOMAIN L, L[i].key \notin folded,
             NEW j \in DOMAIN L[i].events, x = L[i].events[j].key
      PROVE  x \in VisibleEvents(folded)
  BY <1>1, <1>4
<1> QED
  BY <1>2, <1>3, <1>4

(* An operation on one series, which may take some events away.            *)
LEMMA SeriesChanged ==
  ASSUME DraftOK, NEW i \in 1 .. Len(draft.series), NEW s \in SeriesDrafts, NEW gone,
         draft' = [draft EXCEPT !.series[i] = s],
         nextKey' \in Nat, nextKey <= nextKey',
         bankCount' = bankCount, collapsed' = collapsed, selection' = selection \ gone,
         s.key = draft.series[i].key,
         KeysAreItsOwn(s),
         KeysIn(s) \subseteq KeysIn(draft.series[i]) \cup (nextKey .. nextKey' - 1),
         \A j \in 1 .. Len(draft.series[i].events) :
           \/ draft.series[i].events[j].key \in gone
           \/ \E k \in 1 .. Len(s.events) : s.events[k].key = draft.series[i].events[j].key,
         \A j \in 1 .. Len(s.events) : NamesOK(s.events[j], bankCount),
         DOMAIN wanted' = DOMAIN wanted,
         \A key \in DOMAIN wanted : wanted'[key] = IF key = s.key THEN s.anchor ELSE wanted[key]
  PROVE  DraftOK'
<1> DEFINE N == Len(draft.series)
<1>1. /\ draft \in Drafts /\ nextKey \in Nat \ {0} /\ bankCount \in 1 .. MaxBanks
      /\ KeysOK(draft, nextKey)
  BY DEF DraftOK
<1>2. draft' \in Drafts /\ KeysOK(draft', nextKey')
  BY <1>1, KeysOfOne
<1>3. /\ DOMAIN draft.series = 1 .. N /\ N \in Nat
      /\ draft.series \in Seq(SeriesDrafts)
      /\ \A k \in 1 .. N : draft.series[k] \in SeriesDrafts
  BY <1>1, DraftIs
<1>4. /\ DOMAIN draft'.series = 1 .. N /\ Len(draft'.series) = N
      /\ \A k \in 1 .. N : draft'.series[k] = IF k = i THEN s ELSE draft.series[k]
  BY <1>1, <1>3 DEF Drafts
<1> HIDE DEF N
<1>i. i \in 1 .. N
  BY DEF N
<1>5. BanksOK(draft', bankCount')
  <2>1. \A k \in 1 .. N : \A j \in DOMAIN draft.series[k].events :
          NamesOK(draft.series[k].events[j], bankCount)
    BY <1>3 DEF DraftOK, BanksOK
  <2>2. \A j \in DOMAIN s.events : NamesOK(s.events[j], bankCount)
    BY KeysInIs
  <2>3. \A k \in 1 .. N : \A j \in DOMAIN draft'.series[k].events :
          NamesOK(draft'.series[k].events[j], bankCount)
    BY <2>1, <2>2, <1>4
  <2> QED
    BY <2>3, <1>4 DEF BanksOK
<1>6. ClocksOK(draft', wanted', nextKey')
  <2>1. /\ DOMAIN wanted \subseteq 1 .. nextKey - 1
        /\ \A k \in 1 .. N : /\ draft.series[k].key \in DOMAIN wanted
                             /\ wanted[draft.series[k].key] = draft.series[k].anchor
    BY <1>3 DEF DraftOK, ClocksOK
  <2>2. DOMAIN wanted' \subseteq 1 .. nextKey' - 1
    BY <2>1, <1>1
  <2>3. ASSUME NEW k \in 1 .. N
        PROVE  /\ draft'.series[k].key \in DOMAIN wanted'
               /\ wanted'[draft'.series[k].key] = draft'.series[k].anchor
    <3>1. CASE k = i
      BY <3>1, <1>4, <2>1
    <3>2. CASE k # i
      <4>1. draft.series[k].key # s.key
        <5>1. KeysIn(draft.series[k]) \cap KeysIn(draft.series[i]) = {}
          BY <3>2, <1>i, <1>1, <1>3 DEF KeysOK
        <5>2. draft.series[k].key \in KeysIn(draft.series[k]) /\ s.key \in KeysIn(draft.series[i])
          BY <1>i, <1>3, KeysInIs
        <5> QED
          BY <5>1, <5>2
      <4> QED
        BY <3>2, <4>1, <1>4, <2>1
    <3> QED
      BY <3>1, <3>2
  <2> QED
    BY <2>2, <2>3, <1>4 DEF ClocksOK
<1>7. TicksOK(draft', selection', collapsed')
  <2> SUFFICES ASSUME NEW x \in selection'
               PROVE  Seen(draft', collapsed', x)
    BY DEF TicksOK
  <2>1. Seen(draft, collapsed, x) /\ x \notin gone
    BY DEF DraftOK, TicksOK
  <2>2. PICK k \in 1 .. N : /\ draft.series[k].key \notin collapsed
                            /\ \E j \in DOMAIN draft.series[k].events : x = draft.series[k].events[j].key
    BY <2>1, <1>3 DEF Seen
  <2>3. PICK j \in DOMAIN draft.series[k].events : x = draft.series[k].events[j].key
    BY <2>2
  <2>4. /\ draft'.series[k].key \notin collapsed
        /\ \E l \in DOMAIN draft'.series[k].events : x = draft'.series[k].events[l].key
    <3>1. CASE k # i
      BY <3>1, <2>2, <1>4
    <3>2. CASE k = i
      <4>1. j \in 1 .. Len(draft.series[i].events) /\ DOMAIN s.events = 1 .. Len(s.events)
        BY <3>2, <1>3, KeysInIs
      <4>2. \E l \in 1 .. Len(s.events) : s.events[l].key = x
        BY <4>1, <3>2, <2>1, <2>3
      <4> QED
        BY <4>1, <4>2, <3>2, <2>2, <1>4
    <3> QED
      BY <3>1, <3>2
  <2> QED
    BY <2>4, <1>4 DEF Seen
<1> QED
  BY <1>1, <1>2, <1>5, <1>6, <1>7 DEF DraftOK

(* An operation on the events of one series.                               *)
LEMMA EventsChanged ==
  ASSUME DraftOK, NEW i \in 1 .. Len(draft.series), NEW L \in Seq(EventDrafts), NEW gone,
         draft' = [draft EXCEPT !.series[i].events = L],
         nextKey' \in Nat, nextKey <= nextKey',
         bankCount' = bankCount, collapsed' = collapsed, wanted' = wanted,
         selection' = selection \ gone,
         \A j, k \in 1 .. Len(L) : L[j].key = L[k].key => j = k,
         \A j \in 1 .. Len(L) :
           \/ L[j].key \in nextKey .. nextKey' - 1
           \/ \E k \in 1 .. Len(draft.series[i].events) : L[j].key = draft.series[i].events[k].key,
         \A k \in 1 .. Len(draft.series[i].events) :
           \/ draft.series[i].events[k].key \in gone
           \/ \E j \in 1 .. Len(L) : L[j].key = draft.series[i].events[k].key,
         \A j \in 1 .. Len(L) : NamesOK(L[j], bankCount)
  PROVE  DraftOK'
<1> DEFINE o == draft.series[i]
           s == [o EXCEPT !.events = L]
<1>1. /\ draft \in Drafts /\ nextKey \in Nat \ {0}
      /\ DOMAIN draft.series = 1 .. Len(draft.series)
      /\ \A k \in 1 .. Len(draft.series) : draft.series[k] \in SeriesDrafts
  BY DraftIs DEF DraftOK
<1>2. o \in SeriesDrafts
  BY <1>1
<1>3. s \in SeriesDrafts /\ s.key = o.key /\ s.anchor = o.anchor /\ s.events = L
  BY <1>2 DEF SeriesDrafts
<1>4. draft' = [draft EXCEPT !.series[i] = s]
  BY <1>1
<1>5. /\ KeysAreItsOwn(o)
      /\ KeysIn(o) \subseteq 1 .. nextKey - 1
  BY <1>1 DEF DraftOK, KeysOK
<1>6. /\ DOMAIN wanted \subseteq 1 .. nextKey - 1
      /\ o.key \in DOMAIN wanted /\ wanted[o.key] = o.anchor
  BY <1>1 DEF DraftOK, ClocksOK
<1> HIDE DEF s, o
<1>7. /\ o.key \in KeysIn(o)
      /\ \A j \in 1 .. Len(o.events) : o.events[j].key \in KeysIn(o) /\ o.events[j].key # o.key
  BY <1>2, <1>5, KeysInIs
<1>8. \A j \in 1 .. Len(L) : L[j].key # s.key
  <2> TAKE j \in 1 .. Len(L)
  <2>1. CASE L[j].key \in nextKey .. nextKey' - 1
    <3>1. o.key \in 1 .. nextKey - 1
      BY <1>5, <1>7
    <3> QED
      BY <2>1, <3>1, <1>1, <1>3
  <2>2. CASE \E k \in 1 .. Len(o.events) : L[j].key = o.events[k].key
    BY <2>2, <1>7, <1>3
  <2> QED
    BY <2>1, <2>2 DEF o
<1>9. KeysAreItsOwn(s)
  BY <1>3, <1>8, KeysInIs
<1>10. KeysIn(s) \subseteq KeysIn(o) \cup (nextKey .. nextKey' - 1)
  <2> SUFFICES ASSUME NEW key \in KeysIn(s)
               PROVE  key \in KeysIn(o) \cup (nextKey .. nextKey' - 1)
    OBVIOUS
  <2>1. key = s.key \/ \E j \in 1 .. Len(L) : key = L[j].key
    BY <1>3, KeysInIs
  <2>2. CASE key = s.key
    BY <2>2, <1>3, <1>7
  <2>3. CASE \E j \in 1 .. Len(L) : key = L[j].key
    BY <2>3, <1>7 DEF o
  <2> QED
    BY <2>1, <2>2, <2>3
<1>11. \A key \in DOMAIN wanted : wanted'[key] = IF key = s.key THEN s.anchor ELSE wanted[key]
  BY <1>3, <1>6
<1>12. /\ s.key = draft.series[i].key
       /\ KeysIn(s) \subseteq KeysIn(draft.series[i]) \cup (nextKey .. nextKey' - 1)
       /\ DOMAIN wanted' = DOMAIN wanted
       /\ \A j \in 1 .. Len(draft.series[i].events) :
            \/ draft.series[i].events[j].key \in gone
            \/ \E k \in 1 .. Len(s.events) : s.events[k].key = draft.series[i].events[j].key
       /\ \A j \in 1 .. Len(s.events) : NamesOK(s.events[j], bankCount)
  BY <1>3, <1>10 DEF o
<1> QED
  BY <1>3, <1>4, <1>9, <1>11, <1>12, SeriesChanged

(* An operation on one event.                                              *)
LEMMA EventChanged ==
  ASSUME DraftOK, NEW i \in 1 .. Len(draft.series),
         NEW j \in 1 .. Len(draft.series[i].events), NEW e \in EventDrafts,
         draft' = [draft EXCEPT !.series[i].events[j] = e],
         e.key = draft.series[i].events[j].key,
         NamesOK(e, bankCount),
         UNCHANGED view
  PROVE  DraftOK'
<1> DEFINE E == draft.series[i].events
           L == [E EXCEPT ![j] = e]
<1>1. /\ draft \in Drafts /\ nextKey \in Nat
      /\ DOMAIN draft.series = 1 .. Len(draft.series)
      /\ draft.series[i] \in SeriesDrafts
  BY DraftIs DEF DraftOK
<1>2. E \in Seq(EventDrafts)
  BY <1>1 DEF SeriesDrafts
<1>3. /\ L \in Seq(EventDrafts) /\ Len(L) = Len(E)
      /\ \A k \in 1 .. Len(E) : L[k] = IF k = j THEN e ELSE E[k]
  BY <1>2
<1>4. draft' = [draft EXCEPT !.series[i].events = L]
  BY <1>1
<1>5. KeysAreItsOwn(draft.series[i])
  BY <1>1 DEF DraftOK, KeysOK
<1>6. \A k, l \in 1 .. Len(E) : E[k].key = E[l].key => k = l
  BY <1>1, <1>5, KeysInIs
<1>7. \A k \in 1 .. Len(E) : NamesOK(E[k], bankCount)
  BY <1>1, KeysInIs DEF DraftOK, BanksOK
<1> HIDE DEF L
<1>8. \A k \in 1 .. Len(L) : L[k].key = E[k].key
  BY <1>3
<1>9. /\ \A k, l \in 1 .. Len(L) : L[k].key = L[l].key => k = l
      /\ \A k \in 1 .. Len(L) : \E l \in 1 .. Len(E) : L[k].key = E[l].key
      /\ \A k \in 1 .. Len(E) : \E l \in 1 .. Len(L) : L[l].key = E[k].key
      /\ \A k \in 1 .. Len(L) : NamesOK(L[k], bankCount)
  BY <1>3, <1>6, <1>7, <1>8
<1>10. /\ nextKey' = nextKey /\ nextKey' \in Nat /\ nextKey <= nextKey' /\ bankCount' = bankCount
       /\ collapsed' = collapsed /\ wanted' = wanted /\ selection' = selection \ {}
  BY <1>1 DEF view
<1>11. /\ \A k \in 1 .. Len(L) :
            \/ L[k].key \in nextKey .. nextKey' - 1
            \/ \E l \in 1 .. Len(E) : L[k].key = E[l].key
       /\ \A k \in 1 .. Len(E) :
            \/ E[k].key \in {}
            \/ \E l \in 1 .. Len(L) : L[l].key = E[k].key
  BY <1>9
<1> QED
  BY <1>3, <1>4, <1>9, <1>10, <1>11, EventsChanged
-----------------------------------------------------------------------------
(* The operations on the draft *)

(* What an operation finds.                                                *)
LEMMA InSeries ==
  ASSUME DraftOK, NEW i \in DOMAIN Series
  PROVE  /\ draft \in Drafts /\ nextKey \in Nat \ {0}
         /\ i \in 1 .. Len(draft.series) /\ Series = draft.series
         /\ draft.series[i] \in SeriesDrafts
         /\ Series[i].events = draft.series[i].events
         /\ draft.series[i].events \in Seq(EventDrafts)
         /\ Rows(i) = 1 .. Len(draft.series[i].events)
         /\ KeysAreItsOwn(draft.series[i])
         /\ KeysIn(draft.series[i]) \subseteq 1 .. nextKey - 1
         /\ \A j \in 1 .. Len(draft.series[i].events) :
              /\ draft.series[i].events[j] \in EventDrafts
              /\ NamesOK(draft.series[i].events[j], bankCount)
              /\ draft.series[i].events[j].key \in 1 .. nextKey - 1
         /\ \A j, k \in 1 .. Len(draft.series[i].events) :
              draft.series[i].events[j].key = draft.series[i].events[k].key => j = k
<1>1. draft \in Drafts /\ nextKey \in Nat \ {0} /\ Series = draft.series
  BY DEF DraftOK, Series
<1>2. i \in 1 .. Len(draft.series) /\ draft.series[i] \in SeriesDrafts
  BY <1>1, DraftIs
<1> DEFINE o == draft.series[i]
<1>3. o \in SeriesDrafts /\ o.events \in Seq(EventDrafts)
  BY <1>2 DEF SeriesDrafts
<1>4. KeysAreItsOwn(o) /\ KeysIn(o) \subseteq 1 .. nextKey - 1
  BY <1>1 DEF DraftOK, KeysOK
<1>5. \A j \in DOMAIN o.events : NamesOK(o.events[j], bankCount)
  BY <1>1 DEF DraftOK, BanksOK
<1>6. Rows(i) = DOMAIN o.events /\ Series[i].events = o.events
  BY <1>1 DEF Rows
<1> HIDE DEF o
<1>7. /\ DOMAIN o.events = 1 .. Len(o.events)
      /\ \A j \in 1 .. Len(o.events) : o.events[j] \in EventDrafts /\ o.events[j].key \in KeysIn(o)
      /\ \A j, k \in 1 .. Len(o.events) : o.events[j].key = o.events[k].key => j = k
  BY <1>3, <1>4, KeysInIs
<1> QED
  BY <1>1, <1>2, <1>3, <1>4, <1>5, <1>6, <1>7 DEF o

(* Adding an event at the end or beside another.                           *)
Wider(L, E, n, c) ==
  /\ \A j, k \in 1 .. Len(L) : L[j].key = L[k].key => j = k
  /\ \A j \in 1 .. Len(L) : /\ \/ L[j].key \in n .. n
                                \/ \E k \in 1 .. Len(E) : L[j].key = E[k].key
                             /\ NamesOK(L[j], c)
  /\ \A k \in 1 .. Len(E) : \E j \in 1 .. Len(L) : L[j].key = E[k].key
LEMMA Widened ==
  ASSUME NEW E \in Seq(EventDrafts), NEW at \in 1 .. Len(E) + 1, NEW e \in EventDrafts,
         NEW n \in Nat \ {0}, NEW c, e.key = n, NamesOK(e, c),
         \A j \in 1 .. Len(E) : NamesOK(E[j], c) /\ E[j].key \in 1 .. n - 1,
         \A j, k \in 1 .. Len(E) : E[j].key = E[k].key => j = k
  PROVE  InsertAt(E, at, e) \in Seq(EventDrafts) /\ Wider(InsertAt(E, at, e), E, n, c)
<1> DEFINE L == InsertAt(E, at, e)
           N == Len(E)
<1>1. /\ N \in Nat /\ at \in 1 .. N + 1
      /\ \A j \in 1 .. N : NamesOK(E[j], c) /\ E[j].key \in 1 .. n - 1
      /\ \A j, k \in 1 .. N : E[j].key = E[k].key => j = k
  OBVIOUS
<1>2. at \in 1 .. N + 1
  BY <1>1
<1>3. /\ L \in Seq(EventDrafts) /\ Len(L) = N + 1
      /\ \A k \in 1 .. N + 1 : L[k] = IF k < at THEN E[k] ELSE IF k = at THEN e ELSE E[k - 1]
  <2>1. L \in Seq(EventDrafts) /\ TakesIn(L, E, at, e)
    BY InsertAtIs
  <2> HIDE DEF L
  <2> QED
    BY <2>1 DEF TakesIn
<1> HIDE DEF L, N
<1> DEFINE src(k) == IF k < at THEN k ELSE k - 1
<1>4. \A k \in 1 .. N + 1 : k # at => src(k) \in 1 .. N /\ L[k] = E[src(k)]
  BY <1>1, <1>2, <1>3
<1>5. L[at] = e
  BY <1>2, <1>3
<1>6. \A j, k \in 1 .. N + 1 : j # at /\ k # at /\ src(j) = src(k) => j = k
  BY <1>1, <1>2
<1>7. \A k \in 1 .. N : \E j \in 1 .. N + 1 : j # at /\ src(j) = k
  <2> TAKE k \in 1 .. N
  <2>1. CASE k < at
    <3>1. k \in 1 .. N + 1 /\ k # at /\ src(k) = k
      BY <2>1, <1>1
    <3> QED
      BY <3>1
  <2>2. CASE ~ k < at
    <3>1. k + 1 \in 1 .. N + 1 /\ k + 1 # at /\ src(k + 1) = k
      BY <2>2, <1>1, <1>2
    <3> QED
      BY <3>1
  <2> QED
    BY <2>1, <2>2
<1> HIDE DEF src
<1>8. \A k \in 1 .. N + 1 : k # at => L[k].key \in 1 .. n - 1
  BY <1>1, <1>4
<1>9. \A j, k \in 1 .. N + 1 : L[j].key = L[k].key => j = k
  <2> SUFFICES ASSUME NEW j \in 1 .. N + 1, NEW k \in 1 .. N + 1, L[j].key = L[k].key
               PROVE  j = k
    OBVIOUS
  <2>0. n \notin 1 .. n - 1
    BY <1>1
  <2>1. CASE j = at \/ k = at
    BY <2>0, <2>1, <1>5, <1>8
  <2>2. CASE j # at /\ k # at
    <3>1. src(j) \in 1 .. N /\ src(k) \in 1 .. N /\ E[src(j)].key = E[src(k)].key
      BY <2>2, <1>4
    <3>2. src(j) = src(k)
      BY <3>1, <1>1
    <3> QED
      BY <3>2, <2>2, <1>6
  <2> QED
    BY <2>1, <2>2
<1>10. \A j \in 1 .. N + 1 :
         \/ L[j].key \in n .. n
         \/ \E k \in 1 .. N : L[j].key = E[k].key
  <2> TAKE j \in 1 .. N + 1
  <2>1. CASE j = at
    BY <2>1, <1>1, <1>5
  <2>2. CASE j # at
    BY <2>2, <1>4
  <2> QED
    BY <2>1, <2>2
<1>11. \A k \in 1 .. N : \E j \in 1 .. N + 1 : L[j].key = E[k].key
  BY <1>4, <1>7
<1>12. \A j \in 1 .. N + 1 : NamesOK(L[j], c)
  BY <1>1, <1>4, <1>5
<1> QED
  BY <1>3, <1>9, <1>10, <1>11, <1>12 DEF N, L, Wider

(* An event with a new key is put among the events of a series.            *)
LEMMA EventAdded ==
  ASSUME DraftOK, NEW i \in DOMAIN Series, NEW at \in 1 .. Len(Series[i].events) + 1,
         NEW e \in EventDrafts, e.key = nextKey, NamesOK(e, bankCount),
         draft' = [draft EXCEPT !.series[i].events = InsertAt(Series[i].events, at, e)],
         nextKey' = nextKey + 1,
         UNCHANGED <<collapsed, selection, bankCount, wanted>>
  PROVE  DraftOK'
<1> DEFINE E == draft.series[i].events
           L == InsertAt(E, at, e)
<1>1. /\ nextKey \in Nat \ {0} /\ i \in 1 .. Len(draft.series)
      /\ Series[i].events = E /\ E \in Seq(EventDrafts)
      /\ \A j \in 1 .. Len(E) : NamesOK(E[j], bankCount) /\ E[j].key \in 1 .. nextKey - 1
      /\ \A j, k \in 1 .. Len(E) : E[j].key = E[k].key => j = k
  BY InSeries
<1>2. draft' = [draft EXCEPT !.series[i].events = L] /\ at \in 1 .. Len(E) + 1
  BY <1>1
<1>3. nextKey' - 1 = nextKey
  BY <1>1
<1> HIDE DEF E
<1>4. /\ L \in Seq(EventDrafts)
      /\ \A j, k \in 1 .. Len(L) : L[j].key = L[k].key => j = k
      /\ \A j \in 1 .. Len(L) : /\ \/ L[j].key \in nextKey .. nextKey
                                    \/ \E k \in 1 .. Len(E) : L[j].key = E[k].key
                                 /\ NamesOK(L[j], bankCount)
      /\ \A k \in 1 .. Len(E) : \E j \in 1 .. Len(L) : L[j].key = E[k].key
  <2>1. L \in Seq(EventDrafts) /\ Wider(L, E, nextKey, bankCount)
    BY <1>1, <1>2, Widened
  <2> QED
    BY <2>1 DEF Wider
<1> HIDE DEF L
<1>5. /\ nextKey' \in Nat /\ nextKey <= nextKey' /\ bankCount' = bankCount
      /\ collapsed' = collapsed /\ wanted' = wanted /\ selection' = selection \ {}
  BY <1>1
<1>6. /\ \A j \in 1 .. Len(L) :
           \/ L[j].key \in nextKey .. nextKey' - 1
           \/ \E k \in 1 .. Len(draft.series[i].events) : L[j].key = draft.series[i].events[k].key
      /\ \A k \in 1 .. Len(draft.series[i].events) :
           \/ draft.series[i].events[k].key \in {}
           \/ \E j \in 1 .. Len(L) : L[j].key = draft.series[i].events[k].key
      /\ \A j \in 1 .. Len(L) : NamesOK(L[j], bankCount)
  BY <1>3, <1>4 DEF E
<1> QED
  BY <1>1, <1>2, <1>4, <1>5, <1>6, EventsChanged, ZenonT(60)

LEMMA AppendIsInsert ==
  ASSUME NEW A, NEW list \in Seq(A), NEW x \in A
  PROVE  Append(list, x) = InsertAt(list, Len(list) + 1, x)
<1> DEFINE new == InsertAt(list, Len(list) + 1, x)
<1>1. Len(list) + 1 \in 1 .. Len(list) + 1
  OBVIOUS
<1>2. new \in Seq(A) /\ TakesIn(new, list, Len(list) + 1, x)
  BY <1>1, InsertAtIs
<1> HIDE DEF new
<1>3. Append(list, x) \in Seq(A) /\ Len(Append(list, x)) = Len(new)
  BY <1>2 DEF TakesIn
<1>4. \A k \in 1 .. Len(list) + 1 : Append(list, x)[k] = new[k]
  BY <1>2 DEF TakesIn
<1>5. Append(list, x) = new
  BY <1>2, <1>3, <1>4, SeqEqual DEF TakesIn
<1> QED
  BY <1>5 DEF new

(* A new event follows its series and names no bank.                       *)
LEMMA NewEventIs ==
  ASSUME NEW key \in Nat, NEW count
  PROVE  /\ NewEvent(key) \in EventDrafts /\ NewEvent(key).key = key
         /\ NamesOK(NewEvent(key), count)
<1>1. DOMAIN <<>> = {}
  OBVIOUS
<1>2. <<>> \in [{} -> Turns \cup {"other"}]
  BY <1>1
<1>3. {} \in SUBSET (1 .. MaxBanks + 1)
  OBVIOUS
<1>4. <<>> \in BankMaps
  BY <1>2, <1>3 DEF BankMaps
<1>5. <<>> \in Seq(Nat) /\ "none" \in Commands /\ MinMs \in Int \cup {Typo}
  BY EditorAssumption, DocumentAssumption DEF Commands
<1> QED
  BY <1>1, <1>4, <1>5 DEF NewEvent, EventDrafts, NamesOK

(* renameSeries() leaves keys and clocks alone.                            *)
LEMMA SetSeriesNameKeeps ==
  ASSUME DraftOK, NEW i \in DOMAIN Series, SetSeriesName(i)
  PROVE  DraftOK'
<1> DEFINE o == draft.series[i]
<1>1. PICK name \in Names : draft' = [draft EXCEPT !.series[i].name = name]
  BY DEF SetSeriesName
<1> DEFINE s == [o EXCEPT !.name = name]
<1>2. /\ draft \in Drafts /\ nextKey \in Nat \ {0} /\ i \in 1 .. Len(draft.series)
      /\ DOMAIN draft.series = 1 .. Len(draft.series)
      /\ o \in SeriesDrafts /\ KeysAreItsOwn(o)
      /\ \A j \in 1 .. Len(o.events) : NamesOK(o.events[j], bankCount)
  BY InSeries, DraftIs
<1>3. /\ s \in SeriesDrafts /\ s.key = o.key /\ s.anchor = o.anchor /\ s.events = o.events
      /\ draft' = [draft EXCEPT !.series[i] = s]
  <2>2. s \in SeriesDrafts /\ s.key = o.key /\ s.anchor = o.anchor /\ s.events = o.events
    BY <1>2 DEF SeriesDrafts
  <2>3. draft' = [draft EXCEPT !.series[i] = s]
    BY <1>1, <1>2
  <2> QED
    BY <2>2, <2>3
<1>4. KeysAreItsOwn(s) /\ KeysIn(s) = KeysIn(o)
  BY <1>2, <1>3 DEF KeysAreItsOwn, KeysIn
<1>5. /\ nextKey' = nextKey /\ bankCount' = bankCount /\ collapsed' = collapsed
      /\ selection' = selection \ {} /\ wanted' = wanted
  BY DEF SetSeriesName, view
<1>6. o.key \in DOMAIN wanted /\ wanted[o.key] = o.anchor
  BY <1>2 DEF DraftOK, ClocksOK
<1>7. /\ nextKey' \in Nat /\ nextKey <= nextKey'
      /\ KeysIn(s) \subseteq KeysIn(draft.series[i]) \cup (nextKey .. nextKey' - 1)
      /\ DOMAIN wanted' = DOMAIN wanted
      /\ \A key \in DOMAIN wanted : wanted'[key] = IF key = s.key THEN s.anchor ELSE wanted[key]
      /\ \A j \in 1 .. Len(s.events) : NamesOK(s.events[j], bankCount)
      /\ \A j \in 1 .. Len(draft.series[i].events) :
           \/ draft.series[i].events[j].key \in {}
           \/ \E k \in 1 .. Len(s.events) : s.events[k].key = draft.series[i].events[j].key
  <2>1. /\ nextKey' \in Nat /\ nextKey <= nextKey'
        /\ KeysIn(s) \subseteq KeysIn(draft.series[i]) \cup (nextKey .. nextKey' - 1)
    <3>1. nextKey' \in Nat /\ nextKey <= nextKey'
      BY <1>2, <1>5
    <3> QED
      BY <3>1, <1>4
  <2>2. /\ DOMAIN wanted' = DOMAIN wanted
        /\ \A key \in DOMAIN wanted : wanted'[key] = IF key = s.key THEN s.anchor ELSE wanted[key]
    BY <1>3, <1>5, <1>6
  <2> HIDE DEF s
  <2>3. \A j \in 1 .. Len(s.events) : NamesOK(s.events[j], bankCount)
    BY <1>2, <1>3
  <2>4. \A j \in 1 .. Len(draft.series[i].events) :
           \/ draft.series[i].events[j].key \in {}
           \/ \E k \in 1 .. Len(s.events) : s.events[k].key = draft.series[i].events[j].key
    BY <1>3
  <2> QED
    BY <2>1, <2>2, <2>3, <2>4
<1> HIDE DEF s
<1> QED
  BY <1>2, <1>3, <1>4, <1>5, <1>7, SeriesChanged

(* The clock is set to a row of the series.                                *)
LEMMA SetTimerStartKeeps ==
  ASSUME DraftOK, NEW i \in DOMAIN Series, NEW r \in Rows(i), SetTimerStart(i, r)
  PROVE  DraftOK'
<1> DEFINE o == draft.series[i]
           new == IF Series[i].anchor = Series[i].events[r].key THEN NoAnchor ELSE Series[i].events[r].key
           s == [o EXCEPT !.anchor = new]
<1>2. /\ draft \in Drafts /\ nextKey \in Nat \ {0} /\ i \in 1 .. Len(draft.series)
      /\ DOMAIN draft.series = 1 .. Len(draft.series) /\ Series = draft.series
      /\ o \in SeriesDrafts /\ KeysAreItsOwn(o)
      /\ \A j \in 1 .. Len(o.events) : NamesOK(o.events[j], bankCount)
      /\ o.events[r].key \in 1 .. nextKey - 1
  BY InSeries, DraftIs
<1>1. draft' = [draft EXCEPT !.series[i].anchor = new] /\ wanted' = [wanted EXCEPT ![o.key] = new]
  BY <1>2 DEF SetTimerStart
<1>n. new \in Nat
  BY <1>2 DEF NoAnchor
<1> HIDE DEF new
<1>3. /\ s \in SeriesDrafts /\ s.key = o.key /\ s.anchor = new /\ s.events = o.events
      /\ draft' = [draft EXCEPT !.series[i] = s]
  BY <1>1, <1>2, <1>n DEF SeriesDrafts
<1>4. KeysAreItsOwn(s) /\ KeysIn(s) = KeysIn(o)
  BY <1>2, <1>3 DEF KeysAreItsOwn, KeysIn
<1>5. /\ nextKey' = nextKey /\ bankCount' = bankCount /\ collapsed' = collapsed
      /\ selection' = selection \ {}
  BY DEF SetTimerStart
<1>6. o.key \in DOMAIN wanted
  BY <1>2 DEF DraftOK, ClocksOK
<1>7. /\ nextKey' \in Nat /\ nextKey <= nextKey'
      /\ KeysIn(s) \subseteq KeysIn(draft.series[i]) \cup (nextKey .. nextKey' - 1)
      /\ DOMAIN wanted' = DOMAIN wanted
      /\ \A key \in DOMAIN wanted : wanted'[key] = IF key = s.key THEN s.anchor ELSE wanted[key]
      /\ \A j \in 1 .. Len(s.events) : NamesOK(s.events[j], bankCount)
      /\ \A j \in 1 .. Len(draft.series[i].events) :
           \/ draft.series[i].events[j].key \in {}
           \/ \E k \in 1 .. Len(s.events) : s.events[k].key = draft.series[i].events[j].key
  BY <1>1, <1>2, <1>3, <1>4, <1>5, <1>6
<1> HIDE DEF s
<1> QED
  BY <1>2, <1>3, <1>4, <1>5, <1>7, SeriesChanged

(* addEvent() ends the series with a new key.                              *)
LEMMA AddEventKeeps ==
  ASSUME DraftOK, NEW i \in DOMAIN Series, AddEvent(i)
  PROVE  DraftOK'
<1> DEFINE E == Series[i].events
           e == NewEvent(nextKey)
<1>1. E \in Seq(EventDrafts) /\ nextKey \in Nat
  BY InSeries
<1>2. e \in EventDrafts /\ e.key = nextKey /\ NamesOK(e, bankCount)
  BY <1>1, NewEventIs
<1>3. draft' = [draft EXCEPT !.series[i].events = Append(E, e)]
  BY DEF AddEvent, SetEvents
<1> HIDE DEF e
<1>4. Append(E, e) = InsertAt(E, Len(E) + 1, e) /\ Len(E) + 1 \in 1 .. Len(E) + 1
  BY <1>1, <1>2, AppendIsInsert
<1>5. draft' = [draft EXCEPT !.series[i].events = InsertAt(Series[i].events, Len(E) + 1, e)]
  BY <1>3, <1>4
<1>6. nextKey' = nextKey + 1 /\ UNCHANGED <<collapsed, selection, bankCount, wanted>>
  BY DEF AddEvent
<1> QED
  BY <1>2, <1>4, <1>5, <1>6, EventAdded

(* A copy of an event has a key of its own.                                *)
LEMMA DuplicateEventKeeps ==
  ASSUME DraftOK, NEW i \in DOMAIN Series, NEW j \in Rows(i), DuplicateEvent(i, j)
  PROVE  DraftOK'
<1> DEFINE E == Series[i].events
           e == [E[j] EXCEPT !.key = nextKey]
<1>1. /\ E \in Seq(EventDrafts) /\ nextKey \in Nat /\ j \in 1 .. Len(E)
      /\ E[j] \in EventDrafts /\ NamesOK(E[j], bankCount)
  BY InSeries
<1>2. e \in EventDrafts /\ e.key = nextKey /\ NamesOK(e, bankCount)
  BY <1>1 DEF EventDrafts, NamesOK
<1>3. draft' = [draft EXCEPT !.series[i].events = InsertAt(Series[i].events, j + 1, e)]
  BY DEF DuplicateEvent, SetEvents
<1>4. j + 1 \in 1 .. Len(Series[i].events) + 1
  BY <1>1
<1>5. nextKey' = nextKey + 1 /\ UNCHANGED <<collapsed, selection, bankCount, wanted>>
  BY DEF DuplicateEvent
<1> HIDE DEF e
<1> QED
  BY <1>2, <1>3, <1>4, <1>5, EventAdded

(* Events that change places keep their keys, and the clock its event.     *)
LEMMA MoveEventKeeps ==
  ASSUME DraftOK, NEW i \in DOMAIN Series, MoveEvent(i)
  PROVE  DraftOK'
<1> DEFINE E == Series[i].events
<1>1. PICK move \in Beside(Len(E)) :
        draft' = [draft EXCEPT !.series[i].events = Moved(E, move[1], move[2])]
  BY DEF MoveEvent, SetEvents
<1> DEFINE L == Moved(E, move[1], move[2])
           j == move[1]
           k == move[2]
<1>2. /\ i \in 1 .. Len(draft.series) /\ E = draft.series[i].events
      /\ E \in Seq(EventDrafts) /\ nextKey \in Nat \ {0}
      /\ \A m \in 1 .. Len(E) : NamesOK(E[m], bankCount)
      /\ \A m, l \in 1 .. Len(E) : E[m].key = E[l].key => m = l
  BY InSeries
<1>3. /\ j \in 1 .. Len(E) /\ k \in 1 .. Len(E)
      /\ L = [E EXCEPT ![j] = E[k], ![k] = E[j]]
  <2>1. E \in Seq(EventDrafts) /\ move \in Beside(Len(E))
    BY <1>2
  <2> HIDE DEF E
  <2>2. /\ move \in (1 .. Len(E)) \X (1 .. Len(E))
        /\ Moved(E, move[1], move[2])
             = [E EXCEPT ![move[1]] = E[move[2]], ![move[2]] = E[move[1]]]
    BY <2>1, MovedIs
  <2> QED
    BY <2>2
<1>4. draft' = [draft EXCEPT !.series[i].events = L]
  BY <1>1
<1> HIDE DEF L, j, k, E
<1>5. /\ L \in Seq(EventDrafts) /\ Len(L) = Len(E)
      /\ \A m \in 1 .. Len(E) : L[m] = IF m = k THEN E[j] ELSE IF m = j THEN E[k] ELSE E[m]
  BY <1>2, <1>3
<1> DEFINE at(m) == IF m = k THEN j ELSE IF m = j THEN k ELSE m
<1>6. /\ \A m \in 1 .. Len(E) : at(m) \in 1 .. Len(E) /\ L[m] = E[at(m)] /\ at(at(m)) = m
      /\ \A m, l \in 1 .. Len(E) : at(m) = at(l) => m = l
  BY <1>3, <1>5
<1> HIDE DEF at
<1>7. /\ \A m, l \in 1 .. Len(L) : L[m].key = L[l].key => m = l
      /\ \A m \in 1 .. Len(L) : /\ \E l \in 1 .. Len(E) : L[m].key = E[l].key
                                /\ NamesOK(L[m], bankCount)
  <2>0. \A m \in 1 .. Len(L) : at(m) \in 1 .. Len(E) /\ L[m] = E[at(m)]
    BY <1>5, <1>6
  <2>1. ASSUME NEW m \in 1 .. Len(L), NEW l \in 1 .. Len(L), L[m].key = L[l].key
        PROVE  m = l
    <3>1. /\ at(m) \in 1 .. Len(E) /\ L[m] = E[at(m)]
          /\ at(l) \in 1 .. Len(E) /\ L[l] = E[at(l)]
      BY <2>0
    <3>2. E[at(m)].key = E[at(l)].key
      BY <2>1, <3>1
    <3>3. at(m) = at(l)
      BY <3>1, <3>2, <1>2
    <3> QED
      BY <3>3, <1>5, <1>6
  <2>2. \A m \in 1 .. Len(L) : /\ \E l \in 1 .. Len(E) : L[m].key = E[l].key
                               /\ NamesOK(L[m], bankCount)
    BY <2>0, <1>2
  <2> QED
    BY <2>1, <2>2
<1>8. \A m \in 1 .. Len(E) : \E l \in 1 .. Len(L) : L[l].key = E[m].key
  <2> TAKE m \in 1 .. Len(E)
  <2>1. at(m) \in 1 .. Len(L) /\ L[at(m)] = E[m]
    BY <1>5, <1>6
  <2> QED
    BY <2>1
<1>9. /\ nextKey' = nextKey /\ nextKey' \in Nat /\ nextKey <= nextKey' /\ bankCount' = bankCount
      /\ collapsed' = collapsed /\ wanted' = wanted /\ selection' = selection \ {}
  BY <1>2 DEF MoveEvent, view
<1>10. /\ \A m \in 1 .. Len(L) :
            \/ L[m].key \in nextKey .. nextKey' - 1
            \/ \E l \in 1 .. Len(draft.series[i].events) : L[m].key = draft.series[i].events[l].key
       /\ \A m \in 1 .. Len(draft.series[i].events) :
            \/ draft.series[i].events[m].key \in {}
            \/ \E l \in 1 .. Len(L) : L[l].key = draft.series[i].events[m].key
  BY <1>2, <1>7, <1>8
<1>11. \A m \in 1 .. Len(L) : NamesOK(L[m], bankCount)
  BY <1>7
<1> QED
  BY <1>2, <1>4, <1>5, <1>7, <1>9, <1>10, <1>11, EventsChanged

(* An event that goes takes its tick with it, and a clock that was on it.  *)
LEMMA RemoveEventKeeps ==
  ASSUME DraftOK, NEW i \in DOMAIN Series, NEW r \in Rows(i), RemoveEvent(i, r)
  PROVE  DraftOK'
<1> DEFINE E == Series[i].events
           L == RemoveAt(E, r)
           gone == {E[r].key}
<1>1. draft' = [draft EXCEPT !.series[i].events = L] /\ selection' = selection \ gone
  BY DEF RemoveEvent, SetEvents
<1>2. /\ i \in 1 .. Len(draft.series) /\ E = draft.series[i].events
      /\ E \in Seq(EventDrafts) /\ nextKey \in Nat \ {0} /\ r \in 1 .. Len(E)
      /\ \A m \in 1 .. Len(E) : NamesOK(E[m], bankCount)
      /\ \A m, l \in 1 .. Len(E) : E[m].key = E[l].key => m = l
  BY InSeries
<1>3. L \in Seq(EventDrafts) /\ LeavesOut(L, E, r)
  BY <1>2, RemoveAtIs
<1> HIDE DEF L, E
<1> DEFINE src(k) == IF k < r THEN k ELSE k + 1
<1>4. Len(L) = Len(E) - 1 /\ Len(E) \in Nat
  BY <1>2, <1>3 DEF LeavesOut
<1>5. \A k \in 1 .. Len(L) : src(k) \in 1 .. Len(E) /\ L[k] = E[src(k)]
  BY <1>2, <1>3, <1>4 DEF LeavesOut
<1>6. \A k, l \in 1 .. Len(L) : src(k) = src(l) => k = l
  BY <1>4, <1>2
<1>7. \A m \in 1 .. Len(E) : m = r \/ \E k \in 1 .. Len(L) : src(k) = m
  <2> TAKE m \in 1 .. Len(E)
  <2>1. CASE m < r
    <3>1. m \in 1 .. Len(L) /\ src(m) = m
      BY <2>1, <1>2, <1>4
    <3> QED
      BY <3>1
  <2>2. CASE m > r
    <3>1. m - 1 \in 1 .. Len(L) /\ src(m - 1) = m
      BY <2>2, <1>2, <1>4
    <3> QED
      BY <3>1
  <2> QED
    BY <2>1, <2>2, <1>2
<1> HIDE DEF src
<1>8. /\ \A m, l \in 1 .. Len(L) : L[m].key = L[l].key => m = l
      /\ \A m \in 1 .. Len(L) : /\ \E l \in 1 .. Len(E) : L[m].key = E[l].key
                                /\ NamesOK(L[m], bankCount)
  <2>0. \A m \in 1 .. Len(L) : src(m) \in 1 .. Len(E) /\ L[m] = E[src(m)]
    BY <1>5, <1>6
  <2>1. ASSUME NEW m \in 1 .. Len(L), NEW l \in 1 .. Len(L), L[m].key = L[l].key
        PROVE  m = l
    <3>0. src(m) \in 1 .. Len(E) /\ src(l) \in 1 .. Len(E)
      BY <2>0
    <3>k. E[src(m)].key = E[src(l)].key
      BY <2>0, <2>1
    <3>1. src(m) = src(l)
      BY <3>0, <3>k, <1>2
    <3> QED
      BY <3>1, <1>5, <1>6
  <2>2. \A m \in 1 .. Len(L) : /\ \E l \in 1 .. Len(E) : L[m].key = E[l].key
                               /\ NamesOK(L[m], bankCount)
    BY <2>0, <1>2
  <2> QED
    BY <2>1, <2>2
<1>9. \A m \in 1 .. Len(E) : E[m].key \in gone \/ \E l \in 1 .. Len(L) : L[l].key = E[m].key
  BY <1>5, <1>7
<1>10. /\ nextKey' = nextKey /\ nextKey' \in Nat /\ nextKey <= nextKey' /\ bankCount' = bankCount
       /\ collapsed' = collapsed /\ wanted' = wanted
  BY <1>2 DEF RemoveEvent
<1> HIDE DEF gone
<1>11. /\ \A m \in 1 .. Len(L) :
            \/ L[m].key \in nextKey .. nextKey' - 1
            \/ \E l \in 1 .. Len(draft.series[i].events) : L[m].key = draft.series[i].events[l].key
       /\ \A m \in 1 .. Len(draft.series[i].events) :
            \/ draft.series[i].events[m].key \in gone
            \/ \E l \in 1 .. Len(L) : L[l].key = draft.series[i].events[m].key
       /\ \A m \in 1 .. Len(L) : NamesOK(L[m], bankCount)
  BY <1>2, <1>8, <1>9
<1> QED
  BY <1>1, <1>2, <1>3, <1>8, <1>10, <1>11, EventsChanged

(* A duration is typed.                                                    *)
LEMMA SetDurationKeeps ==
  ASSUME DraftOK, NEW i \in DOMAIN Series, NEW r \in Rows(i), SetDuration(i, r)
  PROVE  DraftOK'
<1> DEFINE o == Series[i].events[r]
<1>1. PICK d \in Durations : draft' = [draft EXCEPT !.series[i].events[r] = [o EXCEPT !.duration = d]]
  BY DEF SetDuration, SetEvent
<1>2. /\ i \in 1 .. Len(draft.series) /\ r \in 1 .. Len(draft.series[i].events)
      /\ o = draft.series[i].events[r] /\ o \in EventDrafts /\ NamesOK(o, bankCount)
  BY InSeries
<1> DEFINE e == [o EXCEPT !.duration = d]
<1>3. e \in EventDrafts /\ e.key = draft.series[i].events[r].key /\ NamesOK(e, bankCount)
  BY <1>2, EditorAssumption DEF EventDrafts, NamesOK
<1>4. UNCHANGED view
  BY DEF SetDuration
<1> HIDE DEF e, o
<1>5. draft' = [draft EXCEPT !.series[i].events[r] = e]
  BY <1>1 DEF e
<1> QED
  BY <1>2, <1>3, <1>4, <1>5, EventChanged

(* A command is chosen.                                                    *)
LEMMA SetCommandKeeps ==
  ASSUME DraftOK, NEW i \in DOMAIN Series, NEW r \in Rows(i), SetCommand(i, r)
  PROVE  DraftOK'
<1> DEFINE o == Series[i].events[r]
<1>1. PICK c \in Commands : draft' = [draft EXCEPT !.series[i].events[r] = [o EXCEPT !.command = c]]
  BY DEF SetCommand, SetEvent
<1>2. /\ i \in 1 .. Len(draft.series) /\ r \in 1 .. Len(draft.series[i].events)
      /\ o = draft.series[i].events[r] /\ o \in EventDrafts /\ NamesOK(o, bankCount)
  BY InSeries
<1> DEFINE e == [o EXCEPT !.command = c]
<1>3. e \in EventDrafts /\ e.key = draft.series[i].events[r].key /\ NamesOK(e, bankCount)
  BY <1>2 DEF EventDrafts, NamesOK
<1>4. UNCHANGED view
  BY DEF SetCommand
<1> HIDE DEF e, o
<1>5. draft' = [draft EXCEPT !.series[i].events[r] = e]
  BY <1>1 DEF e
<1> QED
  BY <1>2, <1>3, <1>4, <1>5, EventChanged

(* A bank goes round from following to showing, hiding and following.      *)
LEMMA CycledIs ==
  ASSUME NEW banks \in BankMaps, NEW count \in 1 .. MaxBanks, NEW bank \in 1 .. count,
         DOMAIN banks \subseteq 1 .. count,
         \A b \in DOMAIN banks : banks[b] \in Turns
  PROVE  /\ Cycled(banks, bank) \in BankMaps
         /\ DOMAIN Cycled(banks, bank) \subseteq 1 .. count
         /\ \A b \in DOMAIN Cycled(banks, bank) : Cycled(banks, bank)[b] \in Turns
<1> DEFINE new == Cycled(banks, bank)
<1>0. MaxBanks \in Nat /\ 1 .. count \subseteq 1 .. MaxBanks + 1
  BY EditorAssumption, DocumentAssumption
<1>1. banks \in [DOMAIN banks -> Turns]
  BY DEF BankMaps
<1>2. \E S \in SUBSET (1 .. count) : new \in [S -> Turns]
  <2>1. CASE bank \notin DOMAIN banks
    <3>1. new = [x \in DOMAIN banks \cup {bank} |-> IF x = bank THEN "show" ELSE banks[x]]
      BY <2>1 DEF Cycled, With
    <3>2. new \in [DOMAIN banks \cup {bank} -> Turns]
      BY <3>1, <1>1 DEF Turns
    <3> QED
      BY <3>2
  <2>2. CASE bank \in DOMAIN banks /\ banks[bank] = "show"
    <3>1. new = [banks EXCEPT ![bank] = "hide"]
      BY <2>2 DEF Cycled
    <3>2. new \in [DOMAIN banks -> Turns]
      BY <3>1, <1>1 DEF Turns
    <3> QED
      BY <3>2
  <2>3. CASE bank \in DOMAIN banks /\ banks[bank] # "show"
    <3>1. new = [x \in DOMAIN banks \ {bank} |-> banks[x]]
      BY <2>3 DEF Cycled, Restrict
    <3>2. new \in [DOMAIN banks \ {bank} -> Turns]
      BY <3>1, <1>1
    <3> QED
      BY <3>2
  <2> QED
    BY <2>1, <2>2, <2>3
<1> HIDE DEF new
<1>3. PICK S \in SUBSET (1 .. count) : new \in [S -> Turns]
  BY <1>2
<1>4. new \in [S -> Turns \cup {"other"}] /\ S \in SUBSET (1 .. MaxBanks + 1)
  BY <1>0, <1>3
<1>5. new \in BankMaps
  BY <1>4 DEF BankMaps
<1> QED
  BY <1>3, <1>5 DEF new

(* Only a bank that is offered is overridden.                              *)
LEMMA OverrideBankKeeps ==
  ASSUME DraftOK, NEW i \in DOMAIN Series, NEW r \in Rows(i), OverrideBank(i, r)
  PROVE  DraftOK'
<1> DEFINE o == Series[i].events[r]
           offered == 1 .. Max({bankCount} \cup DOMAIN o.banks)
<1>1. PICK bank \in offered : draft' = [draft EXCEPT !.series[i].events[r] = [o EXCEPT !.banks = Cycled(@, bank)]]
  BY DEF OverrideBank, SetEvent
<1>2. /\ i \in 1 .. Len(draft.series) /\ r \in 1 .. Len(draft.series[i].events)
      /\ o = draft.series[i].events[r] /\ o \in EventDrafts /\ NamesOK(o, bankCount)
  BY InSeries
<1>3. bankCount \in 1 .. MaxBanks /\ MaxBanks \in Nat
  BY EditorAssumption, DocumentAssumption DEF DraftOK
<1>4. bank \in 1 .. bankCount
  <2> DEFINE S == {bankCount} \cup DOMAIN o.banks
  <2>1. S \subseteq 0 .. bankCount /\ S # {}
    BY <1>2, <1>3 DEF NamesOK
  <2>2. Max(S) \in S
    BY <2>1, <1>3, MaxIs
  <2> QED
    BY <2>1, <2>2, <1>3
<1> DEFINE new == Cycled(o.banks, bank)
           e == [o EXCEPT !.banks = new]
<1>5. /\ new \in BankMaps
      /\ DOMAIN new \subseteq 1 .. bankCount
      /\ \A b \in DOMAIN new : new[b] \in Turns
  BY <1>2, <1>3, <1>4, CycledIs DEF NamesOK, EventDrafts
<1> HIDE DEF new
<1>6. e \in EventDrafts /\ e.key = draft.series[i].events[r].key /\ NamesOK(e, bankCount)
  BY <1>2, <1>5 DEF EventDrafts, NamesOK
<1>7. UNCHANGED view
  BY DEF OverrideBank
<1>8. draft' = [draft EXCEPT !.series[i].events[r] = e]
  BY <1>1 DEF new
<1> HIDE DEF e, o
<1> QED
  BY <1>2, <1>6, <1>7, <1>8, EventChanged

(* Clips are added and removed.                                            *)
LEMMA EditClipsKeeps ==
  ASSUME DraftOK, NEW i \in DOMAIN Series, NEW r \in Rows(i), EditClips(i, r)
  PROVE  DraftOK'
<1> DEFINE o == Series[i].events[r]
<1>2. /\ i \in 1 .. Len(draft.series) /\ r \in 1 .. Len(draft.series[i].events)
      /\ o = draft.series[i].events[r] /\ o \in EventDrafts /\ NamesOK(o, bankCount)
  BY InSeries
<1>3. o.clips \in Seq(Nat)
  BY <1>2 DEF EventDrafts
<1>4. \E clips \in Seq(Nat) :
        draft' = [draft EXCEPT !.series[i].events[r] = [o EXCEPT !.clips = clips]]
  <2>1. CASE \E id \in Clips \ ToSet(o.clips) : SetEvent(i, r, [o EXCEPT !.clips = Append(@, id)])
    <3>1. PICK id \in Clips : SetEvent(i, r, [o EXCEPT !.clips = Append(@, id)])
      BY <2>1
    <3>2. Append(o.clips, id) \in Seq(Nat)
      BY <1>3, EditorAssumption
    <3> QED
      BY <3>1, <3>2 DEF SetEvent
  <2>2. CASE \E k \in DOMAIN o.clips : SetEvent(i, r, [o EXCEPT !.clips = RemoveAt(@, k)])
    <3>1. PICK k \in DOMAIN o.clips : SetEvent(i, r, [o EXCEPT !.clips = RemoveAt(@, k)])
      BY <2>2
    <3>2. RemoveAt(o.clips, k) \in Seq(Nat)
      BY <1>3, RemoveAtIs
    <3> QED
      BY <3>1, <3>2 DEF SetEvent
  <2>3. CASE \E move \in Beside(Len(o.clips)) :
               SetEvent(i, r, [o EXCEPT !.clips = Moved(@, move[1], move[2])])
    <3>1. PICK move \in Beside(Len(o.clips)) :
            SetEvent(i, r, [o EXCEPT !.clips = Moved(@, move[1], move[2])])
      BY <2>3
    <3>3. Moved(o.clips, move[1], move[2]) \in Seq(Nat)
      BY <1>3, MovedTyped
    <3> QED
      BY <3>1, <3>3 DEF SetEvent
  <2> QED
    BY <2>1, <2>2, <2>3 DEF EditClips
<1>5. PICK clips \in Seq(Nat) :
        draft' = [draft EXCEPT !.series[i].events[r] = [o EXCEPT !.clips = clips]]
  BY <1>4
<1> DEFINE e == [o EXCEPT !.clips = clips]
<1>6. e \in EventDrafts /\ e.key = draft.series[i].events[r].key /\ NamesOK(e, bankCount)
  BY <1>2, <1>5 DEF EventDrafts, NamesOK
<1>7. UNCHANGED view
  BY DEF EditClips
<1>8. draft' = [draft EXCEPT !.series[i].events[r] = e]
  BY <1>5
<1> HIDE DEF e, o
<1> QED
  BY <1>2, <1>6, <1>7, <1>8, EventChanged
-----------------------------------------------------------------------------
(* Operations on the list of series *)

(* A series that is new, with keys from n on.                              *)
NewOK(s, n, m, c, w) ==
  /\ KeysAreItsOwn(s) /\ KeysIn(s) \subseteq n .. m - 1
  /\ \A j \in 1 .. Len(s.events) : NamesOK(s.events[j], c)
  /\ s.key \in DOMAIN w /\ w[s.key] = s.anchor

(* The list L holds series of the draft, each from a place of its own, and *)
(* s where src says 0.                                                     *)
Rearranged(L, src, s, old) ==
  /\ src \in [1 .. Len(L) -> 0 .. Len(old)]
  /\ \A j, k \in 1 .. Len(L) : src[j] = src[k] => j = k
  /\ \A k \in 1 .. Len(L) : L[k] = IF src[k] = 0 THEN s ELSE old[src[k]]

LEMMA ListChanged ==
  ASSUME DraftOK, NEW L \in Seq(SeriesDrafts), NEW s \in SeriesDrafts, NEW src,
         Rearranged(L, src, s, draft.series),
         draft' = [draft EXCEPT !.series = L],
         nextKey' \in Nat, nextKey <= nextKey', bankCount' = bankCount,
         collapsed' \subseteq collapsed, selection' \subseteq selection,
         (\A k \in 1 .. Len(L) : src[k] # 0) \/ NewOK(s, nextKey, nextKey', bankCount, wanted'),
         DOMAIN wanted \subseteq DOMAIN wanted', DOMAIN wanted' \subseteq 1 .. nextKey' - 1,
         \A key \in DOMAIN wanted : wanted'[key] = wanted[key],
         \A i \in 1 .. Len(draft.series) :
           \/ \E k \in 1 .. Len(L) : src[k] = i
           \/ \A j \in 1 .. Len(draft.series[i].events) :
                draft.series[i].events[j].key \notin selection'
  PROVE  DraftOK'
<1> DEFINE old == draft.series
           N == Len(old)
           M == Len(L)
           n == nextKey
           m == nextKey'
<1>1. /\ draft \in Drafts /\ n \in Nat \ {0} /\ bankCount \in 1 .. MaxBanks
      /\ DOMAIN old = 1 .. N /\ N \in Nat
      /\ \A i \in 1 .. N : old[i] \in SeriesDrafts
  BY DraftIs DEF DraftOK
<1>2. draft' \in Drafts /\ draft'.series = L
  BY <1>1 DEF Drafts
<1>3. \A i \in 1 .. N :
        /\ KeysAreItsOwn(old[i])
        /\ KeysIn(old[i]) \subseteq 1 .. n - 1
        /\ \A l \in 1 .. N : l # i => KeysIn(old[i]) \cap KeysIn(old[l]) = {}
        /\ \A j \in DOMAIN old[i].events : NamesOK(old[i].events[j], bankCount)
        /\ old[i].key \in DOMAIN wanted /\ wanted[old[i].key] = old[i].anchor
  BY <1>1 DEF DraftOK, KeysOK, BanksOK, ClocksOK
<1>4. M \in Nat /\ DOMAIN L = 1 .. M
  OBVIOUS
<1>5. \A k \in 1 .. M : src[k] \in 0 .. N /\ L[k] = IF src[k] = 0 THEN s ELSE old[src[k]]
  BY DEF Rearranged
<1>6. \A j, k \in 1 .. M : src[j] = src[k] => j = k
  BY DEF Rearranged
<1>s. \A k \in 1 .. M : src[k] = 0 => NewOK(s, n, m, bankCount, wanted')
  OBVIOUS
<1>n. n \in Nat \ {0} /\ m \in Nat /\ n <= m
  BY <1>1
<1> HIDE DEF N, M, n, m, old
<1>7. \A k \in 1 .. M : src[k] # 0 => src[k] \in 1 .. N /\ L[k] = old[src[k]]
  BY <1>1, <1>5
<1>8. \A k \in 1 .. M : src[k] = 0 => L[k] = s
  BY <1>5
<1>9. ASSUME NEW k \in 1 .. M
      PROVE  KeysAreItsOwn(L[k]) /\ KeysIn(L[k]) \subseteq 1 .. m - 1
  <2>1. CASE src[k] = 0
    <3>1. KeysAreItsOwn(s) /\ KeysIn(s) \subseteq n .. m - 1
      BY <2>1, <1>s DEF NewOK
    <3>2. n .. m - 1 \subseteq 1 .. m - 1
      BY <1>n
    <3> QED
      BY <3>1, <3>2, <2>1, <1>8
  <2>2. CASE src[k] # 0
    <3>1. 1 .. n - 1 \subseteq 1 .. m - 1
      BY <1>n
    <3> QED
      BY <2>2, <3>1, <1>3, <1>7
  <2> QED
    BY <2>1, <2>2
<1>10. ASSUME NEW k \in 1 .. M, NEW l \in 1 .. M, l # k
       PROVE  KeysIn(L[k]) \cap KeysIn(L[l]) = {}
  <2>0. \A x \in n .. m - 1 : x \notin 1 .. n - 1
    BY <1>n
  <2>1. ASSUME src[k] = 0 \/ src[l] = 0 PROVE KeysIn(s) \subseteq n .. m - 1
    BY <2>1, <1>s DEF NewOK
  <2>2. CASE src[k] = 0
    <3>1. src[l] # 0
      BY <2>2, <1>6, <1>10
    <3>2. KeysIn(L[l]) \subseteq 1 .. n - 1
      BY <3>1, <1>3, <1>7
    <3>3. KeysIn(L[k]) \subseteq n .. m - 1
      BY <2>1, <2>2, <1>8
    <3> QED
      BY <2>0, <3>2, <3>3
  <2>3. CASE src[l] = 0
    <3>1. src[k] # 0
      BY <2>3, <1>6, <1>10
    <3>2. KeysIn(L[k]) \subseteq 1 .. n - 1
      BY <3>1, <1>3, <1>7
    <3>3. KeysIn(L[l]) \subseteq n .. m - 1
      BY <2>1, <2>3, <1>8
    <3> QED
      BY <2>0, <3>2, <3>3
  <2>4. CASE src[k] # 0 /\ src[l] # 0
    <3>1. src[k] \in 1 .. N /\ src[l] \in 1 .. N /\ src[l] # src[k]
      BY <2>4, <1>6, <1>7, <1>10
    <3>2. KeysIn(old[src[k]]) \cap KeysIn(old[src[l]]) = {}
      BY <3>1, <1>3
    <3>3. L[k] = old[src[k]] /\ L[l] = old[src[l]]
      BY <2>4, <1>7
    <3> QED
      BY <3>2, <3>3
  <2> QED
    BY <2>2, <2>3, <2>4
<1>11. KeysOK(draft', nextKey')
  BY <1>2, <1>4, <1>9, <1>10 DEF KeysOK, m
<1>12. ASSUME NEW k \in 1 .. M
       PROVE  /\ \A j \in DOMAIN L[k].events : NamesOK(L[k].events[j], bankCount)
              /\ L[k].key \in DOMAIN wanted' /\ wanted'[L[k].key] = L[k].anchor
  <2>1. CASE src[k] = 0
    <3>1. /\ \A j \in 1 .. Len(s.events) : NamesOK(s.events[j], bankCount)
          /\ s.key \in DOMAIN wanted' /\ wanted'[s.key] = s.anchor
      BY <2>1, <1>s DEF NewOK
    <3>2. DOMAIN s.events = 1 .. Len(s.events)
      BY KeysInIs
    <3> QED
      BY <2>1, <3>1, <3>2, <1>8
  <2>2. CASE src[k] # 0
    <3>1. src[k] \in 1 .. N /\ L[k] = old[src[k]]
      BY <2>2, <1>7
    <3>2. /\ \A j \in DOMAIN old[src[k]].events : NamesOK(old[src[k]].events[j], bankCount)
          /\ old[src[k]].key \in DOMAIN wanted /\ wanted[old[src[k]].key] = old[src[k]].anchor
      BY <3>1, <1>3
    <3> QED
      BY <3>1, <3>2
  <2> QED
    BY <2>1, <2>2
<1>13. BanksOK(draft', bankCount')
  BY <1>2, <1>4, <1>12 DEF BanksOK
<1>14. ClocksOK(draft', wanted', nextKey')
  BY <1>2, <1>4, <1>12 DEF ClocksOK
<1>15. TicksOK(draft', selection', collapsed')
  <2> SUFFICES ASSUME NEW x \in selection'
               PROVE  Seen(draft', collapsed', x)
    BY DEF TicksOK
  <2>1. Seen(draft, collapsed, x)
    BY DEF DraftOK, TicksOK
  <2>2. PICK i \in 1 .. N : /\ old[i].key \notin collapsed
                            /\ \E j \in DOMAIN old[i].events : x = old[i].events[j].key
    BY <2>1, <1>1 DEF Seen, old
  <2>3. DOMAIN old[i].events = 1 .. Len(old[i].events)
    BY <1>1, KeysInIs
  <2>4. PICK k \in 1 .. M : src[k] = i
    BY <2>2, <2>3 DEF old, N, M
  <2>5. L[k] = old[i]
    BY <2>4, <1>7
  <2>6. /\ L[k].key \notin collapsed'
        /\ \E j \in DOMAIN L[k].events : x = L[k].events[j].key
    BY <2>2, <2>5
  <2> QED
    BY <2>6, <1>2, <1>4 DEF Seen
<1>16. nextKey' \in Nat \ {0}
  BY <1>n DEF m, n
<1> QED
  BY <1>1, <1>2, <1>11, <1>13, <1>14, <1>15, <1>16 DEF DraftOK

(* The title is typed.                                                     *)
LEMMA SetTitleKeeps == ASSUME DraftOK, SetTitle PROVE DraftOK'
<1>1. PICK t \in Names : draft' = [draft EXCEPT !.title = t]
  BY DEF SetTitle
<1>2. draft \in Drafts
  BY DEF DraftOK
<1>3. draft' \in Drafts /\ draft'.series = draft.series
  BY <1>1, <1>2 DEF Drafts
<1>4. UNCHANGED <<collapsed, selection, nextKey, bankCount, wanted>>
  BY DEF SetTitle, view
<1>5. /\ KeysOK(draft', nextKey') /\ BanksOK(draft', bankCount')
      /\ ClocksOK(draft', wanted', nextKey') /\ TicksOK(draft', selection', collapsed')
  <2>1. KeysOK(draft', nextKey')
    BY <1>3, <1>4 DEF DraftOK, KeysOK
  <2>2. BanksOK(draft', bankCount')
    BY <1>3, <1>4 DEF DraftOK, BanksOK
  <2>3. ClocksOK(draft', wanted', nextKey')
    BY <1>3, <1>4 DEF DraftOK, ClocksOK
  <2>4. TicksOK(draft', selection', collapsed')
    BY <1>3, <1>4 DEF DraftOK, TicksOK, Seen
  <2> QED
    BY <2>1, <2>2, <2>3, <2>4
<1> QED
  BY <1>3, <1>4, <1>5 DEF DraftOK

(* A clock that is given to a series with a new key.                       *)
LEMMA WithNew ==
  ASSUME NEW map, NEW key, NEW value, key \notin DOMAIN map
  PROVE  /\ DOMAIN With(map, key, value) = DOMAIN map \cup {key}
         /\ With(map, key, value)[key] = value
         /\ \A k \in DOMAIN map : With(map, key, value)[k] = map[k]
BY DEF With

(* A new series uses the two next keys.                                    *)
LEMMA NewSeriesIs ==
  ASSUME NEW n \in Nat \ {0}, NEW c \in Nat
  PROVE  /\ NewSeries(n) \in SeriesDrafts /\ NewSeries(n).key = n
         /\ NewSeries(n).anchor = NoAnchor
         /\ KeysAreItsOwn(NewSeries(n)) /\ KeysIn(NewSeries(n)) \subseteq n .. n + 1
         /\ \A j \in 1 .. Len(NewSeries(n).events) : NamesOK(NewSeries(n).events[j], c)
<1> DEFINE e == NewEvent(n + 1)
           s == NewSeries(n)
<1>1. e \in EventDrafts /\ e.key = n + 1 /\ NamesOK(e, c)
  BY NewEventIs
<1>2. s = [key |-> n, name |-> NoName, anchor |-> NoAnchor, events |-> <<e>>]
  BY DEF NewSeries
<1> HIDE DEF e
<1>3. <<e>> \in Seq(EventDrafts) /\ Len(<<e>>) = 1 /\ <<e>>[1] = e
  BY <1>1
<1>4. s \in SeriesDrafts /\ s.key = n /\ s.anchor = NoAnchor /\ s.events = <<e>>
  BY <1>2, <1>3, EditorAssumption, DocumentAssumption DEF SeriesDrafts,
     NoAnchor
<1> HIDE DEF s
<1>5. \A j \in 1 .. Len(s.events) : j = 1 /\ s.events[j] = e
  BY <1>3, <1>4
<1>6. KeysAreItsOwn(s)
  BY <1>1, <1>4, <1>5, KeysInIs
<1>7. \A key \in KeysIn(s) : key = n \/ key = n + 1
  BY <1>1, <1>4, <1>5, KeysInIs
<1> QED
  BY <1>1, <1>4, <1>5, <1>6, <1>7 DEF s

(* The clock of a series that starts on an event past the first.           *)
LEMMA AnchorIs ==
  ASSUME NEW s \in SeriesDrafts, KeysAreItsOwn(s)
  PROVE  LET at == {j \in 2 .. Len(s.events) : s.events[j].key = s.anchor}
         IN  \/ at = {} /\ AnchorIndex(s) = 0
             \/ \E j \in 2 .. Len(s.events) : at = {j} /\ Min(at) = j /\ AnchorIndex(s) = j - 1
<1> DEFINE E == s.events
           N == Len(E)
           at == {j \in 2 .. N : E[j].key = s.anchor}
           all == {j \in 1 .. N : E[j].key = s.anchor}
<1>1. /\ N \in Nat /\ DOMAIN E = 1 .. N
      /\ \A j, k \in 1 .. N : E[j].key = E[k].key => j = k
  BY KeysInIs
<1>2. AnchorIndex(s) = IF all = {} THEN 0 ELSE Min(all) - 1
  BY <1>1 DEF AnchorIndex
<1> HIDE DEF E, N
<1>3. \A j, k \in all : j = k
  BY <1>1
<1>4. \A j \in at : j \in all
  BY <1>1
<1>5. CASE all = {}
  BY <1>2, <1>4, <1>5 DEF E, N
<1>6. CASE all # {}
  <2>1. PICK j \in 1 .. N : j \in all
    BY <1>6
  <2>2. all = {j}
    BY <1>3, <2>1
  <2>3. Min(all) = j /\ AnchorIndex(s) = j - 1
    BY <1>1, <1>2, <2>2, MinOfOne
  <2>4. CASE j = 1
    <3>1. \A k \in at : k = 1
      BY <1>4, <2>2, <2>4
    <3>2. at = {}
      BY <3>1, <1>1
    <3> QED
      BY <3>2, <2>3, <2>4 DEF E, N
  <2>5. CASE j # 1
    <3>1. j \in 2 .. N /\ j \in at
      BY <2>1, <2>5, <1>1
    <3>2. at = {j}
      BY <3>1, <1>4, <2>2
    <3>3. Min(at) = j
      BY <2>2, <2>3, <3>2
    <3> QED
      BY <3>1, <3>2, <3>3, <2>3 DEF E, N
  <2> QED
    BY <2>4, <2>5
<1> QED
  BY <1>5, <1>6

(* A series put among the others moves none of them past another.          *)
LEMMA AppendArranges ==
  ASSUME NEW old \in Seq(SeriesDrafts), NEW s \in SeriesDrafts, NEW at \in 1 .. Len(old) + 1
  PROVE  /\ InsertAt(old, at, s) \in Seq(SeriesDrafts)
         /\ \E src : /\ Rearranged(InsertAt(old, at, s), src, s, old)
                     /\ \A i \in 1 .. Len(old) :
                          \E k \in 1 .. Len(InsertAt(old, at, s)) : src[k] = i
<1> DEFINE L == InsertAt(old, at, s)
           N == Len(old)
           src == [k \in 1 .. N + 1 |-> IF k < at THEN k ELSE IF k = at THEN 0 ELSE k - 1]
<1>1. N \in Nat /\ at \in 1 .. N + 1
  OBVIOUS
<1>2. L \in Seq(SeriesDrafts) /\ TakesIn(L, old, at, s)
  BY InsertAtIs
<1>3. /\ Len(L) = N + 1
      /\ \A k \in 1 .. N + 1 : L[k] = IF k < at THEN old[k] ELSE IF k = at THEN s ELSE old[k - 1]
  BY <1>2 DEF TakesIn
<1> HIDE DEF L, N
<1>4. src \in [1 .. N + 1 -> 0 .. N]
  BY <1>1
<1>5. \A k \in 1 .. N + 1 : src[k] = IF k < at THEN k ELSE IF k = at THEN 0 ELSE k - 1
  OBVIOUS
<1> HIDE DEF src
<1>6. \A j, k \in 1 .. N + 1 : src[j] = src[k] => j = k
  BY <1>1, <1>5
<1>7. \A k \in 1 .. N + 1 : L[k] = IF src[k] = 0 THEN s ELSE old[src[k]]
  <2> TAKE k \in 1 .. N + 1
  <2>1. CASE k < at
    BY <2>1, <1>1, <1>3, <1>5
  <2>2. CASE k = at
    BY <2>2, <1>1, <1>3, <1>5
  <2>3. CASE k > at
    BY <2>3, <1>1, <1>3, <1>5
  <2> QED
    BY <2>1, <2>2, <2>3, <1>1
<1>8. \A i \in 1 .. N : \E k \in 1 .. N + 1 : src[k] = i
  <2> TAKE i \in 1 .. N
  <2>1. CASE i < at
    <3>1. i \in 1 .. N + 1 /\ src[i] = i
      BY <2>1, <1>1, <1>5
    <3> QED
      BY <3>1
  <2>2. CASE ~ i < at
    <3>1. i + 1 \in 1 .. N + 1 /\ src[i + 1] = i
      BY <2>2, <1>1, <1>5
    <3> QED
      BY <3>1
  <2> QED
    BY <2>1, <2>2
<1>9. Rearranged(L, src, s, old)
  BY <1>3, <1>4, <1>6, <1>7 DEF Rearranged, N
<1> QED
  BY <1>2, <1>3, <1>8, <1>9 DEF L, N

(* A series is added, new or a copy.                                       *)
LEMMA SeriesAdded ==
  ASSUME DraftOK, NEW s \in SeriesDrafts, NEW at \in 1 .. Len(draft.series) + 1,
         draft' = [draft EXCEPT !.series = InsertAt(draft.series, at, s)],
         nextKey' \in Nat, nextKey <= nextKey',
         wanted' = With(wanted, s.key, s.anchor),
         KeysAreItsOwn(s), KeysIn(s) \subseteq nextKey .. nextKey' - 1,
         \A j \in 1 .. Len(s.events) : NamesOK(s.events[j], bankCount),
         UNCHANGED <<collapsed, selection, bankCount>>
  PROVE  DraftOK'
<1> DEFINE old == draft.series
           L == InsertAt(old, at, s)
<1>1. /\ draft \in Drafts /\ nextKey \in Nat \ {0}
      /\ old \in Seq(SeriesDrafts)
      /\ DOMAIN wanted \subseteq 1 .. nextKey - 1
  BY DraftIs DEF DraftOK, ClocksOK
<1>2. L \in Seq(SeriesDrafts)
  BY <1>1, AppendArranges
<1>3. PICK src : /\ Rearranged(L, src, s, old)
                 /\ \A i \in 1 .. Len(old) : \E k \in 1 .. Len(L) : src[k] = i
  BY <1>1, AppendArranges
<1>4. draft' = [draft EXCEPT !.series = L]
  OBVIOUS
<1> HIDE DEF L
<1>5. s.key \in KeysIn(s)
  BY KeysInIs
<1>6. s.key \in nextKey .. nextKey' - 1
  BY <1>5
<1>7. s.key \notin DOMAIN wanted
  <2>1. s.key \notin 1 .. nextKey - 1
    BY <1>1, <1>6
  <2> QED
    BY <1>1, <2>1
<1>8. /\ DOMAIN wanted' = DOMAIN wanted \cup {s.key}
      /\ wanted'[s.key] = s.anchor
      /\ \A k \in DOMAIN wanted : wanted'[k] = wanted[k]
  <2> DEFINE w == With(wanted, s.key, s.anchor)
  <2>1. /\ DOMAIN w = DOMAIN wanted \cup {s.key}
        /\ w[s.key] = s.anchor
        /\ \A k \in DOMAIN wanted : w[k] = wanted[k]
    BY <1>7 DEF With
  <2>2. wanted' = w
    OBVIOUS
  <2> HIDE DEF w
  <2> QED
    BY <2>1, <2>2
<1>9. DOMAIN wanted' \subseteq 1 .. nextKey' - 1
  <2>1. 1 .. nextKey - 1 \subseteq 1 .. nextKey' - 1 /\ nextKey .. nextKey' - 1 \subseteq 1 .. nextKey' - 1
    BY <1>1
  <2> QED
    BY <2>1, <1>1, <1>6, <1>8
<1>10. NewOK(s, nextKey, nextKey', bankCount, wanted')
  BY <1>8 DEF NewOK
<1>11. /\ bankCount' = bankCount /\ collapsed' \subseteq collapsed /\ selection' \subseteq selection
       /\ DOMAIN wanted \subseteq DOMAIN wanted'
  BY <1>8
<1> QED
  BY <1>2, <1>3, <1>4, <1>8, <1>9, <1>10, <1>11, ListChanged

(* addSeries() ends the program with keys of its own.                      *)
LEMMA AddSeriesKeeps == ASSUME DraftOK, AddSeries PROVE DraftOK'
<1> DEFINE s == NewSeries(nextKey)
           old == draft.series
<1>1. /\ draft \in Drafts /\ nextKey \in Nat \ {0} /\ bankCount \in Nat
      /\ old \in Seq(SeriesDrafts)
  BY DraftIs, EditorAssumption, DocumentAssumption DEF DraftOK
<1>2. /\ s \in SeriesDrafts /\ s.key = nextKey /\ s.anchor = NoAnchor
      /\ KeysAreItsOwn(s) /\ KeysIn(s) \subseteq nextKey .. nextKey + 1
      /\ \A j \in 1 .. Len(s.events) : NamesOK(s.events[j], bankCount)
  BY <1>1, NewSeriesIs
<1>3. /\ draft' = [draft EXCEPT !.series = Append(old, s)]
      /\ nextKey' = nextKey + 2 /\ wanted' = With(wanted, nextKey, NoAnchor)
      /\ UNCHANGED <<collapsed, selection, bankCount>>
  BY DEF AddSeries
<1> HIDE DEF s
<1>4. Append(old, s) = InsertAt(old, Len(old) + 1, s) /\ Len(old) + 1 \in 1 .. Len(old) + 1
  BY <1>1, <1>2, AppendIsInsert
<1>5. /\ nextKey' \in Nat /\ nextKey <= nextKey' /\ nextKey' - 1 = nextKey + 1
  BY <1>1, <1>3
<1>6. wanted' = With(wanted, s.key, s.anchor) /\ KeysIn(s) \subseteq nextKey .. nextKey' - 1
  BY <1>2, <1>3, <1>5
<1> QED
  BY <1>2, <1>3, <1>4, <1>5, <1>6, SeriesAdded

(* A copy of a series has keys of its own, and its clock on the copy of the event. *)
LEMMA CopyIs ==
  ASSUME NEW o \in SeriesDrafts, KeysAreItsOwn(o), NEW n \in Nat \ {0}, NEW c,
         \A j \in 1 .. Len(o.events) : NamesOK(o.events[j], c)
  PROVE  /\ CopyOf(o, n) \in SeriesDrafts
         /\ CopyOf(o, n).key = n + Len(o.events)
         /\ KeysAreItsOwn(CopyOf(o, n))
         /\ KeysIn(CopyOf(o, n)) \subseteq n .. n + Len(o.events)
         /\ \A j \in 1 .. Len(CopyOf(o, n).events) : NamesOK(CopyOf(o, n).events[j], c)
         /\ LET at == {j \in 2 .. Len(o.events) : o.events[j].key = o.anchor}
            IN  CopyOf(o, n).anchor = IF at = {} THEN NoAnchor ELSE CopyOf(o, n).events[Min(at)].key
<1> DEFINE N == Len(o.events)
           E == [j \in 1 .. N |-> [o.events[j] EXCEPT !.key = n + j - 1]]
           s == CopyOf(o, n)
           at == {j \in 2 .. N : o.events[j].key = o.anchor}
<1>1. N \in Nat /\ \A j \in 1 .. N : o.events[j] \in EventDrafts
  BY KeysInIs
<1>2. /\ s.key = n + N
      /\ s.anchor = IF AnchorIndex(o) > 0 THEN n + AnchorIndex(o) ELSE NoAnchor
      /\ s.events = E /\ s.name = o.name
      /\ s = [key |-> s.key, name |-> s.name, anchor |-> s.anchor, events |-> s.events]
      /\ s.name \in Names
  <2> DEFINE anchor == IF AnchorIndex(o) > 0 THEN n + AnchorIndex(o) ELSE NoAnchor
  <2>1. o = [key |-> o.key, name |-> o.name, anchor |-> o.anchor, events |-> o.events]
        /\ o.name \in Names
    BY DEF SeriesDrafts
  <2>2. s = [o EXCEPT !.key = n + N, !.anchor = anchor, !.events = E]
    BY DEF CopyOf
  <2> HIDE DEF s, E, N, anchor
  <2>3. s = [key |-> n + N, name |-> o.name, anchor |-> anchor, events |-> E]
    BY <2>1, <2>2
  <2>4. /\ s.key = n + N /\ s.anchor = anchor /\ s.events = E /\ s.name = o.name
        /\ s = [key |-> s.key, name |-> s.name, anchor |-> s.anchor, events |-> s.events]
    BY <2>3
  <2> QED
    BY <2>1, <2>4 DEF anchor
<1>3. \/ at = {} /\ AnchorIndex(o) = 0
      \/ \E j \in 2 .. N : at = {j} /\ Min(at) = j /\ AnchorIndex(o) = j - 1
  BY AnchorIs
<1> HIDE DEF s, N
<1>4. \A j \in 1 .. N : /\ E[j] \in EventDrafts /\ E[j].key = n + j - 1
                        /\ NamesOK(E[j], c)
  <2> TAKE j \in 1 .. N
  <2>1. o.events[j] \in EventDrafts /\ NamesOK(o.events[j], c) /\ n + j - 1 \in Nat
    BY <1>1 DEF N
  <2>2. E[j] = [o.events[j] EXCEPT !.key = n + j - 1]
    OBVIOUS
  <2> HIDE DEF E
  <2> QED
    BY <2>1, <2>2 DEF EventDrafts, NamesOK
<1>5. E \in Seq(EventDrafts) /\ Len(E) = N
  BY <1>1, <1>4
<1> HIDE DEF E
<1>6. s.key \in Nat /\ s.anchor \in Nat
  <2>1. AnchorIndex(o) \in Nat
    <3> HIDE DEF at
    <3>1. AnchorIndex(o) = 0 \/ \E j \in 2 .. N : AnchorIndex(o) = j - 1
      BY <1>3
    <3> QED
      BY <3>1, <1>1
  <2> QED
    BY <2>1, <1>1, <1>2 DEF NoAnchor
<1>7. s \in SeriesDrafts
  BY <1>2, <1>5, <1>6 DEF SeriesDrafts
<1>8. /\ \A j \in 1 .. Len(s.events) : s.events[j].key # s.key
      /\ \A j, k \in 1 .. Len(s.events) : s.events[j].key = s.events[k].key => j = k
  BY <1>1, <1>2, <1>4, <1>5
<1>9. KeysAreItsOwn(s)
  BY <1>7, <1>8, KeysInIs
<1>10. KeysIn(s) \subseteq n .. n + N
  <2> SUFFICES ASSUME NEW key \in KeysIn(s) PROVE key \in n .. n + N
    OBVIOUS
  <2>1. key = s.key \/ \E j \in 1 .. Len(s.events) : key = s.events[j].key
    BY <1>7, KeysInIs
  <2>2. CASE key = s.key
    BY <2>2, <1>1, <1>2
  <2>3. CASE \E j \in 1 .. Len(s.events) : key = s.events[j].key
    BY <2>3, <1>1, <1>2, <1>4, <1>5
  <2> QED
    BY <2>1, <2>2, <2>3
<1>11. s.anchor = IF at = {} THEN NoAnchor ELSE s.events[Min(at)].key
  <2>1. CASE at = {} /\ AnchorIndex(o) = 0
    BY <2>1, <1>2
  <2>2. ASSUME NEW j \in 2 .. N, at = {j}, Min(at) = j, AnchorIndex(o) = j - 1
        PROVE  s.anchor = s.events[Min(at)].key /\ at # {}
    <3>1. j \in 1 .. N /\ j - 1 > 0 /\ n + j - 1 = n + (j - 1)
      BY <1>1
    <3> HIDE DEF at
    <3> QED
      BY <2>2, <3>1, <1>2, <1>4
  <2> HIDE DEF at
  <2> QED
    BY <1>3, <2>1, <2>2
<1> QED
  BY <1>2, <1>4, <1>5, <1>7, <1>9, <1>10, <1>11 DEF s, N

(* A copied series starts its clock where its original does.               *)
LEMMA DuplicateSeriesKeeps ==
  ASSUME DraftOK, NEW i \in DOMAIN Series, DuplicateSeries(i) PROVE DraftOK'
<1> DEFINE o == draft.series[i]
           s == CopyOf(o, nextKey)
           N == Len(o.events)
           at == {j \in 2 .. N : o.events[j].key = o.anchor}
<1>1. /\ draft \in Drafts /\ nextKey \in Nat \ {0} /\ Series = draft.series
      /\ i \in 1 .. Len(draft.series) /\ o \in SeriesDrafts /\ KeysAreItsOwn(o)
      /\ \A j \in 1 .. N : NamesOK(o.events[j], bankCount)
  BY InSeries
<1>2. wanted[o.key] = o.anchor
  BY <1>1, DraftIs DEF DraftOK, ClocksOK
<1>3. /\ draft' = [draft EXCEPT !.series = InsertAt(draft.series, i + 1, s)]
      /\ nextKey' = nextKey + N + 1
      /\ wanted' = With(wanted, s.key, IF at = {} THEN NoAnchor ELSE s.events[Min(at)].key)
      /\ UNCHANGED <<collapsed, selection, bankCount>>
  BY <1>1, <1>2 DEF DuplicateSeries
<1>4. /\ s \in SeriesDrafts /\ s.key = nextKey + N /\ KeysAreItsOwn(s)
      /\ KeysIn(s) \subseteq nextKey .. nextKey + N
      /\ \A j \in 1 .. Len(s.events) : NamesOK(s.events[j], bankCount)
      /\ s.anchor = IF at = {} THEN NoAnchor ELSE s.events[Min(at)].key
  BY <1>1, CopyIs
<1>5. N \in Nat
  BY <1>1, KeysInIs
<1> HIDE DEF s, o, N, at
<1>6. /\ nextKey' \in Nat /\ nextKey <= nextKey' /\ nextKey' - 1 = nextKey + N
      /\ i + 1 \in 1 .. Len(draft.series) + 1
  <2>1. Len(draft.series) \in Nat
    BY <1>1, DraftIs
  <2> QED
    BY <2>1, <1>1, <1>3, <1>5
<1>7. wanted' = With(wanted, s.key, s.anchor) /\ KeysIn(s) \subseteq nextKey .. nextKey' - 1
  BY <1>3, <1>4, <1>6
<1> QED
  BY <1>3, <1>4, <1>6, <1>7, SeriesAdded

(* Series that change places keep their keys.                              *)
LEMMA MoveSeriesKeeps == ASSUME DraftOK, MoveSeries PROVE DraftOK'
<1> DEFINE old == draft.series
           N == Len(old)
<1>1. PICK move \in Beside(N) : draft' = [draft EXCEPT !.series = Moved(old, move[1], move[2])]
  BY DEF MoveSeries, Series
<1> DEFINE L == Moved(old, move[1], move[2])
           j == move[1]
           k == move[2]
           src == [m \in 1 .. N |-> IF m = k THEN j ELSE IF m = j THEN k ELSE m]
<1>2. /\ draft \in Drafts /\ nextKey \in Nat \ {0}
      /\ old \in Seq(SeriesDrafts) /\ N \in Nat
      /\ DOMAIN wanted \subseteq 1 .. nextKey - 1
  BY DraftIs DEF DraftOK, ClocksOK
<1>3. /\ j \in 1 .. N /\ k \in 1 .. N
      /\ L = [old EXCEPT ![j] = old[k], ![k] = old[j]]
  <2> HIDE DEF old
  <2>1. /\ move \in (1 .. Len(old)) \X (1 .. Len(old))
        /\ Moved(old, move[1], move[2])
             = [old EXCEPT ![move[1]] = old[move[2]], ![move[2]] = old[move[1]]]
    BY <1>2, MovedIs
  <2> QED
    BY <2>1
<1>4. draft' = [draft EXCEPT !.series = L]
  BY <1>1
<1> HIDE DEF L, j, k
<1>5. /\ L \in Seq(SeriesDrafts) /\ Len(L) = N
      /\ \A m \in 1 .. N : L[m] = IF m = k THEN old[j] ELSE IF m = j THEN old[k] ELSE old[m]
  BY <1>2, <1>3
<1>6. /\ src \in [1 .. N -> 1 .. N]
      /\ \A m \in 1 .. N : src[m] = IF m = k THEN j ELSE IF m = j THEN k ELSE m
  BY <1>3
<1> HIDE DEF src
<1>7. /\ \A m \in 1 .. N : src[m] \in 1 .. N /\ L[m] = old[src[m]] /\ src[src[m]] = m
      /\ \A m, l \in 1 .. N : src[m] = src[l] => m = l
  BY <1>3, <1>5, <1>6
<1>8. /\ \A m \in 1 .. N : src[m] # 0
      /\ src \in [1 .. N -> 0 .. N]
      /\ old[j] \in SeriesDrafts
  <2>1. \A m \in 1 .. N : src[m] \in 1 .. N /\ src[m] # 0
    BY <1>7
  <2>2. src \in [1 .. N -> 0 .. N]
    <3>1. \A m \in 1 .. N : m \in 0 .. N
      OBVIOUS
    <3> QED
      BY <3>1, <1>6
  <2>3. old[j] \in SeriesDrafts
    BY <1>2, <1>3
  <2> QED
    BY <2>1, <2>2, <2>3
<1> HIDE DEF N
<1>9. Rearranged(L, src, old[j], old)
  BY <1>5, <1>7, <1>8 DEF Rearranged, N
<1>10. /\ nextKey' \in Nat /\ nextKey <= nextKey' /\ bankCount' = bankCount
       /\ collapsed' \subseteq collapsed /\ selection' \subseteq selection
       /\ DOMAIN wanted \subseteq DOMAIN wanted' /\ DOMAIN wanted' \subseteq 1 .. nextKey' - 1
       /\ \A key \in DOMAIN wanted : wanted'[key] = wanted[key]
  BY <1>2 DEF MoveSeries, view
<1>11. /\ \A m \in 1 .. Len(L) : src[m] # 0
       /\ \A m \in 1 .. Len(old) : \E l \in 1 .. Len(L) : src[l] = m
  BY <1>5, <1>7, <1>8 DEF N
<1> QED
  BY <1>4, <1>5, <1>8, <1>9, <1>10, <1>11, ListChanged, ZenonT(60)

(* A series that goes takes the ticks of its rows with it.                 *)
LEMMA RemoveSeriesKeeps ==
  ASSUME DraftOK, NEW r \in DOMAIN Series, RemoveSeries(r)
  PROVE  DraftOK'
<1> DEFINE old == draft.series
           N == Len(old)
           L == RemoveAt(old, r)
           src == [k \in 1 .. N - 1 |-> IF k < r THEN k ELSE k + 1]
<1>1. /\ draft \in Drafts /\ nextKey \in Nat \ {0} /\ Series = old
      /\ old \in Seq(SeriesDrafts) /\ N \in Nat /\ r \in 1 .. N
      /\ DOMAIN wanted \subseteq 1 .. nextKey - 1
      /\ DOMAIN old[r].events = 1 .. Len(old[r].events)
      /\ old[r] \in SeriesDrafts
  BY InSeries, DraftIs DEF DraftOK, ClocksOK, Rows
<1>2. /\ draft' = [draft EXCEPT !.series = L]
      /\ collapsed' \subseteq collapsed
      /\ selection' = selection \ {e.key : e \in ToSet(old[r].events)}
      /\ UNCHANGED <<nextKey, bankCount, wanted>>
  BY <1>1 DEF RemoveSeries
<1>3. L \in Seq(SeriesDrafts) /\ LeavesOut(L, old, r)
  BY <1>1, RemoveAtIs
<1> HIDE DEF L
<1>4. /\ Len(L) = N - 1
      /\ \A k \in 1 .. N - 1 : L[k] = IF k < r THEN old[k] ELSE old[k + 1]
  BY <1>3 DEF LeavesOut
<1>5. /\ src \in [1 .. N - 1 -> 1 .. N]
      /\ \A k \in 1 .. N - 1 : src[k] = IF k < r THEN k ELSE k + 1
  BY <1>1
<1> HIDE DEF src
<1>6. /\ \A k \in 1 .. N - 1 : src[k] \in 1 .. N /\ L[k] = old[src[k]]
      /\ \A k, l \in 1 .. N - 1 : src[k] = src[l] => k = l
  <2>1. ASSUME NEW k \in 1 .. N - 1
        PROVE  src[k] \in 1 .. N /\ L[k] = old[src[k]]
    <3>1. src[k] = (IF k < r THEN k ELSE k + 1) /\ src[k] \in 1 .. N
      BY <1>5
    <3>2. L[k] = IF k < r THEN old[k] ELSE old[k + 1]
      BY <1>4
    <3>3. L[k] = old[src[k]]
      BY <3>1, <3>2
    <3> QED
      BY <3>1, <3>3
  <2>2. ASSUME NEW k \in 1 .. N - 1, NEW l \in 1 .. N - 1, src[k] = src[l]
        PROVE  k = l
    <3>1. /\ src[k] = IF k < r THEN k ELSE k + 1
          /\ src[l] = IF l < r THEN l ELSE l + 1
      BY <1>5
    <3>2. k \in Int /\ l \in Int /\ r \in Int
      BY <1>1
    <3>3. (IF k < r THEN k ELSE k + 1) = (IF l < r THEN l ELSE l + 1)
      BY <2>2, <3>1
    <3> QED
      BY <3>2, <3>3
  <2> QED
    BY <2>1, <2>2
<1>7. \A i \in 1 .. N : i = r \/ \E k \in 1 .. N - 1 : src[k] = i
  <2> TAKE i \in 1 .. N
  <2>1. CASE i < r
    <3>1. i \in 1 .. N - 1 /\ src[i] = i
      BY <2>1, <1>1, <1>5
    <3> QED
      BY <3>1
  <2>2. CASE i > r
    <3>1. i - 1 \in 1 .. N - 1 /\ src[i - 1] = i
      BY <2>2, <1>1, <1>5
    <3> QED
      BY <3>1
  <2> QED
    BY <2>1, <2>2, <1>1
<1>8. src \in [1 .. N - 1 -> 0 .. N] /\ \A k \in 1 .. N - 1 : src[k] # 0
  BY <1>1, <1>5, <1>6
<1>9. \A j \in 1 .. Len(old[r].events) : old[r].events[j].key \notin selection'
  <2>1. \A j \in 1 .. Len(old[r].events) : old[r].events[j] \in ToSet(old[r].events)
    BY <1>1 DEF ToSet
  <2> QED
    BY <2>1, <1>2
<1>10. Rearranged(L, src, old[r], old)
  BY <1>4, <1>6, <1>8 DEF Rearranged
<1>11. /\ nextKey' \in Nat /\ nextKey <= nextKey' /\ bankCount' = bankCount
       /\ selection' \subseteq selection
       /\ DOMAIN wanted \subseteq DOMAIN wanted' /\ DOMAIN wanted' \subseteq 1 .. nextKey' - 1
       /\ \A key \in DOMAIN wanted : wanted'[key] = wanted[key]
  BY <1>1, <1>2
<1>12. /\ \A k \in 1 .. Len(L) : src[k] # 0
       /\ \A i \in 1 .. Len(old) :
            \/ \E k \in 1 .. Len(L) : src[k] = i
            \/ \A j \in 1 .. Len(old[i].events) : old[i].events[j].key \notin selection'
  BY <1>4, <1>7, <1>8, <1>9
<1> QED
  BY <1>1, <1>2, <1>3, <1>10, <1>11, <1>12, ListChanged

(* Only what is folded away or ticked changes.                             *)
LEMMA OnlyTicked ==
  ASSUME DraftOK, UNCHANGED <<draft, nextKey, bankCount, wanted>>,
         \A x \in selection' : Seen(draft, collapsed', x)
  PROVE  DraftOK'
<1>1. TicksOK(draft', selection', collapsed')
  BY DEF TicksOK
<1> QED
  BY <1>1 DEF DraftOK

(* Folding a series away unticks its rows.                                 *)
LEMMA FoldKeeps == ASSUME DraftOK, Fold PROVE DraftOK'
<1>1. PICK folded : FoldTo(folded)
  BY DEF Fold
<1>2. /\ collapsed' = folded /\ selection' \subseteq VisibleEvents(folded)
      /\ UNCHANGED <<draft, nextKey, bankCount, wanted>>
  BY <1>1 DEF FoldTo
<1>3. \A x \in selection' : Seen(draft, collapsed', x)
  BY <1>2, VisibleIs
<1> QED
  BY <1>2, <1>3, OnlyTicked

(* Only what is seen is ticked.                                            *)
LEMMA TickKeeps == ASSUME DraftOK, Tick PROVE DraftOK'
<1>1. UNCHANGED <<draft, collapsed, nextKey, bankCount, wanted>>
  BY DEF Tick
<1>2. selection' \subseteq selection \cup VisibleEvents(collapsed)
  BY DEF Tick, SymDiff
<1>3. \A x \in selection' : Seen(draft, collapsed, x)
  BY <1>2, VisibleIs DEF DraftOK, TicksOK
<1> QED
  BY <1>1, <1>3, OnlyTicked

(* Every series keeps its key and its anchor.                              *)
LEMMA AllChanged ==
  ASSUME DraftOK, NEW L \in Seq(SeriesDrafts), Len(L) = Len(draft.series),
         draft' = [draft EXCEPT !.series = L],
         nextKey' = nextKey, wanted' = wanted, bankCount' \in 1 .. MaxBanks,
         \A i \in 1 .. Len(L) :
           /\ L[i].key = draft.series[i].key /\ L[i].anchor = draft.series[i].anchor
           /\ KeysAreItsOwn(L[i]) /\ KeysIn(L[i]) \subseteq KeysIn(draft.series[i])
           /\ \A j \in 1 .. Len(L[i].events) : NamesOK(L[i].events[j], bankCount'),
         TicksOK(draft', selection', collapsed')
  PROVE  DraftOK'
<1> DEFINE old == draft.series
           N == Len(old)
<1>1. /\ draft \in Drafts /\ DOMAIN old = 1 .. N /\ DOMAIN L = 1 .. N
      /\ nextKey \in Nat \ {0}
  BY DraftIs DEF DraftOK
<1>2. draft' \in Drafts /\ draft'.series = L
  BY <1>1 DEF Drafts
<1>3. \A i \in 1 .. N :
        /\ KeysIn(old[i]) \subseteq 1 .. nextKey - 1
        /\ \A l \in 1 .. N : l # i => KeysIn(old[i]) \cap KeysIn(old[l]) = {}
        /\ old[i].key \in DOMAIN wanted /\ wanted[old[i].key] = old[i].anchor
  BY <1>1 DEF DraftOK, KeysOK, ClocksOK
<1>4. \A i \in 1 .. N : DOMAIN L[i].events = 1 .. Len(L[i].events)
  <2>1. \A i \in 1 .. N : L[i] \in SeriesDrafts
    OBVIOUS
  <2> QED
    BY <2>1, KeysInIs
<1>5. \A i \in 1 .. N :
        /\ L[i].key = old[i].key /\ L[i].anchor = old[i].anchor
        /\ KeysAreItsOwn(L[i]) /\ KeysIn(L[i]) \subseteq KeysIn(old[i])
        /\ \A j \in 1 .. Len(L[i].events) : NamesOK(L[i].events[j], bankCount')
  OBVIOUS
<1> HIDE DEF N, old
<1>6. KeysOK(draft', nextKey')
  <2>1. ASSUME NEW i \in 1 .. N
        PROVE  /\ KeysAreItsOwn(L[i]) /\ KeysIn(L[i]) \subseteq 1 .. nextKey - 1
               /\ \A l \in 1 .. N \ {i} : KeysIn(L[i]) \cap KeysIn(L[l]) = {}
    <3>1. KeysIn(L[i]) \subseteq KeysIn(old[i]) /\ KeysIn(old[i]) \subseteq 1 .. nextKey - 1
      BY <1>3, <1>5
    <3>2. ASSUME NEW l \in 1 .. N \ {i} PROVE KeysIn(L[i]) \cap KeysIn(L[l]) = {}
      <4>1. KeysIn(old[i]) \cap KeysIn(old[l]) = {} /\ KeysIn(L[l]) \subseteq KeysIn(old[l])
        BY <1>3, <1>5
      <4> QED
        BY <3>1, <4>1
    <3> QED
      BY <3>1, <3>2, <1>5
  <2> QED
    BY <2>1, <1>1, <1>2 DEF KeysOK
<1>7. BanksOK(draft', bankCount')
  BY <1>1, <1>2, <1>4, <1>5 DEF BanksOK
<1>8. ClocksOK(draft', wanted', nextKey')
  <2>1. DOMAIN wanted \subseteq 1 .. nextKey - 1
    BY DEF DraftOK, ClocksOK
  <2> QED
    BY <2>1, <1>1, <1>2, <1>3, <1>5 DEF ClocksOK
<1> QED
  BY <1>1, <1>2, <1>6, <1>7, <1>8 DEF DraftOK

(* A series that loses some of its events.                                 *)
LEMMA ThinnedIs ==
  ASSUME NEW o \in SeriesDrafts, KeysAreItsOwn(o), NEW good, NEW c,
         \A j \in 1 .. Len(o.events) : NamesOK(o.events[j], c)
  PROVE  LET s == [o EXCEPT !.events = Among(@, good)]
         IN  /\ s \in SeriesDrafts /\ s.key = o.key /\ s.anchor = o.anchor
             /\ KeysAreItsOwn(s) /\ KeysIn(s) \subseteq KeysIn(o)
             /\ \A j \in 1 .. Len(s.events) : NamesOK(s.events[j], c)
<1> DEFINE E == o.events
           L == Among(E, good)
           s == [o EXCEPT !.events = L]
<1>1. /\ E \in Seq(EventDrafts)
      /\ \A j \in 1 .. Len(E) : E[j].key # o.key /\ E[j].key \in KeysIn(o)
      /\ \A j, k \in 1 .. Len(E) : E[j].key = E[k].key => j = k
      /\ o.key \in KeysIn(o)
      /\ \A j \in 1 .. Len(E) : NamesOK(E[j], c)
  BY KeysInIs DEF SeriesDrafts
<1>2. /\ L \in Seq(EventDrafts)
      /\ \E src \in [1 .. Len(L) -> 1 .. Len(E)] :
           /\ \A j, k \in 1 .. Len(L) : src[j] = src[k] => j = k
           /\ \A k \in 1 .. Len(L) : L[k] = E[src[k]] /\ E[src[k]] \in good
  BY <1>1, AmongIs
<1> HIDE DEF L
<1>3. s \in SeriesDrafts /\ s.key = o.key /\ s.anchor = o.anchor /\ s.events = L
  BY <1>2 DEF SeriesDrafts
<1>4. PICK src \in [1 .. Len(L) -> 1 .. Len(E)] :
        /\ \A j, k \in 1 .. Len(L) : src[j] = src[k] => j = k
        /\ \A k \in 1 .. Len(L) : L[k] = E[src[k]] /\ E[src[k]] \in good
  BY <1>2
<1> HIDE DEF E, s
<1>5. \A k \in 1 .. Len(L) : src[k] \in 1 .. Len(E) /\ L[k] = E[src[k]]
  BY <1>4
<1>6. \A j, k \in 1 .. Len(L) : L[j].key = L[k].key => j = k
  <2> SUFFICES ASSUME NEW j \in 1 .. Len(L), NEW k \in 1 .. Len(L), L[j].key = L[k].key
               PROVE  j = k
    OBVIOUS
  <2>1. E[src[j]].key = E[src[k]].key /\ src[j] \in 1 .. Len(E) /\ src[k] \in 1 .. Len(E)
    BY <1>5
  <2>2. src[j] = src[k]
    BY <2>1, <1>1
  <2> QED
    BY <2>2, <1>4
<1>7. \A k \in 1 .. Len(L) : L[k].key # o.key /\ L[k].key \in KeysIn(o) /\ NamesOK(L[k], c)
  BY <1>1, <1>5
<1>8. KeysAreItsOwn(s)
  BY <1>3, <1>6, <1>7, KeysInIs
<1>9. KeysIn(s) \subseteq KeysIn(o)
  <2> SUFFICES ASSUME NEW key \in KeysIn(s) PROVE key \in KeysIn(o)
    OBVIOUS
  <2>1. key = s.key \/ \E j \in 1 .. Len(s.events) : key = s.events[j].key
    BY <1>3, KeysInIs
  <2> QED
    BY <2>1, <1>1, <1>3, <1>7
<1> QED
  BY <1>3, <1>7, <1>8, <1>9 DEF s, L, E

(* A function on the first N numbers is a list of N.                       *)
LEMMA ListOf ==
  ASSUME NEW N \in Nat, NEW S, NEW L, L = [i \in 1 .. N |-> L[i]],
         \A i \in 1 .. N : L[i] \in S
  PROVE  L \in Seq(S) /\ Len(L) = N
<1>1. L \in [1 .. N -> S]
  OBVIOUS
<1> QED
  BY <1>1

(* What is ticked goes, from every series at once, and its clocks with it. *)
LEMMA RemoveSelectedKeeps == ASSUME DraftOK, RemoveSelected PROVE DraftOK'
<1> DEFINE old == draft.series
           N == Len(old)
           Thin(s) == [s EXCEPT !.events = Among(@, {e \in ToSet(@) : e.key \notin selection})]
           L == [i \in 1 .. N |-> Thin(old[i])]
<1>1. /\ draft \in Drafts /\ DOMAIN old = 1 .. N /\ N \in Nat
      /\ \A i \in 1 .. N : old[i] \in SeriesDrafts
      /\ bankCount \in 1 .. MaxBanks
  BY DraftIs DEF DraftOK
<1>2. /\ draft' = [draft EXCEPT !.series = L]
      /\ selection' = {} /\ UNCHANGED <<collapsed, nextKey, bankCount, wanted>>
  BY <1>1 DEF RemoveSelected, EachSeries
<1>3. ASSUME NEW i \in 1 .. N
      PROVE  /\ L[i] \in SeriesDrafts
             /\ L[i].key = old[i].key /\ L[i].anchor = old[i].anchor
             /\ KeysAreItsOwn(L[i]) /\ KeysIn(L[i]) \subseteq KeysIn(old[i])
             /\ \A j \in 1 .. Len(L[i].events) : NamesOK(L[i].events[j], bankCount')
  <2> DEFINE o == old[i]
             good == {e \in ToSet(o.events) : e.key \notin selection}
             s == [o EXCEPT !.events = Among(@, good)]
  <2>1. o \in SeriesDrafts /\ KeysAreItsOwn(o)
    BY <1>1 DEF DraftOK, KeysOK
  <2>2. \A j \in 1 .. Len(o.events) : NamesOK(o.events[j], bankCount)
    <3>1. DOMAIN o.events = 1 .. Len(o.events)
      BY <2>1, KeysInIs
    <3> QED
      BY <3>1, <1>1 DEF DraftOK, BanksOK
  <2>3. L[i] = s
    OBVIOUS
  <2> HIDE DEF o, good, L
  <2>4. /\ s \in SeriesDrafts /\ s.key = o.key /\ s.anchor = o.anchor
        /\ KeysAreItsOwn(s) /\ KeysIn(s) \subseteq KeysIn(o)
        /\ \A j \in 1 .. Len(s.events) : NamesOK(s.events[j], bankCount)
    BY <2>1, <2>2, ThinnedIs
  <2> HIDE DEF s
  <2> QED
    BY <2>3, <2>4, <1>2 DEF o
<1>4. L = [i \in 1 .. N |-> L[i]]
  OBVIOUS
<1> HIDE DEF L
<1>5. L \in Seq(SeriesDrafts) /\ Len(L) = N
  BY <1>1, <1>3, <1>4, ListOf
<1>6. TicksOK(draft', selection', collapsed')
  BY <1>2 DEF TicksOK
<1> QED
  BY <1>1, <1>2, <1>3, <1>5, <1>6, AllChanged

(* An event that loses the banks past the count.                           *)
Trimmed(e, count) == [e EXCEPT !.banks = Restrict(@, DOMAIN @ \cap (1 .. count))]
LEMMA TrimmedIs ==
  ASSUME NEW e \in EventDrafts, NEW count \in 1 .. MaxBanks, NEW c, NamesOK(e, c)
  PROVE  /\ Trimmed(e, count) \in EventDrafts /\ Trimmed(e, count).key = e.key
         /\ NamesOK(Trimmed(e, count), count)
<1> DEFINE banks == e.banks
           S == DOMAIN banks \cap (1 .. count)
           new == Restrict(banks, S)
<1>0. MaxBanks \in Nat /\ 1 .. count \subseteq 1 .. MaxBanks + 1
  BY EditorAssumption, DocumentAssumption
<1>1. new = [x \in S |-> banks[x]]
  BY DEF Restrict
<1>2. \A b \in S : banks[b] \in Turns
  BY DEF NamesOK
<1>3. new \in [S -> Turns]
  BY <1>1, <1>2
<1>4. Trimmed(e, count) = [e EXCEPT !.banks = new]
  BY DEF Trimmed
<1> HIDE DEF new
<1>5. new \in [S -> Turns \cup {"other"}] /\ S \in SUBSET (1 .. MaxBanks + 1)
  BY <1>0, <1>3
<1>6. new \in BankMaps
  BY <1>5 DEF BankMaps
<1>7. /\ Trimmed(e, count) \in EventDrafts /\ Trimmed(e, count).key = e.key
      /\ Trimmed(e, count).banks = new
  BY <1>4, <1>6 DEF EventDrafts
<1> QED
  BY <1>3, <1>7 DEF NamesOK

(* With fewer banks no event names one that is not offered any more.       *)
LEMMA SetBankCountKeeps == ASSUME DraftOK, SetBankCount PROVE DraftOK'
<1>1. PICK count \in 1 .. MaxBanks : SetBankCountTo(count)
  BY DEF SetBankCount
<1> DEFINE old == draft.series
           N == Len(old)
           Cut(s) == [s EXCEPT !.events = [j \in DOMAIN @ |-> Trimmed(@[j], count)]]
           L == [i \in 1 .. N |-> Cut(old[i])]
<1>2. /\ draft \in Drafts /\ DOMAIN old = 1 .. N /\ N \in Nat
      /\ \A i \in 1 .. N : old[i] \in SeriesDrafts
  BY DraftIs DEF DraftOK
<1>3. /\ draft' = [draft EXCEPT !.series = L] /\ bankCount' = count
      /\ UNCHANGED <<collapsed, selection, nextKey, wanted>>
  BY <1>1, <1>2 DEF SetBankCount, SetBankCountTo, EachSeries, EachEvent,
     Trimmed
<1>4. ASSUME NEW i \in 1 .. N
      PROVE  /\ L[i] \in SeriesDrafts
             /\ L[i].key = old[i].key /\ L[i].anchor = old[i].anchor
             /\ KeysAreItsOwn(L[i]) /\ KeysIn(L[i]) \subseteq KeysIn(old[i])
             /\ \A j \in 1 .. Len(L[i].events) : NamesOK(L[i].events[j], count)
             /\ DOMAIN L[i].events = DOMAIN old[i].events
             /\ \A j \in DOMAIN L[i].events : L[i].events[j].key = old[i].events[j].key
  <2> DEFINE o == old[i]
             E == [j \in DOMAIN o.events |-> Trimmed(o.events[j], count)]
  <2>1. o \in SeriesDrafts /\ KeysAreItsOwn(o)
    BY <1>2 DEF DraftOK, KeysOK
  <2>2. /\ DOMAIN o.events = 1 .. Len(o.events) /\ Len(o.events) \in Nat
        /\ \A j \in 1 .. Len(o.events) : o.events[j] \in EventDrafts /\ o.events[j].key \in KeysIn(o)
        /\ o.key \in KeysIn(o)
        /\ \A j \in 1 .. Len(o.events) : o.events[j].key # o.key
        /\ \A j, k \in 1 .. Len(o.events) : o.events[j].key = o.events[k].key => j = k
    BY <2>1, KeysInIs
  <2>3. \A j \in 1 .. Len(o.events) : NamesOK(o.events[j], bankCount)
    BY <2>2, <1>2 DEF DraftOK, BanksOK
  <2>4. L[i] = [o EXCEPT !.events = E]
    OBVIOUS
  <2> HIDE DEF o, L
  <2>5. \A j \in 1 .. Len(o.events) :
          E[j] \in EventDrafts /\ E[j].key = o.events[j].key /\ NamesOK(E[j], count)
    BY <2>2, <2>3, TrimmedIs
  <2>6. E \in Seq(EventDrafts) /\ Len(E) = Len(o.events)
    <3>1. E = [j \in 1 .. Len(o.events) |-> E[j]]
      BY <2>2
    <3> HIDE DEF E
    <3> QED
      BY <2>2, <2>5, <3>1, ListOf
  <2> HIDE DEF E
  <2>7. /\ L[i] \in SeriesDrafts /\ L[i].key = o.key /\ L[i].anchor = o.anchor
        /\ L[i].events = E
    BY <2>1, <2>4, <2>6 DEF SeriesDrafts
  <2>8. KeysAreItsOwn(L[i])
    BY <2>2, <2>5, <2>6, <2>7, KeysInIs
  <2>9. KeysIn(L[i]) \subseteq KeysIn(o)
    <3> SUFFICES ASSUME NEW key \in KeysIn(L[i]) PROVE key \in KeysIn(o)
      OBVIOUS
    <3>1. key = L[i].key \/ \E j \in 1 .. Len(L[i].events) : key = L[i].events[j].key
      BY <2>7, KeysInIs
    <3> QED
      BY <3>1, <2>2, <2>5, <2>6, <2>7
  <2>10. DOMAIN L[i].events = 1 .. Len(o.events)
    BY <2>6, <2>7, <2>2
  <2> QED
    BY <2>2, <2>5, <2>6, <2>7, <2>8, <2>9, <2>10 DEF o
<1>5. DOMAIN L = 1 .. N /\ L = [i \in 1 .. N |-> L[i]]
  OBVIOUS
<1> HIDE DEF L
<1>6. L \in Seq(SeriesDrafts) /\ Len(L) = N
  BY <1>2, <1>4, <1>5, ListOf
<1>7. TicksOK(draft', selection', collapsed')
  <2> SUFFICES ASSUME NEW x \in selection
               PROVE  Seen(draft', collapsed, x)
    BY <1>3 DEF TicksOK
  <2>1. Seen(draft, collapsed, x)
    BY DEF DraftOK, TicksOK
  <2>2. draft'.series = L
    BY <1>2, <1>3 DEF Drafts
  <2> HIDE DEF N
  <2> QED
    BY <2>1, <2>2, <1>2, <1>4, <1>5 DEF Seen
<1>8. \A i \in 1 .. N : \A j \in 1 .. Len(L[i].events) : NamesOK(L[i].events[j], bankCount')
  BY <1>3, <1>4
<1> QED
  BY <1>2, <1>3, <1>4, <1>6, <1>7, <1>8, AllChanged
-----------------------------------------------------------------------------
(* A draft that is read from a document *)

DocSeries == [name : Names, start : Int \cup {Absent}, events : Seq(Events)]

(* What can be read, by the page and by the device.                        *)
StartOK(s) == s.start = Absent \/ s.start = 0 \/ s.start \in 0 .. Len(s.events) - 1
Readable(doc) ==
  \A i \in 1 .. Len(doc.series) :
    /\ StartOK(doc.series[i])
    /\ \A j \in 1 .. Len(doc.series[i].events) : WellSpelt(doc.series[i].events[j])

LEMMA DocumentIs ==
  ASSUME NEW doc \in Documents
  PROVE  /\ DOMAIN doc.series = 1 .. Len(doc.series) /\ Len(doc.series) \in Nat
         /\ doc.series \in Seq(DocSeries)
         /\ \A i \in 1 .. Len(doc.series) :
              /\ doc.series[i] \in DocSeries
              /\ doc.series[i].events \in Seq(Events)
              /\ DOMAIN doc.series[i].events = 1 .. Len(doc.series[i].events)
              /\ Len(doc.series[i].events) \in Nat
              /\ \A j \in 1 .. Len(doc.series[i].events) : doc.series[i].events[j] \in Events
<1>1. doc.series \in Seq(DocSeries)
  BY DEF Documents, DocSeries
<1>2. /\ DOMAIN doc.series = 1 .. Len(doc.series) /\ Len(doc.series) \in Nat
      /\ \A i \in 1 .. Len(doc.series) : doc.series[i] \in DocSeries
  BY <1>1
<1>3. ASSUME NEW i \in 1 .. Len(doc.series)
      PROVE  /\ doc.series[i].events \in Seq(Events)
             /\ DOMAIN doc.series[i].events = 1 .. Len(doc.series[i].events)
             /\ Len(doc.series[i].events) \in Nat
             /\ \A j \in 1 .. Len(doc.series[i].events) : doc.series[i].events[j] \in Events
  <2> DEFINE E == doc.series[i].events
  <2>1. E \in Seq(Events)
    BY <1>2 DEF DocSeries
  <2> HIDE DEF E
  <2>2. DOMAIN E = 1 .. Len(E) /\ Len(E) \in Nat /\ \A j \in 1 .. Len(E) : E[j] \in Events
    BY <2>1
  <2> QED
    BY <2>1, <2>2 DEF E
<1> QED
  BY <1>1, <1>2, <1>3

(* The events of a document, by their places.                              *)
LEMMA EventsOfIs ==
  ASSUME NEW doc \in Documents
  PROVE  \A e : e \in EventsOf(doc)
                  <=> \E i \in 1 .. Len(doc.series) :
                        \E j \in 1 .. Len(doc.series[i].events) : e = doc.series[i].events[j]
<1> DEFINE L == doc.series
<1>1. EventsOf(doc) = UNION {{s.events[j] : j \in DOMAIN s.events} : s \in {L[i] : i \in DOMAIN L}}
  BY DEF EventsOf, ToSet
<1>2. DOMAIN L = 1 .. Len(L) /\ \A i \in 1 .. Len(L) : DOMAIN L[i].events = 1 .. Len(L[i].events)
  BY DocumentIs
<1> HIDE DEF L
<1>3. \A e : e \in EventsOf(doc) <=> \E i \in DOMAIN L : \E j \in DOMAIN L[i].events : e = L[i].events[j]
  BY <1>1
<1> QED
  BY <1>2, <1>3 DEF L

(* What the device or the page accepts can be read as a draft.             *)
LEMMA ReadableIs ==
  ASSUME NEW doc \in Documents
  PROVE  /\ DeviceAccepts(doc) <=> Readable(doc)
         /\ PageAccepts(doc) => Readable(doc)
<1> DEFINE L == doc.series
<1>1. DOMAIN L = 1 .. Len(L) /\ ToSet(L) = {L[i] : i \in 1 .. Len(L)}
  BY DocumentIs DEF ToSet
<1> DEFINE Spelt == \A i \in 1 .. Len(L) : \A j \in 1 .. Len(L[i].events) : WellSpelt(L[i].events[j])
<1>2. (\A e \in EventsOf(doc) : WellSpelt(e)) <=> Spelt
  BY EventsOfIs
<1> HIDE DEF L
<1>3. (\A s \in ToSet(L) : s.start \in {Absent, 0} \/ s.start \in 0 .. Len(s.events) - 1)
        <=> \A i \in 1 .. Len(L) : StartOK(L[i])
  BY <1>1 DEF StartOK
<1>4. (\A s \in ToSet(L) : s.start = Absent \/ s.start \in 0 .. Len(s.events) - 1)
        => \A i \in 1 .. Len(L) : StartOK(L[i])
  BY <1>1 DEF StartOK
<1>5. Readable(doc) <=> Spelt /\ \A i \in 1 .. Len(L) : StartOK(L[i])
  BY DEF Readable, L
<1>6. DeviceAccepts(doc)
        <=> /\ \A e \in EventsOf(doc) : WellSpelt(e)
            /\ \A s \in ToSet(L) : s.start \in {Absent, 0} \/ s.start \in 0 .. Len(s.events) - 1
  BY DEF DeviceAccepts, L
<1>7. PageAccepts(doc)
        => /\ \A e \in EventsOf(doc) : WellSpelt(e)
           /\ \A s \in ToSet(L) : s.start = Absent \/ s.start \in 0 .. Len(s.events) - 1
  BY DEF PageAccepts, L
<1> HIDE DEF Spelt
<1> QED
  BY <1>2, <1>3, <1>4, <1>5, <1>6, <1>7

(* The banks a document names.                                             *)
LEMMA BanksRequiredIs ==
  ASSUME NEW doc \in Documents, NEW b \in Nat \ {0},
         \A i \in 1 .. Len(doc.series) : \A j \in 1 .. Len(doc.series[i].events) :
           DOMAIN doc.series[i].events[j].banks \subseteq 1 .. b
  PROVE  /\ BanksRequired(doc) \in 1 .. b
         /\ \A i \in 1 .. Len(doc.series) : \A j \in 1 .. Len(doc.series[i].events) :
              DOMAIN doc.series[i].events[j].banks \subseteq 1 .. BanksRequired(doc)
<1> DEFINE S == {1} \cup UNION {DOMAIN e.banks : e \in EventsOf(doc)}
<1>1. \A e \in EventsOf(doc) : DOMAIN e.banks \subseteq 1 .. b
  BY EventsOfIs
<1>2. S \subseteq 1 .. b /\ 1 \in S
  BY <1>1
<1>3. \A i \in 1 .. Len(doc.series) : \A j \in 1 .. Len(doc.series[i].events) :
        DOMAIN doc.series[i].events[j].banks \subseteq S
  <2>1. \A i \in 1 .. Len(doc.series) : \A j \in 1 .. Len(doc.series[i].events) :
          doc.series[i].events[j] \in EventsOf(doc)
    BY EventsOfIs
  <2> QED
    BY <2>1
<1>4. BanksRequired(doc) = Max(S)
  BY DEF BanksRequired
<1> HIDE DEF S
<1>5. S \subseteq 0 .. b /\ S # {}
  BY <1>2
<1>6. Max(S) \in S /\ \A y \in S : y <= Max(S)
  BY <1>5, MaxIs
<1>7. S \subseteq 1 .. Max(S) /\ Max(S) \in 1 .. b
  <2> DEFINE m == Max(S)
  <2>1. m \in S /\ \A y \in S : y <= m
    BY <1>6
  <2> HIDE DEF m
  <2>2. m \in 1 .. b
    BY <1>2, <2>1
  <2>3. \A y \in S : y \in 1 .. m
    BY <1>2, <2>1, <2>2
  <2> QED
    BY <2>2, <2>3 DEF m
<1> QED
  BY <1>3, <1>4, <1>7

(* The keys of the series, by the number that have been read.              *)
LEMMA KeyOfIs ==
  ASSUME NEW doc \in Documents, NEW from \in Nat
  PROVE  /\ KeyOf(doc, from) \in [0 .. Len(doc.series) -> Nat]
         /\ KeyOf(doc, from)[0] = from
         /\ \A i \in 1 .. Len(doc.series) :
              KeyOf(doc, from)[i] = KeyOf(doc, from)[i - 1] + 1 + Len(doc.series[i].events)
<1> DEFINE N == Len(doc.series)
           size == [i \in 1 .. N |-> Len(doc.series[i].events)]
           Step == [p \in (1 .. N) \X Nat |-> p[2] + 1 + size[p[1]]]
           Rec(f) == [i \in 0 .. N |-> IF i = 0 THEN from ELSE f[i - 1] + 1 + Len(doc.series[i].events)]
           F == CHOOSE f : f = Rec(f)
<1>0. N \in Nat /\ \A i \in 1 .. N : size[i] = Len(doc.series[i].events) /\ size[i] \in Nat
  BY DocumentIs
<1> HIDE DEF size
<1>1. Step \in Steps(Nat, N)
  BY <1>0 DEF Steps
<1>2. PICK g : Taken(g, Nat, from, N, Step)
  <2> HIDE DEF Step
  <2> QED
    BY <1>0, <1>1, StepByStep
<1>3. /\ g \in [0 .. N -> Nat] /\ g[0] = from
      /\ \A k \in 1 .. N : g[k] = g[k - 1] + 1 + Len(doc.series[k].events)
  <2>1. g \in [0 .. N -> Nat] /\ g[0] = from /\ \A k \in 1 .. N : g[k] = Step[<<k, g[k - 1]>>]
    BY <1>2 DEF Taken
  <2>2. ASSUME NEW k \in 1 .. N
        PROVE  g[k] = g[k - 1] + 1 + Len(doc.series[k].events)
    <3>1. k - 1 \in 0 .. N
      BY <1>0
    <3>2. <<k, g[k - 1]>> \in (1 .. N) \X Nat
      BY <2>1, <3>1
    <3>3. g[k] = g[k - 1] + 1 + size[k]
      BY <2>1, <3>2
    <3> QED
      BY <3>3, <1>0
  <2> QED
    BY <2>1, <2>2
<1> HIDE DEF N
<1>4. g = Rec(g)
  <2>1. \A i \in 0 .. N : g[i] = IF i = 0 THEN from ELSE g[i - 1] + 1 + Len(doc.series[i].events)
    <3> TAKE i \in 0 .. N
    <3>1. i = 0 \/ i \in 1 .. N
      BY <1>0
    <3>2. \A k \in 1 .. N : k # 0
      BY <1>0
    <3> QED
      BY <1>3, <3>1, <3>2
  <2> QED
    BY <1>3, <2>1
<1>5. F = Rec(F)
  BY <1>4
<1>6. KeyOf(doc, from) = F
  BY DEF KeyOf, N
<1> HIDE DEF F
<1>7. /\ F[0] = from
      /\ \A i \in 1 .. N : F[i] = F[i - 1] + 1 + Len(doc.series[i].events)
      /\ DOMAIN F = 0 .. N /\ F = [i \in 0 .. N |-> F[i]]
  <2>1. 0 \in 0 .. N /\ \A i \in 1 .. N : i \in 0 .. N /\ i # 0
    BY <1>0
  <2>2. /\ DOMAIN F = 0 .. N /\ F = [i \in 0 .. N |-> F[i]]
    BY <1>5
  <2>3. \A i \in 0 .. N : F[i] = IF i = 0 THEN from ELSE F[i - 1] + 1 + Len(doc.series[i].events)
    BY <1>5
  <2> QED
    BY <2>1, <2>2, <2>3
<1>8. 0 .. N \subseteq {i \in 0 .. N : F[i] \in Nat}
  <2> DEFINE S == {i \in 0 .. N : F[i] \in Nat}
  <2>1. 0 \in S
    BY <1>0, <1>7
  <2>2. ASSUME NEW i \in 1 .. N, i - 1 \in S PROVE i \in S
    <3>1. F[i] = F[i - 1] + 1 + Len(doc.series[i].events) /\ F[i - 1] \in Nat
      BY <2>2, <1>7
    <3>2. Len(doc.series[i].events) \in Nat /\ i \in 0 .. N
      BY <1>0
    <3> QED
      BY <3>1, <3>2
  <2> HIDE DEF S
  <2>3. 0 .. N \subseteq S
    BY <2>1, <2>2, <1>0, UpTo
  <2> QED
    BY <2>3 DEF S
<1>9. F \in [0 .. N -> Nat]
  BY <1>7, <1>8
<1> QED
  BY <1>6, <1>7, <1>9 DEF N

(* Later series have later keys.                                           *)
LEMMA KeysGrow ==
  ASSUME NEW doc \in Documents, NEW from \in Nat,
         NEW i \in 0 .. Len(doc.series), NEW k \in 0 .. Len(doc.series), i <= k
  PROVE  KeyOf(doc, from)[i] <= KeyOf(doc, from)[k]
<1> DEFINE N == Len(doc.series)
           K == KeyOf(doc, from)
           S == {m \in 0 .. N : m < i \/ K[i] <= K[m]}
<1>1. /\ N \in Nat /\ K \in [0 .. N -> Nat] /\ i \in 0 .. N /\ k \in 0 .. N
      /\ \A m \in 1 .. N : K[m] = K[m - 1] + 1 + Len(doc.series[m].events)
                           /\ Len(doc.series[m].events) \in Nat
  BY DocumentIs, KeyOfIs
<1> HIDE DEF K, N
<1>2. 0 \in S
  <2>1. i = 0 \/ 0 < i
    BY <1>1
  <2>2. K[0] \in Nat /\ 0 \in 0 .. N
    BY <1>1
  <2> QED
    BY <2>1, <2>2
<1>3. ASSUME NEW m \in 1 .. N, m - 1 \in S PROVE m \in S
  <2>1. /\ K[m] = K[m - 1] + 1 + Len(doc.series[m].events)
        /\ Len(doc.series[m].events) \in Nat
        /\ m \in 0 .. N /\ m - 1 \in 0 .. N
    BY <1>1
  <2>2. K[m] \in Nat /\ K[m - 1] \in Nat /\ K[i] \in Nat
    BY <1>1, <2>1
  <2>3. CASE m - 1 < i
    <3>1. m < i \/ m = i
      BY <2>3, <1>1
    <3> QED
      BY <3>1, <2>1, <2>2
  <2>4. CASE K[i] <= K[m - 1]
    <3> DEFINE a == K[m - 1]
               c == K[m]
               l == Len(doc.series[m].events)
    <3>0. c = a + 1 + l /\ l \in Nat /\ a \in Nat /\ K[i] \in Nat /\ K[i] <= a
      BY <2>1, <2>2, <2>4
    <3> HIDE DEF a, c, l
    <3>1. K[i] <= c
      BY <3>0
    <3> USE DEF c
    <3> QED
      BY <3>1, <2>1
  <2> QED
    BY <2>3, <2>4, <1>3
<1>4. 0 .. N \subseteq S
  <2> HIDE DEF S
  <2> QED
    BY <1>1, <1>2, <1>3, UpTo
<1>5. ~ k < i
  BY <1>1
<1>6. K[i] <= K[k]
  BY <1>1, <1>4, <1>5
<1> QED
  BY <1>6 DEF K

(* One series of the draft, its key being first.                           *)
SeriesOf(s, first) ==
  [key    |-> first,
   name   |-> s.name,
   anchor |-> IF s.start # Absent /\ s.start \in 1 .. Len(s.events) - 1
              THEN first + 1 + s.start ELSE NoAnchor,
   events |-> [j \in DOMAIN s.events |->
                 [key |-> first + j, duration |-> s.events[j].duration,
                  command |-> s.events[j].command,
                  banks |-> s.events[j].banks, clips |-> s.events[j].clips]]]

LEMMA SeriesOfIs ==
  ASSUME NEW s \in DocSeries, NEW first \in Nat \ {0}, StartOK(s),
         \A j \in 1 .. Len(s.events) : WellSpelt(s.events[j])
  PROVE  LET new == SeriesOf(s, first)
         IN  /\ new \in SeriesDrafts /\ new.key = first /\ new.name = s.name
             /\ Len(new.events) = Len(s.events)
             /\ \A j \in 1 .. Len(s.events) :
                  /\ new.events[j].key = first + j
                  /\ new.events[j].duration = s.events[j].duration
                  /\ new.events[j].command = s.events[j].command
                  /\ new.events[j].banks = s.events[j].banks
                  /\ new.events[j].clips = s.events[j].clips
             /\ KeysAreItsOwn(new)
             /\ KeysIn(new) \subseteq first .. first + Len(s.events)
             /\ AnchorIndex(new) = IF s.start = Absent THEN 0 ELSE s.start
<1> DEFINE new == SeriesOf(s, first)
           N == Len(s.events)
           L == [j \in 1 .. N |->
                   [key |-> first + j, duration |-> s.events[j].duration,
                    command |-> s.events[j].command,
                    banks |-> s.events[j].banks, clips |-> s.events[j].clips]]
           anchor == IF s.start # Absent /\ s.start \in 1 .. N - 1
                     THEN first + 1 + s.start ELSE NoAnchor
<1>1. /\ s.events \in Seq(Events) /\ s.name \in Names
      /\ s.start \in Int \cup {Absent}
  BY DEF DocSeries
<1>2. /\ N \in Nat /\ DOMAIN s.events = 1 .. N
      /\ \A j \in 1 .. N : s.events[j] \in Events /\ WellSpelt(s.events[j])
  BY <1>1
<1>3. ASSUME NEW j \in 1 .. N
      PROVE  /\ L[j] \in EventDrafts /\ L[j].key = first + j
             /\ L[j].duration = s.events[j].duration /\ L[j].command = s.events[j].command
             /\ L[j].banks = s.events[j].banks /\ L[j].clips = s.events[j].clips
  <2>1. /\ s.events[j].duration \in Int \cup {Typo} /\ s.events[j].command \in Commands
        /\ s.events[j].banks \in BankMaps /\ s.events[j].clips \in Seq(Nat)
        /\ first + j \in Nat
    BY <1>2 DEF Events, WellSpelt
  <2>2. L[j] = [key |-> first + j, duration |-> s.events[j].duration,
                command |-> s.events[j].command,
                banks |-> s.events[j].banks, clips |-> s.events[j].clips]
    OBVIOUS
  <2> HIDE DEF L
  <2> QED
    BY <2>1, <2>2 DEF EventDrafts
<1>4. new = [key |-> first, name |-> s.name, anchor |-> anchor, events |-> L]
  BY <1>2 DEF SeriesOf
<1>5. L = [j \in 1 .. N |-> L[j]]
  OBVIOUS
<1>6. anchor \in Nat
  BY <1>1, <1>2 DEF NoAnchor
<1> HIDE DEF L, anchor, new, N
<1>7. L \in Seq(EventDrafts) /\ Len(L) = N
  BY <1>2, <1>3, <1>5, ListOf
<1>8. /\ new \in SeriesDrafts /\ new.key = first /\ new.name = s.name
      /\ new.anchor = anchor /\ new.events = L
  BY <1>1, <1>4, <1>6, <1>7 DEF SeriesDrafts
<1>9. KeysAreItsOwn(new)
  <2>1. \A j \in 1 .. N : first + j # first
    BY <1>2
  <2>2. \A j, k \in 1 .. N : first + j = first + k => j = k
    BY <1>2
  <2>3. \A j \in 1 .. N : L[j].key = first + j
    BY <1>3
  <2> QED
    <3>1. \A j \in 1 .. Len(new.events) : j \in 1 .. N /\ new.events[j].key = first + j
      BY <2>3, <1>7, <1>8
    <3>2. /\ \A j \in 1 .. Len(new.events) : new.events[j].key # new.key
          /\ \A j, k \in 1 .. Len(new.events) : new.events[j].key = new.events[k].key => j = k
      BY <2>1, <2>2, <3>1, <1>8
    <3> QED
      BY <3>2, <1>8, KeysInIs
<1>10. KeysIn(new) \subseteq first .. first + N
  <2> SUFFICES ASSUME NEW key \in KeysIn(new) PROVE key \in first .. first + N
    OBVIOUS
  <2>1. key = new.key \/ \E j \in 1 .. Len(new.events) : key = new.events[j].key
    BY <1>8, KeysInIs
  <2>2. \A j \in 1 .. N : first + j \in first .. first + N
    BY <1>2
  <2>3. first \in first .. first + N
    BY <1>2
  <2> QED
    BY <2>1, <2>2, <2>3, <1>3, <1>7, <1>8
<1>11. AnchorIndex(new) = IF s.start = Absent THEN 0 ELSE s.start
  <2> DEFINE at == {j \in 2 .. N : L[j].key = anchor}
  <2>1. \/ at = {} /\ AnchorIndex(new) = 0
        \/ \E j \in 2 .. N : at = {j} /\ AnchorIndex(new) = j - 1
    BY <1>7, <1>8, <1>9, AnchorIs
  <2>2. \A j \in 2 .. N : j \in 1 .. N /\ L[j].key = first + j
    BY <1>2, <1>3
  <2>3. CASE s.start # Absent /\ s.start \in 1 .. N - 1
    <3>1. anchor = first + 1 + s.start
      BY <2>3 DEF anchor
    <3>2. s.start + 1 \in 2 .. N /\ \A j \in 2 .. N : first + j = anchor <=> j = s.start + 1
      <4> DEFINE start == s.start
      <4>1. start \in 1 .. N - 1 /\ anchor = first + 1 + start /\ N \in Nat
        BY <2>3, <3>1, <1>2
      <4> HIDE DEF start
      <4>2. start + 1 \in 2 .. N /\ \A j \in 2 .. N : first + j = anchor => j = start + 1
        BY <4>1
      <4>3. first + (start + 1) = anchor
        BY <4>1
      <4> QED
        BY <4>2, <4>3 DEF start
    <3>3. at = {s.start + 1}
      BY <2>2, <3>2
    <3> HIDE DEF at
    <3>4. AnchorIndex(new) = (s.start + 1) - 1
      BY <2>1, <3>3
    <3> QED
      BY <2>3, <3>4
  <2>4. CASE ~ (s.start # Absent /\ s.start \in 1 .. N - 1)
    <3>1. anchor = 0
      BY <2>4 DEF anchor, NoAnchor
    <3>2. \A j \in 2 .. N : first + j # 0
      BY <1>2
    <3>3. at = {}
      BY <2>2, <3>1, <3>2
    <3> HIDE DEF at
    <3>4. AnchorIndex(new) = 0
      BY <2>1, <3>3
    <3>5. s.start = Absent \/ s.start = 0
      BY <2>4, <1>2 DEF StartOK, N
    <3> QED
      BY <3>4, <3>5
  <2> QED
    BY <2>3, <2>4
<1> QED
  BY <1>3, <1>7, <1>8, <1>9, <1>10, <1>11 DEF new, N

(* A document is read as a draft with a key for each series and event.     *)
LEMMA DraftOfIs ==
  ASSUME NEW doc \in Documents, Readable(doc), NEW from \in Nat \ {0}
  PROVE  /\ DraftOf(doc, from) \in Drafts
         /\ NextKey(doc, from) \in Nat /\ from <= NextKey(doc, from)
         /\ KeysOK(DraftOf(doc, from), NextKey(doc, from))
         /\ DraftOf(doc, from).title = doc.title
         /\ Len(DraftOf(doc, from).series) = Len(doc.series)
         /\ \A i \in 1 .. Len(doc.series) :
              \E first \in Nat \ {0} : DraftOf(doc, from).series[i] = SeriesOf(doc.series[i], first)
<1> DEFINE d == DraftOf(doc, from)
           N == Len(doc.series)
           K == KeyOf(doc, from)
           L == [i \in 1 .. N |-> SeriesOf(doc.series[i], K[i - 1])]
<1>1. /\ N \in Nat /\ DOMAIN doc.series = 1 .. N
      /\ \A i \in 1 .. N : /\ doc.series[i] \in DocSeries
                           /\ Len(doc.series[i].events) \in Nat
      /\ doc = [title |-> doc.title, series |-> doc.series] /\ doc.title \in Names
  BY DocumentIs DEF Documents
<1>2. /\ K \in [0 .. N -> Nat] /\ K[0] = from
      /\ \A i \in 1 .. N : K[i] = K[i - 1] + 1 + Len(doc.series[i].events)
      /\ \A i, k \in 0 .. N : i <= k => K[i] <= K[k]
  BY KeyOfIs, KeysGrow
<1>3. d = [doc EXCEPT !.series = L]
  BY <1>1 DEF DraftOf, SeriesOf
<1>4. NextKey(doc, from) = K[N]
  BY DEF NextKey
<1> HIDE DEF d, K, N
<1>5. \A i \in 1 .. N : i - 1 \in 0 .. N /\ i \in 0 .. N
  BY <1>1
<1>6. ASSUME NEW i \in 1 .. N
      PROVE  /\ K[i - 1] \in Nat \ {0} /\ K[i] \in Nat /\ K[i - 1] <= K[i]
             /\ K[i - 1] + Len(doc.series[i].events) = K[i] - 1 /\ K[i] - 1 <= K[N] - 1
             /\ K[N] \in Nat
  <2>1. 0 \in 0 .. N /\ 0 <= i - 1 /\ i <= N /\ N \in 0 .. N
    BY <1>1
  <2>2. from <= K[i - 1] /\ K[i] <= K[N]
    BY <2>1, <1>2, <1>5
  <2>3. K[i - 1] \in Nat /\ K[i] \in Nat /\ K[N] \in Nat
    BY <2>1, <1>2, <1>5
  <2> DEFINE a == K[i - 1]
             b == K[i]
             l == Len(doc.series[i].events)
  <2>4. b = a + 1 + l /\ l \in Nat /\ a \in Nat /\ b \in Nat
    BY <2>3, <1>1, <1>2
  <2> HIDE DEF a, b, l
  <2>5. a <= b /\ a + l = b - 1
    BY <2>4
  <2>6. a # 0 /\ b - 1 <= K[N] - 1
    <3>1. from <= a /\ b <= K[N]
      BY <2>2 DEF a, b
    <3> QED
      BY <3>1, <2>3, <2>4
  <2> QED
    BY <2>3, <2>5, <2>6 DEF a, b, l
<1>7. ASSUME NEW i \in 1 .. N
      PROVE  /\ L[i] = SeriesOf(doc.series[i], K[i - 1])
             /\ L[i] \in SeriesDrafts
             /\ KeysAreItsOwn(L[i])
             /\ KeysIn(L[i]) \subseteq K[i - 1] .. K[i] - 1
  <2> DEFINE s == doc.series[i]
             first == K[i - 1]
  <2>1. /\ s \in DocSeries /\ StartOK(s) /\ first \in Nat \ {0}
        /\ \A j \in 1 .. Len(s.events) : WellSpelt(s.events[j])
        /\ first + Len(s.events) = K[i] - 1
    BY <1>1, <1>6 DEF Readable, N
  <2>2. L[i] = SeriesOf(s, first)
    OBVIOUS
  <2> HIDE DEF s, first, L
  <2>3. /\ SeriesOf(s, first) \in SeriesDrafts
        /\ KeysAreItsOwn(SeriesOf(s, first))
        /\ KeysIn(SeriesOf(s, first)) \subseteq first .. first + Len(s.events)
    BY <2>1, SeriesOfIs
  <2> QED
    BY <2>1, <2>2, <2>3 DEF s, first
<1>8. L = [i \in 1 .. N |-> L[i]]
  OBVIOUS
<1> HIDE DEF L
<1>9. L \in Seq(SeriesDrafts) /\ Len(L) = N /\ DOMAIN L = 1 .. N
  BY <1>1, <1>7, <1>8, ListOf
<1>10. d \in Drafts /\ d.series = L /\ d.title = doc.title
  BY <1>1, <1>3, <1>9 DEF Drafts
<1>11. ASSUME NEW i \in 1 .. N
       PROVE  KeysIn(L[i]) \subseteq 1 .. K[N] - 1
  <2>1. \A x \in K[i - 1] .. K[i] - 1 : x \in 1 .. K[N] - 1
    BY <1>6
  <2> QED
    BY <2>1, <1>7
<1>12. ASSUME NEW i \in 1 .. N, NEW k \in 1 .. N, i < k
       PROVE  KeysIn(L[i]) \cap KeysIn(L[k]) = {}
  <2>1. i \in 0 .. N /\ k - 1 \in 0 .. N /\ i <= k - 1
    BY <1>12, <1>1
  <2>2. K[i] <= K[k - 1]
    BY <2>1, <1>2
  <2>3. K[i] \in Nat /\ K[k - 1] \in Nat /\ K[i - 1] \in Nat /\ K[k] \in Nat
    BY <1>6
  <2>4. \A x \in K[i - 1] .. K[i] - 1 : x \notin K[k - 1] .. K[k] - 1
    BY <2>2, <2>3
  <2> QED
    BY <2>4, <1>7
<1>13. \A i, k \in 1 .. N : i # k => KeysIn(L[i]) \cap KeysIn(L[k]) = {}
  <2> SUFFICES ASSUME NEW i \in 1 .. N, NEW k \in 1 .. N, i # k
               PROVE  KeysIn(L[i]) \cap KeysIn(L[k]) = {}
    OBVIOUS
  <2>1. i < k \/ k < i
    BY <1>1
  <2>2. CASE i < k
    BY <2>2, <1>12
  <2>3. CASE k < i
    <3>1. KeysIn(L[k]) \cap KeysIn(L[i]) = {}
      BY <2>3, <1>12
    <3> QED
      BY <3>1
  <2> QED
    BY <2>1, <2>2, <2>3
<1>14. KeysOK(d, K[N])
  BY <1>7, <1>9, <1>10, <1>11, <1>13 DEF KeysOK
<1>15. K[N] \in Nat /\ from <= K[N]
  <2>1. 0 \in 0 .. N /\ N \in 0 .. N /\ 0 <= N
    BY <1>1
  <2> QED
    BY <2>1, <1>2
<1>16. \A i \in 1 .. N : \E first \in Nat \ {0} : d.series[i] = SeriesOf(doc.series[i], first)
  BY <1>6, <1>7, <1>10
<1> QED
  BY <1>4, <1>9, <1>10, <1>14, <1>15, <1>16 DEF d, N, K

(* What was just read asks of its clocks what they do.                     *)
LEMMA AnchorsAre ==
  ASSUME NEW d \in Drafts, NEW n, KeysOK(d, n)
  PROVE  ClocksOK(d, Anchors(d), n)
<1> DEFINE L == d.series
           N == Len(L)
           all == {L[i] : i \in 1 .. N}
           w == [key \in {s.key : s \in all} |-> (CHOOSE s \in all : s.key = key).anchor]
<1>1. /\ DOMAIN L = 1 .. N /\ N \in Nat
      /\ \A i \in 1 .. N : L[i] \in SeriesDrafts
  BY DraftIs
<1>2. Anchors(d) = w
  <2>1. ToSet(d.series) = all
    BY <1>1 DEF ToSet
  <2> QED
    BY <2>1 DEF Anchors
<1>3. \A i \in 1 .. N :
        /\ KeysIn(L[i]) \subseteq 1 .. n - 1
        /\ \A k \in 1 .. N \ {i} : KeysIn(L[i]) \cap KeysIn(L[k]) = {}
        /\ L[i].key \in KeysIn(L[i])
  <2>1. \A i \in 1 .. N : L[i].key \in KeysIn(L[i])
    BY <1>1, KeysInIs
  <2> QED
    BY <2>1, <1>1 DEF KeysOK
<1> HIDE DEF L, N
<1>4. \A i, k \in 1 .. N : L[i].key = L[k].key => i = k
  <2> SUFFICES ASSUME NEW i \in 1 .. N, NEW k \in 1 .. N, L[i].key = L[k].key, i # k PROVE FALSE
    OBVIOUS
  <2>1. KeysIn(L[i]) \cap KeysIn(L[k]) = {} /\ L[i].key \in KeysIn(L[i]) /\ L[k].key \in KeysIn(L[k])
    BY <1>3
  <2> QED
    BY <2>1
<1>5. ASSUME NEW i \in 1 .. N
      PROVE  L[i].key \in DOMAIN w /\ w[L[i].key] = L[i].anchor
  <2>1. L[i] \in all /\ \A s \in all : s.key = L[i].key => s = L[i]
    BY <1>4
  <2> DEFINE key == L[i].key
             found == CHOOSE s \in all : s.key = key
  <2>2. key \in {s.key : s \in all}
    BY <2>1
  <2>3. found \in all /\ found.key = key
    BY <2>1
  <2>4. found = L[i]
    BY <2>1, <2>3
  <2>5. w[key] = found.anchor
    BY <2>2
  <2> QED
    BY <2>2, <2>4, <2>5
<1>6. DOMAIN w \subseteq 1 .. n - 1
  <2>1. \A key \in DOMAIN w : \E i \in 1 .. N : key = L[i].key
    OBVIOUS
  <2> QED
    BY <2>1, <1>3
<1> HIDE DEF w
<1>7. ClocksOK(d, w, n)
  BY <1>1, <1>5, <1>6 DEF ClocksOK, L
<1> QED
  BY <1>2, <1>7

(* What a document of n banks is read as needs no more of them.            *)
LEMMA BanksAre ==
  ASSUME NEW doc \in Documents, Readable(doc), NEW from \in Nat \ {0}
  PROVE  /\ BanksRequired(doc) \in 1 .. MaxBanks
         /\ \A c \in Nat : BanksRequired(doc) <= c => BanksOK(DraftOf(doc, from), c)
<1> DEFINE d == DraftOf(doc, from)
           N == Len(doc.series)
<1>1. /\ d \in Drafts /\ Len(d.series) = N
      /\ \A i \in 1 .. N : \E first \in Nat \ {0} : d.series[i] = SeriesOf(doc.series[i], first)
  BY DraftOfIs
<1>2. /\ MaxBanks \in Nat \ {0}
      /\ \A i \in 1 .. N : \A j \in 1 .. Len(doc.series[i].events) :
           /\ doc.series[i].events[j].banks \in BankMaps
           /\ DOMAIN doc.series[i].events[j].banks \subseteq 1 .. MaxBanks
           /\ \A b \in DOMAIN doc.series[i].events[j].banks :
                doc.series[i].events[j].banks[b] \in Turns
  <2>1. \A i \in 1 .. N : \A j \in 1 .. Len(doc.series[i].events) :
          doc.series[i].events[j] \in Events /\ WellSpelt(doc.series[i].events[j])
    BY DocumentIs DEF Readable
  <2> QED
    BY <2>1, EditorAssumption, DocumentAssumption DEF WellSpelt, Events
<1>3. /\ BanksRequired(doc) \in 1 .. MaxBanks
      /\ \A i \in 1 .. N : \A j \in 1 .. Len(doc.series[i].events) :
           DOMAIN doc.series[i].events[j].banks \subseteq 1 .. BanksRequired(doc)
  BY <1>2, BanksRequiredIs
<1>4. DOMAIN d.series = 1 .. N /\ \A i \in 1 .. N : doc.series[i] \in DocSeries
  BY <1>1, DraftIs, DocumentIs
<1> HIDE DEF d, N
<1>5. ASSUME NEW c \in Nat, BanksRequired(doc) <= c,
             NEW i \in 1 .. N, NEW j \in DOMAIN d.series[i].events
      PROVE  NamesOK(d.series[i].events[j], c)
  <2> DEFINE s == doc.series[i]
  <2>1. PICK first \in Nat \ {0} : d.series[i] = SeriesOf(s, first)
    BY <1>1
  <2>2. s \in DocSeries /\ StartOK(s) /\ \A k \in 1 .. Len(s.events) : WellSpelt(s.events[k])
    BY <1>4 DEF Readable, N
  <2> HIDE DEF s
  <2>3. /\ SeriesOf(s, first) \in SeriesDrafts
        /\ Len(SeriesOf(s, first).events) = Len(s.events)
        /\ \A k \in 1 .. Len(s.events) : SeriesOf(s, first).events[k].banks = s.events[k].banks
    BY <2>2, SeriesOfIs
  <2>4. j \in 1 .. Len(s.events)
    BY <2>1, <2>3, KeysInIs
  <2>5. d.series[i].events[j].banks = s.events[j].banks
    BY <2>1, <2>3, <2>4
  <2>6. /\ DOMAIN s.events[j].banks \subseteq 1 .. BanksRequired(doc)
        /\ \A b \in DOMAIN s.events[j].banks : s.events[j].banks[b] \in Turns
    BY <2>4, <1>2, <1>3 DEF s
  <2>7. 1 .. BanksRequired(doc) \subseteq 1 .. c
    BY <1>3, <1>5
  <2> QED
    BY <2>5, <2>6, <2>7 DEF NamesOK
<1>6. \A c \in Nat : BanksRequired(doc) <= c => BanksOK(d, c)
  BY <1>4, <1>5 DEF BanksOK
<1> QED
  BY <1>3, <1>6 DEF d

(* The draft is replaced by what was read.                                 *)
LEMMA ReplaceKeeps ==
  ASSUME DraftOK, NEW doc \in Documents, Readable(doc), Replace(doc)
  PROVE  DraftOK'
<1> DEFINE d == DraftOf(doc, nextKey)
           n == NextKey(doc, nextKey)
           c == Max({bankCount, BanksRequired(doc)})
<1>1. nextKey \in Nat \ {0} /\ bankCount \in 1 .. MaxBanks /\ MaxBanks \in Nat
  BY EditorAssumption, DocumentAssumption DEF DraftOK
<1>2. /\ draft' = d /\ nextKey' = n /\ wanted' = Anchors(d) /\ bankCount' = c
      /\ selection' = {}
  BY DEF Replace
<1>3. d \in Drafts /\ n \in Nat /\ nextKey <= n /\ KeysOK(d, n)
  BY <1>1, DraftOfIs
<1>4. BanksRequired(doc) \in 1 .. MaxBanks /\ \A k \in Nat : BanksRequired(doc) <= k => BanksOK(d, k)
  BY <1>1, BanksAre
<1> DEFINE S == {bankCount, BanksRequired(doc)}
<1>5. S \subseteq 0 .. MaxBanks /\ S # {}
  BY <1>1, <1>4
<1>6. Max(S) \in S /\ \A y \in S : y <= Max(S)
  BY <1>1, <1>5, MaxIs
<1> HIDE DEF d, n
<1>7. c \in 1 .. MaxBanks /\ BanksRequired(doc) <= c
  BY <1>1, <1>4, <1>6
<1> HIDE DEF c
<1>8. BanksOK(d, c)
  BY <1>1, <1>4, <1>7
<1>9. ClocksOK(d, Anchors(d), n)
  BY <1>3, AnchorsAre
<1>10. n \in Nat \ {0}
  BY <1>1, <1>3
<1>11. TicksOK(draft', selection', collapsed')
  BY <1>2 DEF TicksOK
<1> QED
  BY <1>2, <1>3, <1>7, <1>8, <1>9, <1>10, <1>11 DEF DraftOK

(* Reading and writing again only drops a start that says nothing.         *)
LEMMA ReadAndWritten ==
  ASSUME NEW doc \in Documents, Readable(doc), NEW from \in Nat \ {0}
  PROVE  ToDocument(DraftOf(doc, from)) = Plain(doc)
<1> DEFINE d == DraftOf(doc, from)
           N == Len(doc.series)
           Out(s) == [name |-> s.name,
                      start |-> IF AnchorIndex(s) = 0 THEN Absent ELSE AnchorIndex(s),
                      events |-> [i \in DOMAIN s.events |-> WithoutKey(s.events[i])]]
           Drop(s) == [s EXCEPT !.start = IF @ = 0 THEN Absent ELSE @]
<1>1. /\ d \in Drafts /\ Len(d.series) = N /\ d.title = doc.title
      /\ \A i \in 1 .. N : \E first \in Nat \ {0} : d.series[i] = SeriesOf(doc.series[i], first)
  BY DraftOfIs
<1>2. /\ DOMAIN d.series = 1 .. N /\ DOMAIN doc.series = 1 .. N
      /\ doc = [title |-> doc.title, series |-> doc.series]
      /\ \A i \in 1 .. N : doc.series[i] \in DocSeries
  BY <1>1, DraftIs, DocumentIs DEF Documents
<1>d. d = [title |-> d.title, series |-> d.series]
  BY <1>1 DEF Drafts
<1>3. ToDocument(d) = [title |-> doc.title, series |-> [i \in 1 .. N |-> Out(d.series[i])]]
  <2>1. ToDocument(d) = [d EXCEPT !.series = [i \in 1 .. N |-> Out(d.series[i])]]
    BY <1>2 DEF ToDocument, EachSeries
  <2> HIDE DEF d, Out
  <2> QED
    BY <2>1, <1>1, <1>d
<1>4. Plain(doc) = [title |-> doc.title, series |-> [i \in 1 .. N |-> Drop(doc.series[i])]]
  <2>1. Plain(doc) = [doc EXCEPT !.series = [i \in 1 .. N |-> Drop(doc.series[i])]]
    BY <1>2 DEF Plain, EachSeries
  <2> HIDE DEF Drop
  <2> QED
    BY <2>1, <1>2
<1>5. ASSUME NEW i \in 1 .. N
      PROVE  Out(d.series[i]) = Drop(doc.series[i])
  <2> DEFINE s == doc.series[i]
  <2>1. PICK first \in Nat \ {0} : d.series[i] = SeriesOf(s, first)
    BY <1>1
  <2>2. /\ s \in DocSeries /\ StartOK(s) /\ \A k \in 1 .. Len(s.events) : WellSpelt(s.events[k])
        /\ DOMAIN s.events = 1 .. Len(s.events)
        /\ \A k \in 1 .. Len(s.events) : s.events[k] \in Events
    BY <1>2, DocumentIs DEF Readable
  <2> HIDE DEF s
  <2> DEFINE new == SeriesOf(s, first)
             M == Len(s.events)
  <2>3. /\ new \in SeriesDrafts /\ Len(new.events) = M /\ new.name = s.name
        /\ \A j \in 1 .. M :
             /\ new.events[j].duration = s.events[j].duration
             /\ new.events[j].command = s.events[j].command
             /\ new.events[j].banks = s.events[j].banks
             /\ new.events[j].clips = s.events[j].clips
        /\ AnchorIndex(new) = IF s.start = Absent THEN 0 ELSE s.start
    BY <2>2, SeriesOfIs
  <2>4. DOMAIN new.events = 1 .. M
    BY <2>3, KeysInIs
  <2> HIDE DEF new, M
  <2>5. \A j \in 1 .. M : WithoutKey(new.events[j]) = s.events[j]
    BY <2>2, <2>3 DEF WithoutKey, Events, M
  <2>6. [j \in DOMAIN new.events |-> WithoutKey(new.events[j])] = s.events
    <3>1. s.events = [j \in 1 .. M |-> s.events[j]]
      BY <2>2 DEF DocSeries, M
    <3> QED
      BY <3>1, <2>4, <2>5
  <2>7. Out(new) = [name |-> s.name,
                    start |-> IF s.start = Absent \/ s.start = 0 THEN Absent ELSE s.start,
                    events |-> s.events]
    <3>1. AnchorIndex(new) = IF s.start = Absent THEN 0 ELSE s.start
      BY <2>3
    <3>2. (IF AnchorIndex(new) = 0 THEN Absent ELSE AnchorIndex(new))
            = IF s.start = Absent \/ s.start = 0 THEN Absent ELSE s.start
      BY <3>1
    <3> QED
      BY <2>3, <2>6, <3>2
  <2>8. Drop(s) = [name |-> s.name,
                   start |-> IF s.start = Absent \/ s.start = 0 THEN Absent ELSE s.start,
                   events |-> s.events]
    BY <2>2 DEF DocSeries
  <2> QED
    BY <2>1, <2>7, <2>8 DEF new, s
<1> HIDE DEF Out, Drop
<1>6. [i \in 1 .. N |-> Out(d.series[i])] = [i \in 1 .. N |-> Drop(doc.series[i])]
  BY <1>5
<1> QED
  BY <1>3, <1>4, <1>6
-----------------------------------------------------------------------------
(* What the page shows, the device stores and the draft says *)

(* A document whose events are changed one by one.                         *)
SameShape(new, doc) ==
  /\ new \in Documents
  /\ Len(new.series) = Len(doc.series)
  /\ \A i \in 1 .. Len(doc.series) :
       /\ new.series[i].name = doc.series[i].name
       /\ Len(new.series[i].events) = Len(doc.series[i].events)

LEMMA SameIssues ==
  ASSUME NEW doc \in Documents, NEW new, SameShape(new, doc)
  PROVE  Unnamed(new) = Unnamed(doc) /\ Eventless(new) = Eventless(doc)
<1> DEFINE N == Len(doc.series)
<1>1. DOMAIN doc.series = 1 .. N /\ DOMAIN new.series = 1 .. N
  BY DocumentIs DEF SameShape
<1>2. \A i \in 1 .. N : /\ doc.series[i].events \in Seq(Events)
                        /\ new.series[i].events \in Seq(Events)
                        /\ Len(new.series[i].events) = Len(doc.series[i].events)
                        /\ new.series[i].name = doc.series[i].name
  <2>1. new \in Documents /\ Len(new.series) = N
    BY DEF SameShape
  <2> QED
    BY <2>1, DocumentIs DEF SameShape
<1> HIDE DEF N
<1>3. \A i \in 1 .. N : new.series[i].events = <<>> <=> doc.series[i].events = <<>>
  <2>1. \A E \in Seq(Events) : E = <<>> <=> Len(E) = 0
    OBVIOUS
  <2> QED
    BY <2>1, <1>2
<1> QED
  BY <1>1, <1>2, <1>3 DEF Unnamed, Eventless

(* Fitting() drops what the device would drop, and nothing else.           *)
LEMMA FittingIs ==
  ASSUME NEW clips \in Seq(Nat)
  PROVE  /\ Fitting(clips) \in Seq(Nat)
         /\ \A k \in 1 .. Len(Fitting(clips)) : Fitting(clips)[k] <= MaxClip
         /\ (\A k \in 1 .. Len(clips) : clips[k] <= MaxClip) => Fitting(clips) = clips
<1> DEFINE good == 0 .. MaxClip
           L == Among(clips, good)
<1>0. MaxClip \in Nat /\ \A k \in 1 .. Len(clips) : clips[k] \in Nat
  BY EditorAssumption, DocumentAssumption
<1>1. /\ L \in Seq(Nat)
      /\ \E src \in [1 .. Len(L) -> 1 .. Len(clips)] :
           /\ \A j, k \in 1 .. Len(L) : src[j] = src[k] => j = k
           /\ \A k \in 1 .. Len(L) : L[k] = clips[src[k]] /\ clips[src[k]] \in good
      /\ (\A k \in 1 .. Len(clips) : clips[k] \in good) => L = clips
  <2> HIDE DEF good
  <2> QED
    BY AmongIs
<1>2. Fitting(clips) = L
  BY DEF Fitting
<1> HIDE DEF L
<1>3. \A k \in 1 .. Len(L) : L[k] <= MaxClip
  <2> HIDE DEF good
  <2>1. \A k \in 1 .. Len(L) : L[k] \in good
    BY <1>1
  <2>2. \A c \in good : c <= MaxClip
    BY <1>0 DEF good
  <2> QED
    BY <2>1, <2>2
<1>4. (\A k \in 1 .. Len(clips) : clips[k] <= MaxClip) => \A k \in 1 .. Len(clips) : clips[k] \in good
  BY <1>0
<1> HIDE DEF good
<1> QED
  BY <1>1, <1>2, <1>3, <1>4

LEMMA ClampedIs ==
  ASSUME NEW ms \in Int
  PROVE  /\ Clamped(ms) \in MinMs .. MaxMs
         /\ ms \in MinMs .. MaxMs => Clamped(ms) = ms
BY EditorAssumption, DocumentAssumption DEF Clamped

(* What the page shows of a document it accepts.                           *)
Shown(e) == [e EXCEPT !.duration = Clamped(@), !.clips = Fitting(@)]
LEMMA ShownIs ==
  ASSUME NEW e \in Events, e.duration # Typo
  PROVE  /\ Shown(e) \in Events
         /\ Shown(e).command = e.command /\ Shown(e).banks = e.banks
         /\ Shown(e).duration \in MinMs .. MaxMs
         /\ \A k \in DOMAIN Shown(e).clips : Shown(e).clips[k] <= MaxClip
         /\ WellSpelt(e) => WellSpelt(Shown(e))
<1>1. e.duration \in Int /\ e.clips \in Seq(Nat)
  BY DEF Events
<1> DEFINE d == Clamped(e.duration)
           c == Fitting(e.clips)
<1>2. d \in MinMs .. MaxMs /\ MinMs \in Int /\ MaxMs \in Int
  BY <1>1, ClampedIs, EditorAssumption, DocumentAssumption
<1>3. c \in Seq(Nat) /\ \A k \in 1 .. Len(c) : c[k] <= MaxClip
  BY <1>1, FittingIs
<1>4. Shown(e) = [e EXCEPT !.duration = d, !.clips = c]
  BY DEF Shown
<1> HIDE DEF c, d
<1>5. DOMAIN c = 1 .. Len(c) /\ d \in Int
  BY <1>2, <1>3
<1>6. /\ Shown(e) \in Events
      /\ Shown(e).command = e.command /\ Shown(e).banks = e.banks
      /\ Shown(e).duration = d /\ Shown(e).clips = c
  BY <1>3, <1>4, <1>5 DEF Events
<1> QED
  BY <1>2, <1>3, <1>5, <1>6 DEF WellSpelt

(* What the page reads it can show, and the device stores it as it is.     *)
LEMMA PageViewIs ==
  ASSUME NEW doc \in Documents, PageAccepts(doc)
  PROVE  /\ PageView(doc) \in Documents /\ Readable(PageView(doc)) /\ Settled(PageView(doc))
         /\ SameShape(PageView(doc), doc)
<1> DEFINE new == PageView(doc)
           N == Len(doc.series)
           View(s) == [s EXCEPT !.events = [j \in DOMAIN @ |-> Shown(@[j])]]
           L == [i \in 1 .. N |-> View(doc.series[i])]
<1>1. /\ N \in Nat /\ DOMAIN doc.series = 1 .. N
      /\ \A i \in 1 .. N : doc.series[i] \in DocSeries
      /\ doc = [title |-> doc.title, series |-> doc.series] /\ doc.title \in Names
  BY DocumentIs DEF Documents
<1>2. new = [doc EXCEPT !.series = L]
  BY <1>1 DEF PageView, EachSeries, EachEvent, Shown
<1>3. Readable(doc) /\ \A i \in 1 .. N : \A j \in 1 .. Len(doc.series[i].events) :
                         doc.series[i].events[j].duration # Typo
  BY ReadableIs, EventsOfIs DEF PageAccepts
<1>4. L = [i \in 1 .. N |-> L[i]]
  OBVIOUS
<1>5. ASSUME NEW i \in 1 .. N
      PROVE  /\ L[i] \in DocSeries /\ L[i].name = doc.series[i].name
             /\ StartOK(L[i])
             /\ Len(L[i].events) = Len(doc.series[i].events)
             /\ DOMAIN L[i].events = 1 .. Len(L[i].events)
             /\ \A j \in 1 .. Len(L[i].events) :
                  /\ WellSpelt(L[i].events[j])
                  /\ L[i].events[j].duration \in MinMs .. MaxMs
                  /\ \A k \in DOMAIN L[i].events[j].clips : L[i].events[j].clips[k] <= MaxClip
  <2> DEFINE s == doc.series[i]
             E == [j \in DOMAIN s.events |-> Shown(s.events[j])]
  <2>1. /\ s \in DocSeries /\ s.events \in Seq(Events) /\ StartOK(s)
        /\ \A j \in 1 .. Len(s.events) :
             /\ s.events[j] \in Events /\ WellSpelt(s.events[j])
             /\ s.events[j].duration # Typo
    BY <1>1, <1>3, DocumentIs DEF Readable
  <2>2. L[i] = [s EXCEPT !.events = E]
    OBVIOUS
  <2> HIDE DEF s, L
  <2>3. \A j \in 1 .. Len(s.events) :
          /\ Shown(s.events[j]) \in Events /\ WellSpelt(Shown(s.events[j]))
          /\ Shown(s.events[j]).duration \in MinMs .. MaxMs
          /\ \A k \in DOMAIN Shown(s.events[j]).clips : Shown(s.events[j]).clips[k] <= MaxClip
    BY <2>1, ShownIs
  <2>4. /\ E \in Seq(Events) /\ Len(E) = Len(s.events)
        /\ \A j \in 1 .. Len(s.events) : E[j] = Shown(s.events[j])
    <3>1. /\ DOMAIN s.events = 1 .. Len(s.events) /\ Len(s.events) \in Nat
      BY <2>1
    <3>2. E = [j \in 1 .. Len(s.events) |-> E[j]] /\ \A j \in 1 .. Len(s.events) : E[j] = Shown(s.events[j])
      BY <3>1
    <3> HIDE DEF E
    <3>3. \A j \in 1 .. Len(s.events) : E[j] \in Events
      BY <3>2, <2>3
    <3>4. E \in Seq(Events) /\ Len(E) = Len(s.events)
      BY <3>1, <3>2, <3>3, ListOf
    <3> QED
      BY <3>2, <3>4
  <2> HIDE DEF E
  <2>5. L[i] \in DocSeries /\ L[i].name = s.name /\ L[i].start = s.start /\ L[i].events = E
    BY <2>1, <2>2, <2>4 DEF DocSeries
  <2>6. StartOK(L[i])
    BY <2>1, <2>4, <2>5 DEF StartOK
  <2>7. Len(L[i].events) = Len(s.events) /\ DOMAIN L[i].events = 1 .. Len(L[i].events)
    BY <2>4, <2>5
  <2>8. \A j \in 1 .. Len(L[i].events) : L[i].events[j] = Shown(s.events[j]) /\ j \in 1 .. Len(s.events)
    BY <2>4, <2>5, <2>7
  <2>9. \A j \in 1 .. Len(L[i].events) :
          /\ WellSpelt(L[i].events[j])
          /\ L[i].events[j].duration \in MinMs .. MaxMs
          /\ \A k \in DOMAIN L[i].events[j].clips : L[i].events[j].clips[k] <= MaxClip
    BY <2>3, <2>8
  <2> QED
    BY <2>5, <2>6, <2>7, <2>9 DEF s
<1> HIDE DEF L, new
<1>6. L \in Seq(DocSeries) /\ Len(L) = N /\ DOMAIN L = 1 .. N
  BY <1>1, <1>4, <1>5, ListOf
<1>7. new \in Documents /\ new.series = L
  BY <1>1, <1>2, <1>6 DEF Documents, DocSeries
<1>8. Readable(new)
  BY <1>5, <1>6, <1>7 DEF Readable
<1>9. Settled(new)
  BY <1>5, <1>6, <1>7 DEF Settled
<1>10. SameShape(new, doc)
  BY <1>5, <1>6, <1>7 DEF SameShape
<1> QED
  BY <1>7, <1>8, <1>9, <1>10 DEF new

(* A start that says nothing is dropped.                                   *)
Dropped(s) == [s EXCEPT !.start = IF @ = 0 THEN Absent ELSE @]
LEMMA PlainIs ==
  ASSUME NEW doc \in Documents
  PROVE  /\ Plain(doc) = [title |-> doc.title,
                          series |-> [i \in 1 .. Len(doc.series) |-> Dropped(doc.series[i])]]
         /\ Plain(doc) \in Documents /\ SameShape(Plain(doc), doc)
         /\ Readable(doc) => Readable(Plain(doc))
         /\ Settled(doc) => Settled(Plain(doc))
         /\ Plain(Plain(doc)) = Plain(doc)
         /\ (\A i \in 1 .. Len(doc.series) : doc.series[i].start # 0) => Plain(doc) = doc
<1> DEFINE N == Len(doc.series)
           new == Plain(doc)
           L == [i \in 1 .. N |-> Dropped(doc.series[i])]
<1>1. /\ N \in Nat /\ DOMAIN doc.series = 1 .. N
      /\ \A i \in 1 .. N : doc.series[i] \in DocSeries
      /\ doc = [title |-> doc.title, series |-> doc.series] /\ doc.title \in Names
      /\ doc.series \in Seq(DocSeries)
  BY DocumentIs DEF Documents
<1>2. new = [doc EXCEPT !.series = L]
  BY <1>1 DEF Plain, EachSeries, Dropped
<1>3. L = [i \in 1 .. N |-> L[i]] /\ \A i \in 1 .. N : L[i] = Dropped(doc.series[i])
  OBVIOUS
<1> HIDE DEF L
<1>4. \A s \in DocSeries :
        /\ Dropped(s) \in DocSeries /\ Dropped(s).name = s.name /\ Dropped(s).events = s.events
        /\ Dropped(s).start = IF s.start = 0 THEN Absent ELSE s.start
        /\ Dropped(s).start # 0
        /\ s.start # 0 => Dropped(s) = s
  <2> TAKE s \in DocSeries
  <2>0. Absent # 0
    BY EditorAssumption, DocumentAssumption
  <2> DEFINE start == IF s.start = 0 THEN Absent ELSE s.start
  <2>1. start \in Int \cup {Absent} /\ start # 0
    BY <2>0 DEF DocSeries
  <2>2. Dropped(s) = [s EXCEPT !.start = start]
    BY DEF Dropped
  <2>3. s.start # 0 => start = s.start
    OBVIOUS
  <2> HIDE DEF start
  <2>4. /\ Dropped(s) \in DocSeries /\ Dropped(s).name = s.name /\ Dropped(s).events = s.events
        /\ Dropped(s).start = start
    BY <2>1, <2>2 DEF DocSeries
  <2>5. s.start # 0 => Dropped(s) = s
    BY <2>2, <2>3 DEF DocSeries
  <2> QED
    BY <2>1, <2>4, <2>5 DEF start
<1>5. L \in Seq(DocSeries) /\ Len(L) = N /\ DOMAIN L = 1 .. N
  <2>1. \A i \in 1 .. N : L[i] \in DocSeries
    BY <1>1, <1>3, <1>4
  <2> QED
    BY <2>1, <1>1, <1>3, ListOf
<1>6. new \in Documents /\ new.series = L /\ new.title = doc.title
      /\ new = [title |-> doc.title, series |-> L]
  <2> HIDE DEF new
  <2> QED
    BY <1>1, <1>2, <1>5 DEF Documents, DocSeries
<1> HIDE DEF new, N
<1>7. \A i \in 1 .. N : /\ L[i].name = doc.series[i].name /\ L[i].events = doc.series[i].events
                        /\ L[i].start = IF doc.series[i].start = 0 THEN Absent ELSE doc.series[i].start
                        /\ L[i].start # 0
                        /\ doc.series[i].start # 0 => L[i] = doc.series[i]
  BY <1>1, <1>3, <1>4
<1>8. SameShape(new, doc)
  BY <1>5, <1>6, <1>7 DEF SameShape, N
<1>9. Readable(doc) => Readable(new)
  <2>1. ASSUME Readable(doc), NEW i \in 1 .. N
        PROVE  StartOK(L[i]) /\ \A j \in 1 .. Len(L[i].events) : WellSpelt(L[i].events[j])
    BY <2>1, <1>7 DEF Readable, StartOK, N
  <2> QED
    BY <2>1, <1>5, <1>6 DEF Readable
<1>10. Settled(doc) => Settled(new)
  BY <1>1, <1>5, <1>6, <1>7 DEF Settled
<1>11. \A i \in 1 .. N : Dropped(L[i]) = L[i]
  <2>1. \A i \in 1 .. N : L[i] \in DocSeries
    BY <1>5
  <2> QED
    BY <2>1, <1>4, <1>7
<1>12. Plain(new) = new
  <2>1. Plain(new) = [new EXCEPT !.series = [i \in 1 .. N |-> Dropped(L[i])]]
    BY <1>5, <1>6 DEF Plain, EachSeries, Dropped
  <2>2. [i \in 1 .. N |-> Dropped(L[i])] = L
    BY <1>3, <1>11
  <2> QED
    BY <2>1, <2>2, <1>6
<1>13. ASSUME \A i \in 1 .. N : doc.series[i].start # 0
       PROVE  new = doc
  <2>1. \A i \in 1 .. N : L[i] = doc.series[i]
    BY <1>7, <1>13
  <2>2. L = doc.series
    <3>1. doc.series = [i \in 1 .. N |-> doc.series[i]]
      BY <1>1
    <3> QED
      BY <3>1, <2>1, <1>3
  <2> QED
    BY <2>2, <1>1, <1>6
<1>14. new = [title |-> doc.title, series |-> [i \in 1 .. N |-> Dropped(doc.series[i])]]
  BY <1>3, <1>6
<1> QED
  BY <1>6, <1>8, <1>9, <1>10, <1>12, <1>13, <1>14 DEF N, new

(* What the device stores of an event.                                     *)
StoredEvent(e) == EventJson(ParsedEvent(e))
LEMMA StoredEventIs ==
  ASSUME NEW e \in Events, WellSpelt(e)
  PROVE  /\ StoredEvent(e).duration \in MinMs .. MaxMs
         /\ \A k \in DOMAIN StoredEvent(e).clips : StoredEvent(e).clips[k] <= MaxClip
         /\ (e.duration \in MinMs .. MaxMs /\ \A k \in DOMAIN e.clips : e.clips[k] <= MaxClip)
              => StoredEvent(e) = e
<1> DEFINE d == IF e.duration = Typo THEN MinMs ELSE Clamped(e.duration)
           c == Fitting(e.clips)
           show == BanksOf(e.banks, "show")
           hide == BanksOf(e.banks, "hide")
           banks == [bank \in show \cup hide |-> IF bank \in show THEN "show" ELSE "hide"]
<1>1. /\ e.duration \in Int \cup {Typo} /\ e.clips \in Seq(Nat) /\ e.banks \in BankMaps
      /\ MinMs \in Int /\ MaxMs \in Int /\ MinMs <= MaxMs /\ Typo \notin Int
      /\ e = [duration |-> e.duration, command |-> e.command, banks |-> e.banks, clips |-> e.clips]
  BY EditorAssumption, DocumentAssumption DEF Events
<1>2. StoredEvent(e) = [duration |-> d, command |-> e.command, banks |-> banks, clips |-> c]
  BY DEF StoredEvent, EventJson, ParsedEvent
<1>3. d \in MinMs .. MaxMs /\ (e.duration \in MinMs .. MaxMs => d = e.duration)
  <2>1. CASE e.duration = Typo
    BY <2>1, <1>1
  <2>2. CASE e.duration # Typo
    BY <2>2, <1>1, ClampedIs
  <2> QED
    BY <2>1, <2>2
<1>4. /\ c \in Seq(Nat) /\ \A k \in 1 .. Len(c) : c[k] <= MaxClip
      /\ (\A k \in 1 .. Len(e.clips) : e.clips[k] <= MaxClip) => c = e.clips
  BY <1>1, FittingIs
<1>5. banks = e.banks
  <2>1. /\ e.banks = [bank \in DOMAIN e.banks |-> e.banks[bank]]
        /\ \A bank \in DOMAIN e.banks : e.banks[bank] \in {"show", "hide"}
    BY <1>1 DEF WellSpelt, BankMaps, Turns
  <2>2. show = {bank \in DOMAIN e.banks : e.banks[bank] = "show"}
        /\ hide = {bank \in DOMAIN e.banks : e.banks[bank] = "hide"}
    BY DEF BanksOf
  <2> HIDE DEF show, hide
  <2>3. show \cup hide = DOMAIN e.banks
    BY <2>1, <2>2
  <2>4. \A bank \in DOMAIN e.banks : (IF bank \in show THEN "show" ELSE "hide") = e.banks[bank]
    BY <2>1, <2>2
  <2> QED
    BY <2>1, <2>3, <2>4
<1> HIDE DEF d, c, banks
<1>6. DOMAIN c = 1 .. Len(c) /\ DOMAIN e.clips = 1 .. Len(e.clips)
  BY <1>1, <1>4
<1>7. StoredEvent(e).duration = d /\ StoredEvent(e).clips = c
  BY <1>2
<1>8. ASSUME e.duration \in MinMs .. MaxMs, \A k \in DOMAIN e.clips : e.clips[k] <= MaxClip
      PROVE  StoredEvent(e) = e
  <2>1. d = e.duration /\ c = e.clips
    BY <1>3, <1>4, <1>6, <1>8
  <2> QED
    BY <2>1, <1>1, <1>2, <1>5
<1> QED
  BY <1>3, <1>4, <1>6, <1>7, <1>8

(* The device stores a settled document as it is sent, but for a start of 0. *)
LEMMA StoredIs ==
  ASSUME NEW doc \in Documents, Readable(doc)
  PROVE  /\ Settled(doc) => Stored(doc) = Plain(doc)
         /\ Stored(doc) = doc => Settled(doc) /\ Plain(doc) = doc
<1> DEFINE N == Len(doc.series)
           AsKept(s) == [name |-> s.name,
                        start |-> IF s.start = Absent \/ s.start = 0 THEN Absent ELSE s.start,
                        events |-> [j \in DOMAIN s.events |-> StoredEvent(s.events[j])]]
           L == [i \in 1 .. N |-> AsKept(doc.series[i])]
<1>1. /\ N \in Nat /\ DOMAIN doc.series = 1 .. N
      /\ doc = [title |-> doc.title, series |-> doc.series]
      /\ \A i \in 1 .. N :
           /\ doc.series[i] \in DocSeries
           /\ DOMAIN doc.series[i].events = 1 .. Len(doc.series[i].events)
           /\ \A j \in 1 .. Len(doc.series[i].events) :
                doc.series[i].events[j] \in Events /\ WellSpelt(doc.series[i].events[j])
  BY DocumentIs DEF Documents, Readable
<1>2. Stored(doc) = [title |-> doc.title, series |-> L]
  <2> DEFINE P == [i \in 1 .. N |-> ParsedSeries(doc.series[i])]
  <2>1. Parsed(doc) = [title |-> doc.title, series |-> P]
    BY <1>1 DEF Parsed, EachSeries
  <2>2. ProgramJson(Parsed(doc)) = [title |-> doc.title, series |-> [i \in 1 .. N |-> SeriesJson(P[i])]]
    <3>1. DOMAIN P = 1 .. N
      OBVIOUS
    <3> DEFINE read == Parsed(doc)
               written == [i \in DOMAIN read.series |-> SeriesJson(read.series[i])]
    <3>2. ProgramJson(read) = [read EXCEPT !.series = written]
      BY DEF ProgramJson, EachSeries
    <3> HIDE DEF P
    <3>3. read = [title |-> doc.title, series |-> P] /\ read.series = P
      BY <2>1
    <3>4. written = [i \in 1 .. N |-> SeriesJson(P[i])]
      BY <3>1, <3>3
    <3> HIDE DEF read, written
    <3>5. ProgramJson(read) = [title |-> doc.title, series |-> written]
      BY <3>2, <3>3
    <3> QED
      BY <3>4, <3>5 DEF read
  <2>3. ASSUME NEW i \in 1 .. N PROVE SeriesJson(P[i]) = AsKept(doc.series[i])
    <3> DEFINE s == doc.series[i]
               p == ParsedSeries(s)
    <3>1. P[i] = p
      OBVIOUS
    <3>2. /\ p.name = s.name /\ p.start = (IF s.start = Absent THEN 0 ELSE s.start)
          /\ p.events = [k \in DOMAIN s.events |-> ParsedEvent(s.events[k])]
      BY DEF ParsedSeries
    <3> HIDE DEF s, p, P
    <3>3. [k \in DOMAIN p.events |-> EventJson(p.events[k])]
            = [k \in DOMAIN s.events |-> StoredEvent(s.events[k])]
      BY <3>2 DEF StoredEvent
    <3>4. (IF p.start = 0 THEN Absent ELSE p.start)
            = IF s.start = Absent \/ s.start = 0 THEN Absent ELSE s.start
      BY <3>2
    <3>5. SeriesJson(p) = [name |-> p.name, start |-> IF p.start = 0 THEN Absent ELSE p.start,
                           events |-> [k \in DOMAIN p.events |-> EventJson(p.events[k])]]
      BY DEF SeriesJson
    <3> QED
      BY <3>1, <3>2, <3>3, <3>4, <3>5 DEF s
  <2> HIDE DEF P, AsKept
  <2> QED
    BY <2>2, <2>3 DEF Stored
<1>3. ASSUME Settled(doc) PROVE Stored(doc) = Plain(doc)
  <2>1. ASSUME NEW i \in 1 .. N PROVE AsKept(doc.series[i]) = Dropped(doc.series[i])
    <3> DEFINE s == doc.series[i]
    <3>1. \A j \in DOMAIN s.events : StoredEvent(s.events[j]) = s.events[j]
      BY <1>1, <1>3, StoredEventIs DEF Settled
    <3>2. s \in DocSeries /\ s.events \in Seq(Events)
      BY <1>1 DEF DocSeries
    <3> HIDE DEF s
    <3>3. [j \in DOMAIN s.events |-> StoredEvent(s.events[j])] = s.events
      <4>1. s.events = [j \in DOMAIN s.events |-> s.events[j]]
        BY <3>2
      <4> QED
        BY <3>1, <4>1
    <3>4. AsKept(s) = [name |-> s.name,
                      start |-> IF s.start = Absent \/ s.start = 0 THEN Absent ELSE s.start,
                      events |-> s.events]
      BY <3>3
    <3>5. Dropped(s) = [name |-> s.name,
                        start |-> IF s.start = 0 THEN Absent ELSE s.start,
                        events |-> s.events]
      BY <3>2 DEF Dropped, DocSeries
    <3>6. (IF s.start = Absent \/ s.start = 0 THEN Absent ELSE s.start)
            = IF s.start = 0 THEN Absent ELSE s.start
      OBVIOUS
    <3> HIDE DEF AsKept
    <3> QED
      BY <3>4, <3>5, <3>6 DEF s
  <2>2. Plain(doc) = [title |-> doc.title, series |-> [i \in 1 .. N |-> Dropped(doc.series[i])]]
    BY PlainIs
  <2> HIDE DEF AsKept, N
  <2> QED
    BY <1>2, <2>1, <2>2
<1>4. ASSUME Stored(doc) = doc PROVE Settled(doc) /\ Plain(doc) = doc
  <2>1. doc.series = L
    BY <1>2, <1>4
  <2>2. ASSUME NEW i \in 1 .. N
        PROVE  /\ doc.series[i].start # 0
               /\ \A j \in DOMAIN doc.series[i].events :
                    doc.series[i].events[j] = StoredEvent(doc.series[i].events[j])
    <3> DEFINE s == doc.series[i]
    <3>1. s = AsKept(s)
      <4>1. L[i] = AsKept(doc.series[i])
        OBVIOUS
      <4> HIDE DEF AsKept, L
      <4> QED
        BY <2>1, <4>1
    <3> HIDE DEF s
    <3>2. s.start = IF s.start = Absent \/ s.start = 0 THEN Absent ELSE s.start
      BY <3>1
    <3>3. s.events = [j \in DOMAIN s.events |-> StoredEvent(s.events[j])]
      BY <3>1
    <3>4. Absent # 0
      BY EditorAssumption, DocumentAssumption
    <3>5. s.start # 0
      BY <3>2, <3>4
    <3>6. \A j \in DOMAIN s.events : s.events[j] = StoredEvent(s.events[j])
      BY <3>3
    <3> QED
      BY <3>5, <3>6 DEF s
  <2>3. Settled(doc)
    <3> SUFFICES ASSUME NEW i \in 1 .. N, NEW j \in DOMAIN doc.series[i].events
                 PROVE  LET e == doc.series[i].events[j]
                        IN  e.duration \in MinMs .. MaxMs /\ \A k \in DOMAIN e.clips : e.clips[k] <= MaxClip
      BY <1>1 DEF Settled
    <3> DEFINE e == doc.series[i].events[j]
    <3>1. e \in Events /\ WellSpelt(e) /\ e = StoredEvent(e)
      BY <1>1, <2>2
    <3> HIDE DEF e
    <3>2. /\ StoredEvent(e).duration \in MinMs .. MaxMs
          /\ \A k \in DOMAIN StoredEvent(e).clips : StoredEvent(e).clips[k] <= MaxClip
      BY <3>1, StoredEventIs
    <3>3. e.duration \in MinMs .. MaxMs /\ \A k \in DOMAIN e.clips : e.clips[k] <= MaxClip
      BY <3>1, <3>2
    <3> QED
      BY <3>3 DEF e
  <2>4. Plain(doc) = doc
    BY <2>2, PlainIs
  <2> QED
    BY <2>3, <2>4
<1> QED
  BY <1>3, <1>4
-----------------------------------------------------------------------------
(* The document a draft stands for *)

Written(s) == [name   |-> s.name,
               start  |-> IF AnchorIndex(s) = 0 THEN Absent ELSE AnchorIndex(s),
               events |-> [i \in DOMAIN s.events |-> WithoutKey(s.events[i])]]

LEMMA ToDocumentIs ==
  ASSUME NEW d \in Drafts, \A i \in 1 .. Len(d.series) : KeysAreItsOwn(d.series[i])
  PROVE  /\ ToDocument(d) \in Documents /\ ToDocument(d).title = d.title
         /\ Len(ToDocument(d).series) = Len(d.series)
         /\ \A i \in 1 .. Len(d.series) :
              /\ ToDocument(d).series[i] = Written(d.series[i])
              /\ Len(ToDocument(d).series[i].events) = Len(d.series[i].events)
              /\ \A j \in 1 .. Len(d.series[i].events) :
                   ToDocument(d).series[i].events[j].banks = d.series[i].events[j].banks
<1> DEFINE N == Len(d.series)
           L == [i \in 1 .. N |-> Written(d.series[i])]
<1>1. /\ DOMAIN d.series = 1 .. N /\ N \in Nat
      /\ \A i \in 1 .. N : d.series[i] \in SeriesDrafts /\ KeysAreItsOwn(d.series[i])
      /\ d.title \in Names
  BY DraftIs DEF Drafts
<1>2. ToDocument(d) = [d EXCEPT !.series = L]
  BY <1>1 DEF ToDocument, EachSeries, Written
<1>3. L = [i \in 1 .. N |-> L[i]] /\ \A i \in 1 .. N : L[i] = Written(d.series[i])
  OBVIOUS
<1>d. d = [title |-> d.title, series |-> d.series]
  BY DEF Drafts
<1> HIDE DEF L, N
<1>4. ASSUME NEW i \in 1 .. N
      PROVE  /\ L[i] \in DocSeries /\ Len(L[i].events) = Len(d.series[i].events)
             /\ \A j \in 1 .. Len(d.series[i].events) :
                  L[i].events[j].banks = d.series[i].events[j].banks
  <2> DEFINE s == d.series[i]
             M == Len(s.events)
             E == [j \in 1 .. M |-> WithoutKey(s.events[j])]
             start == IF AnchorIndex(s) = 0 THEN Absent ELSE AnchorIndex(s)
  <2>1. /\ s \in SeriesDrafts /\ KeysAreItsOwn(s)
        /\ DOMAIN s.events = 1 .. M /\ M \in Nat
        /\ \A j \in 1 .. M : s.events[j] \in EventDrafts
        /\ s.name \in Names
    BY <1>1, KeysInIs DEF SeriesDrafts
  <2>2. L[i] = [name |-> s.name, start |-> start, events |-> E]
    BY <2>1, <1>3 DEF Written
  <2>3. E = [j \in 1 .. M |-> E[j]] /\ \A j \in 1 .. M : E[j] = WithoutKey(s.events[j])
    OBVIOUS
  <2> HIDE DEF E, s, M
  <2>4. \A j \in 1 .. M : E[j] \in Events /\ E[j].banks = s.events[j].banks
    <3>1. \A e \in EventDrafts : WithoutKey(e) \in Events /\ WithoutKey(e).banks = e.banks
      BY DEF EventDrafts, Events, WithoutKey
    <3> QED
      BY <3>1, <2>1, <2>3
  <2>5. E \in Seq(Events) /\ Len(E) = M
    BY <2>1, <2>3, <2>4, ListOf
  <2>6. start \in Int \cup {Absent}
    <3> DEFINE at == {j \in 2 .. Len(s.events) : s.events[j].key = s.anchor}
    <3>1. \/ at = {} /\ AnchorIndex(s) = 0
          \/ \E j \in 2 .. Len(s.events) : at = {j} /\ Min(at) = j /\ AnchorIndex(s) = j - 1
      BY <2>1, AnchorIs
    <3> HIDE DEF at
    <3>2. AnchorIndex(s) \in Int
      BY <3>1
    <3> QED
      BY <3>2
  <2> HIDE DEF start
  <2>7. L[i] \in DocSeries /\ L[i].events = E
    BY <2>1, <2>2, <2>5, <2>6 DEF DocSeries
  <2> QED
    BY <2>4, <2>5, <2>7 DEF s, M
<1>5. L \in Seq(DocSeries) /\ Len(L) = N
  BY <1>1, <1>3, <1>4, ListOf
<1>6. ToDocument(d) = [title |-> d.title, series |-> L]
  BY <1>2, <1>d
<1>7. ToDocument(d) \in Documents /\ ToDocument(d).series = L /\ ToDocument(d).title = d.title
  BY <1>1, <1>5, <1>6 DEF Documents, DocSeries
<1> QED
  BY <1>3, <1>4, <1>5, <1>7 DEF N

(* The document of a draft.                                                *)
LEMMA DraftShown ==
  ASSUME DraftOK
  PROVE  /\ ToDocument(draft) \in Documents /\ ToDocument(draft).title = draft.title
         /\ \A i \in 1 .. Len(draft.series) : KeysAreItsOwn(draft.series[i])
<1>1. draft \in Drafts /\ \A i \in 1 .. Len(draft.series) : KeysAreItsOwn(draft.series[i])
  BY DraftIs DEF DraftOK, KeysOK
<1> QED
  BY <1>1, ToDocumentIs
-----------------------------------------------------------------------------
(* What the invariant says of the draft *)

LEMMA KeptInOrder == ASSUME DraftOK PROVE NothingUnseenIsTicked
<1>1. selection \subseteq VisibleEvents(collapsed)
  BY VisibleIs DEF DraftOK, TicksOK
<1> QED
  BY <1>1 DEF DraftOK, KeysOK, NothingUnseenIsTicked, Series

(* Every clock starts on the event its author chose.                       *)
LEMMA ClocksInOrder == ASSUME DraftOK PROVE ClockStartsWhereChosen
<1> SUFFICES ASSUME NEW i \in DOMAIN Series
             PROVE  LET at == {j \in Rows(i) : Series[i].events[j].key = wanted[Series[i].key]}
                    IN  ToDocument(draft).series[i].start = IF at \subseteq {1} THEN Absent ELSE Min(at) - 1
  BY DEF ClockStartsWhereChosen
<1> DEFINE s == draft.series[i]
           at == {j \in 1 .. Len(s.events) : s.events[j].key = s.anchor}
<1>1. /\ draft \in Drafts /\ i \in 1 .. Len(draft.series) /\ s \in SeriesDrafts
      /\ Rows(i) = 1 .. Len(s.events) /\ Series[i] = s
      /\ wanted[s.key] = s.anchor
      /\ \A j, k \in 1 .. Len(s.events) : s.events[j].key = s.events[k].key => j = k
  BY InSeries DEF DraftOK, ClocksOK, Series
<1>2. {j \in Rows(i) : Series[i].events[j].key = wanted[Series[i].key]} = at
  BY <1>1
<1>3. ToDocument(draft).series[i].start = IF AnchorIndex(s) = 0 THEN Absent ELSE AnchorIndex(s)
  <2>1. ToDocument(draft).series[i] = Written(s)
    BY <1>1, DraftShown, ToDocumentIs
  <2> QED
    BY <2>1 DEF Written
<1>4. AnchorIndex(s) = IF at = {} THEN 0 ELSE Min(at) - 1
  <2>1. DOMAIN s.events = 1 .. Len(s.events)
    BY <1>1, KeysInIs
  <2> QED
    BY <2>1 DEF AnchorIndex
<1>5. \A j, k \in at : j = k
  BY <1>1
<1>6. \A j \in at : j \in 1 .. Len(s.events) /\ j \in Nat /\ j # 0
  <2>1. Len(s.events) \in Nat
    BY <1>1, KeysInIs
  <2> QED
    BY <2>1
<1> HIDE DEF at, s
<1>7. ToDocument(draft).series[i].start = IF at \subseteq {1} THEN Absent ELSE Min(at) - 1
  <2>1. CASE at = {}
    BY <2>1, <1>3, <1>4
  <2>2. CASE at # {}
    <3>1. PICK j \in at : TRUE
      BY <2>2
    <3>2. at = {j} /\ j \in Nat /\ j # 0
      BY <1>5, <1>6, <3>1
    <3>3. Min(at) = j
      BY <3>2, MinOfOne
    <3>4. AnchorIndex(s) = j - 1
      BY <2>2, <3>3, <1>4
    <3>5. CASE j = 1
      BY <3>2, <3>4, <3>5, <1>3
    <3>6. CASE j # 1
      <4>1. j - 1 # 0
        BY <3>2, <3>6
      <4>2. ~ (at \subseteq {1})
        BY <3>2, <3>6
      <4> QED
        BY <4>1, <4>2, <3>3, <3>4, <1>3
    <3> QED
      BY <3>5, <3>6
  <2> QED
    BY <2>1, <2>2
<1> QED
  BY <1>2, <1>7

(* No bank is named that is not offered.                                   *)
LEMMA BanksInOrder == ASSUME DraftOK PROVE BanksAreOffered
<1> DEFINE doc == ToDocument(draft)
           N == Len(draft.series)
<1>1. /\ draft \in Drafts /\ bankCount \in Nat \ {0}
      /\ \A i \in 1 .. N : KeysAreItsOwn(draft.series[i])
  BY DraftShown, EditorAssumption, DocumentAssumption DEF DraftOK
<1>2. /\ doc \in Documents /\ Len(doc.series) = N
      /\ \A i \in 1 .. N :
           /\ Len(doc.series[i].events) = Len(draft.series[i].events)
           /\ \A j \in 1 .. Len(draft.series[i].events) :
                doc.series[i].events[j].banks = draft.series[i].events[j].banks
  BY <1>1, ToDocumentIs
<1>3. \A i \in 1 .. N : \A j \in 1 .. Len(draft.series[i].events) :
        DOMAIN draft.series[i].events[j].banks \subseteq 1 .. bankCount
  <2>1. \A i \in 1 .. N : i \in DOMAIN draft.series
                           /\ DOMAIN draft.series[i].events = 1 .. Len(draft.series[i].events)
    BY <1>1, DraftIs, KeysInIs
  <2> QED
    BY <2>1 DEF DraftOK, BanksOK, NamesOK
<1> HIDE DEF doc, N
<1>4. \A i \in 1 .. Len(doc.series) : \A j \in 1 .. Len(doc.series[i].events) :
        DOMAIN doc.series[i].events[j].banks \subseteq 1 .. bankCount
  BY <1>2, <1>3
<1>5. BanksRequired(doc) \in 1 .. bankCount
  BY <1>1, <1>2, <1>4, BanksRequiredIs
<1>6. BanksRequired(doc) <= bankCount
  BY <1>1, <1>5
<1> QED
  BY <1>6 DEF BanksAreOffered, doc
-----------------------------------------------------------------------------
(* Nothing gets worse *)

LEMMA IssuesAreFinite ==
  ASSUME NEW doc \in Documents
  PROVE  /\ IsFiniteSet(Unnamed(doc)) /\ IsFiniteSet(Eventless(doc))
         /\ Cardinality(Unnamed(doc)) \in Nat /\ Cardinality(Eventless(doc)) \in Nat
<1>1. DOMAIN doc.series = 1 .. Len(doc.series) /\ Len(doc.series) \in Nat
  BY DocumentIs
<1>2. IsFiniteSet(1 .. Len(doc.series))
  BY <1>1, FS_Interval
<1>3. Unnamed(doc) \subseteq 1 .. Len(doc.series) /\ Eventless(doc) \subseteq 1 .. Len(doc.series)
  BY <1>1 DEF Unnamed, Eventless
<1>4. IsFiniteSet(Unnamed(doc)) /\ IsFiniteSet(Eventless(doc))
  BY <1>2, <1>3, FS_Subset
<1> QED
  BY <1>4, FS_CardinalityType

(* Being no worse is an order, and one without issues is no worse than any. *)
LEMMA NoWorseIs ==
  ASSUME NEW x \in Documents, NEW y \in Documents, NEW z \in Documents
  PROVE  /\ NoWorse(x, x)
         /\ NoWorse(x, y) /\ NoWorse(y, z) => NoWorse(x, z)
         /\ ~ HasIssues(z) => NoWorse(x, z)
<1>1. \A d \in Documents : Cardinality(Unnamed(d)) \in Nat /\ Cardinality(Eventless(d)) \in Nat
  BY IssuesAreFinite
<1>2. ~ HasIssues(z) => Cardinality(Unnamed(z)) = 0 /\ Cardinality(Eventless(z)) = 0
  <2>1. Cardinality({}) = 0
    BY FS_EmptySet
  <2> QED
    BY <2>1 DEF HasIssues
<1> DEFINE a == Cardinality(Unnamed(x))
           b == Cardinality(Unnamed(y))
           c == Cardinality(Unnamed(z))
           e == Cardinality(Eventless(x))
           f == Cardinality(Eventless(y))
           g == Cardinality(Eventless(z))
<1>3. a \in Nat /\ b \in Nat /\ c \in Nat /\ e \in Nat /\ f \in Nat /\ g \in Nat
  BY <1>1
<1>4. /\ NoWorse(x, x) <=> a <= a /\ e <= e
      /\ NoWorse(x, y) <=> b <= a /\ f <= e
      /\ NoWorse(y, z) <=> c <= b /\ g <= f
      /\ NoWorse(x, z) <=> c <= a /\ g <= e
  BY DEF NoWorse
<1>5. ~ HasIssues(z) => c = 0 /\ g = 0
  BY <1>2
<1> HIDE DEF a, b, c, e, f, g
<1>6. NoWorse(x, x)
  BY <1>3, <1>4
<1>7. NoWorse(x, y) /\ NoWorse(y, z) => NoWorse(x, z)
  BY <1>3, <1>4
<1>8. ~ HasIssues(z) => NoWorse(x, z)
  BY <1>3, <1>4, <1>5
<1> QED
  BY <1>6, <1>7, <1>8

(* What is sent may be said without its starts.                            *)
LEMMA PlainIsSendable ==
  ASSUME NEW doc, Sendable(doc, opened), opened \in Sources
  PROVE  Held(Plain(doc), opened) /\ Stored(doc) = Plain(doc) /\ Stored(Plain(doc)) = Plain(doc)
<1> DEFINE new == Plain(doc)
<1>1. doc \in Documents /\ Readable(doc) /\ Settled(doc)
  BY ReadableIs DEF Sendable
<1>2. /\ new \in Documents /\ SameShape(new, doc) /\ Readable(new) /\ Settled(new)
      /\ Plain(new) = new
  BY <1>1, PlainIs
<1>3. Stored(doc) = new
  BY <1>1, StoredIs
<1> HIDE DEF new
<1>4. Stored(new) = new
  BY <1>2, StoredIs
<1>5. Unnamed(new) = Unnamed(doc) /\ Eventless(new) = Eventless(doc)
  BY <1>1, <1>2, SameIssues
<1>6. DeviceAccepts(new)
  BY <1>2, ReadableIs
<1>7. IF opened = NoDoc THEN ~ HasIssues(new) ELSE NoWorse(opened, new)
  BY <1>5 DEF Sendable, HasIssues, NoWorse
<1>8. Held(new, opened)
  BY <1>2, <1>6, <1>7 DEF Held, Sendable
<1> QED
  BY <1>3, <1>4, <1>8 DEF new

(* What a session may be opened on.                                        *)
LEMMA SourcesAre ==
  ASSUME NEW doc \in Sources, doc # NoDoc
  PROVE  doc \in Documents /\ Readable(doc) /\ DeviceAccepts(doc) /\ Settled(doc) /\ Plain(doc) = doc
<1>1. doc \in Documents /\ DeviceAccepts(doc) /\ Stored(doc) = doc
  BY EditorAssumption
<1>2. Readable(doc)
  BY <1>1, ReadableIs
<1> QED
  BY <1>1, <1>2, StoredIs

(* What is shown of an accepted document and introduces nothing, the       *)
(* device may be sent.                                                     *)
LEMMA ShownIsSendable ==
  ASSUME SavesOK, NEW seen \in Documents, PageAccepts(seen), ~ Introduces(PageView(seen))
  PROVE  Sendable(PageView(seen), opened)
<1> DEFINE doc == PageView(seen)
<1>1. doc \in Documents /\ Readable(doc) /\ Settled(doc)
  BY PageViewIs
<1> HIDE DEF doc
<1>2. DeviceAccepts(doc)
  BY <1>1, ReadableIs
<1>3. CASE opened = NoDoc
  <2>1. ~ PageAccepts(baseline)
    BY <1>3 DEF SavesOK, PageAccepts
  <2>2. ~ HasIssues(doc)
    BY <2>1 DEF Introduces, doc
  <2> QED
    BY <1>1, <1>2, <1>3, <2>2 DEF Sendable, doc
<1>4. CASE opened # NoDoc
  <2>1. opened \in Documents /\ baseline \in Documents /\ NoWorse(opened, baseline)
    BY <1>4, SourcesAre DEF SavesOK
  <2>2. NoWorse(opened, doc)
    <3>1. CASE PageAccepts(baseline)
      <4>1. NoWorse(PageView(baseline), doc)
        BY <3>1 DEF Introduces, doc
      <4>2. SameShape(PageView(baseline), baseline)
        BY <2>1, <3>1, PageViewIs
      <4>3. /\ Unnamed(PageView(baseline)) = Unnamed(baseline)
            /\ Eventless(PageView(baseline)) = Eventless(baseline)
        BY <2>1, <4>2, SameIssues
      <4>4. NoWorse(baseline, doc)
        BY <4>1, <4>3 DEF NoWorse
      <4> QED
        BY <2>1, <4>4, <1>1, NoWorseIs
    <3>2. CASE ~ PageAccepts(baseline)
      <4>1. ~ HasIssues(doc)
        BY <3>2 DEF Introduces, doc
      <4> QED
        BY <2>1, <4>1, <1>1, NoWorseIs
    <3> QED
      BY <3>1, <3>2
  <2> QED
    BY <1>1, <1>2, <1>4, <2>2 DEF Sendable, doc
<1> QED
  BY <1>3, <1>4

(* What the invariant says of saves is what the run checks.                *)
LEMMA SavesAsShown == ASSUME SavesOK PROVE SavesAreAsShown
<1>1. SentIsTaken
  <2> SUFFICES ASSUME sent # NoDoc
               PROVE  /\ DeviceAccepts(sent.doc) /\ Stored(sent.doc) = Plain(sent.doc)
                      /\ DeviceAccepts(Stored(sent.doc)) /\ Stored(Stored(sent.doc)) = Stored(sent.doc)
    BY DEF SentIsTaken
  <2>1. Sendable(sent.doc, opened) /\ opened \in Sources
    BY DEF SavesOK
  <2>2. /\ Held(Plain(sent.doc), opened) /\ Stored(sent.doc) = Plain(sent.doc)
        /\ Stored(Plain(sent.doc)) = Plain(sent.doc)
    BY <2>1, PlainIsSendable
  <2> QED
    BY <2>1, <2>2 DEF Sendable, Held
<1>2. CleanIsStored
  <2> SUFFICES ASSUME sent = NoDoc, ~ unsure, opened # NoDoc PROVE baseline = Plain(stored)
    BY DEF CleanIsStored
  <2>1. baseline = stored /\ Held(stored, opened)
    BY DEF SavesOK
  <2> QED
    BY <2>1 DEF Held
<1>3. NothingGetsWorse
  BY DEF SavesOK, Held, Sendable, NothingGetsWorse
<1> QED
  BY <1>1, <1>2, <1>3 DEF SavesAreAsShown
-----------------------------------------------------------------------------
(* The steps of a session *)

LEMMA StartsInOrder == EditorInit => EditorInv
<1> SUFFICES ASSUME EditorInit PROVE EditorInv
  OBVIOUS
<1>0. MaxBanks \in Nat \ {0} /\ NoName \in Names /\ NoDoc \notin Documents
  BY EditorAssumption, DocumentAssumption
<1>1. CASE opened = NoDoc
  <2> DEFINE s == NewSeries(1)
             L == <<s>>
  <2>1. /\ s \in SeriesDrafts /\ s.key = 1 /\ s.anchor = NoAnchor
        /\ KeysAreItsOwn(s) /\ KeysIn(s) \subseteq 1 .. 2
        /\ \A j \in 1 .. Len(s.events) : NamesOK(s.events[j], 1)
        /\ DOMAIN s.events = 1 .. Len(s.events)
    <3>1. /\ NewSeries(1) \in SeriesDrafts /\ NewSeries(1).key = 1
          /\ NewSeries(1).anchor = NoAnchor
          /\ KeysAreItsOwn(NewSeries(1)) /\ KeysIn(NewSeries(1)) \subseteq 1 .. 1 + 1
          /\ \A j \in 1 .. Len(NewSeries(1).events) : NamesOK(NewSeries(1).events[j], 1)
      BY NewSeriesIs
    <3> QED
      BY <3>1, KeysInIs
  <2>2. /\ draft = [title |-> NoName, series |-> L] /\ nextKey = 3 /\ bankCount = 1
        /\ wanted = Anchors(draft) /\ selection = {}
    BY <1>1 DEF EditorInit, Seed
  <2> HIDE DEF s
  <2>3. L \in Seq(SeriesDrafts) /\ DOMAIN L = {1} /\ L[1] = s
    BY <2>1
  <2> HIDE DEF L
  <2>4. draft \in Drafts /\ draft.series = L /\ draft.title = NoName
    BY <2>2, <2>3, <1>0 DEF Drafts
  <2>5. KeysOK(draft, nextKey)
    <3>1. KeysIn(s) \subseteq 1 .. nextKey - 1
      BY <2>1, <2>2
    <3> QED
      BY <3>1, <2>1, <2>3, <2>4 DEF KeysOK
  <2>6. BanksOK(draft, bankCount)
    BY <2>1, <2>2, <2>3, <2>4 DEF BanksOK
  <2>7. ClocksOK(draft, wanted, nextKey)
    BY <2>2, <2>4, <2>5, AnchorsAre
  <2>8. TicksOK(draft, selection, collapsed)
    BY <2>2 DEF TicksOK
  <2>9. nextKey \in Nat \ {0} /\ bankCount \in 1 .. MaxBanks
    BY <2>2, <1>0
  <2>10. DraftOK
    BY <2>4, <2>5, <2>6, <2>7, <2>8, <2>9 DEF DraftOK
  <2>11. ToDocument(draft) \in Documents /\ ToDocument(draft).title = NoName
    BY <2>4, <2>10, DraftShown
  <2>12. SavesOK
    BY <1>1, <2>11 DEF EditorInit, SavesOK
  <2> QED
    BY <2>10, <2>12 DEF EditorInv
<1>2. CASE opened # NoDoc
  <2>1. /\ opened \in Documents /\ Readable(opened) /\ DeviceAccepts(opened)
        /\ Settled(opened) /\ Plain(opened) = opened
    BY <1>2, SourcesAre DEF EditorInit
  <2>2. /\ draft = DraftOf(opened, 1) /\ nextKey = NextKey(opened, 1)
        /\ bankCount = BanksRequired(opened)
        /\ wanted = Anchors(draft) /\ selection = {}
    BY <1>2 DEF EditorInit, Seed
  <2>3. draft \in Drafts /\ nextKey \in Nat /\ 1 <= nextKey /\ KeysOK(draft, nextKey)
    BY <2>1, <2>2, DraftOfIs
  <2>4. bankCount \in 1 .. MaxBanks /\ BanksOK(draft, bankCount)
    <3>1. /\ BanksRequired(opened) \in 1 .. MaxBanks
          /\ \A c \in Nat : BanksRequired(opened) <= c => BanksOK(DraftOf(opened, 1), c)
      BY <2>1, BanksAre
    <3>2. BanksRequired(opened) \in Nat /\ BanksRequired(opened) <= BanksRequired(opened)
      BY <3>1, <1>0
    <3> QED
      BY <3>1, <3>2, <2>2
  <2>5. ClocksOK(draft, wanted, nextKey)
    BY <2>2, <2>3, AnchorsAre
  <2>6. TicksOK(draft, selection, collapsed)
    BY <2>2 DEF TicksOK
  <2>7. nextKey \in Nat \ {0}
    BY <2>3
  <2>8. DraftOK
    BY <2>3, <2>4, <2>5, <2>6, <2>7 DEF DraftOK
  <2>9. ToDocument(draft) = opened
    BY <2>1, <2>2, ReadAndWritten
  <2>10. NoWorse(opened, opened)
    BY <2>1, NoWorseIs
  <2>11. baseline = opened /\ stored = opened /\ opened \in Sources /\ text = NoDoc
         /\ asked = NoDoc /\ sent = NoDoc /\ unsure = FALSE
    BY <2>9 DEF EditorInit
  <2>12. Held(opened, opened)
    BY <1>2, <2>1, <2>10 DEF Held, Sendable
  <2>13. SavesOK
    BY <1>2, <2>1, <2>10, <2>11, <2>12 DEF SavesOK
  <2> QED
    BY <2>8, <2>13 DEF EditorInv
<1> QED
  BY <1>1, <1>2

(* Nothing of a save changes.                                              *)
LEMMA SavesStay ==
  ASSUME SavesOK, UNCHANGED save, text' \in Texts \cup {NoDoc} PROVE SavesOK'
BY DEF SavesOK, Held, Sendable, save

(* An edit of the form.                                                    *)
FormEdit ==
  \/ SetTitle \/ AddSeries \/ MoveSeries \/ Fold \/ Tick \/ RemoveSelected \/ SetBankCount
  \/ \E i \in DOMAIN Series :
       \/ SetSeriesName(i) \/ DuplicateSeries(i) \/ RemoveSeries(i)
       \/ AddEvent(i) \/ MoveEvent(i)
       \/ \E j \in Rows(i) :
            \/ SetTimerStart(i, j) \/ DuplicateEvent(i, j) \/ RemoveEvent(i, j)
            \/ SetDuration(i, j) \/ SetCommand(i, j)
            \/ OverrideBank(i, j) \/ EditClips(i, j)

LEMMA FormEditKeeps == ASSUME DraftOK, FormEdit PROVE DraftOK'
<1>1. CASE SetTitle \/ AddSeries \/ MoveSeries \/ Fold \/ Tick \/ RemoveSelected \/ SetBankCount
  BY <1>1, SetTitleKeeps, AddSeriesKeeps, MoveSeriesKeeps, FoldKeeps,
     TickKeeps, RemoveSelectedKeeps, SetBankCountKeeps
<1>2. ASSUME NEW i \in DOMAIN Series,
             SetSeriesName(i) \/ DuplicateSeries(i) \/ RemoveSeries(i) \/ AddEvent(i) \/ MoveEvent(i)
      PROVE  DraftOK'
  BY <1>2, SetSeriesNameKeeps, DuplicateSeriesKeeps, RemoveSeriesKeeps,
     AddEventKeeps, MoveEventKeeps
<1>3. ASSUME NEW i \in DOMAIN Series, NEW j \in Rows(i),
             \/ SetTimerStart(i, j) \/ DuplicateEvent(i, j) \/ RemoveEvent(i, j)
             \/ SetDuration(i, j) \/ SetCommand(i, j)
             \/ OverrideBank(i, j) \/ EditClips(i, j)
      PROVE  DraftOK'
  BY <1>3, SetTimerStartKeeps, DuplicateEventKeeps, RemoveEventKeeps,
     SetDurationKeeps, SetCommandKeeps, OverrideBankKeeps, EditClipsKeeps
<1> QED
  BY <1>1, <1>2, <1>3 DEF FormEdit

(* A form has no part in a save.                                           *)
LEMMA FormEditSaves == ASSUME SavesOK, FormEdit PROVE SavesOK'
<1>1. UNCHANGED <<text, save>>
  BY ZenonT(60) DEF FormEdit, SetTitle, AddSeries, MoveSeries, Fold, Tick,
     RemoveSelected, SetBankCount, SetSeriesName, DuplicateSeries,
     RemoveSeries, AddEvent, MoveEvent, SetTimerStart, DuplicateEvent,
     RemoveEvent, SetDuration, SetCommand, OverrideBank, EditClips, Edits
<1>2. text \in Texts \cup {NoDoc}
  BY DEF SavesOK
<1> QED
  BY <1>1, <1>2, SavesStay

(* What was typed is read, but for a draft that is its own text.           *)
LEMMA TypedIs ==
  ASSUME SavesOK, text # NoDoc, PageAccepts(text)
  PROVE  text \in Documents /\ PageView(text) \in Documents /\ Readable(PageView(text))
<1>1. text \in Documents
  BY EditorAssumption DEF SavesOK
<1> QED
  BY <1>1, PageViewIs

(* Text is typed over the JSON view.                                       *)
LEMMA TypeJsonKeeps == ASSUME EditorInv, TypeJson PROVE EditorInv'
<1>1. UNCHANGED <<draft, view, save>> /\ text' \in Texts \cup {NoDoc}
  BY DEF TypeJson
<1>2. DraftOK'
  BY <1>1 DEF EditorInv, DraftOK, view
<1>3. SavesOK'
  BY <1>1, SavesStay DEF EditorInv
<1> QED
  BY <1>2, <1>3 DEF EditorInv

(* The text is read, or kept when it is refused.                           *)
LEMMA ApplyJsonKeeps == ASSUME EditorInv, ApplyJson PROVE EditorInv'
<1>1. /\ text # NoDoc /\ PageAccepts(text) /\ Replace(PageView(text)) /\ UNCHANGED save
      /\ text' \in Texts \cup {NoDoc}
  BY DEF ApplyJson, Replace
<1>2. DraftOK'
  BY <1>1, TypedIs, ReplaceKeeps DEF EditorInv
<1>3. SavesOK'
  BY <1>1, SavesStay DEF EditorInv
<1> QED
  BY <1>2, <1>3 DEF EditorInv

(* Save sends the document, or asks first when it got worse.               *)
LEMMA SaveKeeps == ASSUME EditorInv, Save PROVE EditorInv'
<1> DEFINE seen == IF text = NoDoc THEN ToDocument(draft) ELSE text
           doc  == PageView(seen)
<1>0. DraftOK /\ SavesOK
  BY DEF EditorInv
<1>1. /\ asked = NoDoc /\ sent = NoDoc /\ PageAccepts(seen)
      /\ IF text = NoDoc THEN UNCHANGED <<draft, view, text>> ELSE Replace(doc)
      /\ IF Introduces(doc) THEN text # NoDoc /\ UNCHANGED <<asked, sent>>
         ELSE IF doc # seen \/ HasIssues(doc) THEN asked' = doc /\ UNCHANGED sent
         ELSE sent' = OnItsWay(doc) /\ UNCHANGED asked
      /\ UNCHANGED <<baseline, stored, opened, unsure, lostAnswers>>
  BY DEF Save, Acts
<1>2. seen \in Documents
  BY <1>0, <1>1, DraftShown, TypedIs
<1>3. DraftOK' /\ text' \in Texts \cup {NoDoc}
  <2>1. CASE text = NoDoc
    <3>1. UNCHANGED <<draft, view, text>>
      BY <1>1, <2>1
    <3> QED
      BY <3>1, <2>1, <1>0 DEF DraftOK, view
  <2>2. CASE text # NoDoc
    <3>1. Replace(PageView(text)) /\ PageAccepts(text)
      BY <1>1, <2>2
    <3>2. text' = NoDoc
      BY <3>1 DEF Replace
    <3> QED
      BY <3>1, <3>2, <2>2, <1>0, TypedIs, ReplaceKeeps
  <2> QED
    BY <2>1, <2>2
<1> HIDE DEF seen
<1>4. ~ Introduces(doc) => Sendable(doc, opened)
  BY <1>0, <1>1, <1>2, ShownIsSendable
<1>5. doc \in Documents
  BY <1>1, <1>2, PageViewIs
<1> HIDE DEF doc
<1>6. SavesOK'
  <2>1. CASE Introduces(doc)
    <3>1. UNCHANGED save
      BY <1>1, <2>1 DEF save
    <3> QED
      BY <3>1, <1>0, <1>3, SavesStay
  <2>2. CASE ~ Introduces(doc) /\ asked' = doc /\ sent' = sent
    BY <1>0, <1>1, <1>3, <1>4, <2>2 DEF SavesOK, Sendable, Held
  <2>3. CASE ~ Introduces(doc) /\ sent' = OnItsWay(doc) /\ asked' = asked
    <3>1. /\ sent'.doc = doc /\ sent'.done = FALSE /\ sent' \in [doc : Documents, done : BOOLEAN]
      BY <2>3, <1>5 DEF OnItsWay
    <3>2. Sendable(sent'.doc, opened')
      BY <3>1, <1>1, <1>4, <2>3
    <3> QED
      BY <1>0, <1>1, <1>3, <2>3, <3>1, <3>2 DEF SavesOK, Sendable, Held
  <2> QED
    BY <1>1, <2>1, <2>2, <2>3
<1> QED
  BY <1>3, <1>6 DEF EditorInv

(* What was asked about is sent.                                           *)
LEMMA ConfirmKeeps == ASSUME EditorInv, Confirm PROVE EditorInv'
<1>0. DraftOK /\ SavesOK
  BY DEF EditorInv
<1>1. /\ asked # NoDoc /\ sent' = OnItsWay(asked) /\ asked' = NoDoc
      /\ UNCHANGED <<draft, view, text, baseline, stored, opened, unsure>>
  BY DEF Confirm
<1>2. DraftOK'
  BY <1>0, <1>1 DEF DraftOK, view
<1>3. Sendable(asked, opened) /\ sent = NoDoc
  BY <1>0, <1>1 DEF SavesOK
<1>4. sent'.doc = asked /\ sent'.done = FALSE /\ sent' \in [doc : Documents, done : BOOLEAN]
  BY <1>1, <1>3 DEF OnItsWay, Sendable
<1>5. Sendable(sent'.doc, opened')
  BY <1>1, <1>3, <1>4
<1>6. SavesOK'
  BY <1>0, <1>1, <1>3, <1>4, <1>5 DEF SavesOK, Sendable, Held
<1> QED
  BY <1>2, <1>6 DEF EditorInv

(* What was asked about is not sent.                                       *)
LEMMA CancelKeeps == ASSUME EditorInv, Cancel PROVE EditorInv'
<1>0. DraftOK /\ SavesOK
  BY DEF EditorInv
<1>1. asked' = NoDoc /\ UNCHANGED <<draft, view, text, baseline, sent, stored, opened, unsure>>
  BY DEF Cancel
<1>2. DraftOK'
  BY <1>0, <1>1 DEF DraftOK, view
<1>3. SavesOK'
  BY <1>0, <1>1 DEF SavesOK, Sendable, Held
<1> QED
  BY <1>2, <1>3 DEF EditorInv

(* The device parses what it was sent and stores that.                     *)
LEMMA DeviceStoresKeeps == ASSUME EditorInv, DeviceStores PROVE EditorInv'
<1>0. DraftOK /\ SavesOK
  BY DEF EditorInv
<1> DEFINE new == Stored(sent.doc)
<1>1. /\ sent # NoDoc /\ stored' = new /\ sent' = [sent EXCEPT !.done = TRUE]
      /\ UNCHANGED <<draft, view, text, baseline, asked, opened, unsure>>
  BY DEF DeviceStores
<1>2. DraftOK'
  BY <1>0, <1>1 DEF DraftOK, view
<1>3. Sendable(sent.doc, opened) /\ opened \in Sources /\ sent \in [doc : Documents, done : BOOLEAN]
  BY <1>0, <1>1 DEF SavesOK
<1>4. Held(new, opened)
  BY <1>3, PlainIsSendable
<1>5. /\ sent'.doc = sent.doc /\ sent'.done = TRUE /\ sent' \in [doc : Documents, done : BOOLEAN]
  BY <1>1, <1>3
<1>6. Sendable(sent'.doc, opened') /\ stored' = Stored(sent'.doc)
  BY <1>1, <1>3, <1>5
<1>7. Held(stored', opened')
  BY <1>1, <1>4
<1>8. stored' # NoDoc
  BY <1>1, <1>4, EditorAssumption DEF Held, Sendable
<1>9. asked = NoDoc
  BY <1>0, <1>1 DEF SavesOK
<1> HIDE DEF new
<1>10. SavesOK'
  <2>1. sent' # NoDoc
    BY <1>5, EditorAssumption
  <2>2. opened # NoDoc => NoWorse(opened, baseline)
    BY <1>0 DEF SavesOK
  <2>3. opened = NoDoc => baseline.title = NoName
    BY <1>0 DEF SavesOK
  <2>4. /\ opened \in Sources /\ text \in Texts \cup {NoDoc} /\ baseline \in Documents
        /\ unsure \in BOOLEAN
    BY <1>0 DEF SavesOK
  <2> QED
    BY <2>1, <2>2, <2>3, <2>4, <1>1, <1>5, <1>6, <1>7, <1>8, <1>9 DEF SavesOK
<1> QED
  BY <1>2, <1>10 DEF EditorInv

(* The answer makes what was sent the baseline.                            *)
LEMMA SavedKeeps == ASSUME EditorInv, Saved PROVE EditorInv'
<1>0. DraftOK /\ SavesOK
  BY DEF EditorInv
<1>1. /\ sent # NoDoc /\ sent.done /\ opened # NoDoc /\ Replace(stored)
      /\ baseline' = ToDocument(draft') /\ sent' = NoDoc /\ unsure' = FALSE
      /\ UNCHANGED <<asked, stored, opened>>
  BY DEF Saved
<1>2. Held(stored, opened) /\ stored # NoDoc
  BY <1>0, <1>1 DEF SavesOK
<1>3. stored \in Documents /\ Readable(stored) /\ Plain(stored) = stored
  BY <1>2, ReadableIs DEF Held, Sendable
<1>4. DraftOK'
  BY <1>0, <1>1, <1>3, ReplaceKeeps
<1>5. draft' = DraftOf(stored, nextKey) /\ text' = NoDoc
  BY <1>1 DEF Replace
<1>6. nextKey \in Nat \ {0}
  BY <1>0 DEF DraftOK
<1>7. baseline' = stored
  BY <1>1, <1>3, <1>5, <1>6, ReadAndWritten
<1>8. NoWorse(opened, stored)
  BY <1>1, <1>2 DEF Held, Sendable
<1>9. asked = NoDoc
  BY <1>0, <1>1 DEF SavesOK
<1>10. Held(stored', opened') /\ opened' \in Sources
  BY <1>0, <1>1, <1>2 DEF Held, Sendable, SavesOK
<1>11. SavesOK'
  BY <1>1, <1>2, <1>3, <1>5, <1>7, <1>8, <1>9, <1>10 DEF SavesOK
<1> QED
  BY <1>4, <1>11 DEF EditorInv

(* A lost answer leaves the page unsure of what is stored.                 *)
LEMMA SaveFailsKeeps == ASSUME EditorInv, SaveFails PROVE EditorInv'
<1>0. DraftOK /\ SavesOK
  BY DEF EditorInv
<1>1. /\ sent # NoDoc /\ sent' = NoDoc /\ unsure' = (unsure \/ sent.done)
      /\ UNCHANGED <<draft, view, text, baseline, asked, stored, opened>>
  BY DEF SaveFails
<1>2. DraftOK'
  BY <1>0, <1>1 DEF DraftOK, view
<1>3. sent.done \in BOOLEAN /\ unsure \in BOOLEAN /\ asked = NoDoc
  BY <1>0, <1>1 DEF SavesOK
<1>4. ~ unsure' /\ opened # NoDoc => baseline = stored
  BY <1>0, <1>1, <1>3 DEF SavesOK
<1>5. unsure' \in BOOLEAN
  BY <1>1, <1>3
<1>6. SavesOK'
  BY <1>0, <1>1, <1>3, <1>4, <1>5 DEF SavesOK, Held, Sendable
<1> QED
  BY <1>2, <1>6 DEF EditorInv

(* The invariant is inductive.                                             *)
LEMMA EditorStep == EditorInv /\ [EditorNext]_editorVars => EditorInv'
<1> SUFFICES ASSUME EditorInv, [EditorNext]_editorVars PROVE EditorInv'
  OBVIOUS
<1>1. CASE FormEdit
  BY <1>1, FormEditKeeps, FormEditSaves DEF EditorInv
<1>2. CASE TypeJson \/ ApplyJson
  BY <1>2, TypeJsonKeeps, ApplyJsonKeeps
<1>3. CASE Save \/ Confirm \/ Cancel
  BY <1>3, SaveKeeps, ConfirmKeeps, CancelKeeps
<1>4. CASE DeviceStores \/ Saved \/ SaveFails
  BY <1>4, DeviceStoresKeeps, SavedKeeps, SaveFailsKeeps
<1>5. CASE UNCHANGED editorVars
  <2>1. UNCHANGED <<draft, view, text, save>>
    BY <1>5 DEF editorVars
  <2>2. DraftOK'
    BY <2>1 DEF EditorInv, DraftOK, view
  <2>3. SavesOK'
    BY <2>1, SavesStay DEF EditorInv, SavesOK
  <2> QED
    BY <2>2, <2>3 DEF EditorInv
<1> QED
  BY <1>1, <1>2, <1>3, <1>4, <1>5 DEF EditorNext, FormEdit

(* A session keeps its keys, its clocks and its banks in order, and what   *)
(* it sends, has sent and believes of the device (program-editor.ts,       *)
(* ProgramEditor.tsx handleSave).                                          *)
THEOREM EditorCorrect == EditorSpec => []EditorInv
BY StartsInOrder, EditorStep, PTL DEF EditorSpec

(* Whatever is moved, copied, ticked or deleted: no key is given twice, no *)
(* hidden row is ticked, every clock starts on the event its author chose, *)
(* and no bank is named that was not offered.                              *)
THEOREM DraftAlwaysInOrder == EditorSpec => []DraftInOrder
<1>1. EditorInv => DraftInOrder
  BY KeptInOrder, ClocksInOrder, BanksInOrder DEF EditorInv, DraftInOrder
<1> QED
  BY <1>1, EditorCorrect, PTL

(* Whatever is saved, confirmed or lost on the way: the device takes what  *)
(* the page sends and reads it back the same, an editor with nothing       *)
(* unsaved shows what is stored, and no session leaves a program with more *)
(* unnamed or empty series than it found.                                  *)
THEOREM SavesAlwaysAsShown == EditorSpec => []SavesAreAsShown
<1>1. EditorInv => SavesAreAsShown
  BY SavesAsShown DEF EditorInv
<1> QED
  BY <1>1, EditorCorrect, PTL
=============================================================================
