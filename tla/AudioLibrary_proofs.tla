------------------------ MODULE AudioLibrary_proofs -------------------------
(***************************************************************************)
(* Proofs about AudioLibrary, for any number of ids, uploads, faults and   *)
(* power cuts, and whatever the audio task does.                           *)
(*                                                                         *)
(* The inductive invariant has three parts.  Bodies: of what is staged and *)
(* what is stored no chunk was seen to fail, and one that fails now is of  *)
(* no upload that is stored.  Library: entries, index, files and answers agree but   *)
(* for the clip being changed.  Deletes: what is about to be deleted       *)
(* belongs to no loaded program, and no run goes on.  The types of all of  *)
(* the state, the playlists included, come last.                           *)
(***************************************************************************)
EXTENDS AudioLibrary, WellFoundedInduction, TLAPS

Receiving == {"body", "gone", "answer", "probe", "rename"}
Steps     == Receiving \cup {"idle", "index", "ask", "unlink", "reindex"}

CallSpace == [at : Steps, id : UploadIds \cup {0}, of : Nat, heard : BOOLEAN]

Types ==
  /\ up \in BOOLEAN
  /\ audios \subseteq UploadIds /\ index \subseteq UploadIds
  /\ wav \in [UploadIds -> Nat] /\ told \in [UploadIds -> Nat]
  /\ staged \in [of : Nat, start : BOOLEAN] /\ uploads \in Nat
  /\ call \in CallSpace

(* The uploads of which a chunk was seen to fail.                          *)
SeenTorn == torn \ unseen

(* The numbers of the uploads so far are not yet those of the next one.    *)
Numbered ==
  /\ call.of <= uploads
  /\ \A id \in UploadIds : wav[id] <= uploads /\ told[id] <= uploads
  /\ \A n \in SeenTorn : n \in Nat /\ 1 <= n /\ n <= uploads

(* What is staged is of the upload at work, and of one of which no chunk   *)
(* was seen to fail if it has its start.                                   *)
StagedOK ==
  /\ staged.start => staged.of # 0 /\ staged.of \notin SeenTorn
                     /\ staged.of <= uploads
  /\ call.at = "body" => staged = NoStaged \/ staged.of = call.of
  /\ call.at = "rename" => staged.start

(* What is stored was seen to fail nowhere, and is not of the upload at    *)
(* work.                                                                   *)
StoredOK ==
  /\ \A id \in UploadIds : wav[id] \notin SeenTorn /\ told[id] \notin SeenTorn
  /\ call.at = "body" /\ call.of # 0 =>
       \A id \in UploadIds : wav[id] # call.of /\ told[id] # call.of

(* A clip as clients were told it is.                                      *)
AsTold(id) == told[id] # 0 /\ wav[id] = told[id]

ListOK  == up => \A id \in audios \ damaged : Changing(id) \/ AsTold(id)
IndexOK == \A id \in index \ damaged : Changing(id) \/ AsTold(id)

(* How far the call is that changes a clip.                                *)
AddingOK == call.at = "index" =>
              /\ call.id \in audios /\ wav[call.id] # 0
              /\ call.id \notin damaged => told[call.id] = 0
                                           /\ call.id \notin index
RemovingOK == /\ call.at = "unlink" => call.id \in UploadIds
              /\ call.at = "reindex" => call.id \in UploadIds
                                        /\ call.id \notin audios
CallOK == /\ call.at = "idle" => call = Idle
          /\ ~ up => call = Idle /\ audios = {}

DeletesOK == call.at \in {"ask", "unlink"} =>
               ~ running /\ call.id \in UploadIds /\ call.id \notin Range(uses)

Bodies  == Numbered /\ StagedOK /\ StoredOK
Library == ListOK /\ IndexOK /\ ToldIsKept /\ AddingOK /\ RemovingOK
AudioInv == Types /\ CallOK /\ Bodies /\ Library /\ DeletesOK

-----------------------------------------------------------------------------
(* What the fields of an idle call and of an empty staging file are.       *)
LEMMA Empties ==
  /\ Idle \in CallSpace /\ NoStaged \in [of : Nat, start : BOOLEAN]
  /\ Idle.at = "idle" /\ Idle.id = 0 /\ Idle.of = 0
  /\ NoStaged.of = 0 /\ NoStaged.start = FALSE
BY DEF Idle, NoStaged, CallSpace, Steps

(* Nothing has happened yet.                                               *)
LEMMA AudioInit == Init => AudioInv
<1> SUFFICES ASSUME Init PROVE AudioInv
  OBVIOUS
<1>1. Types
  BY Empties DEF Init, Types
<1>2. CallOK /\ DeletesOK
  BY DEF Init, CallOK, DeletesOK, Idle
<1>3. Bodies
  BY DEF Init, Bodies, Numbered, StagedOK, StoredOK, SeenTorn, Idle, NoStaged
<1>4. Library
  BY DEF Init, Library, ListOK, IndexOK, ToldIsKept, AddingOK, RemovingOK, Idle
<1> QED
  BY <1>1, <1>2, <1>3, <1>4 DEF AudioInv

(* The audio task, and what is asked of it, touches nothing of this.       *)
LEMMA SoundKeeps ==
  ASSUME AudioInv,
         UNCHANGED <<up, library, sender, call, run, answers, counts>>
  PROVE  AudioInv'
BY DEF AudioInv, Types, CallOK, Bodies, Numbered, StagedOK, StoredOK, SeenTorn, Library,
       ListOK, IndexOK, ToldIsKept, AddingOK, RemovingOK, DeletesOK, Changing,
       AsTold, library, sender, run, answers, Idle, NoStaged

(* While a body is received and examined, the library is left alone.       *)
LEMMA LibraryKept ==
  ASSUME Library, UNCHANGED <<up, audios, index, wav, answers>>,
         call.at \in Receiving \cup {"idle"},
         call'.at \in Receiving \cup {"idle"}
  PROVE  Library' /\ DeletesOK'
<1>1. ListOK' /\ IndexOK' /\ ToldIsKept'
  BY DEF Library, ListOK, IndexOK, ToldIsKept, Changing, AsTold, answers, Receiving
<1>2. AddingOK' /\ RemovingOK' /\ DeletesOK'
  BY DEF AddingOK, RemovingOK, DeletesOK, Receiving
<1> QED
  BY <1>1, <1>2 DEF Library

-----------------------------------------------------------------------------
(* One lemma for each group of actions *)

(* Power goes and comes back: what the index names is listed.              *)
LEMMA PowerKeeps == AudioInv /\ (PowerCut \/ Boot) => AudioInv'
<1>1. ASSUME AudioInv, PowerCut PROVE AudioInv'
  <2>1. call' = Idle /\ up' = FALSE
    BY <1>1 DEF PowerCut
  <2>2. Types'
    BY <1>1, <2>1, Empties DEF PowerCut, AudioInv, Types
  <2>3. CallOK' /\ DeletesOK'
    BY <1>1, <2>1, Empties DEF PowerCut, CallOK, DeletesOK
  <2>7. Bodies'
    BY <1>1, <2>1, Empties DEF PowerCut, AudioInv, Types, Bodies, Numbered,
                               StagedOK, StoredOK, SeenTorn
  <2>4. IndexOK'
    BY <1>1, <2>1 DEF PowerCut, AudioInv, Library, IndexOK, AddingOK, Changing,
                      AsTold, Idle
  <2>5. ToldIsKept'
    BY <1>1, <2>1 DEF PowerCut, AudioInv, Types, Library, ToldIsKept, AddingOK,
                      Changing, Idle
  <2>6. ListOK' /\ AddingOK' /\ RemovingOK'
    BY <2>1 DEF ListOK, AddingOK, RemovingOK, Idle
  <2> QED
    BY <2>2, <2>3, <2>4, <2>5, <2>6, <2>7 DEF AudioInv, Library
<1>2. ASSUME AudioInv, Boot PROVE AudioInv'
  <2>1. call = Idle /\ call' = call /\ up' = TRUE /\ audios' = index
    BY <1>2 DEF Boot, AudioInv, CallOK
  <2>2. Types'
    BY <1>2, <2>1, Empties DEF Boot, AudioInv, Types, sender, answers
  <2>5. CallOK' /\ DeletesOK'
    BY <2>1, Empties DEF CallOK, DeletesOK
  <2>3. Bodies'
    BY <1>2, <2>1, Empties DEF Boot, AudioInv, Bodies, Numbered, StagedOK,
                               StoredOK, SeenTorn, sender, answers
  <2>4. Library'
    BY <1>2, <2>1 DEF Boot, AudioInv, Library, ListOK, IndexOK, ToldIsKept,
                      AddingOK, RemovingOK, Changing, AsTold, Idle, answers
  <2> QED
    BY <2>2, <2>3, <2>4, <2>5 DEF AudioInv
<1> QED
  BY <1>1, <1>2

(* A chunk is of the upload at work or of a new one, and in both cases of  *)
(* none that is stored.                                                    *)
LEMMA ChunkKeeps ==
  AudioInv /\ (ChunkIsWritten \/ ChunkIsLost \/ ChunkFails) => AudioInv'
<1> SUFFICES ASSUME AudioInv, ChunkIsWritten \/ ChunkIsLost \/ ChunkFails
             PROVE  AudioInv'
  OBVIOUS
<1> USE DEF AudioInv
<1>1. /\ ChunkArrives /\ KeepsLibrary
      /\ call' \in {[call EXCEPT !.of = Sender, !.at = at] : at \in {"body", "answer"}}
  <2>1. call.at = "body" /\ call \in CallSpace
    BY DEF ChunkIsWritten, ChunkIsLost, ChunkFails, ChunkArrives, Types
  <2>2. [call EXCEPT !.of = Sender] = [call EXCEPT !.of = Sender, !.at = "body"]
    BY <2>1 DEF CallSpace
  <2> QED
    BY <2>2 DEF ChunkIsWritten, ChunkIsLost, ChunkFails
<1>2. /\ call.at = "body" /\ call'.at \in {"body", "answer"} /\ call'.of = Sender
      /\ call'.id = call.id /\ up /\ Sender \in Nat /\ Sender # 0
      /\ call' \in CallSpace
  <2>1. call \in CallSpace
    BY DEF Types
  <2>2. call.at = "body" /\ up /\ Sender \in Nat /\ Sender # 0
    BY <1>1, AudioAssumption DEF ChunkArrives, Uploads
  <2> QED
    BY <1>1, <2>1, <2>2 DEF CallSpace, Steps, Receiving
<1>3. /\ uploads <= uploads' /\ Sender <= uploads' /\ uploads' \in Nat
      /\ \A id \in UploadIds : wav[id] # Sender /\ told[id] # Sender
      /\ call.of = 0 => Sender \notin SeenTorn
  BY <1>1, <1>2 DEF ChunkArrives, Sender, Types, Bodies, Numbered, StoredOK
<1>4. SeenTorn' \subseteq SeenTorn \cup {Sender}
  BY <1>1 DEF ChunkIsWritten, ChunkIsLost, ChunkFails, SeenTorn
<1>5. Types' /\ CallOK'
  <2>1. staged' \in [of : Nat, start : BOOLEAN]
    <3>1. CASE ChunkFails
      BY <3>1, Empties DEF ChunkFails
    <3>2. CASE ChunkIsWritten
      BY <3>2, <1>2 DEF ChunkIsWritten, Types
    <3>3. CASE ChunkIsLost
      BY <3>3, <1>2 DEF ChunkIsLost, Types
    <3> QED
      BY <3>1, <3>2, <3>3
  <2>2. Types'
    BY <1>1, <1>2, <1>3, <2>1 DEF Types, KeepsLibrary, answers
  <2>3. CallOK'
    BY <1>1, <1>2 DEF CallOK, KeepsLibrary
  <2> QED
    BY <2>2, <2>3
<1>6. Numbered' /\ StoredOK'
  <2>1. wav' = wav /\ told' = told
    BY <1>1 DEF KeepsLibrary, answers
  <2>2. Numbered'
    BY <1>2, <1>3, <1>4, <2>1 DEF Bodies, Numbered, Types
  <2>3. StoredOK'
    BY <1>2, <1>3, <1>4, <2>1 DEF Bodies, StoredOK
  <2> QED
    BY <2>2, <2>3
<1>7. StagedOK'
  <2>1. CASE ChunkFails
    BY <2>1, <1>2 DEF ChunkFails, StagedOK, NoStaged
  <2>2. CASE ChunkIsWritten
    <3>1. staged'.of = Sender /\ SeenTorn' = SeenTorn
      BY <2>2 DEF ChunkIsWritten, SeenTorn
    <3>2. staged'.start => Sender \notin SeenTorn
      BY <2>2, <1>2, <1>3 DEF ChunkIsWritten, Bodies, StagedOK, NoStaged, Sender
    <3> QED
      BY <1>2, <1>3, <3>1, <3>2 DEF StagedOK
  <2>3. CASE ChunkIsLost
    <3>1. staged'.of = Sender /\ SeenTorn' = SeenTorn
      BY <2>3 DEF ChunkIsLost, SeenTorn
    <3>2. staged'.start => Sender \notin SeenTorn
      <4>1. PICK start \in BOOLEAN : /\ call.of # 0 => start = staged.start
                                    /\ staged' = [of |-> Sender, start |-> start]
        BY <2>3 DEF ChunkIsLost
      <4>2. CASE call.of = 0
        BY <1>3, <4>2
      <4>3. CASE call.of # 0
        BY <1>2, <4>1, <4>3, Empties DEF Bodies, StagedOK, Sender
      <4> QED
        BY <4>2, <4>3
    <3> QED
      BY <1>2, <1>3, <3>1, <3>2 DEF StagedOK
  <2> QED
    BY <2>1, <2>2, <2>3
<1>8. Library' /\ DeletesOK'
  BY <1>1, <1>2, LibraryKept DEF KeepsLibrary, Receiving
<1> QED
  BY <1>5, <1>6, <1>7, <1>8 DEF Bodies

(* The other steps of an upload before it is stored: what is staged stays  *)
(* or goes.                                                                *)
LEMMA UploadKeeps ==
  AudioInv /\ (UploadBegins \/ NoFile \/ BodyDies \/ BodyEnds \/ UploadAnswers
               \/ UploadIsProbed \/ MoveFails) => AudioInv'
<1> SUFFICES ASSUME AudioInv, UploadBegins \/ NoFile \/ BodyDies \/ BodyEnds
                              \/ UploadAnswers \/ UploadIsProbed \/ MoveFails
             PROVE  AudioInv'
  OBVIOUS
<1> USE DEF AudioInv
<1>1. /\ KeepsLibrary /\ up /\ UNCHANGED <<uploads, torn, unseen>>
      /\ staged' \in {staged, NoStaged}
      /\ call.at \in Receiving \cup {"idle"}
  <2>1. CASE UploadBegins
    BY <2>1, Empties DEF UploadBegins, Ready
  <2>2. CASE NoFile \/ BodyDies \/ BodyEnds
    BY <2>2 DEF NoFile, BodyDies, BodyEnds, Receiving, sender
  <2>3. CASE UploadAnswers \/ UploadIsProbed
    BY <2>3 DEF UploadAnswers, UploadIsProbed, Receiving, sender
  <2>4. CASE MoveFails
    BY <2>4 DEF MoveFails, Receiving, sender
  <2> QED
    BY <2>1, <2>2, <2>3, <2>4
<1>2. \/ call' = Idle
      \/ call' = [Idle EXCEPT !.at = "body"] /\ staged' = NoStaged
      \/ \E at \in {"gone", "answer", "probe"} : call' = [call EXCEPT !.at = at]
      \/ call' = [call EXCEPT !.at = "rename"] /\ staged.start /\ staged' = staged
  BY DEF UploadBegins, NoFile, BodyDies, BodyEnds, UploadAnswers, UploadIsProbed,
         MoveFails
<1>3. /\ call'.at \in Receiving \cup {"idle"} /\ call'.of \in {0, call.of}
      /\ call'.at = "body" => staged' = NoStaged /\ call'.of = 0
      /\ call'.at = "rename" => staged.start /\ staged' = staged
      /\ call'.at = "idle" => call' = Idle
      /\ call' \in CallSpace
  <2>1. call \in CallSpace
    BY DEF Types
  <2>2. CASE call' = Idle
    BY <2>2, Empties
  <2>3. CASE call' = [Idle EXCEPT !.at = "body"] /\ staged' = NoStaged
    BY <2>3 DEF Idle, CallSpace, Receiving, Steps
  <2>4. CASE \E at \in {"gone", "answer", "probe"} : call' = [call EXCEPT !.at = at]
    BY <2>1, <2>4 DEF CallSpace, Receiving, Steps
  <2>5. CASE call' = [call EXCEPT !.at = "rename"] /\ staged.start /\ staged' = staged
    BY <2>1, <2>5 DEF CallSpace, Receiving, Steps
  <2> QED
    BY <1>2, <2>2, <2>3, <2>4, <2>5
<1>4. Types' /\ CallOK'
  BY <1>1, <1>3, Empties DEF KeepsLibrary, Types, CallOK, answers
<1>5. Numbered' /\ StoredOK'
  BY <1>1, <1>3 DEF KeepsLibrary, Bodies, Numbered, StoredOK, SeenTorn, Types, answers
<1>6. StagedOK'
  BY <1>1, <1>2, <1>3 DEF Bodies, StagedOK, SeenTorn, NoStaged
<1>7. Library' /\ DeletesOK'
  BY <1>1, <1>3, LibraryKept DEF KeepsLibrary
<1> QED
  BY <1>4, <1>5, <1>6, <1>7 DEF Bodies

(* The run: programs are loaded and started between requests only.         *)
LEMMA RunKeeps ==
  AudioInv /\ (StopRunning \/ Start \/ \E clips \in ClipLists : Load(clips))
    => AudioInv'
<1> SUFFICES ASSUME AudioInv,
                    StopRunning \/ Start \/ \E clips \in ClipLists : Load(clips)
             PROVE  AudioInv'
  OBVIOUS
<1>1. /\ UNCHANGED <<up, library, sender, call, sound, answers, counts>>
      /\ call = Idle \/ (UNCHANGED uses /\ running' = FALSE)
  <2>1. CASE StopRunning
    BY <2>1 DEF StopRunning
  <2>2. CASE Start
    BY <2>2 DEF Start, Ready
  <2>3. CASE \E clips \in ClipLists : Load(clips)
    BY <2>3 DEF Load, Ready
  <2> QED
    BY <2>1, <2>2, <2>3
<1>2. Types' /\ CallOK' /\ Bodies' /\ Library'
  BY <1>1 DEF AudioInv, Types, CallOK, Bodies, Numbered, StagedOK, StoredOK, SeenTorn,
              Library, ListOK, IndexOK, ToldIsKept, AddingOK, RemovingOK, Changing,
              AsTold, library, sender, answers
<1>3. DeletesOK'
  BY <1>1, Empties DEF AudioInv, DeletesOK
<1> QED
  BY <1>2, <1>3 DEF AudioInv

(* The steps of a call on one clip: what they do to the types, to what is  *)
(* received and to what is deleted follows from where the call goes.       *)
LEMMA ClipCall ==
  ASSUME AudioInv, UNCHANGED <<up, sender, run>>, up,
         call' = Idle \/ (call' \in CallSpace /\ call'.of = call.of
                         /\ call'.at \in {"index", "unlink", "reindex"}),
         call'.at = "unlink" => call.at = "ask" /\ call'.id = call.id,
         staged' = staged \/ staged' = NoStaged,
         audios' \subseteq UploadIds, index' \subseteq UploadIds,
         wav' \in [UploadIds -> Nat], told' \in [UploadIds -> Nat],
         \A id \in UploadIds :
           /\ wav'[id] = 0 \/ wav'[id] = wav[id]
              \/ (call.at = "rename" /\ wav'[id] = staged.of)
           /\ told'[id] \in {0, told[id], wav[id]}
  PROVE  Types' /\ CallOK' /\ Bodies' /\ DeletesOK'
<1> USE DEF AudioInv
<1>1. Types'
  BY Empties DEF Types, sender
<1>2. CallOK' /\ DeletesOK'
  BY Empties DEF CallOK, DeletesOK, run
<1>3. \A id \in UploadIds : /\ wav'[id] <= uploads /\ told'[id] <= uploads
                           /\ wav'[id] \notin SeenTorn /\ told'[id] \notin SeenTorn
  BY DEF Types, Bodies, Numbered, StagedOK, StoredOK
<1>4. Numbered'
  BY <1>3, Empties DEF Bodies, Numbered, SeenTorn, Types, sender
<1>5. StoredOK'
  BY <1>3, Empties DEF StoredOK, SeenTorn, sender
<1>6. StagedOK'
  BY Empties DEF Bodies, StagedOK, SeenTorn, sender
<1> QED
  BY <1>1, <1>2, <1>4, <1>5, <1>6 DEF Bodies

(* The id of an upload is one that is neither listed nor, unless damaged,  *)
(* in the index or known to clients.                                       *)
LEMMA MovedKeeps == AudioInv /\ UploadIsMoved => AudioInv'
<1> SUFFICES ASSUME AudioInv, UploadIsMoved PROVE AudioInv'
  OBVIOUS
<1> USE DEF AudioInv
<1>1. PICK id \in UploadIds : /\ id \notin audios
                             /\ wav' = [wav EXCEPT ![id] = staged.of]
                             /\ audios' = audios \cup {id}
                             /\ call' = [call EXCEPT !.at = "index", !.id = id]
  BY DEF UploadIsMoved, NextFreeId
<1>2. /\ up /\ call.at = "rename" /\ staged' = NoStaged
      /\ UNCHANGED <<up, index, sender, run, sound, answers, counts>>
      /\ call \in CallSpace /\ staged.of # 0 /\ staged.of \in Nat
  BY DEF UploadIsMoved, Bodies, StagedOK, Types
<1>3. /\ call' \in CallSpace /\ call'.at = "index" /\ call'.id = id
      /\ call'.of = call.of
  BY <1>1, <1>2 DEF CallSpace, Steps
<1>4. /\ wav' \in [UploadIds -> Nat] /\ wav'[id] = staged.of
      /\ \A j \in UploadIds \ {id} : wav'[j] = wav[j]
  BY <1>1, <1>2 DEF Types
<1>5. Types' /\ CallOK' /\ Bodies' /\ DeletesOK'
  <2>1. audios' \subseteq UploadIds /\ index' \subseteq UploadIds
        /\ told' \in [UploadIds -> Nat]
    BY <1>1, <1>2 DEF Types, answers
  <2>2. \A j \in UploadIds :
          /\ wav'[j] = 0 \/ wav'[j] = wav[j]
             \/ (call.at = "rename" /\ wav'[j] = staged.of)
          /\ told'[j] \in {0, told[j], wav[j]}
    BY <1>2, <1>4 DEF answers
  <2> QED
    BY <1>2, <1>3, <1>4, <2>1, <2>2, ClipCall
<1>6. id \notin damaged => told[id] = 0 /\ id \notin index
  BY <1>1, <1>2 DEF Library, ToldIsKept, IndexOK, Changing, AsTold
<1>7. Library'
  BY <1>1, <1>2, <1>3, <1>4, <1>6
  DEF Types, Library, ListOK, IndexOK, ToldIsKept, AddingOK, RemovingOK, Changing,
      AsTold, answers
<1> QED
  BY <1>5, <1>7

(* The three outcomes of the index write of an upload.                     *)
LEMMA IndexedKeeps ==
  AudioInv /\ (UploadIsIndexed \/ UploadIndexIsLost \/ UploadIsTakenBack)
    => AudioInv'
<1> SUFFICES ASSUME AudioInv,
                    UploadIsIndexed \/ UploadIndexIsLost \/ UploadIsTakenBack
             PROVE  AudioInv'
  OBVIOUS
<1> USE DEF AudioInv
<1>1. /\ up /\ call.at = "index" /\ call' = Idle /\ call.id \in audios
      /\ call.id \in UploadIds /\ UNCHANGED <<up, staged, sender, run>>
      /\ wav[call.id] # 0
      /\ call.id \notin damaged => told[call.id] = 0 /\ call.id \notin index
  BY DEF UploadIsIndexed, UploadIndexIsLost, UploadIsTakenBack, Types, Library,
         AddingOK, library
<1>2. /\ \A id \in UploadIds : /\ wav'[id] \in {0, wav[id]}
                               /\ told'[id] \in {told[id], wav[id]}
      /\ \A id \in UploadIds \ {call.id} : wav'[id] = wav[id] /\ told'[id] = told[id]
      /\ wav' \in [UploadIds -> Nat] /\ told' \in [UploadIds -> Nat]
      /\ audios' \subseteq UploadIds /\ index' \subseteq UploadIds
  BY <1>1 DEF UploadIsIndexed, UploadIndexIsLost, UploadIsTakenBack, Types, library,
              answers
<1>3. Types' /\ CallOK' /\ Bodies' /\ DeletesOK'
  BY <1>1, <1>2, Empties, ClipCall
<1>4. AddingOK' /\ RemovingOK' /\ \A id \in UploadIds : ~ Changing(id)'
  BY <1>1, Empties DEF AddingOK, RemovingOK, Changing
<1>5. CASE UploadIsIndexed
  <2>1. /\ index' = audios /\ audios' = audios /\ wav' = wav
        /\ told' = [told EXCEPT ![call.id] = wav[call.id]]
        /\ damaged' = damaged \ {call.id}
    BY <1>5 DEF UploadIsIndexed
  <2>2. \A id \in audios \ damaged' : AsTold(id)'
    BY <1>1, <1>2, <2>1 DEF Types, Library, ListOK, Changing, AsTold
  <2>3. ListOK' /\ IndexOK'
    BY <2>1, <2>2 DEF ListOK, IndexOK
  <2>4. ToldIsKept'
    BY <1>1, <1>2, <2>1 DEF Types, Library, ToldIsKept, Changing
  <2> QED
    BY <1>3, <1>4, <2>3, <2>4 DEF Library
<1>6. CASE UploadIndexIsLost
  <2>1. /\ damaged' = damaged \cup {call.id} /\ UNCHANGED <<audios, index, wav>>
    BY <1>6 DEF UploadIndexIsLost, library
  <2>2. ListOK' /\ IndexOK'
    BY <1>1, <1>2, <2>1 DEF Types, Library, ListOK, IndexOK, Changing, AsTold
  <2>3. ToldIsKept'
    BY <1>1, <1>2, <2>1 DEF Library, ToldIsKept, Changing
  <2> QED
    BY <1>3, <1>4, <2>2, <2>3 DEF Library
<1>7. CASE UploadIsTakenBack
  <2>1. /\ damaged' = damaged /\ told' = told /\ index' = index
        /\ audios' = audios \ {call.id}
    BY <1>7 DEF UploadIsTakenBack, answers
  <2>2. ListOK' /\ IndexOK'
    BY <1>1, <1>2, <2>1 DEF Types, Library, ListOK, IndexOK, Changing, AsTold
  <2>3. ToldIsKept'
    BY <1>1, <2>1 DEF Library, ToldIsKept, Changing
  <2> QED
    BY <1>3, <1>4, <2>2, <2>3 DEF Library
<1> QED
  BY <1>5, <1>6, <1>7

(* A delete begins and asks: nothing has changed yet.                      *)
LEMMA AskedKeeps ==
  AudioInv /\ (AskIfPlaying \/ \E id \in UploadIds : Delete(id)) => AudioInv'
<1>1. ASSUME AudioInv, NEW id \in UploadIds, Delete(id) PROVE AudioInv'
  <2>1. /\ up /\ call = Idle /\ call'.at = "ask" /\ call'.id = id /\ call'.of = 0
        /\ call' \in CallSpace /\ id \notin Range(uses) /\ ~ running
        /\ UNCHANGED <<up, library, sender, run, sound, answers, counts>>
    BY <1>1 DEF Delete, Asks, Ready, CallSpace, Steps
  <2>2. Types' /\ CallOK' /\ DeletesOK'
    BY <1>1, <2>1 DEF AudioInv, Types, CallOK, DeletesOK, library, sender, run,
                      answers
  <2>3. Bodies'
    BY <1>1, <2>1 DEF AudioInv, Types, Bodies, Numbered, StagedOK, StoredOK, SeenTorn, library,
                      sender, answers
  <2>4. Library'
    BY <1>1, <2>1, Empties DEF AudioInv, Library, ListOK, IndexOK, ToldIsKept,
             AddingOK, RemovingOK, Changing, AsTold, library, answers
  <2> QED
    BY <2>2, <2>3, <2>4 DEF AudioInv
<1>2. ASSUME AudioInv, AskIfPlaying PROVE AudioInv'
  <2>1. /\ up /\ call.at = "ask" /\ call \in CallSpace
        /\ UNCHANGED <<up, library, sender, run, sound, answers, counts>>
        /\ call' = Idle \/ call' = [call EXCEPT !.at = "unlink"]
    BY <1>2 DEF AskIfPlaying, AudioInv, Types
  <2>2. call' = Idle \/ (call' \in CallSpace /\ call'.at = "unlink"
                         /\ call'.id = call.id /\ call'.of = call.of)
    BY <2>1 DEF CallSpace, Steps
  <2>3. Types' /\ CallOK' /\ Bodies' /\ DeletesOK'
    <3>1. /\ audios' \subseteq UploadIds /\ index' \subseteq UploadIds
          /\ wav' \in [UploadIds -> Nat] /\ told' \in [UploadIds -> Nat]
          /\ wav' = wav /\ told' = told /\ staged' = staged
      BY <1>2, <2>1 DEF AudioInv, Types, library, answers
    <3>2. call'.at = "unlink" => call'.id = call.id
      BY <2>2, Empties
    <3> QED
      BY <1>2, <2>1, <2>2, <3>1, <3>2, ClipCall
  <2>4. Library'
    BY <1>2, <2>1, <2>2, Empties DEF AudioInv, Library, DeletesOK, ListOK, IndexOK,
             ToldIsKept, AddingOK, RemovingOK, Changing, AsTold, library, answers
  <2> QED
    BY <2>3, <2>4 DEF AudioInv
<1> QED
  BY <1>1, <1>2

(* The entry goes, with the file or without.                               *)
LEMMA ForgottenKeeps == AudioInv /\ (Forget \/ ForgetOrphans) => AudioInv'
<1> SUFFICES ASSUME AudioInv, Forget \/ ForgetOrphans PROVE AudioInv'
  OBVIOUS
<1> USE DEF AudioInv
<1>1. /\ up /\ call.at = "unlink" /\ call.id \in UploadIds /\ call \in CallSpace
      /\ audios' = audios \ {call.id} /\ call' = [call EXCEPT !.at = "reindex"]
      /\ UNCHANGED <<up, index, staged, sender, run, answers>>
      /\ wav' = wav \/ wav' = [wav EXCEPT ![call.id] = 0]
  BY DEF Forget, ForgetOrphans, Library, RemovingOK, Types, library
<1>2. /\ call' \in CallSpace /\ call'.at = "reindex" /\ call'.id = call.id
      /\ call'.of = call.of
  BY <1>1 DEF CallSpace, Steps
<1>3. /\ wav' \in [UploadIds -> Nat]
      /\ \A id \in UploadIds : wav'[id] = 0 \/ wav'[id] = wav[id]
      /\ \A id \in UploadIds \ {call.id} : wav'[id] = wav[id]
  BY <1>1 DEF Types
<1>4. /\ audios' \subseteq UploadIds /\ index' \subseteq UploadIds
      /\ told' \in [UploadIds -> Nat] /\ told' = told
  BY <1>1 DEF Types, answers
<1>5. Types' /\ CallOK' /\ Bodies' /\ DeletesOK'
  BY <1>1, <1>2, <1>3, <1>4, ClipCall
<1>6. Library'
  BY <1>1, <1>2, <1>3 DEF Types, Library, ListOK, IndexOK, ToldIsKept, AddingOK,
                          RemovingOK, Changing, AsTold, answers
<1> QED
  BY <1>5, <1>6

(* The index is written without the clip, or the clip counts as damaged.   *)
LEMMA DeletedKeeps == AudioInv /\ (DeleteIsIndexed \/ DeleteIndexFails) => AudioInv'
<1> SUFFICES ASSUME AudioInv, DeleteIsIndexed \/ DeleteIndexFails PROVE AudioInv'
  OBVIOUS
<1> USE DEF AudioInv
<1>1. /\ up /\ call.at = "reindex" /\ call.id \in UploadIds /\ call' = Idle
      /\ call.id \notin audios /\ told' = [told EXCEPT ![call.id] = 0]
      /\ UNCHANGED <<up, audios, wav, staged, sender, run>>
      /\ \/ index' = audios /\ damaged' = damaged \ {call.id}
         \/ index' = index /\ damaged' = damaged \cup {call.id}
  BY DEF DeleteIsIndexed, DeleteIndexFails, Library, RemovingOK, library
<1>2. /\ told' \in [UploadIds -> Nat] /\ told'[call.id] = 0
      /\ \A id \in UploadIds \ {call.id} : told'[id] = told[id]
      /\ wav' \in [UploadIds -> Nat]
      /\ audios' \subseteq UploadIds /\ index' \subseteq UploadIds
  BY <1>1 DEF Types
<1>3. Types' /\ CallOK' /\ Bodies' /\ DeletesOK'
  <2>1. \A id \in UploadIds : wav'[id] = wav[id] /\ told'[id] \in {0, told[id]}
    BY <1>1, <1>2
  <2> QED
    BY <1>1, <1>2, <2>1, Empties, ClipCall
<1>4. AddingOK' /\ RemovingOK' /\ \A id \in UploadIds : ~ Changing(id)'
  BY <1>1, Empties DEF AddingOK, RemovingOK, Changing
<1>5. ListOK' /\ IndexOK'
  BY <1>1, <1>2 DEF Types, Library, ListOK, IndexOK, Changing, AsTold
<1>6. ToldIsKept'
  BY <1>1, <1>2 DEF Types, Library, ToldIsKept, Changing
<1> QED
  BY <1>3, <1>4, <1>5, <1>6 DEF Library

-----------------------------------------------------------------------------
(* The library of clips keeps its invariant, whatever is requested, played,*)
(* lost or cut off.                                                        *)
THEOREM AudioInvariant == Spec => []AudioInv
<1>1. AudioInv /\ [Next]_vars => AudioInv'
  <2> SUFFICES ASSUME AudioInv, [Next]_vars PROVE AudioInv'
    OBVIOUS
  <2>1. CASE PowerCut \/ Boot
    BY <2>1, PowerKeeps
  <2>2. CASE Upload
    <3>1. CASE ReadsNothing
      BY <3>1, SoundKeeps DEF ReadsNothing, vars
    <3> QED
      BY <2>2, <3>1, UploadKeeps, ChunkKeeps, MovedKeeps, IndexedKeeps DEF Upload
  <2>3. CASE DeleteGoesOn \/ \E id \in UploadIds : Delete(id)
    BY <2>3, AskedKeeps, ForgottenKeeps, DeletedKeeps DEF DeleteGoesOn
  <2>4. CASE AudioTask \/ EventPlays \/ \E id \in UploadIds : Play(id)
    BY <2>4, SoundKeeps DEF AudioTask, TakePlaylist, OpenClip, StartClip, EndClip,
             CloseClip, ByAudioTask, EventPlays, Play, Queued
  <2>5. CASE StopRunning \/ Start \/ \E clips \in ClipLists : Load(clips)
    BY <2>5, RunKeeps
  <2>6. CASE UNCHANGED vars
    BY <2>6, SoundKeeps DEF vars
  <2> QED
    BY <2>1, <2>2, <2>3, <2>4, <2>5, <2>6 DEF Next
<1> QED
  BY <1>1, AudioInit, PTL DEF Spec

(* The invariant holds of what is listed, at every moment.                 *)
LEMMA InvariantGives ==
  AudioInv => ListedPlays /\ ToldIsKept /\ NoClipSeenTorn /\ RunNotHeldUp
BY DEF AudioInv, Library, ListOK, Bodies, StoredOK, DeletesOK, ListedPlays, AsTold,
       NoClipSeenTorn, SeenTorn, RunNotHeldUp

(* ListedPlays: what clients see has its file, and the one they were told. *)
THEOREM ListingPlays == Spec => []ListedPlays
BY AudioInvariant, InvariantGives, PTL

(* ToldIsKept: an answered upload stays listed, and in the index.          *)
THEOREM UploadsLast == Spec => []ToldIsKept
BY AudioInvariant, InvariantGives, PTL

(* ClipsAreAsTold: clients, index and files agree.                         *)
THEOREM ClipsStayAsTold == Spec => []ClipsAreAsTold
<1>1. AudioInv => ClipsAreAsTold
  BY InvariantGives DEF ClipsAreAsTold
<1> QED
  BY <1>1, AudioInvariant, PTL

(* NoClipSeenTorn: a clip of which the upload callback saw a chunk fail is *)
(* never accepted; one that only lost bytes in an fclose() may be.         *)
THEOREM ClipsSeenTornAreRefused == Spec => []NoClipSeenTorn
BY AudioInvariant, InvariantGives, PTL

(* RunNotHeldUp: no run goes on while a delete waits for a clip to end.    *)
THEOREM RunsAreFree == Spec => []RunNotHeldUp
BY AudioInvariant, InvariantGives, PTL

(* RunClipsStay: only deletes, which are refused, and an upload that fails *)
(* take a clip away.                                                       *)
THEOREM ClipsOfRunsStay == Spec => RunClipsStay
<1>1. AudioInv /\ [Next]_vars =>
        [up' => \A id \in Range(uses) \cap audios :
                  Changing(id) \/ (id \in audios' /\ wav'[id] = wav[id])]_vars
  <2> SUFFICES ASSUME AudioInv, [Next]_vars, up', NEW id \in Range(uses) \cap audios,
                      ~ Changing(id)
               PROVE  id \in audios' /\ wav'[id] = wav[id]
    OBVIOUS
  <2> USE DEF AudioInv
  <2>0. id \in UploadIds /\ up
    BY DEF Types, CallOK
  <2>1. CASE UNCHANGED <<audios, wav>>
    BY <2>1
  <2>2. CASE UploadIsMoved
    BY <2>0, <2>2 DEF UploadIsMoved, NextFreeId, Types
  <2>3. CASE UploadIsTakenBack \/ Forget \/ ForgetOrphans
    <3>1. id # call.id
      BY <2>3 DEF UploadIsTakenBack, Forget, ForgetOrphans, DeletesOK, Changing
    <3> QED
      BY <2>0, <2>3, <3>1 DEF UploadIsTakenBack, Forget, ForgetOrphans, Types, library
  <2>4. \/ UNCHANGED <<audios, wav>> \/ PowerCut \/ Boot \/ UploadIsMoved
        \/ UploadIsTakenBack \/ Forget \/ ForgetOrphans
    <3>1. CASE Upload
      BY <3>1 DEF Upload, UploadBegins, ChunkIsWritten, ChunkIsLost, ChunkFails, NoFile,
               BodyDies, BodyEnds, ReadsNothing, UploadAnswers, UploadIsProbed, MoveFails,
               UploadIsIndexed, UploadIndexIsLost, KeepsLibrary, library, vars
    <3>2. CASE DeleteGoesOn \/ \E j \in UploadIds : Delete(j)
      BY <3>2 DEF DeleteGoesOn, AskIfPlaying, DeleteIsIndexed, DeleteIndexFails,
               Delete, Asks, library
    <3>3. CASE AudioTask \/ EventPlays \/ \E j \in UploadIds : Play(j)
      BY <3>3 DEF AudioTask, TakePlaylist, OpenClip, StartClip, EndClip, CloseClip,
               ByAudioTask, EventPlays, Play, Queued, library
    <3>4. CASE StopRunning \/ Start \/ \E clips \in ClipLists : Load(clips)
      BY <3>4 DEF StopRunning, Start, Load, library
    <3> QED
      BY <3>1, <3>2, <3>3, <3>4 DEF Next, vars, library
  <2> QED
    BY <2>0, <2>1, <2>2, <2>3, <2>4 DEF PowerCut, Boot
<1> QED
  BY <1>1, AudioInvariant, PTL DEF Spec, RunClipsStay

-----------------------------------------------------------------------------
(* The types of the whole state, the playlists included.                   *)

(* What holds of 0, and of each number if of the one before it.            *)
LEMMA UpTo ==
  ASSUME NEW n \in Nat, NEW S,
         0 \in S,
         \A i \in 1 .. n : i - 1 \in S => i \in S
  PROVE  0 .. n \subseteq S
<1>1. SUFFICES ASSUME NEW Bad, Bad = (0 .. n) \ S, Bad # {}
               PROVE  FALSE
  OBVIOUS
<1>2. PICK m \in Bad : \A k \in Bad : ~ (<<k, m>> \in OpToRel(<, Nat))
  <2>1. Bad \subseteq Nat
    BY <1>1
  <2> QED
    BY <2>1, <1>1, NatLessThanWellFounded, WFMin, Zenon
<1>3. m \in 1 .. n /\ m - 1 \in 0 .. n
  BY <1>1
<1>4. m - 1 \notin S
  BY <1>1, <1>3
<1>5. m - 1 \in Bad
  BY <1>1, <1>3, <1>4
<1>6. <<m - 1, m>> \in OpToRel(<, Nat)
  BY <1>3 DEF OpToRel
<1> QED
  BY <1>2, <1>5, <1>6

(* What is computed step by step has a value for every number of steps.    *)
Steppings(D, N) == [(1 .. N) \X D -> D]
Folds(g, D, z, N, h) == /\ g \in [0 .. N -> D]
                        /\ g[0] = z
                        /\ \A k \in 1 .. N : g[k] = h[<<k, g[k - 1]>>]
LEMMA FoldExists ==
  ASSUME NEW D, NEW z \in D, NEW N \in Nat, NEW h \in Steppings(D, N)
  PROVE  \E g : Folds(g, D, z, N, h)
<1> DEFINE Begins(g, m) == g[0] = z /\ \A k \in 1 .. m : g[k] = h[<<k, g[k - 1]>>]
           Reached == {m \in 0 .. N : \E g \in [0 .. N -> D] : Begins(g, m)}
<1>1. h \in [(1 .. N) \X D -> D]
  BY DEF Steppings
<1>2. 0 \in Reached
  <2> DEFINE first == [k \in 0 .. N |-> z]
  <2>1. first \in [0 .. N -> D] /\ first[0] = z
    OBVIOUS
  <2>2. Begins(first, 0)
    <3> HIDE DEF first
    <3> QED
      BY <2>1
  <2> HIDE DEF first, Begins
  <2> QED
    BY <2>1, <2>2
<1>3. ASSUME NEW m \in 1 .. N, m - 1 \in Reached
      PROVE  m \in Reached
  <2>1. PICK g \in [0 .. N -> D] : Begins(g, m - 1)
    BY <1>3
  <2>2. m \in 0 .. N /\ m - 1 \in 0 .. N /\ m # 0 /\ <<m, g[m - 1]>> \in (1 .. N) \X D
    OBVIOUS
  <2> DEFINE more == [g EXCEPT ![m] = h[<<m, g[m - 1]>>]]
  <2>3. more \in [0 .. N -> D]
    BY <2>2, <1>1
  <2>4. more[0] = z
    BY <2>1, <2>2
  <2>5. ASSUME NEW k \in 1 .. m
        PROVE  more[k] = h[<<k, more[k - 1]>>]
    <3>1. k \in 0 .. N /\ k - 1 \in 0 .. N /\ k - 1 # m
      OBVIOUS
    <3>2. more[k - 1] = g[k - 1]
      BY <3>1
    <3>3. CASE k = m
      BY <3>1, <3>2, <3>3
    <3>4. CASE k # m
      <4>1. k \in 1 .. m - 1
        BY <3>4
      <4>2. g[k] = h[<<k, g[k - 1]>>]
        BY <4>1, <2>1
      <4>3. more[k] = g[k]
        BY <3>1, <3>4
      <4> QED
        BY <3>2, <4>2, <4>3
    <3> QED
      BY <3>3, <3>4
  <2>6. Begins(more, m)
    BY <2>4, <2>5
  <2> HIDE DEF more, Begins
  <2> QED
    BY <2>3, <2>6, <2>2
<1>4. 0 .. N \subseteq Reached
  <2> HIDE DEF Reached
  <2> QED
    BY <1>2, <1>3, UpTo
<1>5. N \in Reached
  BY <1>4
<1>6. PICK g \in [0 .. N -> D] : Begins(g, N)
  BY <1>5
<1>7. Folds(g, D, z, N, h)
  BY <1>6 DEF Folds
<1> QED
  BY <1>7

(* What paths_for() computes is a playlist of clips, of those it was given.*)
LEMMA PathsForTyped ==
  ASSUME NEW A, NEW ids \in Seq(A)
  PROVE  PathsFor(ids) \in Seq(A)
<1> DEFINE N == Len(ids)
           Next1(n, l) == IF ids[n] \in audios THEN Append(l, ids[n]) ELSE l
           Step == [p \in (1 .. N) \X Seq(A) |-> Next1(p[1], p[2])]
           Rec(f) == [n \in 0 .. N |-> IF n = 0 THEN <<>> ELSE Next1(n, f[n - 1])]
           F == CHOOSE f : f = Rec(f)
<1>0. N \in Nat /\ <<>> \in Seq(A) /\ \A n \in 1 .. N : ids[n] \in A
  OBVIOUS
<1>1. \A n \in 1 .. N : \A l \in Seq(A) : Next1(n, l) \in Seq(A)
  OBVIOUS
<1>2. PathsFor(ids) = F[N]
  BY DEF PathsFor
<1> HIDE DEF Next1, N
<1>3. Step \in Steppings(Seq(A), N)
  BY <1>1 DEF Steppings
<1>4. PICK g : Folds(g, Seq(A), <<>>, N, Step)
  <2> HIDE DEF Step
  <2> QED
    BY <1>0, <1>3, FoldExists
<1>5. /\ g \in [0 .. N -> Seq(A)] /\ g[0] = <<>>
      /\ \A k \in 1 .. N : g[k] = Next1(k, g[k - 1])
  <2>1. g \in [0 .. N -> Seq(A)] /\ g[0] = <<>> /\ \A k \in 1 .. N : g[k] = Step[<<k, g[k - 1]>>]
    BY <1>4 DEF Folds
  <2>2. \A k \in 1 .. N : k - 1 \in 0 .. N
    BY <1>0
  <2> QED
    BY <2>1, <2>2
<1>6. g = Rec(g)
  <2>1. \A i \in 0 .. N : g[i] = IF i = 0 THEN <<>> ELSE Next1(i, g[i - 1])
    <3>1. \A i \in 0 .. N : i = 0 \/ i \in 1 .. N
      BY <1>0
    <3>2. \A k \in 1 .. N : k # 0
      BY <1>0
    <3> QED
      BY <1>5, <3>1, <3>2
  <2> QED
    BY <1>5, <2>1
<1>7. F = Rec(F)
  BY <1>6
<1> HIDE DEF F
<1>8. /\ F[0] = <<>>
      /\ \A i \in 1 .. N : F[i] = Next1(i, F[i - 1])
  <2>1. 0 \in 0 .. N /\ \A i \in 1 .. N : i \in 0 .. N /\ i # 0
    BY <1>0
  <2>2. \A i \in 0 .. N : F[i] = IF i = 0 THEN <<>> ELSE Next1(i, F[i - 1])
    BY <1>7
  <2> QED
    BY <2>1, <2>2
<1> DEFINE Good == {n \in 0 .. N : F[n] \in Seq(A)}
<1>12. 0 \in 0 .. N /\ \A n \in 1 .. N : n \in 0 .. N
  BY <1>0
<1>9. 0 \in Good
  BY <1>0, <1>8, <1>12
<1>10. ASSUME NEW n \in 1 .. N, n - 1 \in Good PROVE n \in Good
  BY <1>0, <1>1, <1>8, <1>10, <1>12
<1> HIDE DEF Good
<1>11. 0 .. N \subseteq Good
  BY <1>0, <1>9, <1>10, UpTo
<1> QED
  BY <1>0, <1>2, <1>11 DEF Good

(* Every operation keeps the types, given the library's invariant.         *)
LEMMA TypesInit == Init => TypeOK
<1> SUFFICES ASSUME Init PROVE TypeOK
  OBVIOUS
<1>1. <<>> \in Seq(UploadIds)
  OBVIOUS
<1>2. Idle \in Calls /\ Idle.at = "idle" /\ NoStaged \in [of : Uploads \cup {0}, start : BOOLEAN]
  BY DEF Idle, Calls, NoStaged
<1>3. 0 \in 0 .. MaxUploads /\ 0 \in 0 .. MaxFaults /\ 0 \in 0 .. MaxPowerCuts
  BY AudioAssumption
<1>4. 0 \notin UploadIds
  BY AudioAssumption DEF UploadIds
<1>5. wav \in [UploadIds -> Uploads \cup {0}] /\ told \in [UploadIds -> Uploads \cup {0}]
  BY DEF Init
<1> QED
  BY <1>1, <1>2, <1>3, <1>4, <1>5 DEF Init, TypeOK, Stages

(* The playlists and the audio task, when the library stays as it is.      *)
LEMMA SoundTyped ==
  ASSUME TypeOK, AudioTask \/ EventPlays \/ \E id \in UploadIds : Play(id)
  PROVE  TypeOK'
<1>1. uses \in Seq(UploadIds) /\ queue \in Seq(UploadIds) /\ rest \in Seq(UploadIds)
      /\ <<>> \in Seq(UploadIds)
  BY DEF TypeOK
<1>2. UNCHANGED <<up, library, sender, call, run, answers, counts>>
  BY DEF AudioTask, TakePlaylist, OpenClip, StartClip, EndClip, CloseClip,
         ByAudioTask, EventPlays, Play, Queued
<1>3. /\ queue' \in Seq(UploadIds) /\ rest' \in Seq(UploadIds)
      /\ reading' \in UploadIds \cup {0} /\ stage' \in Stages
      /\ stage' = "idle" <=> reading' = 0
  <2>0. 0 \notin UploadIds
    BY AudioAssumption DEF UploadIds
  <2>1. CASE EventPlays
    <3>1. PathsFor(uses) \in Seq(UploadIds)
      BY <1>1, PathsForTyped
    <3> QED
      BY <1>1, <2>1, <3>1 DEF EventPlays, Queued, TypeOK
  <2>2. CASE \E id \in UploadIds : Play(id)
    BY <1>1, <2>2 DEF Play, Queued, TypeOK
  <2>3. CASE TakePlaylist
    BY <1>1, <2>3 DEF TakePlaylist, TypeOK
  <2>4. CASE OpenClip
    <3>1. Tail(rest) \in Seq(UploadIds) /\ Head(rest) \in UploadIds
      BY <1>1, <2>4 DEF OpenClip
    <3> QED
      BY <1>1, <2>0, <2>4, <3>1 DEF OpenClip, TypeOK, Stages
  <2>5. CASE StartClip \/ EndClip \/ CloseClip
    BY <1>1, <2>0, <2>5 DEF StartClip, EndClip, CloseClip, TypeOK, Stages
  <2> QED
    BY <2>1, <2>2, <2>3, <2>4, <2>5 DEF AudioTask
<1> QED
  BY <1>1, <1>2, <1>3 DEF TypeOK, library, sender, run, answers, counts

(* The number of the upload at work is one of those there is room for.     *)
LEMMA UploadTyped ==
  ASSUME TypeOK, Upload
  PROVE  TypeOK'
<1> USE DEF TypeOK
<1>0. 0 \notin UploadIds /\ \A n \in 0 .. MaxFaults : n < MaxFaults => n + 1 \in 0 .. MaxFaults
  BY AudioAssumption DEF UploadIds
<1>1. Idle \in Calls /\ Idle.at = "idle" /\ Idle.id = 0 /\ Idle.of = 0
      /\ NoStaged \in [of : Uploads \cup {0}, start : BOOLEAN]
  BY DEF Idle, Calls, NoStaged
<1>2. UNCHANGED <<run, sound>>
  BY DEF Upload, UploadBegins, ChunkIsWritten, ChunkIsLost, ChunkFails, NoFile,
         BodyDies, BodyEnds, ReadsNothing, UploadAnswers, UploadIsProbed, UploadIsMoved,
         MoveFails, UploadIsIndexed, UploadIndexIsLost, UploadIsTakenBack, KeepsLibrary, vars
<1>3. faults' \in 0 .. MaxFaults /\ cuts' = cuts
  BY <1>0 DEF Upload, UploadBegins, ChunkIsWritten, ChunkIsLost, ChunkFails, NoFile,
         BodyDies, BodyEnds, ReadsNothing, UploadAnswers, UploadIsProbed, UploadIsMoved,
         MoveFails, Fault, UploadIsIndexed, UploadIndexIsLost, UploadIsTakenBack, counts, vars
<1>4. /\ uploads' \in 0 .. MaxUploads /\ torn' \subseteq Uploads /\ unseen' \subseteq torn'
      /\ staged' \in [of : Uploads \cup {0}, start : BOOLEAN]
      /\ doneKey' \in BOOLEAN /\ up' = up
      /\ call' \in Calls
      /\ call'.at \in {"index", "ask", "unlink", "reindex"} => call'.id \in UploadIds
  <2>1. CASE ChunkIsWritten \/ ChunkIsLost \/ ChunkFails
    <3>1. Sender \in Uploads /\ uploads' \in 0 .. MaxUploads /\ call.at = "body"
      BY <2>1, AudioAssumption DEF ChunkIsWritten, ChunkIsLost, ChunkFails, ChunkArrives, Uploads
    <3>2. \A at \in {"body", "answer"} :
            /\ [call EXCEPT !.of = Sender, !.at = at] \in Calls
            /\ [call EXCEPT !.of = Sender, !.at = at].at = at
            /\ [call EXCEPT !.of = Sender] = [call EXCEPT !.of = Sender, !.at = "body"]
      BY <3>1 DEF Calls
    <3>3. call' \in Calls /\ call'.at \in {"body", "answer"}
      <4>1. \E at \in {"body", "answer"} : call' = [call EXCEPT !.of = Sender, !.at = at]
        BY <2>1, <3>2 DEF ChunkIsWritten, ChunkIsLost, ChunkFails
      <4> QED
        BY <3>2, <4>1
    <3>4. staged' \in [of : Uploads \cup {0}, start : BOOLEAN]
      <4>1. CASE ChunkFails
        BY <1>1, <4>1 DEF ChunkFails
      <4>2. CASE ChunkIsWritten
        BY <3>1, <4>2 DEF ChunkIsWritten
      <4>3. CASE ChunkIsLost
        BY <3>1, <4>3 DEF ChunkIsLost
      <4> QED
        BY <2>1, <4>1, <4>2, <4>3
    <3>5. torn' \subseteq Uploads /\ unseen' \subseteq torn'
          /\ doneKey' \in BOOLEAN /\ up' = up
      BY <2>1, <3>1 DEF ChunkIsWritten, ChunkIsLost, ChunkFails, KeepsLibrary
    <3> QED
      BY <3>1, <3>3, <3>4, <3>5
  <2>2. CASE UploadBegins
    BY <1>1, <2>2 DEF UploadBegins, KeepsLibrary, Calls, Idle
  <2>3. CASE NoFile \/ BodyDies \/ BodyEnds \/ ReadsNothing
    BY <1>1, <2>3 DEF NoFile, BodyDies, BodyEnds, ReadsNothing, KeepsLibrary, Calls, sender,
                      library, vars
  <2>4. CASE UploadAnswers \/ UploadIsProbed \/ MoveFails
    <3>1. /\ UNCHANGED <<up, uploads, torn, unseen>> /\ doneKey' \in BOOLEAN
          /\ staged' \in {staged, NoStaged}
      BY <2>4 DEF UploadAnswers, UploadIsProbed, MoveFails, KeepsLibrary, sender
    <3>2. call' = Idle \/ \E at \in {"probe", "rename"} : call' = [call EXCEPT !.at = at]
      BY <2>4 DEF UploadAnswers, UploadIsProbed, MoveFails
    <3>3. call' \in Calls /\ call'.at \in {"idle", "probe", "rename"}
      BY <1>1, <3>2 DEF Calls
    <3> QED
      BY <1>1, <3>1, <3>3
  <2>5. CASE UploadIsMoved
    BY <1>1, <2>5 DEF UploadIsMoved, Calls, sender
  <2>6. CASE UploadIsIndexed \/ UploadIndexIsLost \/ UploadIsTakenBack
    BY <1>1, <2>6 DEF UploadIsIndexed, UploadIndexIsLost, UploadIsTakenBack, library, sender
  <2> QED
    BY <2>1, <2>2, <2>3, <2>4, <2>5, <2>6 DEF Upload
<1>5. /\ audios' \subseteq UploadIds /\ index' \subseteq UploadIds /\ damaged' \subseteq UploadIds
      /\ wav' \in [UploadIds -> Uploads \cup {0}] /\ told' \in [UploadIds -> Uploads \cup {0}]
  <2>1. CASE UploadIsMoved
    BY <2>1 DEF UploadIsMoved, answers
  <2>2. CASE UploadIsIndexed \/ UploadIndexIsLost
    BY <2>2 DEF UploadIsIndexed, UploadIndexIsLost, library
  <2>3. CASE UploadIsTakenBack
    BY <2>3 DEF UploadIsTakenBack, answers
  <2>4. \/ KeepsLibrary \/ UNCHANGED <<audios, index, wav, answers>>
        \/ UploadIsMoved \/ UploadIsIndexed \/ UploadIndexIsLost \/ UploadIsTakenBack
    BY DEF Upload, UploadBegins, ChunkIsWritten, ChunkIsLost, ChunkFails, NoFile,
           BodyDies, BodyEnds, ReadsNothing, UploadAnswers, UploadIsProbed, MoveFails, vars, library
  <2> QED
    BY <2>1, <2>2, <2>3, <2>4 DEF KeepsLibrary, answers
<1> QED
  BY <1>2, <1>3, <1>4, <1>5 DEF run, sound

(* Deletes, the run and the power.                                         *)
LEMMA OthersTyped ==
  ASSUME TypeOK,
         \/ DeleteGoesOn \/ \E id \in UploadIds : Delete(id)
         \/ \E clips \in ClipLists : Load(clips)
         \/ Start \/ StopRunning \/ PowerCut \/ Boot
  PROVE  TypeOK'
<1> USE DEF TypeOK
<1>0. /\ \A n \in 0 .. MaxFaults : n < MaxFaults => n + 1 \in 0 .. MaxFaults
      /\ \A n \in 0 .. MaxPowerCuts : n < MaxPowerCuts => n + 1 \in 0 .. MaxPowerCuts
  BY AudioAssumption
<1>1. Idle \in Calls /\ Idle.at = "idle" /\ Idle.id = 0 /\ Idle.of = 0
      /\ NoStaged \in [of : Uploads \cup {0}, start : BOOLEAN] /\ <<>> \in Seq(UploadIds)
  BY DEF Idle, Calls, NoStaged
<1>2. CASE PowerCut
  BY <1>0, <1>1, <1>2 DEF PowerCut, Stages
<1>3. CASE Boot
  BY <1>1, <1>3 DEF Boot, sender, run, sound, answers, counts
<1>4. CASE Start \/ StopRunning
  BY <1>4 DEF Start, StopRunning, library, sender, sound, answers, counts
<1>5. CASE \E clips \in ClipLists : Load(clips)
  BY <1>5, AudioAssumption DEF Load, library, sender, sound, answers, counts
<1>6. CASE \E id \in UploadIds : Delete(id)
  BY <1>6 DEF Delete, Asks, Calls, library, sender, run, sound, answers, counts
<1>7. CASE DeleteGoesOn
  <2>1. call'  \in Calls /\ (call'.at \in {"index", "ask", "unlink", "reindex"} => call'.id \in UploadIds)
    BY <1>1, <1>7 DEF DeleteGoesOn, AskIfPlaying, Forget, ForgetOrphans, DeleteIsIndexed,
                      DeleteIndexFails, Calls
  <2>2. UNCHANGED <<up, staged, sender, run, sound, cuts>> /\ faults' \in 0 .. MaxFaults
    BY <1>0, <1>7 DEF DeleteGoesOn, AskIfPlaying, Forget, ForgetOrphans, DeleteIsIndexed,
                      DeleteIndexFails, Fault, counts, library
  <2>3. /\ audios' \subseteq UploadIds /\ index' \subseteq UploadIds /\ damaged' \subseteq UploadIds
        /\ wav' \in [UploadIds -> Uploads \cup {0}] /\ told' \in [UploadIds -> Uploads \cup {0}]
    BY <1>7 DEF DeleteGoesOn, AskIfPlaying, Forget, ForgetOrphans, DeleteIsIndexed,
                DeleteIndexFails, library, answers
  <2> QED
    BY <2>1, <2>2, <2>3 DEF sender, run, sound
<1> QED
  BY <1>2, <1>3, <1>4, <1>5, <1>6, <1>7

(* TypeOK: what is listed, waits to be played or is open is a clip that was*)
(* uploaded, whatever program is loaded; so the audio task asks for no file*)
(* but those of uploads, and a call that changes the library works on one. *)
THEOREM TypeCorrect == Spec => []TypeOK
<1>1. TypeOK /\ [Next]_vars => TypeOK'
  <2> SUFFICES ASSUME TypeOK, [Next]_vars PROVE TypeOK'
    OBVIOUS
  <2>1. CASE UNCHANGED vars
    BY <2>1 DEF TypeOK, vars, library, sender, run, sound, answers, counts
  <2> QED
    BY <2>1, SoundTyped, UploadTyped, OthersTyped DEF Next
<1> QED
  BY <1>1, TypesInit, PTL DEF Spec
=============================================================================
