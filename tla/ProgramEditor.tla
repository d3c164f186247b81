---------------------------- MODULE ProgramEditor ----------------------------
(***************************************************************************)
(* One session of the page's program editor (lib/program-editor.ts,        *)
(* components/ProgramEditor.tsx) and the device it saves to: the draft and *)
(* every operation on it, the JSON view, the save with its dialog, and     *)
(* answers that are lost.                                                  *)
(*                                                                         *)
(* One author: no other client changes the program meanwhile.  Typing goes *)
(* on while a save is on its way, only Save and Close wait for it.         *)
(***************************************************************************)
EXTENDS ProgramDocument

CONSTANTS Sources,     \* the programs an editor is opened on, or NoDoc
          Texts,       \* what is typed into the JSON view
          Durations, Clips,
          MaxEdits,    \* bound: edits and saves in a session
          MaxSeries, MaxEvents,  \* bounds: series, and events of one
          MaxLost,     \* bound: answers that are lost
          NoDoc        \* no document

(* A session is opened on what the device answers; anything may be typed.  *)
ASSUME EditorAssumption ==
  /\ DocumentAssumption
  /\ NoDoc \notin Documents /\ NoDoc \notin [doc : Documents, done : BOOLEAN]
  /\ \A doc \in Sources \ {NoDoc} :
       doc \in Documents /\ DeviceAccepts(doc) /\ Stored(doc) = doc
  /\ Texts \subseteq Documents
  /\ Durations \subseteq Int \cup {Typo} /\ Clips \subseteq Nat

VARIABLES draft,      \* EditorState: draft, collapsed, selection, nextKey,
          collapsed,  \* baseline and bankCount
          selection,
          nextKey,
          baseline,
          bankCount,
          text,       \* json: the JSON view's text, once it was typed over
          asked,      \* pendingSave: what the dialog asks about
          sent,       \* the request on its way, and whether it took effect
          stored,     \* the program on the device
          opened,     \* the program the session was opened on
          unsure,     \* whether the last answer was lost
          wanted,     \* per series key: the event its clock is to start on
          edits, lostAnswers

view == <<collapsed, selection, nextKey, bankCount, wanted>>
save == <<baseline, asked, sent, stored, opened, unsure, lostAnswers>>
editorVars == <<draft, view, text, save, edits>>

Series == draft.series
Dirty == \/ text \notin {NoDoc, ToDocument(draft)}
         \/ ToDocument(draft) # baseline

With(map, key, value) ==
  [k \in DOMAIN map \cup {key} |-> IF k = key THEN value ELSE map[k]]

NewEvent(key) ==
  [key |-> key, duration |-> MinMs, command |-> "none", banks |-> <<>>, clips |-> <<>>]
NewSeries(key) ==
  [key |-> key, name |-> NoName, anchor |-> NoAnchor, events |-> <<NewEvent(key + 1)>>]

(* The keys of a series and its events, each given once.                   *)
KeysIn(series) == {series.key} \cup {e.key : e \in ToSet(series.events)}
KeysAreItsOwn(series) ==
  /\ \A e \in ToSet(series.events) : e.key # series.key
  /\ \A j, k \in DOMAIN series.events : series.events[j].key = series.events[k].key => j = k

(* What a draft that was just read asks of its clocks.                     *)
Anchors(new) ==
  [key \in {s.key : s \in ToSet(new.series)} |->
     (CHOOSE s \in ToSet(new.series) : s.key = key).anchor]

(* createEditorState(): a new program starts with one series of one event. *)
Seed(source) == IF source = NoDoc THEN [title |-> NoName, series |-> <<NewSeries(1)>>]
                ELSE DraftOf(source, 1)

EditorInit ==
  /\ opened \in Sources /\ stored = opened
  /\ draft = Seed(opened)
  /\ nextKey = IF opened = NoDoc THEN 3 ELSE NextKey(opened, 1)
  /\ bankCount = IF opened = NoDoc THEN 1 ELSE BanksRequired(opened)
  /\ baseline = ToDocument(draft)
  /\ wanted = Anchors(draft)
  /\ collapsed = {} /\ selection = {}
  /\ text = NoDoc /\ asked = NoDoc /\ sent = NoDoc
  /\ unsure = FALSE /\ edits = 0 /\ lostAnswers = 0

-----------------------------------------------------------------------------
(* editorReducer(), as the form offers its actions: none of them while a   *)
(* dialog is open or the JSON view has text of its own                     *)

Acts == asked = NoDoc /\ edits < MaxEdits /\ edits' = edits + 1
Edits == Acts /\ text = NoDoc /\ UNCHANGED <<text, save>>

Shows(i) == Series[i].key \notin collapsed
Rows(i)  == DOMAIN Series[i].events
VisibleEvents(folded) ==
  {e.key : e \in UNION {ToSet(s.events) : s \in {t \in ToSet(Series) : t.key \notin folded}}}

SetEvents(i, events) == draft' = [draft EXCEPT !.series[i].events = events]
SetEvent(i, j, event) == draft' = [draft EXCEPT !.series[i].events[j] = event]

Moved(list, from, to) == InsertAt(RemoveAt(list, from), to, list[from])
Beside(n) == {move \in (1 .. n) \X (1 .. n) : move[2] \in {move[1] - 1, move[1] + 1}}

SetTitle ==
  /\ Edits
  /\ \E title \in Names : draft' = [draft EXCEPT !.title = title]
  /\ UNCHANGED view

SetSeriesName(i) ==
  /\ Edits
  /\ \E name \in Names : draft' = [draft EXCEPT !.series[i].name = name]
  /\ UNCHANGED view

AddSeries ==
  /\ Edits /\ Len(Series) < MaxSeries
  /\ draft' = [draft EXCEPT !.series = Append(@, NewSeries(nextKey))]
  /\ nextKey' = nextKey + 2
  /\ wanted' = With(wanted, nextKey, NoAnchor)
  /\ UNCHANGED <<collapsed, selection, bankCount>>

MoveSeries ==
  /\ Edits
  /\ \E move \in Beside(Len(Series)) :
       draft' = [draft EXCEPT !.series = Moved(@, move[1], move[2])]
  /\ UNCHANGED view

(* Slip: the copy's anchor stays with the event of the series it is of.    *)
CopyWithOldAnchor(series, from) ==
  LET size == Len(series.events)
  IN  [series EXCEPT !.key = from + size,
                     !.events = [j \in 1 .. size |->
                                   [series.events[j] EXCEPT !.key = from + j - 1]]]

(* The copy has keys of its own, the events' first; its anchor is found    *)
(* again by its position.                                                  *)
CopyOf(series, from) ==
  LET size == Len(series.events)
      at   == AnchorIndex(series)
  IN  [series EXCEPT !.key = from + size,
                     !.anchor = IF at > 0 THEN from + at ELSE NoAnchor,
                     !.events = [j \in 1 .. size |->
                                   [series.events[j] EXCEPT !.key = from + j - 1]]]

DuplicateSeries(i) ==
  /\ Edits /\ Len(Series) < MaxSeries
  /\ LET size == Len(Series[i].events)
         copy == CopyOf(Series[i], nextKey)
         at   == {j \in 2 .. size : Series[i].events[j].key = wanted[Series[i].key]}
     IN  /\ draft' = [draft EXCEPT !.series = InsertAt(@, i + 1, copy)]
         /\ nextKey' = nextKey + size + 1
         /\ wanted' = With(wanted, copy.key,
                          IF at = {} THEN NoAnchor ELSE copy.events[Min(at)].key)
  /\ UNCHANGED <<collapsed, selection, bankCount>>

RemoveSeries(i) ==
  /\ Edits /\ Len(Series) > 1
  /\ draft' = [draft EXCEPT !.series = RemoveAt(@, i)]
  /\ collapsed' = collapsed \ {Series[i].key}
  /\ selection' = selection \ {e.key : e \in ToSet(Series[i].events)}
  /\ UNCHANGED <<nextKey, bankCount, wanted>>

(* Slip: rows that are folded away stay ticked.                            *)
FoldKeepsTicks(folded) ==
  /\ collapsed' = folded
  /\ UNCHANGED <<draft, selection, nextKey, bankCount, wanted>>

(* toggleCollapsed and setAllCollapsed.                                    *)
FoldTo(folded) ==
  /\ collapsed' = folded
  /\ selection' = selection \cap VisibleEvents(folded)
  /\ UNCHANGED <<draft, nextKey, bankCount, wanted>>

Fold ==
  /\ Edits
  /\ \E i \in DOMAIN Series, all \in BOOLEAN :
       FoldTo(IF ~ all THEN SymDiff(collapsed, {Series[i].key})
              ELSE IF Shows(i) THEN {s.key : s \in ToSet(Series)} ELSE {})

SetTimerStart(i, j) ==
  /\ Edits /\ Shows(i)
  /\ LET key == Series[i].events[j].key
         new == IF Series[i].anchor = key THEN NoAnchor ELSE key
     IN  /\ draft' = [draft EXCEPT !.series[i].anchor = new]
         /\ wanted' = [wanted EXCEPT ![Series[i].key] = new]
  /\ UNCHANGED <<collapsed, selection, nextKey, bankCount>>

AddEvent(i) ==
  /\ Edits /\ Shows(i) /\ Len(Series[i].events) < MaxEvents
  /\ SetEvents(i, Append(Series[i].events, NewEvent(nextKey)))
  /\ nextKey' = nextKey + 1
  /\ UNCHANGED <<collapsed, selection, bankCount, wanted>>

MoveEvent(i) ==
  /\ Edits /\ Shows(i)
  /\ \E move \in Beside(Len(Series[i].events)) :
       SetEvents(i, Moved(Series[i].events, move[1], move[2]))
  /\ UNCHANGED view

DuplicateEvent(i, j) ==
  /\ Edits /\ Shows(i) /\ Len(Series[i].events) < MaxEvents
  /\ SetEvents(i, InsertAt(Series[i].events, j + 1,
                           [Series[i].events[j] EXCEPT !.key = nextKey]))
  /\ nextKey' = nextKey + 1
  /\ UNCHANGED <<collapsed, selection, bankCount, wanted>>

RemoveEvent(i, j) ==
  /\ Edits /\ Shows(i)
  /\ SetEvents(i, RemoveAt(Series[i].events, j))
  /\ selection' = selection \ {Series[i].events[j].key}
  /\ UNCHANGED <<collapsed, nextKey, bankCount, wanted>>

SetDuration(i, j) ==
  /\ Edits /\ Shows(i)
  /\ \E d \in Durations : SetEvent(i, j, [Series[i].events[j] EXCEPT !.duration = d])
  /\ UNCHANGED view

SetCommand(i, j) ==
  /\ Edits /\ Shows(i)
  /\ \E c \in Commands : SetEvent(i, j, [Series[i].events[j] EXCEPT !.command = c])
  /\ UNCHANGED view

(* The buttons of the banks that are offered, and of those that are named: *)
(* follow, show, hide, follow.                                             *)
Cycled(banks, bank) ==
  IF bank \notin DOMAIN banks THEN With(banks, bank, "show")
  ELSE IF banks[bank] = "show" THEN [banks EXCEPT ![bank] = "hide"]
  ELSE Restrict(banks, DOMAIN banks \ {bank})

OverrideBank(i, j) ==
  /\ Edits /\ Shows(i)
  /\ LET e == Series[i].events[j]
         offered == 1 .. Max({bankCount} \cup DOMAIN e.banks)
     IN  /\ bankCount > 1 \/ DOMAIN e.banks # {}
         /\ \E bank \in offered :
              SetEvent(i, j, [e EXCEPT !.banks = Cycled(@, bank)])
  /\ UNCHANGED view

EditClips(i, j) ==
  /\ Edits /\ Shows(i)
  /\ LET e == Series[i].events[j]
     IN  \/ \E id \in Clips \ ToSet(e.clips) :
              SetEvent(i, j, [e EXCEPT !.clips = Append(@, id)])
         \/ \E k \in DOMAIN e.clips : SetEvent(i, j, [e EXCEPT !.clips = RemoveAt(@, k)])
         \/ \E move \in Beside(Len(e.clips)) :
              SetEvent(i, j, [e EXCEPT !.clips = Moved(@, move[1], move[2])])
  /\ UNCHANGED view

(* toggleSelected, selectAllEvents and clearSelection.                     *)
Tick ==
  /\ Edits
  /\ \/ \E key \in VisibleEvents(collapsed) : selection' = SymDiff(selection, {key})
     \/ selection' = VisibleEvents(collapsed)
     \/ selection # {} /\ selection' = {}
  /\ UNCHANGED <<draft, collapsed, nextKey, bankCount, wanted>>

RemoveSelected ==
  /\ Edits /\ selection # {}
  /\ draft' = EachSeries(draft, LAMBDA s :
                [s EXCEPT !.events = Among(@, {e \in ToSet(@) : e.key \notin selection})])
  /\ selection' = {}
  /\ UNCHANGED <<collapsed, nextKey, bankCount, wanted>>

(* The stepper is there in the JSON view too.                              *)
SetBankCountTo(count) ==
  /\ bankCount' = count
  /\ draft' = EachSeries(draft, LAMBDA s : EachEvent(s, LAMBDA e :
                [e EXCEPT !.banks = Restrict(@, DOMAIN @ \cap (1 .. count))]))

SetBankCount ==
  /\ Acts
  /\ \E count \in {bankCount - 1, bankCount + 1} \cap (1 .. MaxBanks) :
       SetBankCountTo(count)
  /\ UNCHANGED <<text, save, collapsed, selection, nextKey, wanted>>

-----------------------------------------------------------------------------
(* The JSON view *)

(* replaceDocument, with a document the validator passed.                  *)
Replace(doc) ==
  /\ draft' = DraftOf(doc, nextKey)
  /\ nextKey' = NextKey(doc, nextKey)
  /\ wanted' = Anchors(draft')
  /\ collapsed' = {} /\ selection' = {}
  /\ bankCount' = Max({bankCount, BanksRequired(doc)})
  /\ text' = NoDoc

TypeJson ==
  /\ Acts
  /\ text' \in Texts
  /\ UNCHANGED <<draft, view, save>>

(* selectTab('editor'), which stays on a text that is refused.             *)
ApplyJson ==
  /\ asked = NoDoc /\ text # NoDoc /\ PageAccepts(text)
  /\ Replace(PageView(text))
  /\ UNCHANGED <<save, edits>>

-----------------------------------------------------------------------------
(* Saving *)

OnItsWay(doc) == [doc |-> doc, done |-> FALSE]

(* Slip: what the author brought into the program is not looked at.        *)
IntroducesNothing(doc) == FALSE

(* authoringRegressions(): against what was loaded or saved last; a seed   *)
(* without a title is no document and had no issues.                       *)
Introduces(doc) ==
  IF PageAccepts(baseline) THEN ~ NoWorse(PageView(baseline), doc) ELSE HasIssues(doc)

(* handleSave().  What the author sees becomes the draft, is sent, refused *)
(* for what this session brought in, or asked about.                       *)
Save ==
  LET seen == IF text = NoDoc THEN ToDocument(draft) ELSE text
      doc  == PageView(seen)
  IN  /\ Acts /\ sent = NoDoc /\ PageAccepts(seen)
      /\ IF text = NoDoc THEN UNCHANGED <<draft, view, text>> ELSE Replace(doc)
      /\ IF Introduces(doc) THEN text # NoDoc /\ UNCHANGED <<asked, sent>>
         ELSE IF doc # seen \/ HasIssues(doc) THEN asked' = doc /\ UNCHANGED sent
         ELSE sent' = OnItsWay(doc) /\ UNCHANGED asked
      /\ UNCHANGED <<baseline, stored, opened, unsure, lostAnswers>>

Confirm ==
  /\ asked # NoDoc
  /\ sent' = OnItsWay(asked) /\ asked' = NoDoc
  /\ UNCHANGED <<draft, view, text, baseline, stored, opened, unsure, lostAnswers, edits>>

Cancel ==
  /\ asked # NoDoc
  /\ asked' = NoDoc
  /\ UNCHANGED <<draft, view, text, baseline, sent, stored, opened, unsure, lostAnswers, edits>>

(* PUT /programs/{id} takes effect, or POST /programs for a new program.   *)
DeviceStores ==
  /\ sent # NoDoc /\ ~ sent.done /\ DeviceAccepts(sent.doc)
  /\ stored' = Stored(sent.doc)
  /\ sent' = [sent EXCEPT !.done = TRUE]
  /\ UNCHANGED <<draft, view, text, baseline, asked, opened, unsure, lostAnswers, edits>>

(* The answer to a PUT: the draft becomes what the device stored.  The     *)
(* editor of a new program closes.                                         *)
Saved ==
  /\ sent # NoDoc /\ sent.done /\ opened # NoDoc
  /\ Replace(stored)
  /\ baseline' = ToDocument(draft')
  /\ sent' = NoDoc /\ unsure' = FALSE
  /\ UNCHANGED <<asked, stored, opened, lostAnswers, edits>>

(* The request fails, is refused (program_loaded), or its answer is lost:  *)
(* the editor stays as it is.                                              *)
SaveFails ==
  /\ sent # NoDoc /\ lostAnswers < MaxLost
  /\ lostAnswers' = lostAnswers + 1
  /\ sent' = NoDoc /\ unsure' = (unsure \/ sent.done)
  /\ UNCHANGED <<draft, view, text, baseline, asked, stored, opened, edits>>

-----------------------------------------------------------------------------
EditorNext ==
  \/ SetTitle \/ AddSeries \/ MoveSeries \/ Fold \/ Tick \/ RemoveSelected \/ SetBankCount
  \/ \E i \in DOMAIN Series :
       \/ SetSeriesName(i) \/ DuplicateSeries(i) \/ RemoveSeries(i)
       \/ AddEvent(i) \/ MoveEvent(i)
       \/ \E j \in Rows(i) :
            \/ SetTimerStart(i, j) \/ DuplicateEvent(i, j) \/ RemoveEvent(i, j)
            \/ SetDuration(i, j) \/ SetCommand(i, j)
            \/ OverrideBank(i, j) \/ EditClips(i, j)
  \/ TypeJson \/ ApplyJson
  \/ Save \/ Confirm \/ Cancel \/ DeviceStores \/ Saved \/ SaveFails

EditorSpec == EditorInit /\ [][EditorNext]_editorVars

-----------------------------------------------------------------------------
(* Properties *)

(* "Delete selected" takes no row the author cannot see, and each row is   *)
(* told apart: keys are never given twice (program-editor.ts:403-412).     *)
NothingUnseenIsTicked ==
  /\ selection \subseteq VisibleEvents(collapsed)
  /\ \A i \in DOMAIN Series :
       /\ KeysAreItsOwn(Series[i])
       /\ KeysIn(Series[i]) \subseteq 1 .. nextKey - 1
       /\ \A k \in DOMAIN Series \ {i} : KeysIn(Series[i]) \cap KeysIn(Series[k]) = {}

(* The clock of a series starts on the event its author chose, wherever    *)
(* moves, copies and deletions put it, and with the series once that event *)
(* is gone (program-editor.ts:46-55, 459-483).                             *)
ClockStartsWhereChosen ==
  \A i \in DOMAIN Series :
    LET at == {j \in Rows(i) : Series[i].events[j].key = wanted[Series[i].key]}
    IN  ToDocument(draft).series[i].start =
          IF at \subseteq {1} THEN Absent ELSE Min(at) - 1

(* A program never asks for a bank its author was not offered (544-562).   *)
BanksAreOffered == BanksRequired(ToDocument(draft)) <= bankCount

(* What a session keeps for its author while it is worked on.              *)
DraftInOrder == NothingUnseenIsTicked /\ ClockStartsWhereChosen /\ BanksAreOffered

(* A start that is written out although it is 0 says nothing.              *)
Plain(doc) ==
  EachSeries(doc, LAMBDA s : [s EXCEPT !.start = IF @ = 0 THEN Absent ELSE @])

(* What the page sends, the device takes, keeps as the author saw it, and  *)
(* reads back the same after a restart (program.h:189-196).                *)
SentIsTaken ==
  sent # NoDoc => /\ DeviceAccepts(sent.doc)
                  /\ Stored(sent.doc) = Plain(sent.doc)
                  /\ DeviceAccepts(Stored(sent.doc))
                  /\ Stored(Stored(sent.doc)) = Stored(sent.doc)

(* An editor that says nothing is unsaved shows what the device has, unless*)
(* the last answer was lost.                                               *)
CleanIsStored ==
  ~ Dirty /\ sent = NoDoc /\ ~ unsure /\ opened # NoDoc => baseline = Plain(stored)

(* No session leaves a program with more unnamed or empty series than it   *)
(* found, whatever is saved, confirmed or lost on the way, although the    *)
(* ones it found may be saved again (program-document.ts:486-506).         *)
NothingGetsWorse ==
  stored # NoDoc => IF opened = NoDoc THEN ~ HasIssues(stored)
                    ELSE NoWorse(opened, stored)

(* What saving promises the author.                                        *)
SavesAreAsShown == SentIsTaken /\ CleanIsStored /\ NothingGetsWorse
=============================================================================
