--------------------------- MODULE ProgramDocument ---------------------------
(***************************************************************************)
(* A program as the web page and the device write it, each with a reader   *)
(* of its own: the page's validator (lib/program-document.ts), the draft   *)
(* its editor holds (lib/program-editor.ts), and the parser and writer of  *)
(* the firmware (lib/rt_logic/program.{h,cpp}).                            *)
(*                                                                         *)
(* A document is [title, series], a series [name, start, events] with      *)
(* start its timer_start_index, an event [duration, command, banks, clips]:*)
(* banks maps bank numbers (A is 1) to "show" or "hide", clips is its      *)
(* audio_ids.  Descriptions and the optional flag are carried along by     *)
(* every operator here and left out.                                       *)
(***************************************************************************)
EXTENDS Integers, SequencesExt

CONSTANTS MinMs, MaxMs,   \* kMinEventMs, kMaxEventMs
          MaxBanks,       \* kMaxTargetBanks
          MaxClip,        \* the highest id that fits 32 bits
          Names,          \* what programs and series are called
          Absent,         \* the key is not in the document
          Typo            \* a duration that is not a whole number

NoName == ""

ASSUME DocumentAssumption ==
  /\ MinMs \in Int /\ MaxMs \in Int /\ MinMs <= MaxMs
  /\ MaxBanks \in Nat \ {0}
  /\ MaxClip \in Nat
  /\ NoName \in Names
  /\ Absent \notin Int /\ Typo \notin Int

(* What there is of an event's command, and of one bank's.                 *)
Turns    == {"show", "hide"}
Commands == Turns \cup {"none"}

(* A misspelt bank is one past the last, any other misspelt word "other".  *)
BankMaps  == UNION {[banks -> Turns \cup {"other"}] : banks \in SUBSET (1 .. MaxBanks + 1)}
Events    == [duration : Int \cup {Typo}, command : Commands \cup {"other"},
              banks : BankMaps, clips : Seq(Nat)]
Documents == [title : Names,
              series : Seq([name : Names, start : Int \cup {Absent},
                            events : Seq(Events)])]

EachSeries(doc, Change(_)) ==
  [doc EXCEPT !.series = [i \in DOMAIN @ |-> Change(@[i])]]
EachEvent(series, Change(_)) ==
  [series EXCEPT !.events = [i \in DOMAIN @ |-> Change(@[i])]]

(* The elements of a list that are among the good ones, in its order.      *)
Among(list, good) ==
  LET kept[k \in 0 .. Len(list)] ==
        IF k = 0 THEN <<>>
        ELSE IF list[k] \in good THEN Append(kept[k - 1], list[k]) ELSE kept[k - 1]
  IN  kept[Len(list)]

EventsOf(doc) == UNION {ToSet(s.events) : s \in ToSet(doc.series)}

-----------------------------------------------------------------------------
(* What both readers do alike *)

Clamped(ms) == IF ms < MinMs THEN MinMs ELSE IF ms > MaxMs THEN MaxMs ELSE ms
Fitting(clips) == Among(clips, 0 .. MaxClip)

(* A command or a bank that is misspelt fails the whole document.          *)
WellSpelt(event) == /\ event.command \in Commands
                    /\ DOMAIN event.banks \subseteq 1 .. MaxBanks
                    /\ \A bank \in DOMAIN event.banks : event.banks[bank] \in Turns

(* banksRequired() and banks_required().                                   *)
BanksRequired(doc) ==
  Max({1} \cup UNION {DOMAIN e.banks : e \in EventsOf(doc)})

-----------------------------------------------------------------------------
(* The page: parseProgramDocument() *)

PageAccepts(doc) ==
  /\ doc.title # NoName
  /\ doc.series # <<>>
  /\ \A e \in EventsOf(doc) : e.duration # Typo /\ WellSpelt(e)
  /\ \A s \in ToSet(doc.series) :
       s.start = Absent \/ s.start \in 0 .. Len(s.events) - 1

(* The document as the page expects the device to store it, and the        *)
(* difference is what it warns of.                                         *)
PageView(doc) ==
  EachSeries(doc, LAMBDA s :
    EachEvent(s, LAMBDA e : [e EXCEPT !.duration = Clamped(@), !.clips = Fitting(@)]))

Unnamed(doc) == {i \in DOMAIN doc.series : doc.series[i].name = NoName}
Eventless(doc) == {i \in DOMAIN doc.series : doc.series[i].events = <<>>}

(* authoringIssues(), and authoringRegressions() being none: by their      *)
(* numbers, whichever series they are about.                               *)
HasIssues(doc) == Unnamed(doc) # {} \/ Eventless(doc) # {}
NoWorse(before, after) ==
  /\ Cardinality(Unnamed(after)) <= Cardinality(Unnamed(before))
  /\ Cardinality(Eventless(after)) <= Cardinality(Eventless(before))

-----------------------------------------------------------------------------
(* The device: parse_program() and program_json() *)

(* An index past the end is refused; a series without events has only 0.   *)
DeviceAccepts(doc) ==
  /\ \A e \in EventsOf(doc) : WellSpelt(e)
  /\ \A s \in ToSet(doc.series) :
       s.start \in {Absent, 0} \/ s.start \in 0 .. Len(s.events) - 1

(* rt::Program: two masks instead of the map of banks, and no key is       *)
(* absent.                                                                 *)
BanksOf(banks, turn) == {bank \in DOMAIN banks : banks[bank] = turn}
ParsedEvent(e) ==
  [duration |-> IF e.duration = Typo THEN MinMs ELSE Clamped(e.duration),
   command  |-> e.command,
   show     |-> BanksOf(e.banks, "show"),
   hide     |-> BanksOf(e.banks, "hide"),
   clips    |-> Fitting(e.clips)]
ParsedSeries(s) ==
  [name   |-> s.name,
   start  |-> IF s.start = Absent THEN 0 ELSE s.start,
   events |-> [i \in DOMAIN s.events |-> ParsedEvent(s.events[i])]]
Parsed(doc) == EachSeries(doc, ParsedSeries)

(* event_json() and series_json().                                         *)
EventJson(e) ==
  [duration |-> e.duration,
   command  |-> e.command,
   banks    |-> [bank \in e.show \cup e.hide |->
                   IF bank \in e.show THEN "show" ELSE "hide"],
   clips    |-> e.clips]

(* Slip: the anchor is parsed and not written.                             *)
SeriesJsonWithoutStart(s) ==
  [name   |-> s.name,
   start  |-> Absent,
   events |-> [i \in DOMAIN s.events |-> EventJson(s.events[i])]]

SeriesJson(s) ==
  [name   |-> s.name,
   start  |-> IF s.start = 0 THEN Absent ELSE s.start,
   events |-> [i \in DOMAIN s.events |-> EventJson(s.events[i])]]
ProgramJson(program) == EachSeries(program, SeriesJson)

(* What the device writes to its flash and answers with.                   *)
Stored(doc) == ProgramJson(Parsed(doc))

-----------------------------------------------------------------------------
(* The draft: events and series have keys, and the anchor is a key *)

NoAnchor == 0

(* timerStartIndexOf(): of an anchor that is gone, 0.                      *)
AnchorIndex(series) ==
  LET at == {i \in DOMAIN series.events : series.events[i].key = series.anchor}
  IN  IF at = {} THEN 0 ELSE Min(at) - 1

(* toDocument().                                                           *)
WithoutKey(e) == [duration |-> e.duration, command |-> e.command,
                  banks |-> e.banks, clips |-> e.clips]
ToDocument(draft) ==
  EachSeries(draft, LAMBDA s :
    [name   |-> s.name,
     start  |-> IF AnchorIndex(s) = 0 THEN Absent ELSE AnchorIndex(s),
     events |-> [i \in DOMAIN s.events |-> WithoutKey(s.events[i])]])

(* The keys of draftFromProgram(), by the number of series that have been  *)
(* read: each takes one and then one for each of its events.               *)
KeyOf(doc, from) ==
  LET base[i \in 0 .. Len(doc.series)] ==
        IF i = 0 THEN from ELSE base[i - 1] + 1 + Len(doc.series[i].events)
  IN  base
NextKey(doc, from) == KeyOf(doc, from)[Len(doc.series)]

(* draftFromProgram().                                                     *)
DraftOf(doc, from) ==
  [doc EXCEPT !.series = [i \in DOMAIN @ |->
     LET s == @[i]
         first == KeyOf(doc, from)[i - 1]
     IN  [key    |-> first,
          name   |-> s.name,
          anchor |-> IF s.start # Absent /\ s.start \in 1 .. Len(s.events) - 1
                     THEN first + 1 + s.start ELSE NoAnchor,
          events |-> [j \in DOMAIN s.events |->
                        [key |-> first + j, duration |-> s.events[j].duration,
                         command |-> s.events[j].command,
                         banks |-> s.events[j].banks, clips |-> s.events[j].clips]]]]]
=============================================================================
