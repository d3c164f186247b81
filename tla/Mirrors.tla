-------------------------------- MODULE Mirrors --------------------------------
(***************************************************************************)
(* What is computed twice, on the device and in the browser, and has to    *)
(* come out the same: where every bank stands after each event of a        *)
(* program (Executor::enter_event(), lib/bank-state.ts), and the network   *)
(* that a form asks for (ssid_choice.h, lib/ssid-choice.ts).               *)
(*                                                                         *)
(* An event here has its command, "" for none, and the way it names for    *)
(* each of the letters, "" for those that it does not name; the series are *)
(* one after the other, since completing one turns nothing.                *)
(***************************************************************************)
EXTENDS Integers, Sequences, FiniteSets, SequencesExt

CONSTANTS MaxLetters,   \* bound: letters of banks, of the eight
          Characters,   \* of a name: " ", "nbsp" and others
          LongestName,  \* bound: characters typed
          LongestRun    \* bound: events

ASSUME MirrorsAssumption ==
  MaxLetters \in Nat /\ LongestName \in Nat /\ LongestRun \in Nat

BankLetters == 1 .. MaxLetters
Ways == {"", "show", "hide"}
ProgramEvents == [command : Ways, banks : [BankLetters -> Ways]]

NameInputs == [what : {"ssid"}, picked : {<<>>, <<" ", "a">>},
               typed : BoundedSeq(Characters, LongestName)]
RunInputs == [what : {"banks"}, count : BankLetters,
              events : BoundedSeq(ProgramEvents, LongestRun)]

-----------------------------------------------------------------------------
(* The device: masks of what to show and what to hide, over more banks     *)
(* than it has; shown first.                                               *)
EnterEventOf(event, facing, count) ==
  LET Named(way) == {b \in BankLetters : event.banks[b] = way}
      toShow == Named("show") \cup IF event.command = "show" THEN Named("") ELSE {}
      toHide == Named("hide") \cup IF event.command = "hide" THEN Named("") ELSE {}
  IN  (facing \cup (toShow \cap 1 .. count)) \ toHide

(* Where the banks stand after event n, all of them shown before.          *)
DeviceBanks(events, count) ==
  LET after[n \in 0 .. Len(events)] ==
        IF n = 0 THEN 1 .. count
        ELSE EnterEventOf(events[n], after[n - 1], count)
  IN  after

(* chosen_ssid(): spaces go one by one, from the front and from the back.  *)
IsSpace(c) == c = " "

DeviceTrim(name) ==
  LET RemovePrefix == {i \in 1 .. Len(name) : \A j \in 1 .. i : IsSpace(name[j])}
      front == SubSeq(name, Cardinality(RemovePrefix) + 1, Len(name))
      RemoveSuffix == {i \in 1 .. Len(front) : \A j \in i .. Len(front) : IsSpace(front[j])}
  IN  SubSeq(front, 1, Len(front) - Cardinality(RemoveSuffix))

DeviceSsid(picked, typed) ==
  IF DeviceTrim(typed) # <<>> THEN DeviceTrim(typed) ELSE picked

-----------------------------------------------------------------------------
(* Slip: an event's own ways alone, and the command for one that has none. *)
SimulatedWayOrCommand(event, bank) ==
  IF \A b \in BankLetters : event.banks[b] = "" THEN event.command
  ELSE event.banks[bank]

(* The browser, bank by bank: override ?? command, or as it was.           *)
SimulatedWay(event, bank) ==
  IF event.banks[bank] # "" THEN event.banks[bank] ELSE event.command

SimulateEvent(event, before, count) ==
  [b \in 1 .. count |->
     CASE SimulatedWay(event, b) = "show" -> "shown"
       [] SimulatedWay(event, b) = "hide" -> "hidden"
       [] SimulatedWay(event, b) = "" -> before[b]]

SimulateBanks(events, count) ==
  LET state[n \in 0 .. Len(events)] ==
        IF n = 0 THEN [b \in 1 .. count |-> "shown"]
        ELSE SimulateEvent(events[n], state[n - 1], count)
  IN  state

(* Slip: what trim() takes off in a browser.                               *)
SpaceOfScripts == {" ", "nbsp"}

(* What the two replacements take off: the longest run of the four         *)
(* characters at either end.                                               *)
SpaceOfThePage == {" "}

PageTrim(name) ==
  LET kept == {i \in DOMAIN name : name[i] \notin SpaceOfThePage}
  IN  IF kept = {} THEN <<>>
      ELSE SubSeq(name, CHOOSE i \in kept : \A j \in kept : i <= j,
                        CHOOSE i \in kept : \A j \in kept : j <= i)

ChosenSsid(picked, typed) ==
  IF PageTrim(typed) # <<>> THEN PageTrim(typed) ELSE picked

-----------------------------------------------------------------------------
(* The timeline shows every bank the way it stands on the device after     *)
(* each event, and the two forms ask for the same network                  *)
(* (bank-state.ts:4-8, ssid-choice.ts:5-12).                               *)
MirrorsAgree(input) ==
  /\ input.what = "banks" =>
       \A n \in 0 .. Len(input.events) :
         {b \in 1 .. input.count : SimulateBanks(input.events, input.count)[n][b] = "shown"}
           = DeviceBanks(input.events, input.count)[n]
  /\ input.what = "ssid" =>
       ChosenSsid(input.picked, input.typed) = DeviceSsid(input.picked, input.typed)
=============================================================================
