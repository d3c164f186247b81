----------------------------- MODULE HardwareForm -----------------------------
(***************************************************************************)
(* The form with the hardware configuration (HardwareSection.tsx) on the   *)
(* page that is there while the configuration window is open               *)
(* (routes/hardware.tsx, useConfigWindow.ts): a draft over the page's copy *)
(* of what is stored, and requests whose answers may be lost, while others *)
(* save too and the window opens and shuts.                                *)
(*                                                                         *)
(* Of the fields it has a numeric one, the port, and the banks with their  *)
(* pins, which are one field: they are sent whole.                         *)
(***************************************************************************)
EXTENDS Integers, Sequences, FiniteSets, SequencesExt

CONSTANTS BankPins,    \* what may be typed as the pin of a bank
          Ports,       \* what may be typed as the port and is accepted
          MostBanks,   \* MAX_BANKS
          MaxSaves     \* bound: requests on their way

ASSUME HardwareAssumption == Ports \subseteq Nat \ {0} /\ MostBanks \in Nat

VARIABLES stored,      \* the device: hardware_store::saved()
          windowOpen,  \* the device: the configuration window
          known,       \* the query ['hardware-config'], or Unfetched
          fetch,       \* its fetch under way
          draft,       \* what was typed, or LeftAlone, field by field
          saves        \* the requests on their way

hardwareFormVars == <<stored, windowOpen, known, fetch, draft, saves>>

NoPin == 0               \* a row whose pin is still to be typed
Junk == -1               \* NaN: not a number was typed
CompiledIn == [port |-> CHOOSE p \in Ports : \A q \in Ports : p <= q,
               banks |-> <<CHOOSE p \in BankPins : \A q \in BankPins : p <= q>>]

BankRows(pins) == UNION {[1 .. n -> pins] : n \in 1 .. MostBanks}

(* rt::validate(), of a request whose port 0 is an emptied field.          *)
Accepted(config) == config.port # 0 /\ IsInjective(config.banks)
Configurations == {c \in [port : Ports, banks : BankRows(BankPins)] : Accepted(c)}

Unfetched == [config |-> CompiledIn, open |-> FALSE, there |-> FALSE]
NoFetch == [at |-> "idle", config |-> CompiledIn, open |-> FALSE, after |-> FALSE]
Fetching(after) == [NoFetch EXCEPT !.at = "asked", !.after = after]

LeftAlone == [port |-> -2, banks |-> <<>>]
Fields == DOMAIN LeftAlone
In(form) == {f \in Fields : form[f] # LeftAlone[f]}

HardwareFormInit ==
  /\ stored = CompiledIn /\ windowOpen = TRUE
  /\ known = Unfetched /\ fetch = Fetching(FALSE)
  /\ draft = LeftAlone /\ saves = {}

-----------------------------------------------------------------------------
(* The form: there while the page's copy says that the window is open.     *)

OnScreen == known.open

BusySaving == \E r \in saves : r.mine

Value(field) == IF field \in In(draft) THEN draft[field] ELSE known.config[field]

(* Slip: every value on the form.                                          *)
PatchOfAll == [f \in Fields |-> Value(f)]

(* Only what differs from the copy; what is not a number differs always.   *)
Patch == [f \in Fields |->
            IF draft[f] = known.config[f] THEN LeftAlone[f] ELSE draft[f]]

DirtyForm == In(Patch) # {}

BankPinMissing == NoPin \in Range(Value("banks"))

(* Slip: the fields do not wait for the answer.                            *)
EditableAlways == OnScreen

Editable == OnScreen /\ ~ BusySaving

SetField(field, next) ==
  /\ Editable
  /\ draft' = [draft EXCEPT ![field] = next]
  /\ UNCHANGED <<stored, windowOpen, known, fetch, saves>>

TypePort(port) == Value("port") # port /\ SetField("port", port)

EditBank(i, pin) ==
  /\ i \in DOMAIN Value("banks") /\ Value("banks")[i] # pin
  /\ SetField("banks", [Value("banks") EXCEPT ![i] = pin])

AddBank ==
  Len(Value("banks")) < MostBanks /\ SetField("banks", Append(Value("banks"), NoPin))

(* The letter is the position: only the last one goes.                     *)
RemoveBank == Len(Value("banks")) > 1 /\ SetField("banks", Front(Value("banks")))

SaveOf(op, patch) == [op |-> op, patch |-> patch, form |-> draft, mine |-> TRUE,
                      at |-> "sent"]

PressSave ==
  /\ Editable /\ DirtyForm /\ ~ BankPinMissing /\ Cardinality(saves) < MaxSaves
  /\ saves' = saves \cup {SaveOf("save", Patch)}
  /\ UNCHANGED <<stored, windowOpen, known, fetch, draft>>

PressDiscard ==
  /\ Editable /\ DirtyForm /\ draft' = LeftAlone
  /\ UNCHANGED <<stored, windowOpen, known, fetch, saves>>

ResetToDefaults ==
  /\ Editable /\ known.config # CompiledIn /\ Cardinality(saves) < MaxSaves
  /\ saves' = saves \cup {SaveOf("reset", LeftAlone)}
  /\ UNCHANGED <<stored, windowOpen, known, fetch, draft>>

-----------------------------------------------------------------------------
(* The device.  What is not a number arrives as null, which is absent.     *)

Merged(patch) ==
  [port  |-> IF patch.port \in {Junk, LeftAlone.port} THEN stored.port ELSE patch.port,
   banks |-> IF patch.banks = LeftAlone.banks THEN stored.banks ELSE patch.banks]

Outcome(r) == IF r.op = "reset" THEN CompiledIn ELSE Merged(r.patch)

HandleSave(r) ==
  /\ r.at = "sent"
  /\ IF windowOpen /\ Accepted(Outcome(r))
     THEN stored' = Outcome(r) /\ saves' = (saves \ {r}) \cup {[r EXCEPT !.at = "ok"]}
     ELSE saves' = (saves \ {r}) \cup {[r EXCEPT !.at = "failed"]} /\ UNCHANGED stored
  /\ UNCHANGED <<windowOpen, known, fetch, draft>>

(* On its way, or its answer.                                              *)
LoseSave(r) ==
  /\ r.at \in {"sent", "ok"}
  /\ saves' = (saves \ {r}) \cup {[r EXCEPT !.at = "failed"]}
  /\ UNCHANGED <<stored, windowOpen, known, fetch, draft>>

OthersSave(config) ==
  /\ windowOpen /\ stored' = config
  /\ UNCHANGED <<windowOpen, known, fetch, draft, saves>>

WindowMoves ==
  /\ windowOpen' = ~ windowOpen
  /\ UNCHANGED <<stored, known, fetch, draft, saves>>

-----------------------------------------------------------------------------
(* The answers.  A form that left the screen hears of none, and takes what *)
(* was typed with it.                                                      *)

KnownBecomes(copy, onTheirWay) ==
  /\ known' = copy
  /\ IF OnScreen /\ ~ copy.open
     THEN draft' = LeftAlone /\ saves' = {[r EXCEPT !.mine = FALSE] : r \in onTheirWay}
     ELSE saves' = onTheirWay /\ UNCHANGED draft

(* onSuccess: the form is cleared, and fetched again; busy until then.     *)
SaveSucceeded(r) ==
  /\ r.at = "ok"
  /\ draft' = IF r.mine THEN LeftAlone ELSE draft
  /\ saves' = (saves \ {r}) \cup {[r EXCEPT !.at = "listing"]}
  /\ fetch' = Fetching(TRUE)
  /\ UNCHANGED <<stored, windowOpen, known>>

SaveSettled(r) ==
  /\ r.at = "listing" /\ ~ fetch.after
  /\ saves' = saves \ {r}
  /\ UNCHANGED <<stored, windowOpen, known, fetch, draft>>

SaveFailed(r) ==
  /\ r.at = "failed" /\ saves' = saves \ {r}
  /\ UNCHANGED <<stored, windowOpen, known, fetch, draft>>

(* The stream is back, the page is shown again, or the copy is old.        *)
Refetch ==
  /\ fetch' = Fetching(FALSE)
  /\ fetch.at = "idle" \/ known.there
  /\ UNCHANGED <<stored, windowOpen, known, draft, saves>>

ServeConfig ==
  /\ fetch.at = "asked"
  /\ fetch' = [fetch EXCEPT !.at = "answered", !.config = stored, !.open = windowOpen]
  /\ UNCHANGED <<stored, windowOpen, known, draft, saves>>

ConfigFetched ==
  /\ fetch.at = "answered"
  /\ KnownBecomes([config |-> fetch.config, open |-> fetch.open, there |-> TRUE], saves)
  /\ fetch' = NoFetch
  /\ UNCHANGED <<stored, windowOpen>>

ConfigNotFetched ==
  /\ fetch.at # "idle" /\ fetch' = NoFetch
  /\ UNCHANGED <<stored, windowOpen, known, draft, saves>>

HearWindow ==
  /\ known.there /\ known.open # windowOpen
  /\ KnownBecomes([known EXCEPT !.open = windowOpen], saves)
  /\ UNCHANGED <<stored, windowOpen, fetch>>

HardwareFormNext ==
  \/ \E port \in Ports \cup {0, Junk} : TypePort(port)
  \/ \E i \in 1 .. MostBanks, pin \in BankPins \cup {NoPin} : EditBank(i, pin)
  \/ AddBank \/ RemoveBank \/ PressSave \/ PressDiscard \/ ResetToDefaults
  \/ \E r \in saves : HandleSave(r) \/ LoseSave(r) \/ SaveSucceeded(r)
                        \/ SaveSettled(r) \/ SaveFailed(r)
  \/ \E config \in Configurations : OthersSave(config)
  \/ WindowMoves \/ Refetch \/ ServeConfig \/ ConfigFetched \/ ConfigNotFetched
  \/ HearWindow

HardwareFormSpec == HardwareFormInit /\ [][HardwareFormNext]_hardwareFormVars

-----------------------------------------------------------------------------
(* A save carries no field that its author left alone, so that what others *)
(* stored there meanwhile stays; and what was typed goes by Discard, with  *)
(* the window, or because the device acknowledged exactly what is on the   *)
(* form by then (HardwareSection.tsx:137-157, 193-206).                    *)
SavesAreTheAuthors ==
  [][/\ \A r \in saves' \ saves :
          r.at = "sent" => /\ In(r.patch) \subseteq In(draft)
                           /\ NoPin \notin Range(r.patch.banks)
     /\ In(draft) \ In(draft') # {} =>
          \/ PressDiscard
          \/ ~ known'.open
          \/ \E r \in saves : r.mine /\ SaveSucceeded(r) /\ r.form = draft]_hardwareFormVars
=============================================================================
