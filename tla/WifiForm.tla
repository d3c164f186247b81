------------------------------- MODULE WifiForm -------------------------------
(***************************************************************************)
(* The form that moves the device to another network                       *)
(* (WifiConfigSection.tsx): a choice from a scan, a name and a password    *)
(* that are typed, the question before a save, and an answer that may be   *)
(* lost.  Like HardwareForm it is on screen while the configuration window *)
(* is open; here it comes and goes by itself.                              *)
(***************************************************************************)
EXTENDS Naturals, FiniteSets

CONSTANTS Ssids,       \* names of networks
          NoSsid,      \* the empty one
          Secrets,     \* passwords, the empty one among them
          NoSecret     \* which this is

VARIABLES joins,       \* the device: the network it is to join, and its password
          scan,        \* the networks that the last scan found
          wifiForm,    \* the component's own state
          wifiSave     \* its request, or NoWifiSave

wifiFormVars == <<joins, scan, wifiForm, wifiSave>>

Pair(ssid, password) == [ssid |-> ssid, password |-> password]
EmptyWifiForm == [picked |-> NoSsid, typed |-> NoSsid, password |-> NoSecret,
                  confirming |-> FALSE]
NoWifiSave == [at |-> "none", asks |-> Pair(NoSsid, NoSecret), mine |-> FALSE]

WifiFormInit ==
  /\ joins = Pair(NoSsid, NoSecret) /\ scan = {}
  /\ wifiForm = EmptyWifiForm /\ wifiSave = NoWifiSave

(* chosenSsid(): typed wins.  MCPages has it character by character.       *)
Chosen(form) == IF form.typed # NoSsid THEN form.typed ELSE form.picked

WifiBusy == wifiSave.at # "none" /\ wifiSave.mine

(* Slip: only the buttons wait for the answer.                             *)
MayTypeAlways == TRUE

MayType == ~ WifiBusy

FormBecomes(form) == wifiForm' = form /\ UNCHANGED <<joins, scan, wifiSave>>

PickSsid(ssid) ==
  /\ MayType /\ ssid \in (scan \cup {NoSsid}) \ {wifiForm.picked}
  /\ FormBecomes([wifiForm EXCEPT !.picked = ssid])

TypeSsid(ssid) ==
  /\ MayType /\ ssid # wifiForm.typed
  /\ FormBecomes([wifiForm EXCEPT !.typed = ssid])

TypePassword(password) ==
  /\ MayType /\ password # wifiForm.password
  /\ FormBecomes([wifiForm EXCEPT !.password = password])

(* What was picked stays so when the next scan does not find it.           *)
Rescan(found) ==
  /\ ~ WifiBusy /\ scan' = found /\ UNCHANGED <<joins, wifiForm, wifiSave>>

AskToSave ==
  /\ ~ WifiBusy /\ Chosen(wifiForm) # NoSsid /\ ~ wifiForm.confirming
  /\ FormBecomes([wifiForm EXCEPT !.confirming = TRUE])

CancelSave ==
  /\ ~ WifiBusy /\ wifiForm.confirming
  /\ FormBecomes([wifiForm EXCEPT !.confirming = FALSE])

(* The fields can be edited under the question, which names what they come *)
(* to; with nothing in them the device refuses.  One request at a time.    *)
ConfirmSave ==
  /\ wifiSave.at = "none" /\ wifiForm.confirming
  /\ wifiSave' = [at |-> "sent", asks |-> Pair(Chosen(wifiForm), wifiForm.password),
                  mine |-> TRUE]
  /\ UNCHANGED <<joins, scan, wifiForm>>

(* Refused without a name, with the window shut or a program running, or   *)
(* because it could not be written.                                        *)
HandleWifiSave ==
  /\ wifiSave.at = "sent"
  /\ \/ /\ wifiSave.asks.ssid # NoSsid
        /\ joins' = wifiSave.asks /\ wifiSave' = [wifiSave EXCEPT !.at = "ok"]
     \/ wifiSave' = [wifiSave EXCEPT !.at = "failed"] /\ UNCHANGED joins
  /\ UNCHANGED <<scan, wifiForm>>

LoseWifiSave ==
  /\ wifiSave.at \in {"sent", "ok"}
  /\ wifiSave' = [wifiSave EXCEPT !.at = "failed"]
  /\ UNCHANGED <<joins, scan, wifiForm>>

(* The save is over when ['wifi'] was read again.                          *)
WifiSaveEnds ==
  \/ /\ wifiSave.at = "ok"
     /\ wifiForm' = IF ~ wifiSave.mine THEN wifiForm
                    ELSE [wifiForm EXCEPT !.confirming = FALSE, !.password = NoSecret]
     /\ wifiSave' = [wifiSave EXCEPT !.at = "reading"]
     /\ UNCHANGED <<joins, scan>>
  \/ /\ wifiSave.at = "reading" /\ wifiSave' = NoWifiSave
     /\ UNCHANGED <<joins, scan, wifiForm>>
  \/ /\ wifiSave.at = "failed" /\ wifiSave' = NoWifiSave
     /\ wifiForm' = IF ~ wifiSave.mine THEN wifiForm
                    ELSE [wifiForm EXCEPT !.confirming = FALSE]
     /\ UNCHANGED <<joins, scan>>

(* The window shut, and opened again: another form.                        *)
FormGoes ==
  /\ wifiForm' = EmptyWifiForm /\ wifiSave' = [wifiSave EXCEPT !.mine = FALSE]
  /\ UNCHANGED <<joins, scan>>

OthersMoveIt ==
  /\ \E ssid \in Ssids, password \in Secrets : joins' = Pair(ssid, password)
  /\ UNCHANGED <<scan, wifiForm, wifiSave>>

WifiFormNext ==
  \/ \E ssid \in Ssids \cup {NoSsid} : PickSsid(ssid) \/ TypeSsid(ssid)
  \/ \E password \in Secrets : TypePassword(password)
  \/ \E found \in SUBSET Ssids : Rescan(found)
  \/ AskToSave \/ CancelSave \/ ConfirmSave \/ HandleWifiSave \/ LoseWifiSave
  \/ WifiSaveEnds \/ FormGoes \/ OthersMoveIt

WifiFormSpec == WifiFormInit /\ [][WifiFormNext]_wifiFormVars

-----------------------------------------------------------------------------
(* While the question stands, or the save it was answered with is under    *)
(* way, the form shows the network and the password that are saved: what   *)
(* the acknowledgement clears is what it saved, and no password comes to   *)
(* be stored with a network that it was not on screen with                 *)
(* (WifiConfigSection.tsx:68-89).                                          *)
NetworkIsAsShown ==
  /\ wifiSave.mine /\ wifiSave.at \in {"sent", "ok", "failed"} =>
       /\ wifiForm.confirming
       /\ wifiSave.asks = Pair(Chosen(wifiForm), wifiForm.password)
  /\ wifiSave.at = "ok" => wifiSave.asks.ssid # NoSsid
=============================================================================
