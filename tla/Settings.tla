------------------------------ MODULE Settings ------------------------------
(***************************************************************************)
(* What the device keeps of its settings (main/config/hardware_store.cpp,  *)
(* main/net/wifi_store.cpp, main/config/factory_reset.cpp) and what a boot *)
(* makes of it (app_main.cpp, main/io/targets.cpp): the hardware           *)
(* configuration and the WiFi credentials share one NVS namespace, are     *)
(* written key by key by the httpd task, the console and the button, and   *)
(* take effect at the next boot.                                           *)
(*                                                                         *)
(* Of the configuration the model has the pins of the target banks, one    *)
(* pin of a peripheral, the LED's, and where the targets rest at boot.     *)
(* Whether a request may change settings at all is up to BootButton.       *)
(***************************************************************************)
EXTENDS Integers, Sequences

CONSTANTS Pins,        \* the GPIOs validate_pin() accepts
          MaxBanks,    \* kMaxTargetBanks
          DefaultPin, DefaultLed, Seed,  \* compiled in
          Networks,    \* that people join, Seed not among them
          MaxCalls     \* bound: requests, commands and held buttons

ASSUME SettingsAssumption == /\ Pins \subseteq Nat \ {0}
                             /\ MaxBanks \in 1 .. 8
                             /\ DefaultPin \in Pins
                             /\ DefaultLed \in Pins \ {DefaultPin}
                             /\ Seed \notin Networks
                             /\ Networks \cup {Seed} \subseteq Nat \ {0}

VARIABLES nvs,       \* the keys of the namespace
          rests,     \* hardware_store::current(), latched: where they rest
          phase,     \* "boot" until executor::init(), then "up"
          facing,    \* the level of the target pins: shown, or hidden
          op,        \* what the httpd task writes
          writes,    \* the keys it has still to write
          asked,     \* the configuration it was asked for
          clean,     \* none of its writes has failed
          resetting, \* factory_reset::perform() and how far it is
          told,      \* the configuration as clients were told of it
          sure,      \* what of it was written, or all of it erased
          network,   \* the network clients were told of
          calls

nvsVars  == <<nvs, rests, phase, facing>>
opVars   == <<op, writes, asked, clean>>
toldVars == <<told, sure, network>>
vars     == <<nvsVars, opVars, resetting, toldVars, calls>>

Absent == -1

(* BankKey: one digit to a bank.                                           *)
GpioKey(i) ==
  <<"gpio0", "gpio1", "gpio2", "gpio3", "gpio4", "gpio5", "gpio6", "gpio7">>[i]

HwKeys   == {"count", "led", "shown"} \cup {GpioKey(i) : i \in 1 .. MaxBanks}
WifiKeys == {"ssid", "pass", "noseeds"}
Keys     == HwKeys \cup WifiKeys

BankLists == UNION {[1 .. n -> Pins \cup {0}] : n \in 1 .. MaxBanks}

Configs == [banks : BankLists, led : Pins, shown : BOOLEAN]

(* What a client knows of the networks: nothing for sure, that they were   *)
(* forgotten, that there are only the compiled-in ones, or the one saved.  *)
Unsure    == -2
Forgotten == -1
Seeds     == 0

(* The type invariant.                                                     *)
TypeOK ==
  /\ DOMAIN nvs = Keys
  /\ rests \in BOOLEAN
  /\ phase \in {"boot", "up"}
  /\ facing \in BOOLEAN
  /\ op \in {"none", "hardware", "reset", "wifi"}
  /\ \A k \in DOMAIN writes : writes[k][1] \in Keys
  /\ op = "none" => writes = <<>>
  /\ asked \in Configs
  /\ clean \in BOOLEAN
  /\ resetting \in {"no", "begun", "erased", "forgot"}
  /\ told \in Configs
  /\ sure \subseteq {"pins", "rest"}
  /\ network \in {Unsure, Forgotten, Seeds, Seed} \cup Networks

-----------------------------------------------------------------------------
(* hardware_store                                                          *)

Defaults == [banks |-> <<DefaultPin>>, led |-> DefaultLed, shown |-> TRUE]

(* rt::validate(): every pin one that may be driven, and none twice.       *)
Valid(c) == /\ Len(c.banks) \in 1 .. MaxBanks
            /\ c.led \in Pins
            /\ \A i \in DOMAIN c.banks : c.banks[i] \in Pins \ {c.led}
            /\ \A i, j \in DOMAIN c.banks :
                 i # j => c.banks[i] # c.banks[j]

Stored(key, otherwise) == IF nvs[key] = Absent THEN otherwise ELSE nvs[key]

(* rt::overlay_config(): bank A is there without a key, the others are not.*)
Overlay ==
  [banks |-> IF nvs["count"] \in 1 .. MaxBanks
             THEN [i \in 1 .. nvs["count"] |->
                     Stored(GpioKey(i), IF i = 1 THEN DefaultPin ELSE 0)]
             ELSE Defaults.banks,
   led   |-> Stored("led", DefaultLed),
   shown |-> Stored("shown", 1) = 1]

(* hardware_store::saved(), and what init() latches.                       *)
Saved == IF Valid(Overlay) THEN Overlay ELSE Defaults

BankWrites(c) == [i \in 1 .. MaxBanks |->
                    <<GpioKey(i), IF i <= Len(c.banks) THEN c.banks[i]
                                  ELSE Absent>>]

(* Slip: where the targets rest is written with the rest of a request.     *)
SaveWritesAll(c) ==
  <<<<"count", Len(c.banks)>>>> \o BankWrites(c) \o <<<<"led", c.led>>>>
    \o <<<<"shown", IF c.shown THEN 1 ELSE 0>>>>

SaveWrites(c) ==
  <<<<"count", Len(c.banks)>>>> \o BankWrites(c) \o <<<<"led", c.led>>>>

(* Slip: a hardware reset clears the namespace.                            *)
ResetWritesAll ==
  <<<<"count", Absent>>, <<"shown", Absent>>, <<"led", Absent>>,
    <<"ssid", Absent>>, <<"noseeds", Absent>>>>
    \o BankWrites([banks |-> <<>>])

ResetWrites ==
  <<<<"count", Absent>>, <<"shown", Absent>>, <<"led", Absent>>>>
    \o BankWrites([banks |-> <<>>])

-----------------------------------------------------------------------------
(* wifi_store                                                              *)

Own == IF nvs["ssid"] = Absent THEN <<>>
       ELSE <<[ssid |-> nvs["ssid"], pass |-> Stored("pass", 0)]>>

(* load_all(): the networks a boot tries, each name once.                  *)
Tries == IF nvs["noseeds"] = 1 \/ nvs["ssid"] = Seed THEN Own
         ELSE Append(Own, [ssid |-> Seed, pass |-> Seed])

(* A network's number is its password, too.                                *)
WifiWrites(n) == <<<<"noseeds", Absent>>, <<"ssid", n>>, <<"pass", n>>>>

-----------------------------------------------------------------------------
Init == /\ nvs = [k \in Keys |-> Absent]
        /\ rests = TRUE
        /\ phase = "up"
        /\ facing = TRUE
        /\ op = "none"
        /\ writes = <<>>
        /\ asked = Defaults
        /\ clean = TRUE
        /\ resetting = "no"
        /\ told = Defaults
        /\ sure = {"pins", "rest"}
        /\ network = Seeds
        /\ calls = 0

Called == calls < MaxCalls /\ calls' = calls + 1

(* A request begins to write.  What clients know is in doubt until it ends.*)
Begin(what, keys, config) == /\ op = "none"
                             /\ phase = "up"
                             /\ op' = what
                             /\ writes' = keys
                             /\ asked' = config
                             /\ clean' = TRUE
                             /\ Called
                             /\ UNCHANGED <<nvsVars, resetting, told>>

(* PUT /config/hardware: what it does not name stays as it is stored.  A   *)
(* client that was told of the configuration expects as much.              *)
PutHardware ==
  \E config \in Configs :
    /\ Valid(config)
    /\ config.shown = Saved.shown
    /\ Begin("hardware", SaveWrites(config), config)
    /\ sure' = sure \ {"pins"}
    /\ UNCHANGED network

(* POST /config/hardware/reset                                             *)
ResetHardware == /\ Begin("reset", ResetWrites, Defaults)
                 /\ sure' = {}
                 /\ UNCHANGED network

(* PUT /wifi, or /save of the setup portal                                 *)
PutWifi == \E n \in Networks \cup {Seed} :
             /\ Begin("wifi", WifiWrites(n), Defaults)
             /\ network' = Unsure
             /\ UNCHANGED sure

(* nvs_open() fails: nothing is written, and a PUT of the hardware is      *)
(* answered as if all had been.                                            *)
OpenFails == /\ op = "none"
             /\ phase = "up"
             /\ Called
             /\ sure' = {}
             /\ UNCHANGED <<nvsVars, opVars, resetting, told, network>>

Ended == /\ op' = "none"
         /\ writes' = <<>>
         /\ asked' = Defaults
         /\ clean' = TRUE

(* The request has written its last key, and is answered.  One that met a  *)
(* factory reset proves nothing.                                           *)
Answered ==
  /\ Ended
  /\ IF op = "wifi"
     THEN /\ network' = IF resetting = "no" THEN nvs'["ssid"] ELSE Unsure
          /\ UNCHANGED <<told, sure>>
     ELSE /\ told' = IF op = "reset" THEN Defaults
                     ELSE [asked EXCEPT !.shown = told.shown]
          /\ sure' = IF ~clean \/ resetting # "no" THEN sure
                     ELSE IF op = "reset" THEN {"pins", "rest"}
                     ELSE sure \cup {"pins"}
          /\ UNCHANGED network

WriteKey ==
  /\ op # "none"
  /\ nvs' = [nvs EXCEPT ![Head(writes)[1]] = Head(writes)[2]]
  /\ IF Len(writes) = 1 THEN Answered
     ELSE writes' = Tail(writes) /\ UNCHANGED <<op, asked, clean, toldVars>>
  /\ UNCHANGED <<rests, phase, facing, resetting, calls>>

(* A save of the hardware goes on with the next key, as that of the        *)
(* credentials does after the first; the others give up.                   *)
WriteFails ==
  /\ op # "none"
  /\ IF /\ op = "hardware" \/ (op = "wifi" /\ Head(writes)[1] = "noseeds")
        /\ Len(writes) > 1
     THEN /\ writes' = Tail(writes)
          /\ clean' = FALSE
          /\ UNCHANGED <<op, asked>>
     ELSE Ended
  /\ UNCHANGED <<nvsVars, resetting, toldVars, calls>>

-----------------------------------------------------------------------------
(* The console's boot-targets, while the httpd task is wherever it is: in  *)
(* the middle of a reset, which erases the same key, nobody knows.         *)
BootTargets(shown) ==
  /\ phase = "up"
  /\ Called
  /\ nvs' = [nvs EXCEPT !["shown"] = IF shown THEN 1 ELSE 0]
  /\ told' = [told EXCEPT !.shown = shown]
  /\ clean' = (clean /\ op # "reset")
  /\ sure' = IF op = "reset" THEN sure ELSE sure \cup {"rest"}
  /\ UNCHANGED <<rests, phase, facing, op, writes, asked, resetting, network>>

(* factory_reset::perform(), on the button's task or the console's: erase, *)
(* forget, restart.                                                        *)
FactoryReset == /\ resetting = "no"
                /\ Called
                /\ resetting' = "begun"
                /\ network' = Unsure
                /\ sure' = {}
                /\ UNCHANGED <<nvsVars, opVars, told>>

(* The handle of a request that is writing goes with it.                   *)
Erase == /\ resetting = "begun"
         /\ resetting' = "erased"
         /\ nvs' = [k \in Keys |-> Absent]
         /\ Ended
         /\ told' = Defaults
         /\ sure' = {"pins", "rest"}
         /\ UNCHANGED <<rests, phase, facing, network, calls>>

EraseFails == /\ resetting = "begun"
              /\ resetting' = "erased"
              /\ UNCHANGED <<nvsVars, opVars, toldVars, calls>>

(* wifi_store::forget()                                                    *)
Forget(ok) ==
  /\ resetting = "erased"
  /\ resetting' = "forgot"
  /\ nvs' = [nvs EXCEPT !["ssid"] = Absent, !["pass"] = Absent,
                        !["noseeds"] = IF ok THEN 1 ELSE @]
  /\ network' = IF ok /\ op # "wifi" THEN Forgotten ELSE Unsure
  /\ UNCHANGED <<rests, phase, facing, opVars, told, sure, calls>>

-----------------------------------------------------------------------------
(* The boot: hardware_store::init() latches what is stored, targets::init()*)
(* drives the pins.                                                        *)
Boot == /\ rests' = Saved.shown
        /\ facing' = Saved.shown
        /\ phase' = "boot"
        /\ Ended
        /\ resetting' = "no"
        /\ UNCHANGED <<nvs, toldVars, calls>>

(* executor::init(kTargetsShownAtBoot): the compiled value, which sets the *)
(* pins once more.                                                         *)
ExecutorInit == /\ phase = "boot"
                /\ facing' = Defaults.shown
                /\ phase' = "up"
                /\ UNCHANGED <<nvs, rests, opVars, resetting, toldVars, calls>>

(* POST /restart, and the end of a factory reset.                          *)
Restart == /\ IF resetting = "no" THEN op = "none" /\ phase = "up"
              ELSE resetting = "forgot"
           /\ Boot

PowerCut == Boot

Next == \/ PutHardware \/ ResetHardware \/ PutWifi \/ OpenFails
        \/ WriteKey \/ WriteFails
        \/ \E shown \in BOOLEAN : BootTargets(shown)
        \/ FactoryReset \/ Erase \/ EraseFails
        \/ \E ok \in BOOLEAN : Forget(ok)
        \/ ExecutorInit \/ Restart \/ PowerCut

Spec == Init /\ [][Next]_vars

-----------------------------------------------------------------------------
(* The hardware configuration.                                             *)
HardwareIsAsTold ==
  "pins" \in sure =>
    /\ Saved.banks = told.banks
    /\ Saved.led = told.led
    /\ "rest" \in sure => Saved.shown = told.shown

(* The network that is tried first, and that none is.                      *)
NetworkIsAsTold ==
  /\ network = Seeds => Tries = <<[ssid |-> Seed, pass |-> Seed]>>
  /\ network = Forgotten => Tries = <<>>
  /\ \A n \in Networks \cup {Seed} :
       network = n =>
         Tries # <<>> /\ Tries[1] = [ssid |-> n, pass |-> n]

(* Once a change of the hardware is answered and nothing failed while it   *)
(* was written, it is what the next boot adopts, and the device goes on    *)
(* trying the network it was last told of first, or none after it was told *)
(* to forget them: a later change of something else in the same namespace, *)
(* at the console, over HTTP or by the button, before or after a restart,  *)
(* interrupted or not, leaves it alone (hardware_store.cpp:221-318,        *)
(* wifi_store.cpp:57-118).                                                 *)
SettingsAreAsTold == HardwareIsAsTold /\ NetworkIsAsTold

(* What boot-targets answers, "targets will rest hidden at boot"           *)
(* (console.cpp:201), once the boot is over.                               *)
TargetsRestAsStored == phase = "up" => facing = rests

=============================================================================
