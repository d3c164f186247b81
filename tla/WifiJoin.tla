------------------------------ MODULE WifiJoin ------------------------------
(***************************************************************************)
(* Joining a network, and coming back to it (main/net/wifi_mgr.cpp), up to *)
(* the setup portal that a device without one raises                       *)
(* (main/net/setup_portal.cpp).  connect() runs on the main task and waits *)
(* for a bit that on_event() sets on the event task, from what the driver  *)
(* reports; once the device has had an address, on_event() and a timer are *)
(* all that ever connect it again.  The handler stays registered when      *)
(* connect() gives up, so that the portal's own station interface reaches  *)
(* it, too.                                                                *)
(*                                                                         *)
(* The driver is external: it reports the end of every attempt it started, *)
(* and a link that is lost.  A link may stay without an address for ever:  *)
(* nothing in the code ends it.                                            *)
(***************************************************************************)
EXTENDS Integers, Sequences

CONSTANTS MaxNetworks,  \* bound: the length of load_all()
          Retries,      \* wifi_max_retries
          FirstBackoff, BackoffCap  \* in units of the first

ASSUME WifiJoinAssumption == /\ MaxNetworks \in Nat
                             /\ Retries \in Nat
                             /\ FirstBackoff \in Nat \ {0}
                             /\ BackoffCap \in Nat
                             /\ BackoffCap >= FirstBackoff

VARIABLES known,      \* how many networks load_all() returned
          at,         \* the one connect() is at, 0 before the first
          pc,         \* what connect() does next
          result,     \* what it returned, and whether the portal is up
          retries, answered, joinedOnce,  \* s_retries and so on
          bits,       \* of s_events
          backoff, timer,   \* s_backoff_ms; the reconnect timer is armed
          config,     \* the network of the driver's station, 0 if none
          radio,      \* what the driver does
          events,     \* what the event task has still to handle
          tries,      \* attempts at this network that ended without a link,
                      \* as long as there was no address
          heard       \* whether its access point answered one of them

taskVars   == <<known, at, pc, result>>
stateVars  == <<retries, answered, joinedOnce, bits, backoff, timer>>
driverVars == <<config, radio, events>>
joinVars       == <<taskVars, stateVars, driverVars, tries, heard>>

StaStart == "sta start"
GotIp == "got ip"
Lost  == "disconnected"
LostAnswered == "disconnected answered"

(* The type invariant.                                                     *)
JoinTypeOK == /\ known \in 0 .. MaxNetworks
          /\ at \in 0 .. known
          /\ pc \in {"next", "go", "wait", "done"}
          /\ result \in {"none", "connected", "portal", "portal up"}
          /\ retries \in 0 .. 3 * Retries
          /\ answered \in BOOLEAN
          /\ joinedOnce \in BOOLEAN
          /\ bits \subseteq {"connected", "failed"}
          /\ backoff \in FirstBackoff .. BackoffCap
          /\ timer \in BOOLEAN
          /\ config \in 0 .. known
          /\ radio \in {"off", "idle", "trying", "linked", "online"}
          /\ events \in Seq({StaStart, GotIp, Lost, LostAnswered})
          /\ tries \in 0 .. 3 * Retries + 1
          /\ heard \in BOOLEAN

-----------------------------------------------------------------------------
JoinInit == /\ known \in 0 .. MaxNetworks
        /\ at = 0
        /\ pc = "next"
        /\ result = "none"
        /\ retries = 0
        /\ answered = FALSE
        /\ joinedOnce = FALSE
        /\ bits = {}
        /\ backoff = FirstBackoff
        /\ timer = FALSE
        /\ config = 0
        /\ radio = "off"
        /\ events = <<>>
        /\ tries = 0
        /\ heard = FALSE

(* esp_wifi_connect(): refused without a network, without an effect in the *)
(* middle of an attempt or with a link.                                    *)
Connect == radio' = IF radio = "idle" /\ config # 0 THEN "trying" ELSE radio

(* As far as attempts are counted: one more than there should ever be.     *)
MaxTries == 3 * Retries + 2

Budget(larger) == IF larger THEN 3 * Retries ELSE Retries

-----------------------------------------------------------------------------
(* connect(), on the main task.                                            *)

(* Slip: the retries of the network before count.                          *)
PrepareKeepsTheCount == /\ pc = "next"
                        /\ at < known
                        /\ at' = at + 1
                        /\ config' = at + 1
                        /\ answered' = FALSE
                        /\ bits' = {}
                        /\ tries' = 0
                        /\ heard' = FALSE
                        /\ pc' = "go"
                        /\ UNCHANGED <<known, result, retries, joinedOnce,
                                       backoff, timer, radio, events>>

(* The next network, with a budget of its own.                             *)
Prepare == /\ pc = "next"
           /\ at < known
           /\ at' = at + 1
           /\ config' = at + 1
           /\ retries' = 0
           /\ answered' = FALSE
           /\ bits' = {}
           /\ tries' = 0
           /\ heard' = FALSE
           /\ pc' = "go"
           /\ UNCHANGED <<known, result, joinedOnce, backoff, timer, radio,
                          events>>

(* The radio is started once; the driver's answer to that connects.        *)
Go == /\ pc = "go"
      /\ pc' = "wait"
      /\ IF radio = "off"
         THEN radio' = "idle" /\ events' = Append(events, StaStart)
         ELSE Connect /\ UNCHANGED events
      /\ UNCHANGED <<known, at, result, stateVars, config, tries, heard>>

(* xEventGroupWaitBits(), without a timeout.                               *)
Woken == /\ pc = "wait"
         /\ bits # {}
         /\ IF "connected" \in bits
            THEN pc' = "done" /\ result' = "connected"
            ELSE pc' = "next" /\ UNCHANGED result
         /\ UNCHANGED <<known, at, stateVars, driverVars, tries, heard>>

(* No network is known, or none could be joined: esp_wifi_stop().          *)
GiveUp == /\ pc = "next"
          /\ at = known
          /\ pc' = "done"
          /\ result' = "portal"
          /\ radio' = "off"
          /\ UNCHANGED <<known, at, stateVars, config, events, tries, heard>>

-----------------------------------------------------------------------------
(* on_event(), on the event task, and the timer.  It is registered only    *)
(* when there was a network to join.                                       *)
Handled(event) == /\ events # <<>>
                  /\ Head(events) = event
                  /\ events' = Tail(events)

OnStart == /\ Handled(StaStart)
           /\ IF known > 0 THEN Connect ELSE UNCHANGED radio
           /\ UNCHANGED <<taskVars, stateVars, config, tries, heard>>

(* A link that is lost after there has been an address.                    *)
Reconnect == IF timer
             THEN Connect /\ UNCHANGED <<backoff, timer>>
             ELSE /\ timer' = TRUE
                  /\ backoff' = IF 2 * backoff < BackoffCap THEN 2 * backoff
                                ELSE BackoffCap
                  /\ UNCHANGED radio

(* The first join: again, or this network has had its attempts.            *)
RetryOrFail(reason) ==
  /\ answered' = (answered \/ reason = LostAnswered)
  /\ IF retries < Budget(answered')
     THEN retries' = retries + 1 /\ Connect /\ UNCHANGED bits
     ELSE bits' = bits \cup {"failed"} /\ UNCHANGED <<retries, radio>>

(* Slip: the budget bounds every reconnection.                             *)
OnDisconnectedGivesUp ==
  \E reason \in {Lost, LostAnswered} :
    /\ Handled(reason)
    /\ RetryOrFail(reason)
    /\ UNCHANGED <<taskVars, joinedOnce, backoff, timer, config, tries, heard>>

(* Slip: an access point that answers has all its attempts before it.      *)
OnDisconnectedStartsOver ==
  \E reason \in {Lost, LostAnswered} :
    /\ Handled(reason)
    /\ IF joinedOnce
       THEN Reconnect /\ UNCHANGED <<retries, answered, bits>>
       ELSE /\ IF reason = LostAnswered
               THEN retries' = 0 /\ Connect /\ UNCHANGED <<answered, bits>>
               ELSE RetryOrFail(reason)
            /\ UNCHANGED <<backoff, timer>>
    /\ UNCHANGED <<taskVars, joinedOnce, config, tries, heard>>

OnDisconnected ==
  \E reason \in {Lost, LostAnswered} :
    /\ Handled(reason)
    /\ IF joinedOnce
       THEN Reconnect /\ UNCHANGED <<retries, answered, bits>>
       ELSE RetryOrFail(reason) /\ UNCHANGED <<backoff, timer>>
    /\ UNCHANGED <<taskVars, joinedOnce, config, tries, heard>>

OnGotIp == /\ Handled(GotIp)
           /\ retries' = 0
           /\ joinedOnce' = TRUE
           /\ backoff' = FirstBackoff
           /\ bits' = bits \cup {"connected"}
           /\ tries' = 0
           /\ heard' = FALSE
           /\ UNCHANGED <<taskVars, answered, timer, config, radio>>

OnReconnectTimer == /\ timer
                    /\ timer' = FALSE
                    /\ Connect
                    /\ UNCHANGED <<taskVars, retries, answered, joinedOnce, bits,
                                   backoff, config, events, tries, heard>>

-----------------------------------------------------------------------------
(* The driver, and what is on the air.                                     *)

Reports(reason) == /\ radio' = "idle"
                   /\ events' = Append(events, reason)
                   /\ IF joinedOnce \/ GotIp \in {events[i] : i \in DOMAIN events}
                      THEN UNCHANGED <<tries, heard>>
                      ELSE /\ tries' = IF tries < MaxTries THEN tries + 1 ELSE tries
                           /\ heard' = (heard \/ reason = LostAnswered)
                   /\ UNCHANGED <<taskVars, stateVars, config>>

AttemptFails == /\ radio = "trying"
                /\ \E reason \in {Lost, LostAnswered} : Reports(reason)

LinkLost == /\ radio \in {"linked", "online"}
            /\ \E reason \in {Lost, LostAnswered} : Reports(reason)

Associates == /\ radio = "trying"
              /\ radio' = "linked"
              /\ UNCHANGED <<taskVars, stateVars, config, events, tries, heard>>

Leased == /\ radio = "linked"
          /\ radio' = "online"
          /\ events' = Append(events, GotIp)
          /\ UNCHANGED <<taskVars, stateVars, config, tries, heard>>

-----------------------------------------------------------------------------
(* Slip: the portal's station keeps the network the driver was given last. *)
StartApKeepsTheNetwork ==
  /\ result = "portal"
  /\ result' = "portal up"
  /\ radio' = "idle"
  /\ events' = Append(events, StaStart)
  /\ UNCHANGED <<known, at, pc, stateVars, config, tries, heard>>

(* setup_portal::start_ap(): with a station, which can scan, and without a *)
(* network for it.                                                         *)
StartAp == /\ result = "portal"
           /\ result' = "portal up"
           /\ config' = 0
           /\ radio' = "idle"
           /\ events' = Append(events, StaStart)
           /\ UNCHANGED <<known, at, pc, stateVars, tries, heard>>

(* Nothing of before is left, and what is kept may be another list of      *)
(* networks.                                                               *)
JoinAnew == /\ known' \in 0 .. MaxNetworks
            /\ at' = 0
            /\ pc' = "next"
            /\ result' = "none"
            /\ retries' = 0
            /\ answered' = FALSE
            /\ joinedOnce' = FALSE
            /\ bits' = {}
            /\ backoff' = FirstBackoff
            /\ timer' = FALSE
            /\ config' = 0
            /\ radio' = "off"
            /\ events' = <<>>
            /\ tries' = 0
            /\ heard' = FALSE

(* The main task in connect(), the event task, the timer and the driver.   *)
Joins == \/ Prepare \/ Go \/ Woken \/ GiveUp
         \/ OnStart \/ OnDisconnected \/ OnGotIp \/ OnReconnectTimer
         \/ AttemptFails \/ LinkLost \/ Associates \/ Leased

(* The tasks run, and the driver ends an attempt one way or the other.     *)
JoinFairness == /\ WF_joinVars(Prepare \/ Go \/ Woken \/ GiveUp)
                /\ WF_joinVars(OnStart \/ OnDisconnected \/ OnGotIp)
                /\ WF_joinVars(OnReconnectTimer)
                /\ WF_joinVars(AttemptFails \/ Associates)

(* A network that is there in the end, when it is tried for ever.          *)
NetworkThere == SF_joinVars(Associates) /\ SF_joinVars(Leased)

-----------------------------------------------------------------------------
(* A network is given up only after its whole budget: the first attempt    *)
(* and wifi_max_retries more, three times as many if its access point ever *)
(* answered, whatever the networks before it used up                       *)
(* (wifi_mgr.cpp:102-120, "Each configured network gets the full retry     *)
(* budget in turn", 222).                                                  *)
FullBudgetEach == "failed" \in bits => tries = Budget(heard) + 1

(* A device that serves its setup portal never rejoins a network on the    *)
(* side, though the handler that connects is still registered and hears    *)
(* the portal's station start (setup_portal.cpp:368-374).                  *)
PortalStaysAlone ==
  result \in {"portal", "portal up"} => radio \notin {"trying", "linked", "online"}

(* Once it has had an address a device never stops coming back to the      *)
(* network, if the network is there: giving up would leave it unreachable  *)
(* until someone walks to it (wifi_mgr.cpp:35-38, 88-100).                 *)
ComesBack == NetworkThere => (joinedOnce ~> (radio = "online" \/ ~joinedOnce))

=============================================================================
