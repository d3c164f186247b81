----------------------------- MODULE BrowserTabs -----------------------------
(***************************************************************************)
(* The token of the control lock in a browser: what its tabs hold of it    *)
(* (SettingsContext.tsx), the section that turns the lock on and off, logs *)
(* in and out (ControlLockSection.tsx, useControlLockStatus.ts), and every *)
(* answer that takes it away (api/client.ts).  Tabs share what is stored,  *)
(* and hear of each other's changes by and by.  The device's side of it is *)
(* ControlLock; here a token is good until something ends it.              *)
(***************************************************************************)
EXTENDS Naturals, Sequences, FiniteSets

CONSTANTS Tabs,
          MaxGiven     \* bound: tokens given out

VARIABLES lockIsOn,    \* the device
          good,        \* the tokens it accepts
          given,       \* the tokens it gave out: 1 .. given
          storage,     \* localStorage, 0 for no token
          token,       \* per tab: the one that it holds
          news,        \* per tab: storage events to come
          tabCalls,    \* requests on their way, one of a tab
          crossed,     \* a tab wrote while it had not heard of another's
          turnedDown   \* tokens that a tab was told are no good

browserVars == <<lockIsOn, good, given, storage, token, news, tabCalls,
                 crossed, turnedDown>>
lockVars == <<lockIsOn, good, given>>

BrowserTabsInit ==
  /\ lockIsOn = FALSE /\ good = {} /\ given = 0
  /\ storage = 0
  /\ token = [t \in Tabs |-> 0]
  /\ news = [t \in Tabs |-> <<>>] /\ tabCalls = {}
  /\ crossed = FALSE /\ turnedDown = {}

-----------------------------------------------------------------------------
(* setControlLockToken(), logoutControlLock(): stored, then the tab's own. *)
(* The others are told when it changed.                                    *)
TokenBecomes(t, new) ==
  /\ storage' = new
  /\ token' = [token EXCEPT ![t] = new]
  /\ news' = [u \in Tabs |-> IF u # t /\ storage # new THEN Append(news[u], new)
                             ELSE news[u]]
  /\ crossed' = IF news[t] # <<>> THEN TRUE
                ELSE crossed /\ (storage = new \/ \E u \in Tabs : news[u] # <<>>)

TokenStays == UNCHANGED <<storage, token, news, crossed>>

(* Slip: a token that was removed is passed over, as an empty address is.  *)
HeardTokenAlone(t) == IF Head(news[t]) = 0 THEN token[t] ELSE Head(news[t])

(* What handleStorageChange() takes.                                       *)
HeardToken(t) == Head(news[t])

HearStorage(t) ==
  /\ news[t] # <<>>
  /\ token' = [token EXCEPT ![t] = HeardToken(t)]
  /\ news' = [news EXCEPT ![t] = Tail(@)]
  /\ UNCHANGED <<lockVars, storage, tabCalls, crossed, turnedDown>>

CallOf(t, op) == [tab |-> t, op |-> op, bearer |-> token[t],
                  at |-> "sent", gave |-> 0]

(* The section offers by what the tab last saw of the lock, which may be   *)
(* old, and by whether it has a token.                                     *)
Offers(t, op) == /\ op = "login" => token[t] = 0
                 /\ op = "disable" => token[t] # 0

SendCall(t, op) ==
  /\ Offers(t, op) /\ \A c \in tabCalls : c.tab # t
  /\ tabCalls' = tabCalls \cup {CallOf(t, op)}
  /\ TokenStays /\ UNCHANGED <<lockVars, turnedDown>>

(* Log out, which the device is not told of.                               *)
PressLogout(t) ==
  /\ token[t] # 0
  /\ \A c \in tabCalls : c.tab = t => c.op = "act"
  /\ TokenBecomes(t, 0)
  /\ UNCHANGED <<lockVars, tabCalls, turnedDown>>

-----------------------------------------------------------------------------
(* The device.                                                             *)

(* The cookie goes with every request and carries the token given last,    *)
(* which may be one that is good.                                          *)
CookieMayCarry == good # {}
Denied(c) == lockIsOn /\ c.bearer \notin good
Allowed(c) == ~ Denied(c) \/ CookieMayCarry

Answers(c, at, gave) ==
  tabCalls' = (tabCalls \ {c}) \cup {[c EXCEPT !.at = at, !.gave = gave]}

DeviceAnswers(c) ==
  /\ c.at = "sent"
  /\ TokenStays /\ UNCHANGED turnedDown
  /\ \/ /\ c.op = (IF lockIsOn THEN "login" ELSE "enable") /\ given < MaxGiven
        /\ given' = given + 1 /\ good' = good \cup {given'} /\ lockIsOn' = TRUE
        /\ Answers(c, "ok", given')
     \/ /\ c.op \in {"enable", "login"}
        /\ Answers(c, "failed", 0) /\ UNCHANGED lockVars
     \/ /\ c.op = "disable" /\ Allowed(c)
        /\ lockIsOn' = FALSE /\ good' = {} /\ UNCHANGED given
        /\ Answers(c, "ok", 0)
     \/ /\ c.op = "act" /\ Allowed(c) /\ Answers(c, "ok", 0) /\ UNCHANGED lockVars
     \/ /\ c.op \in {"disable", "act"} /\ Denied(c)
        /\ Answers(c, "unauthorized", 0) /\ UNCHANGED lockVars

LoseCall(c) ==
  /\ c.at \in {"sent", "ok"} /\ Answers(c, "failed", 0)
  /\ TokenStays /\ UNCHANGED <<lockVars, turnedDown>>

(* A token expires, or is given up for another; somebody turns the lock    *)
(* off, or the device restarts.                                            *)
TokensEnd ==
  /\ \/ \E g \in good : good' = good \ {g} /\ UNCHANGED lockIsOn
     \/ lockIsOn /\ lockIsOn' = FALSE /\ good' = {}
  /\ TokenStays /\ UNCHANGED <<given, tabCalls, turnedDown>>

OthersEnable ==
  /\ ~ lockIsOn /\ lockIsOn' = TRUE
  /\ TokenStays /\ UNCHANGED <<good, given, tabCalls, turnedDown>>

-----------------------------------------------------------------------------
(* send(), and what the section makes of it.  A 401 takes away whatever    *)
(* the tab holds by then, when the request went out with a token.          *)
AnswerArrives(c) ==
  /\ c.at # "sent" /\ tabCalls' = tabCalls \ {c}
  /\ CASE c.gave # 0 -> TokenBecomes(c.tab, c.gave)
       [] c.at = "ok" /\ c.op = "disable" -> TokenBecomes(c.tab, 0)
       [] c.at = "unauthorized" /\ c.bearer # 0 -> TokenBecomes(c.tab, 0)
       [] OTHER -> TokenStays
  /\ turnedDown' = turnedDown \cup
       (IF c.at = "unauthorized" \/ (c.at = "ok" /\ c.op = "disable") THEN {c.bearer} \ {0} ELSE {})
  /\ UNCHANGED lockVars

BrowserTabsNext ==
  \/ \E t \in Tabs :
       \/ HearStorage(t) \/ PressLogout(t)
       \/ \E op \in {"enable", "login", "disable", "act"} : SendCall(t, op)
  \/ \E c \in tabCalls : DeviceAnswers(c) \/ LoseCall(c) \/ AnswerArrives(c)
  \/ TokensEnd \/ OthersEnable

BrowserTabsSpec == BrowserTabsInit /\ [][BrowserTabsNext]_browserVars

-----------------------------------------------------------------------------
(* With every change heard, the tabs of a browser hold the token that is   *)
(* stored, and none that one of them was told is no good - but where two   *)
(* changed it at once, which nothing sorts out before the next change      *)
(* (SettingsContext.tsx:131-164, client.ts:151-187).                       *)
TabsAgree ==
  (\A t \in Tabs : news[t] = <<>>) /\ ~ crossed =>
    \A t \in Tabs : token[t] = storage /\ storage \notin turnedDown
=============================================================================
