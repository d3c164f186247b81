---------------------------- MODULE ControlLock ----------------------------
(***************************************************************************)
(* The control lock (rt_logic/control_lock.h and its routes in             *)
(* main/net/web_server.cpp): off until a client turns it on with a         *)
(* password, and while it is on a request that changes anything must carry *)
(* the token of a session.  The browsers that use it keep a token twice:   *)
(* the page in its storage, sent as a bearer, and the browser as a cookie. *)
(***************************************************************************)
EXTENDS Integers, Sequences

CONSTANTS Browsers,
          MaxTokens,  \* sessions held at once
          Ttl,        \* ticks of the clock a session lasts
          MaxIssued,  \* bound: sessions opened
          MaxNow      \* bound: ticks of the clock

ASSUME LockAssumption == /\ MaxTokens \in Nat \ {0}
                         /\ Ttl \in Nat \ {0}
                         /\ MaxIssued \in Nat
                         /\ MaxNow \in Nat

VARIABLES on,       \* has_password_
          era,      \* which password it is
          tokens,   \* tokens_, the oldest first
          issued,   \* sessions so far: 16 random bytes, never twice the same
          now,
          stored,   \* per browser: the token the page has, or 0
          cookie,   \* per browser: the control_lock cookie, or 0
          pageOut   \* the browsers whose user has logged out on the page

deviceVars  == <<on, era, tokens, issued>>
browserVars == <<stored, cookie, pageOut>>
vars        == <<deviceVars, now, browserVars>>

NoToken == 0

Token == [value : Nat \ {0}, issued : Nat, era : Nat]

(* The type invariant.                                                     *)
TypeOK == /\ on \in BOOLEAN
          /\ era \in Nat
          /\ tokens \in Seq(Token)
          /\ issued \in Nat
          /\ now \in Nat
          /\ stored \in [Browsers -> Nat]
          /\ cookie \in [Browsers -> Nat]
          /\ pageOut \subseteq Browsers

Init == /\ on = FALSE
        /\ era = 0
        /\ tokens = <<>>
        /\ issued = 0
        /\ now = 0
        /\ stored = [b \in Browsers |-> NoToken]
        /\ cookie = [b \in Browsers |-> NoToken]
        /\ pageOut = {}

-----------------------------------------------------------------------------
(* rt::ControlLock                                                         *)

Held == {tokens[k] : k \in DOMAIN tokens}

(* Expired tokens stay in the table; is_valid_token() passes them over.    *)
Valid(v) == \E t \in Held : t.value = v /\ now - t.issued < Ttl

(* The bearer if it is valid, or else the cookie.                          *)
Authorized(b) == on => Valid(stored[b]) \/ Valid(cookie[b])

Fresh(e) == [value |-> issued + 1, issued |-> now, era |-> e]

(* Slip: a full table gives up the session that logged in last.            *)
IssuedOverTheNewest(e) ==
  IF Len(tokens) >= MaxTokens
  THEN Append(SubSeq(tokens, 1, Len(tokens) - 1), Fresh(e))
  ELSE Append(tokens, Fresh(e))

(* issue_token()                                                           *)
Issued(e) == IF Len(tokens) >= MaxTokens THEN Append(Tail(tokens), Fresh(e))
             ELSE Append(tokens, Fresh(e))

(* The first token with that value taken out of the table.                 *)
Without(v) ==
  IF \E k \in DOMAIN tokens : tokens[k].value = v
  THEN LET at == CHOOSE k \in DOMAIN tokens :
                   /\ tokens[k].value = v
                   /\ \A j \in 1 .. k - 1 : tokens[j].value # v
       IN [k \in 1 .. Len(tokens) - 1 |->
             IF k < at THEN tokens[k] ELSE tokens[k + 1]]
  ELSE tokens

-----------------------------------------------------------------------------
(* The routes, each with what the browser makes of the answer.  An answer  *)
(* may get lost: the session is open and nobody has its token.             *)

(* A 401 takes the token from the page, and the cookie stays.              *)
PageLosesToken(b) == /\ stored' = [stored EXCEPT ![b] = NoToken]
                     /\ UNCHANGED <<cookie, pageOut>>

SessionReaches(b, heard) ==
  IF heard
  THEN /\ stored' = [stored EXCEPT ![b] = issued + 1]
       /\ cookie' = [cookie EXCEPT ![b] = issued + 1]
       /\ pageOut' = pageOut \ {b}
  ELSE UNCHANGED browserVars

Enable(b, heard) == /\ ~on
                    /\ issued < MaxIssued
                    /\ on' = TRUE
                    /\ era' = era + 1
                    /\ tokens' = Issued(era + 1)
                    /\ issued' = issued + 1
                    /\ SessionReaches(b, heard)
                    /\ UNCHANGED now

Login(b, heard) == /\ on
                   /\ issued < MaxIssued
                   /\ tokens' = Issued(era)
                   /\ issued' = issued + 1
                   /\ SessionReaches(b, heard)
                   /\ UNCHANGED <<on, era, now>>

WrongPassword(b) == on /\ PageLosesToken(b) /\ UNCHANGED <<deviceVars, now>>

(* Slip: the password goes and the sessions stay.                          *)
DisableKeepsSessions(b) ==
  /\ Authorized(b)
  /\ on' = FALSE
  /\ PageLosesToken(b)
  /\ UNCHANGED <<era, tokens, issued, now>>

Disable(b) == /\ Authorized(b)
              /\ on' = FALSE
              /\ tokens' = <<>>
              /\ PageLosesToken(b)
              /\ UNCHANGED <<era, issued, now>>

(* Any other request that would change something, and is not allowed to.   *)
Rejected(b) == /\ ~Authorized(b)
               /\ PageLosesToken(b)
               /\ UNCHANGED <<deviceVars, now>>

(* POST /control-lock/logout: the bearer, or without one the cookie.       *)
Presented(b) == IF stored[b] # NoToken THEN stored[b] ELSE cookie[b]

Logout(b) == /\ tokens' = Without(Presented(b))
             /\ cookie' = [cookie EXCEPT ![b] = NoToken]
             /\ stored' = [stored EXCEPT ![b] = NoToken]
             /\ pageOut' = pageOut \cup {b}
             /\ UNCHANGED <<on, era, issued, now>>

(* The Log out button of the page (useControlLockStatus.ts): it forgets    *)
(* the token and sends nothing.                                            *)
PageLogout(b) == /\ stored[b] # NoToken
                 /\ stored' = [stored EXCEPT ![b] = NoToken]
                 /\ pageOut' = pageOut \cup {b}
                 /\ UNCHANGED <<deviceVars, now, cookie>>

Tick == /\ now < MaxNow
        /\ now' = now + 1
        /\ UNCHANGED <<deviceVars, browserVars>>

(* Nothing of the lock is stored.                                          *)
Restart == /\ on' = FALSE
           /\ tokens' = <<>>
           /\ UNCHANGED <<era, issued, now, browserVars>>

Next == \/ \E b \in Browsers, heard \in BOOLEAN :
             Enable(b, heard) \/ Login(b, heard)
        \/ \E b \in Browsers : \/ WrongPassword(b) \/ Disable(b)
                               \/ Rejected(b) \/ Logout(b) \/ PageLogout(b)
        \/ Tick \/ Restart

Spec == Init /\ [][Next]_vars

-----------------------------------------------------------------------------
Live == {t \in Held : now - t.issued < Ttl}

(* Tokens stand in the order they were issued in, so that the one a full   *)
(* table gives up is the one that expires first, and an expired one before *)
(* any that is in use; none stands there twice, none is of an earlier      *)
(* password, and there are no more than the code has room for              *)
(* (control_lock.h:83-99, 142-156).                                        *)
SessionsInOrder ==
  /\ Len(tokens) <= MaxTokens
  /\ \A j, k \in DOMAIN tokens :
       j < k => /\ tokens[j].value < tokens[k].value
                /\ tokens[j].issued <= tokens[k].issued
  /\ ~on => tokens = <<>>
  /\ \A t \in Held : t.era = era /\ t.value <= issued

EndsForAReason(t) ==
  \/ now - t.issued = Ttl - 1 /\ now' = now + 1
  \/ ~on'
  \/ \E b \in Browsers : Presented(b) = t.value /\ Logout(b)
  \/ /\ Len(tokens') = MaxTokens
     /\ \A u \in Held' : u \in Live' /\ u.value > t.value

NoSessionCutShort == \A t \in Live : t \notin Live' => EndsForAReason(t)

(* A client is shut out in the middle of its session only for a reason:    *)
(* its own logout, its age, the lock turned off or the device restarted,   *)
(* or MaxTokens sessions opened after it that have all not expired - which *)
(* logins and logouts of others, wrong passwords and expired sessions that *)
(* still take up room must not add up to (control_lock.h:26-34).           *)
SessionEndsForAReason == [][NoSessionCutShort]_vars

=============================================================================
