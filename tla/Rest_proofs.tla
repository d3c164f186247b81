----------------------------- MODULE Rest_proofs -----------------------------
(***************************************************************************)
(* What holds of the layers a request goes through, for any values of      *)
(* their constants, checked by TLAPS: of the control lock's sessions       *)
(* (ControlLock), of the connections of the HTTP library (HttpServer), of  *)
(* the routes and what they leave alone (Rest), and of the multipart       *)
(* parser, for bodies of any number of parts (Multipart).                  *)
(***************************************************************************)
EXTENDS MCRest, SequenceTheorems, FiniteSetTheorems, WellFoundedInduction, TLAPS

(***************************************************************************)
(* The control lock, for any table, lifetime and browsers.  That tokens    *)
(* stand in the order they were issued in is inductive once none of them   *)
(* is from the future.                                                     *)
(***************************************************************************)
Issuable == \A k \in DOMAIN tokens : tokens[k].issued <= now

LockOK == TypeOK /\ SessionsInOrder /\ Issuable

(* SessionsInOrder, of any table: what each operation has to show.         *)
Ordered(s) == \A j, k \in DOMAIN s :
                j < k => /\ s[j].value < s[k].value
                         /\ s[j].issued <= s[k].issued

Current(s, e, i, t) == \A k \in DOMAIN s : /\ s[k].era = e
                                           /\ s[k].value <= i
                                           /\ s[k].issued <= t

LEMMA LockOKParts ==
  LockOK <=> /\ TypeOK
             /\ Len(tokens) <= MaxTokens
             /\ Ordered(tokens)
             /\ ~on => tokens = <<>>
             /\ Current(tokens, era, issued, now)
<1>1. Issuable /\ (\A t \in Held : t.era = era /\ t.value <= issued)
        <=> Current(tokens, era, issued, now)
  BY DEF Issuable, Held, Current
<1> QED
  BY <1>1 DEF LockOK, SessionsInOrder, Ordered

LEMMA IntervalLength ==
  ASSUME NEW m \in Nat, NEW n \in Nat, 1 .. m = 1 .. n
  PROVE  m = n
<1>1. m = 0 \/ m \in 1 .. n
  OBVIOUS
<1>2. n = 0 \/ n \in 1 .. m
  OBVIOUS
<1> QED
  BY <1>1, <1>2

LEMMA TokensTyped ==
  ASSUME TypeOK
  PROVE  /\ Len(tokens) \in Nat
         /\ DOMAIN tokens = 1 .. Len(tokens)
         /\ \A k \in DOMAIN tokens : /\ tokens[k] \in Token
                                     /\ tokens[k].value \in Nat
                                     /\ tokens[k].issued \in Nat
<1>1. Len(tokens) \in Nat /\ DOMAIN tokens = 1 .. Len(tokens)
        /\ \A k \in DOMAIN tokens : tokens[k] \in Token
  BY DEF TypeOK
<1>2. \A t \in Token : t.value \in Nat /\ t.issued \in Nat
  BY DEF Token
<1> QED
  BY <1>1, <1>2

(* issue_token() appends; what it drops, if the table is full, is the head.*)
LEMMA IssuedIs ==
  ASSUME TypeOK, Len(tokens) <= MaxTokens, NEW e \in Nat
  PROVE  /\ Issued(e) \in Seq(Token)
         /\ Len(Issued(e)) <= MaxTokens
         /\ Len(Issued(e)) \in Nat \ {0}
         /\ Issued(e)[Len(Issued(e))] = Fresh(e)
         /\ \E d \in {0, 1} :
              /\ d = 1 => Len(tokens) = MaxTokens
              /\ Len(Issued(e)) = Len(tokens) + 1 - d
              /\ \A k \in 1 .. Len(tokens) - d : Issued(e)[k] = tokens[k + d]
<1>1. Fresh(e) \in Token
  BY DEF Fresh, Token, TypeOK
<1>2. tokens \in Seq(Token) /\ Len(tokens) \in Nat /\ MaxTokens \in Nat \ {0}
  BY LockAssumption DEF TypeOK
<1>3. CASE Len(tokens) >= MaxTokens
  <2>1. Len(tokens) = MaxTokens /\ tokens # <<>>
    BY <1>2, <1>3
  <2>2. /\ Tail(tokens) \in Seq(Token)
        /\ Len(Tail(tokens)) = Len(tokens) - 1
        /\ \A k \in 1 .. Len(tokens) - 1 : Tail(tokens)[k] = tokens[k + 1]
    BY <1>2, <2>1
  <2>3. Issued(e) = Append(Tail(tokens), Fresh(e))
    BY <1>3 DEF Issued
  <2> DEFINE s == Tail(tokens)
  <2>4. /\ Append(s, Fresh(e)) \in Seq(Token)
        /\ Len(Append(s, Fresh(e))) = Len(s) + 1
        /\ Append(s, Fresh(e))[Len(s) + 1] = Fresh(e)
        /\ \A k \in 1 .. Len(s) : Append(s, Fresh(e))[k] = s[k]
    <3> HIDE DEF s
    <3>1. s \in Seq(Token)
      BY <2>2 DEF s
    <3> QED
      BY <1>1, <3>1
  <2> QED
    BY <1>2, <2>1, <2>2, <2>3, <2>4
<1>4. CASE ~(Len(tokens) >= MaxTokens)
  <2>1. Issued(e) = Append(tokens, Fresh(e))
    BY <1>4 DEF Issued
  <2>2. /\ Append(tokens, Fresh(e)) \in Seq(Token)
        /\ Len(Append(tokens, Fresh(e))) = Len(tokens) + 1
        /\ Append(tokens, Fresh(e))[Len(tokens) + 1] = Fresh(e)
        /\ \A k \in 1 .. Len(tokens) : Append(tokens, Fresh(e))[k] = tokens[k]
    BY <1>1, <1>2
  <2> QED
    BY <1>2, <1>4, <2>1, <2>2
<1> QED
  BY <1>3, <1>4

LEMMA IssuedOrdered ==
  ASSUME TypeOK, Len(tokens) <= MaxTokens, Ordered(tokens),
         Current(tokens, era, issued, now)
  PROVE  /\ Ordered(Issued(era))
         /\ Current(Issued(era), era, issued + 1, now)
<1> DEFINE s == Issued(era)
           n == Len(tokens)
<1>1. n \in Nat /\ issued \in Nat /\ now \in Nat /\ era \in Nat
  BY DEF TypeOK
<1>2. \A k \in 1 .. n : tokens[k] \in Token
  BY DEF TypeOK
<1>3. s \in Seq(Token) /\ Len(s) \in Nat \ {0} /\ s[Len(s)] = Fresh(era)
  BY <1>1, IssuedIs
<1>4. PICK d \in {0, 1} : /\ Len(s) = n + 1 - d
                          /\ \A k \in 1 .. n - d : s[k] = tokens[k + d]
  BY <1>1, IssuedIs
<1>5. DOMAIN s = 1 .. Len(s)
  BY <1>3
<1>6. Fresh(era).value = issued + 1 /\ Fresh(era).issued = now
        /\ Fresh(era).era = era
  BY DEF Fresh
<1>7. \A j, k \in 1 .. n :
        j < k => /\ tokens[j].value < tokens[k].value
                 /\ tokens[j].issued <= tokens[k].issued
  BY DEF Ordered, TypeOK
<1>8. \A k \in 1 .. n : /\ tokens[k].era = era
                        /\ tokens[k].value <= issued
                        /\ tokens[k].issued <= now
                        /\ tokens[k].value \in Nat
                        /\ tokens[k].issued \in Nat
  BY <1>2 DEF Current, TypeOK, Token
<1> HIDE DEF s, n
<1>9. \A k \in DOMAIN s : k # Len(s) => k + d \in 1 .. n /\ s[k] = tokens[k + d]
  BY <1>1, <1>3, <1>4, <1>5
<1>10. \A k \in DOMAIN s : /\ s[k].era = era
                           /\ s[k].value <= issued + 1
                           /\ s[k].issued <= now
  <2> TAKE k \in DOMAIN s
  <2>1. CASE k = Len(s)
    BY <1>1, <1>3, <1>6, <2>1
  <2>2. CASE k # Len(s)
    BY <1>1, <1>8, <1>9, <2>2
  <2> QED
    BY <2>1, <2>2
<1>11. \A j, k \in DOMAIN s : j < k => /\ s[j].value < s[k].value
                                       /\ s[j].issued <= s[k].issued
  <2> TAKE j, k \in DOMAIN s
  <2> HAVE j < k
  <2>1. j # Len(s) /\ j \in Int /\ k \in Int
    BY <1>3, <1>5
  <2>2. CASE k = Len(s)
    BY <1>1, <1>3, <1>6, <1>8, <1>9, <2>1, <2>2
  <2>3. CASE k # Len(s)
    <3>1. j + d < k + d
      BY <1>4, <2>1
    <3> QED
      BY <1>7, <1>9, <2>1, <2>3, <3>1
  <2> QED
    BY <2>2, <2>3
<1> QED
  BY <1>10, <1>11 DEF s, Ordered, Current

(* What logout() takes out leaves the rest as they stood.                  *)
LEMMA WithoutIs ==
  ASSUME TypeOK, Ordered(tokens), NEW v
  PROVE  \/ /\ Without(v) = tokens
            /\ \A k \in DOMAIN tokens : tokens[k].value # v
         \/ \E at \in DOMAIN tokens :
              /\ tokens[at].value = v
              /\ Without(v) = [k \in 1 .. Len(tokens) - 1 |->
                                 IF k < at THEN tokens[k] ELSE tokens[k + 1]]
<1>1. CASE \A k \in DOMAIN tokens : tokens[k].value # v
  BY <1>1 DEF Without
<1>2. CASE \E k \in DOMAIN tokens : tokens[k].value = v
  <2> DEFINE First(k) == /\ tokens[k].value = v
                         /\ \A j \in 1 .. k - 1 : tokens[j].value # v
             at == CHOOSE k \in DOMAIN tokens : First(k)
  <2>1. \E k \in DOMAIN tokens : First(k)
    <3>1. PICK k \in DOMAIN tokens : tokens[k].value = v
      BY <1>2
    <3>2. /\ DOMAIN tokens = 1 .. Len(tokens)
          /\ Len(tokens) \in Nat
          /\ \A j \in DOMAIN tokens : tokens[j].value \in Nat
      BY TokensTyped
    <3>3. \A j \in 1 .. k - 1 : j \in DOMAIN tokens /\ j < k
      BY <3>1, <3>2
    <3>4. \A j \in 1 .. k - 1 : tokens[j].value # v
      BY <3>1, <3>2, <3>3 DEF Ordered
    <3> QED
      BY <3>1, <3>4
  <2>2. at \in DOMAIN tokens /\ First(at)
    BY <2>1
  <2>3. Without(v) = [k \in 1 .. Len(tokens) - 1 |->
                        IF k < at THEN tokens[k] ELSE tokens[k + 1]]
    BY <1>2 DEF Without
  <2> QED
    BY <2>2, <2>3
<1> QED
  BY <1>1, <1>2

LEMMA WithoutOrdered ==
  ASSUME TypeOK, Len(tokens) <= MaxTokens, Ordered(tokens),
         Current(tokens, era, issued, now), NEW v
  PROVE  /\ Without(v) \in Seq(Token)
         /\ Len(Without(v)) <= MaxTokens
         /\ tokens = <<>> => Without(v) = <<>>
         /\ Ordered(Without(v))
         /\ Current(Without(v), era, issued, now)
<1>1. CASE Without(v) = tokens
  BY <1>1 DEF TypeOK
<1>2. CASE \E at \in DOMAIN tokens :
             Without(v) = [k \in 1 .. Len(tokens) - 1 |->
                             IF k < at THEN tokens[k] ELSE tokens[k + 1]]
  <2>1. PICK at \in DOMAIN tokens :
          Without(v) = [k \in 1 .. Len(tokens) - 1 |->
                          IF k < at THEN tokens[k] ELSE tokens[k + 1]]
    BY <1>2
  <2> DEFINE s == Without(v)
             n == Len(tokens)
             Place(k) == IF k < at THEN k ELSE k + 1
  <2>2. /\ n \in Nat /\ DOMAIN tokens = 1 .. n /\ at \in 1 .. n
        /\ \A k \in 1 .. n : tokens[k] \in Token
        /\ MaxTokens \in Nat
    BY <2>1, LockAssumption DEF TypeOK
  <2>3. \A k \in 1 .. n - 1 : Place(k) \in 1 .. n /\ s[k] = tokens[Place(k)]
    BY <2>1, <2>2
  <2>4. s \in Seq(Token) /\ Len(s) = n - 1 /\ DOMAIN s = 1 .. n - 1
    <3>1. s \in [1 .. n - 1 -> Token]
      <4>1. s = [k \in 1 .. n - 1 |-> tokens[Place(k)]]
        BY <2>1, <2>2
      <4> QED
        BY <2>2, <2>3, <4>1
    <3>2. s \in Seq(Token)
      BY <2>2, <3>1, SeqDef
    <3>3. DOMAIN s = 1 .. n - 1 /\ DOMAIN s = 1 .. Len(s) /\ Len(s) \in Nat
      BY <3>1, <3>2, LenProperties
    <3>4. Len(s) = n - 1
      <4> HIDE DEF s, n
      <4>1. n \in Nat /\ at \in 1 .. n
        BY <2>2
      <4>2. n - 1 \in Nat
        BY <4>1
      <4>3. 1 .. Len(s) = 1 .. n - 1
        BY <3>3
      <4> QED
        BY <3>3, <4>2, <4>3, IntervalLength
    <3> QED
      BY <3>2, <3>3, <3>4
  <2>5. Ordered(s)
    <3>1. \A j, k \in 1 .. n - 1 : j < k => Place(j) < Place(k)
      BY <2>2
    <3>2. ASSUME NEW j \in DOMAIN s, NEW k \in DOMAIN s, j < k
          PROVE  s[j].value < s[k].value /\ s[j].issued <= s[k].issued
      <4>1. /\ Place(j) \in DOMAIN tokens /\ Place(k) \in DOMAIN tokens
            /\ Place(j) < Place(k)
            /\ s[j] = tokens[Place(j)] /\ s[k] = tokens[Place(k)]
        BY <2>2, <2>3, <2>4, <3>1, <3>2
      <4> HIDE DEF Place, s
      <4> QED
        BY <4>1 DEF Ordered
    <3> QED
      BY <3>2 DEF Ordered
  <2>6. Current(s, era, issued, now)
    BY <2>2, <2>3, <2>4 DEF Current
  <2>7. tokens # <<>>
    BY <2>2
  <2> QED
    BY <2>2, <2>4, <2>5, <2>6, <2>7
<1> QED
  BY <1>1, <1>2, WithoutIs

LEMMA InitOK == Init => LockOK
<1> SUFFICES ASSUME Init PROVE LockOK
  OBVIOUS
<1>1. TypeOK
  <2>1. tokens \in Seq(Token)
    BY DEF Init
  <2> QED
    BY <2>1 DEF Init, TypeOK, NoToken
<1>2. Len(tokens) <= MaxTokens /\ Ordered(tokens) /\ tokens = <<>>
        /\ Current(tokens, era, issued, now)
  BY LockAssumption DEF Init, Ordered, Current
<1> QED
  BY <1>1, <1>2, LockOKParts

(* What the browsers make of an answer, in every action.                   *)
BrowsersOK == /\ stored \in [Browsers -> Nat]
              /\ cookie \in [Browsers -> Nat]
              /\ pageOut \subseteq Browsers

LEMMA BrowserStep ==
  ASSUME TypeOK, Next
  PROVE  BrowsersOK'
<1>0. /\ stored \in [Browsers -> Nat] /\ cookie \in [Browsers -> Nat]
      /\ pageOut \subseteq Browsers /\ issued + 1 \in Nat /\ NoToken \in Nat
  BY DEF TypeOK, NoToken
<1>1. ASSUME NEW b \in Browsers, NEW heard \in BOOLEAN,
             SessionReaches(b, heard)
      PROVE  BrowsersOK'
  <2>1. CASE heard
    BY <1>0, <1>1, <2>1 DEF SessionReaches, BrowsersOK
  <2>2. CASE ~heard
    BY <1>0, <1>1, <2>2 DEF SessionReaches, BrowsersOK, browserVars
  <2> QED
    BY <2>1, <2>2
<1>2. ASSUME NEW b \in Browsers, PageLosesToken(b)
      PROVE  BrowsersOK'
  BY <1>0, <1>2 DEF PageLosesToken, BrowsersOK
<1>3. ASSUME NEW b \in Browsers, Logout(b) \/ PageLogout(b)
      PROVE  BrowsersOK'
  BY <1>0, <1>3 DEF Logout, PageLogout, BrowsersOK
<1>4. ASSUME UNCHANGED browserVars
      PROVE  BrowsersOK'
  BY <1>0, <1>4 DEF browserVars, BrowsersOK
<1>5. CASE \E b \in Browsers, heard \in BOOLEAN :
             Enable(b, heard) \/ Login(b, heard)
  BY <1>1, <1>5 DEF Enable, Login
<1>6. CASE \E b \in Browsers : \/ WrongPassword(b) \/ Disable(b)
                               \/ Rejected(b) \/ Logout(b) \/ PageLogout(b)
  BY <1>2, <1>3, <1>6 DEF WrongPassword, Disable, Rejected
<1>7. CASE Tick \/ Restart
  BY <1>4, <1>7 DEF Tick, Restart, browserVars
<1> QED
  BY <1>5, <1>6, <1>7 DEF Next

LEMMA NextOK ==
  ASSUME LockOK, [Next]_vars
  PROVE  LockOK'
<1>0. /\ TypeOK /\ Len(tokens) <= MaxTokens /\ Ordered(tokens)
      /\ ~on => tokens = <<>>
      /\ Current(tokens, era, issued, now)
  BY LockOKParts
<1> SUFFICES ASSUME BrowsersOK'
             PROVE  /\ TypeOK'
                    /\ Len(tokens') <= MaxTokens
                    /\ Ordered(tokens)'
                    /\ ~on' => tokens' = <<>>
                    /\ Current(tokens, era, issued, now)'
  <2>1. BrowsersOK'
    <3>1. CASE Next
      BY <1>0, <3>1, BrowserStep
    <3>2. CASE UNCHANGED vars
      BY <3>2, <1>0 DEF vars, browserVars, BrowsersOK, TypeOK
    <3> QED
      BY <3>1, <3>2
  <2>2. (LockOK <=> /\ TypeOK
                    /\ Len(tokens) <= MaxTokens
                    /\ Ordered(tokens)
                    /\ ~on => tokens = <<>>
                    /\ Current(tokens, era, issued, now))'
    BY LockOKParts, PTL
  <2> QED
    BY <2>1, <2>2
<1>1. ASSUME NEW b \in Browsers, NEW heard \in BOOLEAN, Enable(b, heard)
      PROVE  /\ TypeOK'
             /\ Len(tokens') <= MaxTokens
             /\ Ordered(tokens)'
             /\ on'
             /\ Current(tokens, era, issued, now)'
  <2>1. tokens = <<>> /\ tokens' = Issued(era + 1) /\ era' = era + 1
          /\ issued' = issued + 1 /\ on' /\ now' = now
    BY <1>0, <1>1 DEF Enable
  <2>2. tokens' = <<Fresh(era + 1)>>
    BY <2>1, LockAssumption DEF Issued
  <2>3. Fresh(era + 1) \in Token
    BY <1>0 DEF Fresh, Token, TypeOK
  <2>4. /\ tokens' \in Seq(Token) /\ Len(tokens') = 1 /\ DOMAIN tokens' = {1}
        /\ tokens'[1] = Fresh(era + 1)
    BY <2>2, <2>3
  <2>5. Ordered(tokens')
    BY <2>4 DEF Ordered
  <2>6. Current(tokens', era', issued', now')
    BY <1>0, <2>1, <2>4 DEF Current, Fresh, TypeOK
  <2>7. TypeOK'
    BY <1>0, <1>1, <2>1, <2>4 DEF Enable, TypeOK, BrowsersOK
  <2> QED
    BY <2>1, <2>4, <2>5, <2>6, <2>7, LockAssumption DEF Ordered, Current
<1>2. ASSUME NEW b \in Browsers, NEW heard \in BOOLEAN, Login(b, heard)
      PROVE  /\ TypeOK'
             /\ Len(tokens') <= MaxTokens
             /\ Ordered(tokens)'
             /\ on'
             /\ Current(tokens, era, issued, now)'
  <2>1. on /\ tokens' = Issued(era) /\ issued' = issued + 1
          /\ UNCHANGED <<on, era, now>>
    BY <1>2 DEF Login
  <2>2. era \in Nat
    BY <1>0 DEF TypeOK
  <2>3. tokens' \in Seq(Token) /\ Len(tokens') <= MaxTokens
    BY <1>0, <2>1, <2>2, IssuedIs
  <2>4. Ordered(tokens') /\ Current(tokens', era', issued', now')
    BY <1>0, <2>1, IssuedOrdered
  <2>5. TypeOK'
    BY <1>0, <2>1, <2>3 DEF TypeOK, BrowsersOK
  <2> QED
    BY <2>1, <2>3, <2>4, <2>5 DEF Ordered, Current
<1>3. ASSUME NEW b \in Browsers, Logout(b)
      PROVE  /\ TypeOK'
             /\ Len(tokens') <= MaxTokens
             /\ Ordered(tokens)'
             /\ ~on' => tokens' = <<>>
             /\ Current(tokens, era, issued, now)'
  <2>1. tokens' = Without(Presented(b)) /\ UNCHANGED <<on, era, issued, now>>
    BY <1>3 DEF Logout
  <2>2. /\ tokens' \in Seq(Token) /\ Len(tokens') <= MaxTokens
        /\ tokens = <<>> => tokens' = <<>>
        /\ Ordered(tokens') /\ Current(tokens', era, issued, now)
    BY <1>0, <2>1, WithoutOrdered
  <2>3. TypeOK'
    BY <1>0, <2>1, <2>2 DEF TypeOK, BrowsersOK
  <2> QED
    BY <1>0, <2>1, <2>2, <2>3 DEF Ordered, Current
<1>4. ASSUME \/ Restart
             \/ \E b \in Browsers : Disable(b)
      PROVE  /\ TypeOK'
             /\ Len(tokens') <= MaxTokens
             /\ Ordered(tokens)'
             /\ tokens' = <<>>
             /\ Current(tokens, era, issued, now)'
  <2>1. tokens' = <<>> /\ on' = FALSE /\ UNCHANGED <<era, issued, now>>
    BY <1>4 DEF Restart, Disable
  <2>2. tokens' \in Seq(Token) /\ Len(tokens') = 0 /\ DOMAIN tokens' = {}
    BY <2>1
  <2>3. TypeOK'
    BY <1>0, <2>1, <2>2 DEF TypeOK, BrowsersOK
  <2> QED
    BY <2>1, <2>2, <2>3, LockAssumption DEF Ordered, Current
<1>5. ASSUME \/ UNCHANGED <<deviceVars, now>>
             \/ Tick
      PROVE  /\ TypeOK'
             /\ Len(tokens') <= MaxTokens
             /\ Ordered(tokens)'
             /\ ~on' => tokens' = <<>>
             /\ Current(tokens, era, issued, now)'
  <2>1. UNCHANGED deviceVars /\ now' \in Nat /\ now' >= now
    BY <1>0, <1>5 DEF Tick, TypeOK
  <2>2. \A k \in DOMAIN tokens : tokens[k].issued \in Nat
    BY <1>0, TokensTyped
  <2>3. Current(tokens, era, issued, now')
    BY <1>0, <2>1, <2>2 DEF Current, TypeOK
  <2> QED
    BY <1>0, <2>1, <2>3 DEF deviceVars, TypeOK, BrowsersOK, Ordered, Current
<1>6. CASE UNCHANGED vars
  BY <1>5, <1>6 DEF vars
<1> QED
  BY <1>1, <1>2, <1>3, <1>4, <1>5, <1>6
     DEF Next, WrongPassword, Rejected, PageLogout

(* The lock's invariant, for every table size and lifetime: sessions in    *)
(* the order of their tokens, none from the future (control_lock.h).       *)
THEOREM LockCorrect == Spec => []LockOK
<1>1. Init => LockOK
  BY InitOK
<1>2. LockOK /\ [Next]_vars => LockOK'
  BY NextOK
<1> QED
  BY <1>1, <1>2, PTL DEF Spec

(* Type correctness of the lock and its browsers (control_lock.h).         *)
THEOREM LockTypes == Spec => []TypeOK
<1>1. LockOK => TypeOK
  BY DEF LockOK
<1> QED
  BY <1>1, LockCorrect, PTL

(* The token a full table gives up is the oldest, whatever clients do      *)
(* (control_lock.h:142-156).                                               *)
THEOREM SessionsAlwaysInOrder == Spec => []SessionsInOrder
<1>1. LockOK => SessionsInOrder
  BY DEF LockOK
<1> QED
  BY <1>1, LockCorrect, PTL

(* Why a session that has not expired leaves the table, step by step.      *)
LEMMA StepEndsSession ==
  ASSUME LockOK, [Next]_vars, NEW t \in Live, t \notin Live'
  PROVE  EndsForAReason(t)
<1> USE DEF EndsForAReason
<1>0. /\ TypeOK /\ Len(tokens) <= MaxTokens /\ Ordered(tokens)
      /\ ~on => tokens = <<>>
      /\ Current(tokens, era, issued, now)
      /\ MaxTokens \in Nat \ {0} /\ Ttl \in Nat \ {0} /\ now \in Nat
  BY LockOKParts, LockAssumption DEF TypeOK
<1>1. PICK p \in DOMAIN tokens : t = tokens[p]
  BY DEF Live, Held
<1>2. /\ t.value \in Nat /\ t.issued \in Nat /\ t.issued <= now
      /\ now - t.issued < Ttl /\ t.value <= issued /\ issued \in Nat
  BY <1>0, <1>1, TokensTyped DEF Live, Current, TypeOK
<1>3. CASE \E b \in Browsers, heard \in BOOLEAN :
             Enable(b, heard) \/ Login(b, heard)
  <2>1. tokens # <<>> /\ on
    BY <1>0, <1>1
  <2>2. /\ tokens' = Issued(era) /\ era \in Nat
        /\ now' = now
    BY <1>0, <1>3, <2>1 DEF Enable, Login, TypeOK
  <2> DEFINE n == Len(tokens)
  <2>3. /\ n \in Nat /\ DOMAIN tokens = 1 .. n
        /\ \A k \in DOMAIN tokens : /\ tokens[k].value \in Nat
                                    /\ tokens[k].issued \in Nat
    BY <1>0, TokensTyped
  <2>4. PICK d \in {0, 1} :
          /\ d = 1 => n = MaxTokens
          /\ Len(tokens') = n + 1 - d
          /\ \A k \in 1 .. n - d : tokens'[k] = tokens[k + d]
    BY <1>0, <2>2, IssuedIs
  <2>5. /\ DOMAIN tokens' = 1 .. Len(tokens')
        /\ tokens'[Len(tokens')] = Fresh(era)
    <3>1. /\ Issued(era) \in Seq(Token)
          /\ Issued(era)[Len(Issued(era))] = Fresh(era)
      BY <1>0, <2>2, IssuedIs
    <3>2. DOMAIN Issued(era) = 1 .. Len(Issued(era))
      BY <3>1
    <3> QED
      BY <2>2, <3>1, <3>2
  <2> HIDE DEF n
  <2>6. ASSUME NEW q \in 1 .. n - d
        PROVE  tokens[q + d] \in Held'
    <3>1. q \in DOMAIN tokens' /\ tokens'[q] = tokens[q + d]
      BY <2>3, <2>4, <2>5
    <3> QED
      BY <3>1 DEF Held
  <2>7. t \notin Held'
    BY <1>2, <2>2 DEF Live
  <2>8. d = 1 /\ p = 1
    <3>1. ASSUME p - d \in 1 .. n - d
          PROVE  FALSE
      <4>1. p - d + d = p
        BY <1>1, <2>3
      <4>2. tokens[p - d + d] \in Held'
        BY <2>6, <3>1
      <4> QED
        BY <1>1, <2>7, <4>1, <4>2
    <3> QED
      BY <1>1, <2>3, <2>4, <3>1
  <2>9. ASSUME NEW u \in Held'
        PROVE  u \in Live' /\ u.value > t.value
    <3>1. PICK k \in 1 .. Len(tokens') : u = tokens'[k]
      BY <2>5 DEF Held
    <3>2. CASE k = Len(tokens')
      <4>1. u.value = issued + 1 /\ u.issued = now
        BY <2>5, <3>1, <3>2 DEF Fresh
      <4> QED
        BY <1>0, <1>2, <2>2, <4>1 DEF Live
    <3>3. CASE k # Len(tokens')
      <4>1. /\ u = tokens[k + 1] /\ k + 1 \in DOMAIN tokens /\ p < k + 1
            /\ u.issued \in Nat
        BY <2>3, <2>4, <2>8, <3>1, <3>3
      <4>2. /\ tokens[p].value < u.value /\ tokens[p].issued <= u.issued
        BY <1>0, <1>1, <4>1 DEF Ordered
      <4>3. now - u.issued < Ttl
        BY <1>0, <1>1, <1>2, <4>1, <4>2
      <4>4. u.value \in Nat
        BY <2>3, <4>1
      <4> QED
        BY <1>1, <1>2, <2>2, <4>2, <4>3, <4>4 DEF Live
    <3> QED
      BY <3>2, <3>3
  <2>10. Len(tokens') = MaxTokens
    BY <2>3, <2>4, <2>8
  <2> QED
    BY <2>9, <2>10
<1>4. CASE \E b \in Browsers : Logout(b)
  <2>1. PICK b \in Browsers : Logout(b)
    BY <1>4
  <2>2. tokens' = Without(Presented(b)) /\ now' = now
    BY <2>1 DEF Logout
  <2>3. t \notin Held'
    BY <1>2, <2>2 DEF Live
  <2>4. Presented(b) = t.value
    <3>1. CASE tokens' = tokens
      BY <1>1, <2>3, <3>1 DEF Held
    <3>2. CASE \E at \in DOMAIN tokens :
                 /\ tokens[at].value = Presented(b)
                 /\ tokens' = [k \in 1 .. Len(tokens) - 1 |->
                                 IF k < at THEN tokens[k] ELSE tokens[k + 1]]
      <4>1. PICK at \in DOMAIN tokens :
              /\ tokens[at].value = Presented(b)
              /\ tokens' = [k \in 1 .. Len(tokens) - 1 |->
                              IF k < at THEN tokens[k] ELSE tokens[k + 1]]
        BY <3>2
      <4>2. Len(tokens) \in Nat /\ DOMAIN tokens = 1 .. Len(tokens)
        BY <1>0, TokensTyped
      <4>3. CASE p < at
        <5>1. p \in DOMAIN tokens' /\ tokens'[p] = tokens[p]
          BY <1>1, <4>1, <4>2, <4>3
        <5> QED
          BY <1>1, <2>3, <5>1 DEF Held
      <4>4. CASE p > at
        <5>1. p - 1 \in DOMAIN tokens' /\ tokens'[p - 1] = tokens[p]
          BY <1>1, <4>1, <4>2, <4>4
        <5> QED
          BY <1>1, <2>3, <5>1 DEF Held
      <4> QED
        BY <1>1, <4>1, <4>2, <4>3, <4>4
    <3> QED
      BY <1>0, <2>2, <3>1, <3>2, WithoutIs
  <2> QED
    BY <2>1, <2>4
<1>5. CASE Restart \/ \E b \in Browsers : Disable(b)
  BY <1>5 DEF Restart, Disable
<1>6. CASE Tick
  <2>1. now' = now + 1 /\ tokens' = tokens
    BY <1>6 DEF Tick, deviceVars
  <2>2. t \in Held'
    BY <1>1, <2>1 DEF Held
  <2>3. ~(now' - t.issued < Ttl)
    BY <2>2 DEF Live
  <2>4. now \in Int /\ t.issued \in Int /\ Ttl \in Int
    BY <1>0, <1>2
  <2>5. now - t.issued = Ttl - 1
    BY <1>2, <2>1, <2>3, <2>4
  <2> QED
    BY <2>1, <2>5
<1>7. CASE UNCHANGED <<tokens, now>>
  BY <1>7 DEF Live, Held
<1> QED
  BY <1>3, <1>4, <1>5, <1>6, <1>7
     DEF Next, WrongPassword, Rejected, PageLogout, deviceVars, vars

(* Nobody is shut out in mid-session without a reason                      *)
(* (control_lock.h:26-34, 142-156).                                        *)
THEOREM SessionsEndForAReason == Spec => SessionEndsForAReason
<1>1. LockOK /\ [Next]_vars => NoSessionCutShort
  BY StepEndsSession DEF NoSessionCutShort
<1> QED
  BY <1>1, LockCorrect, PTL DEF Spec, SessionEndsForAReason

-----------------------------------------------------------------------------
(***************************************************************************)
(* Connections, for any sockets, addresses and endpoints.                  *)
(***************************************************************************)

(* Induction over Nat, stated for a set.                                   *)
LEMMA UpTo ==
  ASSUME NEW n \in Nat, NEW S,
         0 \in S,
         \A i \in 1 .. n : i - 1 \in S => i \in S
  PROVE  0 .. n \subseteq S
<1>1. SUFFICES ASSUME NEW Bad, Bad = (0 .. n) \ S, Bad # {}
               PROVE  FALSE
  OBVIOUS
<1>2. PICK m \in Bad : \A k \in Bad : ~ (<<k, m>> \in OpToRel(<, Nat))
  <2>1. Bad \subseteq Nat
    BY <1>1
  <2> QED
    BY <2>1, <1>1, NatLessThanWellFounded, WFMin, Zenon
<1>3. m \in 1 .. n /\ m - 1 \in 0 .. n
  BY <1>1
<1>4. m - 1 \notin S
  BY <1>1, <1>3
<1>5. m - 1 \in Bad
  BY <1>1, <1>3, <1>4
<1>6. <<m - 1, m>> \in OpToRel(<, Nat)
  BY <1>3 DEF OpToRel
<1> QED
  BY <1>2, <1>5, <1>6

(* What one unfolding of Left computes.                                    *)
Unfold(list, a, f) ==
  [n \in 0 .. Len(list) |->
     IF n = 0 THEN <<>> ELSE IF list[n] = a THEN f[n - 1] ELSE Append(f[n - 1], list[n])]

(* The recursion of Left has a solution.                                   *)
LEMMA LeftDefined ==
  ASSUME NEW A, NEW list \in Seq(A), NEW a
  PROVE  /\ Left(list, a) = Unfold(list, a, Left(list, a))
         /\ Left(list, a) \in [0 .. Len(list) -> Seq(A)]
<1> DEFINE N == Len(list)
           Extended(f, n) == IF list[n] = a THEN f[n - 1] ELSE Append(f[n - 1], list[n])
           Sum(g, m) == g[0] = <<>> /\ \A i \in 1 .. m : g[i] = Extended(g, i)
           Reached == {m \in 0 .. N : \E g \in [0 .. N -> Seq(A)] : Sum(g, m)}
<1>0. N \in Nat /\ \A i \in 1 .. N : list[i] \in A
  OBVIOUS
<1>s. <<>> \in Seq(A) /\ \A l \in Seq(A), x \in A : Append(l, x) \in Seq(A)
  OBVIOUS
<1> HIDE DEF N
<1>1. 0 \in Reached
  <2> DEFINE z == [i \in 0 .. N |-> <<>>]
  <2>1. z \in [0 .. N -> Seq(A)] /\ Sum(z, 0)
    BY <1>0, <1>s
  <2> HIDE DEF z, Sum
  <2>2. \E g \in [0 .. N -> Seq(A)] : Sum(g, 0)
    BY <2>1
  <2> QED
    BY <2>2, <1>0
<1>2. ASSUME NEW m \in 1 .. N, m - 1 \in Reached
      PROVE  m \in Reached
  <2>1. PICK g \in [0 .. N -> Seq(A)] : Sum(g, m - 1)
    BY <1>2
  <2> DEFINE h == [g EXCEPT ![m] = Extended(g, m)]
  <2>m. m \in 0 .. N /\ m - 1 \in 0 .. N /\ m # 0
    BY <1>0
  <2>2. h \in [0 .. N -> Seq(A)]
    <3>1. g[m - 1] \in Seq(A)
      BY <2>m
    <3>2. Extended(g, m) \in Seq(A)
      BY <3>1, <1>0, <1>s
    <3> HIDE DEF Extended
    <3> QED
      BY <3>2
  <2>3. h[0] = <<>>
    BY <2>1, <2>m, <1>0
  <2>4. ASSUME NEW i \in 1 .. m
        PROVE  h[i] = Extended(h, i)
    <3>0. i \in 0 .. N /\ i - 1 \in 0 .. N /\ i - 1 # m
      BY <1>0
    <3>1. CASE i = m
      BY <3>0, <3>1
    <3>2. CASE i # m
      <4>1. i \in 1 .. m - 1
        BY <3>2, <1>0
      <4> QED
        BY <3>0, <3>2, <4>1, <2>1
    <3> QED
      BY <3>1, <3>2
  <2>5. Sum(h, m)
    BY <2>3, <2>4
  <2> HIDE DEF h, Sum
  <2>6. \E f \in [0 .. N -> Seq(A)] : Sum(f, m)
    BY <2>2, <2>5
  <2> QED
    BY <2>6, <2>m
<1>3. N \in Reached
  <2> HIDE DEF Reached
  <2>1. 0 .. N \subseteq Reached
    BY <1>0, <1>1, <1>2, UpTo
  <2> QED
    BY <2>1, <1>0
<1>4. PICK g \in [0 .. N -> Seq(A)] : Sum(g, N)
  BY <1>3
<1>5. g = Unfold(list, a, g)
  <2>1. \A n \in 0 .. N : n # 0 => n \in 1 .. N
    BY <1>0
  <2>2. \A n \in 0 .. N : g[n] = IF n = 0 THEN <<>> ELSE Extended(g, n)
    BY <1>4, <2>1
  <2> QED
    BY <2>2 DEF Unfold, N
<1>6. Left(list, a) = CHOOSE f : f = Unfold(list, a, f)
  BY DEF Left, Unfold
<1>7. Left(list, a) = Unfold(list, a, Left(list, a))
  BY <1>5, <1>6
<1> DEFINE e == Left(list, a)
<1>8. /\ e[0] = <<>>
      /\ \A n \in 1 .. N : e[n] = Extended(e, n)
      /\ e = [n \in 0 .. N |-> e[n]]
  <2> HIDE DEF e
  <2>1. e = Unfold(list, a, e)
    BY <1>7 DEF e
  <2>2. \A n \in 1 .. N : n \in 0 .. N /\ n # 0
    BY <1>0
  <2>3. 0 \in 0 .. N
    BY <1>0
  <2> QED
    BY <2>1, <2>2, <2>3 DEF Unfold, N
<1> DEFINE Typed == {n \in 0 .. N : e[n] \in Seq(A)}
<1>9. 0 .. N \subseteq Typed
  <2> HIDE DEF e
  <2>1. 0 \in Typed
    <3>1. e[0] \in Seq(A)
      <4>1. e[0] = <<>>
        BY <1>8
      <4> QED
        BY <4>1, <1>s
    <3>2. 0 \in 0 .. N
      BY <1>0
    <3> QED
      BY <3>1, <3>2
  <2>2. ASSUME NEW i \in 1 .. N, i - 1 \in Typed
        PROVE  i \in Typed
    <3>1. e[i - 1] \in Seq(A) /\ i \in 0 .. N /\ list[i] \in A
      BY <2>2, <1>0
    <3>2. e[i] = Extended(e, i)
      BY <1>8
    <3>3. Extended(e, i) \in Seq(A)
      BY <3>1, <1>s
    <3> QED
      BY <3>1, <3>2, <3>3
  <2> HIDE DEF Typed
  <2> QED
    BY <2>1, <2>2, <1>0, UpTo
<1>10. e \in [0 .. N -> Seq(A)]
  <2> HIDE DEF e
  <2>1. \A n \in 0 .. N : e[n] \in Seq(A)
    BY <1>9
  <2> QED
    BY <1>8, <2>1
<1> QED
  BY <1>7, <1>10 DEF N

(* Removing a pointer from a list removes that pointer and nothing else,   *)
(* and a list that has no pointer twice still has none (std::list::remove  *)
(* of PsychicHttpServer and of PsychicHandler).                            *)
Once(list) == \A i, j \in DOMAIN list : list[i] = list[j] => i = j

LEMMA WithoutFacts ==
  ASSUME NEW A, NEW list \in Seq(A), NEW a
  PROVE  /\ WithoutClient(list, a) \in Seq(A)
         /\ ToSet(WithoutClient(list, a)) = ToSet(list) \ {a}
         /\ Once(list) => Once(WithoutClient(list, a))
<1> DEFINE N == Len(list)
           e == Left(list, a)
           Good(n) ==
             /\ \A i \in 1 .. Len(e[n]) :
                  e[n][i] # a /\ \E j \in 1 .. n : list[j] = e[n][i]
             /\ \A j \in 1 .. n : list[j] # a => \E i \in 1 .. Len(e[n]) : e[n][i] = list[j]
             /\ Once(list) => \A i, j \in 1 .. Len(e[n]) : e[n][i] = e[n][j] => i = j
           Done == {n \in 0 .. N : Good(n)}
<1>0. N \in Nat /\ DOMAIN list = 1 .. N /\ \A i \in 1 .. N : list[i] \in A
  OBVIOUS
<1>1. /\ e \in [0 .. N -> Seq(A)]
      /\ e = Unfold(list, a, e)
  BY LeftDefined
<1>2. /\ e[0] = <<>>
      /\ \A n \in 1 .. N : e[n] = IF list[n] = a THEN e[n - 1] ELSE Append(e[n - 1], list[n])
  <2> HIDE DEF e
  <2>1. \A n \in 1 .. N : n \in 0 .. N /\ n # 0
    BY <1>0
  <2>2. 0 \in 0 .. N
    BY <1>0
  <2> QED
    BY <1>1, <2>1, <2>2 DEF Unfold
<1> HIDE DEF N, e
<1>3. 0 \in Done
  <2>1. Len(e[0]) = 0 /\ 0 \in 0 .. N
    BY <1>0, <1>2
  <2> QED
    BY <2>1
<1>4. ASSUME NEW n \in 1 .. N, n - 1 \in Done
      PROVE  n \in Done
  <2> DEFINE d == e[n - 1]
             x == list[n]
  <2>0. n \in 0 .. N /\ n - 1 \in 0 .. N /\ n - 1 \in Nat /\ n \in Nat
    BY <1>0
  <2>1. d \in Seq(A) /\ x \in A /\ Len(d) \in Nat
    <3>1. d \in Seq(A)
      BY <1>1, <2>0
    <3> QED
      BY <3>1, <1>0
  <2>2. Good(n - 1)
    BY <1>4
  <2>3. CASE x = a
    <3>1. e[n] = d
      BY <1>2, <2>3
    <3>2. \A j \in 1 .. n : j \in 1 .. n - 1 \/ j = n
      BY <2>0
    <3>3. 1 .. n - 1 \subseteq 1 .. n
      BY <2>0
    <3> HIDE DEF d
    <3>4. /\ \A i \in 1 .. Len(d) : d[i] # a /\ \E j \in 1 .. n - 1 : list[j] = d[i]
          /\ \A j \in 1 .. n - 1 : list[j] # a => \E i \in 1 .. Len(d) : d[i] = list[j]
          /\ Once(list) => \A i, j \in 1 .. Len(d) : d[i] = d[j] => i = j
      BY <2>2 DEF d
    <3>5. /\ \A i \in 1 .. Len(d) : d[i] # a /\ \E j \in 1 .. n : list[j] = d[i]
          /\ \A j \in 1 .. n : list[j] # a => \E i \in 1 .. Len(d) : d[i] = list[j]
      BY <3>4, <3>3, <3>2, <2>3, Zenon
    <3> QED
      BY <3>1, <3>4, <3>5, <2>0
  <2>4. CASE x # a
    <3>1. e[n] = Append(d, x)
      BY <1>2, <2>4
    <3> HIDE DEF d, x
    <3>2. /\ Len(e[n]) = Len(d) + 1
          /\ \A i \in 1 .. Len(d) : e[n][i] = d[i]
          /\ e[n][Len(d) + 1] = x
      BY <3>1, <2>1
    <3>3. /\ \A i \in 1 .. Len(d) : d[i] # a /\ \E j \in 1 .. n - 1 : list[j] = d[i]
          /\ \A j \in 1 .. n - 1 : list[j] # a => \E i \in 1 .. Len(d) : d[i] = list[j]
          /\ Once(list) => \A i, j \in 1 .. Len(d) : d[i] = d[j] => i = j
      BY <2>2 DEF d
    <3>4. /\ \A j \in 1 .. n : j \in 1 .. n - 1 \/ j = n
          /\ 1 .. n - 1 \subseteq 1 .. n
          /\ n \in 1 .. n /\ n \notin 1 .. n - 1
      BY <2>0
    <3>5. /\ \A i \in 1 .. Len(e[n]) : i \in 1 .. Len(d) \/ i = Len(d) + 1
          /\ 1 .. Len(d) \subseteq 1 .. Len(e[n])
          /\ Len(d) + 1 \in 1 .. Len(e[n])
      BY <3>2, <2>1
    <3>6. \A i \in 1 .. Len(e[n]) :
            e[n][i] # a /\ \E j \in 1 .. n : list[j] = e[n][i]
      <4> TAKE i \in 1 .. Len(e[n])
      <4>1. CASE i \in 1 .. Len(d)
        BY <4>1, <3>2, <3>3, <3>4
      <4>2. CASE i = Len(d) + 1
        BY <4>2, <3>2, <2>4, <3>4 DEF x
      <4> QED
        BY <4>1, <4>2, <3>5
    <3>7. \A j \in 1 .. n : list[j] # a => \E i \in 1 .. Len(e[n]) : e[n][i] = list[j]
      <4> SUFFICES ASSUME NEW j \in 1 .. n, list[j] # a
                   PROVE  \E i \in 1 .. Len(e[n]) : e[n][i] = list[j]
        OBVIOUS
      <4>1. CASE j \in 1 .. n - 1
        BY <4>1, <3>2, <3>3, <3>5
      <4>2. CASE j = n
        BY <4>2, <3>2, <3>5 DEF x
      <4> QED
        BY <4>1, <4>2, <3>4
    <3>8. ASSUME Once(list)
          PROVE  \A i, j \in 1 .. Len(e[n]) : e[n][i] = e[n][j] => i = j
      <4>1. \A i \in 1 .. Len(d) : d[i] # x
        <5> TAKE i \in 1 .. Len(d)
        <5>1. PICK j \in 1 .. n - 1 : list[j] = d[i]
          BY <3>3
        <5>2. j \in 1 .. N /\ j # n
          BY <2>0, <1>0
        <5> QED
          BY <5>1, <5>2, <3>8, <1>0 DEF Once, x
      <4>2. \A i, j \in 1 .. Len(d) : d[i] = d[j] => i = j
        BY <3>8, <3>3
      <4> SUFFICES ASSUME NEW i \in 1 .. Len(e[n]), NEW j \in 1 .. Len(e[n]),
                          e[n][i] = e[n][j]
                   PROVE  i = j
        OBVIOUS
      <4>3. CASE i \in 1 .. Len(d) /\ j \in 1 .. Len(d)
        BY <4>3, <4>2, <3>2
      <4>4. CASE i \in 1 .. Len(d) /\ j = Len(d) + 1
        BY <4>4, <4>1, <3>2
      <4>5. CASE i = Len(d) + 1 /\ j \in 1 .. Len(d)
        BY <4>5, <4>1, <3>2
      <4> QED
        BY <4>3, <4>4, <4>5, <3>5
    <3> QED
      BY <3>6, <3>7, <3>8, <2>0
  <2> QED
    BY <2>3, <2>4
<1>5. Good(N) /\ e[N] \in Seq(A)
  <2> HIDE DEF Done
  <2>1. 0 .. N \subseteq Done
    BY <1>0, <1>3, <1>4, UpTo
  <2>2. N \in 0 .. N
    BY <1>0
  <2> QED
    BY <2>1, <2>2, <1>1 DEF Done
<1> DEFINE w == e[N]
<1>6. WithoutClient(list, a) = w
  BY DEF WithoutClient, N, e
<1>7. /\ \A i \in 1 .. Len(w) : w[i] # a /\ \E j \in 1 .. N : list[j] = w[i]
      /\ \A j \in 1 .. N : list[j] # a => \E i \in 1 .. Len(w) : w[i] = list[j]
      /\ Once(list) => \A i, j \in 1 .. Len(w) : w[i] = w[j] => i = j
      /\ w \in Seq(A)
  BY <1>5
<1> HIDE DEF w
<1>8. DOMAIN w = 1 .. Len(w)
  BY <1>7
<1>9. ToSet(w) = ToSet(list) \ {a}
  <2>1. ToSet(w) = {w[i] : i \in 1 .. Len(w)} /\ ToSet(list) = {list[j] : j \in 1 .. N}
    BY <1>8, <1>0 DEF ToSet
  <2>2. \A x : (\E i \in 1 .. Len(w) : x = w[i]) <=> x # a /\ \E j \in 1 .. N : x = list[j]
    BY <1>7, Zenon
  <2> QED
    BY <2>1, <2>2, Zenon
<1>10. Once(list) => Once(w)
  BY <1>7, <1>8 DEF Once
<1> QED
  BY <1>6, <1>7, <1>9, <1>10

LEMMA AppendFacts ==
  ASSUME NEW A, NEW list \in Seq(A), NEW a \in A
  PROVE  /\ Append(list, a) \in Seq(A)
         /\ ToSet(Append(list, a)) = ToSet(list) \union {a}
         /\ Once(list) /\ a \notin ToSet(list) => Once(Append(list, a))
<1> DEFINE w == Append(list, a)
           n == Len(list)
<1>1. /\ w \in Seq(A) /\ n \in Nat /\ DOMAIN list = 1 .. n
      /\ DOMAIN w = 1 .. n + 1 /\ w[n + 1] = a
      /\ \A i \in 1 .. n : w[i] = list[i]
  OBVIOUS
<1> HIDE DEF w, n
<1>2. /\ \A i \in 1 .. n + 1 : i \in 1 .. n \/ i = n + 1
      /\ 1 .. n \subseteq 1 .. n + 1 /\ n + 1 \in 1 .. n + 1
  BY <1>1
<1>3. ToSet(w) = ToSet(list) \union {a}
  BY <1>1, <1>2 DEF ToSet
<1>4. ASSUME Once(list), a \notin ToSet(list) PROVE Once(w)
  <2>1. \A i \in 1 .. n : w[i] # a
    BY <1>1, <1>4 DEF ToSet
  <2> QED
    BY <1>1, <1>2, <1>4, <2>1 DEF Once
<1> QED
  BY <1>1, <1>3, <1>4 DEF w

(***************************************************************************)
(* The inductive invariant.  A session is whole only because the three     *)
(* lists agree: the client objects in use are exactly the listed ones, no  *)
(* two of them have one socket, and what a handler of an endpoint holds is *)
(* among them, so its search for a socket can end at no other client.      *)
(***************************************************************************)
ClientsOK ==
  /\ Once(clients)
  /\ ToSet(clients) = {a \in Addresses : socketOf[a] # None}
  /\ \A a, b \in ToSet(clients) : socketOf[a] = socketOf[b] => a = b
  /\ opened = {socketOf[a] : a \in ToSet(clients)}

HandlersOK ==
  /\ \A h \in Endpoints : ToSet(held[h]) \subseteq ToSet(clients)
  /\ told = {socketOf[a] : a \in ToSet(held[Events])}
  /\ buddy = ToSet(held[Events])
  /\ misused \subseteq {NotFound}

RequestOK == req # None => req.socket \in opened

HttpOK == HttpTypeOK /\ ClientsOK /\ HandlersOK /\ RequestOK

(* Every open socket has a client, and it is the one getClient() returns.  *)
LEMMA ClientOf ==
  ASSUME HttpTypeOK, ClientsOK, NEW s \in opened
  PROVE  /\ ServerClient(s) \in ToSet(clients)
         /\ ServerClient(s) \in Addresses
         /\ ServerClient(s) # None
         /\ socketOf[ServerClient(s)] = s
<1> DEFINE i == CHOOSE j \in DOMAIN clients : socketOf[clients[j]] = s
<1>1. \E j \in DOMAIN clients : socketOf[clients[j]] = s
  BY DEF ClientsOK, ToSet
<1>2. i \in DOMAIN clients /\ socketOf[clients[i]] = s
  BY <1>1
<1>3. ServerClient(s) = clients[i]
  BY <1>1 DEF ServerClient
<1>4. clients[i] \in ToSet(clients)
  BY <1>2 DEF ToSet
<1>5. ToSet(clients) \subseteq Addresses
  BY DEF ClientsOK
<1> QED
  BY <1>2, <1>3, <1>4, <1>5, HttpAssumption

LEMMA NoClient ==
  ASSUME ClientsOK, NEW s \in Sockets, s \notin opened
  PROVE  ServerClient(s) = None
<1>1. ~ \E j \in DOMAIN clients : socketOf[clients[j]] = s
  BY DEF ClientsOK, ToSet
<1> QED
  BY <1>1 DEF ServerClient

(* The search of an endpoint's handler: it ends at the client of the       *)
(* socket, or at none when the handler does not hold it, and it goes       *)
(* through no pointer to a freed client on its way.                        *)
LEMMA FoundIs ==
  ASSUME HttpTypeOK, ClientsOK, HandlersOK, NEW h \in Endpoints, NEW s \in opened,
         NEW i \in Found(h, s)
  PROVE  /\ i = 0 <=> ServerClient(s) \notin ToSet(held[h])
         /\ Misuse(h, i) = {}
<1> DEFINE c == ServerClient(s)
<1>1. c \in ToSet(clients) /\ c \in Addresses /\ c # None /\ socketOf[c] = s
  BY ClientOf
<1>2. held[h] \in Seq(Addresses)
  BY DEF HttpTypeOK, Handlers
<1>3. \A j \in DOMAIN held[h] : held[h][j] \in ToSet(held[h])
  BY DEF ToSet
<1>4. \A j \in DOMAIN held[h] :
        held[h][j] \in ToSet(clients) /\ socketOf[held[h][j]] # None
  BY <1>3 DEF HandlersOK, ClientsOK
<1>5. s # None
  BY HttpAssumption DEF HttpTypeOK
<1>6. i \in Stops(h, s) \union (IF MayMiss(h, s) THEN {0} ELSE {})
  BY <1>1 DEF Found
<1>7. \A j \in DOMAIN held[h] : j # 0
  BY <1>2
<1>8. ASSUME i = 0 PROVE c \notin ToSet(held[h])
  <2>1. i \notin Stops(h, s)
    BY <1>7, <1>8 DEF Stops
  <2>2. MayMiss(h, s)
    BY <2>1, <1>6
  <2> QED
    BY <2>2, <1>1 DEF MayMiss, ToSet
<1>9. ASSUME i # 0 PROVE c \in ToSet(held[h])
  <2>1. i \in Stops(h, s)
    BY <1>6, <1>9
  <2>2. i \in DOMAIN held[h] /\ socketOf[held[h][i]] \in {s, None}
    BY <2>1 DEF Stops
  <2>3. socketOf[held[h][i]] = s /\ held[h][i] \in ToSet(clients)
    BY <2>2, <1>4
  <2>4. held[h][i] = c
    BY <2>3, <1>1 DEF ClientsOK
  <2> QED
    BY <2>2, <2>4, <1>3
<1>10. 1 .. Searched(h, i) \subseteq DOMAIN held[h]
  <2>1. DOMAIN held[h] = 1 .. Len(held[h]) /\ Len(held[h]) \in Nat
    BY <1>2
  <2>2. CASE i = 0
    BY <2>1, <2>2 DEF Searched
  <2>3. CASE i # 0
    <3>1. i \in Stops(h, s)
      BY <1>6, <2>3
    <3>2. i \in DOMAIN held[h]
      BY <3>1 DEF Stops
    <3> QED
      BY <2>1, <2>3, <3>2 DEF Searched
  <2> QED
    BY <2>2, <2>3
<1>11. Misuse(h, i) = {}
  BY <1>10, <1>4 DEF Misuse, ReadsFreed
<1> QED
  BY <1>8, <1>9, <1>11

(* A handler takes a client in (checkForNewClient): it holds that client   *)
(* afterwards, new or not, and nothing else changes in any handler.        *)
LEMMA EntersKeeps ==
  ASSUME HttpTypeOK, ClientsOK, HandlersOK, NEW h \in Handlers, NEW s \in opened,
         NEW i \in Found(h, s), Enters(h, s, i)
  PROVE  /\ held' \in [Handlers -> Seq(Addresses)]
         /\ \A g \in Endpoints :
              ToSet(held'[g]) = IF g = h THEN ToSet(held[g]) \union {ServerClient(s)}
                                ELSE ToSet(held[g])
         /\ buddy' = ToSet(held'[Events]) /\ buddy' \subseteq Addresses
         /\ misused' \subseteq {NotFound} /\ misused' \subseteq Handlers
<1> DEFINE c == ServerClient(s)
<1>1. c \in ToSet(clients) /\ c \in Addresses /\ c # None /\ socketOf[c] = s
  BY ClientOf
<1>2. held \in [Handlers -> Seq(Addresses)] /\ buddy \subseteq Addresses
  BY DEF HttpTypeOK
<1>3. misused' \subseteq {NotFound} /\ misused' \subseteq Handlers
  <2>1. misused \subseteq {NotFound} /\ misused \subseteq Handlers
    BY DEF HandlersOK, HttpTypeOK
  <2>2. Misuse(h, i) \subseteq {NotFound}
    <3>1. CASE h \in Endpoints
      BY <3>1, FoundIs, Zenon
    <3>2. CASE h = NotFound
      BY <3>2 DEF Misuse
    <3> QED
      BY <3>1, <3>2 DEF Handlers
  <2> QED
    BY <2>1, <2>2 DEF Enters, Handlers
<1>4. Events \in Handlers /\ Events \in Endpoints /\ Endpoints \subseteq Handlers
  BY DEF Handlers, Endpoints
<1>5. buddy = ToSet(held[Events])
  BY DEF HandlersOK
<1>6. CASE i # 0
  <2>1. held' = held /\ buddy' = buddy
    BY <1>6 DEF Enters
  <2>2. h \in Endpoints => c \in ToSet(held[h])
    BY <1>6, FoundIs, Zenon
  <2> QED
    BY <2>1, <2>2, <1>2, <1>3, <1>5
<1>7. CASE i = 0
  <2>1. /\ held' = [held EXCEPT ![h] = Append(@, c)]
        /\ buddy' = IF h = Events THEN buddy \union {c} ELSE buddy
    BY <1>7 DEF Enters
  <2>2. held[h] \in Seq(Addresses)
    BY <1>2
  <2> DEFINE l == held[h]
             w == Append(l, c)
  <2>3. w \in Seq(Addresses) /\ ToSet(w) = ToSet(l) \union {c}
    BY <2>2, <1>1, AppendFacts
  <2> HIDE DEF w, c
  <2>4. held' = [held EXCEPT ![h] = w]
    BY <2>1 DEF w
  <2>5. held' \in [Handlers -> Seq(Addresses)]
    BY <2>3, <2>4, <1>2
  <2>6. \A g \in Handlers : held'[g] = IF g = h THEN w ELSE held[g]
    BY <2>4, <1>2
  <2>7. \A g \in Handlers : ToSet(held'[g]) = IF g = h THEN ToSet(held[g]) \union {c}
                                              ELSE ToSet(held[g])
    BY <2>6, <2>3
  <2>8. buddy' = ToSet(held'[Events]) /\ buddy' \subseteq Addresses
    BY <2>1, <2>7, <1>1, <1>2, <1>4, <1>5
  <2> QED
    BY <2>5, <2>7, <2>8, <1>3, <1>4 DEF c
<1> QED
  BY <1>6, <1>7

LEMMA HttpStarts == HttpInit => HttpOK
<1> SUFFICES ASSUME HttpInit PROVE HttpOK
  OBVIOUS
<1>1. HttpTypeOK
  BY DEF HttpInit, HttpTypeOK
<1>2. ToSet(<<>>) = {} /\ Once(<<>>)
  BY DEF ToSet, Once
<1>3. ClientsOK
  BY <1>2 DEF HttpInit, ClientsOK
<1>4. HandlersOK
  <2>1. \A h \in Handlers : held[h] = <<>>
    BY DEF HttpInit
  <2> QED
    BY <1>2, <2>1 DEF HttpInit, HandlersOK, Handlers, Endpoints
<1> QED
  BY <1>1, <1>3, <1>4 DEF HttpOK, RequestOK, HttpInit

LEMMA ConnectKeeps ==
  ASSUME HttpOK, NEW s \in Sockets, NEW a \in Addresses, Connect(s, a)
  PROVE  HttpOK'
<1> USE DEF HttpOK
<1>1. /\ opened' = opened \union {s} /\ s \notin opened
      /\ clients' = Append(clients, a)
      /\ socketOf' = [socketOf EXCEPT ![a] = s] /\ socketOf[a] = None
      /\ buddy' = buddy /\ held' = held /\ told' = told /\ misused' = misused
      /\ req' = req /\ req = None
  BY NoClient DEF Connect, handlers
<1>2. s # None /\ a # None
  BY HttpAssumption
<1>3. clients \in Seq(Addresses) /\ socketOf \in [Addresses -> Sockets \union {None}]
  BY DEF HttpTypeOK
<1>4. a \notin ToSet(clients)
  BY <1>1 DEF ClientsOK
<1>5. /\ clients' \in Seq(Addresses)
      /\ ToSet(clients') = ToSet(clients) \union {a}
      /\ Once(clients')
  BY <1>1, <1>3, <1>4, AppendFacts DEF ClientsOK
<1>6. \A b \in Addresses : socketOf'[b] = IF b = a THEN s ELSE socketOf[b]
  BY <1>1, <1>3
<1>7. HttpTypeOK'
  BY <1>1, <1>3, <1>5 DEF HttpTypeOK
<1>8. \A b \in ToSet(clients) : b \in Addresses /\ b # a /\ socketOf[b] # s /\ socketOf'[b] = socketOf[b]
  BY <1>1, <1>4, <1>6 DEF ClientsOK
<1>9. ClientsOK'
  <2>1. ToSet(clients') = {b \in Addresses : socketOf'[b] # None}
    BY <1>5, <1>6, <1>2 DEF ClientsOK
  <2>2. \A b, d \in ToSet(clients') : socketOf'[b] = socketOf'[d] => b = d
    BY <1>5, <1>6, <1>8 DEF ClientsOK
  <2>3. opened' = {socketOf'[b] : b \in ToSet(clients')}
    <3>1. opened = {socketOf[b] : b \in ToSet(clients)}
      BY DEF ClientsOK
    <3> QED
      BY <3>1, <1>1, <1>5, <1>6, <1>8
  <2> QED
    BY <1>5, <2>1, <2>2, <2>3 DEF ClientsOK
<1>10. HandlersOK'
  <2>1. \A h \in Endpoints : ToSet(held[h]) \subseteq ToSet(clients)
    BY DEF HandlersOK
  <2>2. told = {socketOf[b] : b \in ToSet(held[Events])}
    BY DEF HandlersOK
  <2>3. \A b \in ToSet(held[Events]) : socketOf'[b] = socketOf[b]
    BY <2>1, <1>8 DEF Endpoints
  <2> QED
    BY <2>1, <2>2, <2>3, <1>1, <1>5 DEF HandlersOK
<1> QED
  BY <1>1, <1>7, <1>9, <1>10 DEF RequestOK

LEMMA SubscribeKeeps ==
  ASSUME HttpOK, NEW s \in Sockets, Subscribe(s)
  PROVE  HttpOK'
<1> USE DEF HttpOK
<1> DEFINE c == ServerClient(s)
<1>1. /\ s \in opened /\ opened' = opened /\ clients' = clients /\ socketOf' = socketOf
      /\ req' = req
  BY DEF Subscribe, connections
<1>2. PICK i \in Found(Events, s) :
        Enters(Events, s, i) /\ told' = IF i = 0 THEN told \union {s} ELSE told
  BY DEF Subscribe
<1>3. Events \in Handlers /\ Events \in Endpoints
  BY DEF Handlers, Endpoints
<1>4. c \in ToSet(clients) /\ socketOf[c] = s
  BY <1>1, ClientOf
<1>5. /\ held' \in [Handlers -> Seq(Addresses)]
      /\ \A g \in Endpoints :
           ToSet(held'[g]) = IF g = Events THEN ToSet(held[g]) \union {c} ELSE ToSet(held[g])
      /\ buddy' = ToSet(held'[Events]) /\ buddy' \subseteq Addresses
      /\ misused' \subseteq {NotFound} /\ misused' \subseteq Handlers
  BY <1>1, <1>2, <1>3, EntersKeeps
<1>6. told' = {socketOf'[b] : b \in ToSet(held'[Events])}
  <2>1. told = {socketOf[b] : b \in ToSet(held[Events])}
    BY DEF HandlersOK
  <2>2. ToSet(held'[Events]) = ToSet(held[Events]) \union {c}
    BY <1>3, <1>5
  <2>3. i # 0 => c \in ToSet(held[Events])
    BY <1>1, <1>2, <1>3, FoundIs
  <2> HIDE DEF c
  <2> QED
    BY <2>1, <2>2, <2>3, <1>1, <1>2, <1>4
<1>7. HandlersOK'
  <2>1. \A h \in Endpoints : ToSet(held[h]) \subseteq ToSet(clients)
    BY DEF HandlersOK
  <2> QED
    BY <2>1, <1>1, <1>4, <1>5, <1>6 DEF HandlersOK
<1>8. HttpTypeOK'
  <2>1. told' \subseteq Sockets
    BY <1>2 DEF HttpTypeOK
  <2> QED
    BY <2>1, <1>1, <1>5 DEF HttpTypeOK
<1>9. ClientsOK' /\ RequestOK'
  BY <1>1 DEF ClientsOK, RequestOK
<1> QED
  BY <1>7, <1>8, <1>9

LEMMA RequestKeeps ==
  ASSUME HttpOK, NEW s \in Sockets, NEW h \in Web \union {NotFound}, NEW n \in Nat,
         Request(s, h, n)
  PROVE  HttpOK'
<1> USE DEF HttpOK
<1>1. /\ s \in opened /\ opened' = opened /\ clients' = clients /\ socketOf' = socketOf
      /\ told' = told
  BY DEF Request, connections
<1>2. PICK i \in Found(h, s) : Enters(h, s, i)
  BY DEF Request
<1>3. h \in Handlers /\ Events \in Endpoints /\ h # Events
  BY HttpAssumption DEF Handlers, Endpoints
<1>4. ServerClient(s) \in ToSet(clients)
  BY <1>1, ClientOf
<1>5. /\ held' \in [Handlers -> Seq(Addresses)]
      /\ \A g \in Endpoints :
           ToSet(held'[g]) = IF g = h THEN ToSet(held[g]) \union {ServerClient(s)}
                             ELSE ToSet(held[g])
      /\ buddy' = ToSet(held'[Events]) /\ buddy' \subseteq Addresses
      /\ misused' \subseteq {NotFound} /\ misused' \subseteq Handlers
  BY <1>1, <1>2, <1>3, EntersKeeps
<1>6. HandlersOK'
  <2>1. \A g \in Endpoints : ToSet(held[g]) \subseteq ToSet(clients)
    BY DEF HandlersOK
  <2>2. told' = {socketOf'[b] : b \in ToSet(held'[Events])}
    BY <1>1, <1>3, <1>5 DEF HandlersOK
  <2> QED
    BY <2>1, <2>2, <1>1, <1>4, <1>5 DEF HandlersOK
<1>7. /\ req' \in [socket : Sockets, handler : Handlers, phase : {"body", "call", "drop"},
                   announced : Nat, got : Nat, gone : BOOLEAN]
      /\ req'.socket = s
  BY <1>3 DEF Request
<1>8. HttpTypeOK'
  BY <1>1, <1>5, <1>7 DEF HttpTypeOK
<1>9. ClientsOK' /\ RequestOK'
  BY <1>1, <1>7 DEF ClientsOK, RequestOK
<1> QED
  BY <1>6, <1>8, <1>9

(* While a request is served, only the request changes.                    *)
LEMMA ServingKeeps ==
  ASSUME HttpOK,
         (\E n \in 1 .. MaxBody : Receive(n)) \/ PeerCloses \/ ReceiveFails \/ CallEndpoint
  PROVE  HttpOK'
<1> USE DEF HttpOK
<1>1. /\ opened' = opened /\ clients' = clients /\ socketOf' = socketOf
      /\ buddy' = buddy /\ held' = held /\ told' = told /\ misused' = misused
  BY DEF Receive, PeerCloses, ReceiveFails, CallEndpoint, connections, handlers
<1> DEFINE R == [socket : Sockets, handler : Handlers, phase : {"body", "call", "drop"},
                 announced : Nat, got : Nat, gone : BOOLEAN]
<1>2. req # None => req \in R /\ req.socket \in opened
  BY DEF HttpTypeOK, RequestOK
<1>3. req' = None \/ (req' \in R /\ req'.socket \in opened)
  <2>1. CASE \E n \in 1 .. MaxBody : Receive(n)
    <3>1. PICK n \in 1 .. MaxBody : Receive(n)
      BY <2>1
    <3>2. n \in Nat
      BY HttpAssumption
    <3>3. /\ req # None
          /\ req' = [req EXCEPT !.got = @ + n,
                                !.phase = IF req.got + n = req.announced THEN "call" ELSE @]
      BY <3>1, Zenon DEF Receive, Reading
    <3>4. req \in R /\ req.socket \in opened
      BY <3>3, <1>2
    <3> DEFINE m == req.got + n
               p == IF m = req.announced THEN "call" ELSE req.phase
    <3>5. m \in Nat /\ p \in {"body", "call", "drop"}
      <4>1. req.got \in Nat /\ req.phase \in {"body", "call", "drop"}
        BY <3>4
      <4>2. m \in Nat
        BY <4>1, <3>2
      <4> HIDE DEF m
      <4> QED
        BY <4>1, <4>2
    <3>6. req' = [req EXCEPT !.got = m, !.phase = p]
      BY <3>3
    <3> HIDE DEF m, p
    <3> QED
      BY <3>4, <3>5, <3>6
  <2>2. CASE PeerCloses
    BY <2>2, <1>2 DEF PeerCloses, Reading
  <2>3. CASE ReceiveFails
    BY <2>3, <1>2 DEF ReceiveFails, Reading
  <2>4. CASE CallEndpoint
    BY <2>4 DEF CallEndpoint
  <2> QED
    BY <2>1, <2>2, <2>3, <2>4
<1>4. HttpTypeOK'
  BY <1>1, <1>3 DEF HttpTypeOK
<1>5. ClientsOK' /\ HandlersOK' /\ RequestOK'
  BY <1>1, <1>3 DEF ClientsOK, HandlersOK, RequestOK
<1> QED
  BY <1>4, <1>5

(* A connection ends: its client leaves every list at once, and the stream *)
(* is reported closed exactly when it was reported open.                   *)
LEMMA CloseClientKeeps ==
  ASSUME HttpTypeOK, ClientsOK, HandlersOK, NEW s \in opened, CloseClient(s),
         req' \in {req, None}
  PROVE  HttpTypeOK' /\ ClientsOK' /\ HandlersOK' /\ opened' = opened \ {s}
<1> DEFINE c == ServerClient(s)
<1>1. PICK found \in [Endpoints -> UNION {Found(h, s) : h \in Endpoints}] :
        /\ \A h \in Endpoints : found[h] \in Found(h, s)
        /\ misused' = misused \union UNION {Misuse(h, found[h]) : h \in Endpoints}
        /\ held' = [h \in Handlers |->
                      IF h \in Endpoints /\ found[h] # 0 THEN WithoutClient(held[h], c)
                      ELSE held[h]]
        /\ told' = IF found[Events] # 0 THEN told \ {s} ELSE told
        /\ buddy' = IF found[Events] # 0 THEN buddy \ {c} ELSE buddy
  BY DEF CloseClient
<1>2. /\ clients' = WithoutClient(clients, c)
      /\ socketOf' = [socketOf EXCEPT ![c] = None]
      /\ opened' = opened \ {s}
  BY DEF CloseClient
<1>3. c \in ToSet(clients) /\ c \in Addresses /\ c # None /\ socketOf[c] = s
  BY ClientOf
<1>4. \A h \in Endpoints : (found[h] = 0 <=> c \notin ToSet(held[h])) /\ Misuse(h, found[h]) = {}
  BY <1>1, FoundIs
<1>5. Events \in Endpoints /\ Endpoints \subseteq Handlers
  BY DEF Endpoints, Handlers
<1> HIDE DEF c
<1>6. /\ clients \in Seq(Addresses) /\ socketOf \in [Addresses -> Sockets \union {None}]
      /\ held \in [Handlers -> Seq(Addresses)]
  BY DEF HttpTypeOK
<1>7. /\ clients' \in Seq(Addresses)
      /\ ToSet(clients') = ToSet(clients) \ {c}
      /\ Once(clients')
  BY <1>2, <1>6, WithoutFacts DEF ClientsOK
<1>8. \A b \in Addresses : socketOf'[b] = IF b = c THEN None ELSE socketOf[b]
  BY <1>2, <1>6
<1>9. \A b \in ToSet(clients) : b \in Addresses /\ (socketOf[b] = s => b = c)
  BY <1>3 DEF ClientsOK
<1>10. ClientsOK'
  <2>1. ToSet(clients') = {b \in Addresses : socketOf'[b] # None}
    BY <1>7, <1>8 DEF ClientsOK
  <2>2. \A b, d \in ToSet(clients') : socketOf'[b] = socketOf'[d] => b = d
    BY <1>7, <1>8, <1>9 DEF ClientsOK
  <2>3. opened' = {socketOf'[b] : b \in ToSet(clients')}
    <3>1. opened = {socketOf[b] : b \in ToSet(clients)}
      BY DEF ClientsOK
    <3> QED
      BY <3>1, <1>2, <1>3, <1>7, <1>8, <1>9
  <2> QED
    BY <1>7, <2>1, <2>2, <2>3 DEF ClientsOK
<1>11. \A h \in Handlers :
         /\ held'[h] \in Seq(Addresses)
         /\ h \in Endpoints => ToSet(held'[h]) = ToSet(held[h]) \ {c}
  <2> TAKE h \in Handlers
  <2>1. held[h] \in Seq(Addresses)
    BY <1>6
  <2>2. held'[h] = IF h \in Endpoints /\ found[h] # 0 THEN WithoutClient(held[h], c) ELSE held[h]
    BY <1>1 DEF c
  <2>3. CASE h \in Endpoints /\ found[h] # 0
    BY <2>1, <2>2, <2>3, WithoutFacts
  <2>4. CASE ~ (h \in Endpoints /\ found[h] # 0)
    <3>1. h \in Endpoints => c \notin ToSet(held[h])
      BY <1>4, <2>4 DEF c
    <3> QED
      BY <2>1, <2>2, <2>4, <3>1
  <2> QED
    BY <2>3, <2>4
<1>12. held' \in [Handlers -> Seq(Addresses)]
  <2>1. held' = [h \in Handlers |-> held'[h]]
    BY <1>1
  <2> QED
    BY <2>1, <1>11
<1>13. HandlersOK'
  <2>1. \A h \in Endpoints : ToSet(held[h]) \subseteq ToSet(clients)
    BY DEF HandlersOK
  <2>2. \A h \in Endpoints : ToSet(held'[h]) \subseteq ToSet(clients')
    BY <2>1, <1>5, <1>7, <1>11
  <2>3. ToSet(held'[Events]) = ToSet(held[Events]) \ {c}
    BY <1>5, <1>11
  <2>4. buddy' = ToSet(held'[Events])
    <3>1. buddy = ToSet(held[Events])
      BY DEF HandlersOK
    <3> QED
      BY <3>1, <2>3, <1>1, <1>4, <1>5 DEF c
  <2>5. told' = {socketOf'[b] : b \in ToSet(held'[Events])}
    <3>1. told = {socketOf[b] : b \in ToSet(held[Events])}
      BY DEF HandlersOK
    <3>2. \A b \in ToSet(held[Events]) : b \in Addresses /\ (socketOf[b] = s => b = c)
      BY <2>1, <1>5, <1>9
    <3>3. told' = told \ {s}
      <4>1. c \notin ToSet(held[Events]) => s \notin told
        BY <3>1, <3>2
      <4> QED
        BY <4>1, <1>1, <1>4, <1>5 DEF c
    <3> QED
      BY <3>1, <3>2, <3>3, <2>3, <1>3, <1>8
  <2>6. misused' \subseteq {NotFound}
    <3>1. misused' = misused
      BY <1>1, <1>4
    <3> QED
      BY <3>1 DEF HandlersOK
  <2> QED
    BY <2>2, <2>4, <2>5, <2>6 DEF HandlersOK
<1>14. HttpTypeOK'
  <2>1. opened' \subseteq Sockets /\ told' \subseteq Sockets /\ buddy' \subseteq Addresses
    BY <1>1, <1>2 DEF HttpTypeOK
  <2>2. socketOf' \in [Addresses -> Sockets \union {None}]
    BY <1>2, <1>6
  <2>3. misused' \subseteq Handlers
    BY <1>13 DEF HandlersOK, Handlers
  <2>4. req' \in {None} \union
         [socket : Sockets, handler : Handlers, phase : {"body", "call", "drop"},
          announced : Nat, got : Nat, gone : BOOLEAN]
    BY DEF HttpTypeOK
  <2> QED
    BY <2>1, <2>2, <2>3, <2>4, <1>7, <1>12 DEF HttpTypeOK
<1> QED
  BY <1>2, <1>10, <1>13, <1>14

LEMMA CloseKeeps ==
  ASSUME HttpOK, NEW s \in Sockets, Close(s)
  PROVE  HttpOK'
<1>1. s \in opened /\ CloseClient(s) /\ req' = req /\ req = None
  BY DEF Close
<1>2. HttpTypeOK' /\ ClientsOK' /\ HandlersOK'
  BY <1>1, CloseClientKeeps DEF HttpOK
<1> QED
  BY <1>1, <1>2 DEF HttpOK, RequestOK

LEMMA DropKeeps ==
  ASSUME HttpOK, Drop
  PROVE  HttpOK'
<1>1. req.socket \in opened /\ CloseClient(req.socket) /\ req' = None
  BY DEF Drop, HttpOK, RequestOK
<1>2. HttpTypeOK' /\ ClientsOK' /\ HandlersOK'
  BY <1>1, CloseClientKeeps DEF HttpOK
<1> QED
  BY <1>1, <1>2 DEF HttpOK, RequestOK

(* Connections: one inductive invariant for the lists of the server and of *)
(* every handler.                                                          *)
THEOREM HttpCorrect == HttpSpec => []HttpOK
<1>1. HttpInit => HttpOK
  BY HttpStarts
<1>2. HttpOK /\ [HttpNext]_httpVars => HttpOK'
  <2> SUFFICES ASSUME HttpOK, [HttpNext]_httpVars PROVE HttpOK'
    OBVIOUS
  <2>0. 0 .. MaxBody \subseteq Nat
    BY HttpAssumption
  <2>1. CASE \E s \in Sockets, a \in Addresses : Connect(s, a)
    BY <2>1, ConnectKeeps
  <2>2. CASE \E s \in Sockets : Subscribe(s)
    BY <2>2, SubscribeKeeps
  <2>3. CASE \E s \in Sockets, h \in Web \union {NotFound}, n \in 0..MaxBody : Request(s, h, n)
    BY <2>0, <2>3, RequestKeeps
  <2>4. CASE (\E n \in 1..MaxBody : Receive(n)) \/ PeerCloses \/ ReceiveFails \/ CallEndpoint
    BY <2>4, ServingKeeps
  <2>5. CASE \E s \in Sockets : Close(s)
    BY <2>5, CloseKeeps
  <2>6. CASE Drop
    BY <2>6, DropKeeps
  <2>7. CASE ReceiveAgain \/ ReadsNothing \/ UNCHANGED httpVars
    <3>1. /\ opened' = opened /\ clients' = clients /\ socketOf' = socketOf
          /\ buddy' = buddy /\ held' = held /\ told' = told /\ misused' = misused
          /\ req' = req
      BY <2>7 DEF ReceiveAgain, ReadsNothing, httpVars, connections, handlers
    <3> QED
      BY <3>1 DEF HttpOK, HttpTypeOK, ClientsOK, HandlersOK, RequestOK
  <2> QED
    BY <2>1, <2>2, <2>3, <2>4, <2>5, <2>6, <2>7, Zenon DEF HttpNext
<1> QED
  BY <1>1, <1>2, PTL DEF HttpSpec

(* A session, its client object and its stream live and die together, and  *)
(* no handler of an endpoint goes through a pointer to a client that was   *)
(* freed, whatever sockets and addresses are reused                        *)
(* (PsychicHttpServer.cpp:574-620).                                        *)
THEOREM SessionsAlwaysWhole == HttpSpec => []SessionsAreWhole
<1>1. HttpOK => SessionsAreWhole
  <2> SUFFICES ASSUME HttpOK PROVE SessionsAreWhole
    OBVIOUS
  <2>0. HttpTypeOK /\ ClientsOK /\ HandlersOK
    BY DEF HttpOK
  <2>1. ASSUME NEW s \in opened
        PROVE  Cardinality({i \in DOMAIN clients : socketOf[clients[i]] = s}) = 1
    <3>1. ServerClient(s) \in ToSet(clients) /\ socketOf[ServerClient(s)] = s
      BY <2>0, <2>1, ClientOf
    <3>2. PICK k \in DOMAIN clients : clients[k] = ServerClient(s)
      BY <3>1 DEF ToSet
    <3>3. \A i \in DOMAIN clients : clients[i] \in ToSet(clients)
      BY DEF ToSet
    <3>4. \A i \in DOMAIN clients : socketOf[clients[i]] = s <=> i = k
      BY <2>0, <3>1, <3>2, <3>3 DEF ClientsOK, Once
    <3>5. {i \in DOMAIN clients : socketOf[clients[i]] = s} = {k}
      BY <3>2, <3>4
    <3> QED
      BY <3>5, FS_Singleton
  <2>2. \A i \in DOMAIN clients : socketOf[clients[i]] \in opened
    BY <2>0 DEF ClientsOK, ToSet
  <2>3. StreamsArePaired
    <3>1. {socketOf[a] : a \in ToSet(held[Events])}
            = {socketOf[held[Events][i]] : i \in DOMAIN held[Events]}
      BY DEF ToSet
    <3>2. ToSet(held[Events]) \subseteq ToSet(clients)
      BY <2>0 DEF HandlersOK, Endpoints
    <3>3. told \subseteq opened
      BY <2>0, <3>2 DEF HandlersOK, ClientsOK
    <3> QED
      BY <2>0, <3>1, <3>3 DEF HandlersOK, StreamsArePaired
  <2> QED
    BY <2>0, <2>1, <2>2, <2>3
    DEF SessionsAreWhole, EverySessionHasItsClient, EndpointsReadLiveClients, HandlersOK
<1> QED
  BY HttpCorrect, <1>1, PTL

-----------------------------------------------------------------------------
(***************************************************************************)
(* The routes, for any clients.                                            *)
(***************************************************************************)

LEMMA HasMin ==
  ASSUME NEW S \in SUBSET Nat, S # {}
  PROVE  Min(S) \in S /\ \A k \in S : Min(S) <= k
<1>1. PICK m \in S : \A k \in S : ~ (<<k, m>> \in OpToRel(<, Nat))
  BY NatLessThanWellFounded, WFMin, Zenon
<1>2. \A k \in S : m <= k
  <2> SUFFICES ASSUME NEW k \in S, k < m PROVE FALSE
    OBVIOUS
  <2>1. <<k, m>> \in OpToRel(<, Nat)
    BY DEF OpToRel
  <2> QED
    BY <1>1, <2>1
<1> QED
  BY <1>2 DEF Min

(* A request is accepted only when every check of its route has passed.    *)
LEMMA AllPassed ==
  ASSUME NEW checks, NEW n \in Nat, DOMAIN checks = 1 .. n,
         \A k \in 1 .. n : checks[k][2] # Fine,
         FirstOf(checks) = Fine
  PROVE  \A k \in 1 .. n : ~ checks[k][1]
<1> DEFINE hits == {k \in DOMAIN checks : checks[k][1]}
<1>1. SUFFICES hits = {}
  BY <1>1
<1>2. SUFFICES ASSUME hits # {} PROVE FALSE
  BY <1>2
<1>3. FirstOf(checks) = checks[Min(hits)][2]
  BY <1>2 DEF FirstOf
<1>4. Min(hits) \in hits
  <2>1. hits \in SUBSET Nat
    OBVIOUS
  <2> HIDE DEF hits
  <2> QED
    BY <2>1, <1>2, HasMin
<1> QED
  BY <1>3, <1>4

(* When the first check fails, it gives the answer.                        *)
LEMMA FirstFails ==
  ASSUME NEW checks, NEW n \in Nat \ {0}, DOMAIN checks = 1 .. n, checks[1][1]
  PROVE  FirstOf(checks) = checks[1][2]
<1> DEFINE hits == {k \in DOMAIN checks : checks[k][1]}
<1>1. 1 \in hits /\ \A k \in hits : 1 <= k
  OBVIOUS
<1>2. Min(hits) = 1
  <2>1. hits \in SUBSET Nat
    OBVIOUS
  <2> HIDE DEF hits
  <2>2. Min(hits) \in hits /\ Min(hits) <= 1
    BY <1>1, <2>1, HasMin
  <2>3. Min(hits) >= 1 /\ Min(hits) \in Nat
    BY <1>1, <2>1, <2>2
  <2> QED
    BY <2>2, <2>3
<1> QED
  BY <1>1, <1>2 DEF FirstOf

(* How many checks the longer lists have.                                  *)
LEMMA UpdateLength == ASSUME NEW r PROVE DOMAIN UpdateChecks(r) = 1 .. 8
BY DEF UpdateChecks

LEMMA StartLength == ASSUME NEW r PROVE DOMAIN StartChecks(r) = 1 .. 7
BY DEF StartChecks

LEMMA PutHardwareLength == ASSUME NEW r PROVE DOMAIN PutHardwareChecks(r) = 1 .. 6
BY DEF PutHardwareChecks

LEMMA PutWifiLength == ASSUME NEW r PROVE DOMAIN PutWifiChecks(r) = 1 .. 6
BY DEF PutWifiChecks

LEMMA FirmwareLength == ASSUME NEW r PROVE DOMAIN FirmwareChecks(r) = 1 .. 6
BY DEF FirmwareChecks

LEMMA UpdatePassed ==
  ASSUME NEW r, FirstOf(UpdateChecks(r)) = Fine
  PROVE  ProgramAt(r.path) # Shipped /\ ProgramAt(r.path) # loaded
<1> DEFINE l == UpdateChecks(r)
<1>1. DOMAIN UpdateChecks(r) = 1 .. 8
  BY UpdateLength
<1>2. /\ l[1][2] = "control_lock_credentials_required"
      /\ l[2][2] = "program_not_found"
      /\ l[3][2] = "program_readonly"
      /\ l[4][2] = "program_loaded"
      /\ l[5][2] = "program_invalid"
      /\ l[6][2] = "program_id_mismatch"
      /\ l[7][2] = "program_invalid"
      /\ l[8][2] = "program_store_failed"
  BY DEF UpdateChecks, LockedOut, Busy, WindowClosed
<1>3. \A k \in 1 .. 8 : l[k][2] # Fine
  <2> HIDE DEF l
  <2> QED
    BY <1>2 DEF Fine
<1>4. ~ l[3][1] /\ ~ l[4][1]
  <2> HIDE DEF l
  <2>1. \A k \in 1 .. 8 : ~ l[k][1]
    BY <1>1, <1>3, AllPassed DEF l
  <2> QED
    BY <2>1
<1> QED
  BY <1>4 DEF UpdateChecks, LockedOut, Busy, WindowClosed

LEMMA DeletePassed ==
  ASSUME NEW r, FirstOf(DeleteChecks(r)) = Fine
  PROVE  DeletedAt(r.path) # Shipped
<1> DEFINE l == DeleteChecks(r)
<1>1. DOMAIN DeleteChecks(r) = 1 .. 4
  BY DEF DeleteChecks
<1>2. /\ l[1][2] = "control_lock_credentials_required"
      /\ l[2][2] = "route_not_found"
      /\ l[3][2] = "program_not_found"
      /\ l[4][2] = "program_readonly"
  BY DEF DeleteChecks, LockedOut, Busy, WindowClosed
<1>3. \A k \in 1 .. 4 : l[k][2] # Fine
  <2> HIDE DEF l
  <2> QED
    BY <1>2 DEF Fine
<1>4. ~ l[4][1]
  <2> HIDE DEF l
  <2>1. \A k \in 1 .. 4 : ~ l[k][1]
    BY <1>1, <1>3, AllPassed DEF l
  <2> QED
    BY <2>1
<1> QED
  BY <1>4 DEF DeleteChecks, LockedOut, Busy, WindowClosed

LEMMA DeleteAudioPassed ==
  ASSUME NEW r, FirstOf(DeleteAudioChecks(r)) = Fine
  PROVE  ClipAt(r.path) # Shipped /\ ~ InUse(ClipAt(r.path))
<1> DEFINE l == DeleteAudioChecks(r)
<1>1. DOMAIN DeleteAudioChecks(r) = 1 .. 7
  BY DEF DeleteAudioChecks
<1>2. /\ l[1][2] = "control_lock_credentials_required"
      /\ l[2][2] = "route_not_found"
      /\ l[3][2] = "audio_not_found"
      /\ l[4][2] = "audio_readonly"
      /\ l[5][2] = "audio_in_use"
      /\ l[6][2] = "program_running"
      /\ l[7][2] = "audio_playing"
  BY DEF DeleteAudioChecks, LockedOut, Busy, WindowClosed
<1>3. \A k \in 1 .. 7 : l[k][2] # Fine
  <2> HIDE DEF l
  <2> QED
    BY <1>2 DEF Fine
<1>4. ~ l[4][1] /\ ~ l[5][1]
  <2> HIDE DEF l
  <2>1. \A k \in 1 .. 7 : ~ l[k][1]
    BY <1>1, <1>3, AllPassed DEF l
  <2> QED
    BY <2>1
<1> QED
  BY <1>4 DEF DeleteAudioChecks, LockedOut, Busy, WindowClosed

LEMMA StartPassed ==
  ASSUME NEW r, FirstOf(StartChecks(r)) = Fine
  PROVE  loaded # NoId
<1> DEFINE l == StartChecks(r)
<1>1. DOMAIN StartChecks(r) = 1 .. 7
  BY StartLength
<1>2. /\ l[1][2] = "control_lock_credentials_required"
      /\ l[2][2] = "program_running"
      /\ l[3][2] = "start_id_required"
      /\ l[4][2] = "no_program_loaded"
      /\ l[5][2] = "start_program_mismatch"
      /\ l[6][2] = "program_banks_unavailable"
      /\ l[7][2] = "no_program_loaded"
  BY DEF StartChecks, LockedOut, Busy, WindowClosed
<1>3. \A k \in 1 .. 7 : l[k][2] # Fine
  <2> HIDE DEF l
  <2> QED
    BY <1>2 DEF Fine
<1>4. ~ l[4][1]
  <2> HIDE DEF l
  <2>1. \A k \in 1 .. 7 : ~ l[k][1]
    BY <1>1, <1>3, AllPassed DEF l
  <2> QED
    BY <2>1
<1> QED
  BY <1>4 DEF StartChecks, LockedOut, Busy, WindowClosed

LEMMA PutHardwarePassed ==
  ASSUME NEW r, FirstOf(PutHardwareChecks(r)) = Fine
  PROVE  ~ running /\ WindowOpen
<1> DEFINE l == PutHardwareChecks(r)
<1>1. DOMAIN PutHardwareChecks(r) = 1 .. 6
  BY PutHardwareLength
<1>2. /\ l[1][2] = "control_lock_credentials_required"
      /\ l[2][2] = "hardware_config_invalid"
      /\ l[3][2] = "hardware_config_serial_only"
      /\ l[4][2] = "program_running"
      /\ l[5][2] = "hardware_config_window_closed"
      /\ l[6][2] = "hardware_config_invalid"
  BY DEF PutHardwareChecks, LockedOut, Busy, WindowClosed
<1>3. \A k \in 1 .. 6 : l[k][2] # Fine
  <2> HIDE DEF l
  <2> QED
    BY <1>2 DEF Fine
<1>4. ~ l[4][1] /\ ~ l[5][1]
  <2> HIDE DEF l
  <2>1. \A k \in 1 .. 6 : ~ l[k][1]
    BY <1>1, <1>3, AllPassed DEF l
  <2> QED
    BY <2>1
<1> QED
  BY <1>4 DEF PutHardwareChecks, LockedOut, Busy, WindowClosed

LEMMA ResetHardwarePassed ==
  ASSUME NEW r, FirstOf(ResetHardwareChecks(r)) = Fine
  PROVE  ~ running /\ WindowOpen
<1> DEFINE l == ResetHardwareChecks(r)
<1>1. DOMAIN ResetHardwareChecks(r) = 1 .. 3
  BY DEF ResetHardwareChecks
<1>2. /\ l[1][2] = "control_lock_credentials_required"
      /\ l[2][2] = "program_running"
      /\ l[3][2] = "hardware_config_window_closed"
  BY DEF ResetHardwareChecks, LockedOut, Busy, WindowClosed
<1>3. \A k \in 1 .. 3 : l[k][2] # Fine
  <2> HIDE DEF l
  <2> QED
    BY <1>2 DEF Fine
<1>4. ~ l[2][1] /\ ~ l[3][1]
  <2> HIDE DEF l
  <2>1. \A k \in 1 .. 3 : ~ l[k][1]
    BY <1>1, <1>3, AllPassed DEF l
  <2> QED
    BY <2>1
<1> QED
  BY <1>4 DEF ResetHardwareChecks, LockedOut, Busy, WindowClosed

LEMMA PutWifiPassed ==
  ASSUME NEW r, FirstOf(PutWifiChecks(r)) = Fine
  PROVE  ~ running /\ WindowOpen
<1> DEFINE l == PutWifiChecks(r)
<1>1. DOMAIN PutWifiChecks(r) = 1 .. 6
  BY PutWifiLength
<1>2. /\ l[1][2] = "control_lock_credentials_required"
      /\ l[2][2] = "wifi_credentials_invalid"
      /\ l[3][2] = "program_running"
      /\ l[4][2] = "hardware_config_window_closed"
      /\ l[5][2] = "wifi_credentials_invalid"
      /\ l[6][2] = "wifi_store_failed"
  BY DEF PutWifiChecks, LockedOut, Busy, WindowClosed
<1>3. \A k \in 1 .. 6 : l[k][2] # Fine
  <2> HIDE DEF l
  <2> QED
    BY <1>2 DEF Fine
<1>4. ~ l[3][1] /\ ~ l[4][1]
  <2> HIDE DEF l
  <2>1. \A k \in 1 .. 6 : ~ l[k][1]
    BY <1>1, <1>3, AllPassed DEF l
  <2> QED
    BY <2>1
<1> QED
  BY <1>4 DEF PutWifiChecks, LockedOut, Busy, WindowClosed

LEMMA RestartPassed ==
  ASSUME NEW r, FirstOf(RestartChecks(r)) = Fine
  PROVE  ~ running
<1> DEFINE l == RestartChecks(r)
<1>1. DOMAIN RestartChecks(r) = 1 .. 3
  BY DEF RestartChecks
<1>2. /\ l[1][2] = "control_lock_credentials_required"
      /\ l[2][2] = "program_running"
      /\ l[3][2] = "restart_failed"
  BY DEF RestartChecks, LockedOut, Busy, WindowClosed
<1>3. \A k \in 1 .. 3 : l[k][2] # Fine
  <2> HIDE DEF l
  <2> QED
    BY <1>2 DEF Fine
<1>4. ~ l[2][1]
  <2> HIDE DEF l
  <2>1. \A k \in 1 .. 3 : ~ l[k][1]
    BY <1>1, <1>3, AllPassed DEF l
  <2> QED
    BY <2>1
<1> QED
  BY <1>4 DEF RestartChecks, LockedOut, Busy, WindowClosed

LEMMA FirmwarePassed ==
  ASSUME NEW r, FirstOf(FirmwareChecks(r)) = Fine
  PROVE  ~ running
<1> DEFINE l == FirmwareChecks(r)
<1>1. DOMAIN FirmwareChecks(r) = 1 .. 6
  BY FirmwareLength
<1>2. /\ l[1][2] = "control_lock_credentials_required"
      /\ l[2][2] = "restart_pending"
      /\ l[3][2] = "upload_missing_file"
      /\ l[4][2] = "program_running"
      /\ l[5][2] = "ota_image_refused"
      /\ l[6][2] = "ota_write_failed"
  BY DEF FirmwareChecks, LockedOut, Busy, WindowClosed
<1>3. \A k \in 1 .. 6 : l[k][2] # Fine
  <2> HIDE DEF l
  <2> QED
    BY <1>2 DEF Fine
<1>4. ~ l[4][1]
  <2> HIDE DEF l
  <2>1. \A k \in 1 .. 6 : ~ l[k][1]
    BY <1>1, <1>3, AllPassed DEF l
  <2> QED
    BY <2>1
<1> QED
  BY <1>4 DEF FirmwareChecks, LockedOut, Busy, WindowClosed

LEMMA UnloadPassed ==
  ASSUME NEW r,
         FirstOf(<<LockedOut(r), Busy>>) = Fine
  PROVE  ~ running
<1> DEFINE l == <<LockedOut(r), Busy>>
<1>1. DOMAIN <<LockedOut(r), Busy>> = 1 .. 2
  OBVIOUS
<1>2. /\ l[1][2] = "control_lock_credentials_required"
      /\ l[2][2] = "program_running"
  BY DEF LockedOut, Busy
<1>3. \A k \in 1 .. 2 : l[k][2] # Fine
  <2> HIDE DEF l
  <2> QED
    BY <1>2 DEF Fine
<1>4. ~ l[2][1]
  <2> HIDE DEF l
  <2>1. \A k \in 1 .. 2 : ~ l[k][1]
    BY <1>1, <1>3, AllPassed DEF l
  <2> QED
    BY <2>1
<1> QED
  BY <1>4 DEF LockedOut, Busy

LEMMA LoadPassed ==
  ASSUME NEW r,
         FirstOf(<<LockedOut(r), <<LoadAt(r.path) = NoId, "route_not_found">>,
                   <<LoadAt(r.path) \notin DOMAIN library, "program_not_found">>>>) = Fine
  PROVE  LoadAt(r.path) \in DOMAIN library
<1> DEFINE l == <<LockedOut(r), <<LoadAt(r.path) = NoId, "route_not_found">>,
                   <<LoadAt(r.path) \notin DOMAIN library, "program_not_found">>>>
<1>1. DOMAIN <<LockedOut(r), <<LoadAt(r.path) = NoId, "route_not_found">>,
                   <<LoadAt(r.path) \notin DOMAIN library, "program_not_found">>>> = 1 .. 3
  OBVIOUS
<1>2. /\ l[1][2] = "control_lock_credentials_required"
      /\ l[2][2] = "route_not_found"
      /\ l[3][2] = "program_not_found"
  BY DEF LockedOut
<1>3. \A k \in 1 .. 3 : l[k][2] # Fine
  <2> HIDE DEF l
  <2> QED
    BY <1>2 DEF Fine
<1>4. ~ l[3][1]
  <2> HIDE DEF l
  <2>1. \A k \in 1 .. 3 : ~ l[k][1]
    BY <1>1, <1>3, AllPassed DEF l
  <2> QED
    BY <2>1
<1> QED
  BY <1>4 DEF LockedOut

(* The documents and the clips that are stored: what is shipped is always  *)
(* there, and so is the document of the program that is loaded.            *)
RestOK ==
  /\ library = [id \in DOMAIN library |-> library[id]]
  /\ Shipped \in DOMAIN library /\ NoId \notin DOMAIN library
  /\ loaded # NoId => loaded \in DOMAIN library
  /\ running => loaded # NoId
  /\ Shipped \in clips

(* What RunsAreLeftAlone says of a step.                                   *)
LeftAlone ==
  /\ loaded # NoId /\ loaded' = loaded =>
       /\ library'[loaded] = library[loaded]
       /\ Uses(library[loaded]) \cap clips \subseteq clips'
  /\ running /\ running' => UNCHANGED configVars /\ (restarting' = restarting)
                            /\ (updating' => updating)
  /\ Shipped \in clips' /\ library'[Shipped] = library[Shipped]

LEMMA CreateProgramKeeps ==
  ASSUME RestOK, NEW r, CreateProgram(r)
  PROVE  RestOK' /\ LeftAlone
<1>1. /\ Uploaded \notin DOMAIN library
      /\ library' = [id \in DOMAIN library \cup {Uploaded} |->
                       IF id = Uploaded THEN r.body ELSE library[id]]
      /\ loaded' = loaded /\ running' = running /\ clips' = clips
      /\ saved' = saved /\ network' = network /\ restarting' = restarting
      /\ updating' = updating
  BY DEF CreateProgram, audioVars, configVars, systemVars
<1>2. /\ DOMAIN library' = DOMAIN library \cup {Uploaded}
      /\ library' = [id \in DOMAIN library' |-> library'[id]]
      /\ \A id \in DOMAIN library : library'[id] = library[id]
  BY <1>1
<1>0. Uploaded # NoId
  BY DEF Uploaded, NoId
<1>3. RestOK'
  BY <1>0, <1>1, <1>2 DEF RestOK
<1>4. LeftAlone
  BY <1>1, <1>2 DEF RestOK, LeftAlone, configVars
<1> QED
  BY <1>3, <1>4

LEMMA UpdateProgramKeeps ==
  ASSUME RestOK, NEW r, UpdateProgram(r)
  PROVE  RestOK' /\ LeftAlone
<1>1. /\ library' = [library EXCEPT ![ProgramAt(r.path)] = r.body]
      /\ loaded' = loaded /\ running' = running /\ clips' = clips
      /\ saved' = saved /\ network' = network /\ restarting' = restarting
      /\ updating' = updating
  BY DEF UpdateProgram, audioVars, configVars, systemVars
<1>2. FirstOf(UpdateChecks(r)) = Fine
  BY DEF UpdateProgram, Accepted, Refusal, Checks
<1>3. ProgramAt(r.path) # Shipped /\ ProgramAt(r.path) # loaded
  BY <1>2, UpdatePassed
<1>4. /\ DOMAIN library' = DOMAIN library
      /\ library' = [id \in DOMAIN library' |-> library'[id]]
      /\ library'[Shipped] = library[Shipped]
      /\ loaded \in DOMAIN library => library'[loaded] = library[loaded]
  BY <1>1, <1>3 DEF RestOK
<1>5. RestOK'
  BY <1>1, <1>4 DEF RestOK
<1>6. LeftAlone
  BY <1>1, <1>4 DEF RestOK, LeftAlone, configVars
<1> QED
  BY <1>5, <1>6

LEMMA DeleteProgramKeeps ==
  ASSUME RestOK, NEW r, DeleteProgram(r)
  PROVE  RestOK' /\ LeftAlone
<1> DEFINE id == DeletedAt(r.path)
<1>1. /\ loaded' = IF loaded = id THEN NoId ELSE loaded
      /\ library' = IF r.works THEN Restrict(library, DOMAIN library \ {id}) ELSE library
      /\ clips' = clips /\ saved' = saved /\ network' = network
      /\ restarting' = restarting /\ updating' = updating
  BY DEF DeleteProgram, audioVars, configVars, systemVars
<1>2. running' = (running /\ loaded # id)
  BY DEF DeleteProgram
<1>3. FirstOf(DeleteChecks(r)) = Fine
  BY DEF DeleteProgram, Accepted, Refusal, Checks
<1>4. id # Shipped
  BY <1>3, DeletePassed
<1> HIDE DEF id
<1>5. /\ library' = [d \in DOMAIN library' |-> library'[d]]
      /\ DOMAIN library \ {id} \subseteq DOMAIN library'
      /\ DOMAIN library' \subseteq DOMAIN library
      /\ \A d \in DOMAIN library \ {id} : library'[d] = library[d]
  <2>1. CASE r.works
    <3>1. library' = [d \in DOMAIN library \ {id} |-> library[d]]
      BY <2>1, <1>1 DEF Restrict
    <3> QED
      BY <3>1
  <2>2. CASE ~ r.works
    BY <2>2, <1>1 DEF RestOK
  <2> QED
    BY <2>1, <2>2
<1>6. RestOK'
  <2>1. running' => loaded' # NoId
    BY <1>1, <1>2 DEF RestOK
  <2> QED
    BY <2>1, <1>1, <1>4, <1>5 DEF RestOK
<1>7. LeftAlone
  BY <1>1, <1>4, <1>5 DEF RestOK, LeftAlone, configVars
<1> QED
  BY <1>6, <1>7

LEMMA DeleteAudioKeeps ==
  ASSUME RestOK, NEW r, DeleteAudio(r)
  PROVE  RestOK' /\ LeftAlone
<1>1. /\ library' = library /\ loaded' = loaded /\ running' = running
      /\ clips' = clips \ {ClipAt(r.path)}
      /\ saved' = saved /\ network' = network /\ restarting' = restarting
      /\ updating' = updating
  BY DEF DeleteAudio, programVars, configVars, systemVars
<1>2. FirstOf(DeleteAudioChecks(r)) = Fine
  BY DEF DeleteAudio, Accepted, Refusal, Checks
<1>3. ClipAt(r.path) # Shipped /\ ~ InUse(ClipAt(r.path))
  BY <1>2, DeleteAudioPassed
<1>4. loaded # NoId => ClipAt(r.path) \notin Uses(library[loaded])
  BY <1>3 DEF InUse
<1>5. RestOK'
  BY <1>1, <1>3 DEF RestOK
<1>6. LeftAlone
  BY <1>1, <1>3, <1>4 DEF RestOK, LeftAlone, configVars
<1> QED
  BY <1>5, <1>6

(* What changes the configuration, or schedules the end of a run, is       *)
(* accepted only while nothing runs.                                       *)
LEMMA DeviceKeeps ==
  ASSUME RestOK, NEW r,
         StoreHardware(r) \/ PutWifiCredentials(r) \/ RestartSystem(r) \/ UploadFirmware(r)
  PROVE  RestOK' /\ LeftAlone
<1>1. library' = library /\ loaded' = loaded /\ running' = running /\ clips' = clips
  BY DEF StoreHardware, PutWifiCredentials, RestartSystem, UploadFirmware,
         programVars, audioVars
<1>2. ~ running
  <2>1. CASE StoreHardware(r)
    <3>1. \/ FirstOf(PutHardwareChecks(r)) = Fine
          \/ FirstOf(ResetHardwareChecks(r)) = Fine
      BY <2>1 DEF StoreHardware, Accepted, Refusal, Checks
    <3> QED
      BY <3>1, PutHardwarePassed, ResetHardwarePassed
  <2>2. CASE PutWifiCredentials(r)
    <3>1. FirstOf(PutWifiChecks(r)) = Fine
      BY <2>2 DEF PutWifiCredentials, Accepted, Refusal, Checks
    <3> QED
      BY <3>1, PutWifiPassed
  <2>3. CASE RestartSystem(r)
    <3>1. FirstOf(RestartChecks(r)) = Fine
      BY <2>3 DEF RestartSystem, Accepted, Refusal, Checks
    <3> QED
      BY <3>1, RestartPassed
  <2>4. CASE UploadFirmware(r)
    <3>1. FirstOf(FirmwareChecks(r)) = Fine
      BY <2>4 DEF UploadFirmware, Accepted, Refusal, Checks
    <3> QED
      BY <3>1, FirmwarePassed
  <2> QED
    BY <2>1, <2>2, <2>3, <2>4
<1>3. RestOK'
  BY <1>1 DEF RestOK
<1>4. LeftAlone
  BY <1>1, <1>2 DEF RestOK, LeftAlone
<1> QED
  BY <1>3, <1>4

(* Starting, stopping and loading; and the programs' other calls.          *)
LEMMA RunKeeps ==
  ASSUME RestOK, NEW r,
         StartProgram(r) \/ StopProgram(r) \/ UnloadProgram(r) \/ LoadProgram(r)
  PROVE  RestOK' /\ LeftAlone
<1>1. /\ library' = library /\ clips' = clips
      /\ saved' = saved /\ network' = network /\ restarting' = restarting
      /\ updating' = updating
  BY DEF StartProgram, StopProgram, UnloadProgram, LoadProgram, audioVars, configVars, systemVars
<1>2. LeftAlone
  BY <1>1 DEF RestOK, LeftAlone, configVars
<1>3. (loaded' # NoId => loaded' \in DOMAIN library) /\ (running' => loaded' # NoId)
  <2>1. CASE StartProgram(r)
    <3>1. FirstOf(StartChecks(r)) = Fine
      BY <2>1 DEF StartProgram, Accepted, Refusal, Checks
    <3>2. loaded' = loaded /\ loaded # NoId
      BY <2>1, <3>1, StartPassed DEF StartProgram
    <3> QED
      BY <3>2 DEF RestOK
  <2>2. CASE StopProgram(r)
    BY <2>2 DEF StopProgram, RestOK
  <2>3. CASE UnloadProgram(r)
    <3>1. FirstOf(<<LockedOut(r), Busy>>) = Fine
      BY <2>3 DEF UnloadProgram, Accepted, Refusal, Checks
    <3>2. ~ running
      BY <3>1, UnloadPassed
    <3> QED
      BY <2>3, <3>2 DEF UnloadProgram
  <2>4. CASE LoadProgram(r)
    <3>1. FirstOf(<<LockedOut(r), <<LoadAt(r.path) = NoId, "route_not_found">>,
                    <<LoadAt(r.path) \notin DOMAIN library, "program_not_found">>>>) = Fine
      BY <2>4 DEF LoadProgram, Accepted, Refusal, Checks
    <3>2. LoadAt(r.path) \in DOMAIN library
      BY <3>1, LoadPassed
    <3> QED
      BY <2>4, <3>2 DEF LoadProgram
  <2> QED
    BY <2>1, <2>2, <2>3, <2>4
<1>4. RestOK'
  BY <1>1, <1>3 DEF RestOK
<1> QED
  BY <1>2, <1>4

LEMMA OtherCallsKeep ==
  ASSUME RestOK, NEW r,
         \/ EnableControlLock(r) \/ LoginControlLock(r) \/ LogoutControlLock(r)
         \/ DisableControlLock(r) \/ PlayAudio(r) \/ CreateAudio(r) \/ SetTargets(r)
  PROVE  RestOK' /\ LeftAlone
<1>1. /\ library' = library /\ loaded' = loaded /\ running' = running
      /\ saved' = saved /\ network' = network /\ restarting' = restarting
      /\ updating' = updating
  BY DEF EnableControlLock, LoginControlLock, LogoutControlLock, DisableControlLock,
         PlayAudio, CreateAudio, SetTargets, programVars, configVars, systemVars
<1>2. clips \subseteq clips'
  BY DEF EnableControlLock, LoginControlLock, LogoutControlLock, DisableControlLock,
         PlayAudio, CreateAudio, SetTargets, audioVars
<1>3. RestOK'
  BY <1>1, <1>2 DEF RestOK
<1>4. LeftAlone
  BY <1>1, <1>2 DEF RestOK, LeftAlone, configVars
<1> QED
  BY <1>3, <1>4

LEMMA WithoutRequestKeeps ==
  ASSUME RestOK,
         RunEnds \/ PlaybackTurns \/ WindowTurns \/ SessionEnds \/ UNCHANGED restVars
  PROVE  RestOK' /\ LeftAlone
<1>1. /\ library' = library /\ loaded' = loaded /\ clips' = clips
      /\ saved' = saved /\ network' = network /\ restarting' = restarting
      /\ updating' = updating
  BY DEF RunEnds, PlaybackTurns, WindowTurns, SessionEnds, restVars, programVars, audioVars,
         configVars, systemVars
<1>2. running' => running
  BY DEF RunEnds, PlaybackTurns, WindowTurns, SessionEnds, restVars, programVars
<1>3. RestOK'
  BY <1>1, <1>2 DEF RestOK
<1>4. LeftAlone
  BY <1>1 DEF RestOK, LeftAlone, configVars
<1> QED
  BY <1>3, <1>4

LEMMA RebootKeeps ==
  ASSUME RestOK, Reboots
  PROVE  RestOK' /\ LeftAlone
<1>1. library' = library /\ clips' = clips /\ loaded' = NoId /\ ~ running'
  BY DEF Reboots
<1> QED
  BY <1>1 DEF RestOK, LeftAlone

LEMMA RestStep ==
  ASSUME RestOK, [RestNext]_restVars
  PROVE  RestOK' /\ LeftAlone
<1>1. CASE \E r \in Requests : Call(r)
  <2>1. PICK r \in Requests : Call(r)
    BY <1>1
  <2> QED
    BY <2>1, CreateProgramKeeps, UpdateProgramKeeps, DeleteProgramKeeps, DeleteAudioKeeps,
       DeviceKeeps, RunKeeps, OtherCallsKeep, Zenon DEF Call
<1>2. CASE RunEnds \/ PlaybackTurns \/ WindowTurns \/ SessionEnds \/ UNCHANGED restVars
  BY <1>2, WithoutRequestKeeps, Zenon
<1>3. CASE Reboots
  BY <1>3, RebootKeeps
<1> QED
  BY <1>1, <1>2, <1>3, Zenon DEF RestNext

(* What is shipped, and what the program that is loaded needs, is there.   *)
THEOREM RestCorrect == RestSpec => []RestOK
<1>1. RestInit => RestOK
  BY DEF RestInit, RestOK, Shipped, NoId
<1>2. RestOK /\ [RestNext]_restVars => RestOK'
  BY RestStep
<1> QED
  BY <1>1, <1>2, PTL DEF RestSpec

(* The program that is loaded and its clips stay as they are, a run keeps  *)
(* the device from being configured or restarted by a request, and what is *)
(* shipped stays for good (web_server.cpp:463-470, 977-980, 1240-1243).    *)
THEOREM RunsAlwaysLeftAlone == RestSpec => RunsAreLeftAlone
<1>1. RestOK /\ [RestNext]_restVars => LeftAlone
  BY RestStep
<1> QED
  BY <1>1, RestCorrect, PTL DEF RestSpec, RunsAreLeftAlone, LeftAlone

(* The operations that are asked for a session.                            *)
Guarded ==
  {"disableControlLock", "startProgram", "stopProgram", "resetProgram",
   "unloadProgram", "skipToSeries", "createProgram", "updateProgram",
   "loadProgram", "deleteProgram", "showTargets", "hideTargets",
   "toggleTargets", "playAudio", "deleteAudio", "createAudio",
   "putHardwareConfig", "resetHardwareConfig", "putWifiCredentials",
   "restartSystem", "uploadFirmware"}

RouteGuarded(k) ==
  Routes[k].method = "GET" \/ Routes[k].op \in Guarded \cup Entrances

LEMMA RoutesGuarded == \A k \in DOMAIN Routes : RouteGuarded(k)
<1>1. DOMAIN Routes = 1 .. 36
  BY DEF Routes
<1>2. /\ RouteGuarded(1) /\ RouteGuarded(2) /\ RouteGuarded(3) /\ RouteGuarded(4)
      /\ RouteGuarded(5) /\ RouteGuarded(6) /\ RouteGuarded(7) /\ RouteGuarded(8)
      /\ RouteGuarded(9) /\ RouteGuarded(10) /\ RouteGuarded(11) /\ RouteGuarded(12)
  BY DEF RouteGuarded, Routes, Route, Guarded, Entrances
<1>3. /\ RouteGuarded(13) /\ RouteGuarded(14) /\ RouteGuarded(15) /\ RouteGuarded(16)
      /\ RouteGuarded(17) /\ RouteGuarded(18) /\ RouteGuarded(19) /\ RouteGuarded(20)
      /\ RouteGuarded(21) /\ RouteGuarded(22) /\ RouteGuarded(23) /\ RouteGuarded(24)
  BY DEF RouteGuarded, Routes, Route, Guarded, Entrances
<1>4. /\ RouteGuarded(25) /\ RouteGuarded(26) /\ RouteGuarded(27) /\ RouteGuarded(28)
      /\ RouteGuarded(29) /\ RouteGuarded(30) /\ RouteGuarded(31) /\ RouteGuarded(32)
      /\ RouteGuarded(33) /\ RouteGuarded(34) /\ RouteGuarded(35) /\ RouteGuarded(36)
  BY DEF RouteGuarded, Routes, Route, Guarded, Entrances
<1> QED
  BY <1>1, <1>2, <1>3, <1>4

(* Whatever is asked by another method than GET is answered by a route     *)
(* that asks for a session, by the lock's own door, or by none.            *)
LEMMA ServedGuarded ==
  ASSUME NEW method, method # "GET", NEW path
  PROVE  Served(method, path) \in Guarded \cup Entrances \cup {"notFound"}
<1> DEFINE hits == {k \in DOMAIN Routes :
                      Routes[k].method = method /\ Matches(Routes[k].path, path)}
<1>1. CASE hits = {}
  BY <1>1 DEF Served
<1>2. CASE hits # {}
  <2>1. Served(method, path) = Routes[Min(hits)].op
    BY <1>2 DEF Served
  <2>2. Min(hits) \in hits
    <3>1. DOMAIN Routes \subseteq Nat
      BY DEF Routes
    <3>2. hits \in SUBSET Nat
      BY <3>1
    <3> HIDE DEF hits
    <3> QED
      BY <1>2, <3>2, HasMin
  <2>3. Min(hits) \in DOMAIN Routes /\ Routes[Min(hits)].method = method
    BY <2>2
  <2>4. RouteGuarded(Min(hits))
    BY <2>3, RoutesGuarded
  <2> QED
    BY <2>1, <2>3, <2>4 DEF RouteGuarded
<1> QED
  BY <1>1, <1>2

LEMMA RequestIs ==
  ASSUME NEW r \in Requests
  PROVE  r.op = Served(r.method, r.path)
<1>1. \E m, q : r \in RequestsFor(m, q)
  BY DEF Requests, MissedRequests
<1>2. PICK m, q : r \in RequestsFor(m, q)
  BY <1>1
<1> DEFINE op == Served(m, q)
<1>3. r \in [op : {op}, method : {m}, path : {q}, who : Clients, body : Bodies(op),
             works : IF op \in Stores THEN BOOLEAN ELSE {TRUE}]
  BY <1>2 DEF RequestsFor
<1>4. r.op = op /\ r.method = m /\ r.path = q
  <2> HIDE DEF op
  <2> QED
    BY <1>3
<1> QED
  BY <1>4

(* Every such operation asks for a session before anything else.           *)
LEMMA GuardComesFirst ==
  ASSUME NEW r, r.op \in Guarded
  PROVE  \E n \in Nat \ {0} : DOMAIN Checks(r) = 1 .. n /\ Checks(r)[1] = LockedOut(r)
<1>1. CASE r.op = "updateProgram"
  <2>1. DOMAIN UpdateChecks(r) = 1 .. 8 /\ UpdateChecks(r)[1] = LockedOut(r)
    BY DEF UpdateChecks
  <2>2. Checks(r) = UpdateChecks(r)
    BY <1>1 DEF Checks
  <2> QED
    BY <2>1, <2>2
<1>2. CASE r.op = "startProgram"
  <2>1. DOMAIN StartChecks(r) = 1 .. 7 /\ StartChecks(r)[1] = LockedOut(r)
    BY DEF StartChecks
  <2>2. Checks(r) = StartChecks(r)
    BY <1>2 DEF Checks
  <2> QED
    BY <2>1, <2>2
<1>3. CASE r.op = "putHardwareConfig"
  <2>1. DOMAIN PutHardwareChecks(r) = 1 .. 6 /\ PutHardwareChecks(r)[1] = LockedOut(r)
    BY DEF PutHardwareChecks
  <2>2. Checks(r) = PutHardwareChecks(r)
    BY <1>3 DEF Checks
  <2> QED
    BY <2>1, <2>2
<1>4. CASE r.op = "putWifiCredentials"
  <2>1. DOMAIN PutWifiChecks(r) = 1 .. 6 /\ PutWifiChecks(r)[1] = LockedOut(r)
    BY DEF PutWifiChecks
  <2>2. Checks(r) = PutWifiChecks(r)
    BY <1>4 DEF Checks
  <2> QED
    BY <2>1, <2>2
<1>5. CASE r.op = "uploadFirmware"
  <2>1. DOMAIN FirmwareChecks(r) = 1 .. 6 /\ FirmwareChecks(r)[1] = LockedOut(r)
    BY DEF FirmwareChecks
  <2>2. Checks(r) = FirmwareChecks(r)
    BY <1>5 DEF Checks
  <2> QED
    BY <2>1, <2>2
<1>6. CASE r.op = "deleteProgram"
  <2>1. DOMAIN DeleteChecks(r) = 1 .. 4 /\ DeleteChecks(r)[1] = LockedOut(r)
    BY DEF DeleteChecks
  <2>2. Checks(r) = DeleteChecks(r)
    BY <1>6 DEF Checks
  <2> QED
    BY <2>1, <2>2
<1>7. CASE r.op = "deleteAudio"
  <2>1. DOMAIN DeleteAudioChecks(r) = 1 .. 7 /\ DeleteAudioChecks(r)[1] = LockedOut(r)
    BY DEF DeleteAudioChecks
  <2>2. Checks(r) = DeleteAudioChecks(r)
    BY <1>7 DEF Checks
  <2> QED
    BY <2>1, <2>2
<1>8. CASE r.op = "resetHardwareConfig"
  <2>1. DOMAIN ResetHardwareChecks(r) = 1 .. 3 /\ ResetHardwareChecks(r)[1] = LockedOut(r)
    BY DEF ResetHardwareChecks
  <2>2. Checks(r) = ResetHardwareChecks(r)
    BY <1>8 DEF Checks
  <2> QED
    BY <2>1, <2>2
<1>9. CASE r.op = "restartSystem"
  <2>1. DOMAIN RestartChecks(r) = 1 .. 3 /\ RestartChecks(r)[1] = LockedOut(r)
    BY DEF RestartChecks
  <2>2. Checks(r) = RestartChecks(r)
    BY <1>9 DEF Checks
  <2> QED
    BY <2>1, <2>2
<1>10. CASE r.op = "skipToSeries"
  <2>1. DOMAIN SkipChecks(r) = 1 .. 6 /\ SkipChecks(r)[1] = LockedOut(r)
    BY DEF SkipChecks
  <2>2. Checks(r) = SkipChecks(r)
    BY <1>10 DEF Checks
  <2> QED
    BY <2>1, <2>2
<1>11. CASE r.op = "playAudio"
  <2>1. DOMAIN PlayChecks(r) = 1 .. 3 /\ PlayChecks(r)[1] = LockedOut(r)
    BY DEF PlayChecks
  <2>2. Checks(r) = PlayChecks(r)
    BY <1>11 DEF Checks
  <2> QED
    BY <2>1, <2>2
<1>12. CASE r.op = "createAudio"
  <2>1. DOMAIN CreateAudioChecks(r) = 1 .. 5 /\ CreateAudioChecks(r)[1] = LockedOut(r)
    BY DEF CreateAudioChecks
  <2>2. Checks(r) = CreateAudioChecks(r)
    BY <1>12 DEF Checks
  <2> QED
    BY <2>1, <2>2
<1>13. CASE r.op = "showTargets"
  <2>1. DOMAIN TargetChecks(r) = 1 .. 2 /\ TargetChecks(r)[1] = LockedOut(r)
    BY DEF TargetChecks
  <2>2. Checks(r) = TargetChecks(r)
    BY <1>13 DEF Checks
  <2> QED
    BY <2>1, <2>2
<1>14. CASE r.op = "hideTargets"
  <2>1. DOMAIN TargetChecks(r) = 1 .. 2 /\ TargetChecks(r)[1] = LockedOut(r)
    BY DEF TargetChecks
  <2>2. Checks(r) = TargetChecks(r)
    BY <1>14 DEF Checks
  <2> QED
    BY <2>1, <2>2
<1>15. CASE r.op = "toggleTargets"
  <2>1. DOMAIN TargetChecks(r) = 1 .. 2 /\ TargetChecks(r)[1] = LockedOut(r)
    BY DEF TargetChecks
  <2>2. Checks(r) = TargetChecks(r)
    BY <1>15 DEF Checks
  <2> QED
    BY <2>1, <2>2
<1>16. CASE r.op = "disableControlLock"
  <2> DEFINE l ==
        <<LockedOut(r)>>
  <2>1. DOMAIN l = 1 .. 1 /\ l[1] = LockedOut(r)
    OBVIOUS
  <2>2. Checks(r) = l
    BY <1>16 DEF Checks
  <2> HIDE DEF l
  <2> QED
    BY <2>1, <2>2
<1>17. CASE r.op = "stopProgram"
  <2> DEFINE l ==
        <<LockedOut(r),
          <<~ running, "program_not_running">>>>
  <2>1. DOMAIN l = 1 .. 2 /\ l[1] = LockedOut(r)
    OBVIOUS
  <2>2. Checks(r) = l
    BY <1>17 DEF Checks
  <2> HIDE DEF l
  <2> QED
    BY <2>1, <2>2
<1>18. CASE r.op = "resetProgram"
  <2> DEFINE l ==
        <<LockedOut(r),
          <<loaded = NoId, "no_program_loaded">>>>
  <2>1. DOMAIN l = 1 .. 2 /\ l[1] = LockedOut(r)
    OBVIOUS
  <2>2. Checks(r) = l
    BY <1>18 DEF Checks
  <2> HIDE DEF l
  <2> QED
    BY <2>1, <2>2
<1>19. CASE r.op = "unloadProgram"
  <2> DEFINE l ==
        <<LockedOut(r), Busy>>
  <2>1. DOMAIN l = 1 .. 2 /\ l[1] = LockedOut(r)
    OBVIOUS
  <2>2. Checks(r) = l
    BY <1>19 DEF Checks
  <2> HIDE DEF l
  <2> QED
    BY <2>1, <2>2
<1>20. CASE r.op = "createProgram"
  <2> DEFINE l ==
        <<LockedOut(r),
          <<r.body \notin Docs, "program_invalid">>>>
  <2>1. DOMAIN l = 1 .. 2 /\ l[1] = LockedOut(r)
    OBVIOUS
  <2>2. Checks(r) = l
    BY <1>20 DEF Checks
  <2> HIDE DEF l
  <2> QED
    BY <2>1, <2>2
<1>21. CASE r.op = "loadProgram"
  <2> DEFINE l ==
        <<LockedOut(r),
          <<LoadAt(r.path) = NoId, "route_not_found">>,
          <<LoadAt(r.path) \notin DOMAIN library, "program_not_found">>>>
  <2>1. DOMAIN l = 1 .. 3 /\ l[1] = LockedOut(r)
    OBVIOUS
  <2>2. Checks(r) = l
    BY <1>21 DEF Checks
  <2> HIDE DEF l
  <2> QED
    BY <2>1, <2>2
<1> QED
  BY <1>1, <1>2, <1>3, <1>4, <1>5, <1>6, <1>7, <1>8, <1>9, <1>10, <1>11,
     <1>12, <1>13, <1>14, <1>15, <1>16, <1>17, <1>18, <1>19, <1>20, <1>21 DEF Guarded

LEMMA WindowPassed ==
  ASSUME FirstOf(<<WindowClosed>>) = Fine
  PROVE  WindowOpen
<1> DEFINE l == <<WindowClosed>>
<1>1. DOMAIN <<WindowClosed>> = 1 .. 1
  OBVIOUS
<1>2. l[1][2] = "hardware_config_window_closed"
  BY DEF WindowClosed
<1>3. \A k \in 1 .. 1 : l[k][2] # Fine
  <2> HIDE DEF l
  <2> QED
    BY <1>2 DEF Fine
<1>4. ~ l[1][1]
  <2> HIDE DEF l
  <2>1. \A k \in 1 .. 1 : ~ l[k][1]
    BY <1>1, <1>3, AllPassed DEF l
  <2> QED
    BY <2>1
<1> QED
  BY <1>4 DEF WindowClosed

(* In every state: with the lock on, nothing but the lock's own door       *)
(* answers a call without a session, and nothing that belongs to whoever   *)
(* stands at the device is done with the window shut or during a run       *)
(* (web_server.cpp:124-148, 740-752, 1251-1262).                           *)
THEOREM GuardsAlwaysHold == RestSpec => [](NothingWithoutASession /\ SomebodyIsThere)
<1>1. NothingWithoutASession
  <2> SUFFICES ASSUME NEW r \in Requests, locked, r.who \notin sessions, r.method # "GET",
                      r.op \notin Entrances \cup {"notFound"}
               PROVE  Refusal(r) = "control_lock_credentials_required"
    BY DEF NothingWithoutASession
  <2>1. r.op \in Guarded
    BY RequestIs, ServedGuarded
  <2>2. PICK n \in Nat \ {0} : DOMAIN Checks(r) = 1 .. n /\ Checks(r)[1] = LockedOut(r)
    BY <2>1, GuardComesFirst
  <2>3. LockedOut(r)[1] /\ LockedOut(r)[2] = "control_lock_credentials_required"
    BY DEF LockedOut
  <2>4. FirstOf(Checks(r)) = Checks(r)[1][2]
    BY <2>2, <2>3, FirstFails
  <2> QED
    BY <2>2, <2>3, <2>4 DEF Refusal
<1>2. SomebodyIsThere
  <2> SUFFICES ASSUME NEW r \in Requests, r.op \in AtTheDevice, Refusal(r) = Fine
               PROVE  window /\ ~ running
    BY DEF SomebodyIsThere
  <2>1. CASE r.op = "putHardwareConfig"
    <3>1. FirstOf(PutHardwareChecks(r)) = Fine
      BY <2>1 DEF Refusal, Checks
    <3> QED
      BY <3>1, PutHardwarePassed DEF WindowOpen
  <2>2. CASE r.op = "resetHardwareConfig"
    <3>1. FirstOf(ResetHardwareChecks(r)) = Fine
      BY <2>2 DEF Refusal, Checks
    <3> QED
      BY <3>1, ResetHardwarePassed DEF WindowOpen
  <2>3. CASE r.op = "putWifiCredentials"
    <3>1. FirstOf(PutWifiChecks(r)) = Fine
      BY <2>3 DEF Refusal, Checks
    <3> QED
      BY <3>1, PutWifiPassed DEF WindowOpen
  <2>4. CASE r.op \in {"getWifiNetworks", "getDiagnosticsBundle"}
    <3>1. FirstOf(<<WindowClosed>>) = Fine
      BY <2>4 DEF Refusal, Checks
    <3> QED
      BY <3>1, WindowPassed DEF WindowOpen
  <2> QED
    BY <2>1, <2>2, <2>3, <2>4 DEF AtTheDevice
<1> QED
  BY <1>1, <1>2, PTL

(***************************************************************************)
(* The table of routes.  A path is told from another by how many segments  *)
(* it has and by the first of them, so of each pattern it is enough to     *)
(* know that much of the paths it matches (the rows below), and that a row *)
(* before the one that is meant does not fit.                              *)
(***************************************************************************)
(* The k-th route answers a request of that method for that path.          *)
Answers(k, method, path) == Routes[k].method = method /\ Matches(Routes[k].path, path)

LEMMA RouteCount == DOMAIN Routes = 1 .. 36
BY DEF Routes

LEMMA ServedFirst ==
  ASSUME NEW method, NEW path, NEW k \in 1 .. 36, Answers(k, method, path),
         \A j \in 1 .. 36 : Answers(j, method, path) => k <= j
  PROVE  Served(method, path) = Routes[k].op
<1> DEFINE hits == {j \in DOMAIN Routes :
                      Routes[j].method = method /\ Matches(Routes[j].path, path)}
<1>1. hits = {j \in 1 .. 36 : Answers(j, method, path)}
  BY RouteCount DEF Answers
<1>2. Served(method, path) = IF hits # {} THEN Routes[Min(hits)].op
                             ELSE IF method = "GET" /\ path \in Files THEN "file"
                             ELSE IF method = "GET" /\ Navigates(path) THEN "index"
                             ELSE "notFound"
  BY DEF Served
<1> HIDE DEF hits
<1>3. k \in hits /\ hits \in SUBSET Nat /\ \A j \in hits : k <= j
  BY <1>1
<1>4. Min(hits) \in hits /\ Min(hits) <= k
  BY <1>3, HasMin
<1>5. Min(hits) = k
  <2>1. Min(hits) \in Nat /\ k \in Nat /\ k <= Min(hits)
    BY <1>3, <1>4
  <2> QED
    BY <1>4, <2>1
<1>6. hits # {}
  BY <1>3
<1>7. Served(method, path) = Routes[Min(hits)].op
  BY <1>2, <1>6, Zenon
<1> QED
  BY <1>5, <1>7

LEMMA ServedByNone ==
  ASSUME NEW method, NEW path, \A j \in 1 .. 36 : ~ Answers(j, method, path)
  PROVE  Served(method, path) = IF method = "GET" /\ path \in Files THEN "file"
                                ELSE IF method = "GET" /\ Navigates(path) THEN "index"
                                ELSE "notFound"
<1>1. {j \in DOMAIN Routes :
         Routes[j].method = method /\ Matches(Routes[j].path, path)} = {}
  BY RouteCount DEF Answers
<1> QED
  BY <1>1 DEF Served

(* What paths are made of.                                                 *)
Segments ==
  {"", "*", "api", "v2", "version", "control-lock", "status", "enable",
   "login", "logout", "disable", "programs", "start", "stop", "reset",
   "unload", "series", "skip_to", "load", "delete", "diagnostics", "info",
   "bundle", "targets", "show", "hide", "toggle", "audios", "play", "config",
   "hardware", "wifi", "networks", "system", "restart", "ota", "sse", "0",
   "1", "2", "9", "nothing", "what", "run", "x", "gone.js", "app.js", "..",
   "apiary"}

(* Short sequences.                                                        *)
LEMMA Tuple1 ==
  ASSUME NEW S, NEW a \in S
  PROVE  <<a>> \in Seq(S) /\ Len(<<a>>) = 1 /\ <<a>>[1] = a
OBVIOUS

LEMMA Tuple2 ==
  ASSUME NEW S, NEW a \in S, NEW b \in S
  PROVE  <<a, b>> \in Seq(S) /\ Len(<<a, b>>) = 2 /\ <<a, b>>[1] = a /\ <<a, b>>[2] = b
OBVIOUS

LEMMA Tuple3 ==
  ASSUME NEW S, NEW a \in S, NEW b \in S, NEW c \in S
  PROVE  <<a, b, c>> \in Seq(S) /\ Len(<<a, b, c>>) = 3 /\ <<a, b, c>>[1] = a /\ <<a, b,
      c>>[2] = b /\ <<a, b, c>>[3] = c
OBVIOUS

LEMMA Tuple4 ==
  ASSUME NEW S, NEW a \in S, NEW b \in S, NEW c \in S, NEW d \in S
  PROVE  <<a, b, c, d>> \in Seq(S) /\ Len(<<a, b, c, d>>) = 4 /\ <<a, b, c, d>>[1] = a /\
      <<a, b, c, d>>[2] = b /\ <<a, b, c, d>>[3] = c /\ <<a, b, c, d>>[4] = d
OBVIOUS

LEMMA ApiPath ==
  ASSUME NEW q \in Seq(Segments)
  PROVE  /\ Api(q) \in Seq(Segments) /\ Len(Api(q)) = Len(q) + 2
         /\ Api(q)[1] = "api" /\ Api(q)[2] = "v2"
         /\ \A i \in 1 .. Len(q) : Api(q)[i + 2] = q[i]
<1> DEFINE h == <<"api", "v2">>
<1>1. h \in Seq(Segments) /\ Len(h) = 2 /\ h[1] = "api" /\ h[2] = "v2"
  <2>1. "api" \in Segments /\ "v2" \in Segments
    BY Zenon DEF Segments
  <2>2. h \in Seq(Segments) /\ Len(h) = 2
    BY <2>1, Tuple2, Zenon
  <2> QED
    BY <2>2
<1>2. Api(q) = h \o q
  BY DEF Api
<1> HIDE DEF h
<1>3. /\ h \o q \in Seq(Segments) /\ Len(h \o q) = Len(h) + Len(q)
      /\ \A i \in 1 .. Len(h) + Len(q) :
           (h \o q)[i] = IF i <= Len(h) THEN h[i] ELSE q[i - Len(h)]
  BY <1>1, ConcatProperties, Zenon
<1>4. Len(q) \in Nat
  OBVIOUS
<1> DEFINE p == Api(q)
<1>5. /\ p \in Seq(Segments) /\ Len(p) = Len(q) + 2
      /\ \A i \in 1 .. Len(q) + 2 : p[i] = IF i <= 2 THEN h[i] ELSE q[i - 2]
  BY <1>1, <1>2, <1>3, <1>4
<1> HIDE DEF p
<1>6. /\ p[1] = "api" /\ p[2] = "v2"
  BY <1>1, <1>4, <1>5
<1>7. \A i \in 1 .. Len(q) : p[i + 2] = q[i]
  BY <1>4, <1>5
<1> QED
  BY <1>5, <1>6, <1>7 DEF p

(* A path under /api/v2 of that many segments.                             *)
Under(path, n) == /\ path \in Seq(Segments) /\ Len(path) = n + 2
                  /\ path[1] = "api" /\ path[2] = "v2"

LEMMA ApiOne ==
  ASSUME NEW a \in Segments
  PROVE  Under(Api(<<a>>), 1) /\ Api(<<a>>)[3] = a
<1> DEFINE q == <<a>>
<1>1. q \in Seq(Segments) /\ Len(q) = 1 /\ q[1] = a
  BY Tuple1, Zenon
<1> HIDE DEF q
<1>2. /\ Api(q) \in Seq(Segments) /\ Len(Api(q)) = Len(q) + 2
      /\ Api(q)[1] = "api" /\ Api(q)[2] = "v2"
      /\ \A i \in 1 .. Len(q) : Api(q)[i + 2] = q[i]
  BY <1>1, ApiPath, Zenon
<1> DEFINE p == Api(q)
<1> HIDE DEF p
<1>3. p \in Seq(Segments) /\ Len(p) = 1 + 2 /\ p[1] = "api" /\ p[2] = "v2"
  BY <1>1, <1>2 DEF p
<1>4. \A i \in 1 .. 1 : p[i + 2] = q[i]
  BY <1>1, <1>2 DEF p
<1>5. p[3] = a
  BY <1>1, <1>4
<1> QED
  BY <1>3, <1>5 DEF p, q, Under

LEMMA ApiTwo ==
  ASSUME NEW a \in Segments, NEW b \in Segments
  PROVE  Under(Api(<<a, b>>), 2) /\ Api(<<a, b>>)[3] = a /\ Api(<<a, b>>)[4] = b
<1> DEFINE q == <<a, b>>
<1>1. q \in Seq(Segments) /\ Len(q) = 2 /\ q[1] = a /\ q[2] = b
  BY Tuple2, Zenon
<1> HIDE DEF q
<1>2. /\ Api(q) \in Seq(Segments) /\ Len(Api(q)) = Len(q) + 2
      /\ Api(q)[1] = "api" /\ Api(q)[2] = "v2"
      /\ \A i \in 1 .. Len(q) : Api(q)[i + 2] = q[i]
  BY <1>1, ApiPath, Zenon
<1> DEFINE p == Api(q)
<1> HIDE DEF p
<1>3. p \in Seq(Segments) /\ Len(p) = 2 + 2 /\ p[1] = "api" /\ p[2] = "v2"
  BY <1>1, <1>2 DEF p
<1>4. \A i \in 1 .. 2 : p[i + 2] = q[i]
  BY <1>1, <1>2 DEF p
<1>5. p[3] = a /\ p[4] = b
  BY <1>1, <1>4
<1> QED
  BY <1>3, <1>5 DEF p, q, Under

LEMMA ApiThree ==
  ASSUME NEW a \in Segments, NEW b \in Segments, NEW c \in Segments
  PROVE  /\ Under(Api(<<a, b, c>>), 3)
         /\ Api(<<a, b, c>>)[3] = a /\ Api(<<a, b, c>>)[4] = b
         /\ Api(<<a, b, c>>)[5] = c
<1> DEFINE q == <<a, b, c>>
<1>1. q \in Seq(Segments) /\ Len(q) = 3 /\ q[1] = a /\ q[2] = b /\ q[3] = c
  BY Tuple3, Zenon
<1> HIDE DEF q
<1>2. /\ Api(q) \in Seq(Segments) /\ Len(Api(q)) = Len(q) + 2
      /\ Api(q)[1] = "api" /\ Api(q)[2] = "v2"
      /\ \A i \in 1 .. Len(q) : Api(q)[i + 2] = q[i]
  BY <1>1, ApiPath, Zenon
<1> DEFINE p == Api(q)
<1> HIDE DEF p
<1>3. p \in Seq(Segments) /\ Len(p) = 3 + 2 /\ p[1] = "api" /\ p[2] = "v2"
  BY <1>1, <1>2 DEF p
<1>4. \A i \in 1 .. 3 : p[i + 2] = q[i]
  BY <1>1, <1>2 DEF p
<1>5. p[3] = a /\ p[4] = b /\ p[5] = c
  BY <1>1, <1>4
<1> QED
  BY <1>3, <1>5 DEF p, q, Under

LEMMA ApiFour ==
  ASSUME NEW a \in Segments, NEW b \in Segments, NEW c \in Segments, NEW d \in Segments
  PROVE  /\ Under(Api(<<a, b, c, d>>), 4)
         /\ Api(<<a, b, c, d>>)[3] = a /\ Api(<<a, b, c, d>>)[4] = b
         /\ Api(<<a, b, c, d>>)[5] = c /\ Api(<<a, b, c, d>>)[6] = d
<1> DEFINE q == <<a, b, c, d>>
<1>1. q \in Seq(Segments) /\ Len(q) = 4 /\ q[1] = a /\ q[2] = b /\ q[3] = c /\ q[4] = d
  BY Tuple4, Zenon
<1> HIDE DEF q
<1>2. /\ Api(q) \in Seq(Segments) /\ Len(Api(q)) = Len(q) + 2
      /\ Api(q)[1] = "api" /\ Api(q)[2] = "v2"
      /\ \A i \in 1 .. Len(q) : Api(q)[i + 2] = q[i]
  BY <1>1, ApiPath, Zenon
<1> DEFINE p == Api(q)
<1> HIDE DEF p
<1>3. p \in Seq(Segments) /\ Len(p) = 4 + 2 /\ p[1] = "api" /\ p[2] = "v2"
  BY <1>1, <1>2 DEF p
<1>4. \A i \in 1 .. 4 : p[i + 2] = q[i]
  BY <1>1, <1>2 DEF p
<1>5. p[3] = a /\ p[4] = b /\ p[5] = c /\ p[6] = d
  BY <1>1, <1>4
<1> QED
  BY <1>3, <1>5 DEF p, q, Under

(* What a pattern says of the paths it matches.                            *)
LEMMA MatchesItself ==
  ASSUME NEW p, Last(p) # "*", NEW path
  PROVE  Matches(p, path) <=> p = path
BY DEF Matches

LEMMA MatchesFront ==
  ASSUME NEW p \in Seq(Segments), Len(p) > 0, p[Len(p)] = "*", NEW path \in Seq(Segments)
  PROVE  Matches(p, path) <=> /\ Len(p) <= Len(path)
                              /\ \A i \in 1 .. (Len(p) - 1) : p[i] = path[i]
<1> DEFINE n == Len(p) - 1
           f == SubSeq(p, 1, n)
<1>1. n \in Nat /\ Len(p) = n + 1 /\ Len(path) \in Nat
  OBVIOUS
<1>2. f \in Seq(Segments) /\ Len(f) = n /\ \A i \in 1 .. n : f[i] = p[i]
  BY <1>1
<1>3. Matches(p, path) <=> n + 1 <= Len(path) /\ IsPrefix(f, path)
  BY <1>1 DEF Matches, Last, Front
<1> HIDE DEF n, f
<1>4. ASSUME n + 1 <= Len(path)
      PROVE  IsPrefix(f, path) <=> \A i \in 1 .. n : f[i] = path[i]
  <2> DEFINE s == SubSeq(f, 1, n)
             t == SubSeq(path, 1, n)
  <2>1. s \in Seq(Segments) /\ Len(s) = n /\ \A i \in 1 .. n : s[i] = f[i]
    BY <1>1, <1>2
  <2>2. t \in Seq(Segments) /\ Len(t) = n /\ \A i \in 1 .. n : t[i] = path[i]
    BY <1>1, <1>4
  <2>3. IsPrefix(f, path) <=> s = t
    BY <1>1, <1>2, <1>4 DEF IsPrefix
  <2> HIDE DEF s, t
  <2>4. (\A i \in 1 .. n : s[i] = t[i]) => s = t
    BY <2>1, <2>2, SeqEqual
  <2> QED
    BY <2>1, <2>2, <2>3, <2>4
<1> QED
  BY <1>1, <1>2, <1>3, <1>4

LEMMA MatchesOne ==
  ASSUME NEW a \in Segments, a # "*"
  PROVE  /\ Matches(Api(<<a>>), Api(<<a>>))
         /\ \A path : Matches(Api(<<a>>), path)
              => Len(path) = 3 /\ path[3] = a
<1> DEFINE p == Api(<<a>>)
<1>1. Under(p, 1) /\ p[3] = a
  BY ApiOne, Zenon
<1> HIDE DEF p
<1>2. Len(p) = 3 /\ Last(p) # "*"
  BY <1>1 DEF Under, Last
<1>3. \A path : Matches(p, path) <=> p = path
  BY <1>2, MatchesItself
<1>4. \A path : Matches(p, path) => Len(path) = 3 /\ path[3] = a
  BY <1>1, <1>2, <1>3
<1> QED
  BY <1>3, <1>4 DEF p

LEMMA MatchesTwo ==
  ASSUME NEW a \in Segments, NEW b \in Segments, b # "*"
  PROVE  /\ Matches(Api(<<a, b>>), Api(<<a, b>>))
         /\ \A path : Matches(Api(<<a, b>>), path)
              => Len(path) = 4 /\ path[3] = a /\ path[4] = b
<1> DEFINE p == Api(<<a, b>>)
<1>1. Under(p, 2) /\ p[3] = a /\ p[4] = b
  BY ApiTwo, Zenon
<1> HIDE DEF p
<1>2. Len(p) = 4 /\ Last(p) # "*"
  BY <1>1 DEF Under, Last
<1>3. \A path : Matches(p, path) <=> p = path
  BY <1>2, MatchesItself
<1>4. \A path : Matches(p, path) => Len(path) = 4 /\ path[3] = a /\ path[4] = b
  BY <1>1, <1>2, <1>3
<1> QED
  BY <1>3, <1>4 DEF p

LEMMA MatchesThree ==
  ASSUME NEW a \in Segments, NEW b \in Segments, NEW c \in Segments, c # "*"
  PROVE  /\ Matches(Api(<<a, b, c>>), Api(<<a, b, c>>))
         /\ \A path : Matches(Api(<<a, b, c>>), path)
              => Len(path) = 5 /\ path[3] = a /\ path[4] = b /\ path[5] = c
<1> DEFINE p == Api(<<a, b, c>>)
<1>1. Under(p, 3) /\ p[3] = a /\ p[4] = b /\ p[5] = c
  BY ApiThree
<1> HIDE DEF p
<1>2. Len(p) = 5 /\ Last(p) # "*"
  BY <1>1 DEF Under, Last
<1>3. \A path : Matches(p, path) <=> p = path
  BY <1>2, MatchesItself
<1>4. \A path : Matches(p, path) => Len(path) = 5 /\ path[3] = a /\ path[4] = b /\ path[5] = c
  BY <1>1, <1>2, <1>3
<1> QED
  BY <1>3, <1>4 DEF p

LEMMA MatchesUnderOne ==
  ASSUME NEW a \in Segments, NEW path \in Seq(Segments)
  PROVE  Matches(Api(<<a, "*">>), path)
           <=> /\ Len(path) >= 4 /\ path[1] = "api" /\ path[2] = "v2"
               /\ path[3] = a
<1> DEFINE p == Api(<<a, "*">>)
<1>0. "*" \in Segments
  BY Zenon DEF Segments
<1>1. Under(p, 2) /\ p[3] = a /\ p[4] = "*"
  BY <1>0, ApiTwo, Zenon
<1> HIDE DEF p
<1>2. /\ p \in Seq(Segments) /\ Len(p) = 4 /\ p[1] = "api" /\ p[2] = "v2"
      /\ p[Len(p)] = "*"
  BY <1>1 DEF Under
<1>3. Matches(p, path) <=> /\ Len(p) <= Len(path)
                           /\ \A i \in 1 .. (Len(p) - 1) : p[i] = path[i]
  <2>1. Len(p) > 0
    BY <1>2
  <2> QED
    BY <1>2, <2>1, MatchesFront, Zenon
<1>4. (\A i \in 1 .. 3 : p[i] = path[i])
        <=> /\ path[1] = "api" /\ path[2] = "v2"
            /\ path[3] = a
  BY <1>1, <1>2
<1>5. Len(path) \in Nat
  OBVIOUS
<1>6. Matches(p, path)
        <=> /\ Len(path) >= 4 /\ path[1] = "api" /\ path[2] = "v2"
            /\ path[3] = a
  BY <1>2, <1>3, <1>4, <1>5
<1> QED
  BY <1>6 DEF p

LEMMA MatchesUnderTwo ==
  ASSUME NEW a \in Segments, NEW b \in Segments, NEW path \in Seq(Segments)
  PROVE  Matches(Api(<<a, b, "*">>), path)
           <=> /\ Len(path) >= 5 /\ path[1] = "api" /\ path[2] = "v2"
               /\ path[3] = a /\ path[4] = b
<1> DEFINE p == Api(<<a, b, "*">>)
<1>0. "*" \in Segments
  BY Zenon DEF Segments
<1>1. Under(p, 3) /\ p[3] = a /\ p[4] = b /\ p[5] = "*"
  BY <1>0, ApiThree
<1> HIDE DEF p
<1>2. /\ p \in Seq(Segments) /\ Len(p) = 5 /\ p[1] = "api" /\ p[2] = "v2"
      /\ p[Len(p)] = "*"
  BY <1>1 DEF Under
<1>3. Matches(p, path) <=> /\ Len(p) <= Len(path)
                           /\ \A i \in 1 .. (Len(p) - 1) : p[i] = path[i]
  <2>1. Len(p) > 0
    BY <1>2
  <2> QED
    BY <1>2, <2>1, MatchesFront, Zenon
<1>4. (\A i \in 1 .. 4 : p[i] = path[i])
        <=> /\ path[1] = "api" /\ path[2] = "v2"
            /\ path[3] = a /\ path[4] = b
  BY <1>1, <1>2
<1>5. Len(path) \in Nat
  OBVIOUS
<1>6. Matches(p, path)
        <=> /\ Len(path) >= 5 /\ path[1] = "api" /\ path[2] = "v2"
            /\ path[3] = a /\ path[4] = b
  BY <1>2, <1>3, <1>4, <1>5
<1> QED
  BY <1>6 DEF p

LEMMA MatchesSse ==
  ASSUME NEW path, Matches(<<"sse", "v2">>, path)
  PROVE  Len(path) = 2 /\ path[1] = "sse"
<1> DEFINE p == <<"sse", "v2">>
<1>1. Len(p) = 2 /\ p[1] = "sse" /\ p[2] = "v2"
  OBVIOUS
<1> HIDE DEF p
<1>2. Last(p) # "*"
  BY <1>1 DEF Last
<1>3. p = path
  BY <1>2, MatchesItself DEF p
<1> QED
  BY <1>1, <1>3

LEMMA SegmentsAre ==
  /\ "api" \in Segments /\ "v2" \in Segments /\ "version" \in Segments
  /\ "control-lock" \in Segments /\ "status" \in Segments
  /\ "enable" \in Segments /\ "login" \in Segments /\ "logout" \in Segments
  /\ "disable" \in Segments /\ "programs" \in Segments /\ "start" \in Segments
  /\ "stop" \in Segments /\ "reset" \in Segments /\ "unload" \in Segments
  /\ "series" \in Segments /\ "skip_to" \in Segments /\ "load" \in Segments
  /\ "delete" \in Segments /\ "diagnostics" \in Segments
  /\ "info" \in Segments /\ "bundle" \in Segments /\ "targets" \in Segments
  /\ "show" \in Segments /\ "hide" \in Segments /\ "toggle" \in Segments
  /\ "audios" \in Segments /\ "play" \in Segments /\ "config" \in Segments
  /\ "hardware" \in Segments /\ "wifi" \in Segments /\ "networks" \in Segments
  /\ "system" \in Segments /\ "restart" \in Segments /\ "ota" \in Segments
  /\ "sse" \in Segments /\ "0" \in Segments /\ "1" \in Segments
  /\ "2" \in Segments /\ "9" \in Segments /\ "nothing" \in Segments
  /\ "what" \in Segments /\ "run" \in Segments /\ "x" \in Segments
  /\ "gone.js" \in Segments /\ "app.js" \in Segments /\ ".." \in Segments
  /\ "apiary" \in Segments
<1>1. /\ "api" \in Segments /\ "v2" \in Segments /\ "version" \in Segments
      /\ "control-lock" \in Segments /\ "status" \in Segments
      /\ "enable" \in Segments /\ "login" \in Segments /\ "logout" \in Segments
  BY Zenon DEF Segments
<1>2. /\ "disable" \in Segments /\ "programs" \in Segments /\ "start" \in Segments
      /\ "stop" \in Segments /\ "reset" \in Segments /\ "unload" \in Segments
      /\ "series" \in Segments /\ "skip_to" \in Segments /\ "load" \in Segments
  BY Zenon DEF Segments
<1>3. /\ "delete" \in Segments /\ "diagnostics" \in Segments
      /\ "info" \in Segments /\ "bundle" \in Segments /\ "targets" \in Segments
      /\ "show" \in Segments /\ "hide" \in Segments /\ "toggle" \in Segments
  BY Zenon DEF Segments
<1>4. /\ "audios" \in Segments /\ "play" \in Segments /\ "config" \in Segments
      /\ "hardware" \in Segments /\ "wifi" \in Segments /\ "networks" \in Segments
      /\ "system" \in Segments /\ "restart" \in Segments /\ "ota" \in Segments
  BY Zenon DEF Segments
<1>5. /\ "sse" \in Segments /\ "0" \in Segments /\ "1" \in Segments
      /\ "2" \in Segments /\ "9" \in Segments /\ "nothing" \in Segments
      /\ "what" \in Segments /\ "run" \in Segments /\ "x" \in Segments
  BY Zenon DEF Segments
<1>6. /\ "gone.js" \in Segments /\ "app.js" \in Segments /\ ".." \in Segments
      /\ "apiary" \in Segments
  BY Zenon DEF Segments
<1> QED
  BY <1>1, <1>2, <1>3, <1>4, <1>5, <1>6

(* The table of routes, method by method.                                  *)
LEMMA MethodsAre ==
  \A j \in 1 .. 36 :
    /\ Routes[j].method = "GET" => j \in {2, 3, 13, 15, 19, 20, 24, 28, 31, 32, 36}
    /\ Routes[j].method = "POST" => j \in {4, 5, 6, 7, 8, 9, 10, 11, 12, 14, 17, 21, 22, 23,
            25, 27, 30, 34, 35}
    /\ Routes[j].method = "PUT" => j \in {16, 29, 33}
    /\ Routes[j].method = "DELETE" => j \in {18, 26}
<1>1. /\ Routes[1].method = "OPTIONS"
      /\ Routes[2].method = "GET"
      /\ Routes[3].method = "GET"
      /\ Routes[4].method = "POST"
      /\ Routes[5].method = "POST"
      /\ Routes[6].method = "POST"
      /\ Routes[7].method = "POST"
      /\ Routes[8].method = "POST"
      /\ Routes[9].method = "POST"
      /\ Routes[10].method = "POST"
      /\ Routes[11].method = "POST"
      /\ Routes[12].method = "POST"
  BY DEF Routes, Route
<1>2. /\ Routes[13].method = "GET"
      /\ Routes[14].method = "POST"
      /\ Routes[15].method = "GET"
      /\ Routes[16].method = "PUT"
      /\ Routes[17].method = "POST"
      /\ Routes[18].method = "DELETE"
      /\ Routes[19].method = "GET"
      /\ Routes[20].method = "GET"
      /\ Routes[21].method = "POST"
      /\ Routes[22].method = "POST"
      /\ Routes[23].method = "POST"
      /\ Routes[24].method = "GET"
  BY DEF Routes, Route
<1>3. /\ Routes[25].method = "POST"
      /\ Routes[26].method = "DELETE"
      /\ Routes[27].method = "POST"
      /\ Routes[28].method = "GET"
      /\ Routes[29].method = "PUT"
      /\ Routes[30].method = "POST"
      /\ Routes[31].method = "GET"
      /\ Routes[32].method = "GET"
      /\ Routes[33].method = "PUT"
      /\ Routes[34].method = "POST"
      /\ Routes[35].method = "POST"
      /\ Routes[36].method = "GET"
  BY DEF Routes, Route
<1> QED
  BY <1>1, <1>2, <1>3

GetRow(j, path) ==
  \/ j = 2 /\ Len(path) = 3 /\ path[3] = "version"
  \/ j = 3 /\ Len(path) = 4 /\ path[3] = "control-lock" /\ path[4] = "status"
  \/ j = 13 /\ Len(path) = 3 /\ path[3] = "programs"
  \/ j = 15 /\ Len(path) >= 4 /\ path[3] = "programs"
  \/ j = 19 /\ Len(path) = 4 /\ path[3] = "diagnostics" /\ path[4] = "info"
  \/ j = 20 /\ Len(path) = 4 /\ path[3] = "diagnostics" /\ path[4] = "bundle"
  \/ j = 24 /\ Len(path) = 3 /\ path[3] = "audios"
  \/ j = 28 /\ Len(path) = 4 /\ path[3] = "config" /\ path[4] = "hardware"
  \/ j = 31 /\ Len(path) = 3 /\ path[3] = "wifi"
  \/ j = 32 /\ Len(path) = 4 /\ path[3] = "wifi" /\ path[4] = "networks"
  \/ j = 36 /\ Len(path) = 2 /\ path[1] = "sse"

LEMMA GetRoutes ==
  ASSUME NEW path \in Seq(Segments), NEW j \in 1 .. 36, Answers(j, "GET", path)
  PROVE  GetRow(j, path)
<1>0. j \in {2, 3, 13, 15, 19, 20, 24, 28, 31, 32, 36}
  BY MethodsAre DEF Answers
<1>1. CASE j = 2
  <2>1. Matches(Api(<<"version">>), path)
    BY <1>1 DEF Answers, Routes, Route
  <2> QED
    BY <1>1, <2>1, MatchesOne, SegmentsAre DEF GetRow
<1>2. CASE j = 3
  <2>1. Matches(Api(<<"control-lock", "status">>), path)
    BY <1>2 DEF Answers, Routes, Route
  <2> QED
    BY <1>2, <2>1, MatchesTwo, SegmentsAre DEF GetRow
<1>3. CASE j = 13
  <2>1. Matches(Api(<<"programs">>), path)
    BY <1>3 DEF Answers, Routes, Route
  <2> QED
    BY <1>3, <2>1, MatchesOne, SegmentsAre DEF GetRow
<1>4. CASE j = 15
  <2>1. Matches(Api(<<"programs", "*">>), path)
    BY <1>4 DEF Answers, Routes, Route
  <2> QED
    BY <1>4, <2>1, MatchesUnderOne, SegmentsAre DEF GetRow
<1>5. CASE j = 19
  <2>1. Matches(Api(<<"diagnostics", "info">>), path)
    BY <1>5 DEF Answers, Routes, Route
  <2> QED
    BY <1>5, <2>1, MatchesTwo, SegmentsAre DEF GetRow
<1>6. CASE j = 20
  <2>1. Matches(Api(<<"diagnostics", "bundle">>), path)
    BY <1>6 DEF Answers, Routes, Route
  <2> QED
    BY <1>6, <2>1, MatchesTwo, SegmentsAre DEF GetRow
<1>7. CASE j = 24
  <2>1. Matches(Api(<<"audios">>), path)
    BY <1>7 DEF Answers, Routes, Route
  <2> QED
    BY <1>7, <2>1, MatchesOne, SegmentsAre DEF GetRow
<1>8. CASE j = 28
  <2>1. Matches(Api(<<"config", "hardware">>), path)
    BY <1>8 DEF Answers, Routes, Route
  <2> QED
    BY <1>8, <2>1, MatchesTwo, SegmentsAre DEF GetRow
<1>9. CASE j = 31
  <2>1. Matches(Api(<<"wifi">>), path)
    BY <1>9 DEF Answers, Routes, Route
  <2> QED
    BY <1>9, <2>1, MatchesOne, SegmentsAre DEF GetRow
<1>10. CASE j = 32
  <2>1. Matches(Api(<<"wifi", "networks">>), path)
    BY <1>10 DEF Answers, Routes, Route
  <2> QED
    BY <1>10, <2>1, MatchesTwo, SegmentsAre DEF GetRow
<1>11. CASE j = 36
  <2>1. Matches(<<"sse", "v2">>, path)
    BY <1>11 DEF Answers, Routes
  <2> QED
    BY <1>11, <2>1, MatchesSse DEF GetRow
<1> QED
  BY <1>0, <1>1, <1>2, <1>3, <1>4, <1>5, <1>6, <1>7, <1>8, <1>9, <1>10, <1>11 DEF GetRow

PostRow(j, path) ==
  \/ j = 4 /\ Len(path) = 4 /\ path[3] = "control-lock" /\ path[4] = "enable"
  \/ j = 5 /\ Len(path) = 4 /\ path[3] = "control-lock" /\ path[4] = "login"
  \/ j = 6 /\ Len(path) = 4 /\ path[3] = "control-lock" /\ path[4] = "logout"
  \/ j = 7 /\ Len(path) = 4 /\ path[3] = "control-lock" /\ path[4] = "disable"
  \/ j = 8 /\ Len(path) = 4 /\ path[3] = "programs" /\ path[4] = "start"
  \/ j = 9 /\ Len(path) = 4 /\ path[3] = "programs" /\ path[4] = "stop"
  \/ j = 10 /\ Len(path) = 4 /\ path[3] = "programs" /\ path[4] = "reset"
  \/ j = 11 /\ Len(path) = 4 /\ path[3] = "programs" /\ path[4] = "unload"
  \/ j = 12 /\ Len(path) >= 5 /\ path[3] = "programs" /\ path[4] = "series"
  \/ j = 14 /\ Len(path) = 3 /\ path[3] = "programs"
  \/ j = 17 /\ Len(path) >= 4 /\ path[3] = "programs"
  \/ j = 21 /\ Len(path) = 4 /\ path[3] = "targets" /\ path[4] = "show"
  \/ j = 22 /\ Len(path) = 4 /\ path[3] = "targets" /\ path[4] = "hide"
  \/ j = 23 /\ Len(path) = 4 /\ path[3] = "targets" /\ path[4] = "toggle"
  \/ j = 25 /\ Len(path) >= 4 /\ path[3] = "audios"
  \/ j = 27 /\ Len(path) = 3 /\ path[3] = "audios"
  \/ j = 30 /\ Len(path) = 5 /\ path[3] = "config" /\ path[4] = "hardware" /\ path[5] = "reset"
  \/ j = 34 /\ Len(path) = 4 /\ path[3] = "system" /\ path[4] = "restart"
  \/ j = 35 /\ Len(path) = 3 /\ path[3] = "ota"

LEMMA PostRoutes ==
  ASSUME NEW path \in Seq(Segments), NEW j \in 1 .. 36, Answers(j, "POST", path)
  PROVE  PostRow(j, path)
<1>0. j \in {4, 5, 6, 7, 8, 9, 10, 11, 12, 14, 17, 21, 22, 23, 25, 27, 30, 34, 35}
  BY MethodsAre DEF Answers
<1>1. CASE j = 4
  <2>1. Matches(Api(<<"control-lock", "enable">>), path)
    BY <1>1 DEF Answers, Routes, Route
  <2> QED
    BY <1>1, <2>1, MatchesTwo, SegmentsAre DEF PostRow
<1>2. CASE j = 5
  <2>1. Matches(Api(<<"control-lock", "login">>), path)
    BY <1>2 DEF Answers, Routes, Route
  <2> QED
    BY <1>2, <2>1, MatchesTwo, SegmentsAre DEF PostRow
<1>3. CASE j = 6
  <2>1. Matches(Api(<<"control-lock", "logout">>), path)
    BY <1>3 DEF Answers, Routes, Route
  <2> QED
    BY <1>3, <2>1, MatchesTwo, SegmentsAre DEF PostRow
<1>4. CASE j = 7
  <2>1. Matches(Api(<<"control-lock", "disable">>), path)
    BY <1>4 DEF Answers, Routes, Route
  <2> QED
    BY <1>4, <2>1, MatchesTwo, SegmentsAre DEF PostRow
<1>5. CASE j = 8
  <2>1. Matches(Api(<<"programs", "start">>), path)
    BY <1>5 DEF Answers, Routes, Route
  <2> QED
    BY <1>5, <2>1, MatchesTwo, SegmentsAre DEF PostRow
<1>6. CASE j = 9
  <2>1. Matches(Api(<<"programs", "stop">>), path)
    BY <1>6 DEF Answers, Routes, Route
  <2> QED
    BY <1>6, <2>1, MatchesTwo, SegmentsAre DEF PostRow
<1>7. CASE j = 10
  <2>1. Matches(Api(<<"programs", "reset">>), path)
    BY <1>7 DEF Answers, Routes, Route
  <2> QED
    BY <1>7, <2>1, MatchesTwo, SegmentsAre DEF PostRow
<1>8. CASE j = 11
  <2>1. Matches(Api(<<"programs", "unload">>), path)
    BY <1>8 DEF Answers, Routes, Route
  <2> QED
    BY <1>8, <2>1, MatchesTwo, SegmentsAre DEF PostRow
<1>9. CASE j = 12
  <2>1. Matches(Api(<<"programs", "series", "*">>), path)
    BY <1>9 DEF Answers, Routes, Route
  <2> QED
    BY <1>9, <2>1, MatchesUnderTwo, SegmentsAre DEF PostRow
<1>10. CASE j = 14
  <2>1. Matches(Api(<<"programs">>), path)
    BY <1>10 DEF Answers, Routes, Route
  <2> QED
    BY <1>10, <2>1, MatchesOne, SegmentsAre DEF PostRow
<1>11. CASE j = 17
  <2>1. Matches(Api(<<"programs", "*">>), path)
    BY <1>11 DEF Answers, Routes, Route
  <2> QED
    BY <1>11, <2>1, MatchesUnderOne, SegmentsAre DEF PostRow
<1>12. CASE j = 21
  <2>1. Matches(Api(<<"targets", "show">>), path)
    BY <1>12 DEF Answers, Routes, Route
  <2> QED
    BY <1>12, <2>1, MatchesTwo, SegmentsAre DEF PostRow
<1>13. CASE j = 22
  <2>1. Matches(Api(<<"targets", "hide">>), path)
    BY <1>13 DEF Answers, Routes, Route
  <2> QED
    BY <1>13, <2>1, MatchesTwo, SegmentsAre DEF PostRow
<1>14. CASE j = 23
  <2>1. Matches(Api(<<"targets", "toggle">>), path)
    BY <1>14 DEF Answers, Routes, Route
  <2> QED
    BY <1>14, <2>1, MatchesTwo, SegmentsAre DEF PostRow
<1>15. CASE j = 25
  <2>1. Matches(Api(<<"audios", "*">>), path)
    BY <1>15 DEF Answers, Routes, Route
  <2> QED
    BY <1>15, <2>1, MatchesUnderOne, SegmentsAre DEF PostRow
<1>16. CASE j = 27
  <2>1. Matches(Api(<<"audios">>), path)
    BY <1>16 DEF Answers, Routes, Route
  <2> QED
    BY <1>16, <2>1, MatchesOne, SegmentsAre DEF PostRow
<1>17. CASE j = 30
  <2>1. Matches(Api(<<"config", "hardware", "reset">>), path)
    BY <1>17 DEF Answers, Routes, Route
  <2>2. "config" \in Segments /\ "hardware" \in Segments /\ "reset" \in Segments
    BY SegmentsAre
  <2>3. Len(path) = 5 /\ path[3] = "config" /\ path[4] = "hardware" /\ path[5] = "reset"
    BY <2>1, <2>2, MatchesThree
  <2> QED
    BY <1>17, <2>3 DEF PostRow
<1>18. CASE j = 34
  <2>1. Matches(Api(<<"system", "restart">>), path)
    BY <1>18 DEF Answers, Routes, Route
  <2> QED
    BY <1>18, <2>1, MatchesTwo, SegmentsAre DEF PostRow
<1>19. CASE j = 35
  <2>1. Matches(Api(<<"ota">>), path)
    BY <1>19 DEF Answers, Routes, Route
  <2> QED
    BY <1>19, <2>1, MatchesOne, SegmentsAre DEF PostRow
<1> QED
  BY <1>0, <1>1, <1>2, <1>3, <1>4, <1>5, <1>6, <1>7, <1>8, <1>9, <1>10, <1>11, <1>12, <1>13,
     <1>14, <1>15, <1>16, <1>17, <1>18, <1>19 DEF PostRow

PutRow(j, path) ==
  \/ j = 16 /\ Len(path) >= 4 /\ path[3] = "programs"
  \/ j = 29 /\ Len(path) = 4 /\ path[3] = "config" /\ path[4] = "hardware"
  \/ j = 33 /\ Len(path) = 3 /\ path[3] = "wifi"

LEMMA PutRoutes ==
  ASSUME NEW path \in Seq(Segments), NEW j \in 1 .. 36, Answers(j, "PUT", path)
  PROVE  PutRow(j, path)
<1>0. j \in {16, 29, 33}
  BY MethodsAre DEF Answers
<1>1. CASE j = 16
  <2>1. Matches(Api(<<"programs", "*">>), path)
    BY <1>1 DEF Answers, Routes, Route
  <2> QED
    BY <1>1, <2>1, MatchesUnderOne, SegmentsAre DEF PutRow
<1>2. CASE j = 29
  <2>1. Matches(Api(<<"config", "hardware">>), path)
    BY <1>2 DEF Answers, Routes, Route
  <2> QED
    BY <1>2, <2>1, MatchesTwo, SegmentsAre DEF PutRow
<1>3. CASE j = 33
  <2>1. Matches(Api(<<"wifi">>), path)
    BY <1>3 DEF Answers, Routes, Route
  <2> QED
    BY <1>3, <2>1, MatchesOne, SegmentsAre DEF PutRow
<1> QED
  BY <1>0, <1>1, <1>2, <1>3 DEF PutRow

DeleteRow(j, path) ==
  \/ j = 18 /\ Len(path) >= 4 /\ path[3] = "programs"
  \/ j = 26 /\ Len(path) >= 4 /\ path[3] = "audios"

LEMMA DeleteRoutes ==
  ASSUME NEW path \in Seq(Segments), NEW j \in 1 .. 36, Answers(j, "DELETE", path)
  PROVE  DeleteRow(j, path)
<1>0. j \in {18, 26}
  BY MethodsAre DEF Answers
<1>1. CASE j = 18
  <2>1. Matches(Api(<<"programs", "*">>), path)
    BY <1>1 DEF Answers, Routes, Route
  <2> QED
    BY <1>1, <2>1, MatchesUnderOne, SegmentsAre DEF DeleteRow
<1>2. CASE j = 26
  <2>1. Matches(Api(<<"audios", "*">>), path)
    BY <1>2 DEF Answers, Routes, Route
  <2> QED
    BY <1>2, <2>1, MatchesUnderOne, SegmentsAre DEF DeleteRow
<1> QED
  BY <1>0, <1>1, <1>2 DEF DeleteRow

(* Each operation of the API has a route of its own.                       *)
ReachedBy(op, method, path) == Served(method, Api(path)) = op

LEMMA GetServes ==
  ASSUME NEW path \in Seq(Segments), NEW k \in 1 .. 36, Answers(k, "GET", path),
         \A j \in 1 .. 36 : GetRow(j, path) => k <= j
  PROVE  Served("GET", path) = Routes[k].op
<1>1. \A j \in 1 .. 36 : Answers(j, "GET", path) => k <= j
  BY GetRoutes, Zenon
<1> QED
  BY <1>1, ServedFirst, Zenon

LEMMA PostServes ==
  ASSUME NEW path \in Seq(Segments), NEW k \in 1 .. 36, Answers(k, "POST", path),
         \A j \in 1 .. 36 : PostRow(j, path) => k <= j
  PROVE  Served("POST", path) = Routes[k].op
<1>1. \A j \in 1 .. 36 : Answers(j, "POST", path) => k <= j
  BY PostRoutes, Zenon
<1> QED
  BY <1>1, ServedFirst, Zenon

LEMMA PutServes ==
  ASSUME NEW path \in Seq(Segments), NEW k \in 1 .. 36, Answers(k, "PUT", path),
         \A j \in 1 .. 36 : PutRow(j, path) => k <= j
  PROVE  Served("PUT", path) = Routes[k].op
<1>1. \A j \in 1 .. 36 : Answers(j, "PUT", path) => k <= j
  BY PutRoutes, Zenon
<1> QED
  BY <1>1, ServedFirst, Zenon

LEMMA DeleteServes ==
  ASSUME NEW path \in Seq(Segments), NEW k \in 1 .. 36, Answers(k, "DELETE", path),
         \A j \in 1 .. 36 : DeleteRow(j, path) => k <= j
  PROVE  Served("DELETE", path) = Routes[k].op
<1>1. \A j \in 1 .. 36 : Answers(j, "DELETE", path) => k <= j
  BY DeleteRoutes, Zenon
<1> QED
  BY <1>1, ServedFirst, Zenon

LEMMA GetReaches ==
  /\ ReachedBy("getVersion", "GET", <<"version">>)
  /\ ReachedBy("getControlLockStatus", "GET", <<"control-lock", "status">>)
  /\ ReachedBy("listPrograms", "GET", <<"programs">>)
  /\ \A id \in Segments : ReachedBy("getProgram", "GET", <<"programs", id>>)
  /\ ReachedBy("listAudios", "GET", <<"audios">>)
  /\ ReachedBy("getHardwareConfig", "GET", <<"config", "hardware">>)
  /\ ReachedBy("getWifiStatus", "GET", <<"wifi">>)
  /\ ReachedBy("getWifiNetworks", "GET", <<"wifi", "networks">>)
  /\ ReachedBy("getDiagnosticsInfo", "GET", <<"diagnostics", "info">>)
  /\ ReachedBy("getDiagnosticsBundle", "GET", <<"diagnostics", "bundle">>)
<1>1. ReachedBy("getVersion", "GET", <<"version">>)
  <2> DEFINE p == Api(<<"version">>)
  <2>1. Under(p, 1) /\ p[3] = "version"
    BY SegmentsAre, ApiOne
  <2>2. Answers(2, "GET", p)
    BY MatchesOne, SegmentsAre DEF Answers, Routes, Route
  <2> HIDE DEF p
  <2>3. \A j \in 1 .. 36 : GetRow(j, p) => 2 <= j
    BY <2>1 DEF Under, GetRow
  <2>4. 2 \in 1 .. 36 /\ Routes[2].op = "getVersion" /\ p \in Seq(Segments)
    BY <2>1 DEF Routes, Route, Under
  <2>5. Served("GET", p) = "getVersion"
    BY <2>2, <2>3, <2>4, GetServes, Zenon
  <2> QED
    BY <2>5 DEF p, ReachedBy
<1>2. ReachedBy("getControlLockStatus", "GET", <<"control-lock", "status">>)
  <2> DEFINE p == Api(<<"control-lock", "status">>)
  <2>1. Under(p, 2) /\ p[3] = "control-lock" /\ p[4] = "status"
    BY SegmentsAre, ApiTwo
  <2>2. Answers(3, "GET", p)
    BY MatchesTwo, SegmentsAre DEF Answers, Routes, Route
  <2> HIDE DEF p
  <2>3. \A j \in 1 .. 36 : GetRow(j, p) => 3 <= j
    BY <2>1 DEF Under, GetRow
  <2>4. 3 \in 1 .. 36 /\ Routes[3].op = "getControlLockStatus" /\ p \in Seq(Segments)
    BY <2>1 DEF Routes, Route, Under
  <2>5. Served("GET", p) = "getControlLockStatus"
    BY <2>2, <2>3, <2>4, GetServes, Zenon
  <2> QED
    BY <2>5 DEF p, ReachedBy
<1>3. ReachedBy("listPrograms", "GET", <<"programs">>)
  <2> DEFINE p == Api(<<"programs">>)
  <2>1. Under(p, 1) /\ p[3] = "programs"
    BY SegmentsAre, ApiOne
  <2>2. Answers(13, "GET", p)
    BY MatchesOne, SegmentsAre DEF Answers, Routes, Route
  <2> HIDE DEF p
  <2>3. \A j \in 1 .. 36 : GetRow(j, p) => 13 <= j
    BY <2>1 DEF Under, GetRow
  <2>4. 13 \in 1 .. 36 /\ Routes[13].op = "listPrograms" /\ p \in Seq(Segments)
    BY <2>1 DEF Routes, Route, Under
  <2>5. Served("GET", p) = "listPrograms"
    BY <2>2, <2>3, <2>4, GetServes, Zenon
  <2> QED
    BY <2>5 DEF p, ReachedBy
<1>4. ASSUME NEW id \in Segments
      PROVE  ReachedBy("getProgram", "GET", <<"programs", id>>)
  <2> DEFINE p == Api(<<"programs", id>>)
  <2>1. Under(p, 2) /\ p[3] = "programs" /\ p[4] = id
    BY SegmentsAre, ApiTwo
  <2>2. Answers(15, "GET", p)
    <3>1. /\ p \in Seq(Segments) /\ Len(p) >= 4 /\ p[1] = "api" /\ p[2] = "v2"
          /\ p[3] = "programs"
      <4> HIDE DEF p
      <4> QED
        BY <2>1 DEF Under
    <3>2. Matches(Api(<<"programs", "*">>), p)
      <4> HIDE DEF p
      <4> QED
        BY <3>1, MatchesUnderOne, SegmentsAre, Zenon
    <3> QED
      BY <3>2 DEF Answers, Routes, Route
  <2> HIDE DEF p
  <2>3. \A j \in 1 .. 36 : GetRow(j, p) => 15 <= j
    BY <2>1 DEF Under, GetRow
  <2>4. 15 \in 1 .. 36 /\ Routes[15].op = "getProgram" /\ p \in Seq(Segments)
    BY <2>1 DEF Routes, Route, Under
  <2>5. Served("GET", p) = "getProgram"
    BY <2>2, <2>3, <2>4, GetServes, Zenon
  <2> QED
    BY <2>5 DEF p, ReachedBy
<1>5. ReachedBy("listAudios", "GET", <<"audios">>)
  <2> DEFINE p == Api(<<"audios">>)
  <2>1. Under(p, 1) /\ p[3] = "audios"
    BY SegmentsAre, ApiOne
  <2>2. Answers(24, "GET", p)
    BY MatchesOne, SegmentsAre DEF Answers, Routes, Route
  <2> HIDE DEF p
  <2>3. \A j \in 1 .. 36 : GetRow(j, p) => 24 <= j
    BY <2>1 DEF Under, GetRow
  <2>4. 24 \in 1 .. 36 /\ Routes[24].op = "listAudios" /\ p \in Seq(Segments)
    BY <2>1 DEF Routes, Route, Under
  <2>5. Served("GET", p) = "listAudios"
    BY <2>2, <2>3, <2>4, GetServes, Zenon
  <2> QED
    BY <2>5 DEF p, ReachedBy
<1>6. ReachedBy("getHardwareConfig", "GET", <<"config", "hardware">>)
  <2> DEFINE p == Api(<<"config", "hardware">>)
  <2>1. Under(p, 2) /\ p[3] = "config" /\ p[4] = "hardware"
    BY SegmentsAre, ApiTwo
  <2>2. Answers(28, "GET", p)
    BY MatchesTwo, SegmentsAre DEF Answers, Routes, Route
  <2> HIDE DEF p
  <2>3. \A j \in 1 .. 36 : GetRow(j, p) => 28 <= j
    BY <2>1 DEF Under, GetRow
  <2>4. 28 \in 1 .. 36 /\ Routes[28].op = "getHardwareConfig" /\ p \in Seq(Segments)
    BY <2>1 DEF Routes, Route, Under
  <2>5. Served("GET", p) = "getHardwareConfig"
    BY <2>2, <2>3, <2>4, GetServes, Zenon
  <2> QED
    BY <2>5 DEF p, ReachedBy
<1>7. ReachedBy("getWifiStatus", "GET", <<"wifi">>)
  <2> DEFINE p == Api(<<"wifi">>)
  <2>1. Under(p, 1) /\ p[3] = "wifi"
    BY SegmentsAre, ApiOne
  <2>2. Answers(31, "GET", p)
    BY MatchesOne, SegmentsAre DEF Answers, Routes, Route
  <2> HIDE DEF p
  <2>3. \A j \in 1 .. 36 : GetRow(j, p) => 31 <= j
    BY <2>1 DEF Under, GetRow
  <2>4. 31 \in 1 .. 36 /\ Routes[31].op = "getWifiStatus" /\ p \in Seq(Segments)
    BY <2>1 DEF Routes, Route, Under
  <2>5. Served("GET", p) = "getWifiStatus"
    BY <2>2, <2>3, <2>4, GetServes, Zenon
  <2> QED
    BY <2>5 DEF p, ReachedBy
<1>8. ReachedBy("getWifiNetworks", "GET", <<"wifi", "networks">>)
  <2> DEFINE p == Api(<<"wifi", "networks">>)
  <2>1. Under(p, 2) /\ p[3] = "wifi" /\ p[4] = "networks"
    BY SegmentsAre, ApiTwo
  <2>2. Answers(32, "GET", p)
    BY MatchesTwo, SegmentsAre DEF Answers, Routes, Route
  <2> HIDE DEF p
  <2>3. \A j \in 1 .. 36 : GetRow(j, p) => 32 <= j
    BY <2>1 DEF Under, GetRow
  <2>4. 32 \in 1 .. 36 /\ Routes[32].op = "getWifiNetworks" /\ p \in Seq(Segments)
    BY <2>1 DEF Routes, Route, Under
  <2>5. Served("GET", p) = "getWifiNetworks"
    BY <2>2, <2>3, <2>4, GetServes, Zenon
  <2> QED
    BY <2>5 DEF p, ReachedBy
<1>9. ReachedBy("getDiagnosticsInfo", "GET", <<"diagnostics", "info">>)
  <2> DEFINE p == Api(<<"diagnostics", "info">>)
  <2>1. Under(p, 2) /\ p[3] = "diagnostics" /\ p[4] = "info"
    BY SegmentsAre, ApiTwo
  <2>2. Answers(19, "GET", p)
    BY MatchesTwo, SegmentsAre DEF Answers, Routes, Route
  <2> HIDE DEF p
  <2>3. \A j \in 1 .. 36 : GetRow(j, p) => 19 <= j
    BY <2>1 DEF Under, GetRow
  <2>4. 19 \in 1 .. 36 /\ Routes[19].op = "getDiagnosticsInfo" /\ p \in Seq(Segments)
    BY <2>1 DEF Routes, Route, Under
  <2>5. Served("GET", p) = "getDiagnosticsInfo"
    BY <2>2, <2>3, <2>4, GetServes, Zenon
  <2> QED
    BY <2>5 DEF p, ReachedBy
<1>10. ReachedBy("getDiagnosticsBundle", "GET", <<"diagnostics", "bundle">>)
  <2> DEFINE p == Api(<<"diagnostics", "bundle">>)
  <2>1. Under(p, 2) /\ p[3] = "diagnostics" /\ p[4] = "bundle"
    BY SegmentsAre, ApiTwo
  <2>2. Answers(20, "GET", p)
    BY MatchesTwo, SegmentsAre DEF Answers, Routes, Route
  <2> HIDE DEF p
  <2>3. \A j \in 1 .. 36 : GetRow(j, p) => 20 <= j
    BY <2>1 DEF Under, GetRow
  <2>4. 20 \in 1 .. 36 /\ Routes[20].op = "getDiagnosticsBundle" /\ p \in Seq(Segments)
    BY <2>1 DEF Routes, Route, Under
  <2>5. Served("GET", p) = "getDiagnosticsBundle"
    BY <2>2, <2>3, <2>4, GetServes, Zenon
  <2> QED
    BY <2>5 DEF p, ReachedBy
<1> QED
  BY <1>1, <1>2, <1>3, <1>4, <1>5, <1>6, <1>7, <1>8, <1>9, <1>10

LEMMA PostReaches ==
  /\ ReachedBy("enableControlLock", "POST", <<"control-lock", "enable">>)
  /\ ReachedBy("loginControlLock", "POST", <<"control-lock", "login">>)
  /\ ReachedBy("logoutControlLock", "POST", <<"control-lock", "logout">>)
  /\ ReachedBy("disableControlLock", "POST", <<"control-lock", "disable">>)
  /\ ReachedBy("createProgram", "POST", <<"programs">>)
  /\ \A id \in Segments \ {"series"} : ReachedBy("loadProgram", "POST", <<"programs", id,
          "load">>)
  /\ ReachedBy("startProgram", "POST", <<"programs", "start">>)
  /\ ReachedBy("stopProgram", "POST", <<"programs", "stop">>)
  /\ ReachedBy("resetProgram", "POST", <<"programs", "reset">>)
  /\ ReachedBy("unloadProgram", "POST", <<"programs", "unload">>)
  /\ \A i \in Segments : ReachedBy("skipToSeries", "POST", <<"programs", "series", i,
          "skip_to">>)
  /\ ReachedBy("showTargets", "POST", <<"targets", "show">>)
  /\ ReachedBy("hideTargets", "POST", <<"targets", "hide">>)
  /\ ReachedBy("toggleTargets", "POST", <<"targets", "toggle">>)
  /\ ReachedBy("createAudio", "POST", <<"audios">>)
  /\ \A id \in Segments : ReachedBy("playAudio", "POST", <<"audios", id, "play">>)
  /\ ReachedBy("resetHardwareConfig", "POST", <<"config", "hardware", "reset">>)
  /\ ReachedBy("restartSystem", "POST", <<"system", "restart">>)
  /\ ReachedBy("uploadFirmware", "POST", <<"ota">>)
<1>1. ReachedBy("enableControlLock", "POST", <<"control-lock", "enable">>)
  <2> DEFINE p == Api(<<"control-lock", "enable">>)
  <2>1. Under(p, 2) /\ p[3] = "control-lock" /\ p[4] = "enable"
    BY SegmentsAre, ApiTwo
  <2>2. Answers(4, "POST", p)
    BY MatchesTwo, SegmentsAre DEF Answers, Routes, Route
  <2> HIDE DEF p
  <2>3. \A j \in 1 .. 36 : PostRow(j, p) => 4 <= j
    BY <2>1 DEF Under, PostRow
  <2>4. 4 \in 1 .. 36 /\ Routes[4].op = "enableControlLock" /\ p \in Seq(Segments)
    BY <2>1 DEF Routes, Route, Under
  <2>5. Served("POST", p) = "enableControlLock"
    BY <2>2, <2>3, <2>4, PostServes, Zenon
  <2> QED
    BY <2>5 DEF p, ReachedBy
<1>2. ReachedBy("loginControlLock", "POST", <<"control-lock", "login">>)
  <2> DEFINE p == Api(<<"control-lock", "login">>)
  <2>1. Under(p, 2) /\ p[3] = "control-lock" /\ p[4] = "login"
    BY SegmentsAre, ApiTwo
  <2>2. Answers(5, "POST", p)
    BY MatchesTwo, SegmentsAre DEF Answers, Routes, Route
  <2> HIDE DEF p
  <2>3. \A j \in 1 .. 36 : PostRow(j, p) => 5 <= j
    BY <2>1 DEF Under, PostRow
  <2>4. 5 \in 1 .. 36 /\ Routes[5].op = "loginControlLock" /\ p \in Seq(Segments)
    BY <2>1 DEF Routes, Route, Under
  <2>5. Served("POST", p) = "loginControlLock"
    BY <2>2, <2>3, <2>4, PostServes, Zenon
  <2> QED
    BY <2>5 DEF p, ReachedBy
<1>3. ReachedBy("logoutControlLock", "POST", <<"control-lock", "logout">>)
  <2> DEFINE p == Api(<<"control-lock", "logout">>)
  <2>1. Under(p, 2) /\ p[3] = "control-lock" /\ p[4] = "logout"
    BY SegmentsAre, ApiTwo
  <2>2. Answers(6, "POST", p)
    BY MatchesTwo, SegmentsAre DEF Answers, Routes, Route
  <2> HIDE DEF p
  <2>3. \A j \in 1 .. 36 : PostRow(j, p) => 6 <= j
    BY <2>1 DEF Under, PostRow
  <2>4. 6 \in 1 .. 36 /\ Routes[6].op = "logoutControlLock" /\ p \in Seq(Segments)
    BY <2>1 DEF Routes, Route, Under
  <2>5. Served("POST", p) = "logoutControlLock"
    BY <2>2, <2>3, <2>4, PostServes, Zenon
  <2> QED
    BY <2>5 DEF p, ReachedBy
<1>4. ReachedBy("disableControlLock", "POST", <<"control-lock", "disable">>)
  <2> DEFINE p == Api(<<"control-lock", "disable">>)
  <2>1. Under(p, 2) /\ p[3] = "control-lock" /\ p[4] = "disable"
    BY SegmentsAre, ApiTwo
  <2>2. Answers(7, "POST", p)
    BY MatchesTwo, SegmentsAre DEF Answers, Routes, Route
  <2> HIDE DEF p
  <2>3. \A j \in 1 .. 36 : PostRow(j, p) => 7 <= j
    BY <2>1 DEF Under, PostRow
  <2>4. 7 \in 1 .. 36 /\ Routes[7].op = "disableControlLock" /\ p \in Seq(Segments)
    BY <2>1 DEF Routes, Route, Under
  <2>5. Served("POST", p) = "disableControlLock"
    BY <2>2, <2>3, <2>4, PostServes, Zenon
  <2> QED
    BY <2>5 DEF p, ReachedBy
<1>5. ReachedBy("createProgram", "POST", <<"programs">>)
  <2> DEFINE p == Api(<<"programs">>)
  <2>1. Under(p, 1) /\ p[3] = "programs"
    BY SegmentsAre, ApiOne
  <2>2. Answers(14, "POST", p)
    BY MatchesOne, SegmentsAre DEF Answers, Routes, Route
  <2> HIDE DEF p
  <2>3. \A j \in 1 .. 36 : PostRow(j, p) => 14 <= j
    BY <2>1 DEF Under, PostRow
  <2>4. 14 \in 1 .. 36 /\ Routes[14].op = "createProgram" /\ p \in Seq(Segments)
    BY <2>1 DEF Routes, Route, Under
  <2>5. Served("POST", p) = "createProgram"
    BY <2>2, <2>3, <2>4, PostServes, Zenon
  <2> QED
    BY <2>5 DEF p, ReachedBy
<1>6. ASSUME NEW id \in Segments \ {"series"}
      PROVE  ReachedBy("loadProgram", "POST", <<"programs", id, "load">>)
  <2> DEFINE p == Api(<<"programs", id, "load">>)
  <2>1. Under(p, 3) /\ p[3] = "programs" /\ p[4] = id /\ p[5] = "load"
    BY SegmentsAre, ApiThree
  <2>2. Answers(17, "POST", p)
    <3>1. /\ p \in Seq(Segments) /\ Len(p) >= 4 /\ p[1] = "api" /\ p[2] = "v2"
          /\ p[3] = "programs"
      <4> HIDE DEF p
      <4> QED
        BY <2>1 DEF Under
    <3>2. Matches(Api(<<"programs", "*">>), p)
      <4> HIDE DEF p
      <4> QED
        BY <3>1, MatchesUnderOne, SegmentsAre, Zenon
    <3> QED
      BY <3>2 DEF Answers, Routes, Route
  <2> HIDE DEF p
  <2>3. \A j \in 1 .. 36 : PostRow(j, p) => 17 <= j
    BY <2>1 DEF Under, PostRow
  <2>4. 17 \in 1 .. 36 /\ Routes[17].op = "loadProgram" /\ p \in Seq(Segments)
    BY <2>1 DEF Routes, Route, Under
  <2>5. Served("POST", p) = "loadProgram"
    BY <2>2, <2>3, <2>4, PostServes, Zenon
  <2> QED
    BY <2>5 DEF p, ReachedBy
<1>7. ReachedBy("startProgram", "POST", <<"programs", "start">>)
  <2> DEFINE p == Api(<<"programs", "start">>)
  <2>1. Under(p, 2) /\ p[3] = "programs" /\ p[4] = "start"
    BY SegmentsAre, ApiTwo
  <2>2. Answers(8, "POST", p)
    BY MatchesTwo, SegmentsAre DEF Answers, Routes, Route
  <2> HIDE DEF p
  <2>3. \A j \in 1 .. 36 : PostRow(j, p) => 8 <= j
    BY <2>1 DEF Under, PostRow
  <2>4. 8 \in 1 .. 36 /\ Routes[8].op = "startProgram" /\ p \in Seq(Segments)
    BY <2>1 DEF Routes, Route, Under
  <2>5. Served("POST", p) = "startProgram"
    BY <2>2, <2>3, <2>4, PostServes, Zenon
  <2> QED
    BY <2>5 DEF p, ReachedBy
<1>8. ReachedBy("stopProgram", "POST", <<"programs", "stop">>)
  <2> DEFINE p == Api(<<"programs", "stop">>)
  <2>1. Under(p, 2) /\ p[3] = "programs" /\ p[4] = "stop"
    BY SegmentsAre, ApiTwo
  <2>2. Answers(9, "POST", p)
    BY MatchesTwo, SegmentsAre DEF Answers, Routes, Route
  <2> HIDE DEF p
  <2>3. \A j \in 1 .. 36 : PostRow(j, p) => 9 <= j
    BY <2>1 DEF Under, PostRow
  <2>4. 9 \in 1 .. 36 /\ Routes[9].op = "stopProgram" /\ p \in Seq(Segments)
    BY <2>1 DEF Routes, Route, Under
  <2>5. Served("POST", p) = "stopProgram"
    BY <2>2, <2>3, <2>4, PostServes, Zenon
  <2> QED
    BY <2>5 DEF p, ReachedBy
<1>9. ReachedBy("resetProgram", "POST", <<"programs", "reset">>)
  <2> DEFINE p == Api(<<"programs", "reset">>)
  <2>1. Under(p, 2) /\ p[3] = "programs" /\ p[4] = "reset"
    BY SegmentsAre, ApiTwo
  <2>2. Answers(10, "POST", p)
    BY MatchesTwo, SegmentsAre DEF Answers, Routes, Route
  <2> HIDE DEF p
  <2>3. \A j \in 1 .. 36 : PostRow(j, p) => 10 <= j
    BY <2>1 DEF Under, PostRow
  <2>4. 10 \in 1 .. 36 /\ Routes[10].op = "resetProgram" /\ p \in Seq(Segments)
    BY <2>1 DEF Routes, Route, Under
  <2>5. Served("POST", p) = "resetProgram"
    BY <2>2, <2>3, <2>4, PostServes, Zenon
  <2> QED
    BY <2>5 DEF p, ReachedBy
<1>10. ReachedBy("unloadProgram", "POST", <<"programs", "unload">>)
  <2> DEFINE p == Api(<<"programs", "unload">>)
  <2>1. Under(p, 2) /\ p[3] = "programs" /\ p[4] = "unload"
    BY SegmentsAre, ApiTwo
  <2>2. Answers(11, "POST", p)
    BY MatchesTwo, SegmentsAre DEF Answers, Routes, Route
  <2> HIDE DEF p
  <2>3. \A j \in 1 .. 36 : PostRow(j, p) => 11 <= j
    BY <2>1 DEF Under, PostRow
  <2>4. 11 \in 1 .. 36 /\ Routes[11].op = "unloadProgram" /\ p \in Seq(Segments)
    BY <2>1 DEF Routes, Route, Under
  <2>5. Served("POST", p) = "unloadProgram"
    BY <2>2, <2>3, <2>4, PostServes, Zenon
  <2> QED
    BY <2>5 DEF p, ReachedBy
<1>11. ASSUME NEW i \in Segments
      PROVE  ReachedBy("skipToSeries", "POST", <<"programs", "series", i, "skip_to">>)
  <2> DEFINE p == Api(<<"programs", "series", i, "skip_to">>)
  <2>1. Under(p, 4) /\ p[3] = "programs" /\ p[4] = "series" /\ p[5] = i /\ p[6] = "skip_to"
    <3> DEFINE a == "programs"
               b == "series"
               d == "skip_to"
    <3>1. a \in Segments /\ b \in Segments /\ d \in Segments
      BY SegmentsAre
    <3> HIDE DEF a, b, d
    <3>2. /\ Under(Api(<<a, b, i, d>>), 4)
          /\ Api(<<a, b, i, d>>)[3] = a /\ Api(<<a, b, i, d>>)[4] = b
          /\ Api(<<a, b, i, d>>)[5] = i /\ Api(<<a, b, i, d>>)[6] = d
      BY <3>1, ApiFour
    <3> QED
      BY <3>2 DEF a, b, d
  <2>2. Answers(12, "POST", p)
    <3>1. /\ p \in Seq(Segments) /\ Len(p) >= 5 /\ p[1] = "api" /\ p[2] = "v2"
          /\ p[3] = "programs" /\ p[4] = "series"
      <4> HIDE DEF p
      <4> QED
        BY <2>1 DEF Under
    <3>2. Matches(Api(<<"programs", "series", "*">>), p)
      <4> HIDE DEF p
      <4> QED
        BY <3>1, MatchesUnderTwo, SegmentsAre, Zenon
    <3> QED
      BY <3>2 DEF Answers, Routes, Route
  <2> HIDE DEF p
  <2>3. \A j \in 1 .. 36 : PostRow(j, p) => 12 <= j
    BY <2>1 DEF Under, PostRow
  <2>4. 12 \in 1 .. 36 /\ Routes[12].op = "skipToSeries" /\ p \in Seq(Segments)
    BY <2>1 DEF Routes, Route, Under
  <2>5. Served("POST", p) = "skipToSeries"
    BY <2>2, <2>3, <2>4, PostServes, Zenon
  <2> QED
    BY <2>5 DEF p, ReachedBy
<1>12. ReachedBy("showTargets", "POST", <<"targets", "show">>)
  <2> DEFINE p == Api(<<"targets", "show">>)
  <2>1. Under(p, 2) /\ p[3] = "targets" /\ p[4] = "show"
    BY SegmentsAre, ApiTwo
  <2>2. Answers(21, "POST", p)
    BY MatchesTwo, SegmentsAre DEF Answers, Routes, Route
  <2> HIDE DEF p
  <2>3. \A j \in 1 .. 36 : PostRow(j, p) => 21 <= j
    BY <2>1 DEF Under, PostRow
  <2>4. 21 \in 1 .. 36 /\ Routes[21].op = "showTargets" /\ p \in Seq(Segments)
    BY <2>1 DEF Routes, Route, Under
  <2>5. Served("POST", p) = "showTargets"
    BY <2>2, <2>3, <2>4, PostServes, Zenon
  <2> QED
    BY <2>5 DEF p, ReachedBy
<1>13. ReachedBy("hideTargets", "POST", <<"targets", "hide">>)
  <2> DEFINE p == Api(<<"targets", "hide">>)
  <2>1. Under(p, 2) /\ p[3] = "targets" /\ p[4] = "hide"
    BY SegmentsAre, ApiTwo
  <2>2. Answers(22, "POST", p)
    BY MatchesTwo, SegmentsAre DEF Answers, Routes, Route
  <2> HIDE DEF p
  <2>3. \A j \in 1 .. 36 : PostRow(j, p) => 22 <= j
    BY <2>1 DEF Under, PostRow
  <2>4. 22 \in 1 .. 36 /\ Routes[22].op = "hideTargets" /\ p \in Seq(Segments)
    BY <2>1 DEF Routes, Route, Under
  <2>5. Served("POST", p) = "hideTargets"
    BY <2>2, <2>3, <2>4, PostServes, Zenon
  <2> QED
    BY <2>5 DEF p, ReachedBy
<1>14. ReachedBy("toggleTargets", "POST", <<"targets", "toggle">>)
  <2> DEFINE p == Api(<<"targets", "toggle">>)
  <2>1. Under(p, 2) /\ p[3] = "targets" /\ p[4] = "toggle"
    BY SegmentsAre, ApiTwo
  <2>2. Answers(23, "POST", p)
    BY MatchesTwo, SegmentsAre DEF Answers, Routes, Route
  <2> HIDE DEF p
  <2>3. \A j \in 1 .. 36 : PostRow(j, p) => 23 <= j
    BY <2>1 DEF Under, PostRow
  <2>4. 23 \in 1 .. 36 /\ Routes[23].op = "toggleTargets" /\ p \in Seq(Segments)
    BY <2>1 DEF Routes, Route, Under
  <2>5. Served("POST", p) = "toggleTargets"
    BY <2>2, <2>3, <2>4, PostServes, Zenon
  <2> QED
    BY <2>5 DEF p, ReachedBy
<1>15. ReachedBy("createAudio", "POST", <<"audios">>)
  <2> DEFINE p == Api(<<"audios">>)
  <2>1. Under(p, 1) /\ p[3] = "audios"
    BY SegmentsAre, ApiOne
  <2>2. Answers(27, "POST", p)
    BY MatchesOne, SegmentsAre DEF Answers, Routes, Route
  <2> HIDE DEF p
  <2>3. \A j \in 1 .. 36 : PostRow(j, p) => 27 <= j
    BY <2>1 DEF Under, PostRow
  <2>4. 27 \in 1 .. 36 /\ Routes[27].op = "createAudio" /\ p \in Seq(Segments)
    BY <2>1 DEF Routes, Route, Under
  <2>5. Served("POST", p) = "createAudio"
    BY <2>2, <2>3, <2>4, PostServes, Zenon
  <2> QED
    BY <2>5 DEF p, ReachedBy
<1>16. ASSUME NEW id \in Segments
      PROVE  ReachedBy("playAudio", "POST", <<"audios", id, "play">>)
  <2> DEFINE p == Api(<<"audios", id, "play">>)
  <2>1. Under(p, 3) /\ p[3] = "audios" /\ p[4] = id /\ p[5] = "play"
    BY SegmentsAre, ApiThree
  <2>2. Answers(25, "POST", p)
    <3>1. /\ p \in Seq(Segments) /\ Len(p) >= 4 /\ p[1] = "api" /\ p[2] = "v2"
          /\ p[3] = "audios"
      <4> HIDE DEF p
      <4> QED
        BY <2>1 DEF Under
    <3>2. Matches(Api(<<"audios", "*">>), p)
      <4> HIDE DEF p
      <4> QED
        BY <3>1, MatchesUnderOne, SegmentsAre, Zenon
    <3> QED
      BY <3>2 DEF Answers, Routes, Route
  <2> HIDE DEF p
  <2>3. \A j \in 1 .. 36 : PostRow(j, p) => 25 <= j
    BY <2>1 DEF Under, PostRow
  <2>4. 25 \in 1 .. 36 /\ Routes[25].op = "playAudio" /\ p \in Seq(Segments)
    BY <2>1 DEF Routes, Route, Under
  <2>5. Served("POST", p) = "playAudio"
    BY <2>2, <2>3, <2>4, PostServes, Zenon
  <2> QED
    BY <2>5 DEF p, ReachedBy
<1>17. ReachedBy("resetHardwareConfig", "POST", <<"config", "hardware", "reset">>)
  <2> DEFINE p == Api(<<"config", "hardware", "reset">>)
  <2>1. Under(p, 3) /\ p[3] = "config" /\ p[4] = "hardware" /\ p[5] = "reset"
    BY SegmentsAre, ApiThree
  <2>2. Answers(30, "POST", p)
    BY MatchesThree, SegmentsAre DEF Answers, Routes, Route
  <2> HIDE DEF p
  <2>3. \A j \in 1 .. 36 : PostRow(j, p) => 30 <= j
    BY <2>1 DEF Under, PostRow
  <2>4. 30 \in 1 .. 36 /\ Routes[30].op = "resetHardwareConfig" /\ p \in Seq(Segments)
    BY <2>1 DEF Routes, Route, Under
  <2>5. Served("POST", p) = "resetHardwareConfig"
    BY <2>2, <2>3, <2>4, PostServes, Zenon
  <2> QED
    BY <2>5 DEF p, ReachedBy
<1>18. ReachedBy("restartSystem", "POST", <<"system", "restart">>)
  <2> DEFINE p == Api(<<"system", "restart">>)
  <2>1. Under(p, 2) /\ p[3] = "system" /\ p[4] = "restart"
    BY SegmentsAre, ApiTwo
  <2>2. Answers(34, "POST", p)
    BY MatchesTwo, SegmentsAre DEF Answers, Routes, Route
  <2> HIDE DEF p
  <2>3. \A j \in 1 .. 36 : PostRow(j, p) => 34 <= j
    BY <2>1 DEF Under, PostRow
  <2>4. 34 \in 1 .. 36 /\ Routes[34].op = "restartSystem" /\ p \in Seq(Segments)
    BY <2>1 DEF Routes, Route, Under
  <2>5. Served("POST", p) = "restartSystem"
    BY <2>2, <2>3, <2>4, PostServes, Zenon
  <2> QED
    BY <2>5 DEF p, ReachedBy
<1>19. ReachedBy("uploadFirmware", "POST", <<"ota">>)
  <2> DEFINE p == Api(<<"ota">>)
  <2>1. Under(p, 1) /\ p[3] = "ota"
    BY SegmentsAre, ApiOne
  <2>2. Answers(35, "POST", p)
    BY MatchesOne, SegmentsAre DEF Answers, Routes, Route
  <2> HIDE DEF p
  <2>3. \A j \in 1 .. 36 : PostRow(j, p) => 35 <= j
    BY <2>1 DEF Under, PostRow
  <2>4. 35 \in 1 .. 36 /\ Routes[35].op = "uploadFirmware" /\ p \in Seq(Segments)
    BY <2>1 DEF Routes, Route, Under
  <2>5. Served("POST", p) = "uploadFirmware"
    BY <2>2, <2>3, <2>4, PostServes, Zenon
  <2> QED
    BY <2>5 DEF p, ReachedBy
<1> QED
  BY <1>1, <1>2, <1>3, <1>4, <1>5, <1>6, <1>7, <1>8, <1>9, <1>10, <1>11, <1>12, <1>13,
     <1>14, <1>15, <1>16, <1>17, <1>18, <1>19

LEMMA PutReaches ==
  /\ \A id \in Segments : ReachedBy("updateProgram", "PUT", <<"programs", id>>)
  /\ ReachedBy("putHardwareConfig", "PUT", <<"config", "hardware">>)
  /\ ReachedBy("putWifiCredentials", "PUT", <<"wifi">>)
<1>1. ASSUME NEW id \in Segments
      PROVE  ReachedBy("updateProgram", "PUT", <<"programs", id>>)
  <2> DEFINE p == Api(<<"programs", id>>)
  <2>1. Under(p, 2) /\ p[3] = "programs" /\ p[4] = id
    BY SegmentsAre, ApiTwo
  <2>2. Answers(16, "PUT", p)
    <3>1. /\ p \in Seq(Segments) /\ Len(p) >= 4 /\ p[1] = "api" /\ p[2] = "v2"
          /\ p[3] = "programs"
      <4> HIDE DEF p
      <4> QED
        BY <2>1 DEF Under
    <3>2. Matches(Api(<<"programs", "*">>), p)
      <4> HIDE DEF p
      <4> QED
        BY <3>1, MatchesUnderOne, SegmentsAre, Zenon
    <3> QED
      BY <3>2 DEF Answers, Routes, Route
  <2> HIDE DEF p
  <2>3. \A j \in 1 .. 36 : PutRow(j, p) => 16 <= j
    BY <2>1 DEF Under, PutRow
  <2>4. 16 \in 1 .. 36 /\ Routes[16].op = "updateProgram" /\ p \in Seq(Segments)
    BY <2>1 DEF Routes, Route, Under
  <2>5. Served("PUT", p) = "updateProgram"
    BY <2>2, <2>3, <2>4, PutServes, Zenon
  <2> QED
    BY <2>5 DEF p, ReachedBy
<1>2. ReachedBy("putHardwareConfig", "PUT", <<"config", "hardware">>)
  <2> DEFINE p == Api(<<"config", "hardware">>)
  <2>1. Under(p, 2) /\ p[3] = "config" /\ p[4] = "hardware"
    BY SegmentsAre, ApiTwo
  <2>2. Answers(29, "PUT", p)
    BY MatchesTwo, SegmentsAre DEF Answers, Routes, Route
  <2> HIDE DEF p
  <2>3. \A j \in 1 .. 36 : PutRow(j, p) => 29 <= j
    BY <2>1 DEF Under, PutRow
  <2>4. 29 \in 1 .. 36 /\ Routes[29].op = "putHardwareConfig" /\ p \in Seq(Segments)
    BY <2>1 DEF Routes, Route, Under
  <2>5. Served("PUT", p) = "putHardwareConfig"
    BY <2>2, <2>3, <2>4, PutServes, Zenon
  <2> QED
    BY <2>5 DEF p, ReachedBy
<1>3. ReachedBy("putWifiCredentials", "PUT", <<"wifi">>)
  <2> DEFINE p == Api(<<"wifi">>)
  <2>1. Under(p, 1) /\ p[3] = "wifi"
    BY SegmentsAre, ApiOne
  <2>2. Answers(33, "PUT", p)
    BY MatchesOne, SegmentsAre DEF Answers, Routes, Route
  <2> HIDE DEF p
  <2>3. \A j \in 1 .. 36 : PutRow(j, p) => 33 <= j
    BY <2>1 DEF Under, PutRow
  <2>4. 33 \in 1 .. 36 /\ Routes[33].op = "putWifiCredentials" /\ p \in Seq(Segments)
    BY <2>1 DEF Routes, Route, Under
  <2>5. Served("PUT", p) = "putWifiCredentials"
    BY <2>2, <2>3, <2>4, PutServes, Zenon
  <2> QED
    BY <2>5 DEF p, ReachedBy
<1> QED
  BY <1>1, <1>2, <1>3

LEMMA DeleteReaches ==
  /\ \A id \in Segments : ReachedBy("deleteProgram", "DELETE", <<"programs", id, "delete">>)
  /\ \A id \in Segments : ReachedBy("deleteAudio", "DELETE", <<"audios", id, "delete">>)
<1>1. ASSUME NEW id \in Segments
      PROVE  ReachedBy("deleteProgram", "DELETE", <<"programs", id, "delete">>)
  <2> DEFINE p == Api(<<"programs", id, "delete">>)
  <2>1. Under(p, 3) /\ p[3] = "programs" /\ p[4] = id /\ p[5] = "delete"
    BY SegmentsAre, ApiThree
  <2>2. Answers(18, "DELETE", p)
    <3>1. /\ p \in Seq(Segments) /\ Len(p) >= 4 /\ p[1] = "api" /\ p[2] = "v2"
          /\ p[3] = "programs"
      <4> HIDE DEF p
      <4> QED
        BY <2>1 DEF Under
    <3>2. Matches(Api(<<"programs", "*">>), p)
      <4> HIDE DEF p
      <4> QED
        BY <3>1, MatchesUnderOne, SegmentsAre, Zenon
    <3> QED
      BY <3>2 DEF Answers, Routes, Route
  <2> HIDE DEF p
  <2>3. \A j \in 1 .. 36 : DeleteRow(j, p) => 18 <= j
    BY <2>1 DEF Under, DeleteRow
  <2>4. 18 \in 1 .. 36 /\ Routes[18].op = "deleteProgram" /\ p \in Seq(Segments)
    BY <2>1 DEF Routes, Route, Under
  <2>5. Served("DELETE", p) = "deleteProgram"
    BY <2>2, <2>3, <2>4, DeleteServes, Zenon
  <2> QED
    BY <2>5 DEF p, ReachedBy
<1>2. ASSUME NEW id \in Segments
      PROVE  ReachedBy("deleteAudio", "DELETE", <<"audios", id, "delete">>)
  <2> DEFINE p == Api(<<"audios", id, "delete">>)
  <2>1. Under(p, 3) /\ p[3] = "audios" /\ p[4] = id /\ p[5] = "delete"
    BY SegmentsAre, ApiThree
  <2>2. Answers(26, "DELETE", p)
    <3>1. /\ p \in Seq(Segments) /\ Len(p) >= 4 /\ p[1] = "api" /\ p[2] = "v2"
          /\ p[3] = "audios"
      <4> HIDE DEF p
      <4> QED
        BY <2>1 DEF Under
    <3>2. Matches(Api(<<"audios", "*">>), p)
      <4> HIDE DEF p
      <4> QED
        BY <3>1, MatchesUnderOne, SegmentsAre, Zenon
    <3> QED
      BY <3>2 DEF Answers, Routes, Route
  <2> HIDE DEF p
  <2>3. \A j \in 1 .. 36 : DeleteRow(j, p) => 26 <= j
    BY <2>1 DEF Under, DeleteRow
  <2>4. 26 \in 1 .. 36 /\ Routes[26].op = "deleteAudio" /\ p \in Seq(Segments)
    BY <2>1 DEF Routes, Route, Under
  <2>5. Served("DELETE", p) = "deleteAudio"
    BY <2>2, <2>3, <2>4, DeleteServes, Zenon
  <2> QED
    BY <2>5 DEF p, ReachedBy
<1> QED
  BY <1>1, <1>2

LEMMA OperationIs ==
  ASSUME NEW op, NEW method, NEW paths,
         \A p \in paths : ReachedBy(op, method, p)
  PROVE  \A c \in Operation(op, method, paths) : Served(c.method, c.path) = c.op
<1> SUFFICES ASSUME NEW c \in Operation(op, method, paths)
             PROVE  Served(c.method, c.path) = c.op
  OBVIOUS
<1>1. /\ c.op = op /\ c.method = method
      /\ \E p \in paths : c.path = Api(p)
  BY DEF Operation
<1> QED
  BY <1>1 DEF ReachedBy

LEMMA OperationReached ==
  ASSUME NEW op, NEW method, NEW p, ReachedBy(op, method, p)
  PROVE  \A c \in Operation(op, method, {p}) : Served(c.method, c.path) = c.op
BY OperationIs, Zenon

(* What the API describes is answered by the route of that operation.      *)
AllServed(S) == \A c \in S : Served(c.method, c.path) = c.op

LEMMA ServedTogether ==
  ASSUME NEW U, \A S \in U : AllServed(S)
  PROVE  AllServed(UNION U)
BY DEF AllServed

LEMMA ContractReached == AllServed(Contract)
<1>1. Ids \subseteq Segments \ {"series"}
  BY SegmentsAre DEF Ids
<1>2. {"0", "9"} \subseteq Segments
  BY SegmentsAre
<1>3. AllServed(Operation("getVersion", "GET", {<<"version">>}))
  BY GetReaches, OperationReached, Zenon DEF AllServed
<1>4. AllServed(Operation("getControlLockStatus", "GET", {<<"control-lock", "status">>}))
  BY GetReaches, OperationReached, Zenon DEF AllServed
<1>5. AllServed(Operation("enableControlLock", "POST", {<<"control-lock", "enable">>}))
  BY PostReaches, OperationReached, Zenon DEF AllServed
<1>6. AllServed(Operation("loginControlLock", "POST", {<<"control-lock", "login">>}))
  BY PostReaches, OperationReached, Zenon DEF AllServed
<1>7. AllServed(Operation("logoutControlLock", "POST", {<<"control-lock", "logout">>}))
  BY PostReaches, OperationReached, Zenon DEF AllServed
<1>8. AllServed(Operation("disableControlLock", "POST", {<<"control-lock", "disable">>}))
  BY PostReaches, OperationReached, Zenon DEF AllServed
<1>9. AllServed(Operation("listPrograms", "GET", {<<"programs">>}))
  BY GetReaches, OperationReached, Zenon DEF AllServed
<1>10. AllServed(Operation("createProgram", "POST", {<<"programs">>}))
  BY PostReaches, OperationReached, Zenon DEF AllServed
<1>11. AllServed(Operation("getProgram", "GET", {<<"programs", id>> : id \in Ids}))
  <2>1. \A p \in {<<"programs", id>> : id \in Ids} : ReachedBy("getProgram", "GET", p)
    BY <1>1, GetReaches, Zenon
  <2> QED
    BY <2>1, OperationIs, Zenon DEF AllServed
<1>12. AllServed(Operation("updateProgram", "PUT", {<<"programs", id>> : id \in Ids}))
  <2>1. \A p \in {<<"programs", id>> : id \in Ids} : ReachedBy("updateProgram", "PUT", p)
    BY <1>1, PutReaches, Zenon
  <2> QED
    BY <2>1, OperationIs, Zenon DEF AllServed
<1>13. AllServed(Operation("loadProgram", "POST", {<<"programs", id, "load">> : id \in Ids}))
  <2>1. \A p \in {<<"programs", id, "load">> : id \in Ids} : ReachedBy("loadProgram", "POST", p)
    BY <1>1, PostReaches, Zenon
  <2> QED
    BY <2>1, OperationIs, Zenon DEF AllServed
<1>14. AllServed(Operation("deleteProgram", "DELETE", {<<"programs", id, "delete">> : id \in
        Ids}))
  <2>1. \A p \in {<<"programs", id, "delete">> : id \in Ids} : ReachedBy("deleteProgram",
      "DELETE", p)
    BY <1>1, DeleteReaches, Zenon
  <2> QED
    BY <2>1, OperationIs, Zenon DEF AllServed
<1>15. AllServed(Operation("startProgram", "POST", {<<"programs", "start">>}))
  BY PostReaches, OperationReached, Zenon DEF AllServed
<1>16. AllServed(Operation("stopProgram", "POST", {<<"programs", "stop">>}))
  BY PostReaches, OperationReached, Zenon DEF AllServed
<1>17. AllServed(Operation("resetProgram", "POST", {<<"programs", "reset">>}))
  BY PostReaches, OperationReached, Zenon DEF AllServed
<1>18. AllServed(Operation("unloadProgram", "POST", {<<"programs", "unload">>}))
  BY PostReaches, OperationReached, Zenon DEF AllServed
<1>19. AllServed(Operation("skipToSeries", "POST", {<<"programs", "series", i, "skip_to">> :
        i \in {"0", "9"}}))
  <2>1. \A p \in {<<"programs", "series", i, "skip_to">> : i \in {"0", "9"}} :
      ReachedBy("skipToSeries", "POST", p)
    BY <1>2, PostReaches, Zenon
  <2> QED
    BY <2>1, OperationIs, Zenon DEF AllServed
<1>20. AllServed(Operation("showTargets", "POST", {<<"targets", "show">>}))
  BY PostReaches, OperationReached, Zenon DEF AllServed
<1>21. AllServed(Operation("hideTargets", "POST", {<<"targets", "hide">>}))
  BY PostReaches, OperationReached, Zenon DEF AllServed
<1>22. AllServed(Operation("toggleTargets", "POST", {<<"targets", "toggle">>}))
  BY PostReaches, OperationReached, Zenon DEF AllServed
<1>23. AllServed(Operation("listAudios", "GET", {<<"audios">>}))
  BY GetReaches, OperationReached, Zenon DEF AllServed
<1>24. AllServed(Operation("createAudio", "POST", {<<"audios">>}))
  BY PostReaches, OperationReached, Zenon DEF AllServed
<1>25. AllServed(Operation("playAudio", "POST", {<<"audios", id, "play">> : id \in Ids}))
  <2>1. \A p \in {<<"audios", id, "play">> : id \in Ids} : ReachedBy("playAudio", "POST", p)
    BY <1>1, PostReaches, Zenon
  <2> QED
    BY <2>1, OperationIs, Zenon DEF AllServed
<1>26. AllServed(Operation("deleteAudio", "DELETE", {<<"audios", id, "delete">> : id \in Ids}))
  <2>1. \A p \in {<<"audios", id, "delete">> : id \in Ids} : ReachedBy("deleteAudio",
      "DELETE", p)
    BY <1>1, DeleteReaches, Zenon
  <2> QED
    BY <2>1, OperationIs, Zenon DEF AllServed
<1>27. AllServed(Operation("getHardwareConfig", "GET", {<<"config", "hardware">>}))
  BY GetReaches, OperationReached, Zenon DEF AllServed
<1>28. AllServed(Operation("putHardwareConfig", "PUT", {<<"config", "hardware">>}))
  BY PutReaches, OperationReached, Zenon DEF AllServed
<1>29. AllServed(Operation("resetHardwareConfig", "POST", {<<"config", "hardware", "reset">>}))
  BY PostReaches, OperationReached, Zenon DEF AllServed
<1>30. AllServed(Operation("getWifiStatus", "GET", {<<"wifi">>}))
  BY GetReaches, OperationReached, Zenon DEF AllServed
<1>31. AllServed(Operation("getWifiNetworks", "GET", {<<"wifi", "networks">>}))
  BY GetReaches, OperationReached, Zenon DEF AllServed
<1>32. AllServed(Operation("putWifiCredentials", "PUT", {<<"wifi">>}))
  BY PutReaches, OperationReached, Zenon DEF AllServed
<1>33. AllServed(Operation("restartSystem", "POST", {<<"system", "restart">>}))
  BY PostReaches, OperationReached, Zenon DEF AllServed
<1>34. AllServed(Operation("uploadFirmware", "POST", {<<"ota">>}))
  BY PostReaches, OperationReached, Zenon DEF AllServed
<1>35. AllServed(Operation("getDiagnosticsInfo", "GET", {<<"diagnostics", "info">>}))
  BY GetReaches, OperationReached, Zenon DEF AllServed
<1>36. AllServed(Operation("getDiagnosticsBundle", "GET", {<<"diagnostics", "bundle">>}))
  BY GetReaches, OperationReached, Zenon DEF AllServed
<1> DEFINE U == {Operation("getVersion", "GET", {<<"version">>}),
                  Operation("getControlLockStatus", "GET", {<<"control-lock", "status">>}),
                  Operation("enableControlLock", "POST", {<<"control-lock", "enable">>}),
                  Operation("loginControlLock", "POST", {<<"control-lock", "login">>}),
                  Operation("logoutControlLock", "POST", {<<"control-lock", "logout">>}),
                  Operation("disableControlLock", "POST", {<<"control-lock", "disable">>}),
                  Operation("listPrograms", "GET", {<<"programs">>}),
                  Operation("createProgram", "POST", {<<"programs">>}),
                  Operation("getProgram", "GET", {<<"programs", id>> : id \in Ids}),
                  Operation("updateProgram", "PUT", {<<"programs", id>> : id \in Ids}),
                  Operation("loadProgram", "POST", {<<"programs", id, "load">> : id \in Ids}),
                  Operation("deleteProgram", "DELETE", {<<"programs", id, "delete">> : id
                      \in Ids}),
                  Operation("startProgram", "POST", {<<"programs", "start">>}),
                  Operation("stopProgram", "POST", {<<"programs", "stop">>}),
                  Operation("resetProgram", "POST", {<<"programs", "reset">>}),
                  Operation("unloadProgram", "POST", {<<"programs", "unload">>}),
                  Operation("skipToSeries", "POST", {<<"programs", "series", i, "skip_to">>
                      : i \in {"0", "9"}}),
                  Operation("showTargets", "POST", {<<"targets", "show">>}),
                  Operation("hideTargets", "POST", {<<"targets", "hide">>}),
                  Operation("toggleTargets", "POST", {<<"targets", "toggle">>}),
                  Operation("listAudios", "GET", {<<"audios">>}),
                  Operation("createAudio", "POST", {<<"audios">>}),
                  Operation("playAudio", "POST", {<<"audios", id, "play">> : id \in Ids}),
                  Operation("deleteAudio", "DELETE", {<<"audios", id, "delete">> : id \in Ids}),
                  Operation("getHardwareConfig", "GET", {<<"config", "hardware">>}),
                  Operation("putHardwareConfig", "PUT", {<<"config", "hardware">>}),
                  Operation("resetHardwareConfig", "POST", {<<"config", "hardware", "reset">>}),
                  Operation("getWifiStatus", "GET", {<<"wifi">>}),
                  Operation("getWifiNetworks", "GET", {<<"wifi", "networks">>}),
                  Operation("putWifiCredentials", "PUT", {<<"wifi">>}),
                  Operation("restartSystem", "POST", {<<"system", "restart">>}),
                  Operation("uploadFirmware", "POST", {<<"ota">>}),
                  Operation("getDiagnosticsInfo", "GET", {<<"diagnostics", "info">>}),
                  Operation("getDiagnosticsBundle", "GET", {<<"diagnostics", "bundle">>})}
<1>40. \A S \in U : AllServed(S)
  BY <1>3, <1>4, <1>5, <1>6, <1>7, <1>8, <1>9, <1>10, <1>11, <1>12,
     <1>13, <1>14, <1>15, <1>16, <1>17, <1>18, <1>19, <1>20, <1>21,
     <1>22, <1>23, <1>24, <1>25, <1>26, <1>27, <1>28, <1>29, <1>30,
     <1>31, <1>32, <1>33, <1>34, <1>35, <1>36, Zenon
<1>41. Contract = UNION U
  BY Zenon DEF Contract
<1> HIDE DEF U
<1> QED
  BY <1>40, <1>41, ServedTogether, Zenon

(* What no route answers: neither a page under /api nor one with "..".     *)
LEMMA NoRow ==
  ASSUME NEW path \in Seq(Segments),
         \A j \in 1 .. 36 : ~ GetRow(j, path)
  PROVE  Served("GET", path) = IF path \in Files THEN "file"
                               ELSE IF Navigates(path) THEN "index" ELSE "notFound"
<1>1. \A j \in 1 .. 36 : ~ Answers(j, "GET", path)
  BY GetRoutes, Zenon
<1> QED
  BY <1>1, ServedByNone, Zenon

(* The addresses of the page.                                              *)
LEMMA PagesReached == \A p \in Pages : Served(p.method, p.path) = "index"
<1>1. ASSUME NEW a \in {"run", "apiary"}
      PROVE  Served("GET", <<a>>) = "index"
  <2> DEFINE p == <<a>>
  <2>1. p \in Seq(Segments) /\ Len(p) = 1 /\ p[1] = a
    BY Tuple1, SegmentsAre
  <2>2. p \notin Files
    BY <1>1, Zenon DEF Files
  <2>3. ToSet(p) = {a}
    BY DEF ToSet
  <2> HIDE DEF p
  <2>4. Navigates(p)
    BY <1>1, <2>1, <2>3 DEF Navigates, Last, Asset
  <2>5. \A j \in 1 .. 36 : ~ GetRow(j, p)
    BY <2>1 DEF GetRow
  <2> QED
    BY <2>1, <2>2, <2>4, <2>5, NoRow, Zenon DEF p
<1>2. Served("GET", <<"run", "1">>) = "index"
  <2> DEFINE p == <<"run", "1">>
  <2>1. p \in Seq(Segments) /\ Len(p) = 2 /\ p[1] = "run" /\ p[2] = "1"
    BY Tuple2, SegmentsAre
  <2>2. p \notin Files
    BY Zenon DEF Files
  <2>3. ToSet(p) = {"run", "1"}
    BY DEF ToSet
  <2> HIDE DEF p
  <2>4. Navigates(p)
    BY <2>1, <2>3 DEF Navigates, Last, Asset
  <2>5. \A j \in 1 .. 36 : ~ GetRow(j, p)
    BY <2>1 DEF GetRow
  <2> QED
    BY <2>1, <2>2, <2>4, <2>5, NoRow, Zenon DEF p
<1>3. \A p \in Pages : p.method = "GET" /\ p.path \in {<<"run">>, <<"apiary">>, <<"run", "1">>}
  BY DEF Pages, Asked
<1> QED
  BY <1>1, <1>2, <1>3, Zenon

(* What only looks like the API, or like the page: no route, or one that   *)
(* finds nothing by such an id.                                            *)
LEMMA FilesAreShort == \A f \in Files : Len(f) = 1
<1> DEFINE a == ""
           b == "app.js"
<1>1. a \in Segments /\ b \in Segments
  BY Zenon DEF Segments
<1>2. Files = {<<a>>, <<b>>}
  BY Zenon DEF Files
<1> HIDE DEF a, b
<1> QED
  BY <1>1, <1>2, Tuple1, Zenon

LEMMA NoneOther ==
  ASSUME NEW method, method # "GET", NEW path, \A j \in 1 .. 36 : ~ Answers(j, method, path)
  PROVE  Served(method, path) = "notFound"
BY ServedByNone, Zenon

LEMMA NothingServed ==
  \A m \in {"GET", "PUT"} : Served(m, Api(<<"nothing">>)) = "notFound"
<1> DEFINE p == Api(<<"nothing">>)
<1>1. Under(p, 1) /\ p[3] = "nothing"
  BY SegmentsAre, ApiOne
<1> HIDE DEF p
<1>2. p \in Seq(Segments) /\ Len(p) = 3 /\ p[1] = "api"
  BY <1>1 DEF Under
<1>3. \A j \in 1 .. 36 : ~ GetRow(j, p) /\ ~ PutRow(j, p)
  BY <1>1, <1>2 DEF GetRow, PutRow
<1>4. p \notin Files /\ ~ Navigates(p)
  <2>1. p \notin Files
    <3> SUFFICES ASSUME p \in Files PROVE FALSE
      OBVIOUS
    <3> DEFINE n == Len(p)
    <3>1. n = 1
      BY FilesAreShort, Zenon
    <3>2. n = 3
      BY <1>2
    <3> HIDE DEF n
    <3> QED
      BY <3>1, <3>2
  <2>2. ~ Navigates(p)
    BY <1>2, Zenon DEF Navigates
  <2> QED
    BY <2>1, <2>2
<1>5. Served("GET", p) = "notFound"
  BY <1>2, <1>3, <1>4, NoRow, Zenon
<1>6. \A j \in 1 .. 36 : ~ Answers(j, "PUT", p)
  BY <1>2, <1>3, PutRoutes, Zenon
<1>7. Served("PUT", p) = "notFound"
  BY <1>6, NoneOther, Zenon
<1> QED
  BY <1>5, <1>7 DEF p

LEMMA RunServed ==
  \A m \in {"POST", "DELETE"} : Served(m, <<"run">>) = "notFound"
<1> DEFINE p == <<"run">>
<1>1. p \in Seq(Segments) /\ Len(p) = 1
  BY Tuple1, SegmentsAre
<1> HIDE DEF p
<1>2. \A j \in 1 .. 36 : ~ PostRow(j, p) /\ ~ DeleteRow(j, p)
  BY <1>1 DEF PostRow, DeleteRow
<1>3. \A j \in 1 .. 36 : ~ Answers(j, "POST", p) /\ ~ Answers(j, "DELETE", p)
  BY <1>1, <1>2, PostRoutes, DeleteRoutes, Zenon
<1>4. Served("POST", p) = "notFound" /\ Served("DELETE", p) = "notFound"
  BY <1>3, NoneOther, Zenon
<1> QED
  BY <1>4 DEF p

LEMMA StrayServed ==
  \A p \in {<<"gone.js">>, <<"sse">>, <<"..", "run">>} : Served("GET", p) = "notFound"
<1>1. ASSUME NEW a \in {"gone.js", "sse"}
      PROVE  Served("GET", <<a>>) = "notFound"
  <2> DEFINE p == <<a>>
  <2>1. p \in Seq(Segments) /\ Len(p) = 1 /\ p[1] = a
    BY Tuple1, SegmentsAre
  <2>2. p \notin Files
    BY <1>1, Zenon DEF Files
  <2> HIDE DEF p
  <2>3. ~ Navigates(p)
    BY <1>1, <2>1 DEF Navigates, Last, Asset
  <2>4. \A j \in 1 .. 36 : ~ GetRow(j, p)
    BY <2>1 DEF GetRow
  <2> QED
    BY <2>1, <2>2, <2>3, <2>4, NoRow, Zenon DEF p
<1>2. Served("GET", <<"..", "run">>) = "notFound"
  <2> DEFINE p == <<"..", "run">>
  <2>1. p \in Seq(Segments) /\ Len(p) = 2 /\ p[1] = ".."
    BY Tuple2, SegmentsAre
  <2>2. p \notin Files
    BY <2>1, FilesAreShort
  <2> HIDE DEF p
  <2>3. ~ Navigates(p)
    BY <2>1 DEF Navigates, ToSet
  <2>4. \A j \in 1 .. 36 : ~ GetRow(j, p)
    BY <2>1 DEF GetRow
  <2> QED
    BY <2>1, <2>2, <2>3, <2>4, NoRow, Zenon DEF p
<1> QED
  BY <1>1, <1>2, Zenon

(* Programs, by more than an id.                                           *)
LEMMA WhatServed ==
  ASSUME NEW e \in Segments
  PROVE  /\ Served("GET", Api(<<"programs", "1", "what", e>>)) = "getProgram"
         /\ Served("PUT", Api(<<"programs", "1", "what", e>>)) = "updateProgram"
         /\ ProgramAt(Api(<<"programs", "1", "what", e>>)) = NoId
<1> DEFINE p == Api(<<"programs", "1", "what", e>>)
<1>1. Under(p, 4) /\ p[3] = "programs"
  <2> DEFINE a == "programs"
             b == "1"
             c == "what"
  <2>1. a \in Segments /\ b \in Segments /\ c \in Segments
    BY SegmentsAre
  <2> HIDE DEF a, b, c
  <2>2. Under(Api(<<a, b, c, e>>), 4) /\ Api(<<a, b, c, e>>)[3] = a
    BY <2>1, ApiFour
  <2> QED
    BY <2>2 DEF a, b, c
<1> HIDE DEF p
<1>2. p \in Seq(Segments) /\ Len(p) = 6 /\ p[1] = "api" /\ p[2] = "v2"
  BY <1>1 DEF Under
<1>3. Len(p) >= 4
  BY <1>2
<1>4. Matches(Api(<<"programs", "*">>), p)
  BY <1>1, <1>2, <1>3, MatchesUnderOne, SegmentsAre, Zenon
<1>5. Answers(15, "GET", p) /\ Answers(16, "PUT", p)
  BY <1>4 DEF Answers, Routes, Route
<1>6. \A j \in 1 .. 36 : (GetRow(j, p) => 15 <= j) /\ (PutRow(j, p) => 16 <= j)
  BY <1>1, <1>2 DEF GetRow, PutRow
<1>7. /\ 15 \in 1 .. 36 /\ 16 \in 1 .. 36
      /\ Routes[15].op = "getProgram" /\ Routes[16].op = "updateProgram"
  BY DEF Routes, Route
<1>8. Served("GET", p) = "getProgram" /\ Served("PUT", p) = "updateProgram"
  BY <1>2, <1>5, <1>6, <1>7, GetServes, PutServes, Zenon
<1>9. ProgramAt(p) = NoId
  <2> DEFINE h == Api(<<"programs">>)
             n == <<p[4]>>
             none == << >>
  <2>1. h \in Seq(Segments) /\ Len(h) = 3
    BY ApiOne, SegmentsAre DEF Under
  <2>2. n \in Seq(Segments) /\ Len(n) = 1
    BY <1>2
  <2>3. none \in Seq(Segments) /\ Len(none) = 0
    OBVIOUS
  <2> HIDE DEF h, n, none
  <2>4. h \o n \in Seq(Segments) /\ Len(h \o n) = Len(h) + Len(n)
    BY <2>1, <2>2, ConcatProperties, Zenon
  <2> DEFINE hn == h \o n
  <2>5. hn \in Seq(Segments) /\ Len(hn) = 4
    BY <2>1, <2>2, <2>4
  <2> HIDE DEF hn
  <2>8. Len(hn \o none) = Len(hn) + Len(none)
    BY <2>3, <2>5, ConcatProperties, Zenon
  <2>9. Len(hn \o none) = 4
    BY <2>3, <2>5, <2>8
  <2>6. p # hn \o none
    BY <1>2, <2>9
  <2>7. Len(<<"programs">>) + 3 = 4
    OBVIOUS
  <2> QED
    BY <2>6, <2>7, Zenon DEF ProgramAt, PathId, h, n, none, hn
<1> QED
  BY <1>8, <1>9 DEF p

LEMMA NoNumberServed ==
  /\ Served("POST", Api(<<"programs", "x", "load">>)) = "loadProgram"
  /\ Served("DELETE", Api(<<"programs", "x", "load">>)) = "deleteProgram"
  /\ LoadAt(Api(<<"programs", "x", "load">>)) = NoId
  /\ DeletedAt(Api(<<"programs", "x", "load">>)) = NoId
<1> DEFINE p == Api(<<"programs", "x", "load">>)
<1>1. Under(p, 3) /\ p[3] = "programs" /\ p[4] = "x"
  BY SegmentsAre, ApiThree
<1>2. Served("POST", p) = "loadProgram"
  <2>1. "x" \in Segments \ {"series"}
    BY SegmentsAre
  <2> QED
    BY <2>1, PostReaches, Zenon DEF ReachedBy
<1> HIDE DEF p
<1>3. p \in Seq(Segments) /\ Len(p) = 5 /\ p[1] = "api" /\ p[2] = "v2"
  BY <1>1 DEF Under
<1>4. Len(p) >= 4
  BY <1>3
<1>5. Matches(Api(<<"programs", "*">>), p)
  BY <1>1, <1>3, <1>4, MatchesUnderOne, SegmentsAre, Zenon
<1>6. Answers(18, "DELETE", p)
  BY <1>5 DEF Answers, Routes, Route
<1>7. \A j \in 1 .. 36 : DeleteRow(j, p) => 18 <= j
  BY <1>1, <1>3 DEF DeleteRow
<1>8. 18 \in 1 .. 36 /\ Routes[18].op = "deleteProgram"
  BY DEF Routes, Route
<1>9. Served("DELETE", p) = "deleteProgram"
  BY <1>3, <1>6, <1>7, <1>8, DeleteServes, Zenon
<1>10. LoadAt(p) = NoId /\ DeletedAt(p) = NoId
  <2>1. Len(<<"programs">>) + 3 = 4
    OBVIOUS
  <2>2. p[4] \notin Numbers
    BY <1>1, Zenon DEF Numbers
  <2> QED
    BY <2>1, <2>2, Zenon DEF LoadAt, DeletedAt, PathId
<1> QED
  BY <1>2, <1>9, <1>10 DEF p

(* What such a request is told.                                            *)
LEMMA SecondFails ==
  ASSUME NEW checks, NEW n \in Nat, n >= 2, DOMAIN checks = 1 .. n,
         ~ checks[1][1], checks[2][1]
  PROVE  FirstOf(checks) = checks[2][2]
<1> DEFINE hits == {k \in DOMAIN checks : checks[k][1]}
<1>1. 2 \in hits /\ \A k \in hits : 2 <= k
  OBVIOUS
<1>2. Min(hits) = 2
  <2>1. hits \in SUBSET Nat
    OBVIOUS
  <2> HIDE DEF hits
  <2>2. Min(hits) \in hits /\ Min(hits) <= 2
    BY <1>1, <2>1, HasMin
  <2>3. Min(hits) >= 2 /\ Min(hits) \in Nat
    BY <1>1, <2>1, <2>2
  <2> QED
    BY <2>2, <2>3
<1> QED
  BY <1>1, <1>2 DEF FirstOf

LEMMA AskedFor ==
  ASSUME NEW m, NEW p, NEW r \in RequestsFor(m, p)
  PROVE  r.op = Served(m, p) /\ r.path = p
<1> DEFINE op == Served(m, p)
<1>1. r \in [op : {op}, method : {m}, path : {p}, who : Clients, body : Bodies(op),
             works : IF op \in Stores THEN BOOLEAN ELSE {TRUE}]
  BY DEF RequestsFor
<1> HIDE DEF op
<1>2. r.op = op /\ r.path = p
  BY <1>1
<1> QED
  BY <1>2 DEF op

ToldNothingIsThere(r) ==
  Refusal(r) \in {"route_not_found", "program_not_found", "control_lock_credentials_required"}

LEMMA NotFoundSaysSo ==
  ASSUME NEW r, r.op = "notFound"
  PROVE  ToldNothingIsThere(r)
<1> DEFINE l == <<<<TRUE, "route_not_found">>>>
<1>1. DOMAIN l = 1 .. 1 /\ l[1][1] /\ l[1][2] = "route_not_found"
  OBVIOUS
<1>2. Checks(r) = l
  BY DEF Checks
<1> HIDE DEF l
<1>3. FirstOf(l) = "route_not_found"
  <2>1. 1 \in Nat \ {0}
    OBVIOUS
  <2> QED
    BY <1>1, <2>1, FirstFails, Zenon
<1> QED
  BY <1>2, <1>3 DEF Refusal, ToldNothingIsThere

LEMMA GetSaysSo ==
  ASSUME RestOK, NEW r, r.op = "getProgram", ProgramAt(r.path) = NoId
  PROVE  ToldNothingIsThere(r)
<1> DEFINE l == <<<<ProgramAt(r.path) \notin DOMAIN library, "program_not_found">>>>
<1>1. DOMAIN l = 1 .. 1 /\ l[1][1] /\ l[1][2] = "program_not_found"
  <2>1. ProgramAt(r.path) \notin DOMAIN library
    BY DEF RestOK
  <2>2. DOMAIN l = 1 .. 1
    OBVIOUS
  <2>3. l[1][1] = (ProgramAt(r.path) \notin DOMAIN library)
    OBVIOUS
  <2>4. l[1][2] = "program_not_found"
    OBVIOUS
  <2> QED
    BY <2>1, <2>2, <2>3, <2>4
<1>2. Checks(r) = l
  BY DEF Checks
<1> HIDE DEF l
<1>3. FirstOf(l) = "program_not_found"
  <2>1. 1 \in Nat \ {0}
    OBVIOUS
  <2> QED
    BY <1>1, <2>1, FirstFails, Zenon
<1> QED
  BY <1>2, <1>3 DEF Refusal, ToldNothingIsThere

(* The lock is asked first, and then the id is looked for.                 *)
LEMMA LockThenId ==
  ASSUME NEW r, NEW n \in Nat, n >= 2, DOMAIN Checks(r) = 1 .. n,
         Checks(r)[1] = LockedOut(r), Checks(r)[2][1],
         Checks(r)[2][2] \in {"route_not_found", "program_not_found"}
  PROVE  ToldNothingIsThere(r)
<1> DEFINE l == Checks(r)
<1> HIDE DEF l
<1>1. CASE l[1][1]
  <2>1. l[1][2] = "control_lock_credentials_required"
    BY DEF l, LockedOut
  <2>2. FirstOf(l) = l[1][2]
    <3>1. n \in Nat \ {0} /\ DOMAIN l = 1 .. n
      BY DEF l
    <3> QED
      BY <1>1, <3>1, FirstFails
  <2> QED
    BY <2>1, <2>2 DEF Refusal, ToldNothingIsThere, l
<1>2. CASE ~ l[1][1]
  <2>1. FirstOf(l) = l[2][2]
    <3>1. DOMAIN l = 1 .. n /\ l[2][1]
      BY DEF l
    <3> QED
      BY <1>2, <3>1, SecondFails
  <2> QED
    BY <2>1 DEF Refusal, ToldNothingIsThere, l
<1> QED
  BY <1>1, <1>2

LEMMA UpdateSaysSo ==
  ASSUME RestOK, NEW r, r.op = "updateProgram", ProgramAt(r.path) = NoId
  PROVE  ToldNothingIsThere(r)
<1>1. DOMAIN UpdateChecks(r) = 1 .. 8 /\ UpdateChecks(r)[1] = LockedOut(r)
  BY DEF UpdateChecks
<1>2. /\ UpdateChecks(r)[2][1] = (ProgramAt(r.path) \notin DOMAIN library)
      /\ UpdateChecks(r)[2][2] = "program_not_found"
  BY DEF UpdateChecks
<1>3. UpdateChecks(r)[2][1]
  BY <1>2 DEF RestOK
<1>4. Checks(r) = UpdateChecks(r)
  BY DEF Checks
<1>5. 8 \in Nat /\ 8 >= 2
  OBVIOUS
<1> QED
  BY <1>1, <1>2, <1>3, <1>4, <1>5, LockThenId, Zenon

LEMMA LoadSaysSo ==
  ASSUME NEW r, r.op = "loadProgram", LoadAt(r.path) = NoId
  PROVE  ToldNothingIsThere(r)
<1> DEFINE l == <<LockedOut(r), <<LoadAt(r.path) = NoId, "route_not_found">>,
                  <<LoadAt(r.path) \notin DOMAIN library, "program_not_found">>>>
<1>1. /\ DOMAIN l = 1 .. 3 /\ l[1] = LockedOut(r)
      /\ l[2][1] = (LoadAt(r.path) = NoId) /\ l[2][2] = "route_not_found"
  OBVIOUS
<1>2. Checks(r) = l
  BY DEF Checks
<1> HIDE DEF l
<1>3. l[2][1]
  BY <1>1
<1>4. 3 \in Nat /\ 3 >= 2
  OBVIOUS
<1> QED
  BY <1>1, <1>2, <1>3, <1>4, LockThenId, Zenon

LEMMA DeleteSaysSo ==
  ASSUME NEW r, r.op = "deleteProgram", DeletedAt(r.path) = NoId
  PROVE  ToldNothingIsThere(r)
<1>1. DOMAIN DeleteChecks(r) = 1 .. 4 /\ DeleteChecks(r)[1] = LockedOut(r)
  BY DEF DeleteChecks
<1>2. /\ DeleteChecks(r)[2][1] = (DeletedAt(r.path) = NoId)
      /\ DeleteChecks(r)[2][2] = "route_not_found"
  BY DEF DeleteChecks
<1>3. DeleteChecks(r)[2][1]
  BY <1>2
<1>4. Checks(r) = DeleteChecks(r)
  BY DEF Checks
<1>5. 4 \in Nat /\ 4 >= 2
  OBVIOUS
<1> QED
  BY <1>1, <1>2, <1>3, <1>4, <1>5, LockThenId, Zenon

LEMMA MissesSaySo ==
  ASSUME RestOK, NEW r \in MissedRequests
  PROVE  ToldNothingIsThere(r)
<1> DEFINE empty == ""
           what == Api(<<"programs", "1", "what", empty>>)
           x == Api(<<"programs", "x", "load">>)
           nothing == Api(<<"nothing">>)
<1>1. PICK q \in Misses : r \in RequestsFor(q.method, q.path)
  BY Zenon DEF MissedRequests
<1>2. r.op = Served(q.method, q.path) /\ r.path = q.path
  BY <1>1, AskedFor
<1>3. \/ q.method \in {"GET", "PUT"} /\ q.path \in {nothing, what}
      \/ q.method \in {"POST", "DELETE"} /\ q.path \in {<<"run">>, x}
      \/ q.method = "GET" /\ q.path \in {<<"gone.js">>, <<"sse">>, <<"..", "run">>}
  <2>1. Misses = Asked({"GET", "PUT"}, {nothing, what})
                 \cup Asked({"POST", "DELETE"}, {<<"run">>, x})
                 \cup Asked({"GET"}, {<<"gone.js">>, <<"sse">>, <<"..", "run">>})
    BY Zenon DEF Misses
  <2> HIDE DEF empty, what, x, nothing
  <2>3. \/ q \in Asked({"GET", "PUT"}, {nothing, what})
        \/ q \in Asked({"POST", "DELETE"}, {<<"run">>, x})
        \/ q \in Asked({"GET"}, {<<"gone.js">>, <<"sse">>, <<"..", "run">>})
    BY <2>1, Zenon
  <2>4. CASE q \in Asked({"GET", "PUT"}, {nothing, what})
    BY <2>4 DEF Asked
  <2>5. CASE q \in Asked({"POST", "DELETE"}, {<<"run">>, x})
    BY <2>5, Zenon DEF Asked
  <2>6. CASE q \in Asked({"GET"}, {<<"gone.js">>, <<"sse">>, <<"..", "run">>})
    BY <2>6, Zenon DEF Asked
  <2> QED
    BY <2>3, <2>4, <2>5, <2>6
<1>4. empty \in Segments
  BY Zenon DEF Segments
<1>5. /\ Served("GET", what) = "getProgram" /\ Served("PUT", what) = "updateProgram"
      /\ ProgramAt(what) = NoId
  <2> HIDE DEF empty
  <2> QED
    BY <1>4, WhatServed
<1>6. /\ Served("POST", x) = "loadProgram" /\ Served("DELETE", x) = "deleteProgram"
      /\ LoadAt(x) = NoId /\ DeletedAt(x) = NoId
  BY NoNumberServed
<1>7. Served("GET", nothing) = "notFound" /\ Served("PUT", nothing) = "notFound"
  BY NothingServed, Zenon
<1> HIDE DEF empty, what, x, nothing
<1>8. CASE q.method \in {"GET", "PUT"} /\ q.path \in {nothing, what}
  BY <1>2, <1>5, <1>7, <1>8, NotFoundSaysSo, GetSaysSo, UpdateSaysSo, Zenon
<1>9. CASE q.method \in {"POST", "DELETE"} /\ q.path \in {<<"run">>, x}
  BY <1>2, <1>6, <1>9, RunServed, NotFoundSaysSo, LoadSaysSo, DeleteSaysSo, Zenon
<1>10. CASE q.method = "GET" /\ q.path \in {<<"gone.js">>, <<"sse">>, <<"..", "run">>}
  BY <1>2, <1>10, StrayServed, NotFoundSaysSo, Zenon
<1> QED
  BY <1>3, <1>8, <1>9, <1>10, Zenon

(* Every operation of the API reaches its own route although wildcards are *)
(* tried in the order they were registered, the page's addresses reach the *)
(* page, and what is none of these is refused as not there, or for want of *)
(* a session (web_server.cpp:275-277, 1634-1647); and with the lock on     *)
(* nothing is done without a session, nor what belongs to whoever stands   *)
(* at the device without them (124-148, 740-752).                          *)
THEOREM RequestsAlwaysGuarded == RestSpec => []RequestsAreGuarded
<1>1. RestOK => RoutesReachTheirOwn
  <2> SUFFICES ASSUME RestOK PROVE RoutesReachTheirOwn
    OBVIOUS
  <2>1. WellRouted
    BY ContractReached, PagesReached, Zenon DEF WellRouted, AllServed
  <2>2. \A r \in MissedRequests :
          Refusal(r) \in {"route_not_found", "program_not_found",
                          "control_lock_credentials_required"}
    BY MissesSaySo, Zenon DEF ToldNothingIsThere
  <2> QED
    BY <2>1, <2>2, Zenon DEF RoutesReachTheirOwn
<1>2. RoutesReachTheirOwn /\ NothingWithoutASession /\ SomebodyIsThere
        <=> RequestsAreGuarded
  BY Zenon DEF RequestsAreGuarded
<1> QED
  BY <1>1, <1>2, RestCorrect, GuardsAlwaysHold, PTL

(***************************************************************************)
(* The multipart parser, for every boundary, every size of the buffers and *)
(* every list of parts.                                                    *)
(***************************************************************************)

(* What is computed step by step has a value for every number of steps.    *)
Folding(D, N) == [(1 .. N) \X D -> D]
Folds(g, D, z, N, h) == /\ g \in [0 .. N -> D]
                        /\ g[0] = z
                        /\ \A k \in 1 .. N : g[k] = h[<<k, g[k - 1]>>]
LEMMA FoldExists ==
  ASSUME NEW D, NEW z \in D, NEW N \in Nat, NEW h \in Folding(D, N)
  PROVE  \E g : Folds(g, D, z, N, h)
<1> DEFINE Begins(g, m) == g[0] = z /\ \A k \in 1 .. m : g[k] = h[<<k, g[k - 1]>>]
           Reached == {m \in 0 .. N : \E g \in [0 .. N -> D] : Begins(g, m)}
<1>1. h \in [(1 .. N) \X D -> D]
  BY DEF Folding
<1>2. 0 \in Reached
  <2> DEFINE first == [k \in 0 .. N |-> z]
  <2>1. first \in [0 .. N -> D] /\ first[0] = z
    OBVIOUS
  <2>2. Begins(first, 0)
    <3> HIDE DEF first
    <3> QED
      BY <2>1
  <2> HIDE DEF first, Begins
  <2> QED
    BY <2>1, <2>2
<1>3. ASSUME NEW m \in 1 .. N, m - 1 \in Reached
      PROVE  m \in Reached
  <2>1. PICK g \in [0 .. N -> D] : Begins(g, m - 1)
    BY <1>3
  <2>2. m \in 0 .. N /\ m - 1 \in 0 .. N /\ m # 0 /\ <<m, g[m - 1]>> \in (1 .. N) \X D
    OBVIOUS
  <2> DEFINE more == [g EXCEPT ![m] = h[<<m, g[m - 1]>>]]
  <2>3. more \in [0 .. N -> D]
    BY <2>2, <1>1
  <2>4. more[0] = z
    BY <2>1, <2>2
  <2>5. ASSUME NEW k \in 1 .. m
        PROVE  more[k] = h[<<k, more[k - 1]>>]
    <3>1. k \in 0 .. N /\ k - 1 \in 0 .. N /\ k - 1 # m
      OBVIOUS
    <3>2. more[k - 1] = g[k - 1]
      BY <3>1
    <3>3. CASE k = m
      BY <3>1, <3>2, <3>3
    <3>4. CASE k # m
      <4>1. k \in 1 .. m - 1
        BY <3>4
      <4>2. g[k] = h[<<k, g[k - 1]>>]
        BY <4>1, <2>1
      <4>3. more[k] = g[k]
        BY <3>1, <3>4
      <4> QED
        BY <3>2, <4>2, <4>3
    <3> QED
      BY <3>3, <3>4
  <2>6. Begins(more, m)
    BY <2>4, <2>5
  <2> HIDE DEF more, Begins
  <2> QED
    BY <2>3, <2>6, <2>2
<1>4. 0 .. N \subseteq Reached
  <2> HIDE DEF Reached
  <2> QED
    BY <1>2, <1>3, UpTo
<1>5. N \in Reached
  BY <1>4
<1>6. PICK g \in [0 .. N -> D] : Begins(g, N)
  BY <1>5
<1>7. Folds(g, D, z, N, h)
  BY <1>6 DEF Folds
<1> QED
  BY <1>7

(* Selecting entries of a list: what one step does, and that only the      *)
(* entries so far matter.                                                  *)
Kept(list, S) ==
  CHOOSE kept : kept = [n \in 0 .. Len(list) |->
                          IF n = 0 THEN <<>>
                          ELSE IF list[n] \in S THEN Append(kept[n - 1], list[n]) ELSE kept[n - 1]]

LEMMA KeptIs ==
  ASSUME NEW A, NEW list \in Seq(A), NEW S
  PROVE  /\ Kept(list, S)[0] = <<>>
         /\ \A n \in 1 .. Len(list) :
              Kept(list, S)[n] = IF list[n] \in S THEN Append(Kept(list, S)[n - 1], list[n])
                                 ELSE Kept(list, S)[n - 1]
<1> DEFINE N == Len(list)
           Next1(n, l) == IF list[n] \in S THEN Append(l, list[n]) ELSE l
           Step == [p \in (1 .. N) \X Seq(A) |-> Next1(p[1], p[2])]
           Rec(f) == [n \in 0 .. N |-> IF n = 0 THEN <<>> ELSE Next1(n, f[n - 1])]
           F == CHOOSE f : f = Rec(f)
<1>0. N \in Nat /\ <<>> \in Seq(A) /\ \A n \in 1 .. N : list[n] \in A
  OBVIOUS
<1>1. \A n \in 1 .. N : \A l \in Seq(A) : Next1(n, l) \in Seq(A)
  OBVIOUS
<1>2. Kept(list, S) = F
  BY DEF Kept
<1> HIDE DEF Next1, N
<1>3. Step \in Folding(Seq(A), N)
  BY <1>1 DEF Folding
<1>4. PICK g : Folds(g, Seq(A), <<>>, N, Step)
  <2> HIDE DEF Step
  <2> QED
    BY <1>0, <1>3, FoldExists
<1>5. /\ g \in [0 .. N -> Seq(A)] /\ g[0] = <<>>
      /\ \A k \in 1 .. N : g[k] = Next1(k, g[k - 1])
  <2>1. g \in [0 .. N -> Seq(A)] /\ g[0] = <<>> /\ \A k \in 1 .. N : g[k] = Step[<<k, g[k - 1]>>]
    BY <1>4 DEF Folds
  <2>2. \A k \in 1 .. N : k - 1 \in 0 .. N
    BY <1>0
  <2> QED
    BY <2>1, <2>2
<1>6. g = Rec(g)
  <2>1. \A i \in 0 .. N : g[i] = IF i = 0 THEN <<>> ELSE Next1(i, g[i - 1])
    <3>1. \A i \in 0 .. N : i = 0 \/ i \in 1 .. N
      BY <1>0
    <3>2. \A k \in 1 .. N : k # 0
      BY <1>0
    <3> QED
      BY <1>5, <3>1, <3>2
  <2> QED
    BY <1>5, <2>1
<1>7. F = Rec(F)
  BY <1>6
<1> HIDE DEF F
<1>8. /\ F[0] = <<>>
      /\ \A i \in 1 .. N : F[i] = Next1(i, F[i - 1])
  <2>1. 0 \in 0 .. N /\ \A i \in 1 .. N : i \in 0 .. N /\ i # 0
    BY <1>0
  <2>2. \A i \in 0 .. N : F[i] = IF i = 0 THEN <<>> ELSE Next1(i, F[i - 1])
    BY <1>7
  <2> QED
    BY <2>1, <2>2
<1> QED
  BY <1>2, <1>8 DEF N, Next1

LEMMA ChosenIsKept ==
  ASSUME NEW list, NEW S
  PROVE  Chosen(list, S) = Kept(list, S)[Len(list)]
  BY DEF Chosen, Kept

LEMMA ChosenTyped ==
  ASSUME NEW A, NEW list \in Seq(A), NEW S
  PROVE  \A n \in 0 .. Len(list) : Kept(list, S)[n] \in Seq(A \cap S)
<1> DEFINE N == Len(list)
           T == Seq(A \cap S)
           Good == {n \in 0 .. N : Kept(list, S)[n] \in T}
<1>1. N \in Nat /\ \A n \in 1 .. N : list[n] \in A
  OBVIOUS
<1>0. <<>> \in T /\ \A l \in T : \A x \in A : x \in S => Append(l, x) \in T
  OBVIOUS
<1>5. Kept(list, S)[0] = <<>>
  BY KeptIs
<1> HIDE DEF T
<1>2. 0 \in Good
  BY <1>1, <1>0, <1>5
<1>3. ASSUME NEW n \in 1 .. N, n - 1 \in Good
      PROVE  n \in Good
  <2>1. Kept(list, S)[n] = IF list[n] \in S THEN Append(Kept(list, S)[n - 1], list[n])
                           ELSE Kept(list, S)[n - 1]
    BY KeptIs
  <2>2. list[n] \in A
    BY <1>1
  <2> HIDE DEF N
  <2>3. Kept(list, S)[n - 1] \in T /\ n \in 0 .. N
    BY <1>1, <1>3
  <2>4. Kept(list, S)[n] \in T
    BY <1>0, <2>1, <2>2, <2>3
  <2> QED
    BY <2>3, <2>4
<1> HIDE DEF Good
<1>4. 0 .. N \subseteq Good
  BY <1>1, <1>2, <1>3, UpTo
<1> QED
  BY <1>4 DEF Good, T

LEMMA KeptOfPrefix ==
  ASSUME NEW A, NEW list \in Seq(A), NEW x \in A, NEW S
  PROVE  \A n \in 0 .. Len(list) : Kept(Append(list, x), S)[n] = Kept(list, S)[n]
<1> DEFINE N == Len(list)
           more == Append(list, x)
           Good == {n \in 0 .. N : Kept(more, S)[n] = Kept(list, S)[n]}
<1>1. /\ N \in Nat /\ more \in Seq(A) /\ Len(more) = N + 1
      /\ \A n \in 1 .. N : more[n] = list[n] /\ n \in 1 .. N + 1
  OBVIOUS
<1> HIDE DEF more
<1>2. /\ Kept(more, S)[0] = <<>>
      /\ \A n \in 1 .. N + 1 :
           Kept(more, S)[n] = IF more[n] \in S THEN Append(Kept(more, S)[n - 1], more[n])
                              ELSE Kept(more, S)[n - 1]
  BY <1>1, KeptIs
<1>3. /\ Kept(list, S)[0] = <<>>
      /\ \A n \in 1 .. N :
           Kept(list, S)[n] = IF list[n] \in S THEN Append(Kept(list, S)[n - 1], list[n])
                              ELSE Kept(list, S)[n - 1]
  BY KeptIs
<1> HIDE DEF N
<1>4. 0 \in Good
  BY <1>1, <1>2, <1>3
<1>5. ASSUME NEW n \in 1 .. N, n - 1 \in Good
      PROVE  n \in Good
  BY <1>1, <1>2, <1>3, <1>5
<1> HIDE DEF Good
<1>6. 0 .. N \subseteq Good
  BY <1>1, <1>4, <1>5, UpTo
<1> QED
  BY <1>6 DEF Good, more, N

(* One entry more: it is chosen or not.                                    *)
MoreChosen(list, x, S) ==
  /\ x \in S => Chosen(Append(list, x), S) = Append(Chosen(list, S), x)
  /\ x \notin S => Chosen(Append(list, x), S) = Chosen(list, S)
LEMMA ChosenOfAppend ==
  ASSUME NEW A, NEW list \in Seq(A), NEW x \in A, NEW S
  PROVE  /\ Chosen(list, S) \in Seq(A \cap S)
         /\ MoreChosen(list, x, S)
         /\ Chosen(<<>>, S) = <<>>
<1>1. Append(list, x) \in Seq(A) /\ Len(Append(list, x)) = Len(list) + 1
      /\ Append(list, x)[Len(list) + 1] = x /\ Len(list) \in Nat
  OBVIOUS
<1>2. Kept(Append(list, x), S)[Len(list) + 1]
        = IF x \in S THEN Append(Kept(Append(list, x), S)[Len(list)], x)
          ELSE Kept(Append(list, x), S)[Len(list)]
  <2> DEFINE more == Append(list, x)
             n == Len(list) + 1
  <2>1. more \in Seq(A) /\ n \in 1 .. Len(more) /\ n - 1 = Len(list) /\ more[n] = x
    BY <1>1
  <2> HIDE DEF more, n
  <2>2. Kept(more, S)[n] = IF more[n] \in S THEN Append(Kept(more, S)[n - 1], more[n])
                           ELSE Kept(more, S)[n - 1]
    BY <2>1, KeptIs
  <2> QED
    BY <2>1, <2>2 DEF more, n
<1>3. Kept(Append(list, x), S)[Len(list)] = Kept(list, S)[Len(list)]
  BY <1>1, KeptOfPrefix
<1>4. Kept(list, S)[Len(list)] \in Seq(A \cap S)
  BY <1>1, ChosenTyped
<1>5. Chosen(<<>>, S) = <<>>
  <2> DEFINE none == <<>>
  <2>1. none \in Seq(A)
    OBVIOUS
  <2>3. Len(none) = 0 /\ none = <<>>
    OBVIOUS
  <2> HIDE DEF none
  <2>2. /\ Kept(none, S)[0] = <<>>
        /\ \A n \in 1 .. Len(none) :
              Kept(none, S)[n] = IF none[n] \in S THEN Append(Kept(none, S)[n - 1], none[n])
                                 ELSE Kept(none, S)[n - 1]
    BY <2>1, KeptIs
  <2> QED
    BY <2>2, <2>3, ChosenIsKept
<1>6. Chosen(Append(list, x), S) = Kept(Append(list, x), S)[Len(list) + 1]
      /\ Chosen(list, S) = Kept(list, S)[Len(list)]
  BY <1>1, ChosenIsKept
<1>7. MoreChosen(list, x, S)
  BY <1>2, <1>3, <1>6, Zenon DEF MoreChosen
<1> QED
  BY <1>4, <1>5, <1>6, <1>7
-----------------------------------------------------------------------------
(* What the parser keeps and hands on.                                     *)
ParserStates ==
  {"EXPECT_BOUNDARY", "PARSE_HEADERS", "WAIT_FOR_RETURN1", "EXPECT_FEED1", "EXPECT_DASH1",
   "EXPECT_DASH2", "BOUNDARY_OR_DATA", "DASH3_OR_RETURN2", "EXPECT_FEED2",
   "PARSING_FINISHED", "PARSE_ERROR"}
NoNames == {""}
PartNames == FieldNames \cup FileNames \cup NoNames
UploadCalls == [filename : PartNames, index : Int, data : Seq(Bytes), final : BOOLEAN]
BodyParams == [name : PartNames, value : Seq(Bytes)]
Parsers == [state : ParserStates, parsed : Nat, matched : Nat, isFile : BOOLEAN,
            name : PartNames, filename : PartNames, size : Nat, value : Seq(Bytes),
            buffer : Seq(Bytes), calls : Seq(UploadCalls), params : Seq(BodyParams)]

FileParts == [name : FileNames, content : Seq(Bytes) \ {<<>>}]
FieldParts == [name : FieldNames, content : Seq(Bytes)]

(* What writing a byte leaves alone.                                       *)
Kin(p, q) == /\ q.state = p.state /\ q.parsed = p.parsed /\ q.matched = p.matched
             /\ q.isFile = p.isFile /\ q.name = p.name /\ q.filename = p.filename
             /\ q.params = p.params

(* All calls go through the files in order; k files have ended, and at     *)
(* bytes of the next were handed on.                                       *)
Told(calls, files, k, at) ==
  /\ calls \in Seq(UploadCalls)
  /\ \A i \in DOMAIN calls : ContinuesAFile(files, calls, i)
  /\ FilesEndedBefore(calls, Len(calls) + 1) = k
  /\ ReachedBefore(calls, Len(calls) + 1) = at

(* A further call does not change what was before it.                      *)
LEMMA CallsBefore ==
  ASSUME NEW calls \in Seq(UploadCalls), NEW c \in UploadCalls, NEW i \in 1 .. Len(calls) + 1
  PROVE  /\ FilesEndedBefore(Append(calls, c), i) = FilesEndedBefore(calls, i)
         /\ ReachedBefore(Append(calls, c), i) = ReachedBefore(calls, i)
<1> DEFINE more == Append(calls, c)
<1>1. \A j \in 1 .. i - 1 : more[j] = calls[j]
  OBVIOUS
<1> HIDE DEF more
<1>2. {j \in 1 .. (i - 1) : more[j].final} = {j \in 1 .. (i - 1) : calls[j].final}
  BY <1>1
<1>3. i # 1 => i - 1 \in 1 .. i - 1
  OBVIOUS
<1>4. i # 1 => more[i - 1] = calls[i - 1]
  BY <1>1, <1>3
<1>5. ReachedBefore(more, i) = ReachedBefore(calls, i)
  BY <1>4 DEF ReachedBefore
<1> QED
  BY <1>2, <1>5 DEF FilesEndedBefore, more

LEMMA CallsContinue ==
  ASSUME NEW files, NEW calls \in Seq(UploadCalls), NEW c \in UploadCalls,
         NEW i \in 1 .. Len(calls), ContinuesAFile(files, calls, i)
  PROVE  ContinuesAFile(files, Append(calls, c), i)
<1> DEFINE more == Append(calls, c)
<1>1. more[i] = calls[i] /\ i \in 1 .. Len(calls) + 1
  OBVIOUS
<1>2. /\ FilesEndedBefore(more, i) = FilesEndedBefore(calls, i)
      /\ ReachedBefore(more, i) = ReachedBefore(calls, i)
  BY <1>1, CallsBefore
<1> HIDE DEF more
<1>3. ContinuesAFile(files, more, i)
  BY <1>1, <1>2, Zenon DEF ContinuesAFile
<1> QED
  BY <1>3 DEF more

(* One more call has ended a file or has not.                              *)
LEMMA FilesEndedWithOneMore ==
  ASSUME NEW calls \in Seq(UploadCalls), NEW c \in UploadCalls,
         FilesEndedBefore(calls, Len(calls) + 1) \in Nat
  PROVE  FilesEndedBefore(Append(calls, c), Len(calls) + 2)
           = IF c.final THEN FilesEndedBefore(calls, Len(calls) + 1) + 1
             ELSE FilesEndedBefore(calls, Len(calls) + 1)
<1> DEFINE N == Len(calls)
           more == Append(calls, c)
           E == {j \in 1 .. N : calls[j].final}
           F == {j \in 1 .. N + 1 : more[j].final}
<1>1. N \in Nat /\ more[N + 1] = c /\ \A j \in 1 .. N : more[j] = calls[j]
  OBVIOUS
<1>2. FilesEndedBefore(calls, N + 1) = Cardinality(E)
  <2>1. N + 1 - 1 = N
    BY <1>1
  <2> QED
    BY <2>1 DEF FilesEndedBefore
<1>3. FilesEndedBefore(more, N + 2) = Cardinality(F)
  <2> DEFINE m == N + 2
  <2>1. m - 1 = N + 1
    BY <1>1
  <2> HIDE DEF more, m, N
  <2>2. 1 .. (m - 1) = 1 .. N + 1
    BY <2>1
  <2>3. FilesEndedBefore(more, m) = Cardinality(F)
    BY <2>2, Zenon DEF FilesEndedBefore
  <2> QED
    BY <2>3 DEF m
<1>4. IsFiniteSet(E)
  <2>1. IsFiniteSet(1 .. N)
    BY <1>1, FS_Interval
  <2>2. E \subseteq 1 .. N
    OBVIOUS
  <2> HIDE DEF E, N
  <2> QED
    BY <2>1, <2>2, FS_Subset
<1> HIDE DEF more
<1>5. F = IF c.final THEN E \cup {N + 1} ELSE E
  <2>1. \A j : j \in 1 .. N + 1 <=> j \in 1 .. N \/ j = N + 1
    BY <1>1
  <2> HIDE DEF N
  <2> QED
    BY <1>1, <2>1
<1>6. N + 1 \notin E
  BY <1>1
<1> HIDE DEF E, F
<1>7. Cardinality(E \cup {N + 1}) = Cardinality(E) + 1
  BY <1>4, <1>6, FS_AddElement
<1> QED
  BY <1>2, <1>3, <1>5, <1>7 DEF N, more

(* A call that goes on with the next file is one more that is in order.    *)
LEMMA CallAdded ==
  ASSUME NEW files, NEW k \in Nat, NEW at \in Nat, NEW calls, Told(calls, files, k, at),
         NEW c \in UploadCalls, k + 1 <= Len(files), Len(files) \in Nat,
         c.filename = files[k + 1].name, c.index = at,
         Len(files[k + 1].content) \in Nat,
         at + Len(c.data) <= Len(files[k + 1].content),
         c.data = SubSeq(files[k + 1].content, at + 1, at + Len(c.data)),
         c.final => at + Len(c.data) = Len(files[k + 1].content)
  PROVE  Told(Append(calls, c), files, IF c.final THEN k + 1 ELSE k,
              IF c.final THEN 0 ELSE at + Len(c.data))
<1> DEFINE N == Len(calls)
           more == Append(calls, c)
<1>1. /\ calls \in Seq(UploadCalls)
      /\ \A i \in 1 .. N : ContinuesAFile(files, calls, i)
      /\ FilesEndedBefore(calls, N + 1) = k
      /\ ReachedBefore(calls, N + 1) = at
  BY DEF Told
<1>2. /\ more \in Seq(UploadCalls) /\ Len(more) = N + 1 /\ more[N + 1] = c
      /\ N \in Nat /\ N + 1 \in 1 .. N + 1 /\ DOMAIN more = 1 .. N + 1
  BY <1>1
<1>3. /\ FilesEndedBefore(more, N + 1) = k
      /\ ReachedBefore(more, N + 1) = at
  BY <1>1, <1>2, CallsBefore
<1>4. FilesEndedBefore(more, N + 2) = IF c.final THEN k + 1 ELSE k
  BY <1>1, FilesEndedWithOneMore
<1>5. \A i \in 1 .. N : ContinuesAFile(files, more, i)
  BY <1>1, CallsContinue
<1> HIDE DEF more, N
<1>6. ContinuesAFile(files, more, N + 1)
  BY <1>2, <1>3 DEF ContinuesAFile
<1>7. ReachedBefore(more, N + 2) = IF c.final THEN 0 ELSE at + Len(c.data)
  <2>1. N + 2 # 1 /\ N + 2 - 1 = N + 1
    BY <1>2
  <2> QED
    BY <1>2, <2>1 DEF ReachedBefore
<1>8. \A i \in 1 .. N + 1 : ContinuesAFile(files, more, i)
  <2>1. \A i \in 1 .. N + 1 : i \in 1 .. N \/ i = N + 1
    BY <1>2
  <2> QED
    BY <1>5, <1>6, <2>1
<1>9. N + 1 + 1 = N + 2
  BY <1>2
<1> QED
  BY <1>2, <1>4, <1>7, <1>8, <1>9 DEF Told, more
-----------------------------------------------------------------------------
(* Writing a byte: to the value of a field, to the buffer of a file, which *)
(* is handed on when it is full.                                           *)
FullBuffer(p, b) == [filename |-> p.filename, index |-> p.size - Len(p.buffer),
                     data |-> Append(p.buffer, b), final |-> FALSE]
ByteWritten(p, b, q) ==
  /\ q \in Parsers /\ Kin(p, q) /\ q.size = p.size + 1
  /\ ~ p.isFile => q.value = Append(p.value, b) /\ q.calls = p.calls
  /\ p.isFile /\ Len(p.buffer) + 1 # FileChunkSize =>
       q.buffer = Append(p.buffer, b) /\ q.calls = p.calls
  /\ p.isFile /\ Len(p.buffer) + 1 = FileChunkSize =>
       q.buffer = <<>> /\ q.calls = Append(p.calls, FullBuffer(p, b))

LEMMA WriteByteIs ==
  ASSUME NEW p \in Parsers, NEW b \in Bytes, NEW q, q = WriteByte(p, b, FALSE)
  PROVE  ByteWritten(p, b, q)
<1> DEFINE q1 == [p EXCEPT !.size = @ + 1]
           q2 == [q1 EXCEPT !.buffer = Append(@, b)]
           call == [filename |-> q2.filename, index |-> q2.size - Len(q2.buffer),
                    data |-> q2.buffer, final |-> FALSE]
           new == FullBuffer(p, b)
<1>1. /\ q1 \in Parsers /\ Kin(p, q1) /\ q1.size = p.size + 1
      /\ q1.value = p.value /\ q1.buffer = p.buffer /\ q1.calls = p.calls
  BY SMTT(30) DEF Parsers, Kin
<1>2. CASE ~ p.isFile
  <2>1. q = [q1 EXCEPT !.value = Append(@, b)]
    BY <1>2 DEF WriteByte
  <2> HIDE DEF q1
  <2>2. q1.value \in Seq(Bytes) /\ Append(q1.value, b) \in Seq(Bytes)
    BY <1>1 DEF Parsers
  <2>3. /\ q \in Parsers /\ Kin(q1, q) /\ q.size = q1.size
        /\ q.value = Append(q1.value, b) /\ q.calls = q1.calls
    BY <1>1, <2>1, <2>2 DEF Parsers, Kin
  <2> QED
    BY <1>1, <1>2, <2>3 DEF Kin, ByteWritten
<1>3. /\ q2 \in Parsers /\ Kin(p, q2) /\ q2.size = p.size + 1
      /\ q2.buffer = Append(p.buffer, b) /\ q2.calls = p.calls
  <2> HIDE DEF q1
  <2>1. q1.buffer \in Seq(Bytes) /\ Append(q1.buffer, b) \in Seq(Bytes)
    BY <1>1 DEF Parsers
  <2>2. /\ q2 \in Parsers /\ Kin(q1, q2) /\ q2.size = q1.size
        /\ q2.buffer = Append(q1.buffer, b) /\ q2.calls = q1.calls
    BY <1>1, <2>1 DEF Parsers, Kin
  <2> QED
    BY <1>1, <2>2 DEF Kin
<1>4. p.buffer \in Seq(Bytes) /\ p.size \in Nat /\ Len(p.buffer) \in Nat
      /\ Len(Append(p.buffer, b)) = Len(p.buffer) + 1
  BY DEF Parsers
<1>5. call = new
  <2>1. q2.filename = p.filename /\ q2.buffer = Append(p.buffer, b)
    BY <1>3 DEF Kin
  <2>2. q2.size - Len(q2.buffer) = p.size - Len(p.buffer)
    BY <1>3, <1>4
  <2> HIDE DEF q2
  <2> QED
    BY <2>1, <2>2 DEF FullBuffer
<1>6. CASE p.isFile /\ Len(p.buffer) + 1 # FileChunkSize
  <2>1. q = q2
    BY <1>1, <1>3, <1>4, <1>6 DEF WriteByte, Kin
  <2> QED
    BY <1>3, <1>6, <2>1 DEF ByteWritten
<1>7. CASE p.isFile /\ Len(p.buffer) + 1 = FileChunkSize
  <2>1. q = [q2 EXCEPT !.calls = Append(@, call), !.buffer = <<>>]
    BY <1>1, <1>3, <1>4, <1>7 DEF WriteByte, CallBack, Kin
  <2>2. new \in UploadCalls
    <3>1. p.filename \in PartNames /\ Append(p.buffer, b) \in Seq(Bytes)
          /\ p.size - Len(p.buffer) \in Int
      BY <1>4 DEF Parsers
    <3> QED
      BY <3>1 DEF UploadCalls, FullBuffer
  <2> HIDE DEF q2, call, new
  <2>3. q2.calls \in Seq(UploadCalls) /\ Append(q2.calls, new) \in Seq(UploadCalls)
    BY <1>3, <2>2 DEF Parsers
  <2> DEFINE q3 == [q2 EXCEPT !.calls = Append(@, new)]
  <2>4. /\ q3 \in Parsers /\ Kin(q2, q3) /\ q3.size = q2.size
        /\ q3.calls = Append(q2.calls, new)
    BY <1>3, <2>3 DEF Parsers, Kin
  <2>5. q = [q3 EXCEPT !.buffer = <<>>]
    BY <1>5, <2>1
  <2> HIDE DEF q3
  <2>6. /\ q \in Parsers /\ Kin(q3, q) /\ q.size = q3.size
        /\ q.buffer = <<>> /\ q.calls = q3.calls
    <3>1. <<>> \in Seq(Bytes)
      OBVIOUS
    <3> QED
      BY <2>4, <2>5, <3>1 DEF Parsers, Kin
  <2> QED
    BY <1>3, <1>7, <2>4, <2>6 DEF Kin, new, ByteWritten
<1> QED
  BY <1>2, <1>6, <1>7

(* In a part's content, j bytes were written: they are in the value of a   *)
(* field, handed on or in the buffer of a file; k files came before it.    *)
HandedOn(p, part, files, k, at, j) ==
  /\ at \in Nat /\ at <= j /\ j - at < FileChunkSize
  /\ p.buffer = SubSeq(part.content, at + 1, j) /\ Len(p.buffer) = j - at
  /\ Told(p.calls, files, k, at)
WrittenOfFile(p, part, files, k, j) ==
  p.filename = part.name /\ \E at \in Nat : HandedOn(p, part, files, k, at, j)
WrittenOfField(p, part, files, k, j) ==
  /\ p.name = part.name
  /\ p.value = SubSeq(part.content, 1, j)
  /\ Told(p.calls, files, k, 0)
Written(p, part, files, k, j) ==
  /\ p \in Parsers
  /\ p.isFile <=> part.name \in FileNames
  /\ p.size = j
  /\ p.isFile => WrittenOfFile(p, part, files, k, j)
  /\ ~ p.isFile => WrittenOfField(p, part, files, k, j)

(* The part is the next of the files, if it is a file that is not empty.   *)
ComesNext(part, files, k) ==
  /\ part.content \in Seq(Bytes)
  /\ files \in Seq(FileParts) /\ k \in Nat
  /\ part.name \in FileNames /\ part.content # <<>> => k + 1 <= Len(files) /\ files[k + 1] = part

LEMMA SubSeqGrows ==
  ASSUME NEW s \in Seq(Bytes), NEW a \in Nat, NEW j \in Nat, a <= j, j < Len(s)
  PROVE  /\ Append(SubSeq(s, a + 1, j), s[j + 1]) = SubSeq(s, a + 1, j + 1)
         /\ Len(SubSeq(s, a + 1, j)) = j - a /\ s[j + 1] \in Bytes
  OBVIOUS

LEMMA WritesOne ==
  ASSUME NEW part, NEW files, NEW k, ComesNext(part, files, k),
         NEW j \in Nat, j < Len(part.content), NEW p, Written(p, part, files, k, j)
  PROVE  /\ Written(WriteByte(p, part.content[j + 1], FALSE), part, files, k, j + 1)
         /\ Kin(p, WriteByte(p, part.content[j + 1], FALSE))
<1> DEFINE b == part.content[j + 1]
           content == part.content
           q == WriteByte(p, b, FALSE)
           c == FullBuffer(p, b)
<1>1. /\ content \in Seq(Bytes) /\ Len(content) \in Nat /\ content # <<>>
      /\ j < Len(content) /\ b = content[j + 1]
  BY DEF ComesNext
<1>2. p \in Parsers /\ p.size = j /\ (p.isFile <=> part.name \in FileNames)
  BY DEF Written
<1> HIDE DEF b, content, q, c
<1>3. b \in Bytes
  BY <1>1
<1>4. ByteWritten(p, b, q)
  BY <1>2, <1>3, WriteByteIs DEF q
<1>5. q \in Parsers /\ Kin(p, q) /\ q.size = j + 1
  BY <1>2, <1>4 DEF ByteWritten
<1>6. q.isFile = p.isFile /\ q.name = p.name /\ q.filename = p.filename
  BY <1>5 DEF Kin
<1>7. ASSUME ~ p.isFile
      PROVE  WrittenOfField(q, part, files, k, j + 1)
  <2>1. p.name = part.name /\ p.value = SubSeq(content, 1, j) /\ Told(p.calls, files, k, 0)
    BY <1>7 DEF Written, WrittenOfField, content
  <2>2. q.value = Append(p.value, b) /\ q.calls = p.calls
    BY <1>4, <1>7 DEF ByteWritten
  <2>3. Append(SubSeq(content, 1, j), b) = SubSeq(content, 1, j + 1)
    <3>1. 0 \in Nat /\ 0 <= j /\ 0 + 1 = 1
      OBVIOUS
    <3> QED
      BY <1>1, <3>1, SubSeqGrows
  <2> QED
    BY <1>6, <2>1, <2>2, <2>3 DEF WrittenOfField, content
<1>8. ASSUME p.isFile
      PROVE  WrittenOfFile(q, part, files, k, j + 1)
  <2>0. p.filename = part.name
    BY <1>8 DEF Written, WrittenOfFile
  <2> PICK at \in Nat : HandedOn(p, part, files, k, at, j)
    BY <1>8 DEF Written, WrittenOfFile
  <2>1. /\ at <= j /\ j - at < FileChunkSize
        /\ p.buffer = SubSeq(content, at + 1, j) /\ Len(p.buffer) = j - at
        /\ Told(p.calls, files, k, at)
    BY DEF HandedOn, content
  <2>2. p.buffer \in Seq(Bytes) /\ Len(p.buffer) \in Nat /\ FileChunkSize \in Nat \ {0}
    BY <1>2, MultipartAssumption DEF Parsers
  <2>4. Len(Append(p.buffer, b)) = Len(p.buffer) + 1 /\ Append(p.buffer, b) \in Seq(Bytes)
    BY <1>3, <2>2
  <2>5. Append(p.buffer, b) = SubSeq(content, at + 1, j + 1)
    BY <1>1, <2>1, SubSeqGrows
  <2>6. ASSUME Len(p.buffer) + 1 # FileChunkSize
        PROVE  WrittenOfFile(q, part, files, k, j + 1)
    <3>1. q.buffer = Append(p.buffer, b) /\ q.calls = p.calls
      BY <1>4, <1>8, <2>6 DEF ByteWritten
    <3>2. at <= j + 1 /\ j + 1 - at < FileChunkSize /\ Len(q.buffer) = j + 1 - at
      BY <2>1, <2>2, <2>4, <2>6, <3>1
    <3>3. HandedOn(q, part, files, k, at, j + 1)
      BY <2>1, <2>5, <3>1, <3>2 DEF HandedOn, content
    <3> QED
      BY <1>6, <2>0, <3>3 DEF WrittenOfFile
  <2>7. ASSUME Len(p.buffer) + 1 = FileChunkSize
        PROVE  WrittenOfFile(q, part, files, k, j + 1)
    <3>1. q.buffer = <<>> /\ q.calls = Append(p.calls, c)
      BY <1>4, <1>8, <2>7 DEF ByteWritten, c
    <3>2. c.filename = p.filename /\ c.index = p.size - Len(p.buffer)
          /\ c.data = Append(p.buffer, b) /\ c.final = FALSE
      BY DEF c, FullBuffer
    <3>3. c \in UploadCalls
      <4>1. p.filename \in PartNames /\ Append(p.buffer, b) \in Seq(Bytes)
            /\ p.size - Len(p.buffer) \in Int
        BY <1>2, <2>2, <2>4 DEF Parsers
      <4> QED
        BY <4>1 DEF UploadCalls, c, FullBuffer
    <3>4. k \in Nat /\ k + 1 <= Len(files) /\ Len(files) \in Nat /\ files[k + 1] = part
      BY <1>1, <1>2, <1>8 DEF ComesNext, content
    <3>5. c.index = at /\ at + Len(c.data) = j + 1
      BY <2>1, <2>2, <2>4, <3>2, <1>2
    <3>6. /\ c.filename = files[k + 1].name
          /\ Len(files[k + 1].content) \in Nat
          /\ at + Len(c.data) <= Len(files[k + 1].content)
          /\ c.data = SubSeq(files[k + 1].content, at + 1, at + Len(c.data))
      <4> DEFINE end == at + Len(c.data)
      <4>1. end = j + 1 /\ files[k + 1].content = content /\ files[k + 1].name = part.name
        BY <3>4, <3>5 DEF content
      <4>2. c.data = SubSeq(content, at + 1, j + 1) /\ c.filename = part.name
        BY <2>0, <2>5, <3>2
      <4> HIDE DEF end
      <4>3. end <= Len(content) /\ c.data = SubSeq(content, at + 1, end)
        BY <1>1, <4>1, <4>2
      <4> QED
        BY <1>1, <4>1, <4>2, <4>3 DEF end
    <3>7. Told(Append(p.calls, c), files, IF c.final THEN k + 1 ELSE k,
               IF c.final THEN 0 ELSE at + Len(c.data))
      <4>1. ~ c.final
        BY <3>2
      <4>2. c.final => at + Len(c.data) = Len(files[k + 1].content)
        BY <4>1
      <4> QED
        BY <2>1, <3>3, <3>4, <3>5, <3>6, <4>2, CallAdded
    <3>8. Told(q.calls, files, k, j + 1)
      <4>1. (IF c.final THEN k + 1 ELSE k) = k
            /\ (IF c.final THEN 0 ELSE at + Len(c.data)) = at + Len(c.data)
        BY <3>2
      <4> QED
        BY <3>1, <3>5, <3>7, <4>1
    <3>9. /\ j + 1 \in Nat /\ j + 1 <= j + 1 /\ j + 1 - (j + 1) = 0 /\ 0 < FileChunkSize
          /\ Len(q.buffer) = 0 /\ q.buffer = SubSeq(content, j + 1 + 1, j + 1)
      BY <1>1, <2>2, <3>1
    <3>10. HandedOn(q, part, files, k, j + 1, j + 1)
      BY <3>8, <3>9 DEF HandedOn, content
    <3> QED
      BY <1>6, <2>0, <3>9, <3>10 DEF WrittenOfFile
  <2> QED
    BY <2>6, <2>7
<1>9. Written(q, part, files, k, j + 1)
  BY <1>2, <1>5, <1>6, <1>7, <1>8 DEF Written
<1> QED
  BY <1>5, <1>9 DEF q, b
(* Writing several bytes, one by one.                                      *)
LEMMA WriteBytesIs ==
  ASSUME NEW p \in Parsers, NEW bs \in Seq(Bytes)
  PROVE  \E w : /\ w[0] = p
                /\ \A i \in 1 .. Len(bs) : w[i] = WriteByte(w[i - 1], bs[i], FALSE)
                /\ WriteBytes(p, bs, FALSE) = w[Len(bs)]
<1> DEFINE N == Len(bs)
           Step == [x \in (1 .. N) \X Parsers |-> WriteByte(x[2], bs[x[1]], FALSE)]
           Rec(f) == [n \in 0 .. N |-> IF n = 0 THEN p ELSE WriteByte(f[n - 1], bs[n], FALSE)]
           F == CHOOSE f : f = Rec(f)
<1>0. N \in Nat /\ \A n \in 1 .. N : bs[n] \in Bytes
  OBVIOUS
<1>1. WriteBytes(p, bs, FALSE) = F[N]
  BY DEF WriteBytes
<1> HIDE DEF N
<1>2. \A n \in 1 .. N : \A q \in Parsers : WriteByte(q, bs[n], FALSE) \in Parsers
  BY <1>0, WriteByteIs DEF ByteWritten
<1>3. Step \in Folding(Parsers, N)
  BY <1>2 DEF Folding
<1>4. PICK g : Folds(g, Parsers, p, N, Step)
  <2> HIDE DEF Step
  <2> QED
    BY <1>0, <1>3, FoldExists
<1>5. /\ g \in [0 .. N -> Parsers] /\ g[0] = p
      /\ \A i \in 1 .. N : g[i] = WriteByte(g[i - 1], bs[i], FALSE)
  <2>1. g \in [0 .. N -> Parsers] /\ g[0] = p /\ \A i \in 1 .. N : g[i] = Step[<<i, g[i - 1]>>]
    BY <1>4 DEF Folds
  <2>2. \A i \in 1 .. N : i - 1 \in 0 .. N
    BY <1>0
  <2> QED
    BY <2>1, <2>2
<1>6. g = Rec(g)
  <2>1. \A i \in 0 .. N : g[i] = IF i = 0 THEN p ELSE WriteByte(g[i - 1], bs[i], FALSE)
    <3>1. \A i \in 0 .. N : i = 0 \/ i \in 1 .. N
      BY <1>0
    <3>2. \A i \in 1 .. N : i # 0
      BY <1>0
    <3> QED
      BY <1>5, <3>1, <3>2
  <2> QED
    BY <1>5, <2>1
<1>7. F = Rec(F)
  BY <1>6
<1> HIDE DEF F
<1>8. /\ F[0] = p
      /\ \A i \in 1 .. N : F[i] = WriteByte(F[i - 1], bs[i], FALSE)
  <2>1. 0 \in 0 .. N /\ \A i \in 1 .. N : i \in 0 .. N /\ i # 0
    BY <1>0
  <2>2. \A i \in 0 .. N : F[i] = IF i = 0 THEN p ELSE WriteByte(F[i - 1], bs[i], FALSE)
    BY <1>7
  <2> QED
    BY <2>1, <2>2
<1> QED
  BY <1>1, <1>8 DEF N

LEMMA WritesMany ==
  ASSUME NEW part, NEW files, NEW k, ComesNext(part, files, k),
         NEW j \in Nat, NEW p, Written(p, part, files, k, j),
         NEW bs \in Seq(Bytes), j + Len(bs) <= Len(part.content),
         \A i \in 1 .. Len(bs) : bs[i] = part.content[j + i]
  PROVE  /\ Written(WriteBytes(p, bs, FALSE), part, files, k, j + Len(bs))
         /\ Kin(p, WriteBytes(p, bs, FALSE))
<1> DEFINE N == Len(bs)
           content == part.content
<1>1. p \in Parsers /\ N \in Nat /\ content \in Seq(Bytes) /\ Len(content) \in Nat
  BY DEF Written, ComesNext
<1>2. PICK w : /\ w[0] = p
               /\ \A i \in 1 .. N : w[i] = WriteByte(w[i - 1], bs[i], FALSE)
               /\ WriteBytes(p, bs, FALSE) = w[N]
  BY <1>1, WriteBytesIs
<1> DEFINE Good == {i \in 0 .. N : Written(w[i], part, files, k, j + i) /\ Kin(p, w[i])}
<1>3. j + N <= Len(content) /\ \A i \in 1 .. N : bs[i] = content[j + i]
  OBVIOUS
<1> HIDE DEF N, content
<1>4. 0 \in Good
  <2>1. j + 0 = j /\ Kin(p, p)
    BY DEF Kin
  <2> QED
    BY <1>1, <1>2, <2>1
<1>5. ASSUME NEW i \in 1 .. N, i - 1 \in Good
      PROVE  i \in Good
  <2> DEFINE h == j + (i - 1)
  <2>1. h \in Nat /\ h < Len(content) /\ h + 1 = j + i /\ i \in 0 .. N
    BY <1>1, <1>3
  <2>2. Written(w[i - 1], part, files, k, h) /\ Kin(p, w[i - 1])
    BY <1>5
  <2> HIDE DEF h
  <2>3. w[i] = WriteByte(w[i - 1], content[h + 1], FALSE)
    BY <1>2, <1>3, <2>1
  <2>4. Written(w[i], part, files, k, h + 1) /\ Kin(w[i - 1], w[i])
    <3> DEFINE q == w[i - 1]
               r == w[i]
    <3>1. Written(q, part, files, k, h) /\ r = WriteByte(q, part.content[h + 1], FALSE)
          /\ h \in Nat /\ h < Len(part.content) /\ ComesNext(part, files, k)
      BY <2>1, <2>2, <2>3 DEF content
    <3> HIDE DEF q, r
    <3>2. /\ Written(WriteByte(q, part.content[h + 1], FALSE), part, files, k, h + 1)
          /\ Kin(q, WriteByte(q, part.content[h + 1], FALSE))
      BY <3>1, WritesOne
    <3>3. Written(r, part, files, k, h + 1) /\ Kin(q, r)
      BY <3>1, <3>2, Zenon
    <3> QED
      BY <3>3 DEF q, r
  <2>5. Kin(p, w[i])
    BY <2>2, <2>4 DEF Kin
  <2> QED
    BY <2>1, <2>4, <2>5
<1>6. 0 .. N \subseteq Good
  <2> HIDE DEF Good
  <2> QED
    BY <1>1, <1>4, <1>5, UpTo
<1>7. Written(w[N], part, files, k, j + N) /\ Kin(p, w[N])
  BY <1>1, <1>6
<1> QED
  BY <1>2, <1>7 DEF N
-----------------------------------------------------------------------------
(* The delimiter, of which m bytes are held back.                          *)
LEMMA DelimiterIs ==
  /\ Boundary \in Seq(Bytes) /\ Len(Boundary) \in Nat \ {0} /\ \A i \in 1 .. Len(Boundary) : Boundary[i] # Cr
  /\ Delimiter \in Seq(Bytes) /\ Len(Delimiter) = 4 + Len(Boundary)
  /\ Delimiter[1] = Cr /\ Delimiter[2] = Lf /\ Delimiter[3] = "-" /\ Delimiter[4] = "-"
  /\ \A i \in 1 .. Len(Boundary) : Delimiter[4 + i] = Boundary[i]
  /\ \A i \in 2 .. Len(Delimiter) : Delimiter[i] # Cr
<1>1. /\ Boundary \in Seq(Letters \cup {"-"}) /\ Boundary # <<>>
      /\ Cr \notin Letters \cup {"-"} /\ Lf # Cr /\ "-" # Cr
  BY MultipartAssumption, Zenon DEF Cr, Lf
<1>2. Letters \cup {"-"} \subseteq Bytes /\ Cr \in Bytes /\ Lf \in Bytes /\ "-" \in Bytes
  BY DEF Bytes
<1>3. /\ Boundary \in Seq(Bytes) /\ Len(Boundary) \in Nat \ {0}
      /\ \A i \in 1 .. Len(Boundary) : Boundary[i] # Cr
  BY <1>1, <1>2
<1>4. /\ Delimiter \in Seq(Bytes) /\ Len(Delimiter) = 4 + Len(Boundary)
      /\ Delimiter[1] = Cr /\ Delimiter[2] = Lf /\ Delimiter[3] = "-" /\ Delimiter[4] = "-"
      /\ \A i \in 1 .. Len(Boundary) : Delimiter[4 + i] = Boundary[i]
  BY <1>2, <1>3 DEF Delimiter
<1>5. ASSUME NEW i \in 2 .. Len(Delimiter)
      PROVE  Delimiter[i] # Cr
  <2>1. i = 2 \/ i = 3 \/ i = 4 \/ (i - 4 \in 1 .. Len(Boundary) /\ 4 + (i - 4) = i)
    BY <1>3, <1>4
  <2>2. ASSUME i - 4 \in 1 .. Len(Boundary), 4 + (i - 4) = i
        PROVE  Delimiter[i] # Cr
    BY <1>3, <1>4, <2>2
  <2> QED
    BY <1>1, <1>4, <2>1, <2>2
<1> QED
  BY <1>3, <1>4, <1>5
-----------------------------------------------------------------------------
(* The states in which m bytes of the delimiter are held back.             *)
Holding(p, m) ==
  /\ m = 0 => p.state = "WAIT_FOR_RETURN1"
  /\ m = 1 => p.state = "EXPECT_FEED1"
  /\ m = 2 => p.state = "EXPECT_DASH1"
  /\ m = 3 => p.state = "EXPECT_DASH2"
  /\ m >= 4 => p.state = "BOUNDARY_OR_DATA" /\ p.matched = m - 4

(* All that was taken from the part is the same.                           *)
Looks(p, q) ==
  /\ q \in Parsers /\ q.isFile = p.isFile /\ q.name = p.name /\ q.filename = p.filename
  /\ q.size = p.size /\ q.value = p.value /\ q.buffer = p.buffer /\ q.calls = p.calls
  /\ q.params = p.params

LEMMA LooksWritten ==
  ASSUME NEW part, NEW files, NEW k, NEW j, NEW p, NEW q, Looks(p, q),
         Written(p, part, files, k, j)
  PROVE  Written(q, part, files, k, j)
<1>1. /\ q \in Parsers /\ q.isFile = p.isFile /\ q.name = p.name /\ q.filename = p.filename
      /\ q.size = p.size /\ q.value = p.value /\ q.buffer = p.buffer /\ q.calls = p.calls
  BY DEF Looks
<1>2. p.isFile => WrittenOfFile(p, part, files, k, j)
  BY DEF Written
<1>3. \A at : HandedOn(p, part, files, k, at, j) => HandedOn(q, part, files, k, at, j)
  BY <1>1 DEF HandedOn
<1>4. WrittenOfFile(p, part, files, k, j) => WrittenOfFile(q, part, files, k, j)
  BY <1>1, <1>3, Zenon DEF WrittenOfFile
<1>5. WrittenOfField(p, part, files, k, j) => WrittenOfField(q, part, files, k, j)
  BY <1>1 DEF WrittenOfField
<1> QED
  BY <1>1, <1>4, <1>5, Zenon DEF Written

Turned(p, s) == [p EXCEPT !.state = s]
LEMMA StateSet ==
  ASSUME NEW p \in Parsers, NEW s \in ParserStates
  PROVE  /\ Looks(p, Turned(p, s)) /\ Turned(p, s).state = s /\ Turned(p, s).parsed = p.parsed
         /\ Turned(p, s).matched = p.matched
  BY DEF Parsers, Looks, Turned

LEMMA HeldIs ==
  /\ <<>> = SubSeq(Delimiter, 1, 0)
  /\ <<Cr>> = SubSeq(Delimiter, 1, 1)
  /\ <<Cr, Lf>> = SubSeq(Delimiter, 1, 2)
  /\ <<Cr, Lf, "-">> = SubSeq(Delimiter, 1, 3)
  /\ \A i \in 0 .. Len(Boundary) :
       <<Cr, Lf, "-", "-">> \o SubSeq(Boundary, 1, i) = SubSeq(Delimiter, 1, 4 + i)
<1>1. /\ Boundary \in Seq(Bytes) /\ Len(Boundary) \in Nat \ {0}
      /\ Delimiter \in Seq(Bytes) /\ Len(Delimiter) = 4 + Len(Boundary)
      /\ Delimiter[1] = Cr /\ Delimiter[2] = Lf /\ Delimiter[3] = "-" /\ Delimiter[4] = "-"
      /\ \A i \in 1 .. Len(Boundary) : Delimiter[4 + i] = Boundary[i]
  BY DelimiterIs
<1>2. ASSUME NEW i \in 0 .. Len(Boundary)
      PROVE  <<Cr, Lf, "-", "-">> \o SubSeq(Boundary, 1, i) = SubSeq(Delimiter, 1, 4 + i)
  <2> DEFINE sub == SubSeq(Boundary, 1, i)
             left == <<Cr, Lf, "-", "-">> \o sub
             right == SubSeq(Delimiter, 1, 4 + i)
             head == <<Cr, Lf, "-", "-">>
  <2>1. sub \in Seq(Bytes) /\ Len(sub) = i /\ \A n \in 1 .. i : sub[n] = Boundary[n]
    BY <1>1
  <2>2. right \in Seq(Bytes) /\ Len(right) = 4 + i /\ \A n \in 1 .. 4 + i : right[n] = Delimiter[n]
    BY <1>1
  <2>3. head \in Seq(Bytes) /\ Len(head) = 4
        /\ head[1] = Cr /\ head[2] = Lf /\ head[3] = "-" /\ head[4] = "-"
    BY DEF Bytes
  <2> HIDE DEF sub, head, right
  <2>4. /\ head \o sub \in Seq(Bytes) /\ Len(head \o sub) = 4 + i
        /\ \A n \in 1 .. 4 + i : (head \o sub)[n] = IF n <= 4 THEN head[n] ELSE sub[n - 4]
    <3>1. /\ head \o sub \in Seq(Bytes) /\ Len(head \o sub) = Len(head) + Len(sub)
          /\ \A n \in 1 .. Len(head) + Len(sub) :
               (head \o sub)[n] = IF n <= Len(head) THEN head[n] ELSE sub[n - Len(head)]
      BY <2>1, <2>3, ConcatProperties, Zenon
    <3> QED
      BY <2>1, <2>3, <3>1, Zenon
  <2>5. \A n \in 1 .. 4 + i : (head \o sub)[n] = right[n]
    <3> TAKE n \in 1 .. 4 + i
    <3>1. n \in {1, 2, 3, 4} \/ (n - 4 \in 1 .. i /\ ~(n <= 4) /\ 4 + (n - 4) = n)
      OBVIOUS
    <3>2. CASE n \in {1, 2, 3, 4}
      <4>1. (head \o sub)[n] = head[n] /\ right[n] = Delimiter[n]
        BY <2>2, <2>4, <3>2, SMTT(30)
      <4> QED
        BY <1>1, <2>3, <3>2, <4>1
    <3>3. CASE n - 4 \in 1 .. i /\ ~(n <= 4) /\ 4 + (n - 4) = n
      <4> DEFINE l == n - 4
      <4>1. l \in 1 .. i /\ l \in 1 .. Len(Boundary) /\ 4 + l = n
        BY <1>1, <3>3
      <4> HIDE DEF l
      <4>2. Delimiter[n] = Boundary[l] /\ sub[l] = Boundary[l] /\ right[n] = Delimiter[n]
        BY <1>1, <2>1, <2>2, <4>1
      <4>3. (head \o sub)[n] = sub[l]
        BY <2>4, <3>3 DEF l
      <4> QED
        BY <4>2, <4>3
    <3> QED
      BY <3>1, <3>2, <3>3
  <2>6. head \o sub = right
    BY <2>2, <2>4, <2>5, SeqEqual
  <2> QED
    BY <2>6 DEF head, sub, right
<1> QED
  BY <1>1, <1>2
-----------------------------------------------------------------------------
(* A byte, when m bytes of the delimiter are held back: it is the next of  *)
(* the delimiter, or what was held back is content.                        *)
Dropped(p, m) == WriteBytes([p EXCEPT !.state = "WAIT_FOR_RETURN1"], SubSeq(Delimiter, 1, m), FALSE)

HeldOn(p, m, q) == Looks(p, q) /\ Holding(q, m + 1) /\ q.parsed = p.parsed
HeldByte(p, m, b, q) ==
  /\ b = Delimiter[m + 1] /\ m + 1 < Len(Delimiter) => HeldOn(p, m, q)
  /\ b = Delimiter[m + 1] /\ m + 1 = Len(Delimiter) => q = EndPart(p)
  /\ b # Delimiter[m + 1] => q = InContent(Dropped(p, m), b, FALSE)

LEMMA HoldingIs ==
  ASSUME NEW q
  PROVE  /\ q.state = "WAIT_FOR_RETURN1" => Holding(q, 0)
         /\ q.state = "EXPECT_FEED1" => Holding(q, 1)
         /\ q.state = "EXPECT_DASH1" => Holding(q, 2)
         /\ q.state = "EXPECT_DASH2" => Holding(q, 3)
  BY DEF Holding

LEMMA HoldingMore ==
  ASSUME NEW q, NEW n \in Nat, NEW m, m = n + 4, q.state = "BOUNDARY_OR_DATA", q.matched = n
  PROVE  Holding(q, m)
  BY DEF Holding

LEMMA ParseHeld ==
  ASSUME NEW p \in Parsers, NEW m \in 0 .. Len(Delimiter) - 1, Holding(p, m), NEW b, NEW length
  PROVE  HeldByte(p, m, b, Parse(p, b, FALSE, length))
<1>1. /\ Len(Boundary) \in Nat \ {0} /\ Len(Delimiter) = 4 + Len(Boundary)
      /\ Delimiter[1] = Cr /\ Delimiter[2] = Lf /\ Delimiter[3] = "-" /\ Delimiter[4] = "-"
      /\ \A i \in 1 .. Len(Boundary) : Delimiter[4 + i] = Boundary[i]
  BY DelimiterIs
<1> SUFFICES ASSUME NEW q, q = Parse(p, b, FALSE, length)
             PROVE  HeldByte(p, m, b, q)
  OBVIOUS
<1>2. ASSUME NEW s, s \in {"EXPECT_FEED1", "EXPECT_DASH1", "EXPECT_DASH2", "BOUNDARY_OR_DATA"},
             q = Turned(p, s)
      PROVE  Looks(p, q) /\ q.state = s /\ q.parsed = p.parsed
  <2>1. s \in ParserStates
    BY <1>2, Zenon DEF ParserStates
  <2>2. /\ Looks(p, Turned(p, s)) /\ Turned(p, s).state = s /\ Turned(p, s).parsed = p.parsed
        /\ Turned(p, s).matched = p.matched
    BY <2>1, StateSet
  <2> QED
    BY <1>2, <2>2, Zenon
<1>3. CASE m = 0
  <2>1. p.state = "WAIT_FOR_RETURN1" /\ Delimiter[m + 1] = Cr /\ ~(m + 1 = Len(Delimiter))
    BY <1>1, <1>3 DEF Holding
  <2>2. q = InContent(p, b, FALSE)
    BY <2>1 DEF Parse, Turned
  <2>3. ASSUME b = Cr
        PROVE  HeldOn(p, m, q)
    <3>1. q = Turned(p, "EXPECT_FEED1")
      BY <2>2, <2>3 DEF InContent, Turned
    <3> QED
      <4>1. Looks(p, q) /\ q.state = "EXPECT_FEED1" /\ q.parsed = p.parsed
        BY <1>2, <3>1
      <4>2. Holding(q, 1)
        BY <4>1, HoldingIs, Zenon
      <4>3. m + 1 = 1
        BY <1>3
      <4> QED
        BY <4>1, <4>2, <4>3, Zenon DEF HeldOn
  <2>4. Dropped(p, m) = p
    <3>1. Turned(p, "WAIT_FOR_RETURN1") = p
      BY <2>1 DEF Parsers, Turned
    <3>2. SubSeq(Delimiter, 1, m) = <<>> /\ <<>> \in Seq(Bytes) /\ Len(<<>>) = 0
      BY <1>3, HeldIs
    <3>3. WriteBytes(p, <<>>, FALSE) = p
      <4> DEFINE none == <<>>
      <4>1. p \in Parsers /\ none \in Seq(Bytes) /\ Len(none) = 0
        BY <3>2
      <4> HIDE DEF none
      <4>2. PICK w : /\ w[0] = p
                     /\ \A i \in 1 .. Len(none) : w[i] = WriteByte(w[i - 1], none[i], FALSE)
                     /\ WriteBytes(p, none, FALSE) = w[Len(none)]
        BY <4>1, WriteBytesIs
      <4>3. WriteBytes(p, none, FALSE) = p
        BY <4>1, <4>2, Zenon
      <4> QED
        BY <4>3 DEF none
    <3> QED
      BY <3>1, <3>2, <3>3 DEF Dropped, Turned
  <2>5. ~(m + 1 = Len(Delimiter))
    BY <1>1, <2>1
  <2> QED
    BY <2>1, <2>2, <2>3, <2>4, <2>5, Zenon DEF HeldByte
<1>4. CASE m = 1
  <2>1. p.state = "EXPECT_FEED1" /\ Delimiter[m + 1] = Lf /\ ~(m + 1 = Len(Delimiter))
    BY <1>1, <1>4 DEF Holding
  <2>2. q = IF b = Lf THEN Turned(p, "EXPECT_DASH1") ELSE NotDelimiter(p, <<Cr>>, b, FALSE)
    BY <2>1 DEF Parse, Turned
  <2>3. NotDelimiter(p, <<Cr>>, b, FALSE) = InContent(Dropped(p, m), b, FALSE)
    BY <1>4, HeldIs DEF NotDelimiter, Dropped
  <2>4. ASSUME b = Lf
        PROVE  HeldOn(p, m, q)
    <3>0. q = Turned(p, "EXPECT_DASH1")
      BY <2>2, <2>4, Zenon
    <3>1. Looks(p, q) /\ q.state = "EXPECT_DASH1" /\ q.parsed = p.parsed
      BY <1>2, <3>0
    <3>2. Holding(q, 2)
      BY <3>1, HoldingIs, Zenon
    <3>3. m + 1 = 2
      BY <1>4
    <3> QED
      BY <3>1, <3>2, <3>3, Zenon DEF HeldOn
  <2> QED
    BY <2>1, <2>2, <2>3, <2>4, Zenon DEF HeldByte
<1>5. CASE m = 2
  <2>1. p.state = "EXPECT_DASH1" /\ Delimiter[m + 1] = "-" /\ ~(m + 1 = Len(Delimiter))
    BY <1>1, <1>5 DEF Holding
  <2>2. q = IF b = "-" THEN Turned(p, "EXPECT_DASH2") ELSE NotDelimiter(p, <<Cr, Lf>>, b, FALSE)
    BY <2>1 DEF Parse, Turned
  <2>3. NotDelimiter(p, <<Cr, Lf>>, b, FALSE) = InContent(Dropped(p, m), b, FALSE)
    BY <1>5, HeldIs DEF NotDelimiter, Dropped
  <2>4. ASSUME b = "-"
        PROVE  HeldOn(p, m, q)
    <3>0. q = Turned(p, "EXPECT_DASH2")
      BY <2>2, <2>4, Zenon
    <3>1. Looks(p, q) /\ q.state = "EXPECT_DASH2" /\ q.parsed = p.parsed
      BY <1>2, <3>0
    <3>2. Holding(q, 3)
      BY <3>1, HoldingIs, Zenon
    <3>3. m + 1 = 3
      BY <1>5
    <3> QED
      BY <3>1, <3>2, <3>3, Zenon DEF HeldOn
  <2> QED
    BY <2>1, <2>2, <2>3, <2>4, Zenon DEF HeldByte
<1>6. CASE m = 3
  <2> DEFINE r == [p EXCEPT !.state = "BOUNDARY_OR_DATA", !.matched = 0]
  <2>1. p.state = "EXPECT_DASH2" /\ Delimiter[m + 1] = "-" /\ ~(m + 1 = Len(Delimiter))
    BY <1>1, <1>6 DEF Holding
  <2>2. q = IF b = "-" THEN r ELSE NotDelimiter(p, <<Cr, Lf, "-">>, b, FALSE)
    BY <2>1 DEF Parse, Turned
  <2>3. NotDelimiter(p, <<Cr, Lf, "-">>, b, FALSE) = InContent(Dropped(p, m), b, FALSE)
    BY <1>6, HeldIs DEF NotDelimiter, Dropped
  <2>4. Looks(p, r) /\ r.state = "BOUNDARY_OR_DATA" /\ r.matched = 0 /\ r.parsed = p.parsed
    <3> DEFINE r1 == Turned(p, "BOUNDARY_OR_DATA")
    <3>1. Looks(p, r1) /\ r1.state = "BOUNDARY_OR_DATA" /\ r1.parsed = p.parsed
      BY StateSet DEF ParserStates
    <3>2. r = [r1 EXCEPT !.matched = 0]
      BY DEF Turned
    <3> HIDE DEF r1, r
    <3> QED
      BY <3>1, <3>2 DEF Looks, Parsers
  <2> HIDE DEF r
  <2>5. ASSUME b = "-"
        PROVE  HeldOn(p, m, q)
    <3>1. q = r
      BY <2>2, <2>5, Zenon
    <3>2. 0 \in Nat /\ 0 + 4 = 4 /\ m + 1 = 4
      BY <1>6
    <3>3. q.state = "BOUNDARY_OR_DATA" /\ q.matched = 0
      BY <2>4, <3>1
    <3>4. m + 1 = 0 + 4
      BY <3>2
    <3>5. Holding(q, m + 1)
      BY <3>2, <3>3, <3>4, HoldingMore, Zenon
    <3> QED
      BY <2>4, <3>1, <3>5, Zenon DEF HeldOn
  <2> QED
    BY <2>1, <2>2, <2>3, <2>5, Zenon DEF HeldByte
<1>7. CASE m >= 4
  <2> DEFINE n == m - 4
             r == [p EXCEPT !.matched = @ + 1]
             kept == <<Cr, Lf, "-", "-">> \o SubSeq(Boundary, 1, p.matched)
  <2>1. /\ p.state = "BOUNDARY_OR_DATA" /\ p.matched = n /\ n + 1 \in 1 .. Len(Boundary)
        /\ n \in 0 .. Len(Boundary) /\ 4 + n = m /\ 4 + (n + 1) = m + 1
        /\ (m + 1 < Len(Delimiter) => ~(n = Len(Boundary) - 1))
        /\ (m + 1 = Len(Delimiter) => n = Len(Boundary) - 1)
        /\ n \in Nat /\ n + 1 + 4 = m + 1
    BY <1>1, <1>7 DEF Holding
  <2>2. Delimiter[m + 1] = Boundary[n + 1]
    BY <1>1, <2>1
  <2>3. q = InBoundary(p, b, FALSE)
    BY <2>1 DEF Parse, Turned
  <2>4. NotDelimiter(p, kept, b, FALSE) = InContent(Dropped(p, m), b, FALSE)
    <3>1. kept = SubSeq(Delimiter, 1, m)
      BY <2>1, HeldIs
    <3> HIDE DEF kept
    <3> QED
      BY <3>1 DEF NotDelimiter, Dropped
  <2>5. Looks(p, r) /\ r.state = p.state /\ r.matched = p.matched + 1 /\ r.parsed = p.parsed
    <3> DEFINE n1 == p.matched + 1
    <3>1. n1 \in Nat
      BY DEF Parsers
    <3>2. r = [p EXCEPT !.matched = n1]
      OBVIOUS
    <3> HIDE DEF n1, r
    <3>3. Looks(p, r) /\ r.state = p.state /\ r.matched = n1 /\ r.parsed = p.parsed
      BY <3>1, <3>2 DEF Looks, Parsers
    <3> QED
      BY <3>3 DEF n1
  <2>6. /\ Boundary[n + 1] # b => q = NotDelimiter(p, kept, b, FALSE)
        /\ Boundary[n + 1] = b /\ n = Len(Boundary) - 1 => q = EndPart(p)
        /\ Boundary[n + 1] = b /\ ~(n = Len(Boundary) - 1) => q = r
    <3>1. p.matched = n
      BY <2>1
    <3> HIDE DEF n, r, kept
    <3>2. q = IF Boundary[n + 1] # b THEN NotDelimiter(p, kept, b, FALSE)
              ELSE IF n = Len(Boundary) - 1 THEN EndPart(p) ELSE r
      BY <2>3, <3>1, Zenon DEF InBoundary, r, kept
    <3> QED
      BY <3>2, Zenon
  <2> HIDE DEF r, kept
  <2>7. ASSUME b = Delimiter[m + 1], m + 1 < Len(Delimiter)
        PROVE  HeldOn(p, m, q)
    <3>1. q = r
      BY <2>1, <2>2, <2>6, <2>7, Zenon
    <3> HIDE DEF n
    <3>2. q.state = "BOUNDARY_OR_DATA" /\ q.matched = n + 1
      BY <2>1, <2>5, <3>1, Zenon
    <3>5. n + 1 \in Nat
      BY <2>1
    <3>3. m + 1 = n + 1 + 4
      BY <2>1
    <3>4. Holding(q, m + 1)
      <4> HIDE DEF n
      <4> QED
        BY <3>2, <3>3, <3>5, HoldingMore, Zenon
    <3> QED
      BY <2>5, <3>1, <3>4, Zenon DEF HeldOn
  <2> QED
    BY <2>1, <2>2, <2>4, <2>6, <2>7, Zenon DEF HeldByte
<1>8. m = 0 \/ m = 1 \/ m = 2 \/ m = 3 \/ m >= 4
  BY <1>1
<1> QED
  BY <1>3, <1>4, <1>5, <1>6, <1>7, <1>8
-----------------------------------------------------------------------------
(* What was held back is content: it is written.                           *)
LEMMA DroppedIs ==
  ASSUME NEW part, NEW files, NEW k, ComesNext(part, files, k),
         NEW j \in Nat, NEW p, Written(p, part, files, k, j),
         NEW m \in 0 .. Len(Delimiter), j + m <= Len(part.content),
         \A i \in 1 .. m : Delimiter[i] = part.content[j + i]
  PROVE  /\ Written(Dropped(p, m), part, files, k, j + m)
         /\ Dropped(p, m).state = "WAIT_FOR_RETURN1"
         /\ Dropped(p, m).parsed = p.parsed /\ Dropped(p, m).params = p.params
<1> DEFINE w == "WAIT_FOR_RETURN1"
           r == Turned(p, w)
           bs == SubSeq(Delimiter, 1, m)
           q == WriteBytes(r, bs, FALSE)
<1>1. p \in Parsers /\ w \in ParserStates
  BY DEF Written, ParserStates
<1> HIDE DEF w
<1>2. Looks(p, r) /\ r.state = w /\ r.parsed = p.parsed
  BY <1>1, StateSet
<1> HIDE DEF r
<1>3. Written(r, part, files, k, j)
  BY <1>2, LooksWritten
<1>4. bs \in Seq(Bytes) /\ Len(bs) = m /\ \A i \in 1 .. m : bs[i] = Delimiter[i]
  <2>1. Delimiter \in Seq(Bytes) /\ Len(Delimiter) \in Nat
    BY DelimiterIs
  <2> QED
    BY <2>1
<1> HIDE DEF bs
<1>5. j + Len(bs) <= Len(part.content) /\ \A i \in 1 .. Len(bs) : bs[i] = part.content[j + i]
  BY <1>4
<1>6. Written(q, part, files, k, j + Len(bs)) /\ Kin(r, q)
  BY <1>3, <1>4, <1>5, WritesMany
<1>7. Dropped(p, m) = q
  BY DEF Dropped, q, r, bs, w, Turned
<1> HIDE DEF q
<1>8. q.state = w /\ q.parsed = p.parsed /\ q.params = p.params
  BY <1>2, <1>6, Zenon DEF Kin, Looks
<1> QED
  BY <1>4, <1>6, <1>7, <1>8 DEF w

(* A byte of the content that is not Cr is written, a Cr is held back.     *)
Took(p, q, part, files, k, j, m) ==
  Written(q, part, files, k, j) /\ Holding(q, m) /\ q.parsed = p.parsed /\ q.params = p.params
LEMMA ContentByte ==
  ASSUME NEW part, NEW files, NEW k, ComesNext(part, files, k),
         NEW j \in Nat, NEW p, Written(p, part, files, k, j),
         j < Len(part.content), NEW b, b = part.content[j + 1], b # Cr
  PROVE  Took(p, InContent(p, b, FALSE), part, files, k, j + 1, 0)
<1> SUFFICES ASSUME NEW q, q = InContent(p, b, FALSE)
             PROVE  Took(p, q, part, files, k, j + 1, 0)
  OBVIOUS
<1> DEFINE w == "WAIT_FOR_RETURN1"
           r == Turned(p, w)
<1>1. p \in Parsers /\ w \in ParserStates
  BY DEF Written, ParserStates
<1>2. q = WriteByte(r, b, FALSE)
  BY DEF InContent, Turned
<1> HIDE DEF w
<1>3. Looks(p, r) /\ r.state = w /\ r.parsed = p.parsed
  BY <1>1, StateSet
<1> HIDE DEF r
<1>4. Written(r, part, files, k, j)
  BY <1>3, LooksWritten
<1>5. Written(q, part, files, k, j + 1) /\ Kin(r, q)
  BY <1>2, <1>4, WritesOne
<1>6. q.state = w /\ q.parsed = p.parsed /\ q.params = p.params
  BY <1>3, <1>5, Zenon DEF Kin, Looks
<1>7. Holding(q, 0)
  BY <1>6, HoldingIs, Zenon DEF w
<1> QED
  BY <1>5, <1>6, <1>7, Zenon DEF Took

LEMMA ContentCr ==
  ASSUME NEW part, NEW files, NEW k, NEW j, NEW p, Written(p, part, files, k, j)
  PROVE  Took(p, InContent(p, Cr, FALSE), part, files, k, j, 1)
<1> DEFINE w == "EXPECT_FEED1"
           q == Turned(p, w)
<1>1. p \in Parsers /\ w \in ParserStates
  BY DEF Written, ParserStates
<1>2. InContent(p, Cr, FALSE) = q
  BY DEF InContent, Turned
<1> HIDE DEF w
<1>3. Looks(p, q) /\ q.state = w /\ q.parsed = p.parsed
  BY <1>1, StateSet
<1> HIDE DEF q
<1>4. Written(q, part, files, k, j)
  BY <1>3, LooksWritten
<1>5. Holding(q, 1)
  BY <1>3, HoldingIs, Zenon DEF w
<1> QED
  BY <1>2, <1>3, <1>4, <1>5, Zenon DEF Looks, Took
-----------------------------------------------------------------------------
(* Between the headers of a part and the end of the delimiter that follows *)
(* it: j bytes were written, the m after them are held back.               *)
Sent(part) == part.content \o Delimiter
HeldBack(p, part, files, k, j, m) ==
  /\ j \in Nat /\ m \in 0 .. Len(Delimiter) - 1 /\ j <= Len(part.content)
  /\ Holding(p, m) /\ Written(p, part, files, k, j)
  /\ \A i \in 1 .. m : Sent(part)[j + i] = Delimiter[i]
Within(p, part, files, k, n) ==
  \E j \in Nat, m \in Nat : n = j + m /\ HeldBack(p, part, files, k, j, m)

(* The content does not have the delimiter before the one that follows.    *)
Plain(part) ==
  ~ Occurs(Delimiter, SubSeq(Sent(part), 1, Len(part.content) + Len(Delimiter) - 1))

LEMMA SentIs ==
  ASSUME NEW part, part.content \in Seq(Bytes)
  PROVE  /\ Sent(part) \in Seq(Bytes) /\ Len(Sent(part)) = Len(part.content) + Len(Delimiter)
         /\ \A i \in 1 .. Len(part.content) : Sent(part)[i] = part.content[i]
         /\ \A i \in 1 .. Len(Delimiter) : Sent(part)[Len(part.content) + i] = Delimiter[i]
<1> DEFINE c == part.content
<1>1. c \in Seq(Bytes) /\ Delimiter \in Seq(Bytes) /\ Len(c) \in Nat /\ Len(Delimiter) \in Nat
  BY DelimiterIs
<1> HIDE DEF c
<1> DEFINE t == c \o Delimiter
<1>2. /\ t \in Seq(Bytes) /\ Len(t) = Len(c) + Len(Delimiter)
      /\ \A i \in 1 .. Len(c) + Len(Delimiter) :
           t[i] = IF i <= Len(c) THEN c[i] ELSE Delimiter[i - Len(c)]
  BY <1>1, ConcatProperties, Zenon
<1>3. Sent(part) = t
  BY DEF Sent, c
<1> HIDE DEF t
<1>4. /\ \A i \in 1 .. Len(c) : t[i] = c[i]
      /\ \A i \in 1 .. Len(Delimiter) : t[Len(c) + i] = Delimiter[i]
  BY <1>1, <1>2, SMTT(30)
<1> QED
  BY <1>2, <1>3, <1>4 DEF c

(* A Cr begins the delimiter and is nowhere else in it: past the end of    *)
(* the content, what is held back begins where the content ends.           *)
LEMMA HeldFromTheEnd ==
  ASSUME NEW part, NEW files, NEW k, part.content \in Seq(Bytes), NEW p,
         NEW j, NEW m, HeldBack(p, part, files, k, j, m), Len(part.content) < j + m
  PROVE  j = Len(part.content)
<1> DEFINE L == Len(part.content)
           i == L + 1 - j
<1>1. /\ L \in Nat /\ j \in Nat /\ m \in 0 .. Len(Delimiter) - 1 /\ j <= L /\ L < j + m
      /\ \A h \in 1 .. m : Sent(part)[j + h] = Delimiter[h]
  BY DEF HeldBack
<1>2. Len(Delimiter) \in Nat /\ Delimiter[1] = Cr /\ 1 \in 1 .. Len(Delimiter)
      /\ \A h \in 2 .. Len(Delimiter) : Delimiter[h] # Cr
  BY DelimiterIs
<1>3. Sent(part)[L + 1] = Delimiter[1]
  BY <1>2, SentIs
<1> SUFFICES ASSUME j # L
             PROVE  FALSE
  OBVIOUS
<1> HIDE DEF L
<1>4. i \in 1 .. m /\ j + i = L + 1 /\ i \in 2 .. Len(Delimiter)
  BY <1>1, <1>2
<1> HIDE DEF i
<1>5. Sent(part)[j + i] = Delimiter[i] /\ Delimiter[i] # Cr
  BY <1>1, <1>2, <1>4
<1> QED
  BY <1>2, <1>3, <1>4, <1>5

(* The delimiter is not complete before the end of the one that follows.   *)
LEMMA NotYetComplete ==
  ASSUME NEW part, NEW files, NEW k, part.content \in Seq(Bytes), Plain(part), NEW p,
         NEW j, NEW m, HeldBack(p, part, files, k, j, m),
         m + 1 = Len(Delimiter), Sent(part)[j + m + 1] = Delimiter[m + 1]
  PROVE  j = Len(part.content)
<1> DEFINE L == Len(part.content)
           D == Len(Delimiter)
           u == SubSeq(Sent(part), 1, L + D - 1)
           v == SubSeq(u, j + 1, j + 1 + D - 1)
<1>1. /\ L \in Nat /\ j \in Nat /\ m \in Nat /\ j <= L
      /\ \A h \in 1 .. m : Sent(part)[j + h] = Delimiter[h]
  <2>1. L \in Nat
    OBVIOUS
  <2>2. /\ j \in Nat /\ m \in 0 .. Len(Delimiter) - 1 /\ j <= L
        /\ \A h \in 1 .. m : Sent(part)[j + h] = Delimiter[h]
    BY Zenon DEF HeldBack
  <2>3. m \in Nat
    BY <2>2, DelimiterIs
  <2> QED
    BY <2>1, <2>2, <2>3, Zenon
<1>2. D \in Nat \ {0} /\ Delimiter \in Seq(Bytes)
  BY DelimiterIs
<1>3. Sent(part) \in Seq(Bytes) /\ Len(Sent(part)) = L + D
  BY SentIs
<1>4. \A i \in 1 .. (Len(u) + 1 - D) : SubSeq(u, i, i + D - 1) # Delimiter
  BY DEF Plain, Occurs
<1> SUFFICES ASSUME j # L
             PROVE  FALSE
  OBVIOUS
<1>5. m + 1 = D
  OBVIOUS
<1> HIDE DEF L, D
<1>6. u \in Seq(Bytes) /\ Len(u) = L + D - 1 /\ \A i \in 1 .. L + D - 1 : u[i] = Sent(part)[i]
  BY <1>1, <1>2, <1>3
<1> HIDE DEF u
<1>7. j + 1 \in 1 .. (Len(u) + 1 - D) /\ j + 1 <= L
  BY <1>1, <1>2, <1>6
<1>8. v # Delimiter
  BY <1>4, <1>7
<1>9. v \in Seq(Bytes) /\ Len(v) = D /\ \A i \in 1 .. D : v[i] = u[j + i]
  BY <1>1, <1>2, <1>6, <1>7
<1> HIDE DEF v
<1>10. ASSUME NEW i \in 1 .. D
       PROVE  v[i] = Delimiter[i]
  <2>1. j + i \in 1 .. L + D - 1
    BY <1>1, <1>2, <1>7
  <2>2. v[i] = Sent(part)[j + i]
    BY <1>6, <1>9, <2>1
  <2>3. i \in 1 .. m \/ (i = m + 1 /\ j + i = j + m + 1)
    BY <1>1, <1>2, <1>5
  <2> QED
    BY <1>1, <2>2, <2>3
<1> QED
  BY <1>2, <1>8, <1>9, <1>10, SeqEqual DEF D
-----------------------------------------------------------------------------
(* One more byte of the content or of the delimiter that follows.          *)
Stepped(p, q, part, files, k, n) ==
  Within(q, part, files, k, n + 1) /\ q.parsed = p.parsed /\ q.params = p.params
LEMMA StepHeld ==
  ASSUME NEW part, NEW files, NEW k, ComesNext(part, files, k), Plain(part), NEW p,
         NEW j, NEW m, HeldBack(p, part, files, k, j, m), NEW length,
         NEW n, n = j + m, n + 1 < Len(Sent(part)),
         NEW q, q = Parse(p, Sent(part)[n + 1], FALSE, length)
  PROVE  Stepped(p, q, part, files, k, n)
<1> DEFINE b == Sent(part)[n + 1]
           L == Len(part.content)
           D == Len(Delimiter)
           t == Sent(part)
           Good == Within(q, part, files, k, n + 1) /\ q.parsed = p.parsed /\ q.params = p.params
<1>1. /\ part.content \in Seq(Bytes) /\ L \in Nat
  BY DEF ComesNext
<1>2. /\ j \in Nat /\ m \in 0 .. D - 1 /\ j <= L /\ Holding(p, m)
      /\ Written(p, part, files, k, j) /\ \A i \in 1 .. m : t[j + i] = Delimiter[i]
  BY DEF HeldBack
<1>3. D \in Nat /\ 4 < D /\ Delimiter[1] = Cr
  BY DelimiterIs
<1>4. /\ Len(t) = L + D /\ \A i \in 1 .. L : t[i] = part.content[i]
      /\ \A i \in 1 .. D : t[L + i] = Delimiter[i]
  BY <1>1, SentIs
<1>5. L < j + m => j = L
  BY <1>1, HeldFromTheEnd
<1>6. m + 1 = D /\ b = Delimiter[m + 1] => j = L
  BY <1>1, NotYetComplete
<1>7. p \in Parsers
  BY <1>2 DEF Written
<1>8. HeldByte(p, m, b, q)
  BY <1>2, <1>7, ParseHeld
<1>9. n = j + m /\ n + 1 < L + D /\ m \in Nat /\ n \in Nat
  BY <1>2, <1>3, <1>4
<1>10. n + 1 <= L => b = part.content[n + 1]
  <2> HIDE DEF L, D
  <2>1. n + 1 <= L => n + 1 \in 1 .. L
    BY <1>1, <1>9
  <2> QED
    BY <1>4, <2>1
<1>11. L < n => j = L /\ b = Delimiter[m + 1]
  <2> HIDE DEF L, D, t
  <2>1. L < n => m + 1 \in 1 .. D /\ L + (m + 1) = n + 1 /\ j = L
    BY <1>1, <1>2, <1>3, <1>5, <1>9
  <2> QED
    BY <1>4, <2>1 DEF t
<1>12. n = L => b = Cr
  <2> HIDE DEF L, D
  <2>1. 1 \in 1 .. D
    BY <1>3
  <2> QED
    BY <1>3, <1>4, <2>1
<1>13. ~ (b = Delimiter[m + 1] /\ m + 1 = D)
  <2> HIDE DEF b
  <2>1. ASSUME m + 1 = D, j = L
        PROVE  FALSE
    <3> HIDE DEF L, D
    <3> QED
      BY <1>1, <1>3, <1>9, <2>1
  <2> QED
    BY <1>6, <2>1
<1> HIDE DEF L, D, t
<1>14. ASSUME b = Delimiter[m + 1]
       PROVE  Good
  <2>1. ~ (m + 1 = D) /\ m + 1 < D /\ m + 1 \in 0 .. D - 1
    <3>1. ~ (m + 1 = D)
      BY <1>13, <1>14
    <3> QED
      BY <1>2, <1>3, <3>1
  <2>2. HeldOn(p, m, q)
    BY <1>8, <1>14, <2>1, Zenon DEF HeldByte, D
  <2>3. Looks(p, q) /\ Holding(q, m + 1) /\ q.parsed = p.parsed
    BY <2>2 DEF HeldOn
  <2>4. Written(q, part, files, k, j)
    BY <1>2, <2>3, LooksWritten
  <2>5. \A i \in 1 .. m + 1 : t[j + i] = Delimiter[i]
    <3> TAKE i \in 1 .. m + 1
    <3>1. i \in 1 .. m \/ (i = m + 1 /\ j + i = n + 1)
      BY <1>2, <1>9
    <3> QED
      BY <1>2, <1>14, <3>1 DEF t
  <2>6. HeldBack(q, part, files, k, j, m + 1)
    BY <1>2, <2>1, <2>3, <2>4, <2>5, Zenon DEF HeldBack, L, D, t
  <2>7. n + 1 = j + (m + 1) /\ m + 1 \in Nat
    BY <1>2, <1>9
  <2> QED
    BY <1>2, <2>3, <2>6, <2>7, Zenon DEF Within, Looks
<1>15. ASSUME b # Delimiter[m + 1]
       PROVE  Good
  <2> DEFINE r == Dropped(p, m)
  <2>1. q = InContent(r, b, FALSE)
    BY <1>8, <1>15, Zenon DEF HeldByte
  <2>2. n <= L
    BY <1>1, <1>9, <1>11, <1>15
  <2>3. j + m <= L /\ m \in 0 .. D
    BY <1>2, <1>3, <1>9, <2>2
  <2>4. \A i \in 1 .. m : Delimiter[i] = part.content[j + i]
    <3> TAKE i \in 1 .. m
    <3>1. j + i \in 1 .. L
      BY <1>1, <1>2, <2>3
    <3>2. t[j + i] = part.content[j + i]
      BY <1>4, <3>1
    <3> QED
      BY <1>2, <3>2
  <2>5. /\ Written(r, part, files, k, n) /\ r.parsed = p.parsed /\ r.params = p.params
    BY <1>2, <1>9, <2>3, <2>4, DroppedIs DEF L, D
  <2> HIDE DEF r
  <2>6. CASE b = Cr
    <3>1. Written(q, part, files, k, n) /\ Holding(q, 1) /\ q.parsed = p.parsed /\ q.params = p.params
      <4> HIDE DEF b
      <4>1. q = InContent(r, Cr, FALSE)
        BY <2>1, <2>6
      <4> DEFINE s == InContent(r, Cr, FALSE)
      <4>2. Took(r, s, part, files, k, n, 1)
        BY <2>5, ContentCr
      <4> HIDE DEF s
      <4>3. q = s
        BY <4>1 DEF s
      <4> QED
        BY <2>5, <4>2, <4>3, Zenon DEF Took
    <3>2. \A i \in 1 .. 1 : t[n + i] = Delimiter[i]
      <4>1. \A i \in 1 .. 1 : i = 1
        OBVIOUS
      <4> QED
        BY <1>3, <2>6, <4>1 DEF t
    <3>3. 1 \in 0 .. D - 1 /\ n \in Nat /\ 1 \in Nat
      BY <1>3, <1>9
    <3>4. HeldBack(q, part, files, k, n, 1)
      BY <2>2, <3>1, <3>2, <3>3, Zenon DEF HeldBack, L, D, t
    <3> QED
      BY <3>1, <3>3, <3>4, Zenon DEF Within
  <2>7. CASE b # Cr
    <3>0. n < L
      BY <1>1, <1>9, <1>12, <2>2, <2>7
    <3>1. b = part.content[n + 1]
      BY <1>1, <1>9, <1>10, <3>0
    <3>2. Written(q, part, files, k, n + 1) /\ Holding(q, 0) /\ q.parsed = p.parsed /\ q.params = p.params
      <4> HIDE DEF b
      <4> DEFINE s == InContent(r, b, FALSE)
      <4>1. Took(r, s, part, files, k, n + 1, 0)
        BY <1>9, <2>5, <2>7, <3>0, <3>1, ContentByte DEF L
      <4> HIDE DEF s
      <4>2. q = s
        BY <2>1 DEF s
      <4> QED
        BY <2>5, <4>1, <4>2, Zenon DEF Took
    <3>3. \A i \in 1 .. 0 : t[n + 1 + i] = Delimiter[i]
      OBVIOUS
    <3>4. 0 \in 0 .. D - 1 /\ n + 1 \in Nat /\ 0 \in Nat /\ n + 1 <= L /\ n + 1 = n + 1 + 0
      BY <1>1, <1>3, <1>9, <3>0
    <3>5. HeldBack(q, part, files, k, n + 1, 0)
      BY <3>2, <3>3, <3>4, Zenon DEF HeldBack, L, D, t
    <3> QED
      BY <3>2, <3>4, <3>5, Zenon DEF Within
  <2> QED
    BY <2>6, <2>7
<1>16. Good
  BY <1>14, <1>15
<1> QED
  BY <1>16, Zenon DEF Stepped

(* The last byte of the delimiter: all of the content was written.         *)
LEMMA LastHeld ==
  ASSUME NEW part, NEW files, NEW k, ComesNext(part, files, k), NEW p,
         NEW j, NEW m, HeldBack(p, part, files, k, j, m), NEW length,
         NEW n, n = j + m, n + 1 = Len(Sent(part)),
         NEW q, q = Parse(p, Sent(part)[n + 1], FALSE, length)
  PROVE  q = EndPart(p) /\ Written(p, part, files, k, Len(part.content))
<1> DEFINE b == Sent(part)[n + 1]
           L == Len(part.content)
           D == Len(Delimiter)
<1>1. /\ part.content \in Seq(Bytes) /\ L \in Nat
  BY DEF ComesNext
<1>2. j \in Nat /\ m \in 0 .. D - 1 /\ Holding(p, m) /\ Written(p, part, files, k, j)
  BY DEF HeldBack
<1>3. D \in Nat /\ 4 < D
  BY DelimiterIs
<1>4. Len(Sent(part)) = L + D /\ \A i \in 1 .. D : Sent(part)[L + i] = Delimiter[i]
  BY <1>1, SentIs
<1>5. L < j + m => j = L
  BY <1>1, HeldFromTheEnd
<1>6. p \in Parsers
  BY <1>2 DEF Written
<1>7. HeldByte(p, m, b, q)
  BY <1>2, <1>6, ParseHeld
<1>8. n + 1 = L + D
  BY <1>4
<1> HIDE DEF L
<1>9. j = L /\ m + 1 = D /\ n + 1 = L + (m + 1) /\ m + 1 \in 1 .. D
  <2> HIDE DEF D
  <2> QED
    BY <1>1, <1>2, <1>3, <1>5, <1>8
<1>10. b = Delimiter[m + 1]
  BY <1>4, <1>9
<1>11. q = EndPart(p)
  BY <1>7, <1>9, <1>10, Zenon DEF HeldByte
<1> QED
  BY <1>2, <1>9, <1>11 DEF L
-----------------------------------------------------------------------------
(* The end of a part: a field is given to the request, the rest of a file  *)
(* is handed on, an empty file is not reported.                            *)
HandsOn(part) == part.name \in FileNames /\ part.content # <<>>
FilesAfter(part, k) == IF HandsOn(part) THEN k + 1 ELSE k
Given(part) == [name |-> part.name, value |-> part.content]
GivenAfter(part, given) == IF part.name \in FieldNames THEN Append(given, Given(part)) ELSE given
Ended(p, q, part, files, k) ==
  /\ q \in Parsers /\ q.state = "DASH3_OR_RETURN2" /\ q.parsed = p.parsed
  /\ Told(q.calls, files, FilesAfter(part, k), 0)
  /\ FieldsOf(q.params) = GivenAfter(part, FieldsOf(p.params))

LEMMA ParamAdded ==
  ASSUME NEW params \in Seq(BodyParams), NEW x \in BodyParams
  PROVE  /\ Append(params, x) \in Seq(BodyParams)
         /\ x.name \in FieldNames => FieldsOf(Append(params, x)) = Append(FieldsOf(params), x)
         /\ x.name \notin FieldNames => FieldsOf(Append(params, x)) = FieldsOf(params)
<1> SUFFICES ASSUME NEW S, S = [name : FieldNames, value : Seq(Bytes)]
             PROVE  /\ Append(params, x) \in Seq(BodyParams)
                    /\ x.name \in FieldNames => FieldsOf(Append(params, x)) = Append(FieldsOf(params), x)
                    /\ x.name \notin FieldNames => FieldsOf(Append(params, x)) = FieldsOf(params)
  OBVIOUS
<1>1. x.name \in FieldNames <=> x \in S
  BY DEF BodyParams
<1>0. params \in Seq(BodyParams) /\ x \in BodyParams
  OBVIOUS
<1>2. MoreChosen(params, x, S)
  BY <1>0, ChosenOfAppend
<1>3. \A l : FieldsOf(l) = Chosen(l, S)
  BY DEF FieldsOf
<1>4. Append(params, x) \in Seq(BodyParams)
  OBVIOUS
<1> QED
  BY <1>1, <1>2, <1>3, <1>4, Zenon DEF MoreChosen

LEMMA NamesApart ==
  /\ \A x \in FileNames : x \notin FieldNames
  /\ FileNames \subseteq PartNames /\ FieldNames \subseteq PartNames
  BY DEF FileNames, FieldNames, PartNames

LEMMA EndPartIs ==
  ASSUME NEW part, part.name \in FieldNames \cup FileNames,
         NEW files, NEW k, ComesNext(part, files, k), NEW p,
         Written(p, part, files, k, Len(part.content)), NEW q, q = EndPart(p)
  PROVE  Ended(p, q, part, files, k)
<1> DEFINE L == Len(part.content)
           content == part.content
           s == "DASH3_OR_RETURN2"
           q1 == Turned(p, s)
<1>1. /\ content \in Seq(Bytes) /\ L = Len(content) /\ L \in Nat /\ (content = <<>> <=> L = 0)
      /\ files \in Seq(FileParts) /\ k \in Nat /\ Len(files) \in Nat
      /\ HandsOn(part) => k + 1 <= Len(files) /\ files[k + 1] = part
  BY DEF ComesNext, HandsOn
<1>2. /\ p \in Parsers /\ (p.isFile <=> part.name \in FileNames) /\ p.size = L
      /\ p.isFile => WrittenOfFile(p, part, files, k, L)
      /\ ~ p.isFile => WrittenOfField(p, part, files, k, L)
      /\ p.isFile \in BOOLEAN
  <2>1. p \in Parsers
    BY DEF Written
  <2>2. p.isFile \in BOOLEAN
    BY <2>1 DEF Parsers
  <2> QED
    BY <2>1, <2>2, Zenon DEF Written
<1>3. s \in ParserStates
  BY DEF ParserStates
<1>4. q = IF ~ p.isFile THEN [q1 EXCEPT !.params = Append(@, [name |-> p.name, value |-> p.value])]
          ELSE IF p.size = 0 THEN q1
          ELSE [CallBack(q1, TRUE) EXCEPT !.params = Append(@, [name |-> p.filename, value |-> <<>>])]
  BY DEF EndPart, Turned
<1> HIDE DEF s
<1>5. Looks(p, q1) /\ q1.state = s /\ q1.parsed = p.parsed
  BY <1>2, <1>3, StateSet
<1> HIDE DEF q1, L, content
<1>6. q1 \in Parsers /\ q1.params = p.params /\ q1.calls = p.calls /\ q1.buffer = p.buffer
      /\ q1.size = p.size /\ q1.filename = p.filename
  BY <1>5 DEF Looks
<1>7. ASSUME ~ p.isFile
      PROVE  Ended(p, q, part, files, k)
  <2> DEFINE x == [name |-> p.name, value |-> p.value]
             params == Append(q1.params, x)
  <2>1. p.name = part.name /\ p.value = SubSeq(content, 1, L) /\ Told(p.calls, files, k, 0)
    BY <1>2, <1>7 DEF WrittenOfField, content
  <2>2. p.value = content
    <3>1. SubSeq(content, 1, L) = content
      BY <1>1
    <3> QED
      BY <2>1, <3>1
  <2>3. x = Given(part)
    BY <2>1, <2>2 DEF Given, content
  <2>4. part.name \notin FileNames /\ part.name \in FieldNames
    BY <1>2, <1>7
  <2>5. x \in BodyParams /\ x.name \in FieldNames
    <3>1. p.name \in PartNames /\ p.value \in Seq(Bytes)
      BY <1>2 DEF Parsers
    <3> QED
      BY <2>1, <2>4, <3>1 DEF BodyParams
  <2>6. q = [q1 EXCEPT !.params = params]
    BY <1>4, <1>7
  <2> HIDE DEF x
  <2>7. p.params \in Seq(BodyParams) /\ q1.params = p.params
    BY <1>2, <1>6 DEF Parsers
  <2>8. params \in Seq(BodyParams) /\ FieldsOf(params) = Append(FieldsOf(p.params), x)
    BY <2>5, <2>7, ParamAdded
  <2> HIDE DEF params
  <2>9. q \in Parsers /\ q.state = q1.state /\ q.parsed = q1.parsed /\ q.calls = q1.calls /\ q.params = params
    BY <1>6, <2>6, <2>8 DEF Parsers
  <2>10. FilesAfter(part, k) = k /\ FieldsOf(q.params) = GivenAfter(part, FieldsOf(p.params))
    BY <2>3, <2>4, <2>8, <2>9 DEF FilesAfter, HandsOn, GivenAfter
  <2> QED
    BY <1>5, <1>6, <2>1, <2>9, <2>10 DEF Ended, s
<1>8. ASSUME p.isFile
      PROVE  Ended(p, q, part, files, k)
  <2>0. p.filename = part.name /\ part.name \in FileNames /\ part.name \notin FieldNames
    BY <1>2, <1>8, NamesApart DEF WrittenOfFile
  <2> PICK at \in Nat : HandedOn(p, part, files, k, at, L)
    BY <1>2, <1>8 DEF WrittenOfFile
  <2>1. /\ at <= L /\ p.buffer = SubSeq(content, at + 1, L) /\ Len(p.buffer) = L - at
        /\ Told(p.calls, files, k, at)
    BY DEF HandedOn, content
  <2>2. GivenAfter(part, FieldsOf(p.params)) = FieldsOf(p.params)
    BY <2>0 DEF GivenAfter
  <2>3. ASSUME p.size = 0
        PROVE  Ended(p, q, part, files, k)
    <3>1. q = q1
      BY <1>4, <1>8, <2>3
    <3>2. at = 0 /\ content = <<>>
      BY <1>1, <1>2, <2>1, <2>3
    <3>3. FilesAfter(part, k) = k
      BY <3>2 DEF FilesAfter, HandsOn, content
    <3> QED
      BY <1>5, <1>6, <2>1, <2>2, <3>1, <3>2, <3>3 DEF Ended, s
  <2>4. ASSUME p.size # 0
        PROVE  Ended(p, q, part, files, k)
    <3> DEFINE c == [filename |-> q1.filename, index |-> q1.size - Len(q1.buffer),
                     data |-> q1.buffer, final |-> TRUE]
               calls == Append(q1.calls, c)
               q2 == [q1 EXCEPT !.calls = calls]
               q3 == [q2 EXCEPT !.buffer = <<>>]
               x == [name |-> p.filename, value |-> <<>>]
               params == Append(q3.params, x)
    <3>1. q = [q3 EXCEPT !.params = params]
      BY <1>4, <1>8, <2>4 DEF CallBack
    <3>2. content # <<>> /\ HandsOn(part) /\ k + 1 <= Len(files) /\ files[k + 1] = part
      BY <1>1, <1>2, <2>0, <2>4 DEF HandsOn, content
    <3>3. c.filename = part.name /\ c.index = at /\ c.data = p.buffer /\ c.final = TRUE
      <4>1. q1.size - Len(q1.buffer) = at
        BY <1>1, <1>2, <1>6, <2>1
      <4> QED
        BY <1>6, <2>0, <4>1
    <3>4. c \in UploadCalls
      <4>1. p.filename \in PartNames /\ p.buffer \in Seq(Bytes)
        BY <1>2 DEF Parsers
      <4> QED
        BY <1>6, <3>3, <4>1 DEF UploadCalls
    <3> HIDE DEF c
    <3>5. Told(Append(p.calls, c), files, IF c.final THEN k + 1 ELSE k,
               IF c.final THEN 0 ELSE at + Len(c.data))
      <4> DEFINE end == at + Len(c.data)
      <4>1. end = L /\ files[k + 1].content = content /\ files[k + 1].name = part.name
        BY <1>1, <2>1, <3>2, <3>3 DEF content
      <4> HIDE DEF end
      <4>2. /\ Len(files[k + 1].content) \in Nat /\ end <= Len(files[k + 1].content)
            /\ c.data = SubSeq(files[k + 1].content, at + 1, end)
            /\ c.final => end = Len(files[k + 1].content)
        BY <1>1, <2>1, <3>3, <4>1
      <4> QED
        BY <1>1, <2>1, <3>2, <3>3, <3>4, <4>1, <4>2, CallAdded DEF end
    <3>6. Told(calls, files, k + 1, 0)
      <4>1. (IF c.final THEN k + 1 ELSE k) = k + 1 /\ (IF c.final THEN 0 ELSE at + Len(c.data)) = 0
        BY <3>3
      <4> QED
        BY <1>6, <3>5, <4>1
    <3>7. calls \in Seq(UploadCalls) /\ <<>> \in Seq(Bytes)
      BY <3>6 DEF Told
    <3> HIDE DEF calls
    <3>8. q2 \in Parsers /\ q2.state = q1.state /\ q2.parsed = q1.parsed /\ q2.calls = calls
          /\ q2.params = q1.params
      BY <1>6, <3>7 DEF Parsers
    <3> HIDE DEF q2
    <3>9. q3 \in Parsers /\ q3.state = q2.state /\ q3.parsed = q2.parsed /\ q3.calls = q2.calls
          /\ q3.params = q2.params
      BY <3>7, <3>8 DEF Parsers
    <3> HIDE DEF q3
    <3>10. x \in BodyParams /\ x.name \notin FieldNames
      <4>1. p.filename \in PartNames
        BY <1>2 DEF Parsers
      <4> QED
        BY <2>0, <3>7, <4>1 DEF BodyParams
    <3> HIDE DEF x
    <3>11. p.params \in Seq(BodyParams) /\ q3.params = p.params
      BY <1>2, <1>6, <3>8, <3>9 DEF Parsers
    <3>12. params \in Seq(BodyParams) /\ FieldsOf(params) = FieldsOf(p.params)
      BY <3>10, <3>11, ParamAdded
    <3> HIDE DEF params
    <3>13. q \in Parsers /\ q.state = q3.state /\ q.parsed = q3.parsed /\ q.calls = q3.calls
           /\ q.params = params
      BY <3>1, <3>9, <3>12 DEF Parsers
    <3>14. FilesAfter(part, k) = k + 1
      BY <3>2 DEF FilesAfter
    <3> QED
      BY <1>5, <2>2, <3>6, <3>8, <3>9, <3>12, <3>13, <3>14 DEF Ended, s
  <2> QED
    BY <2>3, <2>4
<1> QED
  BY <1>7, <1>8
-----------------------------------------------------------------------------
(* A whole body: what is read after its first n bytes.                     *)
AllParts == [name : FieldNames \cup FileNames, content : Seq(Bytes)]
Wire == Bytes \cup FieldNames \cup FileNames \cup {TypeLine, Blank}
LineEnd == <<Cr, Lf>>
Dashes == <<"-", "-">>
Reads(body, n, text) ==
  /\ n \in Nat /\ n + Len(text) <= Len(body)
  /\ \A i \in 1 .. Len(text) : body[n + i] = text[i]

Extended(s, t, u) ==
  /\ u \in Seq(Wire) /\ Len(u) = Len(s) + Len(t) /\ Reads(u, Len(s), t)
  /\ \A n \in Nat : \A text \in Seq(Wire) : Reads(s, n, text) => Reads(u, n, text)
LEMMA ReadsConcat ==
  ASSUME NEW s \in Seq(Wire), NEW t \in Seq(Wire)
  PROVE  Extended(s, t, s \o t)
<1> DEFINE u == s \o t
<1>1. /\ u \in Seq(Wire) /\ Len(u) = Len(s) + Len(t)
      /\ \A i \in 1 .. Len(s) + Len(t) : u[i] = IF i <= Len(s) THEN s[i] ELSE t[i - Len(s)]
  BY ConcatProperties, Zenon
<1>2. Len(s) \in Nat /\ Len(t) \in Nat
  OBVIOUS
<1> HIDE DEF u
<1>3. Reads(u, Len(s), t)
  <2>1. \A i \in 1 .. Len(t) : u[Len(s) + i] = t[i]
    BY <1>1, <1>2
  <2> QED
    BY <1>1, <1>2, <2>1 DEF Reads
<1>4. ASSUME NEW n \in Nat, NEW text \in Seq(Wire), Reads(s, n, text)
      PROVE  Reads(u, n, text)
  <2>1. Len(text) \in Nat /\ n + Len(text) <= Len(s)
        /\ \A i \in 1 .. Len(text) : s[n + i] = text[i]
    BY <1>4 DEF Reads
  <2>2. \A i \in 1 .. Len(text) : u[n + i] = text[i]
    <3> TAKE i \in 1 .. Len(text)
    <3>1. n + i \in 1 .. Len(s) + Len(t) /\ n + i <= Len(s)
      BY <1>2, <2>1
    <3> QED
      BY <1>1, <2>1, <3>1
  <2>3. n + Len(text) <= Len(u)
    BY <1>1, <1>2, <2>1
  <2> QED
    BY <2>2, <2>3 DEF Reads
<1> QED
  BY <1>1, <1>3, <1>4, Zenon DEF u, Extended

LEMMA ReadsInside ==
  ASSUME NEW body, NEW s, NEW t, Len(t) \in Nat, Len(s) \in Nat, NEW n \in Nat, NEW i \in Nat,
         Len(body) \in Nat, Reads(body, n, s), Reads(s, i, t)
  PROVE  Reads(body, n + i, t)
<1>1. /\ n + Len(s) <= Len(body) /\ \A h \in 1 .. Len(s) : body[n + h] = s[h]
      /\ i + Len(t) <= Len(s) /\ \A h \in 1 .. Len(t) : s[i + h] = t[h]
  BY DEF Reads
<1>2. \A h \in 1 .. Len(t) : body[n + i + h] = t[h]
  <2> TAKE h \in 1 .. Len(t)
  <2>1. i + h \in 1 .. Len(s) /\ n + (i + h) = n + i + h
    BY <1>1
  <2> QED
    BY <1>1, <2>1
<1> QED
  BY <1>1, <1>2 DEF Reads

LEMMA ReadsItself ==
  ASSUME NEW s \in Seq(Wire)
  PROVE  Reads(s, 0, s)
<1>1. Len(s) \in Nat /\ \A i \in 1 .. Len(s) : 0 + i = i
  OBVIOUS
<1> QED
  BY <1>1 DEF Reads

LEMMA Texts ==
  /\ Boundary \in Seq(Wire) /\ LineEnd \in Seq(Wire) /\ Dashes \in Seq(Wire)
  /\ Len(LineEnd) = 2 /\ LineEnd[1] = Cr /\ LineEnd[2] = Lf
  /\ Len(Dashes) = 2 /\ Dashes[1] = "-" /\ Dashes[2] = "-"
  /\ \A part \in AllParts : /\ Headers(part) \in Seq(Wire) /\ part.content \in Seq(Wire)
                            /\ Len(Headers(part)) \in Nat /\ Len(part.content) \in Nat
<1>1. Boundary \in Seq(Bytes) /\ Bytes \subseteq Wire
  BY DelimiterIs DEF Wire
<1>2. Cr \in Wire /\ Lf \in Wire /\ "-" \in Wire /\ TypeLine \in Wire /\ Blank \in Wire
  BY DEF Wire, Bytes
<1>3. LineEnd \in Seq(Wire) /\ Len(LineEnd) = 2 /\ LineEnd[1] = Cr /\ LineEnd[2] = Lf
  BY <1>2 DEF LineEnd
<1>4. Dashes \in Seq(Wire) /\ Len(Dashes) = 2 /\ Dashes[1] = "-" /\ Dashes[2] = "-"
  BY <1>2 DEF Dashes
<1>5. ASSUME NEW part \in AllParts
      PROVE  /\ Headers(part) \in Seq(Wire) /\ part.content \in Seq(Wire)
             /\ Len(Headers(part)) \in Nat /\ Len(part.content) \in Nat
  <2>1. part.name \in FieldNames \cup FileNames /\ part.content \in Seq(Bytes)
    BY DEF AllParts
  <2>2. part.name \in Wire
    BY <2>1 DEF Wire
  <2>3. <<part.name, TypeLine, Blank>> \in Seq(Wire) /\ <<part.name, Blank>> \in Seq(Wire)
    BY <1>2, <2>2
  <2>4. Headers(part) \in Seq(Wire)
    BY <2>3, Zenon DEF Headers
  <2> QED
    BY <1>1, <2>1, <2>4
<1> QED
  BY <1>1, <1>3, <1>4, <1>5

(* What a part is made of.                                                 *)
LEMMA EncodedIs ==
  ASSUME NEW part \in AllParts
  PROVE  LET e == Encoded(part)
             line == 2 + Len(Boundary)
             heads == line + 2
             data == heads + Len(Headers(part))
             end == data + Len(part.content)
         IN  /\ e \in Seq(Wire) /\ Len(e) = end + 2
             /\ Reads(e, 0, Dashes) /\ Reads(e, 2, Boundary) /\ Reads(e, line, LineEnd)
             /\ Reads(e, heads, Headers(part)) /\ Reads(e, data, part.content)
             /\ Reads(e, end, LineEnd)
<1> DEFINE B == Len(Boundary)
           h == Headers(part)
           c == part.content
           s1 == Dashes \o Boundary
           s2 == s1 \o LineEnd
           s3 == s2 \o h
           s4 == s3 \o c
           e == s4 \o LineEnd
<1>1. Encoded(part) = e
  BY DEF Encoded, Dashes, LineEnd
<1>2. /\ Boundary \in Seq(Wire) /\ LineEnd \in Seq(Wire) /\ Dashes \in Seq(Wire)
      /\ h \in Seq(Wire) /\ c \in Seq(Wire) /\ Len(LineEnd) = 2 /\ Len(Dashes) = 2
      /\ B \in Nat /\ Len(h) \in Nat /\ Len(c) \in Nat
  BY Texts
<1> DEFINE heads == 2 + B + 2
           data == heads + Len(h)
           end == data + Len(c)
<1> HIDE DEF h, c, B, e
<1>0. /\ 0 \in Nat /\ 2 \in Nat /\ 2 + B \in Nat /\ heads \in Nat /\ data \in Nat
      /\ end \in Nat /\ 2 + B + 2 = heads
  BY <1>2
<1> HIDE DEF heads, data, end
<1>3. /\ s1 \in Seq(Wire) /\ Len(s1) = 2 + B /\ Reads(s1, 0, Dashes) /\ Reads(s1, 2, Boundary)
  <2>1. Extended(Dashes, Boundary, s1) /\ Reads(Dashes, 0, Dashes)
    BY <1>2, ReadsConcat, ReadsItself
  <2> QED
    BY <1>0, <1>2, <2>1, Zenon DEF Extended, B
<1> HIDE DEF s1
<1>4. /\ s2 \in Seq(Wire) /\ Len(s2) = heads /\ Reads(s2, 0, Dashes) /\ Reads(s2, 2, Boundary)
      /\ Reads(s2, 2 + B, LineEnd)
  <2>1. Extended(s1, LineEnd, s2)
    BY <1>2, <1>3, ReadsConcat
  <2> QED
    BY <1>0, <1>2, <1>3, <2>1, Zenon DEF Extended
<1> HIDE DEF s2
<1>5. /\ s3 \in Seq(Wire) /\ Len(s3) = data
      /\ Reads(s3, 0, Dashes) /\ Reads(s3, 2, Boundary)
      /\ Reads(s3, 2 + B, LineEnd) /\ Reads(s3, heads, h)
  <2>1. Extended(s2, h, s3)
    BY <1>2, <1>4, ReadsConcat
  <2> QED
    BY <1>0, <1>2, <1>4, <2>1, Zenon DEF Extended, data
<1> HIDE DEF s3
<1>6. /\ s4 \in Seq(Wire) /\ Len(s4) = end
      /\ Reads(s4, 0, Dashes) /\ Reads(s4, 2, Boundary)
      /\ Reads(s4, 2 + B, LineEnd) /\ Reads(s4, heads, h) /\ Reads(s4, data, c)
  <2>1. Extended(s3, c, s4)
    BY <1>2, <1>5, ReadsConcat
  <2> QED
    BY <1>0, <1>2, <1>5, <2>1, Zenon DEF Extended, end
<1> HIDE DEF s4
<1>7. /\ e \in Seq(Wire) /\ Len(e) = end + 2
      /\ Reads(e, 0, Dashes) /\ Reads(e, 2, Boundary)
      /\ Reads(e, 2 + B, LineEnd) /\ Reads(e, heads, h) /\ Reads(e, data, c)
      /\ Reads(e, end, LineEnd)
  <2>1. Extended(s4, LineEnd, e)
    BY <1>2, <1>6, ReadsConcat DEF e
  <2> QED
    BY <1>0, <1>2, <1>6, <2>1, Zenon DEF Extended
<1> QED
  BY <1>1, <1>7, Zenon DEF h, c, B, heads, data, end
-----------------------------------------------------------------------------
(* Where the parts of a body begin.                                        *)
LastLine == <<"-", "-", Cr, Lf>>
Parted(body, parts, off) ==
  /\ off[0] = 0 /\ \A k \in 0 .. Len(parts) : off[k] \in Nat
  /\ \A k \in 1 .. Len(parts) : /\ off[k] = off[k - 1] + Len(Encoded(parts[k]))
                                /\ Reads(body, off[k - 1], Encoded(parts[k]))
Closed(body, n) ==
  /\ Reads(body, n, Dashes) /\ Reads(body, n + 2, Boundary)
  /\ Reads(body, n + 2 + Len(Boundary), LastLine) /\ Len(body) = n + 2 + Len(Boundary) + 4

LEMMA PartsJoined ==
  ASSUME NEW parts \in Seq(AllParts), NEW F,
         F[0] = <<>>, \A n \in 1 .. Len(parts) : F[n] = F[n - 1] \o Encoded(parts[n])
  PROVE  /\ F[Len(parts)] \in Seq(Wire)
         /\ \E off : Parted(F[Len(parts)], parts, off) /\ off[Len(parts)] = Len(F[Len(parts)])
<1> DEFINE N == Len(parts)
           E(n) == Encoded(parts[n])
           off == [k \in 0 .. N |-> Len(F[k])]
           Good == {n \in 0 .. N : F[n] \in Seq(Wire)}
<1>1. N \in Nat /\ \A n \in 1 .. N : parts[n] \in AllParts
  OBVIOUS
<1>2. \A n \in 1 .. N : Encoded(parts[n]) \in Seq(Wire)
  BY <1>1, EncodedIs
<1>3. F[0] = <<>> /\ \A n \in 1 .. N : F[n] = F[n - 1] \o Encoded(parts[n])
  OBVIOUS
<1> HIDE DEF N
<1>4. 0 .. N \subseteq Good
  <2>1. 0 \in Good
    <3>1. <<>> \in Seq(Wire) /\ 0 \in 0 .. N
      BY <1>1
    <3>2. F[0] \in Seq(Wire)
      BY <1>3, <3>1, Zenon
    <3> QED
      BY <3>1, <3>2
  <2>2. ASSUME NEW n \in 1 .. N, n - 1 \in Good
        PROVE  n \in Good
    <3>1. F[n - 1] \in Seq(Wire) /\ n \in 0 .. N
      BY <2>2
    <3>2. F[n - 1] \o Encoded(parts[n]) \in Seq(Wire)
      BY <1>2, <3>1
    <3> QED
      BY <1>3, <3>1, <3>2
  <2> HIDE DEF Good
  <2> QED
    BY <1>1, <2>1, <2>2, UpTo
<1>5. \A n \in 0 .. N : F[n] \in Seq(Wire) /\ Len(F[n]) \in Nat
  <2>1. \A n \in 0 .. N : F[n] \in Seq(Wire)
    BY <1>4
  <2> QED
    BY <2>1
<1>6. ASSUME NEW n \in 1 .. N
      PROVE  n - 1 \in 0 .. N /\ n \in 0 .. N /\ Extended(F[n - 1], Encoded(parts[n]), F[n])
  <2>1. n - 1 \in 0 .. N /\ n \in 0 .. N
    BY <1>1
  <2> DEFINE s == F[n - 1]
             t == Encoded(parts[n])
  <2>2. s \in Seq(Wire) /\ t \in Seq(Wire) /\ F[n] = s \o t
    BY <1>2, <1>3, <1>5, <2>1
  <2> HIDE DEF s, t
  <2>3. Extended(s, t, F[n])
    BY <2>2, ReadsConcat
  <2> QED
    BY <2>1, <2>3 DEF s, t
<1>7. ASSUME NEW k \in 1 .. N
      PROVE  Reads(F[N], Len(F[k - 1]), Encoded(parts[k]))
  <2> DEFINE text == Encoded(parts[k])
             at == Len(F[k - 1])
             Located == {n \in 0 .. N : n >= k => Reads(F[n], at, text)}
  <2>1. at \in Nat /\ text \in Seq(Wire) /\ Reads(F[k], at, text)
    BY <1>2, <1>5, <1>6 DEF Extended
  <2> HIDE DEF text, at
  <2>2. 0 \in Located
    BY <1>1
  <2>3. ASSUME NEW n \in 1 .. N, n - 1 \in Located
        PROVE  n \in Located
    <3>1. n \in 0 .. N /\ Extended(F[n - 1], Encoded(parts[n]), F[n])
      BY <1>6
    <3>2. n - 1 >= k => Reads(F[n - 1], at, text)
      BY <2>3
    <3>3. Reads(F[n - 1], at, text) => Reads(F[n], at, text)
      BY <2>1, <3>1, Zenon DEF Extended
    <3>4. n >= k => n = k \/ n - 1 >= k
      BY <1>1
    <3>5. n >= k => Reads(F[n], at, text)
      BY <2>1, <3>2, <3>3, <3>4, Zenon
    <3> QED
      BY <3>1, <3>5
  <2>4. 0 .. N \subseteq Located
    <3> HIDE DEF Located
    <3> QED
      BY <1>1, <2>2, <2>3, UpTo
  <2>5. N \in 0 .. N /\ N >= k
    BY <1>1
  <2> QED
    BY <2>4, <2>5 DEF text, at
<1>8. Parted(F[N], parts, off)
  <2>1. off[0] = 0
    <3>1. Len(<<>>) = 0 /\ 0 \in 0 .. N
      BY <1>1
    <3> QED
      BY <1>3, <3>1
  <2>2. ASSUME NEW k \in 0 .. N
        PROVE  off[k] \in Nat
    BY <1>5
  <2>3. ASSUME NEW k \in 1 .. N
        PROVE  off[k] = off[k - 1] + Len(Encoded(parts[k]))
               /\ Reads(F[N], off[k - 1], Encoded(parts[k]))
    <3>1. off[k - 1] = Len(F[k - 1]) /\ off[k] = Len(F[k])
      BY <1>6
    <3> HIDE DEF off
    <3> QED
      BY <1>6, <1>7, <3>1, Zenon DEF Extended
  <2> HIDE DEF off
  <2> QED
    BY <2>1, <2>2, <2>3, Zenon DEF Parted, N
<1>9. off[N] = Len(F[N]) /\ F[N] \in Seq(Wire)
  BY <1>1, <1>5
<1> HIDE DEF off
<1> QED
  BY <1>8, <1>9 DEF N

LEMMA EncodeIs ==
  ASSUME NEW parts \in Seq(AllParts)
  PROVE  /\ Encode(parts) \in Seq(Wire)
         /\ \E off : Parted(Encode(parts), parts, off) /\ Closed(Encode(parts), off[Len(parts)])
<1> DEFINE N == Len(parts)
           Step == [x \in (1 .. N) \X Seq(Wire) |-> x[2] \o Encoded(parts[x[1]])]
           Rec(f) == [n \in 0 .. N |-> IF n = 0 THEN <<>> ELSE f[n - 1] \o Encoded(parts[n])]
           F == CHOOSE f : f = Rec(f)
<1>0. N \in Nat /\ <<>> \in Seq(Wire) /\ \A n \in 1 .. N : parts[n] \in AllParts
  OBVIOUS
<1>1. Encode(parts) = F[N] \o Dashes \o Boundary \o LastLine
  BY DEF Encode, Dashes, LastLine
<1> HIDE DEF N
<1>2. \A n \in 1 .. N : \A s \in Seq(Wire) : s \o Encoded(parts[n]) \in Seq(Wire)
  <2>1. \A n \in 1 .. N : Encoded(parts[n]) \in Seq(Wire)
    BY <1>0, EncodedIs
  <2> QED
    BY <2>1
<1>3. Step \in Folding(Seq(Wire), N)
  BY <1>2 DEF Folding
<1>4. PICK g : Folds(g, Seq(Wire), <<>>, N, Step)
  <2> HIDE DEF Step
  <2> QED
    BY <1>0, <1>3, FoldExists
<1>5. /\ g \in [0 .. N -> Seq(Wire)] /\ g[0] = <<>>
      /\ \A i \in 1 .. N : g[i] = g[i - 1] \o Encoded(parts[i])
  <2>1. g \in [0 .. N -> Seq(Wire)] /\ g[0] = <<>> /\ \A i \in 1 .. N : g[i] = Step[<<i, g[i - 1]>>]
    BY <1>4 DEF Folds
  <2>2. \A i \in 1 .. N : i - 1 \in 0 .. N
    BY <1>0
  <2> QED
    BY <2>1, <2>2
<1>6. g = Rec(g)
  <2>1. \A i \in 0 .. N : g[i] = IF i = 0 THEN <<>> ELSE g[i - 1] \o Encoded(parts[i])
    <3>1. \A i \in 0 .. N : i = 0 \/ i \in 1 .. N
      BY <1>0
    <3>2. \A i \in 1 .. N : i # 0
      BY <1>0
    <3> QED
      BY <1>5, <3>1, <3>2
  <2> QED
    BY <1>5, <2>1
<1>7. F = Rec(F)
  BY <1>6
<1> HIDE DEF F
<1>8. /\ F[0] = <<>>
      /\ \A i \in 1 .. N : F[i] = F[i - 1] \o Encoded(parts[i])
  <2>1. 0 \in 0 .. N /\ \A i \in 1 .. N : i \in 0 .. N /\ i # 0
    BY <1>0
  <2>2. \A i \in 0 .. N : F[i] = IF i = 0 THEN <<>> ELSE F[i - 1] \o Encoded(parts[i])
    BY <1>7
  <2> QED
    BY <2>1, <2>2
<1>9. /\ F[N] \in Seq(Wire)
      /\ \E off : Parted(F[N], parts, off) /\ off[N] = Len(F[N])
  BY <1>8, PartsJoined DEF N
<1> PICK off : Parted(F[N], parts, off) /\ off[N] = Len(F[N])
  BY <1>9
<1> DEFINE s0 == F[N]
           s1 == s0 \o Dashes
           s2 == s1 \o Boundary
           s3 == s2 \o LastLine
           B == Len(Boundary)
           n == off[N]
<1>10. /\ s0 \in Seq(Wire) /\ Dashes \in Seq(Wire) /\ Boundary \in Seq(Wire) /\ LastLine \in Seq(Wire)
       /\ Len(Dashes) = 2 /\ B \in Nat /\ Len(LastLine) = 4 /\ n \in Nat /\ Len(s0) = n
       /\ \A i \in 1 .. N : Encoded(parts[i]) \in Seq(Wire)
  <2>1. LastLine \in Seq(Wire) /\ Len(LastLine) = 4
    BY DEF LastLine, Wire, Bytes
  <2>2. \A i \in 1 .. N : Encoded(parts[i]) \in Seq(Wire)
    BY <1>0, EncodedIs
  <2>3. F[N] \in Seq(Wire) /\ Len(F[N]) = off[N]
    BY <1>9
  <2>4. Len(F[N]) \in Nat
    BY <2>3
  <2>5. B \in Nat
    BY DelimiterIs
  <2>6. off[N] \in Nat
    BY <2>3, <2>4
  <2> QED
    BY <2>1, <2>2, <2>3, <2>5, <2>6, Texts, Zenon
<1> HIDE DEF B, s0, s1, s2, s3, n
<1>11. n + 2 \in Nat /\ n + 2 + B \in Nat
  BY <1>10
<1>12. Extended(s0, Dashes, s1)
  BY <1>10, ReadsConcat DEF s1
<1>13. s1 \in Seq(Wire) /\ Len(s1) = n + 2 /\ Reads(s1, n, Dashes)
  BY <1>10, <1>12, Zenon DEF Extended
<1>14. Extended(s1, Boundary, s2)
  BY <1>10, <1>13, ReadsConcat DEF s2
<1>15. s2 \in Seq(Wire) /\ Len(s2) = n + 2 + B /\ Reads(s2, n, Dashes) /\ Reads(s2, n + 2, Boundary)
  BY <1>10, <1>13, <1>14, Zenon DEF Extended, B
<1>16. Extended(s2, LastLine, s3)
  BY <1>10, <1>15, ReadsConcat DEF s3
<1>17. /\ s3 \in Seq(Wire) /\ Len(s3) = n + 2 + B + 4 /\ Reads(s3, n, Dashes)
       /\ Reads(s3, n + 2, Boundary) /\ Reads(s3, n + 2 + B, LastLine)
  BY <1>10, <1>11, <1>15, <1>16, Zenon DEF Extended
<1>18. ASSUME NEW i \in 1 .. N
       PROVE  Reads(s3, off[i - 1], Encoded(parts[i]))
  <2>1. Reads(s0, off[i - 1], Encoded(parts[i])) /\ off[i - 1] \in Nat
    <3>1. i - 1 \in 0 .. N
      BY <1>0
    <3> QED
      BY <3>1 DEF Parted, N, s0
  <2> QED
    BY <1>10, <1>12, <1>14, <1>16, <2>1, Zenon DEF Extended
<1>19. Parted(s3, parts, off)
  BY <1>18, Zenon DEF Parted, N
<1>20. Closed(s3, off[N])
  BY <1>17, Zenon DEF Closed, B, n
<1>21. Encode(parts) = s3
  BY <1>1 DEF s0, s1, s2, s3
<1> QED
  BY <1>17, <1>19, <1>20, <1>21 DEF N
-----------------------------------------------------------------------------
(* The parser after each byte of a body.                                   *)
Fed(a, body) ==
  /\ a[0] = NewParser
  /\ \A n \in 1 .. Len(body) : a[n] = Feed(a[n - 1], body[n], Len(body))

LEMMA ParsedIs ==
  ASSUME NEW body \in Seq(Wire)
  PROVE  \E a : Fed(a, body) /\ Parsed(body) = a[Len(body)]
<1> DEFINE N == Len(body)
           Rec(f) == [n \in 0 .. N |-> IF n = 0 THEN NewParser ELSE Feed(f[n - 1], body[n], N)]
           F == CHOOSE f : f = Rec(f)
           Begins(g, m) == g[0] = NewParser /\ \A n \in 1 .. m : g[n] = Feed(g[n - 1], body[n], N)
           Reached == {m \in 0 .. N : \E g : Begins(g, m)}
<1>0. N \in Nat
  OBVIOUS
<1>1. Parsed(body) = F[N]
  BY DEF Parsed
<1> HIDE DEF N
<1>2. 0 \in Reached
  <2> DEFINE g == [n \in 0 .. N |-> NewParser]
  <2>1. g[0] = NewParser
    BY <1>0
  <2> HIDE DEF g
  <2>2. Begins(g, 0)
    BY <2>1
  <2> HIDE DEF Begins
  <2> QED
    BY <1>0, <2>2
<1>3. ASSUME NEW m \in 1 .. N, m - 1 \in Reached
      PROVE  m \in Reached
  <2>1. PICK g : Begins(g, m - 1)
    BY <1>3
  <2> DEFINE x == Feed(g[m - 1], body[m], N)
             more == [n \in 0 .. N |-> IF n = m THEN x ELSE g[n]]
  <2>2. m \in 0 .. N /\ m # 0 /\ 0 \in 0 .. N
    BY <1>0
  <2>3. more[m] = x /\ \A n \in 0 .. N : n # m => more[n] = g[n]
    BY <2>2
  <2> HIDE DEF more, x
  <2>4. more[0] = NewParser
    BY <2>1, <2>2, <2>3
  <2>5. ASSUME NEW n \in 1 .. m
        PROVE  more[n] = Feed(more[n - 1], body[n], N)
    <3>1. n \in 0 .. N /\ n - 1 \in 0 .. N /\ n - 1 # m
      BY <1>0
    <3>2. more[n - 1] = g[n - 1]
      BY <2>3, <3>1
    <3>3. CASE n = m
      BY <2>3, <3>2, <3>3 DEF x
    <3>4. CASE n # m
      <4>1. n \in 1 .. m - 1
        BY <3>4
      <4>2. g[n] = Feed(g[n - 1], body[n], N)
        BY <2>1, <4>1
      <4> QED
        BY <2>3, <3>1, <3>2, <3>4, <4>2
    <3> QED
      BY <3>3, <3>4
  <2>6. Begins(more, m)
    BY <2>4, <2>5
  <2> HIDE DEF Begins
  <2> QED
    BY <2>2, <2>6
<1>4. N \in Reached
  <2>1. 0 .. N \subseteq Reached
    <3> HIDE DEF Reached
    <3> QED
      BY <1>0, <1>2, <1>3, UpTo
  <2> HIDE DEF Reached
  <2> QED
    BY <1>0, <2>1
<1>5. PICK f : Begins(f, N)
  <2> HIDE DEF Begins
  <2> QED
    BY <1>4
<1> DEFINE g == [n \in 0 .. N |-> f[n]]
<1>6. g = Rec(g)
  <2>1. ASSUME NEW n \in 0 .. N
        PROVE  g[n] = IF n = 0 THEN NewParser ELSE Feed(g[n - 1], body[n], N)
    <3>1. CASE n = 0
      BY <1>5, <3>1
    <3>2. CASE n # 0
      <4>1. n \in 1 .. N /\ n - 1 \in 0 .. N
        BY <1>0, <3>2
      <4>2. f[n] = Feed(f[n - 1], body[n], N)
        BY <1>5, <4>1
      <4>3. g[n] = f[n] /\ g[n - 1] = f[n - 1]
        BY <4>1
      <4> QED
        BY <3>2, <4>2, <4>3
    <3> QED
      BY <3>1, <3>2
  <2>2. g = [n \in 0 .. N |-> g[n]]
    OBVIOUS
  <2> HIDE DEF g
  <2> QED
    BY <2>1, <2>2
<1>7. F = Rec(F)
  <2> HIDE DEF g
  <2> QED
    BY <1>6
<1> HIDE DEF F
<1>8. /\ F[0] = NewParser
      /\ \A i \in 1 .. N : F[i] = Feed(F[i - 1], body[i], N)
  <2>1. 0 \in 0 .. N /\ \A i \in 1 .. N : i \in 0 .. N /\ i # 0
    BY <1>0
  <2>2. \A i \in 0 .. N : F[i] = IF i = 0 THEN NewParser ELSE Feed(F[i - 1], body[i], N)
    BY <1>7
  <2> QED
    BY <2>1, <2>2
<1> QED
  BY <1>1, <1>8 DEF Fed, N

(* One byte that is not the last.                                          *)
Advanced(q, r) ==
  Looks(q, r) /\ r.state = q.state /\ r.matched = q.matched /\ r.parsed = q.parsed + 1
LEMMA Successor == \A n \in Nat : n + 1 \in Nat
  OBVIOUS
LEMMA FeedIs ==
  ASSUME NEW p, NEW b, NEW length, ~ (p.parsed + 1 = length),
         NEW q \in Parsers, q = Parse(p, b, FALSE, length)
  PROVE  Advanced(q, Feed(p, b, length))
<1> DEFINE n == q.parsed + 1
           r == [q EXCEPT !.parsed = n]
<1>1. (p.parsed + 1 = length) = FALSE
  OBVIOUS
<1>2. Feed(p, b, length) = r
  <2>1. Parse(p, b, p.parsed + 1 = length, length) = q
    BY <1>1, Zenon
  <2> HIDE DEF r
  <2>2. Feed(p, b, length) = [q EXCEPT !.parsed = @ + 1]
    BY <2>1, Zenon DEF Feed
  <2> QED
    BY <2>2 DEF r
<1>3. n \in Nat
  <2>1. q.parsed \in Nat
    BY Zenon DEF Parsers
  <2> QED
    BY <2>1, Successor, Zenon
<1> HIDE DEF n
<1>4. Looks(q, r) /\ r.state = q.state /\ r.matched = q.matched /\ r.parsed = n
  BY <1>3 DEF Looks, Parsers
<1> HIDE DEF r
<1> QED
  BY <1>2, <1>4 DEF Advanced, n

LEMMA BytesApart ==
  Cr # Lf /\ Cr # "-" /\ Lf # "-"
  BY Zenon DEF Cr, Lf

(* After the boundary, the end of the line.                                *)
LineTaken(p, r) ==
  /\ r \in Parsers /\ r.state = "PARSE_HEADERS" /\ r.isFile = FALSE
  /\ r.calls = p.calls /\ r.params = p.params
LEMMA LineRead ==
  ASSUME NEW p \in Parsers, NEW length \in Nat, p.parsed + 2 < length,
         \/ p.state = "DASH3_OR_RETURN2"
         \/ p.state = "EXPECT_BOUNDARY" /\ p.parsed = 2 + Len(Boundary),
         NEW p1, p1 = Feed(p, Cr, length), NEW p2, p2 = Feed(p1, Lf, length)
  PROVE  LineTaken(p, p2) /\ p1.parsed = p.parsed + 1 /\ p2.parsed = p.parsed + 2
<1> DEFINE n == p.parsed
           q1 == Parse(p, Cr, FALSE, length)
           q2 == Parse(p1, Lf, FALSE, length)
<1>1. n \in Nat /\ Len(Boundary) \in Nat /\ ~ (n + 1 = length) /\ ~ (n + 1 + 1 = length)
      /\ n + 1 + 1 = n + 2
  BY DelimiterIs DEF Parsers
<1>2. /\ Looks(p, q1) /\ q1.parsed = n
      /\ \/ q1.state = "EXPECT_FEED2"
         \/ q1.state = "EXPECT_BOUNDARY" /\ n = 2 + Len(Boundary)
  <2>1. CASE p.state = "DASH3_OR_RETURN2"
    <3>1. q1 = Turned(p, "EXPECT_FEED2")
      <4>1. q1 = AfterBoundary(p, Cr, FALSE, length)
        BY <2>1 DEF Parse
      <4>2. AfterBoundary(p, Cr, FALSE, length) = Turned(p, "EXPECT_FEED2")
        <5>1. AfterBoundary(p, Cr, FALSE, length) = [p EXCEPT !.state = "EXPECT_FEED2"]
          BY BytesApart, Zenon DEF AfterBoundary
        <5> QED
          BY <5>1, Zenon DEF Turned
      <4> QED
        BY <4>1, <4>2, Zenon
    <3>2. "EXPECT_FEED2" \in ParserStates
      BY DEF ParserStates
    <3> QED
      BY <3>1, <3>2, StateSet
  <2>2. CASE p.state = "EXPECT_BOUNDARY" /\ n = 2 + Len(Boundary)
    <3>1. q1 = InFirstBoundary(p, Cr)
      BY <2>2 DEF Parse
    <3>3. ~ (p.parsed - 3 = Len(Boundary)) /\ ~ (p.parsed < 2) /\ ~ (p.parsed - 2 < Len(Boundary))
      BY <1>1, <2>2
    <3>2. q1 = p
      BY <3>1, <3>3, Zenon DEF InFirstBoundary
    <3> QED
      BY <2>2, <3>2 DEF Looks
  <2> QED
    BY <2>1, <2>2
<1>3. q1 \in Parsers
  BY <1>2 DEF Looks
<1>4. Advanced(q1, p1)
  <2> HIDE DEF q1
  <2>1. q1 = Parse(p, Cr, FALSE, length)
    BY DEF q1
  <2> QED
    BY <1>1, <1>3, <2>1, FeedIs
<1> HIDE DEF q1
<1>5. /\ p1 \in Parsers /\ p1.parsed = n + 1 /\ p1.calls = p.calls /\ p1.params = p.params
      /\ \/ p1.state = "EXPECT_FEED2"
         \/ p1.state = "EXPECT_BOUNDARY" /\ n = 2 + Len(Boundary)
  BY <1>2, <1>4 DEF Advanced, Looks
<1>6. q2 = [p1 EXCEPT !.state = "PARSE_HEADERS", !.isFile = FALSE]
  <2>1. CASE p1.state = "EXPECT_FEED2"
    BY <2>1 DEF Parse
  <2>2. CASE p1.state = "EXPECT_BOUNDARY" /\ n = 2 + Len(Boundary)
    <3>1. q2 = InFirstBoundary(p1, Lf)
      BY <2>2 DEF Parse
    <3>2. p1.parsed - 3 = Len(Boundary) /\ ~ (p1.parsed < 2) /\ ~ (p1.parsed - 2 < Len(Boundary))
          /\ ~ (p1.parsed - 2 = Len(Boundary))
      BY <1>1, <1>5, <2>2
    <3> QED
      BY <3>1, <3>2 DEF InFirstBoundary
  <2> QED
    BY <1>5, <2>1, <2>2
<1>7. LineTaken(p1, q2) /\ q2.parsed = p1.parsed
  <2> DEFINE t == [p1 EXCEPT !.state = "PARSE_HEADERS"]
  <2>1. q2 = [t EXCEPT !.isFile = FALSE]
    BY <1>6
  <2> HIDE DEF q2
  <2>2. t \in Parsers /\ t.state = "PARSE_HEADERS" /\ t.parsed = p1.parsed /\ t.calls = p1.calls
        /\ t.params = p1.params
    BY <1>5 DEF Parsers, ParserStates
  <2> HIDE DEF t
  <2> QED
    BY <2>1, <2>2 DEF Parsers, LineTaken
<1>8. Advanced(q2, p2)
  <2> HIDE DEF q2
  <2>1. q2 = Parse(p1, Lf, FALSE, length) /\ q2 \in Parsers
    BY <1>7 DEF q2, LineTaken
  <2>2. ~ (p1.parsed + 1 = length)
    BY <1>1, <1>5
  <2> QED
    BY <2>1, <2>2, FeedIs
<1> HIDE DEF q2
<1>9. LineTaken(p, p2)
  BY <1>5, <1>7, <1>8, Zenon DEF LineTaken, Advanced, Looks
<1>10. p2.parsed = n + 2
  <2>1. p2.parsed = n + 1 + 1
    BY <1>5, <1>7, <1>8, Zenon DEF Advanced
  <2> QED
    BY <1>1, <2>1
<1> QED
  BY <1>5, <1>9, <1>10
-----------------------------------------------------------------------------
(* What a stretch of the body does.                                        *)
Goes(a, n, text, length) ==
  \A i \in 1 .. Len(text) : a[n + i] = Feed(a[n + i - 1], text[i], length)
LEMMA FedText ==
  ASSUME NEW body \in Seq(Wire), NEW a, Fed(a, body), NEW n, NEW text, Len(text) \in Nat,
         Reads(body, n, text)
  PROVE  Goes(a, n, text, Len(body))
<1>1. /\ n \in Nat /\ n + Len(text) <= Len(body)
      /\ \A i \in 1 .. Len(text) : body[n + i] = text[i]
  BY DEF Reads
<1>2. \A m \in 1 .. Len(body) : a[m] = Feed(a[m - 1], body[m], Len(body))
  BY DEF Fed
<1>3. ASSUME NEW i \in 1 .. Len(text)
      PROVE  a[n + i] = Feed(a[n + i - 1], text[i], Len(body))
  <2> DEFINE m == n + i
  <2>1. m \in 1 .. Len(body) /\ body[m] = text[i] /\ m - 1 = n + i - 1
    BY <1>1
  <2> HIDE DEF m
  <2>2. a[m] = Feed(a[m - 1], text[i], Len(body))
    BY <1>2, <2>1
  <2>3. a[m] = Feed(a[n + i - 1], text[i], Len(body))
    BY <2>1, <2>2, Zenon
  <2> QED
    BY <2>3 DEF m
<1> QED
  BY <1>3 DEF Goes

(* The empty line after the headers: the content begins.                   *)
Begun(p, q) ==
  /\ q \in Parsers /\ q.state = "WAIT_FOR_RETURN1" /\ q.size = 0 /\ q.value = <<>>
  /\ p.isFile => q.buffer = <<>>
  /\ q.isFile = p.isFile /\ q.name = p.name /\ q.filename = p.filename
  /\ q.calls = p.calls /\ q.params = p.params /\ q.parsed = p.parsed
LEMMA BlankRead ==
  ASSUME NEW p \in Parsers, p.state = "PARSE_HEADERS", NEW length,
         NEW q, q = Parse(p, Blank, FALSE, length)
  PROVE  Begun(p, q)
<1> DEFINE w == "WAIT_FOR_RETURN1"
           buffer == IF p.isFile THEN <<>> ELSE p.buffer
           q1 == [p EXCEPT !.state = w]
           q2 == [q1 EXCEPT !.size = 0]
           q3 == [q2 EXCEPT !.value = <<>>]
           q4 == [q3 EXCEPT !.buffer = buffer]
<1>0. Blank \notin FileNames /\ Blank # TypeLine
  BY DEF Blank, FileNames, TypeLine
<1>1. q = InHeaders(p, Blank)
  BY DEF Parse
<1>2. q = [p EXCEPT !.state = w, !.size = 0, !.value = <<>>, !.buffer = IF p.isFile THEN <<>> ELSE @]
  BY <1>0, <1>1 DEF InHeaders
<1>3. q = q4
  BY <1>2
<1>4. w \in ParserStates /\ <<>> \in Seq(Bytes) /\ buffer \in Seq(Bytes) /\ 0 \in Nat
  BY DEF ParserStates, Parsers
<1>9. p.isFile => buffer = <<>>
  OBVIOUS
<1> HIDE DEF w, buffer
<1>5. q1 \in Parsers /\ q1.state = w /\ q1.isFile = p.isFile /\ q1.name = p.name
      /\ q1.filename = p.filename /\ q1.calls = p.calls /\ q1.params = p.params
      /\ q1.parsed = p.parsed
  BY <1>4 DEF Parsers
<1> HIDE DEF q1
<1>6. q2 \in Parsers /\ q2.state = q1.state /\ q2.isFile = q1.isFile /\ q2.name = q1.name
      /\ q2.filename = q1.filename /\ q2.calls = q1.calls /\ q2.params = q1.params
      /\ q2.parsed = q1.parsed /\ q2.size = 0
  BY <1>4, <1>5 DEF Parsers
<1> HIDE DEF q2
<1>7. q3 \in Parsers /\ q3.state = q2.state /\ q3.isFile = q2.isFile /\ q3.name = q2.name
      /\ q3.filename = q2.filename /\ q3.calls = q2.calls /\ q3.params = q2.params
      /\ q3.parsed = q2.parsed /\ q3.size = q2.size /\ q3.value = <<>>
  BY <1>4, <1>6 DEF Parsers
<1> HIDE DEF q3
<1>8. q4 \in Parsers /\ q4.state = q3.state /\ q4.isFile = q3.isFile /\ q4.name = q3.name
      /\ q4.filename = q3.filename /\ q4.calls = q3.calls /\ q4.params = q3.params
      /\ q4.parsed = q3.parsed /\ q4.size = q3.size /\ q4.value = q3.value /\ q4.buffer = buffer
  BY <1>4, <1>7 DEF Parsers
<1> HIDE DEF q4
<1> QED
  BY <1>3, <1>5, <1>6, <1>7, <1>8, <1>9, Zenon DEF Begun, w

(* The lines before it: the name of a field, or of a file and its type.    *)
Named(p, q, name, filename, isFile) ==
  /\ q \in Parsers /\ q.state = "PARSE_HEADERS" /\ q.isFile = isFile
  /\ q.name = name /\ q.filename = filename
  /\ q.calls = p.calls /\ q.params = p.params /\ q.parsed = p.parsed
LEMMA NameRead ==
  ASSUME NEW p \in Parsers, p.state = "PARSE_HEADERS", NEW length
  PROVE  /\ \A b \in FieldNames : Named(p, Parse(p, b, FALSE, length), b, p.filename, p.isFile)
         /\ \A b \in FileNames : Named(p, Parse(p, b, FALSE, length), p.name, b, TRUE)
         /\ Named(p, Parse(p, TypeLine, FALSE, length), p.name, p.filename, TRUE)
<1>1. \A b : Parse(p, b, FALSE, length) = InHeaders(p, b)
  BY DEF Parse
<1>2. /\ \A b \in FieldNames : b # Blank /\ b # TypeLine /\ b \notin FileNames /\ b \in PartNames
      /\ \A b \in FileNames : b # Blank /\ b # TypeLine /\ b \in PartNames
      /\ TypeLine # Blank /\ TypeLine \notin FileNames
  BY DEF FieldNames, FileNames, Blank, TypeLine, PartNames
<1>3. ASSUME NEW b \in FieldNames
      PROVE  Named(p, Parse(p, b, FALSE, length), b, p.filename, p.isFile)
  <2> DEFINE q == [p EXCEPT !.name = b]
  <2>1. InHeaders(p, b) = q
    BY <1>2, Zenon DEF InHeaders
  <2>2. b \in PartNames
    BY <1>2
  <2>3. Named(p, q, b, p.filename, p.isFile)
    BY <2>2 DEF Parsers, Named
  <2> QED
    BY <1>1, <2>1, <2>3, Zenon
<1>4. ASSUME NEW b \in FileNames
      PROVE  Named(p, Parse(p, b, FALSE, length), p.name, b, TRUE)
  <2> DEFINE q1 == [p EXCEPT !.filename = b]
             q == [q1 EXCEPT !.isFile = TRUE]
  <2>0. b # Blank /\ b # TypeLine /\ b \in FileNames /\ b \in PartNames
    BY <1>2
  <2>1. InHeaders(p, b) = [p EXCEPT !.filename = b, !.isFile = TRUE]
    BY <2>0 DEF InHeaders
  <2>2. InHeaders(p, b) = q
    BY <2>1
  <2>3. q1 \in Parsers /\ q1.state = p.state /\ q1.name = p.name /\ q1.filename = b
        /\ q1.calls = p.calls /\ q1.params = p.params /\ q1.parsed = p.parsed
    BY <2>0 DEF Parsers
  <2> HIDE DEF q1
  <2>4. Named(p, q, p.name, b, TRUE)
    BY <2>3 DEF Parsers, Named
  <2> QED
    BY <1>1, <2>2, <2>4, Zenon
<1>5. Named(p, Parse(p, TypeLine, FALSE, length), p.name, p.filename, TRUE)
  <2> DEFINE q == [p EXCEPT !.isFile = TRUE]
  <2>1. InHeaders(p, TypeLine) = q
    BY <1>2 DEF InHeaders
  <2>2. Named(p, q, p.name, p.filename, TRUE)
    BY DEF Parsers, Named
  <2> QED
    BY <1>1, <2>1, <2>2, Zenon
<1> QED
  BY <1>3, <1>4, <1>5
(* The headers of a part: nothing of its content was written.              *)
LEMMA ContentBegins ==
  ASSUME NEW part, part.content \in Seq(Bytes), NEW files, NEW k,
         NEW p, NEW q, Begun(p, q), NEW r, Advanced(q, r), Told(p.calls, files, k, 0),
         p.isFile \in BOOLEAN, p.isFile <=> part.name \in FileNames,
         p.isFile => p.filename = part.name, ~ p.isFile => p.name = part.name
  PROVE  Within(r, part, files, k, 0)
<1>1. /\ r \in Parsers /\ r.state = "WAIT_FOR_RETURN1" /\ r.size = 0 /\ r.value = <<>>
      /\ p.isFile => r.buffer = <<>>
      /\ r.isFile = p.isFile /\ r.name = p.name /\ r.filename = p.filename
      /\ r.calls = p.calls
  BY Zenon DEF Begun, Advanced, Looks
<1>2. 0 \in Nat /\ 0 - 0 = 0 /\ 0 <= 0 /\ 0 = 0 + 0 /\ 0 - 0 < FileChunkSize /\ Len(<<>>) = 0 - 0
      /\ 0 + 1 = 1 /\ 0 \in 0 .. Len(Delimiter) - 1 /\ 0 <= Len(part.content)
  BY MultipartAssumption, DelimiterIs
<1>3. SubSeq(part.content, 0 + 1, 0) = <<>> /\ SubSeq(part.content, 1, 0) = <<>>
  OBVIOUS
<1>4. Holding(r, 0)
  BY <1>1, HoldingIs, Zenon
<1>5. Told(r.calls, files, k, 0)
  BY <1>1, Zenon
<1>6. ASSUME p.isFile
      PROVE  WrittenOfFile(r, part, files, k, 0)
  <2>1. r.buffer = <<>> /\ r.filename = part.name
    BY <1>1, <1>6, Zenon
  <2>2. r.buffer = SubSeq(part.content, 0 + 1, 0) /\ Len(r.buffer) = 0 - 0
    BY <1>2, <1>3, <2>1, Zenon
  <2>3. HandedOn(r, part, files, k, 0, 0)
    BY <1>2, <1>5, <2>2, Zenon DEF HandedOn
  <2> QED
    BY <1>2, <2>1, <2>3, Zenon DEF WrittenOfFile
<1>7. ASSUME ~ p.isFile
      PROVE  WrittenOfField(r, part, files, k, 0)
  BY <1>1, <1>3, <1>5, <1>7, Zenon DEF WrittenOfField
<1>8. Written(r, part, files, k, 0)
  BY <1>1, <1>6, <1>7, Zenon DEF Written
<1>9. \A i \in 1 .. 0 : Sent(part)[0 + i] = Delimiter[i]
  OBVIOUS
<1>10. HeldBack(r, part, files, k, 0, 0)
  BY <1>2, <1>4, <1>8, <1>9, Zenon DEF HeldBack
<1> QED
  BY <1>2, <1>10, Zenon DEF Within

HeadersTaken(p, r, part, files, k, n) ==
  Within(r, part, files, k, 0) /\ r.params = p.params /\ r.parsed = n
LEMMA HeadersRead ==
  ASSUME NEW part \in AllParts, NEW files, NEW k, NEW a, NEW n \in Nat, NEW length \in Nat,
         a[n] \in Parsers, a[n].state = "PARSE_HEADERS", a[n].isFile = FALSE, a[n].parsed = n,
         Told(a[n].calls, files, k, 0), n + Len(Headers(part)) < length,
         Goes(a, n, Headers(part), length)
  PROVE  HeadersTaken(a[n], a[n + Len(Headers(part))], part, files, k, n + Len(Headers(part)))
<1> DEFINE name == part.name
           p0 == a[n]
           p1 == a[n + 1]
           p2 == a[n + 2]
           p3 == a[n + 3]
           q1 == Parse(p0, name, FALSE, length)
<1>1. name \in FieldNames \cup FileNames /\ part.content \in Seq(Bytes)
  BY DEF AllParts
<1>2. n + 1 - 1 = n /\ n + 2 - 1 = n + 1 /\ n + 3 - 1 = n + 2
      /\ n + 1 + 1 = n + 2 /\ n + 1 + 1 + 1 = n + 3
  OBVIOUS
<1>3. CASE name \in FileNames
  <2> DEFINE q2 == Parse(p1, TypeLine, FALSE, length)
             q3 == Parse(p2, Blank, FALSE, length)
  <2>1. Headers(part) = <<name, TypeLine, Blank>> /\ Len(Headers(part)) = 3
    BY <1>3 DEF Headers
  <2>2. p1 = Feed(p0, name, length) /\ p2 = Feed(p1, TypeLine, length) /\ p3 = Feed(p2, Blank, length)
    <3>1. \A i \in {1, 2, 3} : a[n + i] = Feed(a[n + i - 1], Headers(part)[i], length)
      BY <2>1 DEF Goes
    <3>2. Headers(part)[1] = name /\ Headers(part)[2] = TypeLine /\ Headers(part)[3] = Blank
      BY <2>1
    <3>3. a[n + 1] = Feed(a[n + 1 - 1], Headers(part)[1], length)
      BY <3>1
    <3>4. a[n + 2] = Feed(a[n + 2 - 1], Headers(part)[2], length)
      BY <3>1
    <3>5. a[n + 3] = Feed(a[n + 3 - 1], Headers(part)[3], length)
      BY <3>1
    <3> QED
      BY <1>2, <3>2, <3>3, <3>4, <3>5, Zenon
  <2>3. ~ (n + 1 = length) /\ ~ (n + 1 + 1 = length) /\ ~ (n + 1 + 1 + 1 = length)
    BY <2>1
  <2> HIDE DEF p0, p1, p2, p3, name
  <2>4. p0 \in Parsers /\ p0.state = "PARSE_HEADERS" /\ p0.isFile = FALSE /\ p0.parsed = n
        /\ Told(p0.calls, files, k, 0)
    BY DEF p0
  <2>5. Named(p0, q1, p0.name, name, TRUE)
    BY <1>3, <2>4, NameRead
  <2> HIDE DEF q1
  <2>6. q1 \in Parsers /\ q1.parsed = n
    BY <2>4, <2>5, Zenon DEF Named
  <2>7. Advanced(q1, p1)
    <3>1. q1 = Parse(p0, name, FALSE, length) /\ ~ (p0.parsed + 1 = length)
      BY <2>3, <2>4, Zenon DEF q1
    <3> QED
      BY <2>2, <2>6, <3>1, FeedIs
  <2>8. /\ p1 \in Parsers /\ p1.state = "PARSE_HEADERS" /\ p1.parsed = n + 1
        /\ p1.filename = name /\ p1.isFile = TRUE /\ p1.calls = p0.calls /\ p1.params = p0.params
    BY <2>4, <2>5, <2>7, Zenon DEF Named, Advanced, Looks
  <2>9. Named(p1, q2, p1.name, p1.filename, TRUE)
    BY <2>8, NameRead
  <2> HIDE DEF q2
  <2>10. q2 \in Parsers /\ q2.parsed = n + 1
    BY <2>8, <2>9, Zenon DEF Named
  <2>11. Advanced(q2, p2)
    <3>1. q2 = Parse(p1, TypeLine, FALSE, length) /\ ~ (p1.parsed + 1 = length)
      BY <2>3, <2>8, Zenon DEF q2
    <3> QED
      BY <2>2, <2>10, <3>1, FeedIs
  <2>12. /\ p2 \in Parsers /\ p2.state = "PARSE_HEADERS" /\ p2.parsed = n + 1 + 1
         /\ p2.filename = name /\ p2.isFile = TRUE /\ p2.calls = p0.calls /\ p2.params = p0.params
    BY <2>8, <2>9, <2>11, Zenon DEF Named, Advanced, Looks
  <2>13. Begun(p2, q3)
    <3>1. q3 = Parse(p2, Blank, FALSE, length)
      OBVIOUS
    <3> HIDE DEF q3
    <3> QED
      BY <2>12, <3>1, BlankRead
  <2> HIDE DEF q3
  <2>14. Advanced(q3, p3)
    <3>1. q3 = Parse(p2, Blank, FALSE, length) /\ ~ (p2.parsed + 1 = length) /\ q3 \in Parsers
      BY <2>3, <2>12, <2>13, Zenon DEF q3, Begun
    <3>2. Advanced(q3, Feed(p2, Blank, length))
      BY <3>1, FeedIs
    <3> QED
      BY <2>2, <3>2, Zenon
  <2>15. p3.parsed = n + 3 /\ p3.params = p0.params
    <3>1. q3.parsed = p2.parsed /\ q3.params = p2.params
      BY <2>13, Zenon DEF Begun
    <3>2. p3.parsed = q3.parsed + 1 /\ p3.params = q3.params
      BY <2>14, Zenon DEF Advanced, Looks
    <3>3. p2.parsed = n + 1 + 1 /\ p2.params = p0.params
      BY <2>12, Zenon
    <3>4. p3.parsed = n + 1 + 1 + 1
      BY <3>1, <3>2, <3>3, Zenon
    <3> QED
      BY <1>2, <3>1, <3>2, <3>3, <3>4, Zenon
  <2>16. /\ p2.isFile \in BOOLEAN /\ (p2.isFile <=> part.name \in FileNames)
         /\ p2.isFile => p2.filename = part.name
         /\ ~ p2.isFile => p2.name = part.name
         /\ Told(p2.calls, files, k, 0)
    BY <1>3, <2>4, <2>12, Zenon DEF name
  <2>17. Within(p3, part, files, k, 0)
    BY <1>1, <2>13, <2>14, <2>16, ContentBegins
  <2> QED
    BY <2>1, <2>15, <2>17 DEF p3, p0, HeadersTaken
<1>4. CASE name \in FieldNames /\ name \notin FileNames
  <2> DEFINE q2 == Parse(p1, Blank, FALSE, length)
  <2>1. Headers(part) = <<name, Blank>> /\ Len(Headers(part)) = 2
    BY <1>4 DEF Headers
  <2>2. p1 = Feed(p0, name, length) /\ p2 = Feed(p1, Blank, length)
    <3>1. \A i \in {1, 2} : a[n + i] = Feed(a[n + i - 1], Headers(part)[i], length)
      BY <2>1 DEF Goes
    <3>2. Headers(part)[1] = name /\ Headers(part)[2] = Blank
      BY <2>1
    <3>3. a[n + 1] = Feed(a[n + 1 - 1], Headers(part)[1], length)
      BY <3>1
    <3>4. a[n + 2] = Feed(a[n + 2 - 1], Headers(part)[2], length)
      BY <3>1
    <3> QED
      BY <1>2, <3>2, <3>3, <3>4, Zenon
  <2>3. ~ (n + 1 = length) /\ ~ (n + 1 + 1 = length)
    BY <2>1
  <2> HIDE DEF p0, p1, p2, name
  <2>4. p0 \in Parsers /\ p0.state = "PARSE_HEADERS" /\ p0.isFile = FALSE /\ p0.parsed = n
        /\ Told(p0.calls, files, k, 0)
    BY DEF p0
  <2>5. Named(p0, q1, name, p0.filename, p0.isFile)
    BY <1>4, <2>4, NameRead
  <2> HIDE DEF q1
  <2>6. q1 \in Parsers /\ q1.parsed = n
    BY <2>4, <2>5, Zenon DEF Named
  <2>7. Advanced(q1, p1)
    <3>1. q1 = Parse(p0, name, FALSE, length) /\ ~ (p0.parsed + 1 = length)
      BY <2>3, <2>4, Zenon DEF q1
    <3> QED
      BY <2>2, <2>6, <3>1, FeedIs
  <2>8. /\ p1 \in Parsers /\ p1.state = "PARSE_HEADERS" /\ p1.parsed = n + 1
        /\ p1.name = name /\ p1.isFile = FALSE /\ p1.calls = p0.calls /\ p1.params = p0.params
    BY <2>4, <2>5, <2>7, Zenon DEF Named, Advanced, Looks
  <2>13. Begun(p1, q2)
    <3>1. q2 = Parse(p1, Blank, FALSE, length)
      OBVIOUS
    <3> HIDE DEF q2
    <3> QED
      BY <2>8, <3>1, BlankRead
  <2> HIDE DEF q2
  <2>14. Advanced(q2, p2)
    <3>1. q2 = Parse(p1, Blank, FALSE, length) /\ ~ (p1.parsed + 1 = length) /\ q2 \in Parsers
      BY <2>3, <2>8, <2>13, Zenon DEF q2, Begun
    <3>2. Advanced(q2, Feed(p1, Blank, length))
      BY <3>1, FeedIs
    <3> QED
      BY <2>2, <3>2, Zenon
  <2>15. p2.parsed = n + 2 /\ p2.params = p0.params
    <3>1. q2.parsed = p1.parsed /\ q2.params = p1.params
      BY <2>13, Zenon DEF Begun
    <3>2. p2.parsed = q2.parsed + 1 /\ p2.params = q2.params
      BY <2>14, Zenon DEF Advanced, Looks
    <3>3. p1.parsed = n + 1 /\ p1.params = p0.params
      BY <2>8, Zenon
    <3>4. p2.parsed = n + 1 + 1
      BY <3>1, <3>2, <3>3, Zenon
    <3> QED
      BY <1>2, <3>1, <3>2, <3>3, <3>4, Zenon
  <2>16. /\ p1.isFile \in BOOLEAN /\ (p1.isFile <=> part.name \in FileNames)
         /\ p1.isFile => p1.filename = part.name
         /\ ~ p1.isFile => p1.name = part.name
         /\ Told(p1.calls, files, k, 0)
    BY <1>4, <2>4, <2>8, Zenon DEF name
  <2>17. Within(p2, part, files, k, 0)
    BY <1>1, <2>13, <2>14, <2>16, ContentBegins
  <2> QED
    BY <2>1, <2>15, <2>17 DEF p2, p0, HeadersTaken
<1> QED
  BY <1>1, <1>3, <1>4
-----------------------------------------------------------------------------
(* The content of a part and the delimiter after it.                       *)
LEMMA WithinAdvanced ==
  ASSUME NEW part, NEW files, NEW k, NEW n, NEW q, NEW r, Advanced(q, r),
         Within(q, part, files, k, n)
  PROVE  Within(r, part, files, k, n)
<1> PICK j \in Nat, m \in Nat : n = j + m /\ HeldBack(q, part, files, k, j, m)
  BY Zenon DEF Within
<1>1. Looks(q, r) /\ r.state = q.state /\ r.matched = q.matched
  BY DEF Advanced
<1>2. Written(r, part, files, k, j)
  <2>1. Written(q, part, files, k, j)
    BY DEF HeldBack
  <2> QED
    BY <1>1, <2>1, LooksWritten
<1>3. Holding(r, m)
  <2>1. Holding(q, m)
    BY DEF HeldBack
  <2> QED
    BY <1>1, <2>1, Zenon DEF Holding
<1>4. HeldBack(r, part, files, k, j, m)
  BY <1>2, <1>3, Zenon DEF HeldBack
<1> QED
  BY <1>4, Zenon DEF Within

LEMMA WithinTyped ==
  ASSUME NEW part, NEW files, NEW k, NEW n, NEW q, Within(q, part, files, k, n)
  PROVE  q \in Parsers
  BY Zenon DEF Within, HeldBack, Written

ContentTaken(p, r, part, files, k, n) ==
  /\ r \in Parsers /\ r.state = "DASH3_OR_RETURN2" /\ r.parsed = n
  /\ Told(r.calls, files, FilesAfter(part, k), 0)
  /\ FieldsOf(r.params) = GivenAfter(part, FieldsOf(p.params))
LEMMA ContentRead ==
  ASSUME NEW part \in AllParts, NEW files, NEW k, ComesNext(part, files, k), Plain(part),
         NEW a, NEW n \in Nat, NEW length \in Nat,
         Within(a[n], part, files, k, 0), a[n].parsed = n,
         n + Len(Sent(part)) < length, Goes(a, n, Sent(part), length)
  PROVE  ContentTaken(a[n], a[n + Len(Sent(part))], part, files, k, n + Len(Sent(part)))
<1> DEFINE t == Sent(part)
           M == Len(t)
           Good == {i \in 0 .. M - 1 : /\ Within(a[n + i], part, files, k, i)
                                       /\ a[n + i].parsed = n + i
                                       /\ a[n + i].params = a[n].params}
<1>1. part.content \in Seq(Bytes) /\ part.name \in FieldNames \cup FileNames
  BY DEF AllParts
<1>2. M \in Nat /\ 0 < M
  <2>1. M = Len(part.content) + Len(Delimiter) /\ Len(part.content) \in Nat
    BY <1>1, SentIs
  <2>2. Len(Delimiter) \in Nat /\ 0 < Len(Delimiter)
    BY DelimiterIs
  <2> HIDE DEF M
  <2> QED
    BY <2>1, <2>2
<1>3. \A i \in 1 .. M : a[n + i] = Feed(a[n + i - 1], t[i], length)
  BY DEF Goes
<1> HIDE DEF M, t
<1>4. 0 \in Good
  <2>1. n + 0 = n /\ 0 \in 0 .. M - 1
    BY <1>2
  <2> QED
    BY <2>1
<1>5. ASSUME NEW p, NEW i \in 1 .. M, p = a[n + i - 1],
             Within(p, part, files, k, i - 1), p.parsed = n + i - 1,
             NEW q, q = Parse(p, t[i], FALSE, length), q \in Parsers, q.parsed = p.parsed
      PROVE  Advanced(q, a[n + i]) /\ a[n + i].parsed = n + i
  <2>1. ~ (n + i - 1 + 1 = length) /\ n + i - 1 + 1 = n + i
    BY <1>2 DEF M, t
  <2>2. a[n + i] = Feed(p, t[i], length)
    BY <1>3, <1>5
  <2>3. ~ (p.parsed + 1 = length)
    BY <1>5, <2>1, Zenon
  <2>4. Advanced(q, Feed(p, t[i], length))
    <3> DEFINE b == t[i]
    <3> HIDE DEF b
    <3>1. q = Parse(p, b, FALSE, length) /\ q \in Parsers
      BY <1>5 DEF b
    <3>2. Advanced(q, Feed(p, b, length))
      BY <2>3, <3>1, FeedIs
    <3> QED
      BY <3>2 DEF b
  <2>5. Advanced(q, a[n + i])
    BY <2>2, <2>4, Zenon
  <2>6. a[n + i].parsed = n + i - 1 + 1
    BY <1>5, <2>5, Zenon DEF Advanced
  <2> QED
    BY <2>1, <2>5, <2>6, Zenon
<1>6. ASSUME NEW i \in 1 .. M - 1, i - 1 \in Good
      PROVE  i \in Good
  <2> DEFINE p == a[n + i - 1]
             x == i - 1
             q == Parse(p, t[i], FALSE, length)
             r == a[n + i]
  <2>1. x \in Nat /\ x + 1 = i /\ i \in 1 .. M /\ i \in 0 .. M - 1 /\ x + 1 < M /\ n + (i - 1) = n + i - 1
    BY <1>2
  <2>2. Within(p, part, files, k, x) /\ p.parsed = n + i - 1 /\ p.params = a[n].params
    BY <1>6, <2>1
  <2> HIDE DEF p, q, r
  <2>3. Within(q, part, files, k, i) /\ q.parsed = p.parsed /\ q.params = p.params
    <3> HIDE DEF x
    <3> PICK j \in Nat, m \in Nat : x = j + m /\ HeldBack(p, part, files, k, j, m)
      BY <2>2, Zenon DEF Within
    <3>1. q = Parse(p, Sent(part)[x + 1], FALSE, length) /\ x + 1 < Len(Sent(part))
      BY <2>1 DEF q, t, M
    <3>2. Stepped(p, q, part, files, k, x)
      BY <3>1, StepHeld
    <3> QED
      BY <2>1, <3>2, Zenon DEF Stepped
  <2>4. q \in Parsers
    BY <2>3, WithinTyped
  <2>5. Advanced(q, r) /\ r.parsed = n + i
    BY <1>5, <2>1, <2>2, <2>3, <2>4, Zenon DEF p, q, r, x
  <2>6. Within(r, part, files, k, i)
    BY <2>3, <2>5, WithinAdvanced
  <2>7. r.params = a[n].params
    BY <2>2, <2>3, <2>5, Zenon DEF Advanced, Looks
  <2> QED
    BY <2>1, <2>5, <2>6, <2>7 DEF r
<1>7. 0 .. M - 1 \subseteq Good
  <2> HIDE DEF Good
  <2>1. M - 1 \in Nat
    BY <1>2
  <2> DEFINE m == M - 1
  <2> HIDE DEF m
  <2>2. m \in Nat /\ \A i \in 1 .. m : i - 1 \in Good => i \in Good
    BY <1>6, <2>1 DEF m
  <2>3. 0 .. m \subseteq Good
    BY <1>4, <2>2, UpTo
  <2> QED
    BY <2>3 DEF m
<1>8. /\ Within(a[n + (M - 1)], part, files, k, M - 1)
      /\ a[n + (M - 1)].parsed = n + (M - 1)
      /\ a[n + (M - 1)].params = a[n].params
  <2>1. M - 1 \in 0 .. M - 1
    BY <1>2
  <2> QED
    BY <1>7, <2>1
<1> DEFINE p == a[n + M - 1]
           x == M - 1
           q == Parse(p, t[M], FALSE, length)
           r == a[n + M]
<1>9. x \in Nat /\ x + 1 = M /\ M \in 1 .. M /\ n + (M - 1) = n + M - 1
  BY <1>2
<1>10. Within(p, part, files, k, x) /\ p.parsed = n + M - 1 /\ p.params = a[n].params
  BY <1>8, <1>9
<1> HIDE DEF p, q, r
<1>11. q = EndPart(p) /\ Written(p, part, files, k, Len(part.content))
  <2> HIDE DEF x
  <2> PICK j \in Nat, m \in Nat : x = j + m /\ HeldBack(p, part, files, k, j, m)
    BY <1>10, Zenon DEF Within
  <2>1. q = Parse(p, Sent(part)[x + 1], FALSE, length) /\ x + 1 = Len(Sent(part))
    BY <1>9 DEF q, t, M
  <2> QED
    BY <2>1, LastHeld
<1>12. Ended(p, q, part, files, k)
  BY <1>1, <1>11, EndPartIs
<1>13. q \in Parsers /\ q.parsed = p.parsed
  BY <1>12 DEF Ended
<1>14. Advanced(q, r) /\ r.parsed = n + M
  BY <1>5, <1>9, <1>10, <1>13, Zenon DEF p, q, r, x
<1>15. /\ r \in Parsers /\ r.state = "DASH3_OR_RETURN2"
       /\ Told(r.calls, files, FilesAfter(part, k), 0)
       /\ FieldsOf(r.params) = GivenAfter(part, FieldsOf(a[n].params))
  BY <1>10, <1>12, <1>14, Zenon DEF Ended, Advanced, Looks
<1> QED
  BY <1>14, <1>15, Zenon DEF r, M, t, ContentTaken
-----------------------------------------------------------------------------
(* The files and the fields of what was sent, up to each part.             *)
LEMMA KeptGrows ==
  ASSUME NEW A, NEW list \in Seq(A), NEW S, NEW k \in 1 .. Len(list), list[k] \in S
  PROVE  /\ Len(Kept(list, S)[k - 1]) + 1 <= Len(Chosen(list, S))
         /\ Chosen(list, S)[Len(Kept(list, S)[k - 1]) + 1] = list[k]
<1> DEFINE N == Len(list)
           f == Kept(list, S)
           at == Len(f[k - 1]) + 1
           Good == {n \in 0 .. N : n >= k => at <= Len(f[n]) /\ f[n][at] = list[k]}
<1>1. N \in Nat /\ k \in 1 .. N /\ k - 1 \in 0 .. N /\ k \in 0 .. N /\ \A n \in 1 .. N : list[n] \in A
  OBVIOUS
<1>2. /\ f[0] = <<>>
      /\ \A n \in 1 .. N : f[n] = IF list[n] \in S THEN Append(f[n - 1], list[n]) ELSE f[n - 1]
  BY KeptIs
<1>3. \A n \in 0 .. N : f[n] \in Seq(A)
  <2>1. \A n \in 0 .. N : f[n] \in Seq(A \cap S)
    BY ChosenTyped
  <2>2. Seq(A \cap S) \subseteq Seq(A)
    OBVIOUS
  <2> QED
    BY <2>1, <2>2
<1> HIDE DEF N, f
<1>4. at \in Nat
  <2>1. f[k - 1] \in Seq(A)
    BY <1>1, <1>3
  <2> QED
    BY <2>1
<1>5. at <= Len(f[k]) /\ f[k][at] = list[k]
  <2>1. f[k - 1] \in Seq(A) /\ f[k] = Append(f[k - 1], list[k]) /\ list[k] \in A
    BY <1>1, <1>2, <1>3
  <2> QED
    BY <2>1
<1> HIDE DEF at
<1>6. 0 \in Good
  BY <1>1
<1>7. ASSUME NEW n \in 1 .. N, n - 1 \in Good
      PROVE  n \in Good
  <2>1. n \in 0 .. N /\ n - 1 \in 0 .. N /\ list[n] \in A
    BY <1>1
  <2>2. CASE n <= k
    <3>1. n >= k => n = k
      BY <1>1, <2>2
    <3> QED
      BY <1>5, <2>1, <3>1
  <2>3. CASE n > k
    <3>1. at <= Len(f[n - 1]) /\ f[n - 1][at] = list[k]
      BY <1>1, <1>7, <2>3
    <3>2. f[n - 1] \in Seq(A) /\ f[n] = IF list[n] \in S THEN Append(f[n - 1], list[n]) ELSE f[n - 1]
      BY <1>2, <1>3, <2>1
    <3>3. at \in 1 .. Len(f[n - 1])
      BY <1>4, <3>1, <3>2 DEF at
    <3>4. at <= Len(f[n]) /\ f[n][at] = list[k]
      <4>1. CASE list[n] \in S
        <5> DEFINE s == f[n - 1]
        <5>1. s \in Seq(A) /\ f[n] = Append(s, list[n]) /\ at \in 1 .. Len(s) /\ s[at] = list[k]
          BY <3>1, <3>2, <3>3, <4>1
        <5> HIDE DEF s
        <5> QED
          BY <2>1, <5>1
      <4>2. CASE list[n] \notin S
        BY <3>1, <3>2, <4>2
      <4> QED
        BY <4>1, <4>2
    <3> QED
      BY <2>1, <3>4
  <2> QED
    BY <1>1, <2>2, <2>3
<1>8. 0 .. N \subseteq Good
  <2> HIDE DEF Good
  <2> QED
    BY <1>1, <1>6, <1>7, UpTo
<1>9. N >= k => at <= Len(f[N]) /\ f[N][at] = list[k]
  <2>1. N \in 0 .. N
    BY <1>1
  <2> QED
    BY <1>8, <2>1
<1>10. Chosen(list, S) = f[N]
  BY ChosenIsKept DEF f, N
<1> QED
  BY <1>1, <1>9, <1>10 DEF f, at

FilesUpTo(parts, k) == Len(Kept(parts, FileParts)[k])
LEMMA FilesInOrder ==
  ASSUME NEW parts \in Seq(AllParts)
  PROVE  /\ FilesUpTo(parts, 0) = 0 /\ FilesUpTo(parts, Len(parts)) = Len(FilesIn(parts))
         /\ \A k \in 1 .. Len(parts) :
              /\ ComesNext(parts[k], FilesIn(parts), FilesUpTo(parts, k - 1))
              /\ FilesUpTo(parts, k) = FilesAfter(parts[k], FilesUpTo(parts, k - 1))
<1> DEFINE N == Len(parts)
           f == Kept(parts, FileParts)
           files == FilesIn(parts)
<1>1. N \in Nat /\ \A k \in 1 .. N : parts[k] \in AllParts /\ k \in 0 .. N /\ k - 1 \in 0 .. N
  OBVIOUS
<1>2. \A k \in 0 .. N : f[k] \in Seq(AllParts \cap FileParts)
  BY ChosenTyped
<1>3. /\ f[0] = <<>>
      /\ \A k \in 1 .. N : f[k] = IF parts[k] \in FileParts THEN Append(f[k - 1], parts[k]) ELSE f[k - 1]
  BY KeptIs
<1>4. files = Chosen(parts, FileParts)
  BY DEF FilesIn, FileParts
<1>5. files = f[N]
  BY <1>4, ChosenIsKept
<1>6. files \in Seq(FileParts)
  <2>1. N \in 0 .. N
    BY <1>1
  <2>2. files \in Seq(AllParts \cap FileParts)
    BY <1>2, <1>5, <2>1
  <2> HIDE DEF files
  <2> QED
    BY <2>2
<1>7. ASSUME NEW k \in 1 .. N
      PROVE  parts[k] \in FileParts <=> HandsOn(parts[k])
  BY <1>1, <1>7 DEF AllParts, FileParts, HandsOn
<1> HIDE DEF files
<1>8. ASSUME NEW k \in 1 .. N, parts[k] \in FileParts
      PROVE  Len(f[k - 1]) + 1 <= Len(files) /\ files[Len(f[k - 1]) + 1] = parts[k]
  BY <1>4, <1>8, KeptGrows
<1> HIDE DEF N, f
<1>9. \A k \in 0 .. N : Len(f[k]) \in Nat
  BY <1>2
<1>10. ASSUME NEW k \in 1 .. N
       PROVE  ComesNext(parts[k], files, Len(f[k - 1]))
  <2>1. parts[k].content \in Seq(Bytes)
    BY <1>1 DEF AllParts
  <2>2. Len(f[k - 1]) \in Nat
    BY <1>1, <1>9
  <2>3. parts[k].name \in FileNames /\ parts[k].content # <<>> =>
          Len(f[k - 1]) + 1 <= Len(files) /\ files[Len(f[k - 1]) + 1] = parts[k]
    BY <1>7, <1>8, Zenon DEF HandsOn
  <2> QED
    BY <1>6, <2>1, <2>2, <2>3, Zenon DEF ComesNext
<1>11. ASSUME NEW k \in 1 .. N
       PROVE  Len(f[k]) = FilesAfter(parts[k], Len(f[k - 1]))
  <2> DEFINE s == f[k - 1]
  <2>1. s \in Seq(AllParts \cap FileParts)
    BY <1>1, <1>2
  <2>2. Len(Append(s, parts[k])) = Len(s) + 1
    <3> HIDE DEF s
    <3>1. \A x : Len(Append(s, x)) = Len(s) + 1
      BY <2>1
    <3> QED
      BY <3>1
  <2> HIDE DEF s
  <2>3. f[k] = IF parts[k] \in FileParts THEN Append(s, parts[k]) ELSE s
    BY <1>3 DEF s
  <2>4. Len(f[k]) = FilesAfter(parts[k], Len(s))
    BY <1>7, <2>2, <2>3 DEF FilesAfter
  <2> QED
    BY <2>4 DEF s
<1>12. Len(f[0]) = 0
  BY <1>3
<1> QED
  BY <1>5, <1>10, <1>11, <1>12 DEF FilesUpTo, N, f, files

Gave(list) == [i \in DOMAIN list |-> Given(list[i])]
FieldsUpTo(parts, k) == Gave(Kept(parts, FieldParts)[k])
LEMMA FieldsInOrder ==
  ASSUME NEW parts \in Seq(AllParts)
  PROVE  /\ FieldsUpTo(parts, 0) = <<>> /\ FieldsUpTo(parts, Len(parts)) = Gave(FieldsIn(parts))
         /\ \A k \in 1 .. Len(parts) : FieldsUpTo(parts, k) = GivenAfter(parts[k], FieldsUpTo(parts, k - 1))
<1> DEFINE N == Len(parts)
           f == Kept(parts, FieldParts)
<1>1. N \in Nat /\ \A k \in 1 .. N : parts[k] \in AllParts /\ k \in 0 .. N /\ k - 1 \in 0 .. N
  OBVIOUS
<1>2. \A k \in 0 .. N : f[k] \in Seq(AllParts \cap FieldParts)
  BY ChosenTyped
<1>3. /\ f[0] = <<>>
      /\ \A k \in 1 .. N : f[k] = IF parts[k] \in FieldParts THEN Append(f[k - 1], parts[k]) ELSE f[k - 1]
  BY KeptIs
<1>4. FieldsIn(parts) = Chosen(parts, FieldParts)
  BY DEF FieldsIn, FieldParts
<1>5. FieldsIn(parts) = f[N]
  BY <1>4, ChosenIsKept
<1>6. ASSUME NEW k \in 1 .. N
      PROVE  parts[k] \in FieldParts <=> parts[k].name \in FieldNames
  BY <1>1, <1>6 DEF AllParts, FieldParts
<1> HIDE DEF N, f
<1>7. ASSUME NEW s \in Seq(AllParts \cap FieldParts), NEW x \in AllParts \cap FieldParts
      PROVE  Gave(Append(s, x)) = Append(Gave(s), Given(x))
  <2> DEFINE m == Len(s)
             t == Append(s, x)
             g == Gave(s)
  <2>1. m \in Nat /\ DOMAIN s = 1 .. m /\ DOMAIN t = 1 .. m + 1 /\ t[m + 1] = x
        /\ \A i \in 1 .. m : t[i] = s[i]
    OBVIOUS
  <2> HIDE DEF m, t
  <2>2. g = [i \in 1 .. m |-> Given(s[i])]
    BY <2>1 DEF Gave
  <2> HIDE DEF g
  <2>3. Append(g, Given(x)) = [i \in 1 .. m + 1 |-> IF i = m + 1 THEN Given(x) ELSE g[i]]
    <3> DEFINE G == {Given(y) : y \in AllParts \cap FieldParts}
               new == Given(x)
               u == Append(g, new)
    <3>1. (\A i \in 1 .. m : Given(s[i]) \in G) /\ new \in G
      BY DEF m
    <3> HIDE DEF G, new
    <3>2. g \in Seq(G) /\ Len(g) = m
      BY <2>1, <2>2, <3>1
    <3>3. u \in Seq(G) /\ Len(u) = m + 1 /\ u[m + 1] = new /\ \A i \in 1 .. m : u[i] = g[i]
      BY <3>1, <3>2
    <3> HIDE DEF u
    <3>4. u = [i \in 1 .. m + 1 |-> u[i]]
      BY <3>3
    <3>5. \A i \in 1 .. m + 1 : u[i] = IF i = m + 1 THEN new ELSE g[i]
      <4>1. \A i \in 1 .. m + 1 : i = m + 1 \/ i \in 1 .. m
        BY <2>1
      <4> QED
        BY <3>3, <4>1
    <3> QED
      BY <3>4, <3>5 DEF u, new
  <2>4. Gave(t) = [i \in 1 .. m + 1 |-> Given(t[i])]
    BY <2>1 DEF Gave
  <2>5. \A i \in 1 .. m + 1 : Given(t[i]) = IF i = m + 1 THEN Given(x) ELSE g[i]
    <3> TAKE i \in 1 .. m + 1
    <3>1. i # m + 1 => i \in 1 .. m
      BY <2>1
    <3> QED
      BY <2>1, <2>2, <3>1
  <2> QED
    BY <2>3, <2>4, <2>5 DEF g, t
<1>8. ASSUME NEW k \in 1 .. N
      PROVE  Gave(f[k]) = GivenAfter(parts[k], Gave(f[k - 1]))
  <2> DEFINE s == f[k - 1]
  <2>1. s \in Seq(AllParts \cap FieldParts) /\ parts[k] \in AllParts
    BY <1>1, <1>2
  <2>2. f[k] = IF parts[k] \in FieldParts THEN Append(s, parts[k]) ELSE s
    BY <1>3
  <2> HIDE DEF s
  <2>3. CASE parts[k].name \in FieldNames
    <3>1. parts[k] \in AllParts \cap FieldParts /\ f[k] = Append(s, parts[k])
      BY <1>6, <2>1, <2>2, <2>3
    <3>2. Gave(f[k]) = Append(Gave(s), Given(parts[k]))
      BY <1>7, <2>1, <3>1
    <3> QED
      BY <2>3, <3>2 DEF GivenAfter, s
  <2>4. CASE parts[k].name \notin FieldNames
    <3>1. f[k] = s
      BY <1>6, <2>2, <2>4
    <3> QED
      BY <2>4, <3>1 DEF GivenAfter, s
  <2> QED
    BY <2>3, <2>4
<1>9. Gave(f[0]) = <<>>
  <2>1. Gave(<<>>) = <<>>
    BY DEF Gave
  <2> QED
    BY <1>3, <2>1
<1> QED
  BY <1>5, <1>8, <1>9 DEF FieldsUpTo, N, f
-----------------------------------------------------------------------------
(* The first boundary.                                                     *)
Opened(p, n) ==
  /\ p \in Parsers /\ p.state = "EXPECT_BOUNDARY" /\ p.parsed = n
  /\ p.calls = <<>> /\ p.params = <<>>

LEMMA NewParserIs == Opened(NewParser, 0)
<1>1. NoNames \subseteq PartNames /\ "EXPECT_BOUNDARY" \in ParserStates
  BY DEF PartNames, ParserStates
<1>2. \E none \in NoNames : NewParser =
        [state |-> "EXPECT_BOUNDARY", parsed |-> 0, matched |-> 0, isFile |-> FALSE,
         name |-> none, filename |-> none, size |-> 0, value |-> <<>>, buffer |-> <<>>,
         calls |-> <<>>, params |-> <<>>]
  BY Zenon DEF NewParser, NoNames
<1>3. PICK none \in NoNames : NewParser =
        [state |-> "EXPECT_BOUNDARY", parsed |-> 0, matched |-> 0, isFile |-> FALSE,
         name |-> none, filename |-> none, size |-> 0, value |-> <<>>, buffer |-> <<>>,
         calls |-> <<>>, params |-> <<>>]
  BY <1>2
<1>4. none \in PartNames
  BY <1>1
<1> QED
  BY <1>1, <1>3, <1>4 DEF Opened, Parsers

LEMMA OpeningByte ==
  ASSUME NEW n \in Nat, NEW p, Opened(p, n), n < 2 + Len(Boundary), NEW length \in Nat,
         n + 1 < length, NEW b, n < 2 => b = "-", n >= 2 => b = Boundary[n - 1]
  PROVE  Opened(Feed(p, b, length), n + 1)
<1> DEFINE q == Parse(p, b, FALSE, length)
           r == Feed(p, b, length)
<1>1. p \in Parsers /\ p.state = "EXPECT_BOUNDARY" /\ p.parsed = n
  BY DEF Opened
<1>2. Len(Boundary) \in Nat
  BY DelimiterIs
<1>3. q = InFirstBoundary(p, b)
  BY <1>1 DEF Parse
<1>4. /\ ~ (p.parsed < 2 /\ b # "-")
      /\ ~ (p.parsed >= 2 /\ p.parsed - 2 < Len(Boundary) /\ Boundary[p.parsed - 1] # b)
  BY <1>1
<1>5. ~ (p.parsed - 2 = Len(Boundary)) /\ ~ (p.parsed - 3 = Len(Boundary))
  BY <1>1, <1>2
<1>6. q = p
  BY <1>3, <1>4, <1>5, Zenon DEF InFirstBoundary
<1>7. ~ (p.parsed + 1 = length)
  BY <1>1
<1>8. Advanced(q, r)
  <2> HIDE DEF q
  <2>1. q = Parse(p, b, FALSE, length) /\ q \in Parsers
    BY <1>1, <1>6 DEF q
  <2> QED
    BY <1>7, <2>1, FeedIs
<1> HIDE DEF q, r
<1>9. Opened(r, n + 1)
  BY <1>1, <1>6, <1>8, Zenon DEF Opened, Advanced, Looks
<1> QED
  BY <1>9 DEF r

LEMMA BoundaryRead ==
  ASSUME NEW body \in Seq(Wire), NEW a, Fed(a, body), Reads(body, 0, Dashes),
         Reads(body, 2, Boundary), 2 + Len(Boundary) < Len(body)
  PROVE  Opened(a[2 + Len(Boundary)], 2 + Len(Boundary))
<1> DEFINE N == 2 + Len(Boundary)
           Good == {n \in 0 .. N : Opened(a[n], n)}
<1>1. N \in Nat /\ Len(Boundary) \in Nat /\ Len(body) \in Nat /\ N < Len(body)
  BY DelimiterIs
<1>2. 0 \in Good
  BY <1>1, NewParserIs DEF Fed
<1>3. ASSUME NEW n \in 1 .. N, n - 1 \in Good
      PROVE  n \in Good
  <2> DEFINE m == n - 1
             b == body[n]
  <2>1. m \in Nat /\ m + 1 = n /\ n \in 0 .. N /\ n \in 1 .. Len(body) /\ m < N /\ m + 1 < Len(body)
    BY <1>1
  <2>2. Opened(a[m], m)
    BY <1>3
  <2>3. a[n] = Feed(a[m], b, Len(body))
    BY <2>1 DEF Fed
  <2>4. m < 2 => b = "-"
    <3>1. body[0 + 1] = "-" /\ body[0 + 2] = "-"
      BY Texts DEF Reads
    <3>2. m < 2 => n = 0 + 1 \/ n = 0 + 2
      BY <2>1
    <3> QED
      BY <3>1, <3>2
  <2>5. m >= 2 => b = Boundary[m - 1]
    <3>1. \A i \in 1 .. Len(Boundary) : body[2 + i] = Boundary[i]
      BY DEF Reads
    <3>2. m >= 2 => m - 1 \in 1 .. Len(Boundary) /\ n = 2 + (m - 1)
      BY <1>1, <2>1
    <3> HIDE DEF m
    <3> QED
      BY <3>1, <3>2
  <2> HIDE DEF m, b
  <2>6. Opened(Feed(a[m], b, Len(body)), m + 1)
    BY <1>1, <2>1, <2>2, <2>4, <2>5, OpeningByte DEF N
  <2> QED
    BY <2>1, <2>3, <2>6
<1>4. 0 .. N \subseteq Good
  <2> HIDE DEF Good, N
  <2> QED
    BY <1>1, <1>2, <1>3, UpTo
<1>5. N \in 0 .. N
  BY <1>1
<1> QED
  BY <1>4, <1>5

(* Between two parts: what came before n is with the callback and in the   *)
(* request's parameters.                                                   *)
Between(p, parts, k, n) ==
  /\ p \in Parsers /\ p.parsed = n
  /\ \/ p.state = "DASH3_OR_RETURN2"
     \/ k = 0 /\ p.state = "EXPECT_BOUNDARY" /\ n = 2 + Len(Boundary)
  /\ Told(p.calls, FilesIn(parts), FilesUpTo(parts, k), 0)
  /\ FieldsOf(p.params) = FieldsUpTo(parts, k)

LEMMA NothingYet ==
  /\ \A files : Told(<<>>, files, 0, 0)
  /\ FieldsOf(<<>>) = <<>>
<1>1. ASSUME NEW files
      PROVE  Told(<<>>, files, 0, 0)
  <2>1. <<>> \in Seq(UploadCalls) /\ DOMAIN <<>> = {} /\ Len(<<>>) + 1 = 1
    OBVIOUS
  <2>2. FilesEndedBefore(<<>>, 1) = 0
    <3>1. 1 .. (1 - 1) = {}
      OBVIOUS
    <3>2. FilesEndedBefore(<<>>, 1) = Cardinality({})
      BY <3>1 DEF FilesEndedBefore
    <3> QED
      BY <3>2, FS_EmptySet
  <2>3. ReachedBefore(<<>>, 1) = 0
    BY DEF ReachedBefore
  <2> QED
    BY <2>1, <2>2, <2>3, Zenon DEF Told
<1>2. FieldsOf(<<>>) = <<>>
  <2>1. <<>> \in Seq({0}) /\ 0 \in {0}
    OBVIOUS
  <2>2. \A S : Chosen(<<>>, S) = <<>>
    BY <2>1, ChosenOfAppend
  <2> QED
    BY <2>2 DEF FieldsOf
<1> QED
  BY <1>1, <1>2

LEMMA FirstBetween ==
  ASSUME NEW parts \in Seq(AllParts), NEW p, Opened(p, 2 + Len(Boundary))
  PROVE  Between(p, parts, 0, 2 + Len(Boundary))
<1>1. FilesUpTo(parts, 0) = 0 /\ FieldsUpTo(parts, 0) = <<>>
  BY FilesInOrder, FieldsInOrder
<1>2. /\ p \in Parsers /\ p.state = "EXPECT_BOUNDARY" /\ p.parsed = 2 + Len(Boundary)
      /\ p.calls = <<>> /\ p.params = <<>>
  BY DEF Opened
<1> QED
  BY <1>1, <1>2, NothingYet, Zenon DEF Between

(* A part: its headers, its content and the delimiter after it.            *)
After(part, n) == n + 2 + Len(Headers(part)) + Len(Sent(part))
Placed(body, part, n) ==
  /\ Reads(body, n, LineEnd) /\ Reads(body, n + 2, Headers(part))
  /\ Reads(body, n + 2 + Len(Headers(part)), Sent(part))
  /\ After(part, n) < Len(body)

LEMMA PartRead ==
  ASSUME NEW parts \in Seq(AllParts), NEW k \in 1 .. Len(parts), NEW part, part = parts[k],
         Plain(part), NEW body \in Seq(Wire), NEW a, Fed(a, body), NEW n \in Nat,
         Between(a[n], parts, k - 1, n), Placed(body, part, n)
  PROVE  Between(a[After(part, n)], parts, k, After(part, n))
<1> DEFINE length == Len(body)
           files == FilesIn(parts)
           before == FilesUpTo(parts, k - 1)
           h == Len(Headers(part))
           s == Len(Sent(part))
           n1 == n + 1
           n2 == n + 2
           n3 == n2 + h
           n4 == n3 + s
           p0 == a[n]
           p1 == a[n1]
           p2 == a[n2]
           p3 == a[n3]
           p4 == a[n4]
<1>1. part \in AllParts /\ part.content \in Seq(Bytes)
  <2>1. part \in AllParts
    OBVIOUS
  <2> QED
    BY <2>1 DEF AllParts
<1>2. /\ h \in Nat /\ s \in Nat /\ 0 < s /\ length \in Nat
      /\ n1 \in Nat /\ n2 \in Nat /\ n3 \in Nat /\ n4 \in Nat
      /\ n2 < length /\ n3 < length /\ n4 < length /\ n4 = After(part, n)
  <2>1. h \in Nat
    BY <1>1, Texts
  <2>2. s \in Nat /\ 0 < s
    <3>1. s = Len(part.content) + Len(Delimiter) /\ Len(part.content) \in Nat
      BY <1>1, SentIs
    <3>2. Len(Delimiter) \in Nat /\ 0 < Len(Delimiter)
      BY DelimiterIs
    <3> HIDE DEF s
    <3> QED
      BY <3>1, <3>2
  <2>3. length \in Nat
    OBVIOUS
  <2>4. n4 = After(part, n) /\ n4 < length
    BY Zenon DEF After, Placed
  <2> HIDE DEF length, h, s
  <2> QED
    BY <2>1, <2>2, <2>3, <2>4
<1>3. ComesNext(part, files, before) /\ FilesUpTo(parts, k) = FilesAfter(part, before)
  BY FilesInOrder
<1>4. FieldsUpTo(parts, k) = GivenAfter(part, FieldsUpTo(parts, k - 1))
  BY FieldsInOrder
<1>5. Goes(a, n, LineEnd, length) /\ Goes(a, n2, Headers(part), length)
      /\ Goes(a, n3, Sent(part), length)
  <2>1. Reads(body, n, LineEnd) /\ Reads(body, n2, Headers(part)) /\ Reads(body, n3, Sent(part))
    BY DEF Placed
  <2>2. Len(LineEnd) \in Nat
    BY Texts
  <2> HIDE DEF n2, n3, length
  <2>3. Goes(a, n, LineEnd, Len(body)) /\ Goes(a, n2, Headers(part), Len(body))
        /\ Goes(a, n3, Sent(part), Len(body))
    BY <1>2, <2>1, <2>2, FedText DEF h, s
  <2> QED
    BY <2>3 DEF length
<1>6. p1 = Feed(p0, Cr, length) /\ p2 = Feed(p1, Lf, length)
  <2>1. n + 1 - 1 = n /\ n + 2 - 1 = n + 1
    OBVIOUS
  <2>2. /\ a[n + 1] = Feed(a[n + 1 - 1], LineEnd[1], length)
        /\ a[n + 2] = Feed(a[n + 2 - 1], LineEnd[2], length)
    BY <1>5, Texts DEF Goes
  <2>3. LineEnd[1] = Cr /\ LineEnd[2] = Lf
    BY Texts
  <2> QED
    BY <2>1, <2>2, <2>3, Zenon
<1>7. /\ p0 \in Parsers /\ p0.parsed = n /\ Told(p0.calls, files, before, 0)
      /\ FieldsOf(p0.params) = FieldsUpTo(parts, k - 1)
      /\ \/ p0.state = "DASH3_OR_RETURN2"
         \/ p0.state = "EXPECT_BOUNDARY" /\ p0.parsed = 2 + Len(Boundary)
  BY Zenon DEF Between
<1> HIDE DEF files, before, n1, n2, n3, n4, p0, p1, p2, p3, p4, length, h, s
<1>8. LineTaken(p0, p2) /\ p2.parsed = n2
  <2>1. p0.parsed + 2 < length
    BY <1>2, <1>7 DEF n2
  <2>2. LineTaken(p0, p2) /\ p2.parsed = p0.parsed + 2
    BY <1>2, <1>6, <1>7, <2>1, LineRead
  <2> QED
    BY <1>7, <2>2 DEF n2
<1>9. /\ p2 \in Parsers /\ p2.state = "PARSE_HEADERS" /\ p2.isFile = FALSE
      /\ Told(p2.calls, files, before, 0) /\ p2.params = p0.params
  BY <1>7, <1>8, Zenon DEF LineTaken
<1>10. Within(p3, part, files, before, 0) /\ p3.params = p2.params /\ p3.parsed = n3
  <2>1. /\ a[n2] \in Parsers /\ a[n2].state = "PARSE_HEADERS" /\ a[n2].isFile = FALSE
        /\ a[n2].parsed = n2 /\ Told(a[n2].calls, files, before, 0)
    BY <1>8, <1>9 DEF p2
  <2>2. n2 + Len(Headers(part)) < length
    BY <1>2 DEF n3, h
  <2>3. HeadersTaken(a[n2], a[n2 + Len(Headers(part))], part, files, before, n2 + Len(Headers(part)))
    BY <1>1, <1>2, <1>5, <2>1, <2>2, HeadersRead
  <2> QED
    BY <2>3, Zenon DEF HeadersTaken, p2, p3, n3, h
<1>11. /\ p4 \in Parsers /\ p4.state = "DASH3_OR_RETURN2" /\ p4.parsed = n4
       /\ Told(p4.calls, files, FilesAfter(part, before), 0)
       /\ FieldsOf(p4.params) = GivenAfter(part, FieldsOf(p3.params))
  <2>1. Within(a[n3], part, files, before, 0) /\ a[n3].parsed = n3
    BY <1>10 DEF p3
  <2>2. n3 + Len(Sent(part)) < length
    BY <1>2 DEF n4, s
  <2>3. ContentTaken(a[n3], a[n3 + Len(Sent(part))], part, files, before, n3 + Len(Sent(part)))
    BY <1>1, <1>2, <1>3, <1>5, <2>1, <2>2, ContentRead
  <2> QED
    BY <2>3, Zenon DEF ContentTaken, p3, p4, n4, s
<1>12. FieldsOf(p4.params) = FieldsUpTo(parts, k)
  BY <1>4, <1>7, <1>9, <1>10, <1>11, Zenon
<1>13. Told(p4.calls, files, FilesUpTo(parts, k), 0)
  BY <1>3, <1>11, Zenon
<1>14. Between(p4, parts, k, n4)
  BY <1>11, <1>12, <1>13, Zenon DEF Between, files
<1> QED
  BY <1>2, <1>14, Zenon DEF p4

(* Where the texts of a part are in the body.                              *)
LEMMA SentRead ==
  ASSUME NEW part \in AllParts, NEW body \in Seq(Wire), NEW m \in Nat, NEW end \in Nat,
         end = m + Len(part.content),
         Reads(body, m, part.content), Reads(body, end, LineEnd),
         Reads(body, end + 2, Dashes), Reads(body, end + 2 + 2, Boundary)
  PROVE  Reads(body, m, Sent(part))
<1> DEFINE c == Len(part.content)
           t == Sent(part)
           B == Len(Boundary)
           D == Len(Delimiter)
<1>1. part.content \in Seq(Bytes)
  BY DEF AllParts
<1>2. /\ \A i \in 1 .. c : t[i] = part.content[i]
      /\ \A i \in 1 .. D : t[c + i] = Delimiter[i]
      /\ Delimiter[1] = Cr /\ Delimiter[2] = Lf /\ Delimiter[3] = "-" /\ Delimiter[4] = "-"
      /\ \A i \in 1 .. B : Delimiter[4 + i] = Boundary[i]
  BY <1>1, SentIs, DelimiterIs, Zenon
<1>0. c \in Nat /\ Len(t) = c + D /\ D = 4 + B /\ B \in Nat /\ Len(body) \in Nat
  <2>1. Len(t) = c + D /\ D = 4 + B
    BY <1>1, SentIs, DelimiterIs, Zenon
  <2>2. c \in Nat /\ B \in Nat /\ Len(body) \in Nat
    BY <1>1, DelimiterIs
  <2> QED
    BY <2>1, <2>2
<1>3. \A i \in 1 .. c : body[m + i] = part.content[i]
  BY DEF Reads
<1>4. body[end + 1] = Cr /\ body[end + 2] = Lf
  BY Texts DEF Reads
<1>5. body[end + 2 + 1] = "-" /\ body[end + 2 + 2] = "-"
  BY Texts DEF Reads
<1>6. end + 2 + 2 + B <= Len(body) /\ \A i \in 1 .. B : body[end + 2 + 2 + i] = Boundary[i]
  BY DEF Reads
<1>7. end = m + c
  OBVIOUS
<1> HIDE DEF c, t, B, D
<1>8. ASSUME NEW i \in 1 .. D
      PROVE  body[m + (c + i)] = Delimiter[i]
  <2>1. m + (c + i) = end + i
    BY <1>0, <1>7
  <2>2. i \in {1, 2, 3, 4} \/ i - 4 \in 1 .. B
    BY <1>0
  <2>3. end + 2 + 1 = end + 3 /\ end + 2 + 2 = end + 4
    OBVIOUS
  <2>4. CASE i \in {1, 2, 3, 4}
    <3>1. CASE i = 1
      BY <1>2, <1>4, <2>1, <3>1
    <3>2. CASE i = 2
      BY <1>2, <1>4, <2>1, <3>2
    <3>3. CASE i = 3
      BY <1>2, <1>5, <2>1, <2>3, <3>3
    <3>4. CASE i = 4
      BY <1>2, <1>5, <2>1, <2>3, <3>4
    <3> QED
      BY <2>4, <3>1, <3>2, <3>3, <3>4
  <2>5. CASE i - 4 \in 1 .. B
    <3> DEFINE h == i - 4
    <3>1. 4 + h = i /\ h \in 1 .. B /\ end + i = end + 2 + 2 + h
      BY <1>0, <2>5
    <3> HIDE DEF h
    <3>2. body[end + 2 + 2 + h] = Boundary[h] /\ Delimiter[4 + h] = Boundary[h]
      BY <1>2, <1>6, <3>1
    <3> QED
      BY <2>1, <3>1, <3>2, Zenon
  <2> QED
    BY <2>2, <2>4, <2>5
<1>9. ASSUME NEW i \in 1 .. Len(t)
      PROVE  body[m + i] = t[i]
  <2>1. CASE i <= c
    <3>1. i \in 1 .. c
      BY <1>0, <2>1
    <3> QED
      BY <1>2, <1>3, <3>1
  <2>2. CASE i > c
    <3> DEFINE h == i - c
    <3>1. i = c + h /\ h \in 1 .. D
      BY <1>0, <2>2
    <3> HIDE DEF h
    <3> QED
      BY <1>2, <1>8, <3>1
  <2> QED
    BY <1>0, <2>1, <2>2
<1>10. m + Len(t) <= Len(body)
  BY <1>0, <1>6, <1>7
<1> QED
  BY <1>9, <1>10 DEF Reads, t

(* Where the k-th part begins, and what is there.                          *)
Bounded(body, n) ==
  /\ Reads(body, n, Dashes) /\ Reads(body, n + 2, Boundary)
  /\ n + 2 + Len(Boundary) < Len(body)
Begins(body, part, n) ==
  LET line == n + 2 + Len(Boundary)
      data == line + 2 + Len(Headers(part))
  IN  /\ Bounded(body, n) /\ Reads(body, line, LineEnd)
      /\ Reads(body, line + 2, Headers(part)) /\ Reads(body, data, part.content)
      /\ Reads(body, data + Len(part.content), LineEnd)
LEMMA PartBegins ==
  ASSUME NEW part \in AllParts, NEW body \in Seq(Wire), NEW n \in Nat,
         Reads(body, n, Encoded(part))
  PROVE  /\ Begins(body, part, n)
         /\ Len(Encoded(part)) = Len(Boundary) + 6 + Len(Headers(part)) + Len(part.content)
<1> DEFINE e == Encoded(part)
           B == Len(Boundary)
           h == Len(Headers(part))
           c == Len(part.content)
           line == 2 + B
           heads == line + 2
           data == heads + h
           end == data + c
<1>1. /\ e \in Seq(Wire) /\ Len(e) = end + 2
      /\ Reads(e, 0, Dashes) /\ Reads(e, 2, Boundary) /\ Reads(e, line, LineEnd)
      /\ Reads(e, heads, Headers(part)) /\ Reads(e, data, part.content)
      /\ Reads(e, end, LineEnd)
  BY EncodedIs, Zenon
<1>2. B \in Nat /\ h \in Nat /\ c \in Nat /\ Len(body) \in Nat
  BY DelimiterIs, Texts
<1>0. Len(e) = end + 2 /\ e \in Seq(Wire)
  BY <1>1, Zenon
<1>4. Len(e) \in Nat /\ Len(LineEnd) \in Nat /\ Len(Dashes) \in Nat
  <2>1. Len(LineEnd) \in Nat /\ Len(Dashes) \in Nat
    BY Texts
  <2> HIDE DEF e, end
  <2>2. Len(e) \in Nat
    BY <1>0
  <2> QED
    BY <2>1, <2>2
<1> HIDE DEF B, h, c, e
<1>3. /\ 0 \in Nat /\ 2 \in Nat /\ line \in Nat /\ heads \in Nat /\ data \in Nat /\ end \in Nat
      /\ n + 0 = n /\ n + line = n + 2 + B /\ n + heads = n + 2 + B + 2
      /\ n + data = n + 2 + B + 2 + h /\ n + end = n + 2 + B + 2 + h + c
      /\ Len(e) = B + 6 + h + c
  BY <1>0, <1>2
<1> HIDE DEF line, heads, data, end
<1>5. \A i \in Nat : \A t : Len(t) \in Nat /\ Reads(e, i, t) => Reads(body, n + i, t)
  <2>1. Reads(body, n, e)
    BY DEF e
  <2> QED
    BY <1>2, <1>4, <2>1, ReadsInside
<1>6. /\ Reads(body, n + 0, Dashes) /\ Reads(body, n + 2, Boundary) /\ Reads(body, n + line, LineEnd)
      /\ Reads(body, n + heads, Headers(part)) /\ Reads(body, n + data, part.content)
      /\ Reads(body, n + end, LineEnd)
  BY <1>1, <1>2, <1>3, <1>4, <1>5, Zenon DEF B, h, c
<1>7. n + 2 + B < Len(body)
  <2>1. n + line + Len(LineEnd) <= Len(body) /\ Len(LineEnd) = 2
    BY <1>6, Texts DEF Reads
  <2> QED
    BY <1>2, <1>3, <2>1
<1>8. Begins(body, part, n)
  BY <1>3, <1>6, <1>7, Zenon DEF Begins, Bounded, B, h, c
<1> QED
  BY <1>3, <1>8 DEF e, B, h, c

LEMMA BoundedIs ==
  ASSUME NEW parts \in Seq(AllParts), NEW body \in Seq(Wire), NEW off,
         Parted(body, parts, off), Closed(body, off[Len(parts)]), NEW k \in 0 .. Len(parts)
  PROVE  off[k] \in Nat /\ Bounded(body, off[k])
<1> DEFINE N == Len(parts)
<1>1. N \in Nat /\ off[k] \in Nat
  BY DEF Parted
<1>2. CASE k = N
  <2>1. Reads(body, off[k], Dashes) /\ Reads(body, off[k] + 2, Boundary)
        /\ Len(body) = off[k] + 2 + Len(Boundary) + 4
    BY <1>2 DEF Closed
  <2>2. Len(Boundary) \in Nat
    BY DelimiterIs
  <2>3. off[k] + 2 + Len(Boundary) < Len(body)
    BY <1>1, <2>1, <2>2
  <2> QED
    BY <1>1, <2>1, <2>3, Zenon DEF Bounded
<1>3. CASE k # N
  <2> DEFINE m == k + 1
  <2>1. m \in 1 .. N /\ m - 1 = k
    BY <1>1, <1>3
  <2> HIDE DEF m
  <2>2. Reads(body, off[k], Encoded(parts[m])) /\ parts[m] \in AllParts
    <3>1. Reads(body, off[m - 1], Encoded(parts[m]))
      BY <2>1 DEF Parted
    <3> QED
      BY <2>1, <3>1
  <2>3. Begins(body, parts[m], off[k])
    BY <1>1, <2>2, PartBegins
  <2> QED
    BY <1>1, <2>3, Zenon DEF Begins
<1> QED
  BY <1>2, <1>3

LEMMA PlacesAdd ==
  ASSUME NEW x \in Nat, NEW b \in Nat, NEW h \in Nat, NEW c \in Nat
  PROVE  LET n == x + 2 + b
             y == x + (b + 6 + h + c)
         IN  /\ n \in Nat /\ n + 2 + h \in Nat /\ n + 2 + h + c \in Nat /\ y \in Nat
             /\ n + 2 + h + c + 2 = y /\ n + 2 + h + c + 2 + 2 = y + 2
             /\ n + 2 + h + (c + (4 + b)) = y + 2 + b
  OBVIOUS

LEMMA BetweenBoundaries ==
  ASSUME NEW part \in AllParts, NEW body \in Seq(Wire), NEW x \in Nat,
         Reads(body, x, Encoded(part)), Bounded(body, x + Len(Encoded(part)))
  PROVE  /\ x + 2 + Len(Boundary) \in Nat
         /\ Placed(body, part, x + 2 + Len(Boundary))
         /\ After(part, x + 2 + Len(Boundary)) = x + Len(Encoded(part)) + 2 + Len(Boundary)
<1> DEFINE B == Len(Boundary)
           h == Len(Headers(part))
           c == Len(part.content)
           n == x + 2 + B
           y == x + (B + 6 + h + c)
           data == n + 2 + h
           end == data + c
<1>1. Begins(body, part, x) /\ Len(Encoded(part)) = B + 6 + h + c
  BY PartBegins
<1>2. B \in Nat /\ h \in Nat /\ c \in Nat
  BY DelimiterIs, Texts
<1>3. Len(Sent(part)) = c + (4 + B)
  <2>1. part.content \in Seq(Bytes)
    BY DEF AllParts
  <2>2. Len(Sent(part)) = c + Len(Delimiter)
    BY <2>1, SentIs, Zenon
  <2>3. Len(Delimiter) = 4 + B
    BY DelimiterIs, Zenon
  <2> QED
    BY <2>2, <2>3, Zenon
<1>4. x + Len(Encoded(part)) = y /\ Bounded(body, y)
  BY <1>1, Zenon
<1> HIDE DEF B, h, c
<1>5. /\ n \in Nat /\ data \in Nat /\ end \in Nat /\ y \in Nat
      /\ end + 2 = y /\ end + 2 + 2 = y + 2 /\ n + 2 + h + (c + (4 + B)) = y + 2 + B
  BY <1>2, PlacesAdd
<1>6. /\ Reads(body, n, LineEnd) /\ Reads(body, n + 2, Headers(part))
      /\ Reads(body, data, part.content) /\ Reads(body, end, LineEnd)
  BY <1>1, Zenon DEF Begins, B, h, c
<1>7. end = data + Len(part.content)
  BY DEF c
<1> HIDE DEF n, y, data, end
<1>8. Reads(body, end + 2, Dashes) /\ Reads(body, end + 2 + 2, Boundary) /\ y + 2 + B < Len(body)
  BY <1>4, <1>5, Zenon DEF Bounded, B
<1>9. Reads(body, data, Sent(part))
  BY <1>5, <1>6, <1>7, <1>8, SentRead
<1>10. After(part, n) = y + 2 + B
  BY <1>3, <1>5, Zenon DEF After, h
<1>11. Placed(body, part, n)
  <2>1. Reads(body, n + 2 + Len(Headers(part)), Sent(part))
    BY <1>9, Zenon DEF data, h
  <2>2. After(part, n) < Len(body)
    BY <1>8, <1>10, Zenon
  <2> QED
    BY <1>6, <2>1, <2>2, Zenon DEF Placed
<1> QED
  BY <1>4, <1>5, <1>10, <1>11, Zenon DEF n, B

LEMMA PartPlaced ==
  ASSUME NEW parts \in Seq(AllParts), NEW body \in Seq(Wire), NEW off,
         Parted(body, parts, off), Closed(body, off[Len(parts)]), NEW k \in 1 .. Len(parts)
  PROVE  LET n == off[k - 1] + 2 + Len(Boundary)
         IN  /\ n \in Nat /\ Placed(body, parts[k], n)
             /\ After(parts[k], n) = off[k] + 2 + Len(Boundary)
<1>1. parts[k] \in AllParts /\ k - 1 \in 0 .. Len(parts) /\ k \in 0 .. Len(parts)
  OBVIOUS
<1>2. off[k - 1] \in Nat /\ Bounded(body, off[k])
  BY <1>1, BoundedIs
<1>3. Reads(body, off[k - 1], Encoded(parts[k])) /\ off[k] = off[k - 1] + Len(Encoded(parts[k]))
  BY DEF Parted
<1>4. Bounded(body, off[k - 1] + Len(Encoded(parts[k])))
  BY <1>2, <1>3, Zenon
<1>5. /\ off[k - 1] + 2 + Len(Boundary) \in Nat
      /\ Placed(body, parts[k], off[k - 1] + 2 + Len(Boundary))
      /\ After(parts[k], off[k - 1] + 2 + Len(Boundary))
           = off[k - 1] + Len(Encoded(parts[k])) + 2 + Len(Boundary)
  BY <1>1, <1>2, <1>3, <1>4, BetweenBoundaries
<1> QED
  BY <1>3, <1>5, Zenon

LEMMA PartsRead ==
  ASSUME NEW parts \in Seq(AllParts), \A k \in 1 .. Len(parts) : Plain(parts[k]),
         NEW body \in Seq(Wire), NEW a, Fed(a, body), NEW off, Parted(body, parts, off),
         Closed(body, off[Len(parts)]), NEW k \in 0 .. Len(parts)
  PROVE  Between(a[off[k] + 2 + Len(Boundary)], parts, k, off[k] + 2 + Len(Boundary))
<1> DEFINE N == Len(parts)
           at(i) == off[i] + 2 + Len(Boundary)
           Good == {i \in 0 .. N : Between(a[at(i)], parts, i, at(i))}
<1>1. N \in Nat /\ 0 \in 0 .. N
  OBVIOUS
<1>2. 0 \in Good
  <2>1. off[0] = 0
    BY DEF Parted
  <2>2. Bounded(body, 0)
    <3>1. Bounded(body, off[0])
      BY <1>1, BoundedIs
    <3> QED
      BY <2>1, <3>1
  <2>3. 0 + 2 = 2
    OBVIOUS
  <2>4. at(0) = 2 + Len(Boundary)
    BY <2>1, <2>3, Zenon
  <2>5. Reads(body, 0, Dashes) /\ Reads(body, 2, Boundary) /\ 2 + Len(Boundary) < Len(body)
    BY <2>2, <2>3, Zenon DEF Bounded
  <2>6. Opened(a[2 + Len(Boundary)], 2 + Len(Boundary))
    BY <2>5, BoundaryRead
  <2>7. Between(a[2 + Len(Boundary)], parts, 0, 2 + Len(Boundary))
    BY <2>6, FirstBetween
  <2> QED
    BY <1>1, <2>4, <2>7
<1>3. ASSUME NEW i \in 1 .. N, i - 1 \in Good
      PROVE  i \in Good
  <2> DEFINE n == at(i - 1)
             part == parts[i]
  <2>1. i \in 0 .. N /\ Between(a[n], parts, i - 1, n) /\ Plain(part)
    BY <1>1, <1>3
  <2>2. n \in Nat /\ Placed(body, part, n) /\ After(part, n) = at(i)
    BY PartPlaced, Zenon
  <2> HIDE DEF n, part
  <2>3. part = parts[i]
    BY DEF part
  <2>4. Between(a[After(part, n)], parts, i, After(part, n))
    BY <2>1, <2>2, <2>3, PartRead
  <2> HIDE DEF at
  <2>5. Between(a[at(i)], parts, i, at(i))
    BY <2>2, <2>4, Zenon
  <2> QED
    BY <2>1, <2>5
<1>4. 0 .. N \subseteq Good
  <2> HIDE DEF Good
  <2> QED
    BY <1>1, <1>2, <1>3, UpTo
<1> QED
  BY <1>4

(* The last delimiter ends the body: what follows it changes nothing.      *)
Finished(p, q) ==
  /\ q \in Parsers /\ q.state = "PARSING_FINISHED"
  /\ q.calls = p.calls /\ q.params = p.params
LEMMA FinishedStays ==
  ASSUME NEW p, NEW q, Finished(p, q), NEW b, NEW length
  PROVE  Finished(p, Feed(q, b, length))
<1> DEFINE n == q.parsed + 1
           r == [q EXCEPT !.parsed = n]
<1>1. q \in Parsers /\ q.state = "PARSING_FINISHED" /\ q.calls = p.calls /\ q.params = p.params
  BY DEF Finished
<1>2. \A last : Parse(q, b, last, length) = q
  BY <1>1 DEF Parse
<1>3. Feed(q, b, length) = r
  <2> HIDE DEF r
  <2>1. Feed(q, b, length) = [q EXCEPT !.parsed = @ + 1]
    BY <1>2, Zenon DEF Feed
  <2> QED
    BY <2>1 DEF r
<1>4. n \in Nat
  <2>1. q.parsed \in Nat
    BY <1>1, Zenon DEF Parsers
  <2> QED
    BY <2>1, Successor, Zenon
<1> HIDE DEF n
<1>5. r \in Parsers /\ r.state = q.state /\ r.calls = q.calls /\ r.params = q.params
  BY <1>1, <1>4 DEF Parsers
<1> QED
  BY <1>1, <1>3, <1>5, Zenon DEF Finished

LEMMA LastRead ==
  ASSUME NEW p \in Parsers, p.state = "DASH3_OR_RETURN2", NEW length, length = p.parsed + 4
  PROVE  Finished(p, Feed(p, "-", length))
<1> DEFINE f == "PARSING_FINISHED"
           q == Turned(p, f)
           r == Feed(p, "-", length)
<1>1. Parse(p, "-", FALSE, length) = AfterBoundary(p, "-", FALSE, length)
  BY DEF Parse
<1>2. AfterBoundary(p, "-", FALSE, length) = q
  BY BytesApart DEF AfterBoundary, Turned
<1>3. f \in ParserStates
  BY DEF ParserStates
<1>4. ~ (p.parsed + 1 = length)
  <2>1. p.parsed \in Nat
    BY DEF Parsers
  <2> QED
    BY <2>1
<1> HIDE DEF f
<1>5. Looks(p, q) /\ q.state = f
  BY <1>3, StateSet
<1> HIDE DEF q
<1>6. q \in Parsers /\ q = Parse(p, "-", FALSE, length)
  BY <1>1, <1>2, <1>5, Zenon DEF Looks
<1>7. Advanced(q, r)
  BY <1>4, <1>6, FeedIs
<1> HIDE DEF r
<1>8. Finished(p, r)
  BY <1>5, <1>7, Zenon DEF Finished, Looks, Advanced, f
<1> QED
  BY <1>8 DEF r

LEMMA BodyEnded ==
  ASSUME NEW body \in Seq(Wire), NEW a, Fed(a, body), NEW m \in Nat,
         a[m] \in Parsers, a[m].state = "DASH3_OR_RETURN2", a[m].parsed = m,
         Reads(body, m, LastLine), Len(body) = m + 4
  PROVE  Finished(a[m], a[Len(body)])
<1> DEFINE length == Len(body)
<1>1. LastLine[1] = "-" /\ Len(LastLine) = 4 /\ Len(LastLine) \in Nat
  BY DEF LastLine
<1>2. Goes(a, m, LastLine, length)
  BY <1>1, FedText
<1>3. length = a[m].parsed + 4
  OBVIOUS
<1>8. m + 4 = length
  OBVIOUS
<1> HIDE DEF length
<1>4. /\ a[m + 1] = Feed(a[m], LastLine[1], length) /\ a[m + 2] = Feed(a[m + 1], LastLine[2], length)
      /\ a[m + 3] = Feed(a[m + 2], LastLine[3], length) /\ a[m + 4] = Feed(a[m + 3], LastLine[4], length)
  <2>1. \A i \in {1, 2, 3, 4} : a[m + i] = Feed(a[m + i - 1], LastLine[i], length)
    BY <1>1, <1>2 DEF Goes
  <2>2. m + 1 - 1 = m /\ m + 2 - 1 = m + 1 /\ m + 3 - 1 = m + 2 /\ m + 4 - 1 = m + 3
    OBVIOUS
  <2>3. /\ a[m + 1] = Feed(a[m + 1 - 1], LastLine[1], length)
        /\ a[m + 2] = Feed(a[m + 2 - 1], LastLine[2], length)
        /\ a[m + 3] = Feed(a[m + 3 - 1], LastLine[3], length)
        /\ a[m + 4] = Feed(a[m + 4 - 1], LastLine[4], length)
    BY <2>1, Zenon
  <2> QED
    BY <2>2, <2>3, Zenon
<1> DEFINE p == a[m]
           p1 == a[m + 1]
           p2 == a[m + 2]
           p3 == a[m + 3]
           p4 == a[m + 4]
<1>5. p1 = Feed(p, "-", length)
  BY <1>1, <1>4, Zenon
<1>6. Finished(p, p1)
  <2>1. Finished(p, Feed(p, "-", length))
    BY <1>3, LastRead
  <2> QED
    BY <1>5, <2>1, Zenon
<1> HIDE DEF p, p1, p2, p3, p4
<1>7. Finished(p, p2)
  BY <1>4, <1>6, FinishedStays, Zenon DEF p1, p2
<1>9. Finished(p, p3)
  BY <1>4, <1>7, FinishedStays, Zenon DEF p2, p3
<1>10. Finished(p, p4)
  BY <1>4, <1>9, FinishedStays, Zenon DEF p3, p4
<1> QED
  BY <1>8, <1>10, Zenon DEF p, p4, length

(* Every body, whatever its parts are made of.                             *)
LEMMA BodyArrives ==
  ASSUME NEW parts \in Seq(AllParts), parts # <<>>, \A k \in 1 .. Len(parts) : Plain(parts[k])
  PROVE  ArrivesAsSent(parts)
<1> DEFINE body == Encode(parts)
           N == Len(parts)
           B == Len(Boundary)
<1>1. body \in Seq(Wire)
  BY EncodeIs
<1>2. PICK off : Parted(body, parts, off) /\ Closed(body, off[N])
  BY EncodeIs
<1> HIDE DEF body
<1>3. PICK a : Fed(a, body) /\ Parsed(body) = a[Len(body)]
  BY <1>1, ParsedIs
<1> DEFINE m == off[N] + 2 + B
           p == a[m]
           q == a[Len(body)]
<1>4. N \in Nat /\ N # 0 /\ N \in 0 .. N
  OBVIOUS
<1>5. Between(p, parts, N, m)
  BY <1>1, <1>2, <1>3, <1>4, PartsRead
<1>6. off[N] \in Nat /\ B \in Nat
  BY <1>2, <1>4, DelimiterIs DEF Parted
<1>7. m \in Nat
  BY <1>6
<1>8. Reads(body, m, LastLine) /\ Len(body) = m + 4
  BY <1>2, Zenon DEF Closed
<1> HIDE DEF m
<1>9. /\ p \in Parsers /\ p.parsed = m /\ p.state = "DASH3_OR_RETURN2"
      /\ Told(p.calls, FilesIn(parts), FilesUpTo(parts, N), 0)
      /\ FieldsOf(p.params) = FieldsUpTo(parts, N)
  BY <1>4, <1>5, Zenon DEF Between
<1>10. Finished(p, q)
  BY <1>1, <1>3, <1>7, <1>8, <1>9, BodyEnded
<1> HIDE DEF p, q, N, B
<1>11. q.state = "PARSING_FINISHED" /\ q.calls = p.calls /\ q.params = p.params
  BY <1>10 DEF Finished
<1>12. FilesUpTo(parts, N) = Len(FilesIn(parts)) /\ FieldsUpTo(parts, N) = Gave(FieldsIn(parts))
  BY FilesInOrder, FieldsInOrder DEF N
<1>13. /\ \A i \in DOMAIN q.calls : ContinuesAFile(FilesIn(parts), q.calls, i)
       /\ FilesEndedBefore(q.calls, Len(q.calls) + 1) = Len(FilesIn(parts))
  BY <1>9, <1>11, <1>12, Zenon DEF Told
<1>14. FilesArriveAsSent(parts, q.calls)
  BY <1>13, Zenon DEF FilesArriveAsSent
<1>15. FieldsOf(q.params) = [i \in DOMAIN FieldsIn(parts) |->
          [name |-> FieldsIn(parts)[i].name, value |-> FieldsIn(parts)[i].content]]
  <2>1. FieldsOf(q.params) = Gave(FieldsIn(parts))
    BY <1>9, <1>11, <1>12, Zenon
  <2> QED
    BY <2>1, Zenon DEF Gave, Given
<1>16. NothingIsLeftBehind(parts, q)
  BY <1>11, <1>13, <1>15, Zenon DEF NothingIsLeftBehind
<1>17. Parsed(Encode(parts)) = q
  BY <1>3 DEF body, q
<1>18. ArrivesAsSent(parts)
  BY <1>14, <1>16, <1>17, Zenon DEF ArrivesAsSent
<1> QED
  BY <1>18

(* In particular what a client may send in these bounds.                   *)
LEMMA UploadsArrive ==
  ASSUME NEW parts \in Uploads
  PROVE  ArrivesAsSent(parts)
<1>1. ASSUME NEW n, NEW part \in Parts(n)
      PROVE  part \in AllParts /\ Plain(part)
  <2>1. part.name \in FieldNames \cup FileNames /\ part.content \in Contents(n)
        /\ part = [name |-> part.name, content |-> part.content]
    BY DEF Parts
  <2>2. part.content \in BoundedSeq(Bytes, n)
        /\ ~ Occurs(Delimiter, SubSeq(part.content \o Delimiter, 1, Len(part.content) + Len(Delimiter) - 1))
    BY <2>1 DEF Contents
  <2>3. part.content \in Seq(Bytes)
    <3>1. BoundedSeq(Bytes, n) = UNION {[1 .. m -> Bytes] : m \in 0 .. n}
      BY DEF BoundedSeq, SeqOf
    <3>2. PICK m \in 0 .. n : part.content \in [1 .. m -> Bytes]
      BY <2>2, <3>1
    <3>3. m \in Nat
      OBVIOUS
    <3> QED
      BY <3>2, <3>3
  <2> QED
    BY <2>1, <2>2, <2>3 DEF AllParts, Plain, Sent
<1>2. CASE parts \in {<<p>> : p \in Parts(FirstLength)}
  <2>1. PICK p \in Parts(FirstLength) : parts = <<p>>
    BY <1>2
  <2>2. p \in AllParts /\ Plain(p)
    BY <1>1
  <2>3. parts \in Seq(AllParts) /\ parts # <<>> /\ \A k \in 1 .. Len(parts) : Plain(parts[k])
    BY <2>1, <2>2
  <2> QED
    BY <2>3, BodyArrives
<1>3. CASE parts \in {<<p, q>> : p \in Parts(SecondLength), q \in Parts(SecondLength)}
  <2>1. PICK p \in Parts(SecondLength), q \in Parts(SecondLength) : parts = <<p, q>>
    BY <1>3
  <2>2. p \in AllParts /\ Plain(p) /\ q \in AllParts /\ Plain(q)
    BY <1>1
  <2>3. parts \in Seq(AllParts) /\ parts # <<>> /\ \A k \in 1 .. Len(parts) : Plain(parts[k])
    BY <2>1, <2>2
  <2> QED
    BY <2>3, BodyArrives
<1> QED
  BY <1>2, <1>3 DEF Uploads

(* Whatever the parts are made of, pieces of the delimiter included, and   *)
(* wherever they end in a buffer: the body of an upload is taken apart as  *)
(* it was put together (MultipartProcessor.cpp:147-342), for bodies of any *)
(* number of parts of any length, any boundary and any size of the         *)
(* buffers.                                                                *)
THEOREM EveryBodyArrives ==
  ASSUME NEW parts \in Seq(AllParts), parts # <<>>, \A k \in 1 .. Len(parts) : Plain(parts[k])
  PROVE  ArrivesAsSent(parts)
  BY BodyArrives

(* In every state: the upload that a client sends arrives as it was sent.  *)
THEOREM UploadsAlwaysArrive == MCSpec => []UploadsArriveAsSent
<1>1. MCInit => UploadsArriveAsSent
  <2> SUFFICES ASSUME MCInit, sent # <<>>
               PROVE  ArrivesAsSent(sent)
    BY DEF UploadsArriveAsSent
  <2>1. sent \in Uploads
    BY Zenon DEF MCInit
  <2> QED
    BY <2>1, UploadsArrive
<1>2. UploadsArriveAsSent /\ [MCNext]_<<vars, restVars, httpVars, sent>> => UploadsArriveAsSent'
  <2> SUFFICES ASSUME UploadsArriveAsSent, [MCNext]_<<vars, restVars, httpVars, sent>>
               PROVE  UploadsArriveAsSent'
    OBVIOUS
  <2>1. sent' = sent
    BY Zenon DEF MCNext
  <2> QED
    BY <2>1 DEF UploadsArriveAsSent
<1> QED
  BY <1>1, <1>2, PTL DEF MCSpec

=============================================================================
