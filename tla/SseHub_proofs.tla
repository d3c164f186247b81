--------------------------- MODULE SseHub_proofs ---------------------------
(***************************************************************************)
(* What the stream promises for any number of sockets, any mailbox and any *)
(* losses: nothing goes to a connection that was cut, and the one-off      *)
(* events arrive once and in their order.                                  *)
(***************************************************************************)
EXTENDS SseHub, SequenceTheorems, WellFoundedInduction, TLAPS

(* A socket belongs to one connection, and only a socket that does has a   *)
(* peer or is closing: what onClose cleared stays clear.                   *)
SocketInv ==
  /\ session \in [Sockets -> Nat] /\ sessions \in Nat
  /\ closing \in [Sockets -> {"no", "fresh", "aged"}]
  /\ peer \in [Sockets -> {"none", "reading", "stalled", "gone"}]
  /\ view = [s \in Sockets |-> view[s]]
  /\ \A s \in Sockets :
       session[s] = 0 => closing[s] = "no" /\ peer[s] = "none"

(* What a step may do to the view of a connection that was cut.            *)
Silent(s) ==
  closing[s] # "no" /\ session'[s] = session[s] => view'[s] = view[s]

(* At boot there are no connections.                                       *)
LEMMA NoConnections == Init => SocketInv
  BY DEF Init, SocketInv

(* The end of a connection gives its socket back with nothing pending.     *)
LEMMA EndsOK ==
  ASSUME SocketInv, NEW t \in Sockets, session[t] # 0, Ends(t)
  PROVE  SocketInv' /\ \A s \in Sockets : Silent(s)
  BY DEF Ends, SocketInv, Silent

(* Steps of tasks that never touch the connections.                        *)
LEMMA ElsewhereOK ==
  ASSUME SocketInv, UNCHANGED clientVars
  PROVE  SocketInv' /\ \A s \in Sockets : Silent(s)
  BY DEF clientVars, SocketInv, Silent

(* A beat drops the connections whose peer has gone, and writes nothing.   *)
LEMMA BeatOK ==
  ASSUME SocketInv, RunBeat
  PROVE  SocketInv' /\ \A s \in Sockets : Silent(s)
<1>1. UNCHANGED <<session, peer, view, sessions>>
  BY DEF RunBeat
<1>2. \/ UNCHANGED closing
      \/ closing' = [s \in Sockets |->
                       IF s \in Dead THEN "fresh"
                       ELSE IF closing[s] = "fresh" THEN "aged" ELSE closing[s]]
  BY DEF RunBeat, Reap
<1>3. closing' \in [Sockets -> {"no", "fresh", "aged"}]
  BY <1>2 DEF SocketInv
<1>4. \A s \in Sockets : session[s] = 0 => closing'[s] = "no"
  BY <1>2 DEF SocketInv, Dead
<1> QED
  BY <1>1, <1>3, <1>4 DEF SocketInv, Silent

(* A batch goes to the connections that receive, and cuts only those.      *)
LEMMA SendOK ==
  ASSUME SocketInv, SendFrames
  PROVE  SocketInv' /\ \A s \in Sockets : Silent(s)
<1>1. UNCHANGED <<session, peer, sessions>>
  BY DEF SendFrames
<1>2. PICK took \in [Receiving -> 0 .. Len(batch)] :
        LET cut == {s \in Receiving : took[s] < Len(batch)}
        IN  /\ view' = [s \in Sockets |->
                          IF s \in Receiving
                          THEN Seen(view[s], SubSeq(batch, 1, took[s]))
                          ELSE view[s]]
            /\ closing' = [s \in Sockets |->
                             IF s \in cut THEN "fresh" ELSE closing[s]]
  BY DEF SendFrames
<1> DEFINE cut == {s \in Receiving : took[s] < Len(batch)}
<1>3. /\ closing' = [s \in Sockets |-> IF s \in cut THEN "fresh" ELSE closing[s]]
      /\ \A s \in cut : session[s] # 0
      /\ \A s \in Sockets : closing[s] # "no" => s \notin Receiving
  BY <1>2 DEF Receiving
<1> HIDE DEF cut
<1>4. /\ closing' \in [Sockets -> {"no", "fresh", "aged"}]
      /\ \A s \in Sockets : session[s] = 0 => closing'[s] = "no"
  BY <1>3 DEF SocketInv
<1>5. /\ view' = [s \in Sockets |-> view'[s]]
      /\ \A s \in Sockets : closing[s] # "no" => view'[s] = view[s]
  BY <1>2, <1>3
<1> QED
  BY <1>1, <1>4, <1>5 DEF SocketInv, Silent

(* A new connection takes a socket nothing was pending for.                *)
LEMMA ConnectOK ==
  ASSUME SocketInv, NEW t \in Sockets, Connect(t)
  PROVE  SocketInv' /\ \A s \in Sockets : Silent(s)
<1>1. /\ session[t] = 0
      /\ sessions' = sessions + 1
      /\ session' = [session EXCEPT ![t] = sessions + 1]
      /\ \E p \in {"reading", "stalled"} : peer' = [peer EXCEPT ![t] = p]
      /\ \E c \in {"no", "fresh"} : closing' = [closing EXCEPT ![t] = c]
      /\ \E v : view' = [view EXCEPT ![t] = v]
  BY DEF Connect
<1>2. sessions + 1 # 0 /\ sessions + 1 \in Nat
  BY DEF SocketInv
<1> QED
  BY <1>1, <1>2 DEF SocketInv, Silent

(* No step writes to a connection that was cut or mixes up the sockets.    *)
LEMMA SocketStep ==
  ASSUME SocketInv, [Next]_vars
  PROVE  SocketInv' /\ \A s \in Sockets : Silent(s)
<1>1. CASE UNCHANGED clientVars
  BY <1>1, ElsewhereOK
<1>2. CASE RunBeat
  BY <1>2, BeatOK
<1>3. CASE SendFrames
  BY <1>3, SendOK
<1>4. CASE RunClose
  BY <1>4, EndsOK, ElsewhereOK DEF RunClose
<1>5. CASE \E s \in Sockets : ServerCloses(s)
  BY <1>5, EndsOK DEF ServerCloses
<1>6. CASE \E s \in Sockets : Connect(s)
  BY <1>6, ConnectOK
<1>7. CASE \E s \in Sockets : PeerStalls(s) \/ PeerGoes(s)
  BY <1>7 DEF PeerStalls, PeerGoes, PeerBecomes, SocketInv, Silent
<1>8. \/ UNCHANGED clientVars \/ RunBeat \/ SendFrames \/ RunClose
      \/ \E s \in Sockets : ServerCloses(s)
      \/ \E s \in Sockets : Connect(s)
      \/ \E s \in Sockets : PeerStalls(s) \/ PeerGoes(s)
  BY DEF Next, vars, StateChanges, Publish, Notify, PostDrain, PostDrainFails,
         Heartbeat, PostBeat, PostBeatFails, RunDrain, TakeFrames
<1> QED
  BY <1>1, <1>2, <1>3, <1>4, <1>5, <1>6, <1>7, <1>8

(* A stream that was cut carries nothing more, however many frames, closes *)
(* and new connections are on their way.                                   *)
THEOREM CutStreamsAreSilent == Spec => NothingAfterTheCut
<1>1. SocketInv /\ [Next]_vars => SocketInv'
  BY SocketStep
<1>2. SocketInv /\ [Next]_vars =>
        [\A s \in Sockets : Silent(s)]_vars
  BY SocketStep
<1>3. (\A s \in Sockets : Silent(s)) =>
        \A s \in Sockets :
          closing[s] # "no" /\ session'[s] = session[s] => view'[s] = view[s]
  BY DEF Silent
<1> QED
  BY <1>1, <1>2, <1>3, NoConnections, PTL DEF Spec, NothingAfterTheCut

(* Induction over Nat, stated for a set.                                   *)
LEMMA UpTo ==
  ASSUME NEW n \in Nat, NEW S,
         0 \in S,
         \A i \in 1 .. n : i - 1 \in S => i \in S
  PROVE  0 .. n \subseteq S
<1>1. SUFFICES ASSUME NEW Bad, Bad = (0 .. n) \ S, Bad # {}
               PROVE  FALSE
  OBVIOUS
<1>2. PICK m \in Bad : \A k \in Bad : ~ (<<k, m>> \in OpToRel(<, Nat))
  <2>1. Bad \subseteq Nat
    BY <1>1
  <2> QED
    BY <2>1, <1>1, NatLessThanWellFounded, WFMin, Zenon
<1>3. m \in 1 .. n /\ m - 1 \in 0 .. n
  BY <1>1
<1>4. m - 1 \notin S
  BY <1>1, <1>3
<1>5. m - 1 \in Bad
  BY <1>1, <1>3, <1>4
<1>6. <<m - 1, m>> \in OpToRel(<, Nat)
  BY <1>3 DEF OpToRel
<1> QED
  BY <1>2, <1>5, <1>6

(* What one unfolding of Picked computes.                                  *)
Unfold(frames, events, f) ==
  [k \in 0 .. Len(frames) |->
     IF k = 0 THEN <<>>
     ELSE IF frames[k].event \in events THEN Append(f[k - 1], frames[k]) ELSE f[k - 1]]

(* The recursion of Picked has a solution, and it is the only one.         *)
LEMMA PickedDefined ==
  ASSUME NEW A, NEW frames \in Seq(A), NEW events
  PROVE  /\ Picked(frames, events) = Unfold(frames, events, Picked(frames, events))
         /\ Picked(frames, events) \in [0 .. Len(frames) -> Seq(A)]
<1> DEFINE N == Len(frames)
           More(f, n) == IF frames[n].event \in events THEN Append(f[n - 1], frames[n])
                         ELSE f[n - 1]
           Sum(g, m) == g[0] = <<>> /\ \A i \in 1 .. m : g[i] = More(g, i)
           Reached == {m \in 0 .. N : \E g \in [0 .. N -> Seq(A)] : Sum(g, m)}
<1>0. N \in Nat /\ \A i \in 1 .. N : frames[i] \in A
  OBVIOUS
<1>s. <<>> \in Seq(A) /\ \A l \in Seq(A), x \in A : Append(l, x) \in Seq(A)
  OBVIOUS
<1> HIDE DEF N
<1>1. 0 \in Reached
  <2> DEFINE z == [i \in 0 .. N |-> <<>>]
  <2>1. z \in [0 .. N -> Seq(A)] /\ Sum(z, 0)
    BY <1>0, <1>s
  <2> HIDE DEF z, Sum
  <2>2. \E g \in [0 .. N -> Seq(A)] : Sum(g, 0)
    BY <2>1
  <2> QED
    BY <2>2, <1>0
<1>2. ASSUME NEW m \in 1 .. N, m - 1 \in Reached
      PROVE  m \in Reached
  <2>1. PICK g \in [0 .. N -> Seq(A)] : Sum(g, m - 1)
    BY <1>2
  <2> DEFINE h == [g EXCEPT ![m] = More(g, m)]
  <2>m. m \in 0 .. N /\ m - 1 \in 0 .. N /\ m # 0
    BY <1>0
  <2>2. h \in [0 .. N -> Seq(A)]
    <3>1. g[m - 1] \in Seq(A)
      BY <2>m
    <3>2. More(g, m) \in Seq(A)
      BY <3>1, <1>0, <1>s
    <3> HIDE DEF More
    <3> QED
      BY <3>2
  <2>3. h[0] = <<>>
    BY <2>1, <2>m, <1>0
  <2>4. ASSUME NEW i \in 1 .. m
        PROVE  h[i] = More(h, i)
    <3>0. i \in 0 .. N /\ i - 1 \in 0 .. N /\ i - 1 # m
      BY <1>0
    <3>1. CASE i = m
      BY <3>0, <3>1
    <3>2. CASE i # m
      <4>1. i \in 1 .. m - 1
        BY <3>2, <1>0
      <4> QED
        BY <3>0, <3>2, <4>1, <2>1
    <3> QED
      BY <3>1, <3>2
  <2>5. Sum(h, m)
    BY <2>3, <2>4
  <2> HIDE DEF h, Sum
  <2>6. \E f \in [0 .. N -> Seq(A)] : Sum(f, m)
    BY <2>2, <2>5
  <2> QED
    BY <2>6, <2>m
<1>3. N \in Reached
  <2> HIDE DEF Reached
  <2>1. 0 .. N \subseteq Reached
    BY <1>0, <1>1, <1>2, UpTo
  <2> QED
    BY <2>1, <1>0
<1>4. PICK g \in [0 .. N -> Seq(A)] : Sum(g, N)
  BY <1>3
<1>5. g = Unfold(frames, events, g)
  <2>1. \A n \in 0 .. N : n # 0 => n \in 1 .. N
    BY <1>0
  <2>2. \A n \in 0 .. N : g[n] = IF n = 0 THEN <<>> ELSE More(g, n)
    BY <1>4, <2>1
  <2> QED
    BY <2>2 DEF Unfold, N
<1>6. Picked(frames, events) = CHOOSE f : f = Unfold(frames, events, f)
  BY DEF Picked, Unfold
<1>7. Picked(frames, events) = Unfold(frames, events, Picked(frames, events))
  BY <1>5, <1>6
<1> DEFINE e == Picked(frames, events)
<1>8. /\ e[0] = <<>>
      /\ \A n \in 1 .. N : e[n] = More(e, n)
      /\ e = [n \in 0 .. N |-> e[n]]
  <2> HIDE DEF e
  <2>1. e = Unfold(frames, events, e)
    BY <1>7 DEF e
  <2>2. \A n \in 1 .. N : n \in 0 .. N /\ n # 0
    BY <1>0
  <2>3. 0 \in 0 .. N
    BY <1>0
  <2> QED
    BY <2>1, <2>2, <2>3 DEF Unfold, N
<1> DEFINE Typed == {n \in 0 .. N : e[n] \in Seq(A)}
<1>9. 0 .. N \subseteq Typed
  <2> HIDE DEF e
  <2>1. 0 \in Typed
    <3>1. e[0] \in Seq(A)
      <4>1. e[0] = <<>>
        BY <1>8
      <4> QED
        BY <4>1, <1>s
    <3>2. 0 \in 0 .. N
      BY <1>0
    <3> QED
      BY <3>1, <3>2
  <2>2. ASSUME NEW i \in 1 .. N, i - 1 \in Typed
        PROVE  i \in Typed
    <3>1. e[i - 1] \in Seq(A) /\ i \in 0 .. N /\ frames[i] \in A
      BY <2>2, <1>0
    <3>2. e[i] = More(e, i)
      BY <1>8
    <3>3. More(e, i) \in Seq(A)
      BY <3>1, <1>s
    <3> QED
      BY <3>1, <3>2, <3>3
  <2> HIDE DEF Typed
  <2> QED
    BY <2>1, <2>2, <1>0, UpTo
<1>10. e \in [0 .. N -> Seq(A)]
  <2> HIDE DEF e
  <2>1. \A n \in 0 .. N : e[n] \in Seq(A)
    BY <1>9
  <2> QED
    BY <1>8, <2>1
<1> QED
  BY <1>7, <1>10 DEF N

LEMMA PickedSteps ==
  ASSUME NEW A, NEW frames \in Seq(A), NEW events
  PROVE  /\ Picked(frames, events)[0] = <<>>
         /\ \A n \in 1 .. Len(frames) :
              Picked(frames, events)[n] =
                IF frames[n].event \in events
                THEN Append(Picked(frames, events)[n - 1], frames[n])
                ELSE Picked(frames, events)[n - 1]
         /\ \A n \in 0 .. Len(frames) : Picked(frames, events)[n] \in Seq(A)
<1> DEFINE e == Picked(frames, events)
           N == Len(frames)
<1>1. N \in Nat
  OBVIOUS
<1>2. e = Unfold(frames, events, e) /\ e \in [0 .. N -> Seq(A)]
  BY PickedDefined
<1> HIDE DEF e, N
<1>3. /\ \A n \in 1 .. N : n \in 0 .. N /\ n # 0
      /\ 0 \in 0 .. N
  BY <1>1
<1>4. \A n \in 1 .. N : e[n] = IF frames[n].event \in events THEN Append(e[n - 1], frames[n])
                               ELSE e[n - 1]
  BY <1>2, <1>3 DEF Unfold, N
<1>5. e[0] = <<>>
  BY <1>2, <1>3 DEF Unfold, N
<1>6. \A n \in 0 .. N : e[n] \in Seq(A)
  BY <1>2
<1> QED
  BY <1>4, <1>5, <1>6 DEF e, N

(* Two lists that agree on their first n frames agree on what is picked    *)
(* among those.                                                            *)
LEMMA PickedAgree ==
  ASSUME NEW A, NEW l \in Seq(A), NEW m \in Seq(A), NEW events,
         NEW n \in Nat, n <= Len(l), n <= Len(m),
         \A i \in 1 .. n : l[i] = m[i]
  PROVE  \A k \in 0 .. n : Picked(l, events)[k] = Picked(m, events)[k]
<1> DEFINE e == Picked(l, events)
           d == Picked(m, events)
           Same == {k \in 0 .. n : e[k] = d[k]}
<1>0. Len(l) \in Nat /\ Len(m) \in Nat
  OBVIOUS
<1>1. /\ e[0] = <<>>
      /\ \A k \in 1 .. Len(l) :
           e[k] = IF l[k].event \in events THEN Append(e[k - 1], l[k]) ELSE e[k - 1]
  BY PickedSteps
<1>2. /\ d[0] = <<>>
      /\ \A k \in 1 .. Len(m) :
           d[k] = IF m[k].event \in events THEN Append(d[k - 1], m[k]) ELSE d[k - 1]
  BY PickedSteps
<1> HIDE DEF e, d
<1>3. 0 \in Same
  BY <1>1, <1>2
<1>4. ASSUME NEW k \in 1 .. n, k - 1 \in Same
      PROVE  k \in Same
  <2>1. k \in 1 .. Len(l) /\ k \in 1 .. Len(m) /\ k \in 0 .. n /\ l[k] = m[k]
    BY <1>0
  <2>2. e[k - 1] = d[k - 1]
    BY <1>4
  <2> QED
    BY <1>1, <1>2, <2>1, <2>2
<1> HIDE DEF Same
<1>5. 0 .. n \subseteq Same
  BY <1>3, <1>4, UpTo
<1> QED
  BY <1>5 DEF Same, e, d

(* Picking goes frame by frame from the end.                               *)
LEMMA OfEmpty ==
  ASSUME NEW events
  PROVE  Of(<<>>, events) = <<>>
<1>1. <<>> \in Seq(Frames) /\ Len(<<>>) = 0
  OBVIOUS
<1>2. \A l \in Seq(Frames) : Picked(l, events)[0] = <<>>
  BY PickedSteps
<1> QED
  BY <1>1, <1>2, Zenon DEF Of

LEMMA OfType ==
  ASSUME NEW A, NEW events, NEW l \in Seq(A)
  PROVE  Of(l, events) \in Seq(A)
<1>1. Len(l) \in 0 .. Len(l)
  OBVIOUS
<1> QED
  BY <1>1, PickedSteps DEF Of

LEMMA OfAppend ==
  ASSUME NEW A, NEW events, NEW l \in Seq(A), NEW x \in A
  PROVE  Of(Append(l, x), events) = IF x.event \in events THEN Append(Of(l, events), x)
                                    ELSE Of(l, events)
<1> DEFINE w == Append(l, x)
           n == Len(l)
<1>1. /\ w \in Seq(A) /\ n \in Nat /\ Len(w) = n + 1
      /\ w[n + 1] = x /\ \A i \in 1 .. n : l[i] = w[i]
  OBVIOUS
<1> HIDE DEF w, n
<1>2. Picked(l, events)[n] = Picked(w, events)[n]
  <2>1. n <= Len(l) /\ n <= Len(w) /\ n \in 0 .. n
    BY <1>1 DEF n
  <2> QED
    BY <1>1, <2>1, PickedAgree
<1>3. Picked(w, events)[n + 1] = IF w[n + 1].event \in events
                                 THEN Append(Picked(w, events)[n + 1 - 1], w[n + 1])
                                 ELSE Picked(w, events)[n + 1 - 1]
  <2>1. n + 1 \in 1 .. Len(w)
    BY <1>1
  <2> QED
    BY <1>1, <2>1, PickedSteps
<1>4. n + 1 - 1 = n
  BY <1>1
<1> QED
  BY <1>1, <1>2, <1>3, <1>4 DEF Of, w, n

LEMMA OfSub ==
  ASSUME NEW A, NEW events, NEW l \in Seq(A), NEW n \in Nat, n <= Len(l)
  PROVE  Of(SubSeq(l, 1, n), events) = Picked(l, events)[n]
<1> DEFINE w == SubSeq(l, 1, n)
<1>1. w \in Seq(A) /\ Len(w) = n /\ \A i \in 1 .. n : w[i] = l[i]
  <2>1. 1 \in Nat /\ n <= Len(l)
    OBVIOUS
  <2> QED
    BY <2>1, SubSeqProperties
<1> HIDE DEF w
<1>2. n \in 0 .. n /\ n <= Len(w)
  BY <1>1
<1>3. Picked(w, events)[n] = Picked(l, events)[n]
  BY <1>1, <1>2, PickedAgree
<1> QED
  BY <1>1, <1>3 DEF Of, w

(* What is picked of a beginning is a beginning of what is picked.         *)
LEMMA OfPrefix ==
  ASSUME NEW A, NEW l \in Seq(A), NEW events, NEW n \in Nat, n <= Len(l)
  PROVE  /\ Len(Of(SubSeq(l, 1, n), events)) <= Len(Of(l, events))
         /\ \A i \in 1 .. Len(Of(SubSeq(l, 1, n), events)) :
              Of(SubSeq(l, 1, n), events)[i] = Of(l, events)[i]
<1> DEFINE e == Picked(l, events)
           N == Len(l)
           p == e[n]
           Long(q) == Len(p) <= Len(q) /\ \A i \in 1 .. Len(p) : p[i] = q[i]
           Good == {k \in 0 .. N : k >= n => Long(e[k])}
<1>0. N \in Nat /\ n <= N /\ \A k \in 1 .. N : l[k] \in A
  OBVIOUS
<1>1. /\ \A k \in 1 .. N :
           e[k] = IF l[k].event \in events THEN Append(e[k - 1], l[k]) ELSE e[k - 1]
      /\ \A k \in 0 .. N : e[k] \in Seq(A)
  BY PickedSteps
<1>2. Of(SubSeq(l, 1, n), events) = p /\ Of(l, events) = e[N]
  BY OfSub DEF Of
<1> HIDE DEF e, N
<1>3. p \in Seq(A)
  BY <1>0, <1>1
<1>4. Long(p)
  BY <1>3
<1>5. ASSUME NEW k \in 1 .. N, k - 1 \in Good
      PROVE  k \in Good
  <2>0. k \in 0 .. N /\ k - 1 \in 0 .. N /\ k - 1 \in Nat /\ k \in Nat
    BY <1>0
  <2>1. CASE k < n
    BY <2>0, <2>1
  <2>2. CASE k = n
    BY <2>0, <2>2, <1>4
  <2>3. CASE k > n
    <3>1. Long(e[k - 1]) /\ e[k - 1] \in Seq(A) /\ l[k] \in A
      <4>1. k - 1 >= n
        BY <2>0, <2>3
      <4> QED
        BY <4>1, <1>0, <1>1, <1>5, <2>0
    <3>2. e[k] = Append(e[k - 1], l[k]) \/ e[k] = e[k - 1]
      BY <1>1
    <3> DEFINE q == e[k - 1]
               x == l[k]
    <3> HIDE DEF q, x
    <3>3. /\ Len(q) \in Nat /\ Len(p) \in Nat
          /\ Len(Append(q, x)) = Len(q) + 1
          /\ \A i \in 1 .. Len(q) : Append(q, x)[i] = q[i]
      BY <3>1, <1>3 DEF q, x
    <3>4. Long(Append(q, x))
      <4>1. Long(q)
        BY <3>1 DEF q
      <4>2. 1 .. Len(p) \subseteq 1 .. Len(q)
        BY <4>1, <3>3
      <4> HIDE DEF p
      <4> QED
        BY <3>3, <4>1, <4>2
    <3>5. Long(e[k])
      BY <3>1, <3>2, <3>4 DEF q, x
    <3> HIDE DEF Long
    <3> QED
      BY <3>5, <2>0
  <2> QED
    BY <2>0, <2>1, <2>2, <2>3
<1>6. 0 \in Good
  <2>1. 0 \in 0 .. N
    BY <1>0
  <2>2. 0 >= n => n = 0
    OBVIOUS
  <2> HIDE DEF Long
  <2> QED
    BY <2>1, <2>2, <1>4
<1> HIDE DEF Good
<1>7. 0 .. N \subseteq Good
  BY <1>0, <1>5, <1>6, UpTo
<1>8. Long(e[N])
  BY <1>0, <1>7 DEF Good
<1> QED
  BY <1>2, <1>8

(* Picking fewer from what was picked.                                     *)
LEMMA OfOf ==
  ASSUME NEW A, NEW l \in Seq(A), NEW some, NEW events, events \subseteq some
  PROVE  Of(Of(l, some), events) = Of(l, events)
<1> DEFINE d == Picked(l, some)
           e == Picked(l, events)
           N == Len(l)
           Good == {k \in 0 .. N : Of(d[k], events) = e[k]}
<1>0. N \in Nat /\ \A k \in 1 .. N : l[k] \in A
  OBVIOUS
<1>1. /\ d[0] = <<>>
      /\ \A k \in 1 .. N :
           d[k] = IF l[k].event \in some THEN Append(d[k - 1], l[k]) ELSE d[k - 1]
      /\ \A k \in 0 .. N : d[k] \in Seq(A)
  BY PickedSteps
<1>2. /\ e[0] = <<>>
      /\ \A k \in 1 .. N :
           e[k] = IF l[k].event \in events THEN Append(e[k - 1], l[k]) ELSE e[k - 1]
  BY PickedSteps
<1>3. Of(l, some) = d[N] /\ Of(l, events) = e[N]
  BY DEF Of
<1> HIDE DEF d, e, N
<1>4. 0 \in Good
  <2>1. Of(<<>>, events) = <<>>
    BY OfEmpty
  <2> QED
    BY <2>1, <1>0, <1>1, <1>2
<1>5. ASSUME NEW k \in 1 .. N, k - 1 \in Good
      PROVE  k \in Good
  <2>0. k \in 0 .. N /\ k - 1 \in 0 .. N /\ l[k] \in A
    BY <1>0
  <2>1. Of(d[k - 1], events) = e[k - 1] /\ d[k - 1] \in Seq(A)
    BY <1>1, <1>5, <2>0
  <2>2. Of(Append(d[k - 1], l[k]), events)
          = IF l[k].event \in events THEN Append(Of(d[k - 1], events), l[k])
            ELSE Of(d[k - 1], events)
    <3> DEFINE q == d[k - 1]
               x == l[k]
    <3>1. q \in Seq(A) /\ x \in A
      BY <2>0, <2>1
    <3> HIDE DEF q, x
    <3>2. Of(Append(q, x), events) = IF x.event \in events THEN Append(Of(q, events), x)
                                     ELSE Of(q, events)
      BY <3>1, OfAppend
    <3> QED
      BY <3>2 DEF q, x
  <2>3. Of(d[k], events) = e[k]
    BY <1>1, <1>2, <2>1, <2>2
  <2> QED
    BY <2>0, <2>3
<1> HIDE DEF Good
<1>6. 0 .. N \subseteq Good
  BY <1>0, <1>4, <1>5, UpTo
<1> QED
  BY <1>0, <1>3, <1>6 DEF Good

(***************************************************************************)
(* One-off events, in order: the notices that wait in the outbox and those *)
(* of the batch are numbered without a gap up to the last one accepted,    *)
(* and what a connection was sent continues where it came in.  A frame     *)
(* that supersedes another of its event passes no notice and loses none.   *)
(***************************************************************************)
Waiting == EachOf(outbox.frames)
Sending == EachOf(batch)

Consecutive(l, from) == \A i \in 1 .. Len(l) : l[i].n = from + i

(* A connection was sent the notices behind the one it came in at, and all *)
(* that were sent since unless it was cut.                                 *)
ViewOK(v, how, sent) ==
  /\ DOMAIN v = {"state", "since", "notices"}
  /\ v = [f \in {"state", "since", "notices"} |-> v[f]]
  /\ v.since \in Nat
  /\ \E k \in Nat :
       /\ v.since + k <= sent
       /\ how = "no" => v.since + k = sent
       /\ v.notices = [i \in 1 .. k |-> v.since + i]

NoticesOK ==
  /\ outbox \in Outboxes /\ batch \in Seq(Frames) /\ notices \in Nat /\ version \in Nat
  /\ httpd # "send" => batch = <<>>
  /\ SentNotices \in Nat
  /\ Consecutive(Waiting, SentNotices + Len(Sending))
  /\ Consecutive(Sending, SentNotices)
  /\ \A s \in Sockets : session[s] # 0 => ViewOK(view[s], closing[s], SentNotices)

LEMMA FramesTyped ==
  ASSUME NoticesOK
  PROVE  /\ outbox.frames \in Seq(Frames)
         /\ Waiting \in Seq(Frames) /\ Sending \in Seq(Frames)
         /\ Len(Waiting) \in Nat /\ Len(Sending) \in Nat
         /\ SentNotices = notices - Len(Waiting) - Len(Sending)
<1>1. outbox.frames \in Seq(Frames) /\ batch \in Seq(Frames)
  BY DEF NoticesOK, Outboxes
<1>2. Waiting \in Seq(Frames) /\ Sending \in Seq(Frames)
  BY <1>1, OfType DEF Waiting, Sending, EachOf
<1> QED
  BY <1>1, <1>2 DEF SentNotices, Waiting, Sending

(* push() keeps every notice that waits, and adds the new one behind them. *)
LEMMA PushKeeps ==
  ASSUME NEW o \in Outboxes, NEW frame \in Frames
  PROVE  /\ Push(o, frame) \in Outboxes
         /\ EachOf(Push(o, frame).frames) =
              IF Latest(frame) \/ Refuses(o, frame) THEN EachOf(o.frames)
              ELSE Append(EachOf(o.frames), frame)
<1> DEFINE l == o.frames
           m == Of(l, Outliving(frame))
           w == Append(m, frame)
<1>1. l \in Seq(Frames)
  BY DEF Outboxes
<1>2. CASE Refuses(o, frame)
  BY <1>2 DEF Push
<1>3. CASE ~ Refuses(o, frame)
  <2>1. m \in Seq(Frames)
    BY <1>1, OfType
  <2>2. EachEvents \subseteq Outliving(frame)
    BY DEF Outliving, Latest, EachEvents, LatestEvents
  <2>3. EachOf(m) = EachOf(l)
    BY <1>1, <2>2, OfOf DEF EachOf
  <2>4. frame.event \in EachEvents <=> ~ Latest(frame)
    BY DEF Frames, Latest, EachEvents, LatestEvents
  <2> HIDE DEF m, l
  <2>5. EachOf(w) = IF Latest(frame) THEN EachOf(m) ELSE Append(EachOf(m), frame)
    BY <2>1, <2>4, OfAppend DEF EachOf
  <2>6. w \in Seq(Frames)
    BY <2>1
  <2>7. Push(o, frame) = [o EXCEPT !.frames = w, !.drainPosted = TRUE]
    BY <1>3 DEF Push, m, l
  <2> HIDE DEF w
  <2>8. Push(o, frame) \in Outboxes /\ Push(o, frame).frames = w
    BY <2>6, <2>7 DEF Outboxes
  <2> QED
    BY <1>3, <2>3, <2>5, <2>8 DEF l
<1> QED
  BY <1>2, <1>3

(* The other operations of the outbox leave its frames alone.              *)
LEMMA OutboxKeeps ==
  ASSUME NEW o \in Outboxes
  PROVE  /\ DrainNotPosted(o) \in Outboxes /\ DrainNotPosted(o).frames = o.frames
         /\ Beat(o) \in Outboxes /\ Beat(o).frames = o.frames
         /\ BeatRan(o) \in Outboxes /\ BeatRan(o).frames = o.frames
         /\ BeatNotPosted(o) \in Outboxes /\ BeatNotPosted(o).frames = o.frames
<1>1. /\ DrainNotPosted(o) \in Outboxes /\ DrainNotPosted(o).frames = o.frames
      /\ BeatRan(o) \in Outboxes /\ BeatRan(o).frames = o.frames
      /\ BeatNotPosted(o) \in Outboxes /\ BeatNotPosted(o).frames = o.frames
  BY DEF Outboxes, DrainNotPosted, BeatRan, BeatNotPosted
<1>2. Beat(o) \in Outboxes /\ Beat(o).frames = o.frames
  <2>1. CASE BeatPosts(o)
    <3>1. 0 \in 0 .. RepostAfter
      BY OutboxAssumption
    <3> QED
      BY <2>1, <3>1 DEF Beat, Outboxes
  <2>2. CASE ~ BeatPosts(o)
    <3>1. o.beatWaits \in 0 .. RepostAfter
      BY DEF Outboxes
    <3>2. o.beatWaits + 1 < RepostAfter
      <4>1. ~ (o.beatWaits + 1 >= RepostAfter)
        BY <2>2, Zenon DEF BeatPosts
      <4> QED
        BY <4>1, <3>1, OutboxAssumption
    <3> DEFINE k == o.beatWaits + 1
    <3>3. k \in 0 .. RepostAfter
      BY <3>1, <3>2, OutboxAssumption
    <3>4. Beat(o) = [o EXCEPT !.beatWaits = k]
      BY <2>2 DEF Beat
    <3> HIDE DEF k
    <3> QED
      BY <3>3, <3>4 DEF Outboxes
  <2> QED
    BY <2>1, <2>2
<1> QED
  BY <1>1, <1>2

(* Steps that neither accept, take nor send a notice.                      *)
LEMMA QuietKeeps ==
  ASSUME NoticesOK, outbox' \in Outboxes, EachOf(outbox'.frames) = Waiting,
         notices' = notices, batch' = batch, version' \in Nat,
         httpd' # "send" => batch = <<>>,
         \A s \in Sockets : session'[s] # 0 =>
           /\ session[s] # 0 /\ view'[s] = view[s]
           /\ closing'[s] = "no" => closing[s] = "no"
  PROVE  NoticesOK'
<1>1. Waiting' = Waiting /\ Sending' = Sending /\ SentNotices' = SentNotices
  BY DEF Waiting, Sending, SentNotices
<1>2. ASSUME NEW s \in Sockets, session'[s] # 0
      PROVE  ViewOK(view'[s], closing'[s], SentNotices)
  <2>1. ViewOK(view[s], closing[s], SentNotices) /\ view'[s] = view[s]
    BY <1>2 DEF NoticesOK
  <2>2. closing'[s] = "no" => closing[s] = "no"
    BY <1>2
  <2>3. CASE closing'[s] = "no"
    BY <2>1, <2>2, <2>3, Zenon
  <2>4. CASE closing'[s] # "no"
    <3>1. PICK k \in Nat : /\ view[s].since + k <= SentNotices
                           /\ view[s].notices = [i \in 1 .. k |-> view[s].since + i]
      BY <2>1 DEF ViewOK
    <3>2. /\ DOMAIN view[s] = {"state", "since", "notices"}
          /\ view[s] = [f \in {"state", "since", "notices"} |-> view[s][f]]
          /\ view[s].since \in Nat
      BY <2>1 DEF ViewOK
    <3>3. ViewOK(view[s], closing'[s], SentNotices)
      BY <2>4, <3>1, <3>2 DEF ViewOK
    <3> QED
      BY <2>1, <3>3, Zenon
  <2> QED
    BY <2>3, <2>4
<1>3. Consecutive(Waiting, SentNotices + Len(Sending)) /\ Consecutive(Sending, SentNotices)
  BY DEF NoticesOK
<1>4. /\ Consecutive(Waiting', SentNotices' + Len(Sending'))
      /\ Consecutive(Sending', SentNotices')
  BY <1>1, <1>3
<1>5. \A s \in Sockets : session'[s] # 0 => ViewOK(view'[s], closing'[s], SentNotices')
  BY <1>1, <1>2
<1>6. /\ outbox' \in Outboxes /\ batch' \in Seq(Frames) /\ notices' \in Nat
      /\ version' \in Nat /\ SentNotices' \in Nat
      /\ httpd' # "send" => batch' = <<>>
  BY <1>1 DEF NoticesOK
<1> HIDE DEF Consecutive
<1> QED
  BY <1>4, <1>5, <1>6 DEF NoticesOK, Consecutive

LEMMA NoNotices == Init => NoticesOK
<1> SUFFICES ASSUME Init PROVE NoticesOK
  OBVIOUS
<1>1. <<>> \in Seq(Frames) /\ Len(<<>>) = 0
  OBVIOUS
<1>2. outbox \in Outboxes /\ outbox.frames = <<>>
  <2>1. 0 \in 0 .. RepostAfter
    BY OutboxAssumption
  <2> QED
    BY <1>1, <2>1 DEF Init, EmptyOutbox, Outboxes
<1>3. Waiting = <<>> /\ Sending = <<>>
  BY <1>2, OfEmpty DEF Init, Waiting, Sending, EachOf
<1>4. SentNotices = 0
  BY <1>1, <1>3 DEF Init, SentNotices, Waiting, Sending
<1>5. Consecutive(Waiting, SentNotices + Len(Sending)) /\ Consecutive(Sending, SentNotices)
  BY <1>1, <1>3 DEF Consecutive
<1>6. /\ batch \in Seq(Frames) /\ notices \in Nat /\ version \in Nat
      /\ httpd # "send" => batch = <<>>
      /\ \A s \in Sockets : session[s] = 0
  BY <1>1 DEF Init
<1> QED
  BY <1>2, <1>4, <1>5, <1>6 DEF NoticesOK

LEMMA PublishKeeps ==
  ASSUME NoticesOK, NEW t \in Publishers, Publish(t)
  PROVE  NoticesOK'
<1> DEFINE frame == [event |-> "stateUpdate", n |-> version]
<1>1. /\ outbox' = Push(outbox, frame)
      /\ notices' = notices /\ batch' = batch /\ httpd' = httpd /\ version' = version
      /\ session' = session /\ view' = view /\ closing' = closing
  BY DEF Publish, Enqueue, clientVars
<1>2. version \in Nat /\ outbox \in Outboxes /\ (httpd # "send" => batch = <<>>)
  BY DEF NoticesOK
<1>3. frame \in Frames /\ Latest(frame)
  BY <1>2 DEF Frames, Latest, LatestEvents
<1> HIDE DEF frame
<1>4. outbox' \in Outboxes /\ EachOf(outbox'.frames) = Waiting
  BY <1>1, <1>2, <1>3, PushKeeps DEF Waiting
<1> QED
  BY <1>1, <1>2, <1>4, QuietKeeps

LEMMA NotifyKeeps ==
  ASSUME NoticesOK, NEW t \in Noticers, Notify(t)
  PROVE  NoticesOK'
<1> DEFINE frame == [event |-> "notice", n |-> notices + 1]
<1>1. /\ outbox' = Push(outbox, frame)
      /\ notices' = IF Refuses(outbox, frame) THEN notices ELSE notices + 1
      /\ batch' = batch /\ httpd' = httpd /\ version' = version
      /\ session' = session /\ view' = view /\ closing' = closing
  BY DEF Notify, Enqueue, clientVars
<1>2. /\ version \in Nat /\ outbox \in Outboxes /\ (httpd # "send" => batch = <<>>)
      /\ notices \in Nat /\ batch \in Seq(Frames) /\ SentNotices \in Nat
      /\ Consecutive(Waiting, SentNotices + Len(Sending))
      /\ Consecutive(Sending, SentNotices)
  BY DEF NoticesOK
<1>3. frame \in Frames /\ ~ Latest(frame) /\ frame.n = notices + 1
  BY <1>2 DEF Frames, Latest, LatestEvents, EachEvents
<1> HIDE DEF frame
<1>4. CASE Refuses(outbox, frame)
  <2>1. outbox' \in Outboxes /\ EachOf(outbox'.frames) = Waiting
    BY <1>1, <1>2, <1>3, <1>4, PushKeeps DEF Waiting
  <2> QED
    BY <1>1, <1>2, <1>4, <2>1, QuietKeeps
<1>5. CASE ~ Refuses(outbox, frame)
  <2>1. outbox' \in Outboxes /\ Waiting' = Append(Waiting, frame) /\ Sending' = Sending
    BY <1>1, <1>2, <1>3, <1>5, PushKeeps DEF Waiting, Sending
  <2>2. /\ Waiting \in Seq(Frames) /\ Len(Waiting) \in Nat /\ Len(Sending) \in Nat
        /\ SentNotices = notices - Len(Waiting) - Len(Sending)
    BY FramesTyped
  <2>3. /\ Len(Waiting') = Len(Waiting) + 1
        /\ \A i \in 1 .. Len(Waiting) : Waiting'[i] = Waiting[i]
        /\ Waiting'[Len(Waiting) + 1] = frame
    BY <2>1, <2>2, <1>3
  <2>4. notices' = notices + 1
    BY <1>1, <1>5
  <2>5. SentNotices' = SentNotices
    <3>1. SentNotices' = notices' - Len(Waiting') - Len(Sending')
      BY DEF SentNotices, Waiting, Sending
    <3> QED
      BY <3>1, <1>2, <2>1, <2>2, <2>3, <2>4
  <2>6. ASSUME NEW i \in 1 .. Len(Waiting')
        PROVE  Waiting'[i].n = SentNotices + Len(Sending) + i
    <3>1. CASE i \in 1 .. Len(Waiting)
      BY <3>1, <1>2, <2>3 DEF Consecutive
    <3>2. CASE i = Len(Waiting) + 1
      BY <3>2, <1>2, <1>3, <2>2, <2>3
    <3> QED
      BY <3>1, <3>2, <2>2, <2>3
  <2>7. /\ Consecutive(Waiting', SentNotices' + Len(Sending'))
        /\ Consecutive(Sending', SentNotices')
    BY <1>2, <2>1, <2>5, <2>6 DEF Consecutive
  <2>8. \A s \in Sockets : session'[s] # 0 => ViewOK(view'[s], closing'[s], SentNotices')
    BY <1>1, <2>5 DEF NoticesOK
  <2>9. /\ batch' \in Seq(Frames) /\ notices' \in Nat /\ version' \in Nat
        /\ SentNotices' \in Nat /\ (httpd' # "send" => batch' = <<>>)
    BY <1>1, <1>2, <2>4, <2>5
  <2> HIDE DEF Consecutive
  <2> QED
    BY <2>1, <2>7, <2>8, <2>9 DEF NoticesOK, Consecutive
<1> QED
  BY <1>4, <1>5

LEMMA HeartbeatKeeps ==
  ASSUME NoticesOK, Heartbeat
  PROVE  NoticesOK'
<1> DEFINE frame == [event |-> "heartbeat", n |-> 0]
           pushed == Push(outbox, frame)
<1>1. /\ outbox' = Beat(pushed)
      /\ notices' = notices /\ batch' = batch /\ httpd' = httpd /\ version' = version
      /\ session' = session /\ view' = view /\ closing' = closing
  BY DEF Heartbeat, runVars, clientVars
<1>2. version \in Nat /\ outbox \in Outboxes /\ (httpd # "send" => batch = <<>>)
  BY DEF NoticesOK
<1>3. frame \in Frames /\ Latest(frame)
  BY DEF Frames, Latest, LatestEvents
<1> HIDE DEF frame
<1>4. pushed \in Outboxes /\ EachOf(pushed.frames) = Waiting
  BY <1>2, <1>3, PushKeeps DEF Waiting
<1> HIDE DEF pushed
<1>5. outbox' \in Outboxes /\ EachOf(outbox'.frames) = Waiting
  BY <1>1, <1>4, OutboxKeeps
<1> QED
  BY <1>1, <1>2, <1>5, QuietKeeps

(* The posts, the messages and what the clients do by themselves.          *)
LEMMA PostsKeep ==
  ASSUME NoticesOK,
         \/ StateChanges \/ PostBeat \/ PostBeatFails \/ RunDrain
         \/ \E t \in Tasks : PostDrain(t) \/ PostDrainFails(t)
         \/ \E s \in Sockets : PeerStalls(s) \/ PeerGoes(s)
         \/ UNCHANGED vars
  PROVE  NoticesOK'
<1>1. /\ notices' = notices /\ batch' = batch
      /\ session' = session /\ view' = view /\ closing' = closing
  BY DEF StateChanges, PostBeat, PostBeatFails, RunDrain, PostDrain, PostDrainFails,
         PeerStalls, PeerGoes, PeerBecomes, vars, runVars, clientVars
<1>2. version' = version \/ version' = version + 1
  BY DEF StateChanges, PostBeat, PostBeatFails, RunDrain, PostDrain, PostDrainFails,
         PeerStalls, PeerGoes, PeerBecomes, vars, runVars
<1>3. \/ outbox' = outbox \/ outbox' = DrainNotPosted(outbox)
      \/ outbox' = BeatNotPosted(outbox)
  BY DEF StateChanges, PostBeat, PostBeatFails, RunDrain, PostDrain, PostDrainFails,
         PeerStalls, PeerGoes, PeerBecomes, vars
<1>4. httpd' = httpd \/ httpd = "idle"
  BY DEF StateChanges, PostBeat, PostBeatFails, RunDrain, PostDrain, PostDrainFails,
         PeerStalls, PeerGoes, PeerBecomes, vars, Receives, HttpdFree
<1>5. version \in Nat /\ outbox \in Outboxes /\ (httpd # "send" => batch = <<>>)
  BY DEF NoticesOK
<1>6. outbox' \in Outboxes /\ EachOf(outbox'.frames) = Waiting
  BY <1>3, <1>5, OutboxKeeps DEF Waiting
<1>7. version' \in Nat /\ (httpd' # "send" => batch = <<>>)
  BY <1>2, <1>4, <1>5
<1> QED
  BY <1>1, <1>6, <1>7, QuietKeeps

LEMMA BeatKeeps ==
  ASSUME NoticesOK, RunBeat
  PROVE  NoticesOK'
<1>1. /\ outbox' = BeatRan(outbox) /\ httpd = "idle"
      /\ notices' = notices /\ batch' = batch /\ version' = version
      /\ session' = session /\ view' = view
  BY DEF RunBeat, runVars, Receives, HttpdFree
<1>2. \A s \in Sockets : closing'[s] = "no" => closing[s] = "no"
  BY DEF RunBeat, Reap
<1>3. version \in Nat /\ outbox \in Outboxes /\ batch = <<>>
  BY <1>1 DEF NoticesOK
<1>4. outbox' \in Outboxes /\ EachOf(outbox'.frames) = Waiting
  BY <1>1, <1>3, OutboxKeeps DEF Waiting
<1> QED
  BY <1>1, <1>2, <1>3, <1>4, QuietKeeps

LEMMA EndsKeeps ==
  ASSUME NoticesOK, SocketInv, NEW t \in Sockets, Ends(t), batch' = batch, httpd' = httpd,
         outbox' = outbox, notices' = notices, version' = version
  PROVE  NoticesOK'
<1>1. \A s \in Sockets : session'[s] # 0 =>
        /\ session[s] # 0 /\ view'[s] = view[s]
        /\ closing'[s] = "no" => closing[s] = "no"
  BY DEF Ends, SocketInv
<1>2. version' \in Nat /\ outbox' \in Outboxes /\ (httpd' # "send" => batch = <<>>)
  BY DEF NoticesOK
<1>3. EachOf(outbox'.frames) = Waiting
  BY DEF Waiting
<1> QED
  BY <1>1, <1>2, <1>3, QuietKeeps

LEMMA ClosesKeep ==
  ASSUME NoticesOK, SocketInv, RunClose \/ \E s \in Sockets : ServerCloses(s)
  PROVE  NoticesOK'
<1>1. /\ outbox' = outbox /\ notices' = notices /\ version' = version
      /\ batch' = batch /\ httpd' = httpd
  BY DEF RunClose, ServerCloses, runVars
<1>2. \/ \E s \in Sockets : Ends(s)
      \/ session' = session /\ view' = view /\ closing' = closing
  BY DEF RunClose, ServerCloses, clientVars
<1>3. CASE \E s \in Sockets : Ends(s)
  BY <1>1, <1>3, EndsKeeps
<1>4. CASE session' = session /\ view' = view /\ closing' = closing
  <2>1. version' \in Nat /\ outbox' \in Outboxes /\ (httpd' # "send" => batch = <<>>)
    BY <1>1 DEF NoticesOK
  <2>2. EachOf(outbox'.frames) = Waiting
    BY <1>1 DEF Waiting
  <2> QED
    BY <1>1, <1>4, <2>1, <2>2, QuietKeeps
<1> QED
  BY <1>2, <1>3, <1>4

(* What waits becomes what is sent.                                        *)
LEMMA TakeKeeps ==
  ASSUME NoticesOK, TakeFrames
  PROVE  NoticesOK'
<1>1. /\ httpd = "drain" /\ batch' = outbox.frames /\ outbox' = Take(outbox)
      /\ httpd' = IF outbox.frames = <<>> THEN "idle" ELSE "send"
      /\ notices' = notices /\ version' = version
      /\ session' = session /\ view' = view /\ closing' = closing
  BY DEF TakeFrames, runVars, clientVars
<1>2. /\ version \in Nat /\ outbox \in Outboxes /\ batch = <<>> /\ notices \in Nat
      /\ SentNotices \in Nat
      /\ Consecutive(Waiting, SentNotices + Len(Sending))
  BY <1>1 DEF NoticesOK
<1>3. outbox' \in Outboxes /\ outbox'.frames = <<>>
  <2>1. <<>> \in Seq(Frames)
    OBVIOUS
  <2> QED
    BY <2>1, <1>1, <1>2 DEF Take, Outboxes
<1>4. Sending = <<>> /\ Waiting' = <<>> /\ Sending' = Waiting
  BY <1>1, <1>2, <1>3, OfEmpty DEF Sending, Waiting, EachOf
<1>5. /\ Len(Waiting) \in Nat /\ outbox.frames \in Seq(Frames)
      /\ SentNotices = notices - Len(Waiting) - Len(Sending)
  BY FramesTyped
<1>6. SentNotices' = SentNotices /\ Len(Sending) = 0 /\ Len(Waiting') = 0
  <2>1. SentNotices' = notices' - Len(Waiting') - Len(Sending')
    BY DEF SentNotices, Waiting, Sending
  <2>2. Len(<<>>) = 0
    OBVIOUS
  <2> QED
    BY <2>1, <2>2, <1>1, <1>2, <1>4, <1>5
<1>7. Consecutive(Sending', SentNotices')
  BY <1>2, <1>4, <1>6 DEF Consecutive
<1>8. Consecutive(Waiting', SentNotices' + Len(Sending'))
  BY <1>6 DEF Consecutive
<1>9. \A s \in Sockets : session'[s] # 0 => ViewOK(view'[s], closing'[s], SentNotices')
  BY <1>1, <1>6 DEF NoticesOK
<1>10. /\ batch' \in Seq(Frames) /\ notices' \in Nat /\ version' \in Nat
       /\ SentNotices' \in Nat /\ (httpd' # "send" => batch' = <<>>)
  BY <1>1, <1>2, <1>5, <1>6
<1> HIDE DEF Consecutive
<1> QED
  BY <1>3, <1>7, <1>8, <1>9, <1>10 DEF NoticesOK, Consecutive

LEMMA ConnectKeeps ==
  ASSUME NoticesOK, SocketInv, NEW t \in Sockets, Connect(t)
  PROVE  NoticesOK'
<1>1. /\ httpd = "idle" /\ batch' = batch /\ outbox' = outbox /\ httpd' = httpd
      /\ notices' = notices /\ version' = version
      /\ session' = [session EXCEPT ![t] = sessions + 1]
  BY DEF Connect, HttpdFree, runVars
<1>2. PICK how, v :
        /\ closing' = [closing EXCEPT ![t] = how]
        /\ v \in Nat
        /\ view' = [view EXCEPT ![t] = [state |-> v, since |-> notices - Len(Waiting),
                                        notices |-> <<>>]]
  <2>1. PICK whole \in BOOLEAN :
          /\ closing' = [closing EXCEPT ![t] = IF whole THEN "no" ELSE "fresh"]
          /\ view' = [view EXCEPT ![t] = [state |-> IF whole THEN version ELSE 0,
                                          since |-> notices - Len(Waiting),
                                          notices |-> <<>>]]
    BY Zenon DEF Connect, Waiting
  <2>2. version \in Nat
    BY DEF NoticesOK
  <2>3. CASE whole
    <3>1. /\ closing' = [closing EXCEPT ![t] = "no"]
          /\ view' = [view EXCEPT ![t] = [state |-> version, since |-> notices - Len(Waiting),
                                          notices |-> <<>>]]
      BY <2>1, <2>3
    <3> QED
      BY <2>2, <3>1, Zenon
  <2>4. CASE ~ whole
    <3>1. /\ closing' = [closing EXCEPT ![t] = "fresh"]
          /\ view' = [view EXCEPT ![t] = [state |-> 0, since |-> notices - Len(Waiting),
                                          notices |-> <<>>]]
      BY <2>1, <2>4
    <3>2. 0 \in Nat
      OBVIOUS
    <3> QED
      BY <3>1, <3>2, Zenon
  <2> QED
    BY <2>3, <2>4
<1>3. /\ version \in Nat /\ outbox \in Outboxes /\ batch = <<>> /\ notices \in Nat
      /\ SentNotices \in Nat /\ batch \in Seq(Frames)
      /\ Consecutive(Waiting, SentNotices + Len(Sending))
      /\ Consecutive(Sending, SentNotices)
  BY <1>1 DEF NoticesOK
<1>4. Sending = <<>> /\ Len(Sending) = 0
  BY <1>3, OfEmpty DEF Sending, EachOf
<1>5. Len(Waiting) \in Nat /\ SentNotices = notices - Len(Waiting)
  BY <1>3, <1>4, FramesTyped
<1>6. Waiting' = Waiting /\ Sending' = Sending /\ SentNotices' = SentNotices
  BY <1>1 DEF Waiting, Sending, SentNotices
<1>7. \A s \in Sockets : session'[s] # 0 => ViewOK(view'[s], closing'[s], SentNotices)
  <2> TAKE s \in Sockets
  <2>1. CASE s = t
    <3> DEFINE w == [state |-> v, since |-> SentNotices, notices |-> <<>>]
    <3>1. view'[t] = w
      BY <1>2, <1>5 DEF SocketInv
    <3>2. w.notices = [i \in 1 .. 0 |-> w.since + i] /\ w.since = SentNotices
      OBVIOUS
    <3>3. /\ DOMAIN w = {"state", "since", "notices"}
          /\ w = [f \in {"state", "since", "notices"} |-> w[f]]
      OBVIOUS
    <3> HIDE DEF w
    <3>4. /\ w.since \in Nat /\ w.since + 0 = SentNotices /\ w.since + 0 <= SentNotices
          /\ 0 \in Nat
      BY <1>3, <3>2
    <3>5. ViewOK(w, closing'[s], SentNotices)
      BY <3>2, <3>3, <3>4 DEF ViewOK
    <3> QED
      BY <2>1, <3>1, <3>5
  <2>2. CASE s # t
    <3>1. session'[s] = session[s] /\ view'[s] = view[s] /\ closing'[s] = closing[s]
      BY <1>1, <1>2, <2>2 DEF SocketInv
    <3> QED
      BY <3>1 DEF NoticesOK
  <2> QED
    BY <2>1, <2>2
<1>8. /\ Consecutive(Waiting', SentNotices' + Len(Sending'))
      /\ Consecutive(Sending', SentNotices')
  BY <1>3, <1>6
<1>9. \A s \in Sockets : session'[s] # 0 => ViewOK(view'[s], closing'[s], SentNotices')
  BY <1>6, <1>7
<1>10. /\ batch' \in Seq(Frames) /\ notices' \in Nat /\ version' \in Nat /\ outbox' \in Outboxes
       /\ SentNotices' \in Nat /\ (httpd' # "send" => batch' = <<>>)
  BY <1>1, <1>3, <1>6
<1> HIDE DEF Consecutive
<1> QED
  BY <1>8, <1>9, <1>10 DEF NoticesOK, Consecutive

(* Counting on from where a count ended gives one count.                   *)
LEMMA Counting ==
  ASSUME NEW k \in Nat, NEW j \in Nat, NEW from \in Nat
  PROVE  [i \in 1 .. k |-> from + i] \o [i \in 1 .. j |-> (from + k) + i]
           = [i \in 1 .. k + j |-> from + i]
<1> DEFINE a == [i \in 1 .. k |-> from + i]
           b == [i \in 1 .. j |-> (from + k) + i]
<1>1. a \in Seq(Nat) /\ Len(a) = k
  OBVIOUS
<1>2. b \in Seq(Nat) /\ Len(b) = j
  OBVIOUS
<1> DEFINE c == a \o b
<1>3. c \in Seq(Nat) /\ Len(c) = k + j
  BY <1>1, <1>2, ConcatProperties
<1>4. \A i \in 1 .. k + j : c[i] = from + i
  <2> TAKE i \in 1 .. k + j
  <2>1. c[i] = IF i <= k THEN a[i] ELSE b[i - k]
    BY <1>1, <1>2, ConcatProperties
  <2>2. CASE i <= k
    BY <2>1, <2>2
  <2>3. CASE ~ (i <= k)
    <3>1. i - k \in 1 .. j
      BY <2>3
    <3>2. c[i] = (from + k) + (i - k)
      BY <2>1, <2>3, <3>1
    <3> QED
      BY <3>2
  <2> QED
    BY <2>2, <2>3
<1> HIDE DEF c
<1>5. c = [i \in 1 .. k + j |-> c[i]]
  BY <1>3
<1>6. [i \in 1 .. k + j |-> c[i]] = [i \in 1 .. k + j |-> from + i]
  BY <1>4
<1> QED
  BY <1>5, <1>6, Zenon DEF c

(* A connection that takes a beginning of the batch goes on with the       *)
(* notices in it; one that takes all of it has every notice sent.          *)
LEMMA SeenKeeps ==
  ASSUME NoticesOK, NEW v, ViewOK(v, "no", SentNotices), NEW n \in 0 .. Len(batch), NEW how,
         how = "no" => n = Len(batch)
  PROVE  ViewOK(Seen(v, SubSeq(batch, 1, n)), how, SentNotices + Len(Sending))
<1> DEFINE l == SubSeq(batch, 1, n)
           each == EachOf(l)
           w == Seen(v, l)
           j == Len(each)
<1>1. batch \in Seq(Frames) /\ n \in Nat /\ n <= Len(batch) /\ SentNotices \in Nat
  BY DEF NoticesOK
<1>2. l \in Seq(Frames)
  <2>1. /\ 1 \in Int /\ n \in Int
        /\ \A i \in 1 .. n : batch[i] \in Frames
    BY <1>1
  <2> QED
    BY <2>1, SubSeqProperties
<1>3. each \in Seq(Frames)
  BY <1>2, OfType DEF EachOf
<1>4. /\ j \in Nat /\ Len(Sending) \in Nat /\ j <= Len(Sending)
      /\ \A i \in 1 .. j : each[i] = Sending[i]
  <2>1. Len(Sending) \in Nat
    BY FramesTyped
  <2>2. /\ Len(each) <= Len(Sending)
        /\ \A i \in 1 .. Len(each) : each[i] = Sending[i]
    BY <1>1, OfPrefix DEF EachOf, Sending
  <2> HIDE DEF each
  <2> QED
    BY <1>3, <2>1, <2>2
<1>5. how = "no" => j = Len(Sending)
  <2>1. SubSeq(batch, 1, Len(batch)) = batch
    BY <1>1, SubSeqFull
  <2> QED
    BY <2>1 DEF Sending
<1>6. \A i \in 1 .. j : each[i].n = SentNotices + i
  <2>1. 1 .. j \subseteq 1 .. Len(Sending)
    BY <1>4
  <2>2. Consecutive(Sending, SentNotices)
    BY DEF NoticesOK
  <2> HIDE DEF each, j
  <2> QED
    BY <1>4, <2>1, <2>2 DEF Consecutive
<1>7. PICK k \in Nat :
        /\ v.since + k = SentNotices
        /\ v.notices = [i \in 1 .. k |-> v.since + i]
  BY DEF ViewOK
<1>8. /\ DOMAIN v = {"state", "since", "notices"} /\ v.since \in Nat
      /\ v = [f \in {"state", "since", "notices"} |-> v[f]]
  BY DEF ViewOK
<1> DEFINE more == [i \in 1 .. j |-> each[i].n]
           st == IF Of(l, {"stateUpdate"}) = <<>> THEN v.state
                 ELSE Of(l, {"stateUpdate"})[Len(Of(l, {"stateUpdate"}))].n
<1>9. w = [v EXCEPT !.state = st, !.notices = v.notices \o more]
  BY DEF Seen
<1> HIDE DEF w, st, each, j
<1>10. /\ DOMAIN w = {"state", "since", "notices"}
       /\ w = [f \in {"state", "since", "notices"} |-> w[f]]
       /\ w.since = v.since
       /\ w.notices = v.notices \o more
  <2> HIDE DEF more
  <2> QED
    BY <1>8, <1>9
<1>11. more = [i \in 1 .. j |-> SentNotices + i]
  BY <1>6
<1> HIDE DEF more
<1>12. w.notices = [i \in 1 .. k + j |-> w.since + i]
  <2>1. v.since + k = SentNotices /\ v.since \in Nat /\ j \in Nat
    BY <1>4, <1>7, <1>8
  <2>2. more = [i \in 1 .. j |-> (v.since + k) + i]
    BY <1>11, <2>1
  <2>3. [i \in 1 .. k |-> v.since + i] \o [i \in 1 .. j |-> (v.since + k) + i]
          = [i \in 1 .. k + j |-> v.since + i]
    BY <2>1, Counting
  <2>4. v.notices \o more = [i \in 1 .. k + j |-> v.since + i]
    BY <1>7, <2>2, <2>3, Zenon
  <2> QED
    BY <1>10, <2>4, Zenon
<1>13. /\ k + j \in Nat
       /\ w.since + (k + j) <= SentNotices + Len(Sending)
       /\ how = "no" => w.since + (k + j) = SentNotices + Len(Sending)
  <2>1. w.since + k = SentNotices /\ w.since \in Nat
    BY <1>7, <1>8, <1>10
  <2>2. SentNotices \in Nat /\ j \in Nat /\ Len(Sending) \in Nat /\ j <= Len(Sending)
    BY <1>1, <1>4
  <2>3. /\ k + j \in Nat
        /\ w.since + (k + j) <= SentNotices + Len(Sending)
        /\ j = Len(Sending) => w.since + (k + j) = SentNotices + Len(Sending)
    BY <2>1, <2>2
  <2> QED
    BY <2>3, <1>5, Zenon
<1>14. w.since \in Nat
  BY <1>8, <1>10
<1> QED
  BY <1>10, <1>12, <1>13, <1>14 DEF ViewOK, w

LEMMA SendKeeps ==
  ASSUME NoticesOK, SocketInv, SendFrames
  PROVE  NoticesOK'
<1>1. /\ httpd' = "idle" /\ batch' = <<>> /\ outbox' = outbox
      /\ notices' = notices /\ version' = version /\ session' = session
  BY DEF SendFrames, runVars
<1>2. PICK took \in [Receiving -> 0 .. Len(batch)] :
        LET cut == {s \in Receiving : took[s] < Len(batch)}
        IN  /\ view' = [s \in Sockets |->
                          IF s \in Receiving
                          THEN Seen(view[s], SubSeq(batch, 1, took[s]))
                          ELSE view[s]]
            /\ closing' = [s \in Sockets |->
                             IF s \in cut THEN "fresh" ELSE closing[s]]
  BY DEF SendFrames
<1>3. /\ version \in Nat /\ outbox \in Outboxes /\ notices \in Nat
      /\ SentNotices \in Nat /\ batch \in Seq(Frames)
      /\ Consecutive(Waiting, SentNotices + Len(Sending))
  BY DEF NoticesOK
<1>4. /\ Len(Waiting) \in Nat /\ Len(Sending) \in Nat
      /\ SentNotices = notices - Len(Waiting) - Len(Sending)
  BY FramesTyped
<1>5. Waiting' = Waiting /\ Sending' = <<>> /\ Len(Sending') = 0
  <2>1. Sending' = <<>>
    BY <1>1, OfEmpty DEF Sending, EachOf
  <2> QED
    BY <2>1, <1>1 DEF Waiting
<1>6. SentNotices' = SentNotices + Len(Sending)
  <2>1. SentNotices' = notices' - Len(Waiting') - Len(Sending')
    BY DEF SentNotices, Waiting, Sending
  <2> QED
    BY <2>1, <1>1, <1>3, <1>4, <1>5
<1>7. ASSUME NEW s \in Sockets, session'[s] # 0
      PROVE  ViewOK(view'[s], closing'[s], SentNotices + Len(Sending))
  <2>1. ViewOK(view[s], closing[s], SentNotices)
    BY <1>1, <1>7 DEF NoticesOK
  <2>2. CASE s \in Receiving
    <3>1. closing[s] = "no" /\ took[s] \in 0 .. Len(batch)
      BY <2>2, <1>2 DEF Receiving
    <3>2. view'[s] = Seen(view[s], SubSeq(batch, 1, took[s]))
      BY <1>2, <2>2
    <3>3. closing'[s] = "no" => took[s] = Len(batch)
      <4>1. closing'[s] = IF s \in Receiving /\ took[s] < Len(batch) THEN "fresh" ELSE closing[s]
        BY <1>2
      <4>2. closing'[s] = "no" => ~ (took[s] < Len(batch))
        BY <4>1, <2>2
      <4>3. Len(batch) \in Nat
        BY <1>3
      <4> QED
        BY <3>1, <4>2, <4>3
    <3> QED
      BY <2>1, <3>1, <3>2, <3>3, SeenKeeps
  <2>3. CASE s \notin Receiving
    <3>1. closing[s] # "no" /\ closing'[s] = closing[s] /\ view'[s] = view[s]
      BY <1>1, <1>2, <1>7, <2>3 DEF Receiving
    <3>2. PICK k \in Nat : /\ view[s].since + k <= SentNotices
                           /\ view[s].notices = [i \in 1 .. k |-> view[s].since + i]
      BY <2>1 DEF ViewOK
    <3>3. view[s].since \in Nat
      BY <2>1 DEF ViewOK
    <3>4. view[s].since + k <= SentNotices + Len(Sending)
      BY <3>2, <3>3, <1>3, <1>4
    <3> QED
      BY <2>1, <3>1, <3>2, <3>4 DEF ViewOK
  <2> QED
    BY <2>2, <2>3
<1>8. /\ Consecutive(Waiting', SentNotices' + Len(Sending'))
      /\ Consecutive(Sending', SentNotices')
  <2>1. SentNotices' + Len(Sending') = SentNotices + Len(Sending)
    BY <1>3, <1>4, <1>5, <1>6
  <2> QED
    BY <2>1, <1>3, <1>5 DEF Consecutive
<1>9. \A s \in Sockets : session'[s] # 0 => ViewOK(view'[s], closing'[s], SentNotices')
  BY <1>6, <1>7
<1>10. /\ batch' \in Seq(Frames) /\ notices' \in Nat /\ version' \in Nat /\ outbox' \in Outboxes
       /\ SentNotices' \in Nat /\ (httpd' # "send" => batch' = <<>>)
  <2>1. <<>> \in Seq(Frames)
    OBVIOUS
  <2>2. SentNotices' \in Nat
    BY <1>3, <1>4, <1>6
  <2> QED
    BY <2>1, <2>2, <1>1, <1>3
<1> HIDE DEF Consecutive
<1> QED
  BY <1>8, <1>9, <1>10 DEF NoticesOK, Consecutive

(* The notices of the stream: one inductive invariant.                     *)
THEOREM NoticesCorrect == Spec => [](SocketInv /\ NoticesOK)
<1>1. Init => SocketInv /\ NoticesOK
  BY NoConnections, NoNotices
<1>2. SocketInv /\ [Next]_vars => SocketInv'
  BY SocketStep
<1>3. SocketInv /\ NoticesOK /\ [Next]_vars => NoticesOK'
  <2> SUFFICES ASSUME SocketInv, NoticesOK, [Next]_vars
               PROVE  NoticesOK'
    OBVIOUS
  <2>2. CASE \E t \in Publishers : Publish(t)
    BY <2>2, PublishKeeps
  <2>3. CASE \E t \in Noticers : Notify(t)
    BY <2>3, NotifyKeeps
  <2>4. CASE Heartbeat
    BY <2>4, HeartbeatKeeps
  <2>5. CASE RunBeat
    BY <2>5, BeatKeeps
  <2>6. CASE RunClose \/ \E s \in Sockets : ServerCloses(s)
    BY <2>6, ClosesKeep
  <2>7. CASE TakeFrames
    BY <2>7, TakeKeeps
  <2>8. CASE SendFrames
    BY <2>8, SendKeeps
  <2>9. CASE \E s \in Sockets : Connect(s)
    BY <2>9, ConnectKeeps
  <2>10. CASE \/ StateChanges \/ PostBeat \/ PostBeatFails \/ RunDrain
              \/ \E t \in Tasks : PostDrain(t) \/ PostDrainFails(t)
              \/ \E s \in Sockets : PeerStalls(s) \/ PeerGoes(s)
              \/ UNCHANGED vars
    BY <2>10, PostsKeep
  <2> QED
    BY <2>2, <2>3, <2>4, <2>5, <2>6, <2>7, <2>8, <2>9, <2>10, Zenon DEF Next
<1> QED
  BY <1>1, <1>2, <1>3, PTL DEF Spec

(* A client that keeps up gets every one-off event that was accepted while *)
(* it was connected, once and in the order raised; one that is dropped got *)
(* a beginning of them (sse_outbox.h:47-63, sse_hub.cpp:72-118).           *)
THEOREM NoticesAlwaysInOrder == Spec => []EveryNoticeInOrder
<1>1. NoticesOK => EveryNoticeInOrder
  <2> SUFFICES ASSUME NoticesOK, NEW s \in Sockets, session[s] # 0
               PROVE  LET due == [i \in 1 .. SentNotices - view[s].since |-> view[s].since + i]
                      IN  IF closing[s] = "no" THEN view[s].notices = due
                          ELSE \E n \in 0 .. Len(due) : view[s].notices = SubSeq(due, 1, n)
    BY DEF EveryNoticeInOrder
  <2> DEFINE since == view[s].since
             m == SentNotices - since
             due == [i \in 1 .. m |-> since + i]
  <2>1. ViewOK(view[s], closing[s], SentNotices) /\ SentNotices \in Nat
    BY DEF NoticesOK
  <2>2. PICK k \in Nat :
          /\ since + k <= SentNotices
          /\ closing[s] = "no" => since + k = SentNotices
          /\ view[s].notices = [i \in 1 .. k |-> since + i]
    BY <2>1 DEF ViewOK
  <2>3. since \in Nat
    BY <2>1 DEF ViewOK
  <2> HIDE DEF since
  <2>4. m \in Nat /\ k <= m /\ (closing[s] = "no" => k = m)
    BY <2>1, <2>2, <2>3
  <2> HIDE DEF m
  <2>5. due \in Seq(Nat) /\ Len(due) = m
    BY <2>3, <2>4
  <2>6. SubSeq(due, 1, k) = [i \in 1 .. k |-> since + i]
    <3> DEFINE z == SubSeq(due, 1, k)
    <3>1. \A i \in 1 .. k : i \in 1 .. m /\ due[i] = since + i
      BY <2>4
    <3>2. z \in Seq(Nat) /\ Len(z) = k /\ \A i \in 1 .. k : z[i] = due[i]
      <4>1. 1 \in Int /\ k \in Int /\ \A i \in 1 .. k : due[i] \in Nat
        BY <2>3, <3>1
      <4> HIDE DEF due
      <4> QED
        BY <4>1, SubSeqProperties
    <3> HIDE DEF z
    <3>3. z = [i \in 1 .. k |-> z[i]]
      BY <3>2
    <3> QED
      BY <3>1, <3>2, <3>3 DEF z
  <2> HIDE DEF due
  <2>7. CASE closing[s] = "no"
    <3>1. view[s].notices = due
      BY <2>2, <2>4, <2>7 DEF due
    <3> QED
      BY <3>1, <2>7 DEF due, m, since
  <2>8. CASE closing[s] # "no"
    <3>1. k \in 0 .. Len(due) /\ view[s].notices = SubSeq(due, 1, k)
      BY <2>2, <2>4, <2>5, <2>6
    <3> QED
      BY <3>1, <2>8 DEF due, m, since
  <2> QED
    BY <2>7, <2>8
<1> QED
  BY NoticesCorrect, <1>1, PTL
=============================================================================
