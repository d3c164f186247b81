-------------------------- MODULE RunControl_proofs --------------------------
(***************************************************************************)
(* The executor's invariants, for every set of programs, every number of   *)
(* banks and every order of calls, ticks and time, with what the operators *)
(* of RunPosition find, which they rest on; then the run loop and the      *)
(* control calls, which keep time and keep clients current for every       *)
(* lateness and every interleaving, and carry out what Exercise promises.  *)
(***************************************************************************)
EXTENDS RunControl, WellFoundedInduction, TLAPS

(* Induction over Nat, stated for a set: a set of numbers that holds 0 and *)
(* the successor of each of its numbers up to n holds 0 .. n.              *)
LEMMA UpTo ==
  ASSUME NEW n \in Nat, NEW S,
         0 \in S,
         \A i \in 1 .. n : i - 1 \in S => i \in S
  PROVE  0 .. n \subseteq S
<1>1. SUFFICES ASSUME NEW Bad, Bad = (0 .. n) \ S, Bad # {}
               PROVE  FALSE
  OBVIOUS
<1>2. PICK m \in Bad : \A k \in Bad : ~ (<<k, m>> \in OpToRel(<, Nat))
  <2>1. Bad \subseteq Nat
    BY <1>1
  <2> QED
    BY <2>1, <1>1, NatLessThanWellFounded, WFMin, Zenon
<1>3. m \in 1 .. n /\ m - 1 \in 0 .. n
  BY <1>1
<1>4. m - 1 \notin S
  BY <1>1, <1>3
<1>5. m - 1 \in Bad
  BY <1>1, <1>3, <1>4
<1>6. <<m - 1, m>> \in OpToRel(<, Nat)
  BY <1>3 DEF OpToRel
<1> QED
  BY <1>2, <1>5, <1>6

(* What parse_event() makes of every event: it lasts at least 1 ms.        *)
Timed(events) == /\ Len(events) \in Nat
                 /\ \A i \in 1 .. Len(events) : events[i].ms \in Nat \ {0}

(* What one unfolding of the running sum computes. *)
Unfold(events, f) ==
  [i \in 0 .. Len(events) |-> IF i = 0 THEN 0 ELSE f[i - 1] + events[i].ms]

(* The running sum exists: the recursion of EndsAt has a solution. *)
LEMMA EndsAtDefined ==
  ASSUME NEW events, NEW n \in Nat, Len(events) = n,
         NEW ms \in [1 .. n -> Nat],
         \A i \in 1 .. n : events[i].ms = ms[i]
  PROVE  /\ EndsAt(events) = Unfold(events, EndsAt(events))
         /\ EndsAt(events) \in [0 .. n -> Nat]
<1> DEFINE Sum(g, m) == /\ g \in [0 .. n -> Nat]
                        /\ g[0] = 0
                        /\ \A i \in 1 .. m : g[i] = g[i - 1] + ms[i]
<1> DEFINE Reached == {m \in 0 .. n : \E g \in [0 .. n -> Nat] : Sum(g, m)}
<1>1. 0 \in Reached
  <2> DEFINE z == [i \in 0 .. n |-> 0]
  <2>1. z \in [0 .. n -> Nat] /\ Sum(z, 0)
    OBVIOUS
  <2> HIDE DEF z
  <2>2. \E g \in [0 .. n -> Nat] : Sum(g, 0)
    BY <2>1
  <2> QED
    BY <2>2
<1>2. ASSUME NEW m \in 1 .. n, m - 1 \in Reached
      PROVE  m \in Reached
  <2>1. PICK g \in [0 .. n -> Nat] : Sum(g, m - 1)
    BY <1>2
  <2> DEFINE h == [g EXCEPT ![m] = g[m - 1] + ms[m]]
  <2>2. h \in [0 .. n -> Nat]
    OBVIOUS
  <2>3. h[0] = 0
    BY <2>1
  <2>4. ASSUME NEW i \in 1 .. m
        PROVE  h[i] = h[i - 1] + ms[i]
    <3>1. CASE i = m
      BY <3>1
    <3>2. CASE i # m
      BY <3>2, <2>1
    <3> QED
      BY <3>1, <3>2
  <2>5. Sum(h, m)
    BY <2>2, <2>3, <2>4
  <2> HIDE DEF h, Sum
  <2>6. \E f \in [0 .. n -> Nat] : Sum(f, m)
    BY <2>2, <2>5
  <2> QED
    BY <2>6
<1>3. n \in Reached
  <2> HIDE DEF Reached
  <2>1. 0 .. n \subseteq Reached
    BY <1>1, <1>2, UpTo
  <2> QED
    BY <2>1
<1>4. PICK g \in [0 .. n -> Nat] : Sum(g, n)
  BY <1>3
<1>5. g = Unfold(events, g)
  <2>1. \A i \in 0 .. n : g[i] = IF i = 0 THEN 0 ELSE g[i - 1] + events[i].ms
    BY <1>4
  <2> QED
    BY <2>1 DEF Unfold
<1>6. EndsAt(events) = CHOOSE f : f = Unfold(events, f)
  BY DEF EndsAt, Unfold
<1>7. EndsAt(events) = Unfold(events, EndsAt(events))
  BY <1>5, <1>6
<1> DEFINE e == EndsAt(events)
<1>8. \A i \in 0 .. n : e[i] = IF i = 0 THEN 0 ELSE e[i - 1] + ms[i]
  <2> HIDE DEF e
  <2>1. e = Unfold(events, e)
    BY <1>7 DEF e
  <2> QED
    BY <2>1 DEF Unfold
<1>9. DOMAIN e = 0 .. n /\ e = [i \in 0 .. n |-> e[i]]
  <2> HIDE DEF e
  <2>1. e = Unfold(events, e)
    BY <1>7 DEF e
  <2> QED
    BY <2>1 DEF Unfold
<1> DEFINE Typed == {i \in 0 .. n : e[i] \in Nat}
<1>10. 0 .. n \subseteq Typed
  <2> HIDE DEF e
  <2>1. 0 \in Typed
    BY <1>8
  <2>2. ASSUME NEW i \in 1 .. n, i - 1 \in Typed
        PROVE  i \in Typed
    <3>1. e[i - 1] \in Nat /\ ms[i] \in Nat
      BY <2>2
    <3>2. e[i] = e[i - 1] + ms[i]
      BY <1>8
    <3> QED
      BY <3>1, <3>2
  <2> HIDE DEF Typed
  <2> QED
    BY <2>1, <2>2, UpTo
<1> QED
  BY <1>7, <1>9, <1>10
(* The running sum is what the loops of total_ms() and locate_event() add  *)
(* up, one event after another.                                            *)
LEMMA EndsAtFacts ==
  ASSUME NEW events, Timed(events)
  PROVE  /\ EndsAt(events) \in [0 .. Len(events) -> Nat]
         /\ EndsAt(events)[0] = 0
         /\ \A i \in 1 .. Len(events) :
              EndsAt(events)[i] = EndsAt(events)[i - 1] + events[i].ms
<1> DEFINE n == Len(events)
           ms == [i \in 1 .. n |-> events[i].ms]
           e == EndsAt(events)
<1>1. n \in Nat /\ ms \in [1 .. n -> Nat]
  BY DEF Timed
<1>2. e = Unfold(events, e) /\ e \in [0 .. n -> Nat]
  <2>1. \A i \in 1 .. n : events[i].ms = ms[i]
    OBVIOUS
  <2> HIDE DEF ms
  <2> QED
    BY <1>1, <2>1, EndsAtDefined
<1> HIDE DEF e
<1>3. /\ e[0] = 0
      /\ \A i \in 1 .. n : e[i] = e[i - 1] + events[i].ms
  BY <1>1, <1>2 DEF Unfold
<1> QED
  BY <1>2, <1>3 DEF e

(* Later events end later.                                                 *)
LEMMA EndsAtGrows ==
  ASSUME NEW events, Timed(events),
         NEW j \in 0 .. Len(events), NEW i \in 0 .. j
  PROVE  /\ EndsAt(events)[i] <= EndsAt(events)[j]
         /\ i < j => EndsAt(events)[i] < EndsAt(events)[j]
<1> DEFINE e == EndsAt(events)
           n == Len(events)
           S == {k \in 0 .. n - i : /\ e[i] <= e[i + k]
                                    /\ k > 0 => e[i] < e[i + k]}
<1>1. /\ n \in Nat /\ e \in [0 .. n -> Nat]
      /\ \A k \in 1 .. n : e[k] = e[k - 1] + events[k].ms
      /\ \A k \in 1 .. n : events[k].ms \in Nat \ {0}
  BY EndsAtFacts DEF Timed
<1> HIDE DEF e
<1>2. n - i \in Nat /\ 0 \in S
  BY <1>1
<1>3. ASSUME NEW k \in 1 .. n - i, k - 1 \in S
      PROVE  k \in S
  <2>1. e[i] <= e[i + (k - 1)]
    BY <1>3
  <2>2. e[i + k] = e[i + k - 1] + events[i + k].ms
    BY <1>1
  <2>3. i + (k - 1) = i + k - 1 /\ i + k - 1 \in 0 .. n /\ i + k \in 1 .. n
    BY <1>1
  <2>4. events[i + k].ms \in Nat \ {0} /\ e[i + k - 1] \in Nat /\ e[i] \in Nat
    <3>1. i \in 0 .. n
      BY <1>1
    <3>2. e[i] \in Nat /\ e[i + k - 1] \in Nat
      BY <1>1, <2>3, <3>1
    <3>3. events[i + k].ms \in Nat \ {0}
      BY <1>1, <2>3
    <3> QED
      BY <3>2, <3>3
  <2>5. e[i] <= e[i + k - 1]
    BY <2>1, <2>3
  <2>6. e[i] < e[i + k]
    BY <2>2, <2>4, <2>5
  <2>7. e[i] <= e[i + k] /\ k \in 0 .. n - i
    BY <1>1, <2>2, <2>4, <2>6
  <2> QED
    BY <2>6, <2>7
<1> HIDE DEF S
<1>4. 0 .. n - i \subseteq S
  BY <1>2, <1>3, UpTo
<1>5. j - i \in S
  BY <1>1, <1>4
<1> QED
  BY <1>1, <1>5 DEF S, e

(* Every time before the end of the series lies in exactly one event,      *)
(* which is the one locate_event() finds.                                  *)
LEMMA Located ==
  ASSUME NEW events, Timed(events),
         NEW t \in Nat, t < TotalMs(events)
  PROVE  /\ LocationValid(events, t)
         /\ EventAt(events, t) \in 1 .. Len(events)
         /\ Holds(events, EventAt(events, t), t)
<1> DEFINE e == EndsAt(events)
           n == Len(events)
           S == {k \in 0 .. n : e[k] <= t}
<1>1. n \in Nat /\ e \in [0 .. n -> Nat] /\ e[0] = 0
  BY EndsAtFacts DEF Timed
<1>2. e[n] > t
  BY <1>1 DEF TotalMs
<1>3. \E i \in 1 .. n : Holds(events, i, t)
  <2> SUFFICES ASSUME \A i \in 1 .. n : ~ Holds(events, i, t)
               PROVE  FALSE
    OBVIOUS
  <2>1. \A i \in 1 .. n : ~ (e[i - 1] <= t /\ t < e[i])
    BY DEF Holds
  <2> HIDE DEF e
  <2>2. 0 \in S
    BY <1>1
  <2>3. \A i \in 1 .. n : i - 1 \in S => i \in S
    BY <1>1, <2>1
  <2> HIDE DEF S
  <2>4. 0 .. n \subseteq S
    BY <1>1, <2>2, <2>3, UpTo
  <2>5. n \in S
    BY <1>1, <2>4
  <2> QED
    BY <1>1, <1>2, <2>5 DEF S
<1> QED
  BY <1>3 DEF LocationValid, EventAt

(* A valid location is a position inside the series.                       *)
LEMMA LocatedIfValid ==
  ASSUME NEW events, NEW t, LocationValid(events, t)
  PROVE  /\ EventAt(events, t) \in 1 .. Len(events)
         /\ Holds(events, EventAt(events, t), t)
  BY DEF LocationValid, EventAt

(* The run loop never sleeps past the end of the event it is in, nor past  *)
(* the next whole second.                                                  *)
LEMMA SleepIsShort ==
  ASSUME NEW t \in Nat, NEW end \in Nat, NEW total \in Nat,
         t < end, end <= total
  PROVE  /\ NextSleep(t, end, total) \in 1 .. MaxSleep
         /\ t + NextSleep(t, end, total) <= end
         /\ t + NextSleep(t, end, total) <= (t \div Second + 1) * Second
<1> DEFINE q == t \div Second
           tick == (q + 1) * Second
<1>1. Second \in Nat \ {0} /\ MaxSleep \in Nat \ {0}
  BY SleepAssumption
<1>2. q \in Nat /\ t < tick /\ tick \in Nat
  BY <1>1
<1> HIDE DEF tick
<1>3. NextSleep(t, end, total) =
        MaxOf(1, MinOf(MaxSleep, MinOf(MinOf(tick, end), total) - t))
  BY DEF NextSleep, tick
<1>4. /\ NextSleep(t, end, total) \in 1 .. MaxSleep
      /\ t + NextSleep(t, end, total) <= end
      /\ t + NextSleep(t, end, total) <= tick
  BY <1>1, <1>2, <1>3 DEF MaxOf, MinOf
<1> QED
  BY <1>4 DEF tick

-----------------------------------------------------------------------------
ExecutorInv == ExecutorTypeOK /\ RunStateOK /\ ResumesInItsEvent

(* None is neither a position nor a program.                               *)
LEMMA NoneIsNothing == None \notin Nat /\ None \notin Programs
  BY ProgramsAssumption

(* A series of a program the parser accepted.                              *)
LEMMA SeriesOfProgram ==
  ASSUME NEW p \in Programs
  PROVE  /\ Len(p.series) \in Nat
         /\ \A s \in 1 .. Len(p.series) :
              /\ p.series[s].events \in Seq(Events)
              /\ Len(p.series[s].events) \in Nat
              /\ Timed(p.series[s].events)
<1>1. p \in [id : Int, series : Seq(SeriesType)]
  BY ProgramsAssumption
<1>2. p.series \in Seq(SeriesType)
  BY <1>1
<1>3. ASSUME NEW s \in 1 .. Len(p.series)
      PROVE  /\ p.series[s].events \in Seq(Events)
             /\ Len(p.series[s].events) \in Nat
             /\ Timed(p.series[s].events)
  <2>1. p.series[s] \in SeriesType
    BY <1>2
  <2>2. p.series[s].events \in Seq(Events)
    BY <2>1 DEF SeriesType
  <2> DEFINE ev == p.series[s].events
  <2> HIDE DEF ev
  <2>3. ev \in Seq(Events)
    BY <2>2 DEF ev
  <2>4. Len(ev) \in Nat /\ \A i \in 1 .. Len(ev) : ev[i] \in Events
    BY <2>3
  <2>5. \A x \in Events : x.ms \in Nat \ {0}
    BY DEF Events
  <2>6. Timed(ev)
    BY <2>4, <2>5 DEF Timed
  <2> QED
    BY <2>3, <2>4, <2>6 DEF ev
<1> QED
  BY <1>2, <1>3

(* The series a state selects.                                             *)
LEMMA Selected ==
  ASSUME ExecutorTypeOK, SeriesSelected
  PROVE  /\ program \in Programs
         /\ series \in 1 .. Len(program.series)
         /\ CurrentEvents \in Seq(Events)
         /\ Len(CurrentEvents) \in Nat
         /\ Timed(CurrentEvents)
         /\ EndsAt(CurrentEvents) \in [0 .. Len(CurrentEvents) -> Nat]
         /\ EndsAt(CurrentEvents)[0] = 0
         /\ TotalMs(CurrentEvents) \in Nat
<1>1. program \in Programs /\ series \in 1 .. Len(program.series)
  BY DEF ExecutorTypeOK, SeriesSelected, IsLoaded
<1>2. /\ CurrentEvents \in Seq(Events)
      /\ Len(CurrentEvents) \in Nat
      /\ Timed(CurrentEvents)
  BY <1>1, SeriesOfProgram DEF CurrentEvents
<1> HIDE DEF CurrentEvents
<1>3. /\ EndsAt(CurrentEvents) \in [0 .. Len(CurrentEvents) -> Nat]
      /\ EndsAt(CurrentEvents)[0] = 0
  BY <1>2, EndsAtFacts
<1> QED
  BY <1>1, <1>2, <1>3 DEF TotalMs

(* The boot state satisfies the invariant.                                 *)
LEMMA InitOK ==
  ASSUME ExecutorInit
  PROVE  ExecutorInv
<1>1. /\ program = None /\ series = None /\ event = None /\ ticker = None
      /\ running = FALSE /\ anchored = FALSE /\ elapsed = 0
      /\ shown \in {{}, Banks} /\ dirty = FALSE /\ clips = <<>>
  BY DEF ExecutorInit, ProgramStateInit
<1>2. ExecutorTypeOK
  <2>1. clips \in Seq(AudioIds)
    BY <1>1
  <2>2. shown \in SUBSET Banks
    BY <1>1
  <2> QED
    BY <1>1, <2>1, <2>2 DEF ExecutorTypeOK
<1>3. RunStateOK
  BY <1>1, Zenon DEF RunStateOK, IsLoaded
<1>4. ResumesInItsEvent
  BY <1>1 DEF ResumesInItsEvent
<1> QED
  BY <1>2, <1>3, <1>4 DEF ExecutorInv

(* Back at the first event of a series, with nothing to resume from.       *)
LEMMA RewoundOK ==
  ASSUME ExecutorInv, Rewound, StateChanged, UNCHANGED <<shown, clips>>,
         program' \in Programs, series' \in Nat
  PROVE  ExecutorInv'
<1>1. program' # None
  BY NoneIsNothing
<1> QED
  BY <1>1 DEF ExecutorInv, Rewound, StateChanged, ClearRunAnchor,
     ExecutorTypeOK, RunStateOK, ResumesInItsEvent, IsLoaded

(* Unloading leaves nothing behind for a later run to trip over.           *)
LEMMA ForceUnloadOK ==
  ASSUME ExecutorInv, ForceUnload
  PROVE  ExecutorInv'
  BY DEF ExecutorInv, ForceUnload, StateChanged, ClearRunAnchor,
     ExecutorTypeOK, RunStateOK, ResumesInItsEvent, IsLoaded

(* A step that leaves the run alone.                                       *)
LEMMA RunUntouchedOK ==
  ASSUME ExecutorInv,
         UNCHANGED <<program, running, series, event, ticker, anchored>>,
         elapsed' \in Nat, shown' \in SUBSET Banks, dirty' \in BOOLEAN,
         clips' \in Seq(AudioIds)
  PROVE  ExecutorInv'
  BY DEF ExecutorInv, ExecutorTypeOK, RunStateOK, ResumesInItsEvent,
     IsLoaded, SeriesSelected, CurrentEvents
(* Entering an event moves only banks the device has, and asks for clips.  *)
LEMMA EnterEventOK ==
  ASSUME ExecutorInv, SeriesSelected,
         NEW i \in 1 .. Len(CurrentEvents), NEW play \in BOOLEAN,
         EnterEvent(i, play)
  PROVE  event' = i /\ shown' \in SUBSET Banks /\ clips' \in Seq(AudioIds)
<1>1. CurrentEvents \in Seq(Events)
  BY Selected DEF ExecutorInv
<1> DEFINE e == CurrentEvents[i]
<1>2. e \in Events
  BY <1>1
<1> HIDE DEF e
<1>3. e.audio \in Seq(AudioIds)
  BY <1>2 DEF Events
<1>4. shown \in SUBSET Banks /\ clips \in Seq(AudioIds)
  BY DEF ExecutorInv, ExecutorTypeOK
<1>5. /\ event' = i
      /\ shown' = Driven(e)
      /\ clips' = IF play /\ e.audio # <<>> THEN e.audio ELSE clips
  BY DEF EnterEvent, e
<1>6. Driven(e) \subseteq Banks
  BY <1>4 DEF Driven
<1> QED
  BY <1>3, <1>4, <1>5, <1>6

(* banks_required() bounds the banks a program names.                      *)
LEMMA RequiredCoversNamed ==
  ASSUME NEW p \in Programs
  PROVE  /\ BanksRequired(p) \in 1 .. MaxBanks
         /\ \A m \in NamedBanks(p) : m \in Nat \ {0} /\ m <= BanksRequired(p)
<1> DEFINE T == NamedBanks(p) \cup {1}
           S == {k \in 0 .. MaxBanks : \E m \in T : m > k}
<1>1. MaxBanks \in Nat \ {0}
  BY BankAssumption
<1>2. NamedBanks(p) \subseteq AllBanks
  <2>1. ASSUME NEW s \in 1 .. Len(p.series),
               NEW i \in 1 .. Len(p.series[s].events)
        PROVE  Named(p.series[s].events[i]) \subseteq AllBanks
    <3>1. p.series[s].events \in Seq(Events)
      BY SeriesOfProgram
    <3>2. p.series[s].events[i] \in Events
      BY <3>1
    <3> QED
      BY <3>2 DEF Events, Named
  <2> QED
    BY <2>1 DEF NamedBanks
<1>3. T \subseteq 1 .. MaxBanks /\ 1 \in T
  BY <1>1, <1>2 DEF AllBanks
<1> HIDE DEF T
<1>4. \E n \in T : \A m \in T : m <= n
  <2> SUFFICES ASSUME \A n \in T : \E m \in T : ~ (m <= n)
               PROVE  FALSE
    OBVIOUS
  <2>1. 0 \in S
    BY <1>1, <1>3
  <2>2. ASSUME NEW k \in 1 .. MaxBanks, k - 1 \in S
        PROVE  k \in S
    <3>1. PICK m \in T : m > k - 1
      BY <2>2
    <3>2. PICK n \in T : ~ (n <= m)
      OBVIOUS
    <3>3. n > k
      BY <1>3, <3>1, <3>2
    <3> QED
      BY <1>1, <3>3
  <2> HIDE DEF S
  <2>3. 0 .. MaxBanks \subseteq S
    BY <1>1, <2>1, <2>2, UpTo
  <2>4. MaxBanks \in S
    BY <1>1, <2>3
  <2> QED
    BY <1>1, <1>3, <2>4 DEF S
<1>5. BanksRequired(p) = CHOOSE n \in T : \A m \in NamedBanks(p) : m <= n
  BY DEF BanksRequired, T
<1>6. \E n \in T : \A m \in NamedBanks(p) : m <= n
  BY <1>4 DEF T
<1>7. /\ BanksRequired(p) \in T
      /\ \A m \in NamedBanks(p) : m <= BanksRequired(p)
  <2> HIDE DEF T
  <2> QED
    BY <1>5, <1>6
<1>8. BanksRequired(p) \in 1 .. MaxBanks
  <2> HIDE DEF T
  <2> QED
    BY <1>3, <1>7
<1>9. \A m \in NamedBanks(p) : m \in Nat \ {0}
  BY <1>1, <1>2 DEF AllBanks
<1> QED
  BY <1>7, <1>8, <1>9

(* start() places the run in the event it resumes, whatever was selected.  *)
LEMMA StartOK ==
  ASSUME ExecutorInv, NEW id, Start(id)
  PROVE  ExecutorInv'
<1>1. SeriesSelected /\ IsLoaded /\ program \in Programs
      /\ series \in Nat /\ event \in Nat
  <2>1. IsLoaded /\ SeriesSelected
    BY DEF Start, StartOutcome
  <2> QED
    BY <2>1 DEF ExecutorInv, ExecutorTypeOK, RunStateOK, IsLoaded
<1>2. NamedBanks(program) \subseteq Banks
  <2>1. ~ (BanksRequired(program) > BankCount)
    BY DEF Start, StartOutcome
  <2> QED
    BY <2>1, <1>1, RequiredCoversNamed, BankAssumption DEF Banks
<1>3. ResumeFrom \in Nat
  BY NoneIsNothing DEF ResumeFrom, ExecutorInv, ExecutorTypeOK
<1>4. /\ running' = TRUE /\ anchored' = TRUE /\ dirty' = TRUE
      /\ elapsed' = ResumeFrom /\ ticker' = ResumeFrom
      /\ program' = program /\ series' = series
  BY DEF Start, StateChanged
<1>5. ticker' # None
  BY <1>3, <1>4, NoneIsNothing
<1>6. /\ event' \in Nat /\ shown' \in SUBSET Banks
      /\ clips' \in Seq(AudioIds)
      /\ IF CurrentEvents = <<>> THEN ResumeFrom = 0
         ELSE /\ event' \in 1 .. Len(CurrentEvents)
              /\ Holds(CurrentEvents, event', ResumeFrom)
  <2>1. CASE LocationValid(CurrentEvents, ResumeFrom)
    <3> DEFINE i == EventAt(CurrentEvents, ResumeFrom)
               play == OffsetAt(CurrentEvents, ResumeFrom) = 0
    <3>1. i \in 1 .. Len(CurrentEvents) /\ Holds(CurrentEvents, i, ResumeFrom)
      BY <2>1, LocatedIfValid
    <3>2. EnterEvent(i, play)
      BY <2>1 DEF Start
    <3>3. play \in BOOLEAN /\ Len(CurrentEvents) \in Nat
      BY <1>1, Selected DEF ExecutorInv
    <3> HIDE DEF i, play
    <3>4. event' = i /\ shown' \in SUBSET Banks /\ clips' \in Seq(AudioIds)
      BY <1>1, <3>1, <3>2, <3>3, EnterEventOK
    <3>5. CurrentEvents # <<>>
      BY <3>1, <3>3
    <3> QED
      BY <3>1, <3>3, <3>4, <3>5
  <2>2. CASE ~ LocationValid(CurrentEvents, ResumeFrom)
    <3>1. UNCHANGED <<event, shown, clips>>
      BY <2>2 DEF Start, StayInEvent
    <3>2. CurrentEvents = <<>>
      <4> SUFFICES ASSUME CurrentEvents # <<>>
                   PROVE  FALSE
        OBVIOUS
      <4>1. /\ Timed(CurrentEvents) /\ CurrentEvents \in Seq(Events)
            /\ Len(CurrentEvents) \in Nat
        BY <1>1, Selected DEF ExecutorInv
      <4>2. Len(CurrentEvents) > 0
        <5> DEFINE ev == CurrentEvents
        <5> HIDE DEF ev
        <5>1. ev \in Seq(Events) /\ ev # <<>>
          BY <4>1 DEF ev
        <5> QED
          BY <5>1 DEF ev
      <4>3. CASE ticker = None
        <5>1. ResumeFrom = 0
          BY <4>3 DEF ResumeFrom
        <5>2. /\ EndsAt(CurrentEvents)[0] = 0
              /\ EndsAt(CurrentEvents)[0] < TotalMs(CurrentEvents)
          BY <4>1, <4>2, EndsAtGrows, EndsAtFacts DEF TotalMs
        <5> QED
          BY <2>2, <4>1, <5>1, <5>2, Located
      <4>4. CASE ticker # None
        <5>1. /\ event \in 1 .. Len(CurrentEvents)
              /\ Holds(CurrentEvents, event, ResumeFrom)
          BY <4>4 DEF ExecutorInv, ResumesInItsEvent, ResumeFrom
        <5> QED
          BY <2>2, <5>1 DEF LocationValid
      <4> QED
        BY <4>3, <4>4
    <3>3. ResumeFrom = 0
      BY <3>2 DEF ResumeFrom, ExecutorInv, ResumesInItsEvent
    <3> QED
      BY <1>1, <3>1, <3>2, <3>3 DEF ExecutorInv, ExecutorTypeOK
  <2> QED
    BY <2>1, <2>2
<1>7. ExecutorTypeOK'
  BY <1>3, <1>4, <1>6 DEF ExecutorInv, ExecutorTypeOK
<1>8. RunStateOK'
  BY <1>1, <1>2, <1>4, <1>5, <1>6
     DEF RunStateOK, IsLoaded, SeriesSelected
<1>9. ResumesInItsEvent'
  BY <1>4, <1>6 DEF ResumesInItsEvent, CurrentEvents
<1> QED
  BY <1>7, <1>8, <1>9 DEF ExecutorInv

(* A tick that ends the series leaves a series that can be started.        *)
LEMMA TickStopsOK ==
  ASSUME ExecutorInv, TickStops
  PROVE  ExecutorInv'
<1>1. SeriesSelected /\ IsLoaded
  BY DEF TickStops, ExecutorInv, RunStateOK, SeriesSelected
<1>2. /\ running' = FALSE /\ anchored' = FALSE /\ elapsed' = 0
      /\ ticker' = None /\ dirty' = TRUE
      /\ UNCHANGED <<program, shown, clips>>
      /\ SelectFollowing
  BY <1>1 DEF TickStops, ClearRunAnchor, StateChanged
<1>3. series \in Nat /\ event \in Nat
  BY <1>1 DEF ExecutorInv, RunStateOK
<1>4. series' \in Nat /\ event' \in Nat
  BY <1>2, <1>3 DEF SelectFollowing
<1>5. ExecutorTypeOK'
  BY <1>2, <1>4 DEF ExecutorInv, ExecutorTypeOK
<1>6. RunStateOK'
  BY <1>1, <1>2, <1>4 DEF RunStateOK, IsLoaded
<1>7. ResumesInItsEvent'
  BY <1>2 DEF ResumesInItsEvent
<1> QED
  BY <1>5, <1>6, <1>7 DEF ExecutorInv

(* While the run is under way a tick finds it in exactly one event.        *)
LEMMA TickRunsHere ==
  ASSUME ExecutorInv, TickRuns
  PROVE  /\ SeriesSelected /\ elapsed \in Nat
         /\ event' = EventAt(CurrentEvents, elapsed)
         /\ event' \in 1 .. Len(CurrentEvents)
         /\ Holds(CurrentEvents, event', elapsed)
         /\ shown' \in SUBSET Banks /\ clips' \in Seq(AudioIds)
<1> DEFINE here == EventAt(CurrentEvents, elapsed)
<1>1. SeriesSelected /\ elapsed \in Nat /\ ~ AtEnd
  BY DEF TickRuns, ExecutorInv, ExecutorTypeOK
<1>2. Timed(CurrentEvents) /\ TotalMs(CurrentEvents) \in Nat
  BY <1>1, Selected DEF ExecutorInv
<1>3. here \in 1 .. Len(CurrentEvents) /\ Holds(CurrentEvents, here, elapsed)
  BY <1>1, <1>2, Located DEF AtEnd
<1>4. IF here # event THEN EnterEvent(here, TRUE) ELSE StayInEvent
  BY DEF TickRuns
<1> HIDE DEF here
<1>5. event' = here /\ shown' \in SUBSET Banks /\ clips' \in Seq(AudioIds)
  <2>1. CASE here # event
    BY <1>1, <1>3, <1>4, <2>1, EnterEventOK
  <2>2. CASE here = event
    BY <1>4, <2>2 DEF StayInEvent, ExecutorInv, ExecutorTypeOK
  <2> QED
    BY <2>1, <2>2
<1> QED
  BY <1>1, <1>3, <1>5 DEF here

(* A tick that keeps running keeps event and ticker in step.               *)
LEMMA TickRunsOK ==
  ASSUME ExecutorInv, TickRuns
  PROVE  ExecutorInv'
<1>1. /\ SeriesSelected /\ IsLoaded /\ elapsed \in Nat
      /\ event' = EventAt(CurrentEvents, elapsed)
      /\ event' \in 1 .. Len(CurrentEvents)
      /\ Holds(CurrentEvents, event', elapsed)
      /\ shown' \in SUBSET Banks /\ clips' \in Seq(AudioIds)
      /\ Len(CurrentEvents) \in Nat
  BY TickRunsHere, Selected DEF SeriesSelected, ExecutorInv
<1>2. /\ running /\ anchored
      /\ UNCHANGED <<program, running, series, anchored, elapsed>>
      /\ \/ ticker' = elapsed /\ dirty' = TRUE
         \/ event' = event /\ ticker # None /\ UNCHANGED <<ticker, dirty>>
  BY <1>1 DEF TickRuns, StateChanged
<1>3. ticker' # None /\ ticker' \in Nat
  BY <1>1, <1>2, NoneIsNothing DEF ExecutorInv, ExecutorTypeOK
<1>4. ExecutorTypeOK'
  <2>1. event' \in Nat
    BY <1>1
  <2>2. dirty' \in BOOLEAN
    BY <1>2 DEF ExecutorInv, ExecutorTypeOK
  <2> QED
    BY <1>1, <1>2, <1>3, <2>1, <2>2 DEF ExecutorInv, ExecutorTypeOK
<1>5. RunStateOK'
  BY <1>1, <1>2, <1>3 DEF ExecutorInv, RunStateOK, IsLoaded, SeriesSelected
<1>6. CurrentEvents # <<>> /\ Holds(CurrentEvents, event', ticker')
  BY <1>1, <1>2 DEF ExecutorInv, ResumesInItsEvent
<1>7. ResumesInItsEvent'
  BY <1>1, <1>2, <1>6 DEF ResumesInItsEvent, CurrentEvents
<1> QED
  BY <1>4, <1>5, <1>7 DEF ExecutorInv

(* Every branch of tick() preserves the invariant.                         *)
LEMMA TickOK ==
  ASSUME ExecutorInv, Tick
  PROVE  ExecutorInv'
<1>1. CASE TickIdle
  BY <1>1 DEF TickIdle, executorVars, ExecutorInv, ExecutorTypeOK,
     RunStateOK, ResumesInItsEvent, IsLoaded, SeriesSelected, CurrentEvents
<1> QED
  BY <1>1, TickStopsOK, TickRunsOK DEF Tick

(* A call that moves banks by itself leaves the run alone.                 *)
LEMMA TargetsOK ==
  ASSUME ExecutorInv, RunUntouched, StateChanged, shown' \subseteq Banks
  PROVE  ExecutorInv'
<1>1. elapsed' \in Nat /\ clips' \in Seq(AudioIds)
  BY DEF RunUntouched, ExecutorInv, ExecutorTypeOK
<1> QED
  BY <1>1, RunUntouchedOK DEF RunUntouched, StateChanged

(* Target calls drive no bank this device lacks.                           *)
LEMMA MovedBanksExist ==
  ASSUME ExecutorInv, NEW mask,
         \/ \E show \in BOOLEAN : SetTargets(mask, show)
         \/ ToggleTargets(mask)
         \/ FlipTargets(mask)
  PROVE  RunUntouched /\ StateChanged /\ shown' \subseteq Banks
<1>1. shown \subseteq Banks
  BY DEF ExecutorInv, ExecutorTypeOK
<1>2. CASE \E show \in BOOLEAN : SetTargets(mask, show)
  BY <1>1, <1>2 DEF SetTargets
<1>3. CASE ToggleTargets(mask)
  BY <1>1, <1>3 DEF ToggleTargets
<1>4. CASE FlipTargets(mask)
  BY <1>1, <1>4 DEF FlipTargets
<1> QED
  BY <1>2, <1>3, <1>4

(* load() preserves the invariant.                                         *)
LEMMA LoadOK ==
  ASSUME ExecutorInv, NEW p \in Programs, Load(p)
  PROVE  ExecutorInv'
<1>1. Rewound /\ StateChanged /\ UNCHANGED <<shown, clips>>
      /\ program' \in Programs /\ series' \in Nat
  BY DEF Load
<1> QED
  BY <1>1, RewoundOK

(* reset() preserves the invariant.                                        *)
LEMMA ResetOK ==
  ASSUME ExecutorInv, Reset
  PROVE  ExecutorInv'
<1>1. Rewound /\ StateChanged /\ UNCHANGED <<shown, clips>>
      /\ program' \in Programs /\ series' \in Nat
  BY DEF Reset, ExecutorInv, ExecutorTypeOK, RunStateOK, IsLoaded
<1> QED
  BY <1>1, RewoundOK

(* skip_to_series() preserves the invariant.                               *)
LEMMA SkipOK ==
  ASSUME ExecutorInv, NEW i, NEW id, SkipToSeries(i, id)
  PROVE  ExecutorInv'
<1>1. IsLoaded /\ i \in 1 .. Len(program.series)
  BY DEF SkipToSeries, SkipOutcome
<1>2. program \in Programs
  BY <1>1 DEF ExecutorInv, ExecutorTypeOK, IsLoaded
<1>3. i \in Nat
  BY <1>1, <1>2, SeriesOfProgram
<1>4. Rewound /\ StateChanged /\ UNCHANGED <<shown, clips>>
      /\ program' \in Programs /\ series' \in Nat
  BY <1>2, <1>3 DEF SkipToSeries
<1> QED
  BY <1>4, RewoundOK

(* stop() keeps the position that start() resumes from.                    *)
LEMMA StopOK ==
  ASSUME ExecutorInv, Stop
  PROVE  ExecutorInv'
<1>1. /\ running' = FALSE /\ anchored' = FALSE /\ elapsed' = 0 /\ dirty' = TRUE
      /\ UNCHANGED <<program, series, event, ticker, shown, clips>>
  BY DEF Stop, ClearRunAnchor, StateChanged
<1>2. ExecutorTypeOK'
  BY <1>1 DEF ExecutorInv, ExecutorTypeOK
<1>3. RunStateOK' /\ ResumesInItsEvent'
  BY <1>1 DEF ExecutorInv, RunStateOK, ResumesInItsEvent, IsLoaded,
     SeriesSelected, CurrentEvents
<1> QED
  BY <1>2, <1>3 DEF ExecutorInv

(* Every control call preserves the invariant.                             *)
LEMMA CallOK ==
  ASSUME ExecutorInv, Call
  PROVE  ExecutorInv'
<1>1. CASE \E p \in Programs : Load(p) \/ Start(p.id) \/ UnloadIfLoaded(p.id)
  BY <1>1, LoadOK, StartOK, ForceUnloadOK DEF UnloadIfLoaded
<1>2. CASE \E p \in Programs : \E i \in 1 .. Len(p.series) :
             SkipToSeries(i, p.id)
  BY <1>2, SkipOK
<1>3. CASE Stop \/ Reset \/ Unload
  BY <1>3, StopOK, ResetOK, ForceUnloadOK DEF Unload
<1>4. CASE \E mask \in SUBSET AllBanks :
             \/ \E show \in BOOLEAN : SetTargets(mask, show)
             \/ ToggleTargets(mask)
             \/ FlipTargets(mask)
  BY <1>4, MovedBanksExist, TargetsOK
<1> QED
  BY <1>1, <1>2, <1>3, <1>4 DEF Call

(* Every step the executor can be made to take, whoever schedules it.      *)
ExecutorStep == Call \/ Tick \/ TimePasses \/ Published \/ PlaybackTakes

(* Every step around the executor preserves the invariant.                 *)
LEMMA StepOK ==
  ASSUME ExecutorInv, [ExecutorStep]_executorVars
  PROVE  ExecutorInv'
<1>1. CASE TimePasses \/ Published \/ PlaybackTakes \/ UNCHANGED executorVars
  <2>1. elapsed \in Nat /\ shown \in SUBSET Banks /\ dirty \in BOOLEAN
        /\ clips \in Seq(AudioIds)
    BY DEF ExecutorInv, ExecutorTypeOK
  <2>2. elapsed' \in Nat
    BY <1>1, <2>1 DEF TimePasses, Published, PlaybackTakes, executorVars
  <2>3. clips' \in Seq(AudioIds)
    <3>1. <<>> \in Seq(AudioIds)
      OBVIOUS
    <3>2. clips' = clips \/ clips' = <<>>
      BY <1>1 DEF TimePasses, Published, PlaybackTakes, executorVars
    <3> QED
      BY <2>1, <3>1, <3>2
  <2>4. /\ shown' \in SUBSET Banks /\ dirty' \in BOOLEAN
        /\ UNCHANGED <<program, running, series, event, ticker, anchored>>
    BY <1>1, <2>1 DEF TimePasses, Published, PlaybackTakes, executorVars
  <2> QED
    BY <2>2, <2>3, <2>4, RunUntouchedOK
<1> QED
  BY <1>1, CallOK, TickOK DEF ExecutorStep

(* The executor keeps its run state coherent and resumable whatever calls  *)
(* are made, whenever ticks happen and however time passes between them.   *)
THEOREM ExecutorCorrect == ExecutorSpec => []ExecutorInv
<1>1. ExecutorInit => ExecutorInv
  BY InitOK
<1>2. ExecutorInv /\ [ExecutorNext]_executorVars => ExecutorInv'
  BY StepOK DEF ExecutorNext, ExecutorStep
<1> QED
  BY <1>1, <1>2, PTL DEF ExecutorSpec

-----------------------------------------------------------------------------
(* What is left of the sleep that can still delay the next tick.           *)
Remaining == IF loop = "tick" \/ WakePending THEN 0 ELSE sleep

NextSecond == (ticker \div Second + 1) * Second

HeldUntil == EndsAt(CurrentEvents)[UnderWay]

(* The strengthening that makes EventHeldOnTime and TickerFresh inductive: *)
(* the deadline is met counting the sleep still to come, less the lateness *)
(* already used up.                                                        *)
Deadlines ==
  running => /\ ticker <= elapsed
             /\ elapsed + Remaining <= HeldUntil + late
             /\ elapsed + Remaining <= NextSecond + late

RunInv == TypeOK /\ ExecutorInv /\ PublishedIsCurrent /\ Deadlines

(* The assumptions on the constants, in one place.                         *)
LEMMA ConstantsAreNumbers ==
  /\ Second \in Nat \ {0} /\ MaxSleep \in Nat \ {0} /\ IdleSleep \in Nat \ {0}
  /\ MaxLate \in Nat
  BY SleepAssumption, LatenessAssumption

(* A run in time: where it is and what bounds it.                          *)
RunFacts ==
  /\ SeriesSelected /\ anchored
  /\ ticker \in Nat /\ elapsed \in Nat /\ event \in Nat
  /\ NextSecond \in Nat /\ ticker < NextSecond
  /\ NextSecond <= ticker + Second
  /\ UnderWay \in 0 .. Len(CurrentEvents)
  /\ HeldUntil \in Nat /\ ticker <= HeldUntil
  /\ CurrentEvents # <<>> =>
       /\ UnderWay = event /\ event \in 1 .. Len(CurrentEvents)
       /\ Holds(CurrentEvents, event, ticker)

(* What the executor's invariant says of a run under way.                  *)
LEMMA Running == ExecutorInv /\ running => RunFacts
<1> SUFFICES ASSUME ExecutorInv, running
             PROVE  RunFacts
  OBVIOUS
<1>1. /\ SeriesSelected /\ anchored /\ ticker # None /\ event \in Nat
      /\ ticker \in Nat /\ elapsed \in Nat
  BY DEF ExecutorInv, RunStateOK, ExecutorTypeOK, SeriesSelected, IsLoaded
<1>2. /\ Len(CurrentEvents) \in Nat
      /\ EndsAt(CurrentEvents) \in [0 .. Len(CurrentEvents) -> Nat]
  BY <1>1, Selected DEF ExecutorInv
<1>3. /\ NextSecond \in Nat /\ NextSecond <= ticker + Second
      /\ ticker < NextSecond
  <2> DEFINE q == ticker \div Second
  <2>1. q \in Nat /\ q * Second <= ticker /\ ticker < (q + 1) * Second
    BY <1>1, ConstantsAreNumbers
  <2>2. (q + 1) * Second = q * Second + Second /\ q * Second \in Nat
    BY <2>1, ConstantsAreNumbers
  <2> QED
    BY <1>1, <2>1, <2>2, ConstantsAreNumbers DEF NextSecond
<1>4. UnderWay \in 0 .. Len(CurrentEvents)
  BY <1>1, <1>2 DEF UnderWay, MinOf
<1>5. HeldUntil \in Nat
  BY <1>2, <1>4 DEF HeldUntil
<1>6. ASSUME CurrentEvents # <<>>
      PROVE  /\ UnderWay = event /\ event \in 1 .. Len(CurrentEvents)
             /\ Holds(CurrentEvents, event, ticker)
  <2>1. /\ event \in 1 .. Len(CurrentEvents)
        /\ Holds(CurrentEvents, event, ticker)
    BY <1>1, <1>6 DEF ExecutorInv, ResumesInItsEvent
  <2> QED
    BY <1>2, <2>1 DEF UnderWay, MinOf
<1>7. ticker <= HeldUntil
  <2>1. CASE CurrentEvents = <<>>
    <3>1. ticker = 0
      BY <1>1, <2>1 DEF ExecutorInv, ResumesInItsEvent
    <3> QED
      BY <1>5, <3>1
  <2>2. CASE CurrentEvents # <<>>
    <3>1. ticker < HeldUntil
      BY <1>6, <2>2 DEF Holds, HeldUntil
    <3> QED
      BY <1>1, <1>5, <3>1
  <2> QED
    BY <2>1, <2>2
<1> QED
  BY <1>1, <1>3, <1>4, <1>5, <1>6, <1>7 DEF RunFacts

(* The same, in the state a step leads to.                                 *)
LEMMA RunningNext == ExecutorInv' /\ running' => RunFacts'
  BY Running, PTL

(* The boot state satisfies the invariant.                                 *)
LEMMA RunInitOK ==
  ASSUME Init
  PROVE  RunInv
<1>1. ExecutorInv
  BY InitOK DEF Init
<1>2. TypeOK
  <2>1. loop = "tick" /\ sleep = 0 /\ notified = FALSE /\ http = "idle"
        /\ late = 0 /\ ExecutorTypeOK
    BY <1>1 DEF Init, ExecutorInv
  <2>2. late \in 0 .. MaxLate
    BY <2>1, ConstantsAreNumbers
  <2> QED
    BY <2>1, <2>2 DEF TypeOK
<1>3. PublishedIsCurrent
  BY DEF Init, PublishedIsCurrent
<1>4. Deadlines
  BY DEF Init, ExecutorInit, ProgramStateInit, Deadlines
<1> QED
  BY <1>1, <1>2, <1>3, <1>4 DEF RunInv

-----------------------------------------------------------------------------
(* Every step of the tasks is a step of the executor.                      *)

(* Every call the httpd task serves is a call of the executor.             *)
LEMMA CallIsCall ==
  ASSUME HttpCall
  PROVE  /\ Call \/ UNCHANGED executorVars
         /\ Serve("flushWake") \/ Serve("flush")
<1>1. SUBSET Banks \subseteq SUBSET AllBanks /\ AllBanks \in SUBSET AllBanks
  BY BankAssumption DEF Banks, AllBanks
<1>2. HttpTargets =>
        \E mask \in SUBSET AllBanks :
          \/ \E show \in BOOLEAN : SetTargets(mask, show)
          \/ ToggleTargets(mask)
          \/ FlipTargets(mask)
  BY <1>1 DEF HttpTargets
<1> QED
  BY <1>2 DEF HttpCall, HttpLoad, HttpStart, HttpStop, HttpReset, HttpUnload,
     HttpSkip, HttpDelete, HttpRefused, HttpTargets, Refused, Call

(* Every step of the two tasks is a step of the executor.                  *)
LEMMA StepIsStep ==
  ASSUME [Next]_vars
  PROVE  [ExecutorStep]_executorVars
<1>1. HttpCall => [ExecutorStep]_executorVars
  BY CallIsCall DEF ExecutorStep
<1>2. HttpFlush \/ LoopFlush => [ExecutorStep]_executorVars
  BY DEF HttpFlush, LoopFlush, Flush, ExecutorStep
<1>3. HttpWake \/ LoopWake => [ExecutorStep]_executorVars
  BY DEF HttpWake, LoopWake
<1>4. LoopTick \/ AudioTakes \/ Advance => [ExecutorStep]_executorVars
  BY DEF LoopTick, AudioTakes, Advance, ExecutorStep
<1> QED
  BY <1>1, <1>2, <1>3, <1>4 DEF Next, vars

(* tick() returns a duration.                                              *)
LEMMA TickSleepOK ==
  ASSUME ExecutorInv
  PROVE  /\ TickSleep \in Nat
         /\ TickRuns =>
              /\ elapsed + TickSleep <= EndsAt(CurrentEvents)[event']
              /\ elapsed + TickSleep <= (elapsed \div Second + 1) * Second
<1>1. ASSUME running /\ anchored /\ SeriesSelected /\ ~ AtEnd
      PROVE  /\ TickSleep \in Nat
             /\ elapsed + TickSleep <=
                  EndsAt(CurrentEvents)[EventAt(CurrentEvents, elapsed)]
             /\ elapsed + TickSleep <= (elapsed \div Second + 1) * Second
  <2> DEFINE here == EventAt(CurrentEvents, elapsed)
             end == EndsAt(CurrentEvents)[here]
             total == TotalMs(CurrentEvents)
  <2>1. /\ Timed(CurrentEvents) /\ total \in Nat /\ elapsed \in Nat
        /\ elapsed < total
        /\ Len(CurrentEvents) \in Nat
        /\ EndsAt(CurrentEvents) \in [0 .. Len(CurrentEvents) -> Nat]
    BY <1>1, Selected DEF ExecutorInv, ExecutorTypeOK, AtEnd
  <2>2. here \in 1 .. Len(CurrentEvents) /\ Holds(CurrentEvents, here, elapsed)
    BY <2>1, Located
  <2>3. end \in Nat /\ elapsed < end /\ end <= total
    BY <2>1, <2>2, EndsAtGrows DEF Holds, TotalMs
  <2>4. TickSleep = NextSleep(elapsed, end, total)
    BY <1>1 DEF TickSleep
  <2> HIDE DEF end, total
  <2>5. /\ TickSleep \in 1 .. MaxSleep
        /\ elapsed + TickSleep <= end
        /\ elapsed + TickSleep <= (elapsed \div Second + 1) * Second
    BY <2>1, <2>3, <2>4, SleepIsShort
  <2> QED
    BY <2>5, ConstantsAreNumbers DEF end
<1>2. TickSleep \in Nat
  BY <1>1, ConstantsAreNumbers DEF TickSleep
<1>3. TickRuns => event' = EventAt(CurrentEvents, elapsed)
  BY TickRunsHere
<1> QED
  BY <1>1, <1>2, <1>3 DEF TickRuns

(* No step leaves the types.                                               *)
LEMMA TypeStepOK ==
  ASSUME RunInv, [Next]_vars, ExecutorInv'
  PROVE  TypeOK'
<1>1. /\ loop \in {"tick", "flush", "wait"} /\ sleep \in Nat
      /\ notified \in BOOLEAN
      /\ http \in {"idle", "flush", "flushWake", "wake"}
      /\ late \in 0 .. MaxLate /\ ExecutorInv
  BY DEF RunInv, TypeOK
<1>2. CASE HttpCall
  BY <1>1, <1>2, CallIsCall DEF Serve, TypeOK, ExecutorInv
<1>3. CASE HttpFlush \/ HttpWake
  BY <1>1, <1>3 DEF HttpFlush, HttpWake, TypeOK, ExecutorInv
<1>4. CASE LoopTick
  <2>1. sleep' \in Nat /\ late' \in 0 .. MaxLate
    BY <1>1, <1>4, TickSleepOK, ConstantsAreNumbers DEF LoopTick
  <2>2. loop' = "flush" /\ UNCHANGED <<notified, http>>
    BY <1>4 DEF LoopTick
  <2> QED
    BY <1>1, <2>1, <2>2 DEF TypeOK, ExecutorInv
<1>5. CASE LoopFlush \/ LoopWake
  BY <1>1, <1>5 DEF LoopFlush, LoopWake, TypeOK, ExecutorInv
<1>6. CASE AudioTakes \/ UNCHANGED vars
  BY <1>1, <1>6 DEF AudioTakes, vars, taskVars, TypeOK, ExecutorInv
<1>7. CASE Advance
  <2>1. late' \in 0 .. MaxLate
    <3>1. \/ late' = late
          \/ (late' = late + 1) /\ (late < MaxLate)
      BY <1>7, Zenon DEF Advance
    <3> QED
      BY <1>1, <3>1, ConstantsAreNumbers
  <2>2. sleep' \in Nat
    <3>1. \/ sleep' = sleep
          \/ (sleep' = sleep - 1) /\ (sleep > 0)
      BY <1>7, Zenon DEF Advance
    <3> QED
      BY <1>1, <3>1
  <2> QED
    BY <1>1, <1>7, <2>1, <2>2 DEF Advance, TypeOK, ExecutorInv
<1> QED
  BY <1>2, <1>3, <1>4, <1>5, <1>6, <1>7 DEF Next
-----------------------------------------------------------------------------
(* Publishing *)

(* A step that asks for no broadcast leaves nothing new to publish.        *)
LEMMA QuietStep ==
  ASSUME ExecutorInv, Call \/ Tick \/ TimePasses \/ PlaybackTakes,
         dirty' = FALSE
  PROVE  dirty = FALSE /\ StateUpdate' = StateUpdate
<1>1. dirty \in BOOLEAN
  BY DEF ExecutorInv, ExecutorTypeOK
<1>2. ~ Call
  BY DEF Call, Load, Start, UnloadIfLoaded, ForceUnload, SkipToSeries, Stop,
     Reset, Unload, SetTargets, ToggleTargets, FlipTargets, StateChanged
<1>3. CASE TickIdle \/ TimePasses \/ PlaybackTakes
  <2>1. UNCHANGED <<program, running, series, event, ticker, shown, dirty>>
    BY <1>3 DEF TickIdle, TimePasses, PlaybackTakes, executorVars
  <2> QED
    BY <2>1 DEF StateUpdate, IsLoaded, TickerMs, SeriesSelected, CurrentEvents
<1>4. CASE TickStops
  BY <1>4 DEF TickStops, StateChanged
<1>5. CASE TickRuns
  <2>1. UNCHANGED <<program, running, series, ticker, dirty>>
        /\ EventAt(CurrentEvents, elapsed) = event
    BY <1>5 DEF TickRuns, StateChanged
  <2>2. UNCHANGED <<event, shown>>
    BY <1>5, <2>1 DEF TickRuns, StayInEvent
  <2> QED
    BY <2>1, <2>2 DEF StateUpdate, IsLoaded, TickerMs, SeriesSelected,
       CurrentEvents
<1> QED
  BY <1>2, <1>3, <1>4, <1>5 DEF Tick

(* After a flush the last frame is the state.                              *)
LEMMA FlushOK ==
  ASSUME Flush, PublishedIsCurrent
  PROVE  PublishedIsCurrent'
<1>1. /\ UNCHANGED <<program, running, series, event, ticker, shown>>
      /\ IF dirty THEN frame' = StateUpdate ELSE UNCHANGED <<frame, dirty>>
  BY DEF Flush, Published, executorVars
<1>2. StateUpdate' = StateUpdate
  BY <1>1 DEF StateUpdate, IsLoaded, TickerMs, SeriesSelected, CurrentEvents
<1> QED
  BY <1>1, <1>2 DEF PublishedIsCurrent

(* No step leaves a client with a stale frame and nothing waiting.         *)
LEMMA PublishStepOK ==
  ASSUME RunInv, [Next]_vars, ExecutorInv'
  PROVE  PublishedIsCurrent'
<1>1. PublishedIsCurrent /\ ExecutorInv /\ dirty' \in BOOLEAN
  BY DEF RunInv, ExecutorInv, ExecutorTypeOK
<1>2. CASE HttpFlush \/ LoopFlush
  BY <1>1, <1>2, FlushOK DEF HttpFlush, LoopFlush
<1>3. CASE UNCHANGED <<executorVars, frame>>
  BY <1>1, <1>3 DEF PublishedIsCurrent, executorVars, StateUpdate, IsLoaded,
     TickerMs, SeriesSelected, CurrentEvents
<1>4. CASE (Call \/ Tick \/ TimePasses \/ PlaybackTakes) /\ UNCHANGED frame
  BY <1>1, <1>4, QuietStep DEF PublishedIsCurrent
<1>5. HttpCall => \/ UNCHANGED <<executorVars, frame>>
                  \/ Call /\ UNCHANGED frame
  BY CallIsCall DEF Serve
<1>6. HttpWake \/ LoopWake \/ UNCHANGED vars => UNCHANGED <<executorVars, frame>>
  BY DEF HttpWake, LoopWake, vars, taskVars
<1>7. LoopTick \/ AudioTakes \/ Advance =>
        (Tick \/ TimePasses \/ PlaybackTakes) /\ UNCHANGED frame
  BY DEF LoopTick, AudioTakes, Advance, taskVars
<1> QED
  BY <1>2, <1>3, <1>4, <1>5, <1>6, <1>7 DEF Next

-----------------------------------------------------------------------------
(* Time *)

(* A shorter sleep meets every deadline the longer one met.                *)
LEMMA Sooner ==
  ASSUME NEW a \in Nat, NEW b \in Nat, NEW c \in Nat, NEW d \in Nat,
         NEW e \in Nat, c <= b, a + b <= d + e
  PROVE  a + c <= d + e
  OBVIOUS

(* With nothing left to sleep, the deadlines are about now.                *)
LEMMA NoSleepAtAll ==
  ASSUME NEW a \in Nat, NEW d \in Nat, NEW e \in Nat, a <= d
  PROVE  a + 0 <= d + e
  OBVIOUS

(* A step that leaves the run where it is and brings the next tick no      *)
(* further away.                                                           *)
LEMMA UndelayedOK ==
  ASSUME RunInv, ExecutorInv',
         UNCHANGED <<program, running, series, event, ticker, elapsed, late>>,
         Remaining' \in Nat, Remaining' <= Remaining
  PROVE  Deadlines'
<1> SUFFICES ASSUME running'
             PROVE  Deadlines'
  BY Zenon DEF Deadlines
<1>1. running /\ ExecutorInv
  BY DEF RunInv
<1>2. HeldUntil' = HeldUntil /\ NextSecond' = NextSecond
  BY DEF HeldUntil, CurrentEvents, UnderWay, NextSecond
<1>3. /\ ticker <= elapsed
      /\ elapsed + Remaining <= HeldUntil + late
      /\ elapsed + Remaining <= NextSecond + late
  BY <1>1 DEF RunInv, Deadlines
<1>4. Remaining \in Nat /\ late \in Nat
  BY ConstantsAreNumbers DEF RunInv, TypeOK, Remaining
<1>5. elapsed \in Nat /\ NextSecond \in Nat /\ HeldUntil \in Nat
  BY <1>1, Running DEF RunFacts
<1>6. elapsed + Remaining' <= HeldUntil + late
  BY <1>3, <1>4, <1>5, Sooner
<1>7. elapsed + Remaining' <= NextSecond + late
  BY <1>3, <1>4, <1>5, Sooner
<1> QED
  BY <1>2, <1>3, <1>6, <1>7 DEF Deadlines

(* A start places the run in its event and wakes the loop.                 *)
LEMMA StartInTime ==
  ASSUME RunInv, ExecutorInv', NEW id, Start(id), Serve("flushWake")
  PROVE  Deadlines'
<1>1. running' /\ ticker' = elapsed'
  BY DEF Start
<1>2. Remaining' = 0
  BY DEF Serve, Remaining, WakePending
<1>3. late' = late /\ late \in Nat
  BY ConstantsAreNumbers DEF Serve, RunInv, TypeOK
<1>4. /\ ticker' \in Nat /\ NextSecond' \in Nat /\ HeldUntil' \in Nat
      /\ ticker' < NextSecond' /\ ticker' <= HeldUntil'
  BY <1>1, RunningNext DEF RunFacts
<1>5. elapsed' \in Nat /\ ticker' <= elapsed'
  BY <1>1, <1>4
<1>6. /\ elapsed' + 0 <= HeldUntil' + late
      /\ elapsed' + 0 <= NextSecond' + late
  <2>1. elapsed' <= HeldUntil' /\ elapsed' <= NextSecond'
    BY <1>1, <1>4
  <2> QED
    BY <1>3, <1>4, <1>5, <2>1, NoSleepAtAll
<1> QED
  BY <1>2, <1>3, <1>5, <1>6 DEF Deadlines

(* A tick sleeps no further than the event and the second it is in.        *)
LEMMA TickInTime ==
  ASSUME RunInv, ExecutorInv', LoopTick
  PROVE  Deadlines'
<1> SUFFICES ASSUME running'
             PROVE  Deadlines'
  BY Zenon DEF Deadlines
<1>1. ExecutorInv /\ Tick /\ sleep' = TickSleep /\ late' = 0
  BY DEF RunInv, LoopTick
<1>2. TickRuns
  BY <1>1 DEF Tick, TickIdle, TickStops, executorVars, ExecutorInv, RunStateOK
<1>3. /\ UNCHANGED <<program, series, elapsed>>
      /\ \/ ticker' = elapsed
         \/ ticker' = ticker /\ ticker \div Second = elapsed \div Second
  BY <1>2 DEF TickRuns
<1>4. /\ elapsed \in Nat /\ SeriesSelected
      /\ event' \in 1 .. Len(CurrentEvents)
      /\ Holds(CurrentEvents, event', elapsed)
      /\ Len(CurrentEvents) \in Nat
  BY <1>1, <1>2, TickRunsHere, Selected DEF ExecutorInv
<1>5. CurrentEvents' = CurrentEvents
  BY <1>3 DEF CurrentEvents
<1>6. HeldUntil' = EndsAt(CurrentEvents)[event']
  <2>1. UnderWay' = event'
    BY <1>4, <1>5 DEF UnderWay, MinOf
  <2> QED
    BY <1>5, <2>1 DEF HeldUntil
<1>7. NextSecond' = (elapsed \div Second + 1) * Second
  BY <1>3 DEF NextSecond
<1>8. TickSleep \in Nat /\ elapsed + TickSleep <= HeldUntil'
      /\ elapsed + TickSleep <= NextSecond'
  BY <1>1, <1>2, <1>6, <1>7, TickSleepOK
<1>9. /\ HeldUntil' \in Nat /\ NextSecond' \in Nat
      /\ ticker' \in Nat
  BY RunningNext DEF RunFacts
<1>10. Remaining' = 0 \/ Remaining' = TickSleep
  BY <1>1 DEF Remaining
<1>11. ticker' <= elapsed
  <2>1. CASE ticker' = elapsed
    BY <1>4, <2>1
  <2>2. CASE ticker' = ticker
    <3>1. running
      BY <1>2 DEF TickRuns
    <3> QED
      BY <2>2, <3>1 DEF RunInv, Deadlines
  <2> QED
    BY <1>3, <2>1, <2>2
<1>12. /\ elapsed + Remaining' <= HeldUntil' + 0
       /\ elapsed + Remaining' <= NextSecond' + 0
  BY <1>4, <1>8, <1>9, <1>10
<1> QED
  BY <1>1, <1>3, <1>11, <1>12 DEF Deadlines

(* A millisecond is either slept or paid for by the scheduler's allowance. *)
LEMMA AdvanceInTime ==
  ASSUME RunInv, ExecutorInv', Advance
  PROVE  Deadlines'
<1> SUFFICES ASSUME running'
             PROVE  Deadlines'
  BY Zenon DEF Deadlines
<1>1. UNCHANGED <<program, running, series, event, ticker, loop, notified, http>>
  BY DEF Advance, TimePasses
<1>2. running /\ ExecutorInv /\ sleep \in Nat /\ late \in Nat
  BY <1>1, ConstantsAreNumbers DEF RunInv, TypeOK
<1>3. anchored /\ elapsed \in Nat /\ NextSecond \in Nat /\ HeldUntil \in Nat
      /\ ticker \in Nat
  BY <1>2, Running DEF RunFacts
<1>4. elapsed' = elapsed + 1
  BY <1>3 DEF Advance, TimePasses
<1>5. HeldUntil' = HeldUntil /\ NextSecond' = NextSecond
  BY <1>1 DEF HeldUntil, CurrentEvents, UnderWay, NextSecond
<1>6. /\ ticker <= elapsed
      /\ elapsed + Remaining <= HeldUntil + late
      /\ elapsed + Remaining <= NextSecond + late
  BY <1>2 DEF RunInv, Deadlines
<1>7. WakePending' = WakePending
  BY <1>1 DEF WakePending
<1>8. CASE Owed
  <2>1. late' = late + 1
    BY <1>8 DEF Advance
  <2>2. Remaining' = Remaining
    <3>1. CASE loop = "wait" /\ ~ WakePending
      <4>1. sleep = 0 /\ sleep' = 0
        BY <1>8, <3>1 DEF Advance, Owed
      <4> QED
        BY <1>1, <1>7, <3>1, <4>1 DEF Remaining
    <3>2. CASE WakePending
      BY <1>7, <3>2 DEF Remaining
    <3>3. CASE loop # "wait"
      <4>1. sleep' = sleep
        BY <3>3 DEF Advance
      <4> QED
        BY <1>1, <1>7, <4>1 DEF Remaining
    <3> QED
      BY <3>1, <3>2, <3>3
  <2>3. Remaining \in Nat
    BY <1>2 DEF Remaining
  <2>4. /\ elapsed + 1 + Remaining <= HeldUntil + (late + 1)
        /\ elapsed + 1 + Remaining <= NextSecond + (late + 1)
        /\ ticker <= elapsed + 1
    BY <1>2, <1>3, <1>6, <2>3
  <2> QED
    BY <1>1, <1>4, <1>5, <2>1, <2>2, <2>4 DEF Deadlines
<1>9. CASE ~ Owed
  <2>1. loop = "wait" /\ sleep # 0 /\ ~ WakePending /\ late' = late
    BY <1>9 DEF Owed, Advance
  <2>2. sleep' = sleep - 1
    BY <1>2, <2>1 DEF Advance
  <2>3. Remaining = sleep /\ Remaining' = sleep - 1
    BY <1>1, <1>7, <2>1, <2>2 DEF Remaining
  <2>4. /\ elapsed + 1 + (sleep - 1) <= HeldUntil + late
        /\ elapsed + 1 + (sleep - 1) <= NextSecond + late
        /\ ticker <= elapsed + 1
    BY <1>2, <1>3, <1>6, <2>3
  <2> QED
    BY <1>1, <1>4, <1>5, <2>1, <2>3, <2>4 DEF Deadlines
<1> QED
  BY <1>8, <1>9

(* A call that changes the run wakes the run loop, so no sleep chosen      *)
(* before it counts.                                                       *)
LEMMA CallInTime ==
  ASSUME RunInv, ExecutorInv', HttpCall
  PROVE  Deadlines'
<1>1. CASE HttpStart
  BY <1>1, StartInTime DEF HttpStart
<1>2. CASE HttpTargets \/ HttpRefused
  <2>1. UNCHANGED <<program, running, series, event, ticker, elapsed>>
    BY <1>2 DEF HttpTargets, HttpRefused, Refused, executorVars, SetTargets,
       ToggleTargets, FlipTargets, RunUntouched
  <2>2. UNCHANGED <<loop, sleep, notified, late>> /\ http = "idle"
    BY <1>2 DEF HttpTargets, HttpRefused, Serve
  <2>3. Remaining \in Nat
    BY DEF RunInv, TypeOK, Remaining
  <2>4. Remaining' \in {0, Remaining}
    BY <2>2 DEF Remaining, WakePending
  <2>5. Remaining' \in Nat /\ Remaining' <= Remaining
    BY <2>3, <2>4
  <2> QED
    BY <2>1, <2>2, <2>5, UndelayedOK
<1>3. CASE HttpLoad \/ HttpStop \/ HttpReset \/ HttpUnload \/ HttpSkip \/ HttpDelete
  <2>1. running' = FALSE
    BY <1>3 DEF HttpLoad, HttpStop, HttpReset, HttpUnload, HttpSkip, HttpDelete,
       Load, Stop, Reset, Unload, SkipToSeries, UnloadIfLoaded, ForceUnload,
       Rewound
  <2> QED
    BY <2>1 DEF Deadlines
<1> QED
  BY <1>1, <1>2, <1>3 DEF HttpCall

(* The steps between a tick and the next that neither call nor take time.  *)
LEMMA SteadyInTime ==
  ASSUME RunInv, ExecutorInv',
         \/ HttpFlush \/ HttpWake \/ LoopFlush \/ LoopWake \/ AudioTakes
         \/ UNCHANGED vars
  PROVE  Deadlines'
<1>1. UNCHANGED <<program, running, series, event, ticker, elapsed, late>>
  BY DEF HttpFlush, HttpWake, LoopFlush, LoopWake, AudioTakes, Flush, Published,
     PlaybackTakes, vars, taskVars, executorVars
<1>2. Remaining \in Nat
  BY DEF RunInv, TypeOK, Remaining
<1>3. Remaining' \in {0, Remaining}
  <2>1. CASE HttpFlush \/ HttpWake
    BY <2>1 DEF HttpFlush, HttpWake, Remaining, WakePending
  <2>2. CASE LoopFlush \/ LoopWake
    BY <2>2 DEF LoopFlush, LoopWake, Remaining, WakePending
  <2>3. CASE AudioTakes \/ UNCHANGED vars
    BY <2>3 DEF AudioTakes, vars, taskVars, Remaining, WakePending
  <2> QED
    BY <2>1, <2>2, <2>3
<1>4. Remaining' \in Nat /\ Remaining' <= Remaining
  BY <1>2, <1>3
<1> QED
  BY <1>1, <1>4, UndelayedOK

-----------------------------------------------------------------------------
(* No step of either task breaks the invariant.                            *)
LEMMA RunStepOK == RunInv /\ [Next]_vars => RunInv'
<1> SUFFICES ASSUME RunInv, [Next]_vars
             PROVE  RunInv'
  OBVIOUS
<1>1. ExecutorInv'
  BY StepIsStep, StepOK DEF RunInv
<1>2. Deadlines'
  BY <1>1, CallInTime, TickInTime, AdvanceInTime, SteadyInTime DEF Next
<1> QED
  BY <1>1, <1>2, TypeStepOK, PublishStepOK DEF RunInv

(* The invariant of the two tasks, from which the safety theorems follow:  *)
(* types, a coherent executor, a current frame, and deadlines that are met *)
(* counting the sleep still to come.                                       *)
THEOREM RunInvariant == SafetySpec => []RunInv
<1>1. Init => RunInv
  BY RunInitOK
<1> QED
  BY <1>1, RunStepOK, PTL DEF SafetySpec

(* Every variable holds what the code could hold.                          *)
THEOREM TypeCorrect == SafetySpec => []TypeOK
<1>1. RunInv => TypeOK
  BY DEF RunInv
<1> QED
  BY <1>1, RunInvariant, PTL

(* Neither task, in any interleaving of control calls, ticks and flushes,  *)
(* leaves a run without a place in a startable program.                    *)
THEOREM RunStateCoherent == SafetySpec => []RunStateOK
<1>1. RunInv => RunStateOK
  BY DEF RunInv, ExecutorInv
<1> QED
  BY <1>1, RunInvariant, PTL

(* A pause resumes in the event it stopped in.                             *)
THEOREM PauseResumes == SafetySpec => []ResumesInItsEvent
<1>1. RunInv => ResumesInItsEvent
  BY DEF RunInv, ExecutorInv
<1> QED
  BY <1>1, RunInvariant, PTL

(* A run, under way or paused, has a place in a startable program.         *)
THEOREM RunsHaveTheirPlace == SafetySpec => []RunHasItsPlace
<1>1. RunStateOK /\ ResumesInItsEvent => RunHasItsPlace
  BY DEF RunHasItsPlace
<1> QED
  BY <1>1, RunStateCoherent, PauseResumes, PTL

(* Once nothing waits to be published, the last frame is the state.        *)
THEOREM NoStaleFrame == SafetySpec => []PublishedIsCurrent
<1>1. RunInv => PublishedIsCurrent
  BY DEF RunInv
<1> QED
  BY <1>1, RunInvariant, PTL

(* No event is held past its end by more than the scheduler's lateness.    *)
THEOREM EventsEndOnTime == SafetySpec => []EventHeldOnTime
<1>1. ASSUME RunInv, running
      PROVE  elapsed <= HeldUntil + MaxLate
  <2>1. /\ elapsed + Remaining <= HeldUntil + late
        /\ Remaining \in Nat /\ late \in Nat /\ late <= MaxLate
    BY <1>1, ConstantsAreNumbers DEF RunInv, Deadlines, TypeOK, Remaining
  <2>2. elapsed \in Nat /\ HeldUntil \in Nat
    BY <1>1, Running DEF RunInv, RunFacts
  <2> QED
    BY <2>1, <2>2, ConstantsAreNumbers
<1>2. RunInv => EventHeldOnTime
  BY <1>1 DEF EventHeldOnTime, HeldUntil
<1> QED
  BY <1>2, RunInvariant, PTL

(* The published position of a run is at most a second old.                *)
THEOREM TickerIsFresh == SafetySpec => []TickerFresh
<1>1. ASSUME RunInv, running
      PROVE  elapsed <= ticker + Second + MaxLate
  <2>1. /\ elapsed + Remaining <= NextSecond + late
        /\ Remaining \in Nat /\ late \in Nat /\ late <= MaxLate
    BY <1>1, ConstantsAreNumbers DEF RunInv, Deadlines, TypeOK, Remaining
  <2>2. /\ elapsed \in Nat /\ ticker \in Nat /\ NextSecond \in Nat
        /\ NextSecond <= ticker + Second
    BY <1>1, Running DEF RunInv, RunFacts
  <2> QED
    BY <2>1, <2>2, ConstantsAreNumbers
<1>2. RunInv => TickerFresh
  BY <1>1 DEF TickerFresh
<1> QED
  BY <1>2, RunInvariant, PTL

(* Neither the end of an event nor a whole second is slept through.        *)
THEOREM RunsKeepTheirTimes == SafetySpec => []RunKeepsItsTimes
<1>1. EventHeldOnTime /\ TickerFresh => RunKeepsItsTimes
  BY DEF RunKeepsItsTimes
<1> QED
  BY <1>1, EventsEndOnTime, TickerIsFresh, PTL
-----------------------------------------------------------------------------
(* What a tick leaves out                                                  *)

SkippedIsShort ==
  LET into == IF running' THEN event' - 1 ELSE Len(CurrentEvents)
  IN  /\ running' => event' >= event
      /\ EndsAt(CurrentEvents)[into] - EndsAt(CurrentEvents)[UnderWay]
           <= MaxLate

(* A tick moves over no more of the series than the scheduler was late.    *)
LEMMA TickSkipsLittle ==
  ASSUME RunInv, LoopTick, running
  PROVE  SkippedIsShort
<1> DEFINE ends == EndsAt(CurrentEvents)
           last == Len(CurrentEvents)
<1>1. ExecutorInv /\ Tick /\ ~ TickIdle /\ loop = "tick"
  BY DEF RunInv, LoopTick, TickIdle, ExecutorInv, RunStateOK
<1>2. /\ SeriesSelected /\ elapsed \in Nat /\ ticker \in Nat
      /\ HeldUntil \in Nat /\ event \in Nat
      /\ CurrentEvents # <<>> =>
           /\ UnderWay = event /\ event \in 1 .. last
           /\ Holds(CurrentEvents, event, ticker)
  BY <1>1, Running DEF RunFacts
<1>3. /\ last \in Nat /\ Timed(CurrentEvents)
      /\ ends \in [0 .. last -> Nat]
  BY <1>1, <1>2, Selected DEF ExecutorInv
<1>4. late \in Nat /\ late <= MaxLate
  BY ConstantsAreNumbers DEF RunInv, TypeOK
<1>5. elapsed <= HeldUntil + MaxLate
  <2>1. Remaining = 0
    BY <1>1 DEF Remaining
  <2>2. elapsed + 0 <= HeldUntil + late
    BY <2>1 DEF RunInv, Deadlines
  <2> QED
    BY <1>2, <1>4, <2>2, ConstantsAreNumbers
<1>6. CASE TickStops
  <2>1. elapsed >= ends[last] /\ running' = FALSE
    BY <1>2, <1>6 DEF TickStops, AtEnd, TotalMs
  <2>2. ends[last] - HeldUntil <= MaxLate
    BY <1>2, <1>3, <1>5, <2>1, ConstantsAreNumbers
  <2> QED
    BY <2>1, <2>2 DEF SkippedIsShort, HeldUntil
<1>7. CASE TickRuns
  <2>1. /\ event' \in 1 .. last
        /\ ends[event' - 1] <= elapsed /\ elapsed < ends[event']
    BY <1>1, <1>7, TickRunsHere DEF Holds
  <2>2. running' /\ CurrentEvents # <<>>
    <3>1. running'
      BY <1>7 DEF TickRuns
    <3> QED
      BY <1>3, <2>1, <3>1
  <2>3. ends[event' - 1] - HeldUntil <= MaxLate
    <3>1. ends[event' - 1] \in Nat
      BY <1>3, <2>1
    <3> QED
      BY <1>2, <1>5, <2>1, <3>1, ConstantsAreNumbers
  <2>4. event' >= event
    <3> SUFFICES ASSUME event' < event
                 PROVE  FALSE
      BY <1>2, <1>3, <2>1
    <3>1. /\ event \in 1 .. last /\ ends[event - 1] <= ticker
          /\ ticker <= elapsed
      BY <1>2, <2>2 DEF Holds, RunInv, Deadlines
    <3>2. event - 1 \in 0 .. last /\ event' \in 0 .. event - 1
      BY <1>3, <2>1, <3>1
    <3>3. ends[event'] <= ends[event - 1]
      BY <1>3, <3>2, EndsAtGrows
    <3>4. ends[event'] \in Nat /\ ends[event - 1] \in Nat
      BY <1>3, <3>2
    <3> QED
      BY <1>2, <2>1, <3>1, <3>3, <3>4
  <2> QED
    BY <2>2, <2>3, <2>4 DEF SkippedIsShort, HeldUntil
<1> QED
  BY <1>1, <1>6, <1>7 DEF Tick

(* No tick jumps over, and no completion cuts off, more than the           *)
(* scheduler was late: with events that last longer none is ever lost.     *)
THEOREM NoEventIsLost == SafetySpec => NothingSkipped
<1>1. RunInv /\ [Next]_vars =>
        [LoopTick /\ running => SkippedIsShort]_vars
  BY TickSkipsLittle
<1>2. SafetySpec => [][LoopTick /\ running => SkippedIsShort]_vars
  BY <1>1, RunInvariant, PTL DEF SafetySpec
<1> QED
  BY <1>2, Zenon DEF NothingSkipped, SkippedIsShort

-----------------------------------------------------------------------------
(* Nothing but a run entering an event, or a call that asks for exactly    *)
(* that, turns a target.                                                   *)
TargetsMoveFor ==
  shown' # shown => \/ running' /\ (event' # event \/ ~ running)
                    \/ http = "idle" /\ http' = "flush"

(* The tick turns targets only by entering an event.                       *)
LEMMA OnlyEntryMoves ==
  ASSUME RunInv, [Next]_vars
  PROVE  TargetsMoveFor
<1>1. CASE HttpTargets
  BY <1>1 DEF HttpTargets, Serve, TargetsMoveFor
<1>2. CASE HttpStart
  <2>1. running' /\ ~ running
    BY <1>2 DEF HttpStart, Start
  <2> QED
    BY <2>1, Zenon DEF TargetsMoveFor
<1>3. CASE HttpLoad \/ HttpStop \/ HttpReset \/ HttpUnload \/ HttpSkip
           \/ HttpDelete \/ HttpRefused
  <2>1. shown' = shown
    BY <1>3 DEF HttpLoad, HttpStop, HttpReset, HttpUnload, HttpSkip, HttpDelete,
       HttpRefused, Load, Stop, Reset, Unload, SkipToSeries, UnloadIfLoaded,
       ForceUnload, Refused, executorVars
  <2> QED
    BY <2>1 DEF TargetsMoveFor
<1>4. CASE LoopTick
  <2>1. CASE TickIdle \/ TickStops
    BY <2>1 DEF TickIdle, TickStops, executorVars, TargetsMoveFor
  <2>2. CASE TickRuns
    <3> DEFINE here == EventAt(CurrentEvents, elapsed)
    <3>1. running'
      BY <2>2 DEF TickRuns
    <3>2. here = event => shown' = shown
      BY <2>2 DEF TickRuns, StayInEvent
    <3>3. event' = here
      BY <2>2, TickRunsHere DEF RunInv
    <3> HIDE DEF here
    <3>4. shown' # shown => event' # event
      BY <3>2, <3>3
    <3> QED
      BY <3>1, <3>4, Zenon DEF TargetsMoveFor
  <2> QED
    BY <1>4, <2>1, <2>2 DEF LoopTick, Tick
<1>5. CASE \/ HttpFlush \/ HttpWake \/ LoopFlush \/ LoopWake \/ AudioTakes
           \/ Advance \/ UNCHANGED vars
  <2>1. shown' = shown
    BY <1>5 DEF HttpFlush, HttpWake, LoopFlush, LoopWake, AudioTakes, Advance,
       Flush, Published, PlaybackTakes, TimePasses, vars, executorVars
  <2> QED
    BY <2>1 DEF TargetsMoveFor
<1> QED
  BY <1>1, <1>2, <1>3, <1>4, <1>5 DEF Next, HttpCall

(* Targets turn only when a run enters an event or a call asks for it,     *)
(* whatever else the tasks do.                                             *)
THEOREM TargetsStayPut == SafetySpec => OnlyEventsTurnTargets
<1>1. RunInv /\ [Next]_vars => [TargetsMoveFor]_vars
  BY OnlyEntryMoves
<1>2. SafetySpec => [][TargetsMoveFor]_vars
  BY <1>1, RunInvariant, PTL DEF SafetySpec
<1> QED
  BY <1>2 DEF OnlyEventsTurnTargets, TargetsMoveFor

-----------------------------------------------------------------------------
(* The clip of an event                                                    *)

Cued ==
  clips' \notin {clips, <<>>} =>
    /\ running'
    /\ clips' = CurrentEvents[event'].audio
    /\ \/ running /\ event' # event
       \/ ~ running /\ ticker' = EndsAt(CurrentEvents)[event' - 1]

(* A start asks for the clip of an event only at the event's beginning.    *)
LEMMA StartCues ==
  ASSUME ExecutorInv, NEW id, Start(id), clips' # clips
  PROVE  /\ running' /\ ~ running
         /\ clips' = CurrentEvents[event'].audio
         /\ ticker' = EndsAt(CurrentEvents)[event' - 1]
<1> DEFINE here == EventAt(CurrentEvents, ResumeFrom)
<1>1. /\ running' /\ ~ running /\ ticker' = ResumeFrom
      /\ LocationValid(CurrentEvents, ResumeFrom)
      /\ EnterEvent(here, OffsetAt(CurrentEvents, ResumeFrom) = 0)
  BY DEF Start, StayInEvent
<1>2. SeriesSelected
  BY DEF Start, StartOutcome
<1>3. /\ Len(CurrentEvents) \in Nat
      /\ EndsAt(CurrentEvents) \in [0 .. Len(CurrentEvents) -> Nat]
  BY <1>2, Selected DEF ExecutorInv
<1>4. here \in 1 .. Len(CurrentEvents)
  BY <1>1, LocatedIfValid
<1>5. /\ event' = here /\ clips' = CurrentEvents[here].audio
      /\ OffsetAt(CurrentEvents, ResumeFrom) = 0
  BY <1>1 DEF EnterEvent
<1>6. ResumeFrom - EndsAt(CurrentEvents)[here - 1] = 0
  BY <1>5 DEF OffsetAt
<1>7. ResumeFrom \in Nat /\ EndsAt(CurrentEvents)[here - 1] \in Nat
  <2>1. ticker \in Nat \cup {None}
    BY DEF ExecutorInv, ExecutorTypeOK
  <2>2. ResumeFrom \in Nat
    BY <2>1 DEF ResumeFrom
  <2>3. here - 1 \in 0 .. Len(CurrentEvents)
    BY <1>3, <1>4
  <2> QED
    BY <2>2, <2>3, <1>3
<1> HIDE DEF here
<1>8. ResumeFrom = EndsAt(CurrentEvents)[here - 1]
  BY <1>6, <1>7
<1> QED
  BY <1>1, <1>5, <1>8

(* No step asks for a clip but at its event's beginning.                   *)
LEMMA ClipsAreCued ==
  ASSUME RunInv, [Next]_vars
  PROVE  Cued
<1>1. CASE HttpStart
  <2>1. PICK p \in Programs : Start(p.id)
    BY <1>1 DEF HttpStart
  <2>2. ExecutorInv
    BY DEF RunInv
  <2> QED
    BY <2>1, <2>2, StartCues, Zenon DEF Cued
<1>2. CASE LoopTick
  <2>1. CASE TickIdle \/ TickStops
    BY <2>1 DEF TickIdle, TickStops, executorVars, Cued
  <2>2. CASE TickRuns
    <3> DEFINE here == EventAt(CurrentEvents, elapsed)
    <3>1. running /\ running'
      BY <2>2 DEF TickRuns
    <3>2. here = event => clips' = clips
      BY <2>2 DEF TickRuns, StayInEvent
    <3>3. here # event => event' = here /\ clips' \in {clips, CurrentEvents[here].audio}
      BY <2>2 DEF TickRuns, EnterEvent
    <3> HIDE DEF here
    <3> QED
      BY <3>1, <3>2, <3>3, Zenon DEF Cued
  <2> QED
    BY <1>2, <2>1, <2>2 DEF LoopTick, Tick
<1>3. CASE AudioTakes
  BY <1>3 DEF AudioTakes, PlaybackTakes, Cued
<1>4. CASE \/ HttpLoad \/ HttpStop \/ HttpReset \/ HttpUnload \/ HttpSkip
           \/ HttpDelete \/ HttpRefused \/ HttpTargets
           \/ HttpFlush \/ HttpWake \/ LoopFlush \/ LoopWake \/ Advance
           \/ UNCHANGED vars
  <2>1. clips' = clips
    BY <1>4 DEF HttpLoad, HttpStop, HttpReset, HttpUnload, HttpSkip, HttpDelete,
       HttpRefused, HttpTargets, Load, Stop, Reset, Unload, SkipToSeries,
       UnloadIfLoaded, ForceUnload, Refused, SetTargets, ToggleTargets,
       FlipTargets, RunUntouched, HttpFlush, HttpWake, LoopFlush, LoopWake,
       Advance, Flush, Published, TimePasses, vars, executorVars
  <2> QED
    BY <2>1 DEF Cued
<1> QED
  BY <1>1, <1>2, <1>3, <1>4 DEF Next, HttpCall

(* A clip is asked for when its event begins and never again from the      *)
(* middle of it, whatever was paused, resumed, skipped or missed           *)
(* (executor.cpp:193-229).                                                 *)
THEOREM ClipsAlwaysStartWithTheirEvent == SafetySpec => ClipsStartWithTheirEvent
<1>1. RunInv /\ [Next]_vars => [Cued]_vars
  BY ClipsAreCued
<1>2. SafetySpec => [][Cued]_vars
  BY <1>1, RunInvariant, PTL DEF SafetySpec
<1> QED
  BY <1>2, Zenon DEF ClipsStartWithTheirEvent, Cued

-----------------------------------------------------------------------------
(* The abstract specification, step by step                                *)

(* A series without events stands at its start.                            *)
EmptyAtItsStart == SeriesSelected /\ CurrentEvents = <<>> => event = 1

LEMMA EmptyKeepsItsStart ==
  ASSUME ExecutorInv, EmptyAtItsStart, [Next]_vars
  PROVE  EmptyAtItsStart'
<1>1. CASE UNCHANGED <<program, series, event>>
  BY <1>1 DEF EmptyAtItsStart, SeriesSelected, CurrentEvents, IsLoaded
<1>2. CASE event' = 1 \/ program' = None
  BY <1>2 DEF EmptyAtItsStart, SeriesSelected, IsLoaded
<1>3. CASE HttpStart
  <2>1. PICK p \in Programs : Start(p.id)
    BY <1>3 DEF HttpStart
  <2>2. UNCHANGED <<program, series>>
    BY <2>1 DEF Start
  <2>3. CASE CurrentEvents = <<>>
    <3>1. ~ LocationValid(CurrentEvents, ResumeFrom)
      BY <2>3 DEF LocationValid
    <3>2. event' = event
      BY <2>1, <3>1 DEF Start, StayInEvent
    <3> QED
      BY <2>2, <3>2, <1>1
  <2>4. CASE CurrentEvents # <<>>
    BY <2>2, <2>4 DEF EmptyAtItsStart, CurrentEvents
  <2> QED
    BY <2>3, <2>4
<1>4. CASE LoopTick
  <2>1. CASE TickIdle
    BY <2>1, <1>1 DEF TickIdle, executorVars
  <2>2. CASE TickStops
    BY <2>2, <1>1, <1>2 DEF TickStops, SelectFollowing
  <2>3. CASE TickRuns
    <3>1. /\ UNCHANGED <<program, series>>
          /\ event' \in 1 .. Len(CurrentEvents)
      BY <2>3, TickRunsHere DEF TickRuns
    <3>2. CurrentEvents # <<>>
      BY <3>1
    <3> QED
      BY <3>1, <3>2 DEF EmptyAtItsStart, CurrentEvents
  <2> QED
    BY <1>4, <2>1, <2>2, <2>3 DEF LoopTick, Tick
<1>5. HttpLoad \/ HttpReset \/ HttpUnload \/ HttpSkip \/ HttpDelete =>
        event' = 1 \/ program' = None
  BY DEF HttpLoad, HttpReset, HttpUnload, HttpSkip, HttpDelete, Load, Reset,
     Rewound, Unload, ForceUnload, SkipToSeries, UnloadIfLoaded
<1>6. (\/ HttpStop \/ HttpRefused \/ HttpTargets \/ HttpFlush \/ HttpWake
       \/ LoopFlush \/ LoopWake \/ AudioTakes \/ Advance \/ UNCHANGED vars) =>
        UNCHANGED <<program, series, event>>
  BY DEF HttpStop, HttpRefused, HttpTargets, Stop, Refused, SetTargets,
     ToggleTargets, FlipTargets, RunUntouched, HttpFlush, HttpWake, LoopFlush,
     LoopWake, AudioTakes, PlaybackTakes, Advance, Flush, Published,
     TimePasses, vars, executorVars
<1>7. \/ HttpLoad \/ HttpReset \/ HttpUnload \/ HttpSkip \/ HttpDelete
      \/ HttpStart \/ LoopTick
      \/ HttpStop \/ HttpRefused \/ HttpTargets \/ HttpFlush \/ HttpWake
      \/ LoopFlush \/ LoopWake \/ AudioTakes \/ Advance \/ UNCHANGED vars
  BY DEF Next, HttpCall
<1>8. \/ event' = 1 \/ program' = None
      \/ UNCHANGED <<program, series, event>>
      \/ HttpStart \/ LoopTick
  BY <1>5, <1>6, <1>7
<1> QED
  BY <1>1, <1>2, <1>3, <1>4, <1>8

(* The invariant of the refinement.                                        *)
PromiseInv == RunInv /\ EmptyAtItsStart

THEOREM PromiseInvariant == SafetySpec => []PromiseInv
<1>1. Init => EmptyAtItsStart
  BY DEF Init, ExecutorInit, ProgramStateInit, EmptyAtItsStart, SeriesSelected,
     IsLoaded
<1>2. RunInv /\ EmptyAtItsStart /\ [Next]_vars => EmptyAtItsStart'
  BY EmptyKeepsItsStart DEF RunInv
<1> QED
  BY <1>1, <1>2, RunInvariant, PTL DEF SafetySpec, PromiseInv

(* The abstract run stands still while its variables do.                   *)
LEMMA PromiseStands ==
  ASSUME UNCHANGED <<program, running, series, event, ticker>>,
         (http # "idle") = (http' # "idle")
  PROVE  UNCHANGED Promise!exerciseVars
  BY DEF Promise!exerciseVars, Promise!runVars, Phase, IsLoaded

LEMMA RunStands ==
  ASSUME UNCHANGED <<program, running, series, event, ticker>>
  PROVE  UNCHANGED Promise!runVars
  BY DEF Promise!runVars, Phase, IsLoaded

(* What the phases are made of.                                            *)
LEMMA Phases ==
  /\ Phase = "unloaded" <=> program = None
  /\ Phase = "running" <=> program # None /\ running
  /\ Phase = "paused" <=> program # None /\ ~ running /\ ticker # None
  /\ Phase = "ready" <=> program # None /\ ~ running /\ ticker = None
  BY DEF Phase, IsLoaded

LEMMA PhasesNext ==
  /\ Phase' = "unloaded" <=> program' = None
  /\ Phase' = "running" <=> program' # None /\ running'
  /\ Phase' = "paused" <=> program' # None /\ ~ running' /\ ticker' # None
  /\ Phase' = "ready" <=> program' # None /\ ~ running' /\ ticker' = None
  BY DEF Phase, IsLoaded

(* One event only holds a time.                                            *)
LEMMA HeldOnce ==
  ASSUME NEW events, Timed(events), NEW t \in Nat,
         NEW i \in 1 .. Len(events), NEW j \in 1 .. Len(events),
         Holds(events, i, t), Holds(events, j, t)
  PROVE  i = j
<1> DEFINE e == EndsAt(events)
           n == Len(events)
<1>1. n \in Nat /\ e \in [0 .. n -> Nat]
  BY EndsAtFacts DEF Timed
<1>2. \A k, l \in 1 .. n : e[k - 1] <= t /\ t < e[l] => k - 1 < l
  <2> SUFFICES ASSUME NEW k \in 1 .. n, NEW l \in 1 .. n,
                      e[k - 1] <= t, t < e[l], ~ (k - 1 < l)
               PROVE  FALSE
    OBVIOUS
  <2>1. k - 1 \in 0 .. n /\ l \in 0 .. k - 1
    BY <1>1
  <2>2. e[l] <= e[k - 1]
    BY <2>1, EndsAtGrows
  <2>3. e[l] \in Nat /\ e[k - 1] \in Nat
    BY <1>1, <2>1
  <2> QED
    BY <2>2, <2>3
<1>3. i - 1 < j /\ j - 1 < i
  BY <1>2 DEF Holds
<1> QED
  BY <1>1, <1>3

(* A start begins the series that waits, or resumes where it was paused.   *)
LEMMA StartKeepsPromise ==
  ASSUME PromiseInv, NEW id, Start(id)
  PROVE  Promise!Begin \/ Promise!Resume
<1>1. /\ ExecutorInv /\ SeriesSelected /\ EmptyAtItsStart
      /\ ~ running /\ running' /\ UNCHANGED <<program, series>>
      /\ program # None
  BY DEF PromiseInv, RunInv, Start, StartOutcome, SeriesSelected, IsLoaded
<1>2. /\ Len(CurrentEvents) \in Nat /\ Timed(CurrentEvents)
      /\ EndsAt(CurrentEvents) \in [0 .. Len(CurrentEvents) -> Nat]
      /\ EndsAt(CurrentEvents)[0] = 0
      /\ CurrentEvents \in Seq(Events)
  BY <1>1, Selected DEF ExecutorInv
<1>3. Phase' = "running"
  BY <1>1, PhasesNext
<1>4. ResumeFrom \in Nat
  BY <1>1 DEF ExecutorInv, ExecutorTypeOK, ResumeFrom
<1> DEFINE at == IF ticker = None THEN 1 ELSE event
<1>5. event' = at
  <2>1. CASE CurrentEvents = <<>>
    <3>1. ~ LocationValid(CurrentEvents, ResumeFrom)
      BY <2>1 DEF LocationValid
    <3>2. event' = event
      BY <3>1 DEF Start, StayInEvent
    <3>3. event = 1
      BY <1>1, <2>1 DEF EmptyAtItsStart
    <3> QED
      BY <3>2, <3>3
  <2>2. CASE CurrentEvents # <<>>
    <3>1. at \in 1 .. Len(CurrentEvents) /\ Holds(CurrentEvents, at, ResumeFrom)
      <4>1. CASE ticker = None
        <5>1. 1 \in 1 .. Len(CurrentEvents)
          BY <1>2, <2>2
        <5>2. 0 \in 0 .. 1 /\ 1 \in 0 .. Len(CurrentEvents)
          BY <5>1, <1>2
        <5>3. EndsAt(CurrentEvents)[0] < EndsAt(CurrentEvents)[1]
          BY <1>2, <5>2, EndsAtGrows
        <5>4. ResumeFrom = 0
          BY <4>1 DEF ResumeFrom
        <5> QED
          BY <1>2, <4>1, <5>1, <5>3, <5>4 DEF Holds
      <4>2. CASE ticker # None
        BY <1>1, <2>2, <4>2 DEF ExecutorInv, ResumesInItsEvent, ResumeFrom
      <4> QED
        BY <4>1, <4>2
    <3> HIDE DEF at
    <3>2. LocationValid(CurrentEvents, ResumeFrom)
      BY <3>1 DEF LocationValid
    <3>3. event' = EventAt(CurrentEvents, ResumeFrom)
      BY <3>2 DEF Start, EnterEvent
    <3>4. /\ event' \in 1 .. Len(CurrentEvents)
          /\ Holds(CurrentEvents, event', ResumeFrom)
      BY <3>2, <3>3, LocatedIfValid
    <3> QED
      BY <1>2, <1>4, <3>1, <3>4, HeldOnce
  <2> QED
    BY <2>1, <2>2
<1>6. CASE ticker = None
  <2>1. Phase = "ready"
    BY <1>1, <1>6, Phases
  <2> QED
    BY <1>1, <1>3, <1>5, <1>6, <2>1 DEF Promise!Begin, SeriesSelected
<1>7. CASE ticker # None
  <2>1. Phase = "paused"
    BY <1>1, <1>7, Phases
  <2> QED
    BY <1>1, <1>3, <1>5, <1>7, <2>1 DEF Promise!Resume
<1> QED
  BY <1>6, <1>7

(* What an event lasts is between the ends of two events.                  *)
LEMMA MissableIfShort ==
  ASSUME ExecutorTypeOK, SeriesSelected,
         NEW first \in 0 .. Len(CurrentEvents), NEW last \in 0 .. Len(CurrentEvents),
         EndsAt(CurrentEvents)[last] - EndsAt(CurrentEvents)[first] <= MaxLate
  PROVE  Promise!Missable(first + 1, last)
<1> DEFINE ends == EndsAt(CurrentEvents)
           n == Len(CurrentEvents)
<1>1. /\ n \in Nat /\ Timed(CurrentEvents) /\ ends \in [0 .. n -> Nat]
      /\ \A i \in 1 .. n : ends[i] = ends[i - 1] + CurrentEvents[i].ms
  BY Selected, EndsAtFacts
<1>2. /\ first \in 0 .. n /\ last \in 0 .. n
      /\ ends[last] - ends[first] <= MaxLate
  OBVIOUS
<1>3. \A j \in 0 .. n : \A i \in 0 .. j : ends[i] <= ends[j]
  BY <1>1, EndsAtGrows
<1>4. \A i \in 1 .. n : CurrentEvents[i].ms \in Nat
  BY <1>1 DEF Timed
<1> HIDE DEF ends, n
<1>5. ASSUME NEW e \in first + 1 .. last
      PROVE  CurrentEvents[e].ms <= MaxLate
  <2>1. /\ e \in 1 .. n /\ e \in 0 .. n /\ e - 1 \in 0 .. n
        /\ first \in 0 .. e - 1 /\ e \in 0 .. last
    BY <1>1, <1>2
  <2>2. ends[first] <= ends[e - 1] /\ ends[e] <= ends[last]
    BY <1>2, <1>3, <2>1
  <2>3. /\ ends[first] \in Nat /\ ends[e - 1] \in Nat /\ ends[e] \in Nat
        /\ ends[last] \in Nat
    BY <1>1, <1>2, <2>1
  <2>4. ends[e] = ends[e - 1] + CurrentEvents[e].ms /\ CurrentEvents[e].ms \in Nat
    BY <1>1, <1>4, <2>1
  <2> QED
    BY <1>2, <2>2, <2>3, <2>4, ConstantsAreNumbers
<1> QED
  BY <1>5 DEF Promise!Missable, Promise!Events, CurrentEvents

LEMMA Onward ==
  ASSUME NEW n \in Nat, NEW i \in 1 .. n, NEW j \in 1 .. n, j >= i, j # i
  PROVE  j \in i + 1 .. n /\ i \in 0 .. n /\ j - 1 \in 0 .. n
  OBVIOUS

(* A tick walks on to the next event, ends the series, or changes nothing. *)
LEMMA TickKeepsPromise ==
  ASSUME PromiseInv, LoopTick
  PROVE  Promise!NextEvent \/ Promise!Finish \/ UNCHANGED Promise!exerciseVars
<1>1. ExecutorInv /\ RunInv /\ Tick /\ http' = http
  BY DEF PromiseInv, RunInv, LoopTick
<1>2. CASE TickIdle
  <2>1. UNCHANGED <<program, running, series, event, ticker>>
    BY <1>2 DEF TickIdle, executorVars
  <2> QED
    BY <1>1, <2>1, PromiseStands
<1>3. ASSUME running
      PROVE  /\ SeriesSelected /\ program # None /\ ticker # None
             /\ Phase = "running" /\ SkippedIsShort
             /\ UnderWay \in 0 .. Len(CurrentEvents) /\ Len(CurrentEvents) \in Nat
             /\ event \in Nat
             /\ CurrentEvents # <<>> => UnderWay = event /\ event \in 1 .. Len(CurrentEvents)
             /\ CurrentEvents = <<>> => event = 1
  <2>1. RunFacts
    BY <1>1, <1>3, Running
  <2>2. SeriesSelected /\ program # None /\ ticker # None
    BY <1>1, <1>3, <2>1 DEF RunFacts, ExecutorInv, RunStateOK, SeriesSelected, IsLoaded
  <2>3. Phase = "running"
    BY <1>3, <2>2, Phases
  <2>4. SkippedIsShort
    BY <1>1, <1>3, TickSkipsLittle
  <2>5. Len(CurrentEvents) \in Nat
    BY <1>1, <2>2, Selected DEF ExecutorInv
  <2>6. CurrentEvents = <<>> => event = 1
    BY <2>2 DEF PromiseInv, EmptyAtItsStart
  <2> QED
    BY <2>1, <2>2, <2>3, <2>4, <2>5, <2>6 DEF RunFacts
<1>4. CASE TickStops
  <2>1. running
    BY <1>4 DEF TickStops
  <2>2. /\ EndsAt(CurrentEvents)[Len(CurrentEvents)] - EndsAt(CurrentEvents)[UnderWay] <= MaxLate
        /\ running' = FALSE /\ program' = program /\ ticker' = None
        /\ SelectFollowing
    BY <1>3, <1>4, <2>1 DEF TickStops, SkippedIsShort
  <2>3. Promise!Missable(event + 1, Len(CurrentEvents))
    <3>1. CASE CurrentEvents # <<>>
      <4>1. event \in 0 .. Len(CurrentEvents) /\ Len(CurrentEvents) \in 0 .. Len(CurrentEvents)
        BY <1>3, <2>1, <3>1
      <4> QED
        BY <1>1, <1>3, <2>1, <2>2, <3>1, <4>1, MissableIfShort DEF ExecutorInv
    <3>2. CASE CurrentEvents = <<>>
      BY <1>3, <2>1, <3>2 DEF Promise!Missable
    <3> QED
      BY <3>1, <3>2
  <2>4. Phase' = "ready"
    BY <1>3, <2>1, <2>2, PhasesNext
  <2>5. Promise!Finish
    BY <1>1, <1>3, <2>1, <2>2, <2>3, <2>4
       DEF Promise!Finish, Promise!LastEvent, Promise!Events, CurrentEvents, SelectFollowing
  <2> QED
    BY <2>5
<1>5. CASE TickRuns
  <2>1. running /\ running' /\ program' = program /\ series' = series
    BY <1>5 DEF TickRuns
  <2>2. Phase' = "running"
    BY <1>3, <2>1, PhasesNext
  <2>3. event' \in 1 .. Len(CurrentEvents)
    BY <1>1, <1>5, TickRunsHere
  <2>4. CurrentEvents # <<>>
    BY <1>3, <2>1, <2>3
  <2>5. CASE event' = event
    BY <1>1, <1>3, <2>1, <2>2, <2>5 DEF Promise!exerciseVars, Promise!runVars
  <2>6. CASE event' # event
    <3>1. /\ event' >= event
          /\ EndsAt(CurrentEvents)[event' - 1] - EndsAt(CurrentEvents)[UnderWay] <= MaxLate
      BY <1>3, <2>1 DEF SkippedIsShort
    <3>2. /\ event' \in event + 1 .. Len(CurrentEvents)
          /\ event \in 0 .. Len(CurrentEvents) /\ event' - 1 \in 0 .. Len(CurrentEvents)
      <4>1. /\ event \in 1 .. Len(CurrentEvents) /\ Len(CurrentEvents) \in Nat
            /\ event' \in 1 .. Len(CurrentEvents) /\ event' >= event /\ event' # event
        BY <1>3, <2>1, <2>3, <2>4, <2>6, <3>1
      <4> QED
        BY <4>1, Onward
    <3>3. Promise!Missable(event + 1, event' - 1)
      BY <1>1, <1>3, <2>1, <2>4, <3>1, <3>2, MissableIfShort DEF ExecutorInv
    <3>4. Promise!LastEvent = Len(CurrentEvents)
      BY DEF Promise!LastEvent, Promise!Events, CurrentEvents
    <3>5. Promise!NextEvent
      BY <1>1, <1>3, <2>1, <2>2, <3>2, <3>3, <3>4 DEF Promise!NextEvent
    <3> QED
      BY <3>5
  <2> QED
    BY <2>5, <2>6
<1> QED
  BY <1>1, <1>2, <1>4, <1>5 DEF Tick

(* A call does to the run what the client asked for.                       *)
LEMMA CallKeepsPromise ==
  ASSUME PromiseInv, HttpCall
  PROVE  Promise!Call
<1>1. /\ ExecutorInv /\ http = "idle" /\ http' \in {"flush", "flushWake"}
      /\ None \notin Programs
  BY CallIsCall, NoneIsNothing DEF PromiseInv, RunInv, Serve
<1> DEFINE Done == \/ \E p \in Programs : Promise!Load(p)
                   \/ Promise!Begin \/ Promise!Resume \/ Promise!Pause
                   \/ Promise!Rewind \/ Promise!Skip \/ Promise!Unload
                   \/ UNCHANGED Promise!runVars
<1> SUFFICES Done
  BY <1>1 DEF Promise!Call
<1>2. CASE HttpLoad
  <2>1. PICK p \in Programs : Load(p)
    BY <1>2 DEF HttpLoad
  <2>2. program' = p /\ series' = 1 /\ event' = 1 /\ ~ running' /\ ticker' = None
    BY <2>1 DEF Load, Rewound
  <2>3. Phase' = "ready"
    BY <1>1, <2>2, PhasesNext
  <2> QED
    BY <2>2, <2>3 DEF Promise!Load
<1>3. CASE HttpStart
  <2>1. PICK p \in Programs : Start(p.id)
    BY <1>3 DEF HttpStart
  <2> QED
    BY <2>1, StartKeepsPromise
<1>4. CASE HttpStop
  <2>1. /\ running /\ ~ running' /\ UNCHANGED <<program, series, event, ticker>>
        /\ program # None /\ ticker # None
    BY <1>1, <1>4 DEF HttpStop, Stop, ExecutorInv, RunStateOK, SeriesSelected, IsLoaded
  <2>2. Phase = "running" /\ Phase' = "paused"
    BY <2>1, Phases, PhasesNext
  <2> QED
    BY <2>1, <2>2 DEF Promise!Pause
<1>5. CASE HttpReset
  <2>1. /\ program # None /\ ~ running' /\ ticker' = None /\ event' = 1
        /\ UNCHANGED <<program, series>>
    BY <1>5 DEF HttpReset, Reset, Rewound, IsLoaded
  <2>2. Phase # "unloaded" /\ Phase' = "ready"
    BY <2>1, Phases, PhasesNext
  <2> QED
    BY <2>1, <2>2 DEF Promise!Rewind, Promise!Select
<1>6. CASE HttpSkip
  <2>0. PICK p \in Programs : \E i \in 1 .. Len(p.series) : SkipToSeries(i, p.id)
    BY <1>6 DEF HttpSkip
  <2>1. PICK i \in 1 .. Len(p.series) : SkipToSeries(i, p.id)
    BY <2>0
  <2>2. /\ program # None /\ i \in 1 .. Len(program.series)
        /\ ~ running' /\ ticker' = None /\ event' = 1 /\ series' = i
        /\ program' = program
    BY <2>1 DEF SkipToSeries, SkipOutcome, Rewound, IsLoaded
  <2>3. Phase # "unloaded" /\ Phase' = "ready"
    BY <2>2, Phases, PhasesNext
  <2> QED
    BY <2>2, <2>3 DEF Promise!Skip, Promise!Select
<1>7. CASE HttpUnload \/ HttpDelete
  <2>1. program # None /\ program' = None /\ series' = None /\ event' = None
    BY <1>7 DEF HttpUnload, HttpDelete, Unload, UnloadIfLoaded, ForceUnload, IsLoaded
  <2>2. Phase # "unloaded" /\ Phase' = "unloaded"
    BY <2>1, Phases, PhasesNext
  <2> QED
    BY <2>1, <2>2 DEF Promise!Unload, Promise!NothingLoaded
<1>8. CASE HttpRefused \/ HttpTargets
  <2>1. UNCHANGED <<program, running, series, event, ticker>>
    BY <1>8 DEF HttpRefused, HttpTargets, Refused, SetTargets, ToggleTargets,
       FlipTargets, RunUntouched, executorVars
  <2> QED
    BY <2>1, RunStands
<1> QED
  BY <1>2, <1>3, <1>4, <1>5, <1>6, <1>7, <1>8 DEF HttpCall

(* Every step of the two tasks is a step of the abstract run, or none.     *)
LEMMA StepKeepsPromise ==
  ASSUME PromiseInv, [Next]_vars
  PROVE  [Promise!Next]_(Promise!exerciseVars)
<1>1. CASE HttpCall
  BY <1>1, CallKeepsPromise DEF Promise!Next
<1>2. CASE LoopTick
  BY <1>2, TickKeepsPromise DEF Promise!Next
<1>3. CASE HttpFlush \/ HttpWake
  <2>1. /\ UNCHANGED <<program, running, series, event, ticker>>
        /\ http # "idle"
    BY <1>3 DEF HttpFlush, HttpWake, Flush, Published, executorVars
  <2>2. CASE http' = "idle"
    BY <2>1, <2>2, RunStands DEF Promise!Answer, Promise!Next
  <2>3. CASE http' # "idle"
    BY <2>1, <2>3, PromiseStands
  <2> QED
    BY <2>2, <2>3
<1>4. CASE LoopFlush \/ LoopWake \/ AudioTakes \/ Advance \/ UNCHANGED vars
  <2>1. UNCHANGED <<program, running, series, event, ticker, http>>
    BY <1>4 DEF LoopFlush, LoopWake, AudioTakes, PlaybackTakes, Advance,
       TimePasses, Flush, Published, vars, taskVars, executorVars
  <2> QED
    BY <2>1, PromiseStands
<1> QED
  BY <1>1, <1>2, <1>3, <1>4 DEF Next

(* The two tasks, their clock and their sleeps implement the run that the  *)
(* range officer was promised, step by step (run_position.h:44-60,         *)
(* executor.cpp:132-243, program_executor.cpp:59-147).                     *)
THEOREM RunsAsPromised ==
  SafetySpec => Promise!Init /\ [][Promise!Next]_(Promise!exerciseVars)
<1>1. Init => Promise!Init
  <2> SUFFICES ASSUME Init PROVE Promise!Init
    OBVIOUS
  <2>1. program = None /\ series = None /\ event = None /\ http = "idle"
    BY DEF Init, ExecutorInit, ProgramStateInit
  <2>2. Phase = "unloaded"
    BY <2>1, Phases
  <2> QED
    BY <2>1, <2>2 DEF Promise!Init, Promise!NothingLoaded
<1>2. PromiseInv /\ [Next]_vars => [Promise!Next]_(Promise!exerciseVars)
  BY StepKeepsPromise
<1> QED
  BY <1>1, <1>2, PromiseInvariant, PTL DEF SafetySpec
=============================================================================
