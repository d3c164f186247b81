------------------------------ MODULE Pages_proofs ------------------------------
(***************************************************************************)
(* What people set and see: the device's settings and each page of the web *)
(* application have an invariant of their own, and all of them together    *)
(* give what the run of MCPages checks on small instances for every number *)
(* of programs, files, tabs, banks, pins, ports and networks.              *)
(***************************************************************************)
EXTENDS MCPages, SequenceTheorems, FiniteSetTheorems, WellFoundedInduction, TLAPS

(* The device's settings: what a request still has to write, each key's    *)
(* value in the namespace or before it; and what clients were told of      *)
(* that no request is about to change.                                     *)
SettingsTyped ==
  /\ nvs \in [Keys -> Int]
  /\ op \in {"none", "hardware", "reset", "wifi"}
  /\ resetting \in {"no", "begun", "erased", "forgot"}
  /\ sure \subseteq {"pins", "rest"}
  /\ told \in Configs

SaveEntries(c) ==
  {<<"count", Len(c.banks)>>, <<"led", c.led>>}
    \cup {<<GpioKey(i), IF i <= Len(c.banks) THEN c.banks[i] ELSE Absent>> : i \in 1 .. MaxBanks}

ResetEntries == {<<k, Absent>> : k \in HwKeys}

Planned == IF op = "hardware" THEN SaveEntries(asked) ELSE ResetEntries

Lists(s, e) == \E i \in 1 .. Len(s) : s[i] = e

(* What a clean request planned is written, or still in its list.          *)
SavesGoOn ==
  op \in {"hardware", "reset"} =>
    /\ writes \in Seq(Planned) /\ writes # <<>>
    /\ op = "hardware" => asked \in Configs /\ Valid(asked)
    /\ clean => \A e \in Planned :
                  nvs[e[1]] = e[2] \/ Lists(writes, e)

StoredAsTold ==
  /\ "pins" \in sure =>
       /\ Overlay.banks = told.banks /\ Overlay.led = told.led
       /\ Valid(told) /\ op \notin {"hardware", "reset"}
  /\ "rest" \in sure => Overlay.shown = told.shown
  /\ op = "reset" => sure = {}

JoinIsWritten ==
  op = "wifi" =>
    \E n \in Networks \cup {Seed} :
      \/ writes = WifiWrites(n)
      \/ writes = <<<<"ssid", n>>, <<"pass", n>>>>
      \/ writes = <<<<"pass", n>>>> /\ (resetting = "no" => nvs["ssid"] = n)

JoinAsTold ==
  /\ op = "wifi" \/ resetting \in {"begun", "erased"} => network = Unsure
  /\ network = Seeds => nvs["ssid"] = Absent /\ nvs["noseeds"] # 1
  /\ network = Forgotten => nvs["ssid"] = Absent /\ nvs["noseeds"] = 1
  /\ \A n \in Networks \cup {Seed} :
       network = n => nvs["ssid"] = n /\ nvs["pass"] = n

SettingsOK ==
  SettingsTyped /\ SavesGoOn /\ StoredAsTold /\ JoinIsWritten /\ JoinAsTold

(* Every key has a name of its own.                                        *)
LEMMA BankKeys ==
  /\ \A i \in 1 .. MaxBanks : i \in 1 .. 8
  /\ \A i \in 1 .. MaxBanks :
       GpioKey(i) \notin {"count", "led", "shown", "ssid", "pass", "noseeds"}
  /\ \A i, j \in 1 .. MaxBanks : GpioKey(i) = GpioKey(j) => i = j
  /\ \A i \in 1 .. MaxBanks : GpioKey(i) \in HwKeys
<1>1. \A i \in 1 .. MaxBanks : i \in 1 .. 8
  BY SettingsAssumption
<1>2. \A i \in 1 .. 8 :
        i = 1 \/ i = 2 \/ i = 3 \/ i = 4 \/ i = 5 \/ i = 6 \/ i = 7 \/ i = 8
  OBVIOUS
<1>3. /\ GpioKey(1) = "gpio0" /\ GpioKey(2) = "gpio1" /\ GpioKey(3) = "gpio2"
      /\ GpioKey(4) = "gpio3" /\ GpioKey(5) = "gpio4" /\ GpioKey(6) = "gpio5"
      /\ GpioKey(7) = "gpio6" /\ GpioKey(8) = "gpio7"
  BY DEF GpioKey
<1>4. \A i \in 1 .. 8 :
        GpioKey(i) \notin {"count", "led", "shown", "ssid", "pass", "noseeds"}
  BY <1>2, <1>3
<1>5. \A i, j \in 1 .. 8 : GpioKey(i) = GpioKey(j) => i = j
  BY <1>2, <1>3
<1>6. \A i \in 1 .. MaxBanks : GpioKey(i) \in HwKeys
  BY DEF HwKeys
<1> QED
  BY <1>1, <1>4, <1>5, <1>6

LEMMA DefaultsValid == Defaults \in Configs /\ Valid(Defaults)
<1>1. /\ DefaultPin \in Pins /\ DefaultLed \in Pins /\ DefaultPin # DefaultLed
      /\ 1 \in 1 .. MaxBanks
  BY SettingsAssumption
<1>2. <<DefaultPin>> \in [1 .. 1 -> Pins \cup {0}]
  BY <1>1
<1>3. <<DefaultPin>> \in BankLists
  BY <1>1, <1>2 DEF BankLists
<1> QED
  BY <1>1, <1>3 DEF Defaults, Configs, Valid

(* A list of banks is a sequence.                                          *)
LEMMA BankListLength ==
  ASSUME NEW b \in BankLists
  PROVE  /\ Len(b) \in 1 .. MaxBanks /\ DOMAIN b = 1 .. Len(b)
         /\ \A i \in 1 .. Len(b) : b[i] \in Pins \cup {0}
<1>1. PICK n \in 1 .. MaxBanks : b \in [1 .. n -> Pins \cup {0}]
  BY DEF BankLists
<1>2. n \in Nat
  BY <1>1, SettingsAssumption
<1>3. Len(b) = n
  BY <1>1, <1>2, LenProperties
<1> QED
  BY <1>1, <1>3

(* What a request writes has one value to a key.                           *)
LEMMA OneValue ==
  ASSUME NEW c, NEW P \in {SaveEntries(c), ResetEntries},
         NEW d \in P, NEW e \in P, d[1] = e[1]
  PROVE  d = e
<1>1. CASE P = ResetEntries
  BY <1>1 DEF ResetEntries
<1>2. CASE P = SaveEntries(c)
  BY <1>2, BankKeys DEF SaveEntries
<1> QED
  BY <1>1, <1>2

(* What precedes and follows a list is found in it.                        *)
LEMMA Around ==
  ASSUME NEW S, NEW s \in Seq(S), NEW t \in Seq(S)
  PROVE  /\ s \o t \in Seq(S)
         /\ s # <<>> => s \o t # <<>>
         /\ \A e : Lists(s, e) \/ Lists(t, e) => Lists(s \o t, e)
<1>0. Len(s) \in Nat /\ Len(t) \in Nat
  OBVIOUS
<1>1. s \o t \in Seq(S) /\ Len(s \o t) = Len(s) + Len(t)
  BY ConcatProperties
<1>2. ASSUME NEW i \in 1 .. Len(s)
      PROVE  \E j \in 1 .. Len(s \o t) : (s \o t)[j] = s[i]
  <2>1. i \in 1 .. Len(s \o t) /\ i <= Len(s)
    BY <1>0, <1>1
  <2>2. (s \o t)[i] = s[i]
    BY <2>1, <1>1, ConcatProperties
  <2> QED
    BY <2>1, <2>2
<1>3. ASSUME NEW i \in 1 .. Len(t)
      PROVE  \E j \in 1 .. Len(s \o t) : (s \o t)[j] = t[i]
  <2>1. /\ Len(s) + i \in 1 .. Len(s \o t) /\ Len(s) + i > Len(s)
        /\ Len(s) + i - Len(s) = i
    BY <1>0, <1>1
  <2>2. (s \o t)[Len(s) + i] = t[i]
    BY <2>1, <1>1, ConcatProperties
  <2> QED
    BY <2>1, <2>2
<1>4. s # <<>> => s \o t # <<>>
  BY <1>0, <1>1, EmptySeq
<1>5. \A e : Lists(s, e) \/ Lists(t, e) => Lists(s \o t, e)
  BY <1>2, <1>3, Zenon DEF Lists
<1> QED
  BY <1>1, <1>4, <1>5

LEMMA WiderSeq ==
  ASSUME NEW S, NEW T, S \subseteq T, NEW s \in Seq(S)
  PROVE  s \in Seq(T)
<1>1. PICK n \in Nat : s \in [1 .. n -> S]
  BY SeqDef
<1>2. s \in [1 .. n -> T]
  BY <1>1
<1> QED
  BY <1>2, SeqDef

LEMMA BankWritesAre ==
  ASSUME NEW c
  PROVE  /\ BankWrites(c) \in Seq({<<GpioKey(i), IF i <= Len(c.banks) THEN c.banks[i]
                                               ELSE Absent>> : i \in 1 .. MaxBanks})
         /\ Len(BankWrites(c)) = MaxBanks
         /\ \A i \in 1 .. MaxBanks :
              BankWrites(c)[i] = <<GpioKey(i), IF i <= Len(c.banks) THEN c.banks[i] ELSE Absent>>
<1> DEFINE Bank(i) == <<GpioKey(i), IF i <= Len(c.banks) THEN c.banks[i] ELSE Absent>>
<1>1. BankWrites(c) = [i \in 1 .. MaxBanks |-> Bank(i)]
  BY DEF BankWrites
<1> HIDE DEF Bank
<1>2. BankWrites(c) \in [1 .. MaxBanks -> {Bank(i) : i \in 1 .. MaxBanks}]
  BY <1>1
<1>3. MaxBanks \in Nat
  BY SettingsAssumption
<1>4. BankWrites(c) \in Seq({Bank(i) : i \in 1 .. MaxBanks})
  BY <1>2, <1>3, SeqDef
<1>5. Len(BankWrites(c)) = MaxBanks
  BY <1>2, <1>3, <1>4, LenProperties
<1>6. \A i \in 1 .. MaxBanks : BankWrites(c)[i] = Bank(i)
  BY <1>1
<1> QED
  BY <1>4, <1>5, <1>6 DEF Bank

LEMMA SavePlan ==
  ASSUME NEW c
  PROVE  /\ SaveWrites(c) \in Seq(SaveEntries(c)) /\ SaveWrites(c) # <<>>
         /\ \A e \in SaveEntries(c) : Lists(SaveWrites(c), e)
<1> DEFINE E == SaveEntries(c)
           a == <<<<"count", Len(c.banks)>>>>
           b == BankWrites(c)
           z == <<<<"led", c.led>>>>
           ab == a \o b
<1>1. SaveWrites(c) = ab \o z
  BY DEF SaveWrites
<1>2. a \in Seq(E) /\ a # <<>> /\ z \in Seq(E)
  BY DEF SaveEntries
<1>3. b \in Seq(E)
  <2>1. {<<GpioKey(i), IF i <= Len(c.banks) THEN c.banks[i] ELSE Absent>> : i \in 1 .. MaxBanks}
          \subseteq E
    BY DEF SaveEntries
  <2> HIDE DEF b, E
  <2>2. b \in Seq({<<GpioKey(i), IF i <= Len(c.banks) THEN c.banks[i] ELSE Absent>>
                    : i \in 1 .. MaxBanks})
    BY BankWritesAre DEF b
  <2> QED
    BY <2>1, <2>2, WiderSeq
<1>4. \A e \in E : Lists(a, e) \/ Lists(b, e) \/ Lists(z, e)
  <2>1. Lists(a, <<"count", Len(c.banks)>>) /\ Lists(z, <<"led", c.led>>)
    BY DEF Lists
  <2>2. \A i \in 1 .. MaxBanks :
          Lists(b, <<GpioKey(i), IF i <= Len(c.banks) THEN c.banks[i] ELSE Absent>>)
    BY BankWritesAre DEF Lists
  <2> HIDE DEF a, b, z
  <2> QED
    BY <2>1, <2>2 DEF SaveEntries
<1> HIDE DEF E, a, b, z
<1>5. /\ ab \in Seq(E) /\ ab # <<>>
      /\ \A e : Lists(a, e) \/ Lists(b, e) => Lists(ab, e)
  BY <1>2, <1>3, Around
<1> HIDE DEF ab
<1>6. /\ ab \o z \in Seq(E) /\ ab \o z # <<>>
      /\ \A e : Lists(ab, e) \/ Lists(z, e) => Lists(ab \o z, e)
  BY <1>2, <1>5, Around
<1>7. \A e \in E : Lists(ab \o z, e)
  BY <1>4, <1>5, <1>6, Zenon
<1> QED
  BY <1>1, <1>6, <1>7 DEF E

LEMMA ResetPlan ==
  /\ ResetWrites \in Seq(ResetEntries) /\ ResetWrites # <<>>
  /\ \A e \in ResetEntries : Lists(ResetWrites, e)
<1> DEFINE E == ResetEntries
           a == <<<<"count", Absent>>, <<"shown", Absent>>, <<"led", Absent>>>>
           none == [banks |-> <<>>]
           b == BankWrites(none)
<1>1. ResetWrites = a \o b
  BY DEF ResetWrites
<1>2. a \in Seq(E) /\ a # <<>>
  BY DEF ResetEntries, HwKeys
<1>3. Len(none.banks) = 0
  OBVIOUS
<1>4. \A i \in 1 .. MaxBanks :
        <<GpioKey(i), IF i <= Len(none.banks) THEN none.banks[i] ELSE Absent>>
          = <<GpioKey(i), Absent>>
  BY <1>3
<1>5. /\ b \in Seq({<<GpioKey(i), Absent>> : i \in 1 .. MaxBanks})
      /\ Len(b) = MaxBanks /\ \A i \in 1 .. MaxBanks : b[i] = <<GpioKey(i), Absent>>
  BY <1>4, BankWritesAre
<1>6. b \in Seq(E)
  <2>1. {<<GpioKey(i), Absent>> : i \in 1 .. MaxBanks} \subseteq E
    BY DEF ResetEntries, HwKeys
  <2> HIDE DEF b, E
  <2> QED
    BY <1>5, <2>1, WiderSeq
<1>7. \A e \in E : Lists(a, e) \/ Lists(b, e)
  <2>1. Lists(a, <<"count", Absent>>) /\ Lists(a, <<"shown", Absent>>) /\ Lists(a, <<"led", Absent>>)
    <3>1. Len(a) = 3 /\ a[1] = <<"count", Absent>> /\ a[2] = <<"shown", Absent>>
          /\ a[3] = <<"led", Absent>>
      OBVIOUS
    <3>2. 1 \in 1 .. 3 /\ 2 \in 1 .. 3 /\ 3 \in 1 .. 3
      OBVIOUS
    <3> HIDE DEF a
    <3> QED
      BY <3>1, <3>2, Zenon DEF Lists
  <2>2. \A i \in 1 .. MaxBanks : Lists(b, <<GpioKey(i), Absent>>)
    BY <1>5 DEF Lists
  <2> HIDE DEF a, b
  <2> QED
    BY <2>1, <2>2 DEF ResetEntries, HwKeys
<1> HIDE DEF E, a, b
<1>8. /\ a \o b \in Seq(E) /\ a \o b # <<>>
      /\ \A e : Lists(a, e) \/ Lists(b, e) => Lists(a \o b, e)
  BY <1>2, <1>6, Around
<1> QED
  BY <1>1, <1>7, <1>8 DEF E

LEMMA TwoKindsOfKeys ==
  /\ \A k \in HwKeys : k \notin WifiKeys
  /\ {"count", "led", "shown"} \subseteq HwKeys /\ HwKeys \subseteq Keys /\ WifiKeys \subseteq Keys
  BY BankKeys DEF HwKeys, WifiKeys, Keys

LEMMA EntriesAreInts ==
  ASSUME NEW c \in Configs, NEW e \in SaveEntries(c) \cup ResetEntries
  PROVE  e[1] \in HwKeys /\ e[2] \in Int /\ (e \in SaveEntries(c) => e[1] # "shown")
<1>1. CASE e \in ResetEntries
  <2>1. PICK k \in HwKeys : e = <<k, Absent>>
    BY <1>1 DEF ResetEntries
  <2>2. CASE e \in SaveEntries(c)
    <3>1. e[1] # "shown"
      BY <2>2, BankKeys DEF SaveEntries
    <3> QED
      BY <2>1, <3>1 DEF Absent
  <2> QED
    BY <2>1, <2>2 DEF Absent
<1>2. CASE e \in SaveEntries(c)
  <2>1. /\ c.banks \in BankLists /\ c.led \in Pins
        /\ Pins \subseteq Nat
    BY SettingsAssumption DEF Configs
  <2>2. /\ Len(c.banks) \in 1 .. MaxBanks
        /\ \A i \in 1 .. Len(c.banks) : c.banks[i] \in Pins \cup {0}
    BY <2>1, BankListLength
  <2>3. MaxBanks \in Nat
    BY SettingsAssumption
  <2>4. Len(c.banks) \in Int /\ c.led \in Int /\ \A i \in 1 .. Len(c.banks) : c.banks[i] \in Int
    <3>1. \A p \in Pins \cup {0} : p \in Int
      BY <2>1
    <3>2. Len(c.banks) \in Int
      BY <2>2, <2>3
    <3> QED
      BY <2>1, <2>2, <3>1, <3>2, Zenon
  <2>5. CASE e = <<"count", Len(c.banks)>>
    BY <2>4, <2>5, TwoKindsOfKeys
  <2>6. CASE e = <<"led", c.led>>
    BY <2>4, <2>6, TwoKindsOfKeys
  <2>7. ASSUME NEW i \in 1 .. MaxBanks,
               e = <<GpioKey(i), IF i <= Len(c.banks) THEN c.banks[i] ELSE Absent>>
        PROVE  e[1] \in HwKeys /\ e[2] \in Int /\ e[1] # "shown"
    <3>1. e[1] = GpioKey(i) /\ e[2] = IF i <= Len(c.banks) THEN c.banks[i] ELSE Absent
      BY <2>7
    <3>2. CASE i <= Len(c.banks)
      <4>1. i \in 1 .. Len(c.banks)
        BY <3>2, <2>2, <2>3
      <4>2. c.banks[i] \in Int
        BY <4>1, <2>4
      <4> QED
        BY <3>1, <3>2, <4>2, BankKeys
    <3>3. CASE ~ (i <= Len(c.banks))
      <4>1. e[2] = -1
        BY <3>1, <3>3 DEF Absent
      <4> QED
        BY <3>1, <4>1, BankKeys
    <3> QED
      BY <3>2, <3>3
  <2> QED
    BY <1>2, <2>5, <2>6, <2>7 DEF SaveEntries
<1> QED
  BY <1>1, <1>2

(* A key of another concern does not move what is laid over the defaults.  *)
LEMMA OverlayStays ==
  ASSUME \A k \in HwKeys \ {"shown"} : nvs'[k] = nvs[k]
  PROVE  /\ Overlay'.banks = Overlay.banks /\ Overlay'.led = Overlay.led
         /\ nvs'["shown"] = nvs["shown"] => Overlay'.shown = Overlay.shown
<1>1. /\ nvs'["count"] = nvs["count"] /\ nvs'["led"] = nvs["led"]
      /\ \A i \in 1 .. MaxBanks : nvs'[GpioKey(i)] = nvs[GpioKey(i)]
  BY BankKeys, TwoKindsOfKeys
<1>2. ASSUME nvs["count"] \in 1 .. MaxBanks
      PROVE  \A i \in 1 .. nvs["count"] : i \in 1 .. MaxBanks
  BY <1>2, SettingsAssumption
<1>3. Overlay'.banks = Overlay.banks
  BY <1>1, <1>2 DEF Overlay, Stored
<1>4. Overlay'.led = Overlay.led
  BY <1>1 DEF Overlay, Stored
<1>5. nvs'["shown"] = nvs["shown"] => Overlay'.shown = Overlay.shown
  BY DEF Overlay, Stored
<1> QED
  BY <1>3, <1>4, <1>5

(* All entries of a save written, the next boot finds its configuration.   *)
LEMMA OverlayOfSave ==
  ASSUME NEW c \in Configs, Valid(c), \A e \in SaveEntries(c) : nvs'[e[1]] = e[2]
  PROVE  Overlay'.banks = c.banks /\ Overlay'.led = c.led
<1>1. /\ c.banks \in BankLists /\ c.led \in Pins /\ Pins \subseteq Nat \ {0}
  BY SettingsAssumption DEF Configs
<1>2. /\ Len(c.banks) \in 1 .. MaxBanks /\ DOMAIN c.banks = 1 .. Len(c.banks)
      /\ \A i \in 1 .. Len(c.banks) : i \in 1 .. MaxBanks
  BY <1>1, BankListLength, SettingsAssumption
<1>3. \A i \in 1 .. Len(c.banks) : c.banks[i] \in Pins
  BY <1>2 DEF Valid
<1>4. nvs'["count"] = Len(c.banks) /\ nvs'["led"] = c.led
  <2>1. <<"count", Len(c.banks)>> \in SaveEntries(c) /\ <<"led", c.led>> \in SaveEntries(c)
    BY DEF SaveEntries
  <2> QED
    BY <2>1
<1>5. ASSUME NEW i \in 1 .. Len(c.banks)
      PROVE  nvs'[GpioKey(i)] = c.banks[i] /\ nvs'[GpioKey(i)] # Absent
  <2>1. i \in 1 .. MaxBanks /\ i <= Len(c.banks)
    BY <1>2
  <2>2. <<GpioKey(i), IF i <= Len(c.banks) THEN c.banks[i] ELSE Absent>> \in SaveEntries(c)
    BY <2>1 DEF SaveEntries
  <2>3. nvs'[GpioKey(i)] = c.banks[i]
    BY <2>1, <2>2
  <2>4. c.banks[i] # -1
    BY <1>1, <1>3
  <2> QED
    BY <2>3, <2>4 DEF Absent
<1>6. c.led # Absent
  BY <1>1 DEF Absent
<1>7. c.banks = [i \in 1 .. Len(c.banks) |-> c.banks[i]]
  BY <1>1, <1>2 DEF BankLists
<1>8. Overlay'.banks = [i \in 1 .. Len(c.banks) |-> c.banks[i]]
  BY <1>2, <1>4, <1>5 DEF Overlay, Stored
<1>9. Overlay'.led = c.led
  BY <1>4, <1>6 DEF Overlay, Stored
<1> QED
  BY <1>7, <1>8, <1>9

LEMMA OverlayOfNothing ==
  ASSUME \A k \in {"count", "led", "shown"} : nvs'[k] = Absent
  PROVE  Overlay' = Defaults
<1>1. Absent \notin 1 .. MaxBanks
  BY DEF Absent
<1> QED
  BY <1>1 DEF Overlay, Stored, Defaults

(* One key more is written.                                                *)
LEMMA RestOfPlan ==
  ASSUME NEW P, NEW s \in Seq(P), s # <<>>
  PROVE  /\ Head(s) \in P /\ Tail(s) \in Seq(P) /\ Len(s) \in Nat
         /\ Len(s) = 1 => Tail(s) = <<>>
         /\ Len(s) # 1 => Tail(s) # <<>>
         /\ \A e : Lists(s, e) => e = Head(s) \/ Lists(Tail(s), e)
<1>1. /\ Head(s) \in P /\ Head(s) = s[1] /\ Tail(s) \in Seq(P) /\ Len(s) \in Nat \ {0}
      /\ Len(Tail(s)) = Len(s) - 1
  BY HeadTailProperties, EmptySeq
<1>2. \A i \in 1 .. Len(Tail(s)) : Tail(s)[i] = s[i + 1]
  BY HeadTailProperties
<1>3. Len(s) = 1 => Tail(s) = <<>>
  <2>1. Len(s) = 1 => Len(Tail(s)) = 0
    BY <1>1
  <2> QED
    BY <1>1, <2>1, EmptySeq
<1>4. Len(s) # 1 => Tail(s) # <<>>
  <2>1. Len(s) # 1 => Len(Tail(s)) # 0
    BY <1>1
  <2> QED
    BY <1>1, <2>1, EmptySeq
<1>5. ASSUME NEW e, Lists(s, e)
      PROVE  e = Head(s) \/ Lists(Tail(s), e)
  <2>1. PICK i \in 1 .. Len(s) : s[i] = e
    BY <1>5 DEF Lists
  <2>2. CASE i = 1
    BY <1>1, <2>1, <2>2
  <2>3. CASE i # 1
    <3>1. i - 1 \in 1 .. Len(Tail(s)) /\ i - 1 + 1 = i
      BY <1>1, <2>1, <2>3
    <3>2. Tail(s)[i - 1] = e
      BY <1>2, <2>1, <3>1
    <3> QED
      BY <3>1, <3>2 DEF Lists
  <2> QED
    BY <2>2, <2>3
<1> QED
  BY <1>1, <1>3, <1>4, <1>5

LEMMA KeyOfPlan ==
  ASSUME NEW c \in Configs, NEW P \in {SaveEntries(c), ResetEntries},
         writes \in Seq(P), writes # <<>>, nvs \in [Keys -> Int],
         nvs' = [nvs EXCEPT ![Head(writes)[1]] = Head(writes)[2]]
  PROVE  /\ nvs' \in [Keys -> Int]
         /\ \A k \in WifiKeys : nvs'[k] = nvs[k]
         /\ P = SaveEntries(c) => nvs'["shown"] = nvs["shown"]
         /\ \A e \in P : nvs[e[1]] = e[2] \/ Lists(writes, e)
                           => nvs'[e[1]] = e[2] \/ Lists(Tail(writes), e)
<1> DEFINE h == Head(writes)
<1>1. /\ h \in P /\ \A e : Lists(writes, e) => e = h \/ Lists(Tail(writes), e)
  BY RestOfPlan
<1> HIDE DEF h
<1>2. /\ h[1] \in HwKeys /\ h[2] \in Int
      /\ P = SaveEntries(c) => h[1] # "shown"
  BY <1>1, EntriesAreInts
<1>3. h[1] \in Keys /\ h[1] \notin WifiKeys
  BY <1>2, TwoKindsOfKeys
<1>4. /\ nvs' \in [Keys -> Int] /\ nvs'[h[1]] = h[2]
      /\ \A k \in Keys : k # h[1] => nvs'[k] = nvs[k]
  BY <1>2, <1>3 DEF h
<1>5. \A k \in WifiKeys : nvs'[k] = nvs[k]
  BY <1>3, <1>4, TwoKindsOfKeys
<1>6. P = SaveEntries(c) => nvs'["shown"] = nvs["shown"]
  BY <1>2, <1>4, TwoKindsOfKeys
<1>7. ASSUME NEW e \in P, nvs[e[1]] = e[2] \/ Lists(writes, e)
      PROVE  nvs'[e[1]] = e[2] \/ Lists(Tail(writes), e)
  <2>1. e[1] \in Keys
    BY EntriesAreInts, TwoKindsOfKeys
  <2>2. CASE e[1] = h[1]
    <3>1. e = h
      BY <2>2, <1>1, OneValue
    <3> QED
      BY <3>1, <1>4
  <2>3. CASE e[1] # h[1]
    <3>1. nvs'[e[1]] = nvs[e[1]]
      BY <1>4, <2>1, <2>3
    <3>2. e # h
      BY <2>3
    <3> QED
      BY <1>1, <1>7, <3>1, <3>2
  <2> QED
    BY <2>2, <2>3
<1> QED
  BY <1>4, <1>5, <1>6, <1>7

LEMMA SettingsStart == Init => SettingsOK
<1> SUFFICES ASSUME Init
             PROVE  SettingsOK
  OBVIOUS
<1>1. /\ nvs = [k \in Keys |-> Absent] /\ op = "none" /\ resetting = "no"
      /\ sure = {"pins", "rest"} /\ told = Defaults /\ network = Seeds
  BY DEF Init
<1>2. \A k \in Keys : nvs[k] = Absent
  BY <1>1
<1>3. SettingsTyped
  BY <1>1, DefaultsValid DEF SettingsTyped, Absent
<1>4. Overlay = Defaults
  <2>1. nvs["count"] = Absent /\ nvs["led"] = Absent /\ nvs["shown"] = Absent
    BY <1>2, TwoKindsOfKeys
  <2>2. Absent \notin 1 .. MaxBanks
    BY DEF Absent
  <2> QED
    BY <2>1, <2>2 DEF Overlay, Stored, Defaults
<1>5. StoredAsTold
  BY <1>1, <1>4, DefaultsValid DEF StoredAsTold
<1>6. JoinAsTold
  <2>1. nvs["ssid"] = -1 /\ nvs["noseeds"] = -1
    BY <1>2, TwoKindsOfKeys DEF WifiKeys, Absent
  <2>2. \A n \in Networks \cup {Seed} : n # 0
    BY SettingsAssumption
  <2> QED
    BY <1>1, <2>1, <2>2 DEF JoinAsTold, Seeds, Forgotten, Unsure, Absent
<1> QED
  BY <1>1, <1>3, <1>5, <1>6 DEF SettingsOK, SavesGoOn, JoinIsWritten

(* A request to save or reset the hardware writes its next key.            *)
LEMMA HardwareWrites ==
  ASSUME SettingsOK, op \in {"hardware", "reset"}, WriteKey
  PROVE  SettingsOK'
<1>1. /\ nvs' = [nvs EXCEPT ![Head(writes)[1]] = Head(writes)[2]]
      /\ resetting' = resetting
      /\ Len(writes) # 1 => /\ writes' = Tail(writes) /\ op' = op /\ asked' = asked
                            /\ clean' = clean /\ told' = told /\ sure' = sure
                            /\ network' = network
      /\ Len(writes) = 1 => Answered
  BY DEF WriteKey, toldVars
<1>2. PICK c \in Configs : /\ Planned \in {SaveEntries(c), ResetEntries}
                           /\ op = "hardware" => c = asked /\ Valid(c)
  <2>1. CASE op = "hardware"
    BY <2>1 DEF SettingsOK, SavesGoOn, Planned
  <2>2. CASE op = "reset"
    BY <2>2, DefaultsValid DEF Planned
  <2> QED
    BY <2>1, <2>2
<1>3. /\ writes \in Seq(Planned) /\ writes # <<>> /\ nvs \in [Keys -> Int]
      /\ clean => \A e \in Planned : nvs[e[1]] = e[2] \/ Lists(writes, e)
  BY DEF SettingsOK, SavesGoOn, SettingsTyped
<1>4. /\ nvs' \in [Keys -> Int]
      /\ \A k \in WifiKeys : nvs'[k] = nvs[k]
      /\ Planned = SaveEntries(c) => nvs'["shown"] = nvs["shown"]
      /\ \A e \in Planned : nvs[e[1]] = e[2] \/ Lists(writes, e)
                              => nvs'[e[1]] = e[2] \/ Lists(Tail(writes), e)
  <2> DEFINE P == Planned
  <2>1. P \in {SaveEntries(c), ResetEntries} /\ writes \in Seq(P)
    BY <1>2, <1>3
  <2> HIDE DEF P
  <2>2. /\ nvs' \in [Keys -> Int]
        /\ \A k \in WifiKeys : nvs'[k] = nvs[k]
        /\ P = SaveEntries(c) => nvs'["shown"] = nvs["shown"]
        /\ \A e \in P : nvs[e[1]] = e[2] \/ Lists(writes, e)
                          => nvs'[e[1]] = e[2] \/ Lists(Tail(writes), e)
    BY <1>1, <1>3, <2>1, KeyOfPlan
  <2> QED
    BY <2>2 DEF P
<1>5. /\ Tail(writes) \in Seq(Planned)
      /\ Len(writes) = 1 => Tail(writes) = <<>>
      /\ Len(writes) # 1 => Tail(writes) # <<>>
  BY <1>3, RestOfPlan
<1>6. /\ nvs'["ssid"] = nvs["ssid"] /\ nvs'["pass"] = nvs["pass"]
      /\ nvs'["noseeds"] = nvs["noseeds"]
  BY <1>4 DEF WifiKeys
<1>7. CASE Len(writes) # 1
  <2>1. Planned' = Planned
    BY <1>1, <1>7 DEF Planned
  <2>2. SavesGoOn'
    <3>1. clean => \A e \in Planned : nvs'[e[1]] = e[2] \/ Lists(Tail(writes), e)
      BY <1>3, <1>4
    <3>2. /\ writes' = Tail(writes) /\ op' = op /\ asked' = asked /\ (clean' <=> clean)
      BY <1>1, <1>7
    <3>3. writes' \in Seq(Planned') /\ writes' # <<>>
      BY <1>5, <1>7, <2>1, <3>2
    <3>4. op' = "hardware" => asked' \in Configs /\ Valid(asked')
      BY <3>2 DEF SettingsOK, SavesGoOn
    <3>5. clean' => \A e \in Planned' : nvs'[e[1]] = e[2] \/ Lists(writes', e)
      BY <2>1, <3>1, <3>2
    <3> QED
      BY <3>3, <3>4, <3>5, Zenon DEF SavesGoOn
  <2>3. StoredAsTold'
    <3>1. "pins" \notin sure /\ (op = "reset" => sure = {})
      BY DEF SettingsOK, StoredAsTold
    <3>2. op = "hardware" => nvs'["shown"] = nvs["shown"]
      BY <1>2, <1>4 DEF Planned
    <3>3. op = "hardware" => Overlay'.shown = Overlay.shown
      BY <3>2 DEF Overlay, Stored
    <3> QED
      BY <1>1, <1>7, <3>1, <3>3 DEF SettingsOK, StoredAsTold
  <2>4. JoinIsWritten' /\ JoinAsTold'
    BY <1>1, <1>6, <1>7 DEF SettingsOK, JoinIsWritten, JoinAsTold
  <2>5. SettingsTyped'
    BY <1>1, <1>4, <1>7 DEF SettingsOK, SettingsTyped
  <2> QED
    BY <2>2, <2>3, <2>4, <2>5 DEF SettingsOK
<1>8. CASE Len(writes) = 1
  <2>1. /\ op' = "none" /\ network' = network
        /\ told' = IF op = "reset" THEN Defaults ELSE [asked EXCEPT !.shown = told.shown]
        /\ sure' = IF ~clean \/ resetting # "no" THEN sure
                   ELSE IF op = "reset" THEN {"pins", "rest"} ELSE sure \cup {"pins"}
    BY <1>1, <1>8 DEF Answered, Ended
  <2>2. clean => \A e \in Planned : nvs'[e[1]] = e[2]
    <3>1. Tail(writes) = <<>> /\ \A e : ~ Lists(<<>>, e)
      <4>1. 1 .. Len(<<>>) = {}
        OBVIOUS
      <4> QED
        BY <1>5, <1>8, <4>1 DEF Lists
    <3> QED
      BY <1>3, <1>4, <3>1
  <2>3. told' \in Configs
    <3>1. op = "hardware" => asked \in Configs
      BY DEF SettingsOK, SavesGoOn
    <3>2. told.shown \in BOOLEAN
      BY DEF SettingsOK, SettingsTyped, Configs
    <3> QED
      BY <2>1, <3>1, <3>2, DefaultsValid DEF Configs
  <2>4. SettingsTyped'
    BY <1>1, <1>4, <2>1, <2>3 DEF SettingsOK, SettingsTyped
  <2>5. JoinIsWritten' /\ JoinAsTold' /\ SavesGoOn'
    BY <1>1, <1>6, <2>1 DEF SettingsOK, JoinIsWritten, JoinAsTold, SavesGoOn
  <2>6. StoredAsTold'
    <3>1. "pins" \notin sure /\ (op = "reset" => sure = {})
      BY DEF SettingsOK, StoredAsTold
    <3>2. CASE op = "hardware"
      <4>1. nvs'["shown"] = nvs["shown"]
        BY <1>2, <1>4, <3>2 DEF Planned
      <4>2. Overlay'.shown = Overlay.shown /\ told'.shown = told.shown
        <5>1. asked \in Configs
          BY <3>2 DEF SettingsOK, SavesGoOn
        <5> QED
          BY <4>1, <5>1, <2>1, <3>2 DEF Overlay, Stored, Configs
      <4>3. "rest" \in sure' => "rest" \in sure
        BY <2>1, <3>2
      <4>4. CASE "pins" \in sure'
        <5>1. clean
          BY <2>1, <3>1, <4>4
        <5>2. c = asked /\ c \in Configs /\ Valid(c) /\ \A e \in SaveEntries(c) : nvs'[e[1]] = e[2]
          BY <1>2, <2>2, <3>2, <5>1 DEF Planned
        <5>3. Overlay'.banks = c.banks /\ Overlay'.led = c.led
          BY <5>2, OverlayOfSave
        <5>4. told'.banks = c.banks /\ told'.led = c.led
          BY <2>1, <3>2, <5>2 DEF Configs
        <5>5. Valid(told')
          BY <5>2, <5>4 DEF Valid
        <5> QED
          BY <2>1, <4>2, <4>3, <5>3, <5>4, <5>5 DEF SettingsOK, StoredAsTold
      <4>5. CASE "pins" \notin sure'
        BY <2>1, <4>2, <4>3, <4>5 DEF SettingsOK, StoredAsTold
      <4> QED
        BY <4>4, <4>5
    <3>3. CASE op = "reset"
      <4>1. CASE sure' = {}
        BY <2>1, <4>1 DEF StoredAsTold
      <4>2. CASE sure' # {}
        <5>1. clean /\ told' = Defaults
          BY <2>1, <3>1, <3>3, <4>2
        <5>2. \A k \in HwKeys : nvs'[k] = Absent
          <6>1. \A e \in ResetEntries : nvs'[e[1]] = e[2]
            BY <2>2, <3>3, <5>1 DEF Planned
          <6>2. \A k \in HwKeys : <<k, Absent>> \in ResetEntries
            BY DEF ResetEntries
          <6> QED
            BY <6>1, <6>2
        <5>3. Overlay' = Defaults
          BY <5>2, TwoKindsOfKeys, OverlayOfNothing
        <5> QED
          BY <2>1, <5>1, <5>3, DefaultsValid DEF StoredAsTold
      <4> QED
        BY <4>1, <4>2
    <3> QED
      BY <3>2, <3>3
  <2> QED
    BY <2>4, <2>5, <2>6 DEF SettingsOK
<1> QED
  BY <1>7, <1>8

(* What a step leaves alone.                                               *)
LEMMA HardwareStays ==
  ASSUME SettingsOK, \A k \in HwKeys : nvs'[k] = nvs[k], told' = told, sure' \subseteq sure,
         \/ op' = op \/ op' \in {"none", "wifi"} \/ sure' = {}
         \/ op' = "hardware" /\ "pins" \notin sure'
  PROVE  StoredAsTold'
<1>1. /\ Overlay'.banks = Overlay.banks /\ Overlay'.led = Overlay.led
      /\ Overlay'.shown = Overlay.shown
  BY OverlayStays, TwoKindsOfKeys
<1>2. Valid(told') <=> Valid(told)
  OBVIOUS
<1> QED
  BY <1>1, <1>2 DEF SettingsOK, StoredAsTold

LEMMA NetworkStays ==
  ASSUME SettingsOK, \A k \in WifiKeys : nvs'[k] = nvs[k], network' = network,
         op' # "wifi" \/ (op' = op /\ writes' = writes /\ resetting' = resetting),
         resetting' \in {"begun", "erased"} => network = Unsure
  PROVE  JoinIsWritten' /\ JoinAsTold'
<1>1. /\ nvs'["ssid"] = nvs["ssid"] /\ nvs'["pass"] = nvs["pass"]
      /\ nvs'["noseeds"] = nvs["noseeds"]
  BY DEF WifiKeys
<1> QED
  BY <1>1 DEF SettingsOK, JoinIsWritten, JoinAsTold

LEMMA WifiIsWritten ==
  ASSUME SettingsOK, op = "wifi", WriteKey
  PROVE  SettingsOK'
<1>1. /\ nvs' = [nvs EXCEPT ![Head(writes)[1]] = Head(writes)[2]]
      /\ resetting' = resetting /\ nvs \in [Keys -> Int] /\ network = Unsure
      /\ Len(writes) # 1 => /\ writes' = Tail(writes) /\ op' = op /\ told' = told
                            /\ sure' = sure /\ network' = network
      /\ Len(writes) = 1 => Answered
  BY DEF WriteKey, toldVars, SettingsOK, SettingsTyped, JoinAsTold
<1>2. PICK n \in Networks \cup {Seed} :
        \/ writes = WifiWrites(n)
        \/ writes = <<<<"ssid", n>>, <<"pass", n>>>>
        \/ writes = <<<<"pass", n>>>> /\ (resetting = "no" => nvs["ssid"] = n)
  BY DEF SettingsOK, JoinIsWritten
<1>3. n \in Int /\ n # 0 /\ n # -1 /\ n # -2
  BY SettingsAssumption
<1>4. {"ssid", "pass", "noseeds"} \subseteq Keys /\ Absent \in Int
  BY TwoKindsOfKeys DEF WifiKeys, Absent
<1>5. ASSUME NEW k \in WifiKeys, NEW v \in Int, Head(writes) = <<k, v>>,
             told' = told, sure' = sure, op' \in {"none", "wifi"}
      PROVE  SettingsTyped' /\ StoredAsTold' /\ SavesGoOn' /\ nvs'[k] = v
             /\ \A j \in WifiKeys : j # k => nvs'[j] = nvs[j]
  <2>1. k \in Keys /\ k \notin HwKeys
    BY TwoKindsOfKeys
  <2>2. nvs' = [nvs EXCEPT ![k] = v]
    <3>1. Head(writes)[1] = k /\ Head(writes)[2] = v
      BY <1>5
    <3> QED
      BY <1>1, <3>1
  <2>3. nvs' \in [Keys -> Int] /\ nvs'[k] = v /\ \A j \in Keys : j # k => nvs'[j] = nvs[j]
    BY <1>1, <2>1, <2>2
  <2>4. \A j \in HwKeys : nvs'[j] = nvs[j]
    BY <2>1, <2>3, TwoKindsOfKeys
  <2>5. StoredAsTold'
    <3>1. sure' \subseteq sure /\ told' = told /\ op' \in {"none", "wifi"}
      BY <1>5
    <3> QED
      BY <2>4, <3>1, HardwareStays, Zenon
  <2>6. SettingsTyped'
    BY <1>1, <1>5, <2>3 DEF SettingsOK, SettingsTyped
  <2>7. \A j \in WifiKeys : j # k => nvs'[j] = nvs[j]
    BY <2>3, TwoKindsOfKeys
  <2> QED
    BY <1>5, <2>3, <2>5, <2>6, <2>7 DEF SavesGoOn
<1>6. CASE writes = WifiWrites(n)
  <2>1. /\ Head(writes) = <<"noseeds", Absent>> /\ Len(writes) # 1
        /\ Tail(writes) = <<<<"ssid", n>>, <<"pass", n>>>>
    BY <1>6 DEF WifiWrites
  <2>2. op' = "wifi" /\ told' = told /\ sure' = sure /\ network' = Unsure
        /\ writes' = <<<<"ssid", n>>, <<"pass", n>>>>
    BY <1>1, <2>1
  <2>3. SettingsTyped' /\ StoredAsTold' /\ SavesGoOn'
    BY <1>4, <1>5, <2>1, <2>2 DEF WifiKeys
  <2>4. JoinIsWritten'
    BY <2>2 DEF JoinIsWritten
  <2>5. JoinAsTold'
    BY <2>2, SettingsAssumption DEF JoinAsTold, Unsure, Seeds, Forgotten
  <2> QED
    BY <2>3, <2>4, <2>5 DEF SettingsOK
<1>7. CASE writes = <<<<"ssid", n>>, <<"pass", n>>>>
  <2>1. /\ Head(writes) = <<"ssid", n>> /\ Len(writes) # 1
        /\ Tail(writes) = <<<<"pass", n>>>>
    BY <1>7
  <2>2. op' = "wifi" /\ told' = told /\ sure' = sure /\ network' = Unsure
        /\ writes' = <<<<"pass", n>>>>
    BY <1>1, <2>1
  <2>3. SettingsTyped' /\ StoredAsTold' /\ SavesGoOn' /\ nvs'["ssid"] = n
    BY <1>3, <1>5, <2>1, <2>2 DEF WifiKeys
  <2>4. JoinIsWritten'
    BY <2>2, <2>3 DEF JoinIsWritten
  <2>5. JoinAsTold'
    BY <2>2, SettingsAssumption DEF JoinAsTold, Unsure, Seeds, Forgotten
  <2> QED
    BY <2>3, <2>4, <2>5 DEF SettingsOK
<1>8. CASE writes = <<<<"pass", n>>>> /\ (resetting = "no" => nvs["ssid"] = n)
  <2>1. Head(writes) = <<"pass", n>> /\ Len(writes) = 1
    BY <1>8
  <2>2. /\ op' = "none" /\ told' = told /\ sure' = sure
        /\ network' = IF resetting = "no" THEN nvs'["ssid"] ELSE Unsure
    BY <1>1, <2>1 DEF Answered, Ended
  <2>3. SettingsTyped' /\ StoredAsTold' /\ SavesGoOn' /\ nvs'["pass"] = n
        /\ nvs'["ssid"] = nvs["ssid"]
    BY <1>3, <1>5, <2>1, <2>2 DEF WifiKeys
  <2>4. JoinIsWritten'
    BY <2>2 DEF JoinIsWritten
  <2>5. JoinAsTold'
    <3>1. CASE resetting = "no"
      <4>1. network' = n /\ nvs'["ssid"] = n /\ nvs'["pass"] = n
        BY <1>8, <2>2, <2>3, <3>1
      <4>2. network' # Seeds /\ network' # Forgotten
        BY <1>3, <4>1 DEF Seeds, Forgotten
      <4> QED
        BY <1>1, <2>2, <3>1, <4>1, <4>2 DEF JoinAsTold
    <3>2. CASE resetting # "no"
      <4>1. network' = Unsure
        BY <2>2, <3>2
      <4> QED
        BY <4>1, SettingsAssumption DEF JoinAsTold, Unsure, Seeds, Forgotten
    <3> QED
      BY <3>1, <3>2
  <2> QED
    BY <2>3, <2>4, <2>5 DEF SettingsOK
<1> QED
  BY <1>2, <1>6, <1>7, <1>8

LEMMA WritesGoOut ==
  ASSUME SettingsOK, PutHardware \/ ResetHardware \/ PutWifi
  PROVE  SettingsOK'
<1>1. /\ op = "none" /\ nvs' = nvs /\ resetting' = resetting /\ told' = told /\ clean' = TRUE
  BY DEF PutHardware, ResetHardware, PutWifi, Begin, nvsVars
<1>2. resetting' \in {"begun", "erased"} => network = Unsure
  BY <1>1 DEF SettingsOK, JoinAsTold
<1>3. CASE PutHardware
  <2>1. PICK config \in Configs :
          Valid(config) /\ Begin("hardware", SaveWrites(config), config)
            /\ sure' = sure \ {"pins"} /\ network' = network
    BY <1>3 DEF PutHardware
  <2>2. op' = "hardware" /\ writes' = SaveWrites(config) /\ asked' = config
    BY <2>1 DEF Begin
  <2>3. SettingsTyped'
    BY <1>1, <2>1, <2>2 DEF SettingsOK, SettingsTyped
  <2>4. SavesGoOn'
    <3>1. Planned' = SaveEntries(config)
      BY <2>2 DEF Planned
    <3>2. /\ writes' \in Seq(Planned') /\ writes' # <<>>
          /\ \A e \in Planned' : Lists(writes', e)
      BY <2>2, <3>1, SavePlan
    <3>3. asked' \in Configs /\ Valid(asked')
      BY <2>1, <2>2
    <3> QED
      BY <3>2, <3>3, Zenon DEF SavesGoOn
  <2>5. StoredAsTold'
    <3>1. sure' \subseteq sure /\ "pins" \notin sure'
      BY <2>1
    <3> QED
      BY <1>1, <2>2, <3>1, HardwareStays, Zenon
  <2>6. JoinIsWritten' /\ JoinAsTold'
    BY <1>1, <1>2, <2>1, <2>2, NetworkStays
  <2> QED
    BY <2>3, <2>4, <2>5, <2>6 DEF SettingsOK
<1>4. CASE ResetHardware
  <2>1. /\ op' = "reset" /\ writes' = ResetWrites /\ sure' = {} /\ network' = network
    BY <1>4 DEF ResetHardware, Begin
  <2>2. SettingsTyped'
    BY <1>1, <2>1 DEF SettingsOK, SettingsTyped
  <2>3. SavesGoOn'
    <3>1. Planned' = ResetEntries
      BY <2>1 DEF Planned
    <3>2. /\ writes' \in Seq(Planned') /\ writes' # <<>>
          /\ \A e \in Planned' : Lists(writes', e)
      BY <2>1, <3>1, ResetPlan
    <3>3. op' # "hardware"
      BY <2>1
    <3> QED
      BY <3>2, <3>3, Zenon DEF SavesGoOn
  <2>4. StoredAsTold'
    BY <2>1 DEF StoredAsTold
  <2>5. JoinIsWritten' /\ JoinAsTold'
    BY <1>1, <1>2, <2>1, NetworkStays
  <2> QED
    BY <2>2, <2>3, <2>4, <2>5 DEF SettingsOK
<1>5. CASE PutWifi
  <2>1. PICK n \in Networks \cup {Seed} : writes' = WifiWrites(n)
    BY <1>5 DEF PutWifi, Begin
  <2>2. op' = "wifi" /\ network' = Unsure /\ sure' = sure
    BY <1>5 DEF PutWifi, Begin
  <2>3. SettingsTyped' /\ SavesGoOn'
    BY <1>1, <2>2 DEF SettingsOK, SettingsTyped, SavesGoOn
  <2>4. StoredAsTold'
    <3>1. sure' \subseteq sure /\ \A k \in HwKeys : nvs'[k] = nvs[k]
      BY <1>1, <2>2
    <3>2. op' \in {"none", "wifi"} /\ told' = told
      BY <1>1, <2>2
    <3> QED
      BY <3>1, <3>2, HardwareStays, Zenon
  <2>5. JoinIsWritten' /\ JoinAsTold'
    BY <2>1, <2>2, SettingsAssumption DEF JoinIsWritten, JoinAsTold, Unsure, Seeds, Forgotten
  <2> QED
    BY <2>3, <2>4, <2>5 DEF SettingsOK
<1> QED
  BY <1>3, <1>4, <1>5

LEMMA WritesFail ==
  ASSUME SettingsOK, WriteFails
  PROVE  SettingsOK'
<1>1. /\ op # "none" /\ nvs' = nvs /\ resetting' = resetting
      /\ told' = told /\ sure' = sure /\ network' = network
  BY DEF WriteFails, nvsVars, toldVars
<1>2. resetting' \in {"begun", "erased"} => network = Unsure
  BY <1>1 DEF SettingsOK, JoinAsTold
<1>3. CASE Ended
  <2>1. op' = "none" /\ SettingsTyped' /\ SavesGoOn'
    BY <1>1, <1>3 DEF Ended, SettingsOK, SettingsTyped, SavesGoOn
  <2>2. StoredAsTold'
    <3>1. sure' \subseteq sure /\ told' = told /\ op' \in {"none", "wifi"}
      BY <1>1, <2>1
    <3> QED
      BY <1>1, <3>1, HardwareStays, Zenon
  <2>3. JoinIsWritten' /\ JoinAsTold'
    BY <1>1, <1>2, <2>1, NetworkStays
  <2> QED
    BY <2>1, <2>2, <2>3 DEF SettingsOK
<1>4. CASE ~ Ended
  <2>1. /\ op = "hardware" \/ (op = "wifi" /\ Head(writes)[1] = "noseeds")
        /\ Len(writes) > 1 /\ writes' = Tail(writes) /\ clean' = FALSE
        /\ op' = op /\ asked' = asked
    BY <1>4 DEF WriteFails
  <2>2. SettingsTyped'
    BY <1>1, <2>1 DEF SettingsOK, SettingsTyped
  <2>3. StoredAsTold'
    <3>1. sure' \subseteq sure /\ told' = told /\ op' = op
      BY <1>1, <2>1
    <3> QED
      BY <1>1, <3>1, HardwareStays, Zenon
  <2>4. CASE op = "hardware"
    <3>1. writes \in Seq(Planned) /\ writes # <<>> /\ asked \in Configs /\ Valid(asked)
      BY <2>4 DEF SettingsOK, SavesGoOn
    <3>2. writes' \in Seq(Planned) /\ writes' # <<>>
      <4>1. Len(writes) \in Nat
        BY <3>1
      <4>2. Len(writes) # 1
        BY <2>1, <4>1
      <4> QED
        BY <2>1, <3>1, <4>2, RestOfPlan
    <3>3. Planned' = Planned
      BY <2>1 DEF Planned
    <3>4. SavesGoOn'
      BY <2>1, <3>1, <3>2, <3>3 DEF SavesGoOn
    <3>5. JoinIsWritten' /\ JoinAsTold'
      BY <1>1, <1>2, <2>1, <2>4, NetworkStays
    <3> QED
      BY <2>2, <2>3, <3>4, <3>5 DEF SettingsOK
  <2>5. CASE op = "wifi"
    <3>1. PICK n \in Networks \cup {Seed} :
            \/ writes = WifiWrites(n)
            \/ writes = <<<<"ssid", n>>, <<"pass", n>>>>
            \/ writes = <<<<"pass", n>>>> /\ (resetting = "no" => nvs["ssid"] = n)
      BY <2>5 DEF SettingsOK, JoinIsWritten
    <3>2. Head(writes)[1] = "noseeds"
      BY <2>1, <2>5
    <3>3. writes = WifiWrites(n)
      <4>1. Head(<<<<"ssid", n>>, <<"pass", n>>>>)[1] = "ssid" /\ Head(<<<<"pass", n>>>>)[1] = "pass"
        OBVIOUS
      <4> QED
        BY <3>1, <3>2, <4>1
    <3>4. writes' = <<<<"ssid", n>>, <<"pass", n>>>>
      BY <2>1, <3>3 DEF WifiWrites
    <3>5. JoinIsWritten' /\ SavesGoOn'
      BY <2>1, <2>5, <3>4 DEF JoinIsWritten, SavesGoOn
    <3>6. JoinAsTold'
      BY <1>1, <2>1, <2>5 DEF SettingsOK, JoinAsTold
    <3> QED
      BY <2>2, <2>3, <3>5, <3>6 DEF SettingsOK
  <2> QED
    BY <2>1, <2>4, <2>5
<1> QED
  BY <1>3, <1>4

LEMMA TargetsAreSet ==
  ASSUME SettingsOK, NEW rest \in BOOLEAN, BootTargets(rest)
  PROVE  SettingsOK'
<1>1. /\ nvs' = [nvs EXCEPT !["shown"] = IF rest THEN 1 ELSE 0]
      /\ told' = [told EXCEPT !.shown = rest]
      /\ clean' = (clean /\ op # "reset")
      /\ sure' = IF op = "reset" THEN sure ELSE sure \cup {"rest"}
      /\ op' = op /\ writes' = writes /\ asked' = asked
      /\ resetting' = resetting /\ network' = network
  BY DEF BootTargets
<1>2. nvs \in [Keys -> Int] /\ told \in Configs
  BY DEF SettingsOK, SettingsTyped
<1>3. /\ nvs' \in [Keys -> Int] /\ nvs'["shown"] = IF rest THEN 1 ELSE 0
      /\ \A k \in Keys : k # "shown" => nvs'[k] = nvs[k]
  BY <1>1, <1>2, TwoKindsOfKeys
<1>4. told' \in Configs /\ told'.banks = told.banks /\ told'.led = told.led /\ told'.shown = rest
  BY <1>1, <1>2 DEF Configs
<1>5. SettingsTyped'
  BY <1>1, <1>3, <1>4 DEF SettingsOK, SettingsTyped
<1>6. SavesGoOn'
  <2>1. Planned' = Planned
    BY <1>1 DEF Planned
  <2>2. ASSUME clean', op \in {"hardware", "reset"}, NEW e \in Planned
        PROVE  nvs'[e[1]] = e[2] \/ Lists(writes, e)
    <3>1. op = "hardware" /\ clean
      BY <1>1, <2>2
    <3>2. asked \in Configs /\ Planned = SaveEntries(asked)
      BY <3>1 DEF SettingsOK, SavesGoOn, Planned
    <3>3. e[1] # "shown" /\ e[1] \in Keys
      BY <3>2, EntriesAreInts, TwoKindsOfKeys
    <3>4. nvs[e[1]] = e[2] \/ Lists(writes, e)
      BY <3>1 DEF SettingsOK, SavesGoOn
    <3> QED
      BY <1>3, <3>3, <3>4
  <2>3. op' = op /\ writes' = writes /\ asked' = asked
    BY <1>1
  <2> QED
    BY <2>1, <2>2, <2>3 DEF SettingsOK, SavesGoOn
<1>7. StoredAsTold'
  <2>1. Overlay'.banks = Overlay.banks /\ Overlay'.led = Overlay.led
    BY <1>3, OverlayStays, TwoKindsOfKeys
  <2>2. Overlay'.shown = rest
    <3>1. nvs'["shown"] # Absent
      BY <1>3 DEF Absent
    <3>2. (Stored("shown", 1) = 1)' <=> rest
      BY <1>3, <3>1 DEF Stored
    <3>3. (Stored("shown", 1) = 1)' = rest
      BY <3>2
    <3> QED
      BY <3>3 DEF Overlay
  <2>3. Valid(told') <=> Valid(told)
    BY <1>4 DEF Valid
  <2>4. /\ "pins" \in sure' => "pins" \in sure
        /\ op' = "reset" => sure' = {}
    BY <1>1 DEF SettingsOK, StoredAsTold
  <2>5. "pins" \in sure' => /\ Overlay'.banks = told'.banks /\ Overlay'.led = told'.led
                            /\ Valid(told') /\ op' \notin {"hardware", "reset"}
    BY <1>1, <1>4, <2>1, <2>3, <2>4 DEF SettingsOK, StoredAsTold
  <2> QED
    BY <1>4, <2>2, <2>4, <2>5 DEF StoredAsTold
<1>8. JoinIsWritten' /\ JoinAsTold'
  <2>1. \A k \in WifiKeys : nvs'[k] = nvs[k]
    BY <1>3, TwoKindsOfKeys
  <2>2. resetting' \in {"begun", "erased"} => network = Unsure
    BY <1>1 DEF SettingsOK, JoinAsTold
  <2> QED
    BY <1>1, <2>1, <2>2, NetworkStays
<1> QED
  BY <1>5, <1>6, <1>7, <1>8 DEF SettingsOK

LEMMA AllIsReset ==
  ASSUME SettingsOK,
         FactoryReset \/ Erase \/ EraseFails \/ \E ok \in BOOLEAN : Forget(ok)
  PROVE  SettingsOK'
<1>1. CASE FactoryReset \/ EraseFails
  <2>1. /\ nvs' = nvs /\ op' = op /\ writes' = writes /\ asked' = asked /\ clean' = clean
        /\ told' = told /\ sure' \subseteq sure /\ resetting' \in {"begun", "erased"}
        /\ resetting = "no" \/ resetting = "begun"
        /\ network' = Unsure
    BY <1>1 DEF FactoryReset, EraseFails, nvsVars, opVars, toldVars, SettingsOK, JoinAsTold
  <2>2. SettingsTyped'
    BY <2>1 DEF SettingsOK, SettingsTyped
  <2>3. SavesGoOn'
    <3>1. Planned' = Planned
      BY <2>1 DEF Planned
    <3> QED
      BY <2>1, <3>1 DEF SettingsOK, SavesGoOn
  <2>4. StoredAsTold'
    BY <2>1, HardwareStays
  <2>5. JoinIsWritten'
    BY <2>1 DEF SettingsOK, JoinIsWritten
  <2>6. JoinAsTold'
    BY <2>1, SettingsAssumption DEF JoinAsTold, Unsure, Seeds, Forgotten
  <2> QED
    BY <2>2, <2>3, <2>4, <2>5, <2>6 DEF SettingsOK
<1>2. CASE Erase
  <2>1. /\ nvs' = [k \in Keys |-> Absent] /\ op' = "none" /\ told' = Defaults
        /\ resetting' = "erased" /\ sure' = {"pins", "rest"} /\ network' = Unsure
    BY <1>2 DEF Erase, Ended, SettingsOK, JoinAsTold
  <2>2. SettingsTyped'
    BY <2>1, DefaultsValid DEF SettingsTyped, Absent
  <2>3. StoredAsTold'
    <3>1. \A k \in {"count", "led", "shown"} : nvs'[k] = Absent
      BY <2>1, TwoKindsOfKeys
    <3>2. Overlay' = Defaults
      BY <3>1, OverlayOfNothing
    <3> QED
      BY <2>1, <3>2, DefaultsValid DEF StoredAsTold
  <2>4. SavesGoOn' /\ JoinIsWritten'
    BY <2>1 DEF SavesGoOn, JoinIsWritten
  <2>5. JoinAsTold'
    BY <2>1, SettingsAssumption DEF JoinAsTold, Unsure, Seeds, Forgotten
  <2> QED
    BY <2>2, <2>3, <2>4, <2>5 DEF SettingsOK
<1>3. ASSUME NEW ok \in BOOLEAN, Forget(ok)
      PROVE  SettingsOK'
  <2>1. /\ op' = op /\ writes' = writes /\ asked' = asked /\ clean' = clean
        /\ told' = told /\ sure' = sure /\ resetting' = "forgot"
        /\ network' = IF ok /\ op # "wifi" THEN Forgotten ELSE Unsure
    BY <1>3 DEF Forget, opVars
  <2>2. /\ nvs' \in [Keys -> Int] /\ nvs'["ssid"] = Absent /\ (ok => nvs'["noseeds"] = 1)
        /\ \A k \in HwKeys : nvs'[k] = nvs[k]
    <3>1. nvs \in [Keys -> Int]
      BY DEF SettingsOK, SettingsTyped
    <3>2. nvs' = [nvs EXCEPT !["ssid"] = Absent, !["pass"] = Absent,
                            !["noseeds"] = IF ok THEN 1 ELSE @]
      BY <1>3 DEF Forget
    <3>3. {"ssid", "pass", "noseeds"} \subseteq Keys /\ Absent \in Int
      BY TwoKindsOfKeys DEF WifiKeys, Absent
    <3>4. \A k \in HwKeys : k \in Keys /\ k \notin {"ssid", "pass", "noseeds"}
      BY TwoKindsOfKeys DEF WifiKeys
    <3> QED
      BY <3>1, <3>2, <3>3, <3>4
  <2>3. SettingsTyped'
    BY <2>1, <2>2 DEF SettingsOK, SettingsTyped
  <2>4. SavesGoOn'
    <3>1. Planned' = Planned /\ op' = op /\ writes' = writes /\ asked' = asked /\ (clean' <=> clean)
      BY <2>1 DEF Planned
    <3>2. op \in {"hardware", "reset"} => \A e \in Planned : e[1] \in HwKeys
      <4>1. CASE op = "hardware"
        <5>1. asked \in Configs /\ Planned = SaveEntries(asked)
          BY <4>1 DEF SettingsOK, SavesGoOn, Planned
        <5> QED
          BY <5>1, EntriesAreInts
      <4>2. CASE op = "reset"
        BY <4>2, DefaultsValid, EntriesAreInts DEF Planned
      <4> QED
        BY <4>1, <4>2
    <3>3. op \in {"hardware", "reset"} /\ clean =>
            \A e \in Planned : nvs'[e[1]] = e[2] \/ Lists(writes, e)
      BY <2>2, <3>2 DEF SettingsOK, SavesGoOn
    <3> QED
      BY <3>1, <3>3 DEF SettingsOK, SavesGoOn
  <2>5. StoredAsTold'
    <3>1. sure' \subseteq sure /\ told' = told /\ op' = op
      BY <2>1
    <3> QED
      BY <2>2, <3>1, HardwareStays, Zenon
  <2>6. JoinIsWritten'
    BY <2>1 DEF SettingsOK, JoinIsWritten
  <2>7. JoinAsTold'
    <3>1. CASE ok /\ op # "wifi"
      <4>1. network' = Forgotten /\ op' # "wifi" /\ nvs'["noseeds"] = 1
        BY <2>1, <2>2, <3>1
      <4>2. \A n \in Networks \cup {Seed} : n # Forgotten
        BY SettingsAssumption DEF Forgotten
      <4> QED
        BY <2>1, <2>2, <4>1, <4>2 DEF JoinAsTold, Forgotten, Seeds
    <3>2. CASE ~ (ok /\ op # "wifi")
      BY <2>1, <3>2, SettingsAssumption DEF JoinAsTold, Unsure, Seeds, Forgotten
    <3> QED
      BY <3>1, <3>2
  <2> QED
    BY <2>3, <2>4, <2>5, <2>6, <2>7 DEF SettingsOK
<1> QED
  BY <1>1, <1>2, <1>3

LEMMA BootsAndTheRest ==
  ASSUME SettingsOK,
         OpenFails \/ ExecutorInit \/ Restart \/ PowerCut \/ UNCHANGED vars
  PROVE  SettingsOK'
<1>1. CASE Restart \/ PowerCut
  <2>1. /\ nvs' = nvs /\ op' = "none" /\ resetting' = "no" /\ told' = told /\ sure' = sure
        /\ network' = network
    BY <1>1 DEF Restart, PowerCut, Boot, Ended, toldVars
  <2>2. SettingsTyped' /\ SavesGoOn'
    BY <2>1 DEF SettingsOK, SettingsTyped, SavesGoOn
  <2>3. StoredAsTold'
    BY <2>1, HardwareStays
  <2>4. JoinIsWritten' /\ JoinAsTold'
    BY <2>1, NetworkStays
  <2> QED
    BY <2>2, <2>3, <2>4 DEF SettingsOK
<1>2. CASE OpenFails \/ ExecutorInit \/ UNCHANGED vars
  <2>1. /\ nvs' = nvs /\ op' = op /\ writes' = writes /\ asked' = asked /\ clean' = clean
        /\ resetting' = resetting /\ told' = told /\ sure' \subseteq sure /\ network' = network
    BY <1>2 DEF OpenFails, ExecutorInit, vars, nvsVars, opVars, toldVars
  <2>2. SettingsTyped'
    BY <2>1 DEF SettingsOK, SettingsTyped
  <2>3. SavesGoOn'
    <3>1. Planned' = Planned
      BY <2>1 DEF Planned
    <3> QED
      BY <2>1, <3>1 DEF SettingsOK, SavesGoOn
  <2>4. StoredAsTold'
    BY <2>1, HardwareStays
  <2>5. JoinIsWritten' /\ JoinAsTold'
    <3>1. resetting' \in {"begun", "erased"} => network = Unsure
      BY <2>1 DEF SettingsOK, JoinAsTold
    <3> QED
      BY <2>1, <3>1, NetworkStays
  <2> QED
    BY <2>2, <2>3, <2>4, <2>5 DEF SettingsOK
<1> QED
  BY <1>1, <1>2

LEMMA SettingsKeep == SettingsOK /\ [Next]_vars => SettingsOK'
<1> SUFFICES ASSUME SettingsOK, [Next]_vars
             PROVE  SettingsOK'
  OBVIOUS
<1>1. CASE WriteKey
  <2>1. op \in {"hardware", "reset", "wifi"}
    BY <1>1 DEF WriteKey, SettingsOK, SettingsTyped
  <2> QED
    BY <1>1, <2>1, HardwareWrites, WifiIsWritten
<1>2. CASE PutHardware \/ ResetHardware \/ PutWifi
  BY <1>2, WritesGoOut
<1>3. CASE WriteFails
  BY <1>3, WritesFail
<1>4. CASE \E rest \in BOOLEAN : BootTargets(rest)
  BY <1>4, TargetsAreSet
<1>5. CASE FactoryReset \/ Erase \/ EraseFails \/ \E ok \in BOOLEAN : Forget(ok)
  BY <1>5, AllIsReset
<1>6. CASE OpenFails \/ ExecutorInit \/ Restart \/ PowerCut \/ UNCHANGED vars
  BY <1>6, BootsAndTheRest
<1> QED
  BY <1>1, <1>2, <1>3, <1>4, <1>5, <1>6 DEF Next

LEMMA SettingsHold == SettingsOK => SettingsAreAsTold
<1> SUFFICES ASSUME SettingsOK
             PROVE  SettingsAreAsTold
  OBVIOUS
<1>1. HardwareIsAsTold
  <2>1. ASSUME "pins" \in sure
        PROVE  Saved = Overlay /\ Overlay.banks = told.banks /\ Overlay.led = told.led
    <3>1. Overlay.banks = told.banks /\ Overlay.led = told.led /\ Valid(told)
      BY <2>1 DEF SettingsOK, StoredAsTold
    <3>2. Valid(Overlay)
      BY <3>1 DEF Valid
    <3> QED
      BY <3>1, <3>2 DEF Saved
  <2> QED
    BY <2>1 DEF SettingsOK, StoredAsTold, HardwareIsAsTold
<1>2. JoinAsTold
  BY DEF SettingsOK
<1>3. ASSUME network = Seeds
      PROVE  Tries = <<[ssid |-> Seed, pass |-> Seed]>>
  <2>1. nvs["ssid"] = Absent /\ nvs["noseeds"] # 1
    BY <1>2, <1>3 DEF JoinAsTold
  <2>2. Seed # Absent
    BY SettingsAssumption DEF Absent
  <2>3. Own = <<>>
    BY <2>1 DEF Own
  <2>4. Tries = Append(<<>>, [ssid |-> Seed, pass |-> Seed])
    BY <2>1, <2>2, <2>3 DEF Tries
  <2> QED
    BY <2>4
<1>4. ASSUME network = Forgotten
      PROVE  Tries = <<>>
  BY <1>2, <1>4 DEF JoinAsTold, Tries, Own
<1>5. ASSUME NEW n \in Networks \cup {Seed}, network = n
      PROVE  Tries # <<>> /\ Tries[1] = [ssid |-> n, pass |-> n]
  <2>1. nvs["ssid"] = n /\ nvs["pass"] = n /\ n # Absent
    BY <1>2, <1>5, SettingsAssumption DEF JoinAsTold, Absent
  <2>2. Own = <<[ssid |-> n, pass |-> n]>>
    BY <2>1 DEF Own, Stored
  <2>3. Tries = Own \/ Tries = Append(Own, [ssid |-> Seed, pass |-> Seed])
    BY DEF Tries
  <2> QED
    BY <2>2, <2>3
<1> QED
  BY <1>1, <1>3, <1>4, <1>5 DEF SettingsAreAsTold, NetworkIsAsTold

-----------------------------------------------------------------------------
(* The clips' form: a conversion that ends tells its choice from every     *)
(* later one by a number that no choice before had.                        *)
ClipOK ==
  /\ selection \in Nat /\ converters \subseteq 1 .. selection
  /\ chosen \in {0, selection} /\ ready \in {0, chosen}
  /\ selection \in converters => chosen = selection
  /\ converting => chosen # 0 /\ chosen \in converters

LEMMA ClipStarts == AudiosPageInit => ClipOK
<1> SUFFICES ASSUME AudiosPageInit PROVE ClipOK
  OBVIOUS
<1>1. selection \in Nat /\ converters \subseteq 1 .. selection
  BY DEF AudiosPageInit
<1>2. /\ chosen \in {0, selection} /\ ready \in {0, chosen}
      /\ selection \notin converters /\ ~ converting
  BY DEF AudiosPageInit
<1> QED
  BY <1>1, <1>2 DEF ClipOK

(* A new number is one that no conversion has.                             *)
LEMMA NewChoice ==
  ASSUME NEW n \in Nat, NEW S \in SUBSET (1 .. n)
  PROVE  /\ n + 1 \in Nat /\ n + 1 # 0 /\ n + 1 \notin S
         /\ S \cup {n + 1} \subseteq 1 .. n + 1 /\ S \subseteq 1 .. n + 1
  OBVIOUS

LEMMA ClipKeeps == ClipOK /\ [AudiosPageNext]_audiosPageVars => ClipOK'
<1> SUFFICES ASSUME ClipOK, [AudiosPageNext]_audiosPageVars
             PROVE  ClipOK'
  OBVIOUS
<1> USE DEF ClipOK
<1>1. /\ selection + 1 \in Nat /\ selection + 1 # 0
      /\ selection + 1 \notin converters
      /\ converters \cup {selection + 1} \subseteq 1 .. selection + 1
      /\ converters \subseteq 1 .. selection + 1
  BY NewChoice
<1> DEFINE next == selection + 1
<1>2. CASE ChooseClip
  <2>1. /\ selection' = next /\ chosen' = next /\ ready' = 0
        /\ converters' = converters \cup {next}
    BY <1>2 DEF ChooseClip
  <2> HIDE DEF next
  <2> QED
    BY <1>1, <2>1, Zenon DEF next
<1>3. CASE ChooseNone
  <2>1. /\ selection' = next /\ chosen' = 0 /\ ready' = 0 /\ converters' = converters
        /\ ~ converting'
    BY <1>3, Zenon DEF ChooseNone
  <2> HIDE DEF next
  <2> QED
    BY <1>1, <2>1, Zenon DEF next
<1>4. ASSUME NEW choice \in converters, ConversionEnds(choice)
      PROVE  ClipOK'
  <2>1. CASE choice = selection
    BY <1>4, <2>1 DEF ConversionEnds, StillChosen
  <2>2. CASE choice # selection
    BY <1>4, <2>2 DEF ConversionEnds, StillChosen
  <2> QED
    BY <2>1, <2>2
<1>5. CASE UploadSucceeds
  <2>1. /\ selection' = next /\ chosen' = 0 /\ ready' = 0 /\ converters' = converters
        /\ ~ converting'
    BY <1>5, Zenon DEF UploadSucceeds, ResetForm
  <2> HIDE DEF next
  <2> QED
    BY <1>1, <2>1, Zenon DEF next
<1>6. CASE UNCHANGED <<selection, converting, ready, converters, chosen>>
  BY <1>6
<1>7. (\/ TypeTitle \/ Submit \/ UploadEnds
      \/ (\E clip \in Clips : AskClipDelete(clip))
      \/ CancelClipDelete \/ ConfirmClipDelete
      \/ (\E clip \in deletes : ClipDeleteEnds(clip))
      \/ UNCHANGED audiosPageVars)
      => UNCHANGED <<selection, converting, ready, converters, chosen>>
  BY DEF TypeTitle, Submit, UploadEnds, AskClipDelete, CancelClipDelete,
         ConfirmClipDelete, ClipDeleteEnds, formVars, audiosPageVars
<1> QED
  BY <1>2, <1>3, <1>4, <1>5, <1>6, <1>7 DEF AudiosPageNext

LEMMA ClipIsShown == ClipOK => ClipIsTheLastChoice
  BY DEF ClipOK, ClipIsTheLastChoice

-----------------------------------------------------------------------------
(* The form for the network, which stands still while its save is out.     *)
WifiForms == [picked : Ssids \cup {NoSsid}, typed : Ssids \cup {NoSsid},
              password : Secrets \cup {NoSecret}, confirming : BOOLEAN]
WifiPairs == [ssid : Ssids \cup {NoSsid}, password : Secrets \cup {NoSecret}]
WifiSaves == [at : {"none", "sent", "ok", "failed", "reading"},
              asks : WifiPairs, mine : BOOLEAN]

NetworkOK ==
  /\ wifiForm \in WifiForms /\ wifiSave \in WifiSaves /\ scan \subseteq Ssids
  /\ NetworkIsAsShown

LEMMA NetworkStarts == WifiFormInit => NetworkOK
  BY DEF WifiFormInit, NetworkOK, WifiForms, WifiSaves, WifiPairs, NetworkIsAsShown,
         EmptyWifiForm, NoWifiSave, Pair

LEMMA NetworkKeeps == NetworkOK /\ [WifiFormNext]_wifiFormVars => NetworkOK'
<1> SUFFICES ASSUME NetworkOK, [WifiFormNext]_wifiFormVars
             PROVE  NetworkOK'
  OBVIOUS
<1> USE DEF NetworkOK, NetworkIsAsShown, WifiForms, WifiSaves, WifiPairs, Pair, Chosen
<1>1. ASSUME NEW ssid \in Ssids \cup {NoSsid}, PickSsid(ssid) \/ TypeSsid(ssid)
      PROVE  NetworkOK'
  BY <1>1 DEF PickSsid, TypeSsid, FormBecomes, MayType, WifiBusy
<1>2. ASSUME NEW password \in Secrets, TypePassword(password)
      PROVE  NetworkOK'
  BY <1>2 DEF TypePassword, FormBecomes, MayType, WifiBusy
<1>3. ASSUME NEW found \in SUBSET Ssids, Rescan(found)
      PROVE  NetworkOK'
  BY <1>3 DEF Rescan
<1>4. CASE AskToSave
  BY <1>4 DEF AskToSave, FormBecomes
<1>5. CASE CancelSave
  BY <1>5 DEF CancelSave, FormBecomes, WifiBusy
<1>6. CASE ConfirmSave
  BY <1>6 DEF ConfirmSave
<1>7. CASE HandleWifiSave
  BY <1>7 DEF HandleWifiSave
<1>8. CASE LoseWifiSave
  BY <1>8 DEF LoseWifiSave
<1>9. CASE WifiSaveEnds
  <2>1. CASE wifiSave.at = "ok"
    <3>1. /\ wifiSave' = [wifiSave EXCEPT !.at = "reading"] /\ scan' = scan
          /\ \/ wifiForm' = wifiForm
             \/ wifiForm' = [wifiForm EXCEPT !.confirming = FALSE, !.password = NoSecret]
      BY <1>9, <2>1 DEF WifiSaveEnds
    <3>2. [wifiForm EXCEPT !.confirming = FALSE, !.password = NoSecret] \in WifiForms
      OBVIOUS
    <3>3. wifiForm' \in WifiForms
      BY <3>1, <3>2, Zenon
    <3> QED
      BY <3>1, <3>3
  <2>2. CASE wifiSave.at # "ok"
    <3>1. /\ wifiSave' = NoWifiSave /\ scan' = scan
          /\ \/ wifiForm' = wifiForm
             \/ wifiForm' = [wifiForm EXCEPT !.confirming = FALSE]
      BY <1>9, <2>2 DEF WifiSaveEnds
    <3>2. [wifiForm EXCEPT !.confirming = FALSE] \in WifiForms
      OBVIOUS
    <3>3. wifiForm' \in WifiForms
      BY <3>1, <3>2, Zenon
    <3> QED
      BY <3>1, <3>3 DEF NoWifiSave
  <2> QED
    BY <2>1, <2>2
<1>10. CASE FormGoes
  BY <1>10 DEF FormGoes, EmptyWifiForm
<1>11. CASE OthersMoveIt \/ UNCHANGED wifiFormVars
  BY <1>11 DEF OthersMoveIt, wifiFormVars
<1> QED
  BY <1>1, <1>2, <1>3, <1>4, <1>5, <1>6, <1>7, <1>8, <1>9, <1>10, <1>11 DEF WifiFormNext

LEMMA NetworkIsShown == NetworkOK => NetworkIsAsShown
  BY DEF NetworkOK

-----------------------------------------------------------------------------
(* The button that restarts the device: what the page remembers of the     *)
(* stream since the click, and a stream that a restart ends.               *)
RestartPages == [confirming : BOOLEAN, restarting : BOOLEAN,
                 dropped : BOOLEAN, since : BOOLEAN]

RestartOK ==
  /\ restartPage \in RestartPages
  /\ restartPage.restarting /\ sse = "error" => restartPage.dropped
  /\ restartPage.dropped => restartPage.restarting /\ restartPage.since
  /\ restartPage.confirming => ~ restartPage.restarting
  /\ restart = "down" => sse # "connected"
  /\ restartAsked \in {"ok", "none"} /\ restart = "up" /\ sse = "connected" =>
       ~ restartPage.restarting
  /\ restartAsked \in {"sent", "ok"} => restartPage.restarting \/ restartPage.since

LEMMA RestartStarts == RestartPageInit => RestartOK
  BY DEF RestartPageInit, RestartOK, RestartPages

(* The effect: what the page remembers goes with Restarting..., and it     *)
(* leaves that state on a stream that was gone, or with nothing to apply.  *)
LEMMA EffectTells ==
  ASSUME NEW p \in RestartPages, NEW heard, NEW read, p.dropped => p.since,
         NEW q, q = Told(Effect(p, heard, read), heard, read)
  PROVE  /\ q \in RestartPages /\ q.confirming = p.confirming
         /\ q.restarting => p.restarting
         /\ q.restarting /\ heard = "error" => q.dropped
         /\ q.dropped => q.restarting /\ q.since
         /\ p.restarting \/ p.since => q.restarting \/ q.since
         /\ p.dropped /\ heard # "error" => ~ q.restarting
<1> USE DEF RestartPages, Told
<1>1. CASE ~ p.restarting
  <2>1. Effect(p, heard, read) = [p EXCEPT !.dropped = FALSE]
    BY <1>1 DEF Effect
  <2> QED
    BY <1>1, <2>1
<1>2. CASE p.restarting /\ heard = "error"
  <2>1. Effect(p, heard, read) = [p EXCEPT !.dropped = TRUE]
    BY <1>2 DEF Effect
  <2> QED
    BY <1>2, <2>1
<1>3. CASE p.restarting /\ heard # "error" /\ Back(p, read)
  <2>1. Effect(p, heard, read) = [p EXCEPT !.restarting = FALSE, !.dropped = FALSE]
    BY <1>3 DEF Effect
  <2> QED
    BY <1>3, <2>1 DEF Back
<1>4. CASE p.restarting /\ heard # "error" /\ ~ Back(p, read)
  <2>1. Effect(p, heard, read) = p
    BY <1>4 DEF Effect
  <2> QED
    BY <1>4, <2>1 DEF Back
<1> QED
  BY <1>1, <1>2, <1>3, <1>4

LEMMA RestartKeeps == RestartOK /\ [RestartPageNext]_restartPageVars => RestartOK'
<1> SUFFICES ASSUME RestartOK, [RestartPageNext]_restartPageVars
             PROVE  RestartOK'
  OBVIOUS
<1> USE DEF RestartOK
<1>1. ASSUME NEW p \in RestartPages, p.dropped => p.since, NEW heard, NEW read,
             RestartPageBecomes(p, heard, read)
      PROVE  /\ restartPage' \in RestartPages /\ restartPage'.confirming = p.confirming
             /\ restartPage'.restarting => p.restarting
             /\ restartPage'.restarting /\ sse' = "error" => restartPage'.dropped
             /\ restartPage'.dropped => restartPage'.restarting /\ restartPage'.since
             /\ p.restarting \/ p.since => restartPage'.restarting \/ restartPage'.since
             /\ p.dropped /\ heard # "error" => ~ restartPage'.restarting
             /\ sse' = heard
  <2>1. restartPage' = Told(Effect(p, heard, read), heard, read) /\ sse' = heard
    BY <1>1 DEF RestartPageBecomes
  <2> QED
    BY <1>1, <2>1, EffectTells
<1>2. CASE PressRestart
  <2> DEFINE p == [restartPage EXCEPT !.confirming = TRUE]
  <2>1. /\ p \in RestartPages /\ p.confirming /\ ~ p.restarting /\ p.dropped = restartPage.dropped
        /\ p.since = restartPage.since
    BY <1>2 DEF PressRestart, RestartPages
  <2>2. /\ RestartPageBecomes(p, sse, pendingRead) /\ restart' = restart
        /\ restartAsked' = restartAsked /\ ~ restartPage.restarting
    BY <1>2 DEF PressRestart, deviceSideVars
  <2> HIDE DEF p
  <2> QED
    BY <1>1, <2>1, <2>2
<1>3. CASE CancelRestart
  <2> DEFINE p == [restartPage EXCEPT !.confirming = FALSE]
  <2>1. /\ p \in RestartPages /\ ~ p.confirming /\ p.restarting = restartPage.restarting
        /\ p.dropped = restartPage.dropped /\ p.since = restartPage.since
    BY <1>3 DEF RestartPages
  <2>2. /\ RestartPageBecomes(p, sse, pendingRead) /\ restart' = restart
        /\ restartAsked' = restartAsked
    BY <1>3 DEF CancelRestart, deviceSideVars
  <2> HIDE DEF p
  <2> QED
    BY <1>1, <2>1, <2>2
<1>4. CASE ConfirmRestart
  <2> DEFINE p == [restartPage EXCEPT !.confirming = FALSE, !.restarting = TRUE,
                                      !.since = FALSE]
  <2>1. p \in RestartPages /\ ~ p.confirming /\ p.restarting /\ ~ p.dropped
    BY <1>4 DEF ConfirmRestart, RestartPages
  <2>2. /\ RestartPageBecomes(p, sse, pendingRead) /\ restart' = restart
        /\ restartAsked' = "sent"
    BY <1>4 DEF ConfirmRestart, deviceSideVars
  <2> HIDE DEF p
  <2> QED
    BY <1>1, <2>1, <2>2
<1>5. CASE RestartAnswered
  <2> DEFINE p == IF restartAsked = "ok" THEN restartPage
                  ELSE [restartPage EXCEPT !.restarting = FALSE]
  <2>1. /\ p \in RestartPages /\ p.confirming = restartPage.confirming
        /\ p.restarting = (restartPage.restarting /\ restartAsked = "ok")
        /\ p.dropped = restartPage.dropped /\ p.since = restartPage.since
    BY DEF RestartPages
  <2>2. /\ RestartPageBecomes(p, sse, pendingRead) /\ restart' = restart
        /\ restartAsked' = "none" /\ restartAsked \in {"ok", "failed"}
    BY <1>5 DEF RestartAnswered, deviceSideVars
  <2> HIDE DEF p
  <2> QED
    BY <1>1, <2>1, <2>2
<1>6. CASE GoDown
  <2> DEFINE heard == IF sse = "connected" THEN "silent" ELSE sse
  <2>1. /\ RestartPageBecomes(restartPage, heard, pendingRead)
        /\ restart' = "down" /\ restartAsked' = restartAsked
    BY <1>6 DEF GoDown
  <2>2. heard # "connected"
    OBVIOUS
  <2> HIDE DEF heard
  <2> QED
    BY <1>1, <2>1, <2>2
<1>7. CASE StreamFails
  <2>1. /\ RestartPageBecomes(restartPage, "error", pendingRead)
        /\ restart' = restart /\ restartAsked' = restartAsked
    BY <1>7 DEF StreamFails, deviceSideVars
  <2> QED
    BY <1>1, <2>1
<1>8. CASE StreamIsBack
  <2>1. /\ RestartPageBecomes(restartPage, "connected", pendingRead) /\ sse = "error"
        /\ restart' = restart /\ restart # "down" /\ restartAsked' = restartAsked
    BY <1>8 DEF StreamIsBack, deviceSideVars
  <2> QED
    BY <1>1, <2>1
<1>9. ASSUME NEW s \in Subjects, ReadEnds(s)
      PROVE  RestartOK'
  <2>1. PICK read : /\ RestartPageBecomes(restartPage, sse, read)
                    /\ restart' = restart /\ restartAsked' = restartAsked
    BY <1>9 DEF ReadEnds, deviceSideVars
  <2> QED
    BY <1>1, <2>1
<1>10. CASE HandleRestart \/ LoseRestart \/ ComeUp
  BY <1>10 DEF HandleRestart, LoseRestart, ComeUp, deviceSideVars
<1>11. CASE UNCHANGED <<restart, sse, restartPage, restartAsked>>
  BY <1>11
<1>12. SavedElsewhere \/ (\E s \in Subjects : ReadAgain(s) \/ ServeRead(s) \/ ReadFails(s))
         \/ UNCHANGED restartPageVars
       => UNCHANGED <<restart, sse, restartPage, restartAsked>>
  BY DEF SavedElsewhere, ReadAgain, ServeRead, ReadFails, restartPageVars, deviceSideVars
<1> QED
  BY <1>2, <1>3, <1>4, <1>5, <1>6, <1>7, <1>8, <1>9, <1>10, <1>11, <1>12 DEF RestartPageNext

LEMMA RestartIsTrue == RestartOK => RestartingIsTrue
  BY DEF RestartOK, RestartingIsTrue

-----------------------------------------------------------------------------
(* The editor without a device: the titles under way are those of the list *)
(* on the page, and the id on the page is of the document asked about,     *)
(* unless another arrived over it.                                         *)
StandaloneOK ==
  /\ \A a \in arriving :
       a.what = "title" /\ repoBrowser.listed # NoRepo => a.repo = repoBrowser.listed
  /\ Confirming /\ ~ overtaken => idText \in {openedDoc.path, TypedId, NoId}
  /\ OpenedAsAsked

(* One list at most is under way, while none is on the page; what has come *)
(* of titles is of the list, but for the strays.                           *)
PickerOK ==
  /\ \A a \in arriving : a.what = "list" => a.mine /\ repoBrowser.listed = NoRepo
  /\ \A a, b \in arriving : a.what = "list" /\ b.what = "list" => a = b
  /\ TitlesAreOfTheList

BrowserRecords ==
  [typed : Repos \cup {OwnRepo}, listed : Repos \cup {OwnRepo, NoRepo},
   titles : [Paths -> Repos \cup {OwnRepo, NoRepo}], strays : SUBSET (Paths \cup {NoId})]
Arrivals ==
  [what : {"list", "title", "file", "local"}, repo : Repos \cup {OwnRepo, NoRepo},
   path : Paths \cup {NoId}, mine : BOOLEAN]

StandaloneTyped ==
  /\ repoBrowser \in BrowserRecords /\ arriving \subseteq Arrivals
  /\ \A a \in arriving : a.what = "list" => a.repo \in Repos \cup {OwnRepo}

LEMMA StandaloneStarts == StandaloneInit => StandaloneTyped /\ StandaloneOK /\ PickerOK
  BY DEF StandaloneInit, StandaloneTyped, StandaloneOK, PickerOK, BrowserRecords,
         EmptyRepoBrowser, NoTitles, OpenedAsAsked, TitlesAreOfTheList, Confirming

LEMMA StandaloneTypedKeeps ==
  StandaloneTyped /\ [StandaloneNext]_standaloneVars => StandaloneTyped'
<1> SUFFICES ASSUME StandaloneTyped, [StandaloneNext]_standaloneVars
             PROVE  StandaloneTyped'
  OBVIOUS
<1> USE DEF StandaloneTyped
<1>1. ASSUME NEW repo \in Repos, TypeRepo(repo)
      PROVE  StandaloneTyped'
  BY <1>1 DEF TypeRepo, BrowserRecords
<1>2. ASSUME NEW what \in {"list", "title", "file", "local"},
             NEW repo \in Repos \cup {OwnRepo, NoRepo}, NEW path \in Paths \cup {NoId}
      PROVE  /\ Arrival(what, repo, path) \in Arrivals
             /\ Arrival(what, repo, path).what = what /\ Arrival(what, repo, path).repo = repo
  BY DEF Arrival, Arrivals
<1>3. CASE Browse
  <2>1. /\ repoBrowser.typed \in Repos \cup {OwnRepo}
        /\ arriving' = arriving \cup {Arrival("list", repoBrowser.typed, NoId)}
    BY <1>3 DEF Browse, AskFor, BrowserRecords
  <2>2. repoBrowser' \in BrowserRecords
    BY <1>3 DEF Browse, NoTitles, BrowserRecords
  <2> QED
    BY <1>2, <2>1, <2>2
<1>4. ASSUME NEW document, NEW arrivals \in SUBSET arriving, OpensDocument(document, arrivals)
      PROVE  StandaloneTyped'
  <2>1. EmptyRepoBrowser \in BrowserRecords
    BY DEF EmptyRepoBrowser, BrowserRecords, NoTitles
  <2>2. Unmounted(arrivals) \subseteq Arrivals
    BY DEF Unmounted, Arrivals
  <2>3. \A a \in Unmounted(arrivals) : a.what # "list"
    BY DEF Unmounted, Arrivals
  <2>4. /\ repoBrowser' \in {repoBrowser, EmptyRepoBrowser}
        /\ arriving' \in {arrivals, Unmounted(arrivals)}
    BY <1>4 DEF OpensDocument
  <2> QED
    BY <2>1, <2>2, <2>3, <2>4
<1>10. ASSUME NEW a \in arriving, ListArrives(a)
      PROVE  StandaloneTyped'
  <2>1. a.repo \in Repos \cup {OwnRepo}
    BY <1>10 DEF ListArrives
  <2>2. /\ LoadTitles(a.repo) \subseteq Arrivals
        /\ \A b \in LoadTitles(a.repo) : b.what = "list" => b \in arriving
    BY <1>2, <2>1 DEF LoadTitles
  <2>3. [repoBrowser EXCEPT !.listed = a.repo] \in BrowserRecords
    BY <2>1 DEF BrowserRecords
  <2>4. /\ repoBrowser' \in {repoBrowser, [repoBrowser EXCEPT !.listed = a.repo]}
        /\ arriving' \in {LoadTitles(a.repo) \ {a}, arriving \ {a}}
    BY <1>10 DEF ListArrives
  <2> QED
    BY <2>2, <2>3, <2>4
<1>5. ASSUME NEW a \in arriving, TitleArrives(a)
      PROVE  StandaloneTyped'
  <2> DEFINE strays == IF repoBrowser.listed = NoRepo
                       THEN repoBrowser.strays \cup {a.path}
                       ELSE repoBrowser.strays \ {a.path}
             next == [repoBrowser EXCEPT !.titles[a.path] = a.repo, !.strays = strays]
  <2>0. a.repo \in Repos \cup {OwnRepo, NoRepo} /\ a.path \in Paths \cup {NoId}
    BY DEF Arrivals
  <2>3. strays \in SUBSET (Paths \cup {NoId})
    BY <2>0 DEF BrowserRecords
  <2>1. next \in BrowserRecords
    <3> HIDE DEF strays
    <3> QED
      BY <2>0, <2>3 DEF BrowserRecords
  <2>2. repoBrowser' \in BrowserRecords /\ arriving' = arriving \ {a}
    BY <1>5, <2>1 DEF TitleArrives
  <2> QED
    BY <2>2
<1>6. ASSUME NEW a \in arriving, FileArrives(a)
      PROVE  StandaloneTyped'
  <2>1. CASE \E ok \in BOOLEAN : OpensDocument(Document(a.repo, a.path, ok), arriving \ {a})
    BY <1>4, <2>1
  <2>2. CASE arriving' = arriving \ {a} /\ repoBrowser' = repoBrowser
    BY <2>2
  <2> QED
    BY <1>6, <2>1, <2>2, Zenon DEF FileArrives
<1>7. ASSUME NEW path \in Paths, OpenFromRepo(path)
      PROVE  StandaloneTyped'
  <2>1. /\ repoBrowser.listed \in Repos \cup {OwnRepo, NoRepo}
        /\ arriving' = arriving \cup {Arrival("file", repoBrowser.listed, path)}
        /\ repoBrowser' = repoBrowser
    BY <1>7 DEF OpenFromRepo, AskFor, BrowserRecords
  <2> QED
    BY <1>2, <2>1
<1>8. ASSUME NEW path \in Paths \cup {NoId}, OpenLocalFile(path)
      PROVE  StandaloneTyped'
  <2>1. /\ arriving' = arriving \cup {Arrival("local", NoRepo, path)}
        /\ repoBrowser' = repoBrowser
    BY <1>8 DEF OpenLocalFile, AskFor
  <2> QED
    BY <1>2, <2>1
<1>9. CASE UNCHANGED <<repoBrowser, arriving>>
  BY <1>9
<1>12. CASE StartNew
  BY <1>4, <1>12 DEF StartNew
<1>11. (\/ BackToPicker \/ OpenInEditor \/ CloseStandalone
        \/ (\E id \in {NoId, TypedId} : TypeId(id)) \/ UNCHANGED standaloneVars)
       => UNCHANGED <<repoBrowser, arriving>>
  BY DEF BackToPicker, OpenInEditor, CloseStandalone, TypeId, standaloneVars
<1> QED
  BY <1>1, <1>3, <1>5, <1>6, <1>7, <1>8, <1>9, <1>10, <1>11, <1>12, Zenon DEF StandaloneNext

(* A document opens: over the picker, over a question, behind the editor.  *)
LEMMA DocumentOpens ==
  ASSUME NEW document, NEW arrivals \in SUBSET arriving,
         StandaloneOK, OpensDocument(document, arrivals)
  PROVE  StandaloneOK'
<1> USE DEF StandaloneOK
<1>1. CASE PickerShown
  <2>1. /\ repoBrowser' = EmptyRepoBrowser /\ openedDoc' = document
        /\ idText' = document.path /\ editorTarget' = NoTarget
    BY <1>1 DEF OpensDocument, IdOfMount, PickerShown
  <2>2. repoBrowser'.listed = NoRepo
    BY <2>1 DEF EmptyRepoBrowser
  <2> QED
    BY <2>1, <2>2, Zenon DEF Confirming, OpenedAsAsked
<1>2. CASE ~ PickerShown
  <2>1. /\ openedDoc' = document /\ arriving' = arrivals /\ repoBrowser' = repoBrowser
        /\ overtaken' = (overtaken \/ editorTarget = NoTarget)
        /\ editorTarget' = editorTarget
    BY <1>2, Zenon DEF OpensDocument
  <2> QED
    BY <2>1, Zenon DEF Confirming, OpenedAsAsked
<1> QED
  BY <1>1, <1>2

LEMMA StandaloneKeeps ==
  StandaloneTyped /\ StandaloneOK /\ [StandaloneNext]_standaloneVars => StandaloneOK'
<1> SUFFICES ASSUME StandaloneTyped, StandaloneOK, [StandaloneNext]_standaloneVars
             PROVE  StandaloneOK'
  OBVIOUS
<1> USE DEF StandaloneOK
<1>1. CASE UNCHANGED <<openedDoc, idText, editorTarget, overtaken>>
  <2>1. (Confirming /\ ~ overtaken => idText \in {openedDoc.path, TypedId, NoId})'
    BY <1>1 DEF Confirming
  <2>2. OpenedAsAsked'
    BY <1>1 DEF OpenedAsAsked
  <2> DEFINE Titled == \A a \in arriving :
               a.what = "title" /\ repoBrowser.listed # NoRepo => a.repo = repoBrowser.listed
  <2>3. ASSUME NEW repo, TypeRepo(repo)
        PROVE  Titled'
    BY <2>3 DEF TypeRepo, StandaloneTyped, BrowserRecords
  <2>4. ASSUME Browse
        PROVE  Titled'
    <3>1. repoBrowser'.listed = NoRepo
      BY <2>4 DEF Browse, StandaloneTyped, BrowserRecords
    <3> QED
      BY <3>1, Zenon
  <2>5. ASSUME NEW a \in arriving, ListArrives(a)
        PROVE  Titled'
    <3>1. CASE /\ repoBrowser' = [repoBrowser EXCEPT !.listed = a.repo]
               /\ arriving' = LoadTitles(a.repo) \ {a}
      BY <3>1 DEF LoadTitles, Arrival, StandaloneTyped, BrowserRecords
    <3>2. CASE arriving' = arriving \ {a} /\ repoBrowser' = repoBrowser
      BY <3>2
    <3> QED
      BY <2>5, <3>1, <3>2, Zenon DEF ListArrives
  <2>6. ASSUME NEW a \in arriving, TitleArrives(a)
        PROVE  Titled'
    <3>2. repoBrowser'.listed = repoBrowser.listed /\ arriving' = arriving \ {a}
      BY <2>6 DEF TitleArrives, StandaloneTyped, BrowserRecords
    <3> QED
      BY <3>2
  <2>7. ASSUME NEW path, OpenFromRepo(path) \/ OpenLocalFile(path)
        PROVE  Titled'
    BY <2>7 DEF OpenFromRepo, OpenLocalFile, AskFor, Arrival
  <2>8. ASSUME NEW a \in arriving, arriving' = arriving \ {a}, repoBrowser' = repoBrowser
        PROVE  Titled'
    BY <2>8
  <2>9. ASSUME UNCHANGED <<repoBrowser, arriving>>
        PROVE  Titled'
    BY <2>9
  <2> HIDE DEF Titled
  <2>10. CASE Titled'
    BY <2>1, <2>2, <2>10, Zenon DEF Titled
  <2>11. CASE StartNew
    <3>1. OpensDocument(NewDocument, arriving)
      BY <2>11 DEF StartNew
    <3> QED
      BY <3>1, DocumentOpens
  <2>12. ASSUME NEW a \in arriving, FileArrives(a)
         PROVE  StandaloneOK'
    <3>1. CASE \E ok \in BOOLEAN : OpensDocument(Document(a.repo, a.path, ok), arriving \ {a})
      BY <3>1, DocumentOpens
    <3>2. CASE arriving' = arriving \ {a} /\ repoBrowser' = repoBrowser
      BY <2>8, <2>10, <3>2
    <3> QED
      BY <2>12, <3>1, <3>2, Zenon DEF FileArrives
  <2>13. (\/ BackToPicker \/ OpenInEditor \/ CloseStandalone
          \/ (\E id \in {NoId, TypedId} : TypeId(id)) \/ UNCHANGED standaloneVars)
         => UNCHANGED <<repoBrowser, arriving>>
    BY DEF BackToPicker, OpenInEditor, CloseStandalone, TypeId, standaloneVars
  <2> QED
    BY <2>3, <2>4, <2>5, <2>6, <2>7, <2>9, <2>10, <2>11, <2>12, <2>13, Zenon DEF StandaloneNext
<1>2. ASSUME NEW id \in {NoId, TypedId}, TypeId(id)
      PROVE  StandaloneOK'
  <2>1. /\ repoBrowser' = repoBrowser /\ arriving' = arriving /\ openedDoc' = openedDoc
        /\ editorTarget' = editorTarget /\ overtaken' = overtaken /\ idText' \in {NoId, TypedId}
    BY <1>2 DEF TypeId
  <2> QED
    BY <2>1, Zenon DEF OpenedAsAsked
<1>3. CASE BackToPicker \/ CloseStandalone
  <2>1. /\ repoBrowser' = repoBrowser /\ arriving' = arriving /\ openedDoc' = NotOpened
        /\ editorTarget' = NoTarget
    BY <1>3 DEF BackToPicker, CloseStandalone, Confirming
  <2> QED
    BY <2>1, Zenon DEF Confirming, OpenedAsAsked
<1>4. CASE OpenInEditor
  <2>1. /\ repoBrowser' = repoBrowser /\ arriving' = arriving /\ openedDoc' = openedDoc
        /\ overtaken' = overtaken /\ idText' = idText
        /\ editorTarget' = [id |-> idText, document |-> openedDoc]
        /\ Confirming /\ openedDoc.ok /\ idText # NoId
    BY <1>4 DEF OpenInEditor
  <2>2. editorTarget'.id = idText /\ editorTarget'.document = openedDoc
    BY <2>1
  <2>3. OpenedAsAsked'
    BY <2>1, <2>2, Zenon DEF OpenedAsAsked
  <2>4. (Confirming /\ ~ overtaken => idText \in {openedDoc.path, TypedId, NoId})'
    BY <2>1, Zenon
  <2> QED
    BY <2>1, <2>3, <2>4, Zenon
<1>5. CASE StartNew
  <2>1. OpensDocument(NewDocument, arriving)
    BY <1>5 DEF StartNew
  <2> QED
    BY <2>1, DocumentOpens
<1>6. ASSUME NEW a \in arriving, FileArrives(a)
      PROVE  StandaloneOK'
  <2>1. CASE \E ok \in BOOLEAN : OpensDocument(Document(a.repo, a.path, ok), arriving \ {a})
    BY <2>1, DocumentOpens
  <2>2. CASE UNCHANGED <<openedDoc, idText, editorTarget, overtaken>>
    BY <1>1, <2>2
  <2> QED
    BY <1>6, <2>1, <2>2, Zenon DEF FileArrives
<1>7. (\/ (\E repo \in Repos : TypeRepo(repo)) \/ Browse
       \/ (\E a \in arriving : ListArrives(a) \/ TitleArrives(a))
       \/ (\E path \in Paths : OpenFromRepo(path))
       \/ (\E path \in Paths \cup {NoId} : OpenLocalFile(path))
       \/ UNCHANGED standaloneVars)
      => UNCHANGED <<openedDoc, idText, editorTarget, overtaken>>
  BY DEF TypeRepo, Browse, ListArrives, TitleArrives, OpenFromRepo, OpenLocalFile,
         AskFor, standaloneVars
<1> QED
  BY <1>1, <1>2, <1>3, <1>4, <1>5, <1>6, <1>7, Zenon DEF StandaloneNext

(* The picker goes, or never was there: no list and no title is left of it.*)
LEMMA PickerGoes ==
  ASSUME NEW document, NEW arrivals \in SUBSET arriving, StandaloneTyped,
         PickerOK, OpensDocument(document, arrivals)
  PROVE  PickerOK'
<1>1. CASE PickerShown
  <2>1. repoBrowser' = EmptyRepoBrowser /\ arriving' = Unmounted(arrivals)
    BY <1>1 DEF OpensDocument
  <2>2. \A a \in arriving' : a.what # "list"
    BY <2>1 DEF Unmounted, StandaloneTyped, Arrivals
  <2>3. TitlesAreOfTheList'
    BY <2>1 DEF TitlesAreOfTheList, EmptyRepoBrowser, NoTitles
  <2> QED
    BY <2>2, <2>3 DEF PickerOK
<1>2. CASE ~ PickerShown
  <2>1. repoBrowser' = repoBrowser /\ arriving' = arrivals
    BY <1>2 DEF OpensDocument
  <2> QED
    BY <2>1 DEF PickerOK, TitlesAreOfTheList
<1> QED
  BY <1>1, <1>2

(* What else is asked for, or arrives, is no list and leaves the picker.   *)
LEMMA PickerStays ==
  ASSUME PickerOK, repoBrowser' = repoBrowser,
         \A a \in arriving' : a \in arriving \/ a.what # "list"
  PROVE  PickerOK'
  BY DEF PickerOK, TitlesAreOfTheList

(* Only the list's own titles come into it while it is on the page, and it *)
(* comes while there are none but strays.                                  *)
LEMMA PickerKeeps ==
  StandaloneTyped /\ StandaloneOK /\ PickerOK /\ [StandaloneNext]_standaloneVars => PickerOK'
<1> SUFFICES ASSUME StandaloneTyped, StandaloneOK, PickerOK, [StandaloneNext]_standaloneVars
             PROVE  PickerOK'
  OBVIOUS
<1>0. repoBrowser \in BrowserRecords
  BY DEF StandaloneTyped
<1>1. ASSUME NEW repo \in Repos, TypeRepo(repo)
      PROVE  PickerOK'
  <2>1. /\ arriving' = arriving /\ repoBrowser'.listed = repoBrowser.listed
        /\ repoBrowser'.titles = repoBrowser.titles
        /\ repoBrowser'.strays = repoBrowser.strays
    BY <1>0, <1>1 DEF TypeRepo, BrowserRecords
  <2> QED
    BY <2>1 DEF PickerOK, TitlesAreOfTheList
<1>2. CASE Browse
  <2>1. /\ repoBrowser'.listed = NoRepo /\ repoBrowser'.titles = NoTitles
        /\ \A a \in arriving : a.what # "list"
    BY <1>0, <1>2 DEF Browse, BusyBrowsing, BrowserRecords, PickerOK
  <2> DEFINE a == Arrival("list", repoBrowser.typed, NoId)
  <2>2. arriving' = arriving \cup {a}
    BY <1>2 DEF Browse, AskFor
  <2>7. a.mine
    BY DEF Arrival
  <2> HIDE DEF a
  <2>3. TitlesAreOfTheList'
    BY <2>1 DEF TitlesAreOfTheList, NoTitles
  <2>4. \A b \in arriving' : b.what = "list" => b = a
    BY <2>1, <2>2
  <2>5. \A b, c \in arriving' : b.what = "list" /\ c.what = "list" => b = c
    BY <2>4
  <2>6. \A b \in arriving' : b.what = "list" => b.mine /\ repoBrowser'.listed = NoRepo
    BY <2>1, <2>4, <2>7
  <2> QED
    BY <2>3, <2>5, <2>6 DEF PickerOK
<1>3. ASSUME NEW a \in arriving, ListArrives(a)
      PROVE  PickerOK'
  <2>1. /\ a.what = "list" /\ repoBrowser.listed = NoRepo
        /\ \A b \in arriving \ {a} : b.what # "list"
    BY <1>3 DEF ListArrives, PickerOK
  <2>2. CASE arriving' = arriving \ {a} /\ repoBrowser' = repoBrowser
    BY <2>2, PickerStays
  <2>3. CASE /\ repoBrowser' = [repoBrowser EXCEPT !.listed = a.repo]
             /\ arriving' = LoadTitles(a.repo) \ {a}
    <3>1. \A b \in arriving' : b.what # "list"
      BY <2>1, <2>3 DEF LoadTitles, Arrival
    <3>2. /\ repoBrowser'.titles = repoBrowser.titles
          /\ repoBrowser'.strays = repoBrowser.strays
      BY <1>0, <2>3 DEF BrowserRecords
    <3>3. TitlesAreOfTheList'
      BY <2>1, <3>2 DEF PickerOK, TitlesAreOfTheList
    <3> QED
      BY <3>1, <3>3 DEF PickerOK
  <2> QED
    BY <1>3, <2>2, <2>3 DEF ListArrives
<1>4. ASSUME NEW a \in arriving, TitleArrives(a)
      PROVE  PickerOK'
  <2>1. a.what = "title" /\ arriving' = arriving \ {a}
    BY <1>4 DEF TitleArrives
  <2>2. CASE repoBrowser' = repoBrowser
    BY <2>1, <2>2, PickerStays
  <2>3. CASE repoBrowser' # repoBrowser
    <3>1. /\ repoBrowser'.listed = repoBrowser.listed
          /\ repoBrowser'.titles = [repoBrowser.titles EXCEPT ![a.path] = a.repo]
          /\ repoBrowser'.strays = IF repoBrowser.listed = NoRepo
                                   THEN repoBrowser.strays \cup {a.path}
                                   ELSE repoBrowser.strays \ {a.path}
      BY <1>0, <1>4, <2>3 DEF TitleArrives, BrowserRecords
    <3>2. \A p \in Paths : p # a.path => repoBrowser'.titles[p] = repoBrowser.titles[p]
      BY <1>0, <3>1 DEF BrowserRecords
    <3>3. TitlesAreOfTheList'
      <4>1. CASE repoBrowser.listed = NoRepo
        BY <3>1, <3>2, <4>1 DEF PickerOK, TitlesAreOfTheList
      <4>2. CASE repoBrowser.listed # NoRepo
        <5>1. a.repo = repoBrowser.listed
          BY <2>1, <4>2 DEF StandaloneOK
        <5>2. \A p \in Paths : p = a.path => repoBrowser'.titles[p] = a.repo
          BY <1>0, <3>1 DEF BrowserRecords
        <5> QED
          BY <3>1, <3>2, <4>2, <5>1, <5>2 DEF PickerOK, TitlesAreOfTheList
      <4> QED
        BY <4>1, <4>2
    <3> QED
      BY <2>1, <3>1, <3>3 DEF PickerOK
  <2> QED
    BY <2>2, <2>3
<1>5. ASSUME NEW a \in arriving, FileArrives(a)
      PROVE  PickerOK'
  <2>1. CASE \E ok \in BOOLEAN : OpensDocument(Document(a.repo, a.path, ok), arriving \ {a})
    BY <2>1, PickerGoes
  <2>2. CASE arriving' = arriving \ {a} /\ repoBrowser' = repoBrowser
    BY <2>2, PickerStays
  <2> QED
    BY <1>5, <2>1, <2>2, Zenon DEF FileArrives
<1>6. ASSUME NEW path, OpenFromRepo(path) \/ OpenLocalFile(path)
      PROVE  PickerOK'
  <2>1. /\ repoBrowser' = repoBrowser
        /\ \A a \in arriving' : a \in arriving \/ a.what # "list"
    BY <1>6 DEF OpenFromRepo, OpenLocalFile, AskFor, Arrival
  <2> QED
    BY <2>1, PickerStays
<1>7. CASE StartNew
  BY <1>7, PickerGoes DEF StartNew
<1>8. CASE UNCHANGED <<repoBrowser, arriving>>
  BY <1>8, PickerStays
<1>9. (\/ BackToPicker \/ OpenInEditor \/ CloseStandalone
       \/ (\E id \in {NoId, TypedId} : TypeId(id)) \/ UNCHANGED standaloneVars)
      => UNCHANGED <<repoBrowser, arriving>>
  BY DEF BackToPicker, OpenInEditor, CloseStandalone, TypeId, standaloneVars
<1> QED
  BY <1>1, <1>2, <1>3, <1>4, <1>5, <1>6, <1>7, <1>8, <1>9, Zenon DEF StandaloneNext

-----------------------------------------------------------------------------
(* The page that starts programs: what is drawn, what was pressed, and the *)
(* frames between the device's state and the cache.                        *)
Ids == Programs \cup {NoProgram}
RunPages == [shown : RunState, pick : [id : Ids, previous : Ids], countdown : BOOLEAN,
             armed : Ids, notice : Notices]
RunRequests == [op : {"load", "start", "stop", "reset", "unload", "skip"}, id : Ids,
                at : {"sent", "ok", "refused"}]

RunPageTyped ==
  /\ onDevice \in RunState /\ cached \in RunState /\ frames \in Seq(RunState)
  /\ page \in RunPages /\ requests \subseteq RunRequests

(* A countdown and its program go together, over a page without a pick.    *)
CountdownOK(p) ==
  /\ p.countdown <=> p.armed # NoProgram
  /\ p.countdown => p.pick = NoPick

PickOK == page.pick # NoPick => Loading(requests) \/ page.shown.program = page.pick.previous

(* The last frame on its way, or the cache, is what is on the device.      *)
FramesOK == stream = "up" => onDevice = IF frames = <<>> THEN cached ELSE Last(frames)

RunPageOK ==
  /\ CountdownOK(page) /\ page.armed \in {NoProgram, page.shown.program}
  /\ PickOK /\ FramesOK

LEMMA RunPageStarts == RunPageInit => RunPageTyped /\ RunPageOK
<1> SUFFICES ASSUME RunPageInit PROVE RunPageTyped /\ RunPageOK
  OBVIOUS
<1>1. Unloaded \in RunState /\ NoPick \in [id : Ids, previous : Ids]
  BY DEF Unloaded, RunState, NoPick, Ids
<1>2. RunPageTyped
  <2>1. /\ onDevice = Unloaded /\ cached = Unloaded /\ frames = <<>> /\ requests = {}
        /\ page = [shown |-> Unloaded, pick |-> NoPick, countdown |-> FALSE,
                   armed |-> NoProgram, notice |-> ""]
    BY DEF RunPageInit
  <2>2. page \in RunPages
    BY <1>1, <2>1 DEF RunPages, Ids, Notices
  <2>3. frames \in Seq(RunState)
    <3>1. <<>> \in Seq(RunState)
      OBVIOUS
    <3> QED
      BY <2>1, <3>1, Zenon
  <2>4. requests \subseteq RunRequests
    BY <2>1
  <2> QED
    BY <1>1, <2>1, <2>2, <2>3, <2>4, Zenon DEF RunPageTyped
<1>3. RunPageOK
  BY DEF RunPageInit, RunPageOK, CountdownOK, PickOK, FramesOK
<1> QED
  BY <1>2, <1>3

(* Drawing settles what drifted away, and says so.                         *)
LEMMA DrawnTells ==
  ASSUME NEW p \in RunPages, CountdownOK(p), NEW state \in RunState, NEW out,
         NEW q, q = Drawn(p, state, out)
  PROVE  /\ q \in RunPages /\ CountdownOK(q) /\ q.armed \in {NoProgram, q.shown.program}
         /\ q.pick # NoPick => Loading(out) \/ q.shown.program = q.pick.previous
         /\ q.armed # p.armed => q.notice = "not_started"
         /\ q.notice \in {p.notice, "not_started"}
<1> DEFINE answered == p.pick # NoPick /\ ~ Loading(out) /\ PickIsAnswered(p, state)
           drifted == p.armed # NoProgram /\ p.armed # state.program
<1>1. q = [shown |-> state,
           pick |-> IF answered THEN NoPick ELSE p.pick,
           countdown |-> p.countdown /\ ~ drifted,
           armed |-> IF drifted THEN NoProgram ELSE p.armed,
           notice |-> IF drifted THEN "not_started" ELSE p.notice]
  BY DEF Drawn
<1>2. /\ q.shown = state /\ q.pick = (IF answered THEN NoPick ELSE p.pick)
      /\ q.countdown = (p.countdown /\ ~ drifted)
      /\ q.armed = (IF drifted THEN NoProgram ELSE p.armed)
      /\ q.notice = (IF drifted THEN "not_started" ELSE p.notice)
  BY <1>1
<1>3. q \in RunPages
  <2>1. NoPick \in [id : Ids, previous : Ids] /\ NoProgram \in Ids /\ "not_started" \in Notices
    BY DEF NoPick, Ids, Notices
  <2>2. /\ p.pick \in [id : Ids, previous : Ids] /\ p.armed \in Ids /\ p.notice \in Notices
        /\ p.countdown \in BOOLEAN
    BY DEF RunPages
  <2> HIDE DEF answered, drifted
  <2>3. /\ (IF answered THEN NoPick ELSE p.pick) \in [id : Ids, previous : Ids]
        /\ (IF drifted THEN NoProgram ELSE p.armed) \in Ids
        /\ (IF drifted THEN "not_started" ELSE p.notice) \in Notices
        /\ (p.countdown /\ ~ drifted) \in BOOLEAN
    BY <2>1, <2>2, Zenon
  <2> QED
    BY <1>1, <2>3 DEF RunPages
<1>4. CountdownOK(q) /\ q.armed \in {NoProgram, q.shown.program}
  BY <1>2 DEF CountdownOK
<1>5. q.pick # NoPick => Loading(out) \/ q.shown.program = q.pick.previous
  BY <1>2 DEF PickIsAnswered
<1>6. q.armed # p.armed => q.notice = "not_started"
  BY <1>2
<1>7. q.notice \in {p.notice, "not_started"}
  BY <1>2
<1> QED
  BY <1>3, <1>4, <1>5, <1>6, <1>7

(* An event of the page.                                                   *)
LEMMA PageMoves ==
  ASSUME RunPageTyped, RunPageOK, NEW p \in RunPages, CountdownOK(p),
         NEW out \in SUBSET RunRequests, Becomes(p, out)
  PROVE  RunPageTyped' /\ RunPageOK'
<1>1. /\ requests' = out /\ page' = Drawn(p, cached, out)
      /\ onDevice' = onDevice /\ stream' = stream /\ frames' = frames /\ cached' = cached
  BY DEF Becomes
<1>2. cached \in RunState
  BY DEF RunPageTyped
<1>3. /\ page' \in RunPages /\ CountdownOK(page')
      /\ page'.armed \in {NoProgram, page'.shown.program}
      /\ page'.pick # NoPick => Loading(out) \/ page'.shown.program = page'.pick.previous
  BY <1>1, <1>2, DrawnTells
<1>4. RunPageTyped'
  BY <1>1, <1>3 DEF RunPageTyped
<1>5. CountdownOK(page)' /\ PickOK' /\ (page.armed \in {NoProgram, page.shown.program})'
  BY <1>1, <1>3 DEF CountdownOK, PickOK, Loading
<1>6. FramesOK'
  BY <1>1 DEF RunPageOK, FramesOK
<1> QED
  BY <1>4, <1>5, <1>6 DEF RunPageOK

(* What an event of the page makes of it before it is drawn.               *)
Meant(r) ==
  /\ r.id = IF page.armed = NoProgram THEN page.shown.program ELSE page.armed
  /\ r.id = cached.program /\ stream # "down" /\ page.pick = NoPick

PageSteps ==
  \E p \in RunPages, out \in SUBSET RunRequests :
    /\ CountdownOK(p) /\ Becomes(p, out)
    /\ \A r \in out \ requests : r.op = "start" => Meant(r)
    /\ page.armed # NoProgram /\ p.armed # page.armed =>
         Request("start", page.armed) \in out \/ p.notice = "not_started" \/ CancelCountdown

LEMMA Requested ==
  ASSUME RunPageTyped, NEW kind \in {"load", "start", "stop", "reset", "unload", "skip"},
         NEW id \in Ids
  PROVE  /\ requests \cup {Request(kind, id)} \in SUBSET RunRequests
         /\ Request(kind, id).op = kind /\ Request(kind, id).id = id
  BY DEF RunPageTyped, RunRequests, Request

LEMMA PageShows ==
  ASSUME RunPageTyped, RunPageOK
  PROVE  /\ page \in RunPages /\ page.shown.program \in Ids /\ page.armed \in Ids
         /\ CountdownOK(page) /\ requests \in SUBSET RunRequests
  BY DEF RunPageTyped, RunPageOK, RunPages, RunState, Ids

LEMMA NoticeGiven ==
  ASSUME NEW p \in RunPages, CountdownOK(p), NEW notice \in Notices
  PROVE  /\ [p EXCEPT !.notice = notice] \in RunPages
         /\ CountdownOK([p EXCEPT !.notice = notice])
         /\ [p EXCEPT !.notice = notice].armed = p.armed
         /\ [p EXCEPT !.notice = notice].pick = p.pick
         /\ [p EXCEPT !.notice = notice].notice = notice
  BY DEF RunPages, CountdownOK

LEMMA Closed ==
  ASSUME RunPageTyped
  PROVE  CountdownClosed \in RunPages /\ CountdownOK(CountdownClosed)
  BY DEF RunPageTyped, RunPages, CountdownOK, CountdownClosed, Ids

(* One that leaves the countdown alone and asks for no start.              *)
LEMMA QuietSteps ==
  ASSUME RunPageTyped, RunPageOK, NEW p \in RunPages, CountdownOK(p), p.armed = page.armed,
         NEW out \in SUBSET RunRequests, Becomes(p, out),
         \A r \in out \ requests : r.op # "start"
  PROVE  PageSteps
<1>1. \A r \in out \ requests : r.op = "start" => Meant(r)
  OBVIOUS
<1> QED
  BY <1>1, Zenon DEF PageSteps

LEMMA ItAsks ==
  ASSUME RunPageTyped, RunPageOK, NEW p \in RunPages, CountdownOK(p), p.armed = page.armed,
         NEW kind \in {"load", "stop", "reset", "unload", "skip"}, NEW id \in Ids,
         Becomes(p, requests \cup {Request(kind, id)})
  PROVE  PageSteps
<1> DEFINE out == requests \cup {Request(kind, id)}
<1>1. out \in SUBSET RunRequests /\ \A r \in out \ requests : r.op # "start"
  BY Requested
<1> HIDE DEF out
<1>2. Becomes(p, out)
  BY DEF out
<1> QED
  BY <1>1, <1>2, QuietSteps

LEMMA StartAsked ==
  ASSUME RunPageTyped, RunPageOK, NEW p \in RunPages, CountdownOK(p), page.pick = NoPick,
         NEW id \in Ids, id = IF page.armed = NoProgram THEN page.shown.program ELSE page.armed,
         StartIfDeviceAgrees(id, p)
  PROVE  PageSteps
<1>0. requests \in SUBSET RunRequests
  BY DEF RunPageTyped
<1>1. CASE Refusal(id) /\ Becomes([p EXCEPT !.notice = "not_started"], requests)
  <2> DEFINE q == [p EXCEPT !.notice = "not_started"]
  <2>1. q \in RunPages /\ CountdownOK(q) /\ q.notice = "not_started"
    BY NoticeGiven DEF Notices
  <2>2. Becomes(q, requests)
    BY <1>1
  <2> HIDE DEF q
  <2> QED
    BY <1>0, <2>1, <2>2 DEF PageSteps
<1>2. CASE ~ Refusal(id) /\ Becomes(p, requests \cup {Request("start", id)})
  <2> DEFINE out == requests \cup {Request("start", id)}
  <2>1. /\ out \in SUBSET RunRequests /\ Request("start", id) \in out
        /\ \A r \in out \ requests : r.id = id
    BY Requested
  <2>2. id = cached.program /\ stream # "down"
    BY <1>2 DEF Refusal
  <2>3. \A r \in out \ requests : r.op = "start" => Meant(r)
    BY <2>1, <2>2 DEF Meant
  <2>4. page.armed # NoProgram => Request("start", page.armed) \in out
    BY <2>1
  <2> HIDE DEF out
  <2>5. Becomes(p, out)
    BY <1>2 DEF out
  <2> QED
    BY <2>1, <2>3, <2>4, <2>5, Zenon DEF PageSteps
<1> QED
  BY <1>1, <1>2, Zenon DEF StartIfDeviceAgrees

LEMMA PageEvents ==
  ASSUME RunPageTyped, RunPageOK,
         \/ \E id \in Programs : PickProgram(id)
         \/ PressStart \/ CountdownEnds \/ CancelCountdown
         \/ PressPause \/ PressReset \/ PressUnload \/ PickSeries \/ DrawPage
         \/ \E r \in requests : AnswerTaken(r)
  PROVE  PageSteps
<1>0. /\ page \in RunPages /\ page.shown.program \in Ids /\ page.armed \in Ids
      /\ CountdownOK(page) /\ requests \in SUBSET RunRequests
  BY PageShows
<1>1. ASSUME NEW id \in Programs, PickProgram(id)
      PROVE  PageSteps
  <2> DEFINE p == [page EXCEPT !.notice = "",
                          !.pick = [id |-> id, previous |-> page.shown.program]]
  <2>1. ~ page.countdown
    BY <1>1 DEF PickProgram, Reachable
  <2>2. p \in RunPages /\ CountdownOK(p) /\ p.armed = page.armed
    BY <1>0, <2>1 DEF RunPages, CountdownOK, Ids, Notices
  <2>3. Becomes(p, requests \cup {Request("load", id)})
    BY <1>1 DEF PickProgram
  <2>4. id \in Ids
    BY DEF Ids
  <2> HIDE DEF p
  <2> QED
    BY <2>2, <2>3, <2>4, ItAsks
<1>2. CASE PressStart
  <2>0. page.armed = NoProgram /\ page.shown.program # NoProgram /\ page.pick = NoPick
    BY <1>0, <1>2 DEF PressStart, ProgramConfirmed, Reachable, CountdownOK
  <2>1. CASE StartIfDeviceAgrees(page.shown.program, [page EXCEPT !.notice = ""])
    BY <1>0, <2>0, <2>1, StartAsked, NoticeGiven DEF Notices
  <2>2. CASE Becomes([page EXCEPT !.notice = "", !.countdown = TRUE,
                                  !.armed = page.shown.program], requests)
    <3>1. /\ [page EXCEPT !.notice = "", !.countdown = TRUE, !.armed = page.shown.program]
               \in RunPages
          /\ CountdownOK([page EXCEPT !.notice = "", !.countdown = TRUE,
                                      !.armed = page.shown.program])
      BY <1>0, <2>0 DEF RunPages, CountdownOK, Notices
    <3>2. \A r \in requests \ requests : r.op = "start" => Meant(r)
      OBVIOUS
    <3> QED
      BY <1>0, <2>0, <2>2, <3>1, <3>2, Zenon DEF PageSteps
  <2> QED
    BY <1>2, <2>1, <2>2 DEF PressStart
<1>3. CASE CountdownEnds
  <2>1. page.countdown /\ StartIfDeviceAgrees(page.armed, CountdownClosed)
    BY <1>3 DEF CountdownEnds
  <2>2. page.armed # NoProgram /\ page.pick = NoPick
    BY <1>0, <2>1 DEF CountdownOK
  <2> QED
    BY <1>0, <2>1, <2>2, Closed, StartAsked
<1>4. CASE CancelCountdown
  <2>1. Becomes(CountdownClosed, requests)
    BY <1>4 DEF CancelCountdown
  <2>2. \A r \in requests \ requests : r.op = "start" => Meant(r)
    OBVIOUS
  <2> QED
    BY <1>0, <1>4, <2>1, <2>2, Closed, Zenon DEF PageSteps
<1>5. NoProgram \in Ids
  BY DEF Ids
<1>6. CASE PressPause
  <2>1. Becomes(page, requests \cup {Request("stop", NoProgram)})
    BY <1>6 DEF PressPause
  <2> QED
    BY <1>0, <1>5, <2>1, ItAsks
<1>7. CASE PressReset
  <2>1. Becomes(page, requests \cup {Request("reset", NoProgram)})
    BY <1>7 DEF PressReset
  <2> QED
    BY <1>0, <1>5, <2>1, ItAsks
<1>8. CASE PressUnload
  <2>1. Becomes([page EXCEPT !.notice = ""], requests \cup {Request("unload", NoProgram)})
    BY <1>8 DEF PressUnload
  <2>2. /\ [page EXCEPT !.notice = ""] \in RunPages /\ CountdownOK([page EXCEPT !.notice = ""])
        /\ [page EXCEPT !.notice = ""].armed = page.armed
    BY <1>0, NoticeGiven DEF Notices
  <2> QED
    BY <1>5, <2>1, <2>2, ItAsks
<1>9. CASE PickSeries
  <2>1. Becomes(page, requests \cup {Request("skip", page.shown.program)})
    BY <1>9 DEF PickSeries
  <2> QED
    BY <1>0, <2>1, ItAsks
<1>10. CASE DrawPage
  BY <1>0, <1>10, QuietSteps DEF DrawPage
<1>11. ASSUME NEW r \in requests, AnswerTaken(r)
       PROVE  PageSteps
  <2>1. PICK p : /\ p \in {page, [page EXCEPT !.pick = NoPick, !.notice = "answer"],
                           [page EXCEPT !.notice = "answer"],
                           [page EXCEPT !.notice = IF page.notice = "" THEN "answer"
                                                   ELSE page.notice]}
                 /\ Becomes(p, requests \ {r})
    BY <1>11 DEF AnswerTaken
  <2>2. [page EXCEPT !.pick = NoPick, !.notice = "answer"] \in RunPages
    BY <1>0 DEF RunPages, NoPick, Ids, Notices
  <2>3. /\ CountdownOK([page EXCEPT !.pick = NoPick, !.notice = "answer"])
        /\ [page EXCEPT !.pick = NoPick, !.notice = "answer"].armed = page.armed
    BY <1>0 DEF RunPages, CountdownOK
  <2>4. p \in RunPages /\ CountdownOK(p) /\ p.armed = page.armed
    <3>1. "answer" \in Notices /\ (IF page.notice = "" THEN "answer" ELSE page.notice) \in Notices
      BY <1>0 DEF Notices, RunPages
    <3>2. ASSUME NEW notice \in Notices, p = [page EXCEPT !.notice = notice]
          PROVE  p \in RunPages /\ CountdownOK(p) /\ p.armed = page.armed
      BY <1>0, <3>2, NoticeGiven
    <3>3. p = page \/ p = [page EXCEPT !.pick = NoPick, !.notice = "answer"]
            \/ \E notice \in Notices : p = [page EXCEPT !.notice = notice]
      BY <2>1, <3>1, Zenon
    <3>4. CASE p = [page EXCEPT !.pick = NoPick, !.notice = "answer"]
      BY <2>2, <2>3, <3>4, Zenon
    <3> QED
      BY <1>0, <3>2, <3>3, <3>4, Zenon
  <2> QED
    BY <1>0, <2>1, <2>4, QuietSteps
<1> QED
  BY <1>1, <1>2, <1>3, <1>4, <1>6, <1>7, <1>8, <1>9, <1>10, <1>11

(* The frames: one more, the last one replaced, one taken.                 *)
LEMMA FramesSent ==
  ASSUME NEW S, NEW s \in Seq(S), NEW x \in S
  PROVE  /\ Append(s, x) \in Seq(S) /\ Append(s, x) # <<>> /\ Last(Append(s, x)) = x
         /\ s # <<>> => /\ Append(Front(s), x) \in Seq(S) /\ Append(Front(s), x) # <<>>
                        /\ Last(Append(Front(s), x)) = x
  BY DEF Last, Front

LEMMA FrameTaken ==
  ASSUME NEW S, NEW s \in Seq(S), s # <<>>
  PROVE  /\ Head(s) \in S /\ Tail(s) \in Seq(S)
         /\ Last(s) = IF Tail(s) = <<>> THEN Head(s) ELSE Last(Tail(s))
<1>1. /\ Head(s) \in S /\ Tail(s) \in Seq(S) /\ Len(Tail(s)) = Len(s) - 1
      /\ \A i \in 1 .. Len(Tail(s)) : Tail(s)[i] = s[i + 1]
  BY HeadTailProperties
<1>2. Tail(s) = <<>> <=> Len(Tail(s)) = 0
  BY <1>1, EmptySeq
<1>3. Len(s) \in Nat
  BY LenProperties
<1>4. CASE Len(s) = 1
  <2>1. Tail(s) = <<>>
    BY <1>1, <1>2, <1>4
  <2>2. Last(s) = Head(s)
    BY <1>4 DEF Last
  <2> QED
    BY <1>1, <2>1, <2>2
<1>5. CASE Len(s) # 1
  <2>1. Len(Tail(s)) \in Nat
    BY <1>1, LenProperties
  <2>2. Tail(s) # <<>> /\ Len(Tail(s)) \in 1 .. Len(Tail(s)) /\ Len(Tail(s)) + 1 = Len(s)
    BY <1>1, <1>2, <1>3, <1>5, <2>1
  <2>3. Last(Tail(s)) = Last(s)
    BY <1>1, <2>2 DEF Last
  <2> QED
    BY <1>1, <2>2, <2>3
<1> QED
  BY <1>4, <1>5

LEMMA Published ==
  ASSUME RunPageTyped, FramesOK, NEW state \in RunState, Publish(state),
         stream' = stream, cached' = cached
  PROVE  onDevice' \in RunState /\ frames' \in Seq(RunState) /\ FramesOK'
<1>1. frames \in Seq(RunState) /\ onDevice \in RunState /\ onDevice' = state
  BY DEF RunPageTyped, Publish
<1>2. CASE frames' = frames /\ (state = onDevice \/ stream # "up")
  BY <1>1, <1>2 DEF FramesOK
<1>3. CASE frames' = Append(frames, state)
  BY <1>1, <1>3, FramesSent DEF FramesOK
<1>4. CASE frames # <<>> /\ frames' = Append(Front(frames), state)
  BY <1>1, <1>4, FramesSent DEF FramesOK
<1> QED
  BY <1>2, <1>3, <1>4, Zenon DEF Publish

(* An answer leaves a load under way, which the page has to take yet.      *)
LEMMA RequestAnswered ==
  ASSUME RunPageTyped, NEW r \in requests, NEW at \in {"ok", "refused"}, Answer(r, at)
  PROVE  /\ requests' \subseteq RunRequests
         /\ Loading(requests) => Loading(requests')
         /\ \A q \in requests' : q.at = "sent" => q \in requests
<1>1. /\ r \in RunRequests /\ [r EXCEPT !.at = at] \in RunRequests
      /\ [r EXCEPT !.at = at].op = r.op /\ [r EXCEPT !.at = at].at = at
  BY DEF RunPageTyped, RunRequests
<1>2. \/ requests' = requests \ {r} /\ r.op \in {"stop", "reset"}
      \/ requests' = (requests \ {r}) \cup {[r EXCEPT !.at = at]}
  BY DEF Answer, Heeded
<1> QED
  BY <1>1, <1>2 DEF Loading, RunPageTyped

LEMMA RunPageKeeps ==
  RunPageTyped /\ RunPageOK /\ [RunPageNext]_runPageVars => RunPageTyped' /\ RunPageOK'
<1> SUFFICES ASSUME RunPageTyped, RunPageOK, [RunPageNext]_runPageVars
             PROVE  RunPageTyped' /\ RunPageOK'
  OBVIOUS
<1>1. CASE PageSteps
  BY <1>1, PageMoves DEF PageSteps
<1>2. ASSUME /\ page' = page /\ cached' \in RunState /\ onDevice' \in RunState
             /\ frames' \in Seq(RunState) /\ FramesOK'
             /\ requests' \subseteq RunRequests
             /\ Loading(requests) => Loading(requests')
      PROVE  RunPageTyped' /\ RunPageOK'
  <2>1. RunPageTyped'
    BY <1>2 DEF RunPageTyped
  <2>2. PickOK' /\ CountdownOK(page') /\ page'.armed \in {NoProgram, page'.shown.program}
    BY <1>2 DEF RunPageOK, PickOK
  <2> QED
    BY <1>2, <2>1, <2>2 DEF RunPageOK, CountdownOK
<1>3. /\ onDevice \in RunState /\ cached \in RunState /\ frames \in Seq(RunState)
      /\ requests \subseteq RunRequests /\ FramesOK
  BY DEF RunPageTyped, RunPageOK
<1>4. ASSUME NEW r \in requests, Handle(r)
      PROVE  RunPageTyped' /\ RunPageOK'
  <2>1. After(r) \in RunState
    <3>1. r.id \in Ids
      BY <1>3 DEF RunRequests
    <3> QED
      BY <1>3, <3>1 DEF After, Loaded, Unloaded, RunState, Ids
  <2>2. PICK state \in RunState : Publish(state)
    BY <1>3, <1>4, <2>1 DEF Handle
  <2>3. PICK at \in {"ok", "refused"} : Answer(r, at)
    BY <1>4 DEF Handle
  <2>4. stream' = stream /\ cached' = cached /\ page' = page
    BY <1>4 DEF Handle
  <2>5. onDevice' \in RunState /\ frames' \in Seq(RunState) /\ FramesOK'
    BY <1>3, <2>2, <2>4, Published
  <2>6. requests' \subseteq RunRequests /\ (Loading(requests) => Loading(requests'))
    BY <2>3, RequestAnswered
  <2> QED
    BY <1>2, <1>3, <2>4, <2>5, <2>6
<1>5. ASSUME NEW r \in requests, LoseRequest(r)
      PROVE  RunPageTyped' /\ RunPageOK'
  <2>1. /\ Answer(r, "refused") /\ onDevice' = onDevice /\ stream' = stream
        /\ frames' = frames /\ cached' = cached /\ page' = page
    BY <1>5 DEF LoseRequest
  <2>2. requests' \subseteq RunRequests /\ (Loading(requests) => Loading(requests'))
    BY <2>1, RequestAnswered
  <2>3. FramesOK'
    BY <1>3, <2>1 DEF FramesOK
  <2> QED
    BY <1>2, <1>3, <2>1, <2>2, <2>3
<1>6. CASE OthersAct
  <2>1. PICK state \in RunState : Publish(state)
    BY <1>6 DEF OthersAct
  <2>2. stream' = stream /\ cached' = cached /\ page' = page /\ requests' = requests
    BY <1>6 DEF OthersAct
  <2>3. onDevice' \in RunState /\ frames' \in Seq(RunState) /\ FramesOK'
    BY <1>3, <2>1, <2>2, Published
  <2> QED
    BY <1>2, <1>3, <2>2, <2>3
<1>7. CASE Deliver
  <2>1. /\ frames # <<>> /\ cached' = Head(frames) /\ frames' = Tail(frames)
        /\ onDevice' = onDevice /\ stream' = stream /\ page' = page /\ requests' = requests
    BY <1>7 DEF Deliver
  <2>2. /\ Head(frames) \in RunState /\ Tail(frames) \in Seq(RunState)
        /\ Last(frames) = IF Tail(frames) = <<>> THEN Head(frames) ELSE Last(Tail(frames))
    BY <1>3, <2>1, FrameTaken
  <2>3. FramesOK'
    BY <1>3, <2>1, <2>2 DEF FramesOK
  <2> QED
    BY <1>2, <1>3, <2>1, <2>2, <2>3
<1>8. CASE StreamBreaks
  <2>1. /\ stream' # "up" /\ frames' = <<>> /\ cached' = cached
        /\ onDevice' = onDevice /\ page' = page /\ requests' = requests
    BY <1>8 DEF StreamBreaks
  <2>2. FramesOK' /\ frames' \in Seq(RunState)
    BY <2>1 DEF FramesOK
  <2> QED
    BY <1>2, <1>3, <2>1, <2>2
<1>9. CASE StreamOpens
  <2>1. /\ frames' = <<onDevice>> /\ cached' = cached
        /\ onDevice' = onDevice /\ page' = page /\ requests' = requests
    BY <1>9 DEF StreamOpens
  <2>2. FramesOK' /\ frames' \in Seq(RunState)
    BY <1>3, <2>1 DEF FramesOK, Last
  <2> QED
    BY <1>2, <1>3, <2>1, <2>2
<1>10. CASE UNCHANGED runPageVars
  <2>1. FramesOK'
    BY <1>3, <1>10 DEF FramesOK, runPageVars
  <2> QED
    BY <1>2, <1>3, <1>10, <2>1 DEF runPageVars
<1> QED
  BY <1>1, <1>4, <1>5, <1>6, <1>7, <1>8, <1>9, <1>10, PageEvents DEF RunPageNext

LEMMA RunPageAgrees == RunPageOK => PageAgrees
<1> SUFFICES ASSUME RunPageOK PROVE PageAgrees
  OBVIOUS
<1>1. Quiet => page.shown = onDevice
  BY DEF RunPageOK, FramesOK, Quiet
<1>2. Quiet => ~ Loading(requests)
  BY DEF Quiet, Loading
<1> QED
  BY <1>1, <1>2 DEF RunPageOK, PickOK, CountdownOK, PageAgrees

(* A start goes out as it was meant, and a countdown does not just end.    *)
LEMMA StartsMeant ==
  ASSUME RunPageTyped, RunPageOK, [RunPageNext]_runPageVars
  PROVE  /\ \A r \in requests' \ requests : r.op = "start" /\ r.at = "sent" => Meant(r)
         /\ page.armed # NoProgram /\ page'.armed # page.armed =>
              \/ Request("start", page.armed) \in requests'
              \/ page'.notice = "not_started"
              \/ CancelCountdown
<1>1. CASE PageSteps
  <2>1. PICK p \in RunPages : \E out \in SUBSET RunRequests :
          /\ CountdownOK(p) /\ Becomes(p, out)
          /\ \A r \in out \ requests : r.op = "start" => Meant(r)
          /\ page.armed # NoProgram /\ p.armed # page.armed =>
               Request("start", page.armed) \in out \/ p.notice = "not_started" \/ CancelCountdown
    BY <1>1, Zenon DEF PageSteps
  <2>2. PICK out \in SUBSET RunRequests :
          /\ CountdownOK(p) /\ Becomes(p, out)
          /\ \A r \in out \ requests : r.op = "start" => Meant(r)
          /\ page.armed # NoProgram /\ p.armed # page.armed =>
               Request("start", page.armed) \in out \/ p.notice = "not_started" \/ CancelCountdown
    BY <2>1, Zenon
  <2>3. requests' = out /\ page' = Drawn(p, cached, out) /\ cached \in RunState
    BY <2>2 DEF Becomes, RunPageTyped
  <2>4. /\ page'.armed # p.armed => page'.notice = "not_started"
        /\ page'.notice \in {p.notice, "not_started"}
    BY <2>2, <2>3, DrawnTells
  <2> HIDE DEF Meant
  <2> QED
    BY <2>2, <2>3, <2>4, Zenon
<1>2. ASSUME page' = page, \A r \in requests' : r.at = "sent" => r \in requests
      PROVE  /\ \A r \in requests' \ requests : r.op = "start" /\ r.at = "sent" => Meant(r)
             /\ page'.armed = page.armed
  BY <1>2
<1>3. ASSUME NEW r \in requests, Handle(r) \/ LoseRequest(r)
      PROVE  page' = page /\ \A q \in requests' : q.at = "sent" => q \in requests
  <2>1. PICK at \in {"ok", "refused"} : Answer(r, at)
    BY <1>3 DEF Handle, LoseRequest
  <2>2. page' = page
    BY <1>3 DEF Handle, LoseRequest
  <2> QED
    BY <2>1, <2>2, RequestAnswered
<1>4. OthersAct \/ Deliver \/ StreamBreaks \/ StreamOpens \/ UNCHANGED runPageVars
      => page' = page /\ requests' = requests
  BY DEF OthersAct, Deliver, StreamBreaks, StreamOpens, runPageVars
<1> QED
  BY <1>1, <1>2, <1>3, <1>4, PageEvents DEF RunPageNext

-----------------------------------------------------------------------------
(* What the pages hold: a copy that is not marked old, or the answer that  *)
(* will become one, is what the device holds, or a notice of its kind is   *)
(* still on its way.                                                       *)
CacheKinds == {"program", "audio", "window"}
CacheNotices == [kind : CacheKinds, version : Int]
Asks == [at : {"idle", "asked", "answered"}, version : Int]

PageCachesTyped ==
  /\ held \in [QueryKeys -> Int] /\ copy \in [QueryKeys -> Int]
  /\ due \in [QueryKeys -> BOOLEAN] /\ ask \in [QueryKeys -> Asks]
  /\ notices \in Seq(CacheNotices)

Announces(ns, kind) == \E i \in 1 .. Len(ns) : ns[i].kind = kind

(* The last notice of the window is of how it is.                          *)
LastIsTrue(ns, version) ==
  \A i \in 1 .. Len(ns) : ns[i].kind = "window" =>
    ns[i].version = version \/ \E j \in i + 1 .. Len(ns) : ns[j].kind = "window"

(* Whether changes of k are told, or no page can have missed one yet.      *)
Follows(k) == link = "up" \/ (~ opened /\ k # "window")

CopyOK(k) ==
  Follows(k) /\ k \notin outrun =>
    /\ ask[k] = Idle /\ copy[k] # Nothing /\ ~ due[k] =>
         copy[k] = held[k] \/ Announces(notices, KindOf(k))
    /\ ask[k].at = "answered" =>
         ask[k].version = held[k] \/ Announces(notices, KindOf(k))

ListenOK ==
  /\ link # "down" => opened
  /\ link # "up" => notices = <<>>
  /\ LastIsTrue(notices, held["window"])

PageCachesOK == ListenOK /\ \A k \in QueryKeys : CopyOK(k)

LEMMA KindsOfKeys ==
  ASSUME NEW k \in QueryKeys
  PROVE  /\ KindOf(k) \in CacheKinds
         /\ \A kind \in CacheKinds \ {"window"} : k \in LibraryKeys(kind) <=> KindOf(k) = kind
         /\ KindOf(k) = "window" <=> k = "window"
<1>1. CASE k \in {"programs", "program"}
  BY <1>1 DEF KindOf, LibraryKeys, CacheKinds
<1>2. CASE k = "audios"
  BY <1>2 DEF KindOf, LibraryKeys, CacheKinds
<1>3. CASE k = "window"
  BY <1>3 DEF KindOf, LibraryKeys, CacheKinds
<1> QED
  BY <1>1, <1>2, <1>3 DEF QueryKeys

LEMMA NoticeSent ==
  ASSUME NEW ns \in Seq(CacheNotices), NEW n \in CacheNotices, NEW v, NEW w,
         LastIsTrue(ns, v), n.version = w, n.kind # "window" => w = v
  PROVE  /\ Append(ns, n) \in Seq(CacheNotices) /\ LastIsTrue(Append(ns, n), w)
         /\ Announces(Append(ns, n), n.kind)
         /\ \A kind : Announces(ns, kind) => Announces(Append(ns, n), kind)
<1> DEFINE ms == Append(ns, n)
<1>1. /\ ms \in Seq(CacheNotices) /\ Len(ns) \in Nat /\ Len(ms) = Len(ns) + 1
      /\ ms[Len(ns) + 1] = n /\ \A i \in 1 .. Len(ns) : ms[i] = ns[i]
  BY AppendProperties, LenProperties
<1> HIDE DEF ms
<1>2. \A i \in 1 .. Len(ms) : i \in 1 .. Len(ns) \/ i = Len(ns) + 1
  BY <1>1
<1>3. Len(ns) + 1 \in 1 .. Len(ms) /\ \A i \in 1 .. Len(ns) : i \in 1 .. Len(ms)
  BY <1>1
<1>4. Announces(ms, n.kind) /\ \A kind : Announces(ns, kind) => Announces(ms, kind)
  BY <1>1, <1>3 DEF Announces
<1>5. LastIsTrue(ms, w)
  <2> SUFFICES ASSUME NEW i \in 1 .. Len(ms), ms[i].kind = "window", ms[i].version # w
               PROVE  \E j \in i + 1 .. Len(ms) : ms[j].kind = "window"
    BY DEF LastIsTrue
  <2>1. i \in 1 .. Len(ns) /\ ns[i].kind = "window" /\ ns[i].version # w
    BY <1>1, <1>2
  <2>2. CASE n.kind = "window"
    <3>1. Len(ns) + 1 \in i + 1 .. Len(ms)
      BY <1>1, <2>1
    <3> QED
      BY <1>1, <2>2, <3>1
  <2>3. CASE n.kind # "window"
    <3>1. PICK j \in i + 1 .. Len(ns) : ns[j].kind = "window"
      BY <2>1, <2>3 DEF LastIsTrue
    <3>2. j \in i + 1 .. Len(ms) /\ j \in 1 .. Len(ns)
      BY <1>1, <2>1
    <3> QED
      BY <1>1, <3>1, <3>2
  <2> QED
    BY <2>2, <2>3
<1> QED
  BY <1>1, <1>4, <1>5 DEF ms

LEMMA NoticeTaken ==
  ASSUME NEW ns \in Seq(CacheNotices), ns # <<>>, NEW v, LastIsTrue(ns, v)
  PROVE  /\ Head(ns) \in CacheNotices /\ Tail(ns) \in Seq(CacheNotices)
         /\ LastIsTrue(Tail(ns), v)
         /\ \A kind : Announces(ns, kind) => Head(ns).kind = kind \/ Announces(Tail(ns), kind)
         /\ Head(ns).kind = "window" =>
              Head(ns).version = v \/ Announces(Tail(ns), "window")
<1> DEFINE ms == Tail(ns)
<1>1. /\ Head(ns) \in CacheNotices /\ ms \in Seq(CacheNotices) /\ Len(ms) = Len(ns) - 1
      /\ \A i \in 1 .. Len(ms) : ms[i] = ns[i + 1]
  BY HeadTailProperties
<1>2. Len(ns) \in Nat /\ Len(ns) > 0 /\ Head(ns) = ns[1]
  BY EmptySeq, LenProperties
<1> HIDE DEF ms
<1>3. \A i \in 2 .. Len(ns) : i - 1 \in 1 .. Len(ms) /\ ms[i - 1] = ns[i]
  BY <1>1, <1>2
<1>4. \A kind : Announces(ns, kind) => Head(ns).kind = kind \/ Announces(ms, kind)
  <2> SUFFICES ASSUME NEW i \in 1 .. Len(ns), Head(ns).kind # ns[i].kind
               PROVE  Announces(ms, ns[i].kind)
    BY DEF Announces
  <2>1. i \in 2 .. Len(ns)
    BY <1>2
  <2> QED
    BY <1>3, <2>1 DEF Announces
<1>5. LastIsTrue(ms, v)
  <2> SUFFICES ASSUME NEW i \in 1 .. Len(ms), ms[i].kind = "window", ms[i].version # v
               PROVE  \E j \in i + 1 .. Len(ms) : ms[j].kind = "window"
    BY DEF LastIsTrue
  <2>1. i + 1 \in 1 .. Len(ns) /\ ms[i] = ns[i + 1]
    BY <1>1, <1>2
  <2>2. PICK j \in (i + 1) + 1 .. Len(ns) : ns[j].kind = "window"
    BY <2>1 DEF LastIsTrue
  <2>3. j \in 2 .. Len(ns) /\ j - 1 \in i + 1 .. Len(ms)
    BY <1>1, <1>2
  <2> QED
    BY <1>3, <2>2, <2>3
<1>6. Head(ns).kind = "window" => Head(ns).version = v \/ Announces(ms, "window")
  <2> SUFFICES ASSUME ns[1].kind = "window", ns[1].version # v
               PROVE  Announces(ms, "window")
    BY <1>2
  <2>1. 1 \in 1 .. Len(ns)
    BY <1>2
  <2>2. PICK j \in 1 + 1 .. Len(ns) : ns[j].kind = "window"
    BY <2>1 DEF LastIsTrue
  <2> QED
    BY <1>3, <2>2 DEF Announces
<1> QED
  BY <1>1, <1>4, <1>5, <1>6 DEF ms

LEMMA PageCachesStart == PageCacheInit => PageCachesTyped /\ PageCachesOK
<1> SUFFICES ASSUME PageCacheInit PROVE PageCachesTyped /\ PageCachesOK
  OBVIOUS
<1>1. PageCachesTyped
  <2>1. notices \in Seq(CacheNotices)
    BY EmptySeq DEF PageCacheInit
  <2> QED
    BY <2>1 DEF PageCacheInit, PageCachesTyped, Idle, Nothing, Asks
<1>2. ListenOK
  BY DEF PageCacheInit, ListenOK, LastIsTrue
<1>3. ASSUME NEW k \in QueryKeys PROVE CopyOK(k)
  BY DEF PageCacheInit, CopyOK, Idle
<1> QED
  BY <1>1, <1>2, <1>3 DEF PageCachesOK

(* What is made old.                                                       *)
LEMMA MadeOld ==
  ASSUME PageCachesTyped, NEW ks, Invalidate(ks)
  PROVE  /\ due' \in [QueryKeys -> BOOLEAN] /\ ask' \in [QueryKeys -> Asks] /\ copy' = copy
         /\ \A k \in QueryKeys \ ks : due'[k] = due[k] /\ ask'[k] = ask[k]
         /\ \A k \in QueryKeys \cap ks :
              due'[k] /\ (ask'[k].at = "answered" => k \in outrun')
         /\ \A k \in QueryKeys : k \in outrun => k \in outrun'
<1>1. Asked \in Asks /\ Asked.at = "asked"
  BY DEF Asked, Asks, Nothing
<1>2. /\ due' = [k \in QueryKeys |-> due[k] \/ k \in ks]
      /\ ask' = [k \in QueryKeys |-> IF k \in ks /\ BegunAgain(k) THEN Asked ELSE ask[k]]
      /\ outrun' = outrun \cup {k \in ks : ask[k].at = "answered" /\ ~ BegunAgain(k)}
      /\ copy' = copy
  BY DEF Invalidate
<1>3. due' \in [QueryKeys -> BOOLEAN] /\ ask' \in [QueryKeys -> Asks]
  BY <1>1, <1>2 DEF PageCachesTyped
<1>4. \A k \in QueryKeys \ ks : due'[k] = due[k] /\ ask'[k] = ask[k]
  BY <1>2 DEF PageCachesTyped
<1>5. \A k \in QueryKeys \cap ks : due'[k] /\ (ask'[k].at = "answered" => k \in outrun')
  BY <1>1, <1>2
<1> QED
  BY <1>2, <1>3, <1>4, <1>5

(* A page's own steps, the device's answers among them.                    *)
LEMMA KeySteps ==
  ASSUME PageCachesTyped, PageCachesOK, NEW k \in QueryKeys,
         Mount(k) \/ Unmount(k) \/ Serve(k) \/ FetchEnds(k) \/ FetchFails(k)
  PROVE  PageCachesTyped' /\ PageCachesOK'
<1> USE DEF PageCachesTyped
<1>1. Idle \in Asks /\ Asked \in Asks /\ Idle.at = "idle" /\ Asked.at = "asked" /\ Asked # Idle
  BY DEF Idle, Asked, Asks, Nothing
<1>2. /\ notices' = notices /\ held' = held /\ link' = link /\ opened' = opened
  BY DEF Mount, Unmount, Serve, FetchEnds, FetchFails
<1>3. ListenOK'
  BY <1>2 DEF PageCachesOK, ListenOK
<1>4. CASE Mount(k) \/ Unmount(k)
  <2>1. /\ copy' = copy /\ due' = due /\ outrun' = outrun
        /\ ask' = ask \/ ask' = [ask EXCEPT ![k] = Asked]
    BY <1>4 DEF Mount, Unmount
  <2>2. PageCachesTyped'
    BY <1>1, <1>2, <2>1
  <2>3. ASSUME NEW q \in QueryKeys PROVE CopyOK(q)'
    <3>1. ask'[q] = ask[q] \/ ask'[q] = Asked
      BY <2>1
    <3>2. CopyOK(q)
      BY DEF PageCachesOK
    <3> QED
      BY <1>1, <1>2, <2>1, <3>1, <3>2 DEF CopyOK, Follows
  <2> QED
    BY <1>3, <2>2, <2>3 DEF PageCachesOK
<1>5. CASE Serve(k)
  <2> DEFINE answer == [at |-> "answered", version |-> held[k]]
  <2>1. /\ copy' = copy /\ due' = due /\ outrun' = outrun \ {k}
        /\ ask' = [ask EXCEPT ![k] = answer]
    BY <1>5 DEF Serve
  <2>2. answer \in Asks /\ answer.at = "answered" /\ answer.version = held[k] /\ answer # Idle
    BY DEF Asks, Idle
  <2> HIDE DEF answer
  <2>3. PageCachesTyped'
    BY <1>2, <2>1, <2>2
  <2>4. ASSUME NEW q \in QueryKeys PROVE CopyOK(q)'
    <3>1. CopyOK(q)
      BY DEF PageCachesOK
    <3>2. CASE q = k
      BY <1>2, <2>1, <2>2, <3>2 DEF CopyOK
    <3>3. CASE q # k
      BY <1>2, <2>1, <3>1, <3>3 DEF CopyOK, Follows
    <3> QED
      BY <3>2, <3>3
  <2> QED
    BY <1>3, <2>3, <2>4 DEF PageCachesOK
<1>6. CASE FetchEnds(k)
  <2>1. /\ ask[k].at = "answered" /\ outrun' = outrun
        /\ copy' = [copy EXCEPT ![k] = ask[k].version]
        /\ due' = [due EXCEPT ![k] = FALSE] /\ ask' = [ask EXCEPT ![k] = Idle]
    BY <1>6 DEF FetchEnds
  <2>2. ask[k].version \in Int
    BY DEF Asks
  <2>3. PageCachesTyped'
    BY <1>1, <1>2, <2>1, <2>2
  <2>4. ASSUME NEW q \in QueryKeys PROVE CopyOK(q)'
    <3>1. CopyOK(q)
      BY DEF PageCachesOK
    <3>2. CASE q = k
      BY <1>1, <1>2, <2>1, <3>1, <3>2 DEF CopyOK, Follows
    <3>3. CASE q # k
      BY <1>2, <2>1, <3>1, <3>3 DEF CopyOK, Follows
    <3> QED
      BY <3>2, <3>3
  <2> QED
    BY <1>3, <2>3, <2>4 DEF PageCachesOK
<1>7. CASE FetchFails(k)
  <2>1. /\ copy' = copy /\ outrun' = outrun
        /\ due' = [due EXCEPT ![k] = TRUE] /\ ask' = [ask EXCEPT ![k] = Idle]
    BY <1>7 DEF FetchFails
  <2>2. PageCachesTyped'
    BY <1>1, <1>2, <2>1
  <2>3. ASSUME NEW q \in QueryKeys PROVE CopyOK(q)'
    <3>1. CopyOK(q)
      BY DEF PageCachesOK
    <3>2. CASE q = k
      BY <1>1, <2>1, <3>2 DEF CopyOK
    <3>3. CASE q # k
      BY <1>2, <2>1, <3>1, <3>3 DEF CopyOK, Follows
    <3> QED
      BY <3>2, <3>3
  <2> QED
    BY <1>3, <2>2, <2>3 DEF PageCachesOK
<1> QED
  BY <1>4, <1>5, <1>6, <1>7

(* The device's libraries or its window change.                            *)
LEMMA Changes ==
  ASSUME PageCachesTyped, PageCachesOK, NEW kind \in CacheKinds, Change(kind)
  PROVE  PageCachesTyped' /\ PageCachesOK'
<1> DEFINE keys == {k \in QueryKeys : KindOf(k) = kind}
<1>1. /\ held' = [k \in QueryKeys |-> IF k \in keys THEN held[k] + 1 ELSE held[k]]
      /\ notices' = IF link = "up"
                    THEN Append(notices, [kind |-> kind, version |-> held'["window"]])
                    ELSE notices
      /\ outrun' = IF opened THEN outrun
                   ELSE outrun \cup {k \in keys \ {"window"} :
                                       copy[k] # Nothing \/ ask[k].at = "answered"}
      /\ copy' = copy /\ due' = due /\ ask' = ask /\ link' = link /\ opened' = opened
  BY DEF Change
<1>2. /\ held \in [QueryKeys -> Int] /\ notices \in Seq(CacheNotices) /\ "window" \in QueryKeys
      /\ ListenOK
  BY DEF PageCachesTyped, PageCachesOK, QueryKeys
<1>3. /\ held' \in [QueryKeys -> Int]
      /\ \A k \in QueryKeys : KindOf(k) # kind => held'[k] = held[k]
  BY <1>1, <1>2
<1>4. CASE link = "up"
  <2> DEFINE n == [kind |-> kind, version |-> held'["window"]]
  <2>1. n \in CacheNotices /\ n.kind = kind /\ n.version = held'["window"]
    BY <1>2, <1>3 DEF CacheNotices
  <2>2. kind # "window" => held'["window"] = held["window"]
    BY <1>2, <1>3, KindsOfKeys
  <2>3. notices' = Append(notices, n) /\ opened /\ outrun' = outrun
    BY <1>1, <1>2, <1>4 DEF ListenOK
  <2> HIDE DEF n
  <2>4. /\ notices' \in Seq(CacheNotices) /\ LastIsTrue(notices', held'["window"])
        /\ Announces(notices', kind)
        /\ \A other : Announces(notices, other) => Announces(notices', other)
    BY <1>2, <2>1, <2>2, <2>3, NoticeSent DEF ListenOK
  <2>5. ListenOK'
    BY <1>1, <1>2, <1>4, <2>4 DEF ListenOK
  <2>6. PageCachesTyped'
    BY <1>1, <1>3, <2>4 DEF PageCachesTyped
  <2>7. ASSUME NEW k \in QueryKeys PROVE CopyOK(k)'
    <3>1. CopyOK(k)
      BY DEF PageCachesOK
    <3>2. CASE KindOf(k) = kind
      BY <2>4, <3>2 DEF CopyOK
    <3>3. CASE KindOf(k) # kind
      BY <1>1, <1>3, <1>4, <2>3, <2>4, <3>1, <3>3 DEF CopyOK, Follows
    <3> QED
      BY <3>2, <3>3
  <2> QED
    BY <2>5, <2>6, <2>7 DEF PageCachesOK
<1>5. CASE link # "up"
  <2>1. notices' = notices /\ notices = <<>> /\ link' # "up"
    BY <1>1, <1>2, <1>5 DEF ListenOK
  <2>2. ListenOK'
    BY <1>1, <1>2, <2>1 DEF ListenOK, LastIsTrue
  <2>3. PageCachesTyped'
    BY <1>1, <1>3, <2>1 DEF PageCachesTyped
  <2>4. ASSUME NEW k \in QueryKeys PROVE CopyOK(k)'
    <3>1. CopyOK(k)
      BY DEF PageCachesOK
    <3>2. CASE opened
      BY <1>1, <2>1, <3>2 DEF CopyOK, Follows
    <3>3. CASE ~ opened /\ KindOf(k) = kind
      <4>1. ASSUME k # "window", k \notin outrun'
            PROVE  copy[k] = Nothing /\ ask[k].at # "answered"
        BY <1>1, <3>3, <4>1
      <4> QED
        BY <1>1, <2>1, <4>1 DEF CopyOK, Follows
    <3>4. CASE ~ opened /\ KindOf(k) # kind
      <4>1. k \notin outrun' => k \notin outrun
        BY <1>1
      <4> QED
        BY <1>1, <1>3, <2>1, <3>1, <3>4, <4>1 DEF CopyOK, Follows
    <3> QED
      BY <3>2, <3>3, <3>4
  <2> QED
    BY <2>2, <2>3, <2>4 DEF PageCachesOK
<1> QED
  BY <1>4, <1>5

(* The page hears a notice.                                                *)
LEMMA Hears ==
  ASSUME PageCachesTyped, PageCachesOK, Hear
  PROVE  PageCachesTyped' /\ PageCachesOK'
<1> DEFINE n == Head(notices)
<1>1. /\ notices # <<>> /\ link = "up" /\ notices' = Tail(notices)
      /\ held' = held /\ link' = link /\ opened' = opened
      /\ HearLibraryChanged(n) \/ HearConfigWindow(n)
  BY DEF Hear
<1>2. /\ held \in [QueryKeys -> Int] /\ notices \in Seq(CacheNotices) /\ "window" \in QueryKeys
      /\ ListenOK
  BY DEF PageCachesTyped, PageCachesOK, QueryKeys
<1>3. /\ n \in CacheNotices /\ notices' \in Seq(CacheNotices)
      /\ LastIsTrue(notices', held["window"])
      /\ \A kind : Announces(notices, kind) => n.kind = kind \/ Announces(notices', kind)
      /\ n.kind = "window" => n.version = held["window"] \/ Announces(notices', "window")
  BY <1>1, <1>2, NoticeTaken DEF ListenOK
<1>4. n.kind \in CacheKinds /\ n.version \in Int
  BY <1>3 DEF CacheNotices
<1> HIDE DEF n
<1>5. ListenOK'
  BY <1>1, <1>2, <1>3 DEF ListenOK
<1>6. ASSUME NEW ks, Invalidate(ks), \A k \in QueryKeys : k \in ks <=> KindOf(k) = n.kind
      PROVE  PageCachesTyped' /\ PageCachesOK'
  <2>1. /\ due' \in [QueryKeys -> BOOLEAN] /\ ask' \in [QueryKeys -> Asks] /\ copy' = copy
        /\ \A k \in QueryKeys \ ks : due'[k] = due[k] /\ ask'[k] = ask[k]
        /\ \A k \in QueryKeys \cap ks :
             due'[k] /\ (ask'[k].at = "answered" => k \in outrun')
        /\ \A k \in QueryKeys : k \in outrun => k \in outrun'
    BY <1>6, MadeOld
  <2>2. PageCachesTyped'
    BY <1>1, <1>2, <1>3, <2>1 DEF PageCachesTyped
  <2>3. ASSUME NEW k \in QueryKeys PROVE CopyOK(k)'
    <3>1. CopyOK(k)
      BY DEF PageCachesOK
    <3>2. CASE k \in ks
      BY <2>1, <3>2 DEF CopyOK
    <3>3. CASE k \notin ks
      BY <1>1, <1>3, <1>6, <2>1, <3>1, <3>3 DEF CopyOK, Follows
    <3> QED
      BY <3>2, <3>3
  <2> QED
    BY <1>5, <2>2, <2>3 DEF PageCachesOK
<1>7. CASE HearLibraryChanged(n)
  <2>1. n.kind # "window" /\ Invalidate(LibraryKeys(n.kind))
    BY <1>7 DEF HearLibraryChanged
  <2>2. \A k \in QueryKeys : k \in LibraryKeys(n.kind) <=> KindOf(k) = n.kind
    BY <1>4, <2>1, KindsOfKeys
  <2> QED
    BY <1>6, <2>1, <2>2
<1>8. CASE HearConfigWindow(n)
  <2>1. n.kind = "window"
    BY <1>8 DEF HearConfigWindow
  <2>2. CASE Invalidate({"window"})
    <3>1. \A k \in QueryKeys : k \in {"window"} <=> KindOf(k) = n.kind
      BY <2>1, KindsOfKeys
    <3> QED
      BY <1>6, <2>2, <3>1
  <2>3. CASE /\ copy' = [copy EXCEPT !["window"] = n.version]
             /\ due' = [due EXCEPT !["window"] = FALSE]
             /\ outrun' = IF ask["window"].at = "answered" THEN outrun \cup {"window"} ELSE outrun
             /\ ask' = ask
    <3>1. PageCachesTyped'
      BY <1>1, <1>2, <1>3, <1>4, <2>3 DEF PageCachesTyped
    <3>2. ASSUME NEW k \in QueryKeys PROVE CopyOK(k)'
      <4>1. CopyOK(k)
        BY DEF PageCachesOK
      <4>2. CASE k = "window"
        <5>1. KindOf(k) = "window"
          BY <4>2 DEF KindOf
        <5>2. copy'[k] = held'[k] \/ Announces(notices', "window")
          BY <1>1, <1>3, <2>1, <2>3, <4>2 DEF PageCachesTyped
        <5>3. ask'[k].at = "answered" => k \in outrun'
          BY <2>3, <4>2
        <5> QED
          BY <5>1, <5>2, <5>3 DEF CopyOK
      <4>3. CASE k # "window"
        <5>1. KindOf(k) # n.kind /\ (k \notin outrun' => k \notin outrun)
          BY <2>1, <2>3, <4>3, KindsOfKeys
        <5>2. copy'[k] = copy[k] /\ due'[k] = due[k]
          BY <2>3, <4>3 DEF PageCachesTyped
        <5> QED
          BY <1>1, <1>3, <2>3, <4>1, <5>1, <5>2 DEF CopyOK, Follows
      <4> QED
        BY <4>2, <4>3
    <3> QED
      BY <1>5, <3>1, <3>2 DEF PageCachesOK
  <2> QED
    BY <1>8, <2>2, <2>3 DEF HearConfigWindow
<1> QED
  BY <1>1, <1>7, <1>8

LEMMA Opens ==
  ASSUME PageCachesTyped, PageCachesOK, OnOpen
  PROVE  PageCachesTyped' /\ PageCachesOK'
<1> DEFINE ks == IF opened THEN QueryKeys ELSE {"window"}
<1>1. /\ link = "down" /\ link' = "up" /\ opened' = TRUE /\ Invalidate(ks)
      /\ held' = held /\ notices' = notices
  BY DEF OnOpen
<1>2. /\ due' \in [QueryKeys -> BOOLEAN] /\ ask' \in [QueryKeys -> Asks] /\ copy' = copy
      /\ \A k \in QueryKeys \ ks : due'[k] = due[k] /\ ask'[k] = ask[k]
      /\ \A k \in QueryKeys \cap ks :
           due'[k] /\ (ask'[k].at = "answered" => k \in outrun')
      /\ \A k \in QueryKeys : k \in outrun => k \in outrun'
  BY <1>1, MadeOld
<1>3. PageCachesTyped'
  BY <1>1, <1>2 DEF PageCachesTyped
<1>4. ListenOK'
  BY <1>1 DEF PageCachesOK, ListenOK
<1>5. ASSUME NEW k \in QueryKeys PROVE CopyOK(k)'
  <2>1. CopyOK(k)
    BY DEF PageCachesOK
  <2>2. CASE k \in ks
    BY <1>2, <2>2 DEF CopyOK
  <2>3. CASE k \notin ks
    <3>1. ~ opened /\ k # "window"
      BY <2>3
    <3> HIDE DEF ks
    <3> QED
      BY <1>1, <1>2, <2>1, <2>3, <3>1 DEF CopyOK, Follows
  <2> QED
    BY <2>2, <2>3
<1> QED
  BY <1>3, <1>4, <1>5 DEF PageCachesOK

LEMMA PageCachesKeep ==
  PageCachesTyped /\ PageCachesOK /\ [PageCacheNext]_pageCacheVars
    => PageCachesTyped' /\ PageCachesOK'
<1> SUFFICES ASSUME PageCachesTyped, PageCachesOK, [PageCacheNext]_pageCacheVars
             PROVE  PageCachesTyped' /\ PageCachesOK'
  OBVIOUS
<1>1. CASE LinkBreaks
  <2>1. /\ link # "down" /\ link' # "up" /\ notices' = <<>> /\ opened' = opened
        /\ held' = held /\ copy' = copy /\ due' = due /\ ask' = ask
    BY <1>1 DEF LinkBreaks
  <2>2. opened
    BY <2>1 DEF PageCachesOK, ListenOK
  <2>3. PageCachesTyped'
    <3>1. notices' \in Seq(CacheNotices)
      BY <2>1, EmptySeq
    <3> QED
      BY <2>1, <3>1 DEF PageCachesTyped
  <2>4. ListenOK'
    BY <2>1, <2>2 DEF ListenOK, LastIsTrue
  <2>5. ASSUME NEW k \in QueryKeys PROVE CopyOK(k)'
    BY <2>1, <2>2 DEF CopyOK, Follows
  <2> QED
    BY <2>3, <2>4, <2>5 DEF PageCachesOK
<1>2. CASE UNCHANGED pageCacheVars
  <2>1. /\ notices' = notices /\ held' = held /\ link' = link /\ opened' = opened
        /\ copy' = copy /\ due' = due /\ ask' = ask /\ outrun' = outrun
    BY <1>2 DEF pageCacheVars
  <2>2. ASSUME NEW k \in QueryKeys PROVE CopyOK(k)'
    <3>1. CopyOK(k)
      BY DEF PageCachesOK
    <3> QED
      BY <2>1, <3>1 DEF CopyOK, Follows
  <2>3. PageCachesTyped' /\ ListenOK'
    BY <2>1 DEF PageCachesTyped, PageCachesOK, ListenOK
  <2> QED
    BY <2>2, <2>3 DEF PageCachesOK
<1> QED
  BY <1>1, <1>2, KeySteps, Changes, Hears, Opens DEF PageCacheNext, CacheKinds

LEMMA PageIsKeptUp == PageCachesOK => PageKeepsUp
<1> SUFFICES ASSUME PageCachesOK, link = "up", notices = <<>>, NEW k \in QueryKeys \ outrun
             PROVE  ask[k] = Idle /\ copy[k] # Nothing /\ ~ due[k] => copy[k] = held[k]
  BY DEF PageKeepsUp
<1>1. CopyOK(k) /\ ~ Announces(notices, KindOf(k))
  BY DEF PageCachesOK, Announces
<1> QED
  BY <1>1 DEF CopyOK, Follows

-----------------------------------------------------------------------------
(* The tabs of a browser: the last change that a tab has to hear is of     *)
(* what is stored, and a token that is on its way to a tab has never been  *)
(* anywhere else.                                                          *)
TabCalls == [tab : Tabs, op : {"enable", "login", "disable", "act"}, bearer : Nat,
             at : {"sent", "ok", "failed", "unauthorized"}, gave : Nat]

TabsTyped ==
  /\ given \in Nat /\ storage \in Nat /\ token \in [Tabs -> Nat]
  /\ news \in [Tabs -> Seq(Nat)] /\ tabCalls \subseteq TabCalls

Newest(t) == IF news[t] = <<>> THEN token[t] ELSE news[t][Len(news[t])]

HeardOK == ~ crossed => \A t \in Tabs : Newest(t) = storage

(* Where a token may be that some tab has, or had.                         *)
InNews(t, g) == \E i \in 1 .. Len(news[t]) : news[t][i] = g
Circulates(g) ==
  \/ \E t \in Tabs : token[t] = g \/ InNews(t, g)
  \/ \E c \in tabCalls : c.bearer = g
  \/ g \in turnedDown

FreshOK ==
  /\ \A g : Circulates(g) => g \in 0 .. given
  /\ \A c \in tabCalls : c.gave <= given
  /\ \A c \in tabCalls : c.gave # 0 =>
       /\ ~ Circulates(c.gave) /\ c.at = "ok" /\ c.op \in {"enable", "login"}
       /\ \A d \in tabCalls : d.gave = c.gave => d = c

TokenOK == storage \notin turnedDown /\ 0 \notin turnedDown

TabsOK == TabsTyped /\ HeardOK /\ FreshOK /\ TokenOK

LEMMA TabsStart == BrowserTabsInit => TabsOK
<1> SUFFICES ASSUME BrowserTabsInit PROVE TabsOK
  OBVIOUS
<1>1. TabsTyped
  <2>1. <<>> \in Seq(Nat)
    BY EmptySeq
  <2> QED
    BY <2>1 DEF BrowserTabsInit, TabsTyped
<1>2. HeardOK
  BY DEF BrowserTabsInit, HeardOK, Newest
<1>3. FreshOK
  <2>1. \A t \in Tabs : token[t] = 0 /\ news[t] = <<>>
    BY DEF BrowserTabsInit
  <2>2. \A t \in Tabs : \A g : ~ InNews(t, g)
    BY <2>1 DEF InNews
  <2>3. given = 0 /\ tabCalls = {} /\ turnedDown = {}
    BY DEF BrowserTabsInit
  <2> QED
    BY <2>1, <2>2, <2>3 DEF FreshOK, Circulates
<1>4. TokenOK
  BY DEF BrowserTabsInit, TokenOK
<1> QED
  BY <1>1, <1>2, <1>3, <1>4 DEF TabsOK

(* A tab writes: it had heard everything, or the tabs have crossed.        *)
LEMMA TabWrites ==
  ASSUME TabsTyped, HeardOK, NEW t \in Tabs, NEW new \in Nat, TokenBecomes(t, new)
  PROVE  /\ storage' = new /\ token' \in [Tabs -> Nat] /\ news' \in [Tabs -> Seq(Nat)]
         /\ HeardOK'
         /\ \A u \in Tabs : token'[u] \in {token[u], new}
         /\ \A u \in Tabs : \A g : InNews(u, g)' => InNews(u, g) \/ g = new
<1>1. /\ storage' = new /\ token' = [token EXCEPT ![t] = new]
      /\ news' = [u \in Tabs |-> IF u # t /\ storage # new THEN Append(news[u], new)
                                 ELSE news[u]]
      /\ crossed' = IF news[t] # <<>> THEN TRUE
                    ELSE crossed /\ (storage = new \/ \E u \in Tabs : news[u] # <<>>)
  BY DEF TokenBecomes
<1>2. /\ token \in [Tabs -> Nat] /\ news \in [Tabs -> Seq(Nat)]
  BY DEF TabsTyped
<1>3. ASSUME NEW u \in Tabs
      PROVE  /\ Append(news[u], new) \in Seq(Nat) /\ Len(news[u]) \in Nat
             /\ Len(Append(news[u], new)) = Len(news[u]) + 1
             /\ Append(news[u], new) # <<>>
             /\ Append(news[u], new)[Len(news[u]) + 1] = new
             /\ \A i \in 1 .. Len(news[u]) : Append(news[u], new)[i] = news[u][i]
  <2>1. news[u] \in Seq(Nat)
    BY <1>2
  <2> QED
    BY <2>1, AppendProperties, LenProperties
<1>4. token' \in [Tabs -> Nat] /\ news' \in [Tabs -> Seq(Nat)]
  BY <1>1, <1>2, <1>3
<1>5. \A u \in Tabs : token'[u] \in {token[u], new}
  BY <1>1, <1>2
<1>6. ASSUME NEW u \in Tabs, NEW g, InNews(u, g)'
      PROVE  InNews(u, g) \/ g = new
  <2>1. CASE news'[u] = news[u]
    BY <1>6, <2>1 DEF InNews
  <2>2. CASE news'[u] = Append(news[u], new)
    <3>1. PICK i \in 1 .. Len(news'[u]) : news'[u][i] = g
      BY <1>6 DEF InNews
    <3>2. i \in 1 .. Len(news[u]) \/ i = Len(news[u]) + 1
      BY <1>3, <2>2, <3>1
    <3> QED
      BY <1>3, <2>2, <3>1, <3>2 DEF InNews
  <2> QED
    BY <1>1, <2>1, <2>2
<1>7. HeardOK'
  <2> SUFFICES ASSUME ~ crossed', NEW u \in Tabs
               PROVE  Newest(u)' = new
    BY <1>1 DEF HeardOK
  <2>1. /\ news[t] = <<>>
        /\ ~ crossed \/ (storage # new /\ \A v \in Tabs : news[v] = <<>>)
    BY <1>1
  <2>2. CASE u = t
    BY <1>1, <1>2, <2>1, <2>2 DEF Newest
  <2>3. CASE u # t /\ storage # new
    <3>1. news'[u] = Append(news[u], new)
      BY <1>1, <2>3
    <3> QED
      BY <1>3, <3>1 DEF Newest
  <2>4. CASE u # t /\ storage = new
    <3>1. news'[u] = news[u] /\ token'[u] = token[u] /\ Newest(u) = storage
      BY <1>1, <1>2, <2>1, <2>4 DEF HeardOK
    <3> QED
      BY <2>4, <3>1 DEF Newest
  <2> QED
    BY <2>2, <2>3, <2>4
<1> QED
  BY <1>1, <1>4, <1>5, <1>6, <1>7

(* A tab hears of what another one stored.                                 *)
LEMMA TabHears ==
  ASSUME TabsOK, NEW t \in Tabs, HearStorage(t)
  PROVE  TabsOK'
<1>1. /\ news[t] # <<>> /\ token' = [token EXCEPT ![t] = Head(news[t])]
      /\ news' = [news EXCEPT ![t] = Tail(news[t])]
      /\ storage' = storage /\ tabCalls' = tabCalls /\ crossed' = crossed
      /\ turnedDown' = turnedDown /\ given' = given
  BY DEF HearStorage, HeardToken, lockVars
<1>2. /\ token \in [Tabs -> Nat] /\ news \in [Tabs -> Seq(Nat)] /\ news[t] \in Seq(Nat)
  BY DEF TabsOK, TabsTyped
<1> DEFINE ns == news[t]
           ms == Tail(news[t])
<1>3. /\ Head(ns) \in Nat /\ ms \in Seq(Nat) /\ Len(ms) = Len(ns) - 1
      /\ \A i \in 1 .. Len(ms) : ms[i] = ns[i + 1]
  BY <1>1, <1>2, HeadTailProperties
<1>4. /\ Len(ns) \in Nat \ {0} /\ Len(ms) \in Nat /\ Head(ns) = ns[1]
      /\ ms # <<>> => Len(ms) # 0
      /\ Len(ns) = 1 => ms = <<>>
  <2>1. Len(ns) \in Nat \ {0} /\ Len(ms) \in Nat
    BY <1>1, <1>2, <1>3, EmptySeq, LenProperties
  <2>2. Head(ns) = ns[1]
    BY <1>1, <1>2
  <2>3. ms # <<>> => Len(ms) # 0
    BY <1>3, EmptySeq
  <2> HIDE DEF ns, ms
  <2>4. Len(ns) = 1 => Len(ms) = 0
    BY <1>3
  <2> QED
    BY <2>1, <2>2, <2>3, <2>4
<1>5. \A i \in 1 .. Len(ms) : i + 1 \in 1 .. Len(ns)
  BY <1>3, <1>4
<1>6. 1 \in 1 .. Len(ns)
  BY <1>4
<1>7. /\ token'[t] = Head(ns) /\ news'[t] = ms
      /\ \A u \in Tabs \ {t} : token'[u] = token[u] /\ news'[u] = news[u]
  BY <1>1, <1>2
<1>8. Newest(t)' = Newest(t)
  <2>1. Newest(t) = ns[Len(ns)]
    BY <1>1 DEF Newest
  <2>2. CASE ms = <<>>
    <3>1. Len(ns) = 1
      <4>1. Len(ms) = 0
        BY <2>2, EmptySeq
      <4> QED
        BY <1>3, <1>4, <4>1
    <3> QED
      BY <1>4, <1>7, <2>1, <2>2, <3>1 DEF Newest
  <2>3. CASE ms # <<>>
    <3>1. Len(ms) \in 1 .. Len(ms) /\ Len(ms) + 1 = Len(ns)
      BY <1>3, <1>4, <2>3
    <3>2. ms[Len(ms)] = ns[Len(ns)]
      BY <1>3, <3>1
    <3> QED
      BY <1>7, <2>1, <2>3, <3>2 DEF Newest
  <2> QED
    BY <2>2, <2>3
<1>9. \A u \in Tabs : Newest(u)' = Newest(u)
  BY <1>7, <1>8 DEF Newest
<1>10. \A g : InNews(t, g)' => InNews(t, g)
  BY <1>3, <1>5, <1>7 DEF InNews
<1>11. \A u \in Tabs : \A g : (token'[u] = g \/ InNews(u, g)') => (token[u] = g \/ InNews(u, g))
  <2>1. InNews(t, Head(ns))
    BY <1>4, <1>6 DEF InNews
  <2>2. \A u \in Tabs \ {t} : \A g : InNews(u, g)' => InNews(u, g)
    BY <1>7 DEF InNews
  <2> QED
    BY <1>7, <1>10, <2>1, <2>2
<1>12. \A g : Circulates(g)' => Circulates(g)
  BY <1>1, <1>11 DEF Circulates
<1>13. FreshOK'
  BY <1>1, <1>12 DEF TabsOK, FreshOK
<1>14. HeardOK'
  BY <1>1, <1>9 DEF TabsOK, HeardOK
<1>15. TabsTyped'
  BY <1>1, <1>2, <1>3 DEF TabsOK, TabsTyped
<1>16. TokenOK'
  BY <1>1 DEF TabsOK, TokenOK
<1> QED
  BY <1>13, <1>14, <1>15, <1>16 DEF TabsOK

(* The tokens stay as they are: calls go out and are answered.             *)
LEMMA CallsMove ==
  ASSUME TabsOK, storage' = storage, token' = token, news' = news, crossed' = crossed,
         turnedDown' = turnedDown, given' \in Nat, given <= given',
         tabCalls' \subseteq TabCalls,
         \A c \in tabCalls' : (\E t \in Tabs : c.bearer = token[t])
                                \/ \E d \in tabCalls : c.bearer = d.bearer,
         \A c \in tabCalls' : c \in tabCalls \/ c.gave = 0
           \/ /\ c.gave = given' /\ given < given' /\ c.at = "ok" /\ c.op \in {"enable", "login"}
              /\ \A d \in tabCalls' : d = c \/ d \in tabCalls
  PROVE  TabsOK'
<1>1. TabsTyped' /\ HeardOK' /\ TokenOK'
  <2>1. TabsTyped'
    BY DEF TabsOK, TabsTyped
  <2>2. HeardOK'
    BY DEF TabsOK, HeardOK, Newest
  <2> QED
    BY <2>1, <2>2 DEF TabsOK, TokenOK
<1>2. given \in Nat /\ tabCalls \subseteq TabCalls
  BY DEF TabsOK, TabsTyped
<1>3. \A g : Circulates(g)' => Circulates(g)
  <2>1. \A t \in Tabs : \A g : InNews(t, g)' <=> InNews(t, g)
    BY DEF InNews
  <2> QED
    BY <2>1 DEF Circulates
<1>4. \A g : Circulates(g)' => g \in 0 .. given'
  BY <1>2, <1>3 DEF TabsOK, FreshOK
<1>5. \A c \in tabCalls : c.gave <= given /\ c.gave \in Nat
  BY <1>2 DEF TabsOK, FreshOK, TabCalls
<1>6. \A c \in tabCalls' : c.gave <= given'
  BY <1>2, <1>5
<1>7. ASSUME NEW c \in tabCalls', c.gave # 0
      PROVE  /\ ~ Circulates(c.gave)' /\ c.at = "ok" /\ c.op \in {"enable", "login"}
             /\ \A d \in tabCalls' : d.gave = c.gave => d = c
  <2>1. CASE c \in tabCalls
    <3>1. /\ ~ Circulates(c.gave) /\ c.at = "ok" /\ c.op \in {"enable", "login"}
          /\ \A d \in tabCalls : d.gave = c.gave => d = c
      BY <1>7, <2>1 DEF TabsOK, FreshOK
    <3>2. c.gave <= given /\ c.gave \in Nat
      BY <1>5, <2>1
    <3>3. \A d \in tabCalls' : d.gave = c.gave => d \in tabCalls
      BY <1>2, <1>7, <3>2
    <3> QED
      BY <1>3, <3>1, <3>3
  <2>2. CASE /\ c.gave = given' /\ given < given' /\ c.at = "ok" /\ c.op \in {"enable", "login"}
             /\ \A d \in tabCalls' : d = c \/ d \in tabCalls
    <3>1. ~ Circulates(c.gave)
      BY <1>2, <2>2 DEF TabsOK, FreshOK
    <3>2. \A d \in tabCalls' : d.gave = c.gave => d = c
      BY <1>2, <1>5, <2>2
    <3> QED
      BY <1>3, <2>2, <3>1, <3>2
  <2> QED
    BY <1>7, <2>1, <2>2
<1> QED
  BY <1>1, <1>4, <1>6, <1>7 DEF TabsOK, FreshOK

(* A tab takes a token, or lets go of the one it has.                      *)
LEMMA TokenMoves ==
  ASSUME TabsOK, NEW t \in Tabs, NEW new \in Nat, TokenBecomes(t, new), given' = given,
         tabCalls' \subseteq tabCalls,
         new = 0 \/ (\E c \in tabCalls : c.gave = new /\ c \notin tabCalls'),
         new \notin turnedDown', 0 \notin turnedDown',
         \A g \in turnedDown' : g \in turnedDown \/ \E c \in tabCalls : c.bearer = g
  PROVE  TabsOK'
<1>1. /\ storage' = new /\ token' \in [Tabs -> Nat] /\ news' \in [Tabs -> Seq(Nat)] /\ HeardOK'
      /\ \A u \in Tabs : token'[u] \in {token[u], new}
      /\ \A u \in Tabs : \A g : InNews(u, g)' => InNews(u, g) \/ g = new
  BY TabWrites DEF TabsOK
<1>2. TabsTyped' /\ TokenOK'
  BY <1>1 DEF TabsOK, TabsTyped, TokenOK
<1>3. given \in Nat /\ tabCalls \subseteq TabCalls
  BY DEF TabsOK, TabsTyped
<1>4. \A g : Circulates(g)' => Circulates(g) \/ g = new
  BY <1>1 DEF Circulates
<1>5. new \in 0 .. given
  BY <1>3 DEF TabsOK, FreshOK
<1>6. \A g : Circulates(g)' => g \in 0 .. given'
  BY <1>4, <1>5 DEF TabsOK, FreshOK
<1>7. ASSUME NEW c \in tabCalls', c.gave # 0
      PROVE  c.gave # new /\ ~ Circulates(c.gave)'
  <2>1. c \in tabCalls
    OBVIOUS
  <2>2. c.gave # new
    BY <1>7, <2>1 DEF TabsOK, FreshOK
  <2> QED
    BY <1>4, <1>7, <2>1, <2>2 DEF TabsOK, FreshOK
<1>8. FreshOK'
  BY <1>6, <1>7 DEF TabsOK, FreshOK
<1> QED
  BY <1>1, <1>2, <1>8 DEF TabsOK

LEMMA TabsKeep == TabsOK /\ [BrowserTabsNext]_browserVars => TabsOK'
<1> SUFFICES ASSUME TabsOK, [BrowserTabsNext]_browserVars
             PROVE  TabsOK'
  OBVIOUS
<1>0. given \in Nat /\ tabCalls \subseteq TabCalls /\ token \in [Tabs -> Nat]
  BY DEF TabsOK, TabsTyped
<1>1. ASSUME NEW t \in Tabs, NEW kind \in {"enable", "login", "disable", "act"}, SendCall(t, kind)
      PROVE  TabsOK'
  <2>1. /\ tabCalls' = tabCalls \cup {CallOf(t, kind)} /\ given' = given
        /\ turnedDown' = turnedDown /\ storage' = storage /\ token' = token
        /\ news' = news /\ crossed' = crossed
    BY <1>1 DEF SendCall, TokenStays, lockVars
  <2>2. CallOf(t, kind) \in TabCalls /\ CallOf(t, kind).gave = 0 /\ CallOf(t, kind).bearer = token[t]
    BY <1>0 DEF CallOf, TabCalls
  <2>3. tabCalls' \subseteq TabCalls
    BY <1>0, <2>1, <2>2
  <2>4. \A c \in tabCalls' : c \in tabCalls \/ c = CallOf(t, kind)
    BY <2>1
  <2>5. given <= given' /\ given' \in Nat
    BY <1>0, <2>1
  <2> QED
    BY <2>1, <2>2, <2>3, <2>4, <2>5, CallsMove
<1>2. ASSUME NEW t \in Tabs, PressLogout(t)
      PROVE  TabsOK'
  <2>1. TokenBecomes(t, 0) /\ given' = given /\ tabCalls' = tabCalls /\ turnedDown' = turnedDown
    BY <1>2 DEF PressLogout, lockVars
  <2>2. 0 \notin turnedDown
    BY DEF TabsOK, TokenOK
  <2> QED
    BY <2>1, <2>2, TokenMoves
<1>3. ASSUME NEW c \in tabCalls, NEW at \in {"sent", "ok", "failed", "unauthorized"},
             NEW gave \in Nat, Answers(c, at, gave), TokenStays, turnedDown' = turnedDown,
             \/ gave = 0 /\ given' = given
             \/ gave = given + 1 /\ given' = given + 1 /\ at = "ok" /\ c.op \in {"enable", "login"}
      PROVE  TabsOK'
  <2> DEFINE d == [c EXCEPT !.at = at, !.gave = gave]
  <2>1. tabCalls' = (tabCalls \ {c}) \cup {d}
    BY <1>3 DEF Answers
  <2>2. d \in TabCalls /\ d.bearer = c.bearer /\ d.at = at /\ d.gave = gave /\ d.op = c.op
    BY <1>0 DEF TabCalls
  <2> HIDE DEF d
  <2>3. storage' = storage /\ token' = token /\ news' = news /\ crossed' = crossed
    BY <1>3 DEF TokenStays
  <2>4. tabCalls' \subseteq TabCalls
    BY <1>0, <2>1, <2>2
  <2>5. given' \in Nat /\ given <= given'
    BY <1>0, <1>3
  <2>6. \A b \in tabCalls' : b = d \/ b \in tabCalls
    BY <2>1
  <2>7. \/ d.gave = 0
        \/ d.gave = given' /\ given < given' /\ d.at = "ok" /\ d.op \in {"enable", "login"}
    BY <1>0, <1>3, <2>2
  <2>8. turnedDown' = turnedDown
    BY <1>3
  <2> QED
    BY <2>2, <2>3, <2>4, <2>5, <2>6, <2>7, <2>8, CallsMove
<1>4. ASSUME NEW c \in tabCalls, DeviceAnswers(c)
      PROVE  TabsOK'
  <2>1. TokenStays /\ turnedDown' = turnedDown
    BY <1>4 DEF DeviceAnswers
  <2>2. \/ /\ Answers(c, "ok", given + 1) /\ given' = given + 1
           /\ c.op \in {"enable", "login"}
        \/ /\ given' = given
           /\ Answers(c, "failed", 0) \/ Answers(c, "ok", 0) \/ Answers(c, "unauthorized", 0)
    BY <1>4 DEF DeviceAnswers, lockVars
  <2>3. given + 1 \in Nat
    BY <1>0
  <2> QED
    BY <1>3, <2>1, <2>2, <2>3
<1>5. ASSUME NEW c \in tabCalls, LoseCall(c)
      PROVE  TabsOK'
  <2>1. TokenStays /\ turnedDown' = turnedDown /\ given' = given /\ Answers(c, "failed", 0)
    BY <1>5 DEF LoseCall, lockVars
  <2> QED
    BY <1>3, <2>1
<1>6. ASSUME TokenStays, UNCHANGED <<given, tabCalls, turnedDown>>
      PROVE  TabsOK'
  <2>1. storage' = storage /\ token' = token /\ news' = news /\ crossed' = crossed
    BY <1>6 DEF TokenStays
  <2>2. given' \in Nat /\ given <= given' /\ tabCalls' = tabCalls /\ turnedDown' = turnedDown
    BY <1>0, <1>6
  <2> QED
    BY <1>0, <2>1, <2>2, CallsMove
<1>7. ASSUME NEW c \in tabCalls, AnswerArrives(c)
      PROVE  TabsOK'
  <2>1. /\ tabCalls' = tabCalls \ {c} /\ given' = given
        /\ turnedDown' = turnedDown \cup
             (IF c.at = "unauthorized" \/ (c.at = "ok" /\ c.op = "disable")
              THEN {c.bearer} \ {0} ELSE {})
    BY <1>7 DEF AnswerArrives, lockVars
  <2>2. c \in TabCalls /\ c.tab \in Tabs /\ c.gave \in Nat
    BY <1>0 DEF TabCalls
  <2>3. 0 \notin turnedDown' /\ \A g \in turnedDown' : g \in turnedDown \/ g = c.bearer
    BY <2>1 DEF TabsOK, TokenOK
  <2>4. CASE c.gave # 0
    <3>1. c.at = "ok" /\ c.op \in {"enable", "login"} /\ ~ Circulates(c.gave)
      BY <2>4 DEF TabsOK, FreshOK
    <3>2. TokenBecomes(c.tab, c.gave)
      BY <1>7, <2>4, <3>1 DEF AnswerArrives
    <3>3. c.gave \notin turnedDown'
      BY <2>1, <3>1 DEF Circulates
    <3>4. tabCalls' \subseteq tabCalls /\ c \notin tabCalls'
      BY <2>1
    <3> QED
      BY <2>1, <2>2, <2>3, <3>2, <3>3, <3>4, TokenMoves
  <2>5. CASE c.gave = 0 /\ TokenBecomes(c.tab, 0)
    <3>1. tabCalls' \subseteq tabCalls
      BY <2>1
    <3> QED
      BY <2>1, <2>2, <2>3, <2>5, <3>1, TokenMoves
  <2>6. CASE c.gave = 0 /\ TokenStays /\ turnedDown' = turnedDown
    <3>1. storage' = storage /\ token' = token /\ news' = news /\ crossed' = crossed
      BY <2>6 DEF TokenStays
    <3>2. given' \in Nat /\ given <= given' /\ tabCalls' \subseteq TabCalls
      BY <1>0, <2>1
    <3> QED
      BY <2>1, <2>6, <3>1, <3>2, CallsMove
  <2>7. c.gave = 0 => TokenBecomes(c.tab, 0) \/ (TokenStays /\ turnedDown' = turnedDown)
    <3>1. CASE c.gave = 0 /\ c.at = "ok" /\ c.op = "disable"
      BY <1>7, <3>1 DEF AnswerArrives
    <3>2. CASE c.gave = 0 /\ c.at = "unauthorized" /\ c.bearer # 0
      BY <1>7, <3>2 DEF AnswerArrives
    <3>3. CASE /\ c.gave = 0 /\ ~ (c.at = "ok" /\ c.op = "disable")
               /\ ~ (c.at = "unauthorized" /\ c.bearer # 0)
      <4>1. TokenStays
        BY <1>7, <3>3 DEF AnswerArrives
      <4>2. turnedDown' = turnedDown
        BY <2>1, <3>3
      <4> QED
        BY <4>1, <4>2
    <3> QED
      BY <3>1, <3>2, <3>3
  <2> QED
    BY <2>4, <2>5, <2>6, <2>7
<1>8. TokensEnd \/ OthersEnable \/ UNCHANGED browserVars
      => TokenStays /\ UNCHANGED <<given, tabCalls, turnedDown>>
  BY DEF TokensEnd, OthersEnable, browserVars, lockVars, TokenStays
<1> QED
  BY <1>1, <1>2, <1>4, <1>5, <1>6, <1>7, <1>8, TabHears DEF BrowserTabsNext

LEMMA TabsDoAgree == TabsOK => TabsAgree
  BY DEF TabsOK, TabsAgree, HeardOK, Newest, TokenOK

-----------------------------------------------------------------------------
(* The list of programs: what a dialog asks about, or the notice offers,   *)
(* already is what may be sent.                                            *)
Uploads == [file : Files \cup {NoFile}, row : Rows \cup {NoRow}, to : Rows \cup {NoRow}]
PageRequests == [op : {"create", "replace", "delete", "load", "unload"},
                 id : Rows \cup {NoRow}, upload : Uploads, newest : BOOLEAN]

Sendable(u) ==
  /\ u.file.ok
  /\ u.to = NoRow =>
       u.row = NoRow \/ u.file.declared \notin {NoRow, u.row}
  /\ u.to # NoRow =>
       u.to = u.row /\ u.file.declared \in {NoRow, u.row}

ProgramsPageTyped ==
  /\ target \in Rows \cup {NoRow} /\ deleting \in Rows \cup {NoRow}
  /\ reads \subseteq Uploads /\ sent \subseteq PageRequests
  /\ asking \in Uploads /\ offered \in Uploads

ProgramsPageOK ==
  /\ ProgramsPageTyped
  /\ \A u \in reads : u.to = u.row
  /\ asking # NoUpload => Sendable(asking)
  /\ offered # NoUpload => Sendable(offered)
  /\ deleting # NoRow => deleting \notin Readonly

(* What a request does that goes out now.                                  *)
MeantNow(r) ==
  /\ r.op = "replace" => /\ r.id = r.upload.row
                         /\ r.upload.file.declared \in {NoRow, r.id}
  /\ r.op = "create" => \/ r.upload.row = NoRow
                        \/ r.upload.file.declared \notin {NoRow, r.upload.row}
  /\ r.op \in {"create", "replace"} =>
       r.upload.file.ok /\ (r.upload.file.warns => asking = r.upload)
  /\ r.op = "delete" => r.id = deleting /\ r.id \notin Readonly

NewestAreMeant == \A r \in sent' : r.newest /\ r \notin sent => MeantNow(r)

LEMMA NoUploadIsOne == NoUpload \in Uploads
  BY DEF NoUpload, Upload, Uploads

LEMMA ProgramsPageStarts == ProgramsPageInit => ProgramsPageOK
  BY NoUploadIsOne DEF ProgramsPageInit, ProgramsPageOK, ProgramsPageTyped

(* One request more; the others are what they were, or not the newest.     *)
LEMMA Mutates ==
  ASSUME ProgramsPageOK, NEW request \in PageRequests, Mutate(request), MeantNow(request)
  PROVE  sent' \subseteq PageRequests /\ NewestAreMeant
<1>1. sent \subseteq PageRequests
  BY DEF ProgramsPageOK, ProgramsPageTyped
<1>2. ASSUME NEW r \in sent
      PROVE  /\ [r EXCEPT !.newest = r.newest /\ r.op # request.op] \in PageRequests
             /\ [r EXCEPT !.newest = r.newest /\ r.op # request.op].newest =>
                  [r EXCEPT !.newest = r.newest /\ r.op # request.op] = r
  <2>1. r \in PageRequests /\ (r.newest /\ r.op # request.op) \in BOOLEAN
    BY <1>1
  <2>2. CASE r.newest /\ r.op # request.op
    <3>1. r.newest = TRUE /\ [r EXCEPT !.newest = r.newest /\ r.op # request.op]
                               = [r EXCEPT !.newest = TRUE]
      BY <2>1, <2>2 DEF PageRequests
    <3>2. [r EXCEPT !.newest = TRUE] = r
      BY <2>1, <3>1 DEF PageRequests
    <3> QED
      BY <2>1, <3>1, <3>2
  <2>3. CASE ~ (r.newest /\ r.op # request.op)
    BY <2>1, <2>3 DEF PageRequests
  <2> QED
    BY <2>2, <2>3
<1>3. sent' = {[r EXCEPT !.newest = r.newest /\ r.op # request.op] : r \in sent} \cup {request}
  BY DEF Mutate
<1>4. sent' \subseteq PageRequests
  BY <1>2, <1>3
<1>5. \A r \in sent' : r.newest => r \in sent \/ r = request
  BY <1>2, <1>3
<1> QED
  BY <1>4, <1>5, Zenon DEF NewestAreMeant

LEMMA Sends ==
  ASSUME ProgramsPageOK, NEW u \in Uploads, Sendable(u),
         u.file.warns => asking = u, Send(u)
  PROVE  sent' \subseteq PageRequests /\ NewestAreMeant
<1> DEFINE kind == IF u.to = NoRow THEN "create" ELSE "replace"
           request == RequestFor(kind, u.to, u)
<1>1. request \in PageRequests
  BY DEF RequestFor, PageRequests, Uploads
<1>2. request.op = kind /\ request.id = u.to /\ request.upload = u
  BY DEF RequestFor
<1>3. Mutate(request)
  BY DEF Send
<1>4. MeantNow(request)
  BY <1>2 DEF MeantNow, Sendable
<1> HIDE DEF request
<1> QED
  BY <1>1, <1>3, <1>4, Mutates

LEMMA ConfirmsOrSends ==
  ASSUME ProgramsPageOK, NEW u \in Uploads, Sendable(u), ConfirmOrSend(u)
  PROVE  /\ sent' \subseteq PageRequests /\ NewestAreMeant
         /\ asking' \in Uploads /\ (asking' # NoUpload => Sendable(asking'))
<1>0. /\ sent \subseteq PageRequests /\ asking \in Uploads
      /\ asking # NoUpload => Sendable(asking)
  BY DEF ProgramsPageOK, ProgramsPageTyped
<1>1. CASE u.file.warns
  <2>1. asking' = u /\ sent' = sent
    BY <1>1 DEF ConfirmOrSend
  <2> QED
    BY <1>0, <2>1 DEF NewestAreMeant
<1>2. CASE ~ u.file.warns
  <2>1. asking' = asking /\ Send(u)
    BY <1>2 DEF ConfirmOrSend
  <2>2. sent' \subseteq PageRequests /\ NewestAreMeant
    BY <1>2, <2>1, Sends
  <2> QED
    BY <1>0, <2>1, <2>2
<1> QED
  BY <1>1, <1>2

LEMMA ProgramsPageSteps ==
  ASSUME ProgramsPageOK, [ProgramsPageNext]_programsPageVars
  PROVE  ProgramsPageOK' /\ NewestAreMeant
<1>0. /\ target \in Rows \cup {NoRow} /\ deleting \in Rows \cup {NoRow}
      /\ reads \subseteq Uploads /\ sent \subseteq PageRequests
      /\ asking \in Uploads /\ offered \in Uploads
      /\ \A u \in reads : u.to = u.row
      /\ asking # NoUpload => Sendable(asking)
      /\ offered # NoUpload => Sendable(offered)
      /\ deleting # NoRow => deleting \notin Readonly
      /\ NoUpload \in Uploads /\ NoRow \in Rows \cup {NoRow}
  BY NoUploadIsOne DEF ProgramsPageOK, ProgramsPageTyped
<1>1. ASSUME /\ target' \in Rows \cup {NoRow} /\ deleting' \in Rows \cup {NoRow}
             /\ reads' \subseteq Uploads /\ sent' \subseteq PageRequests
             /\ asking' \in Uploads /\ offered' \in Uploads
             /\ \A u \in reads' : u.to = u.row
             /\ asking' # NoUpload => Sendable(asking')
             /\ offered' # NoUpload => Sendable(offered')
             /\ deleting' # NoRow => deleting' \notin Readonly
      PROVE  ProgramsPageOK'
  <2>1. Sendable(asking)' = Sendable(asking') /\ Sendable(offered)' = Sendable(offered')
    BY DEF Sendable
  <2> QED
    BY <1>1, <2>1, Zenon DEF ProgramsPageOK, ProgramsPageTyped
<1>2. ASSUME sent' \subseteq sent
      PROVE  NewestAreMeant
  BY <1>2 DEF NewestAreMeant
<1>3. ASSUME NEW row \in Rows \cup {NoRow}, OpenPicker(row)
      PROVE  ProgramsPageOK' /\ NewestAreMeant
  BY <1>0, <1>1, <1>2, <1>3 DEF OpenPicker
<1>4. ASSUME NEW file \in Files, ChooseFile(file)
      PROVE  ProgramsPageOK' /\ NewestAreMeant
  <2>1. Upload(file, target, target) \in Uploads
    BY <1>0 DEF Upload, Uploads
  <2>2. Upload(file, target, target).to = Upload(file, target, target).row
    BY DEF Upload
  <2>3. /\ reads' = reads \cup {Upload(file, target, target)} /\ sent' = sent
        /\ target' = target /\ asking' = asking /\ offered' = offered /\ deleting' = deleting
    BY <1>4 DEF ChooseFile
  <2>4. reads' \subseteq Uploads /\ \A u \in reads' : u.to = u.row
    BY <1>0, <2>1, <2>2, <2>3
  <2> QED
    BY <1>0, <1>1, <1>2, <2>3, <2>4
<1>5. ASSUME NEW read \in reads, FileRead(read)
      PROVE  ProgramsPageOK' /\ NewestAreMeant
  <2>1. read \in Uploads /\ read.to = read.row
    BY <1>0
  <2>2. [read EXCEPT !.to = PickedFor(read)] = read
    BY <2>1 DEF PickedFor, Uploads
  <2>3. /\ reads' \subseteq reads /\ target' = target /\ deleting' = deleting
        /\ \/ ~ read.file.ok /\ offered' = NoUpload /\ asking' = asking /\ sent' = sent
           \/ /\ read.file.ok /\ WrongRow(read.file, read.to)
              /\ offered' = [read EXCEPT !.to = NoRow] /\ asking' = asking /\ sent' = sent
           \/ /\ read.file.ok /\ ~ WrongRow(read.file, read.to)
              /\ ConfirmOrSend(read) /\ offered' = offered
    BY <1>5, <2>2 DEF FileRead
  <2>4. reads' \subseteq Uploads /\ \A u \in reads' : u.to = u.row
    BY <1>0, <2>3
  <2>5. CASE offered' = NoUpload /\ asking' = asking /\ sent' = sent
    BY <1>0, <1>1, <1>2, <2>3, <2>4, <2>5
  <2>6. CASE /\ read.file.ok /\ WrongRow(read.file, read.to)
             /\ offered' = [read EXCEPT !.to = NoRow] /\ asking' = asking /\ sent' = sent
    <3>1. /\ offered' \in Uploads /\ offered'.to = NoRow
          /\ offered'.row = read.row /\ offered'.file = read.file
      BY <2>1, <2>6 DEF Uploads
    <3>2. Sendable(offered')
      BY <2>1, <2>6, <3>1 DEF WrongRow, Sendable
    <3> QED
      BY <1>0, <1>1, <1>2, <2>3, <2>4, <2>6, <3>1, <3>2
  <2>7. CASE /\ read.file.ok /\ ~ WrongRow(read.file, read.to)
             /\ ConfirmOrSend(read) /\ offered' = offered
    <3>1. Sendable(read)
      BY <2>1, <2>7 DEF WrongRow, Sendable
    <3>2. /\ sent' \subseteq PageRequests /\ NewestAreMeant
          /\ asking' \in Uploads /\ (asking' # NoUpload => Sendable(asking'))
      BY <2>1, <2>7, <3>1, ConfirmsOrSends
    <3> QED
      BY <1>0, <1>1, <2>3, <2>4, <2>7, <3>2
  <2> QED
    BY <2>3, <2>5, <2>6, <2>7
<1>6. CASE UploadAsNew
  <2>1. /\ offered # NoUpload /\ ConfirmOrSend(offered) /\ target' = target /\ reads' = reads
        /\ offered' = offered /\ deleting' = deleting
    BY <1>6 DEF UploadAsNew
  <2>2. /\ sent' \subseteq PageRequests /\ NewestAreMeant
        /\ asking' \in Uploads /\ (asking' # NoUpload => Sendable(asking'))
    BY <1>0, <2>1, ConfirmsOrSends
  <2> QED
    BY <1>0, <1>1, <2>1, <2>2
<1>7. CASE ConfirmUpload
  <2>1. /\ asking # NoUpload /\ asking' = NoUpload /\ Send(asking) /\ target' = target
        /\ reads' = reads /\ offered' = offered /\ deleting' = deleting
    BY <1>7 DEF ConfirmUpload
  <2>2. sent' \subseteq PageRequests /\ NewestAreMeant
    BY <1>0, <2>1, Sends
  <2> QED
    BY <1>0, <1>1, <2>1, <2>2
<1>8. ASSUME NEW row \in Rows, AskDelete(row)
      PROVE  ProgramsPageOK' /\ NewestAreMeant
  BY <1>0, <1>1, <1>2, <1>8 DEF AskDelete
<1>9. CASE ConfirmDelete
  <2> DEFINE request == RequestFor("delete", deleting, NoUpload)
  <2>1. /\ deleting # NoRow /\ deleting' = NoRow /\ Mutate(request) /\ target' = target
        /\ reads' = reads /\ offered' = offered /\ asking' = asking
    BY <1>9 DEF ConfirmDelete
  <2>2. request \in PageRequests /\ request.op = "delete" /\ request.id = deleting
    BY <1>0 DEF RequestFor, PageRequests
  <2>3. MeantNow(request)
    BY <1>0, <2>1, <2>2 DEF MeantNow
  <2> HIDE DEF request
  <2>4. sent' \subseteq PageRequests /\ NewestAreMeant
    BY <2>1, <2>2, <2>3, Mutates
  <2> QED
    BY <1>0, <1>1, <2>1, <2>4
<1>10. ASSUME NEW kind \in {"load", "unload"}, NEW row \in Rows \cup {NoRow}, LoadOrUnload(kind, row)
       PROVE  ProgramsPageOK' /\ NewestAreMeant
  <2> DEFINE request == RequestFor(kind, IF kind = "load" THEN row ELSE NoRow, NoUpload)
  <2>1. /\ Mutate(request) /\ target' = target /\ deleting' = deleting
        /\ reads' = reads /\ offered' = offered /\ asking' = asking
    BY <1>10 DEF LoadOrUnload
  <2>2. request \in PageRequests /\ request.op = kind
    BY <1>0 DEF RequestFor, PageRequests
  <2>3. MeantNow(request)
    BY <2>2 DEF MeantNow
  <2> HIDE DEF request
  <2>4. sent' \subseteq PageRequests /\ NewestAreMeant
    BY <2>1, <2>2, <2>3, Mutates
  <2> QED
    BY <1>0, <1>1, <2>1, <2>4
<1>11. ASSUME /\ target' = target /\ reads' = reads /\ sent' \subseteq sent
              /\ deleting' \in {deleting, NoRow} /\ asking' \in {asking, NoUpload}
              /\ offered' \in {offered, NoUpload}
       PROVE  ProgramsPageOK' /\ NewestAreMeant
  BY <1>0, <1>1, <1>2, <1>11
<1>12. (\/ DismissPicker \/ DismissNotice \/ CancelUpload \/ CancelDelete \/ OpenEditor
        \/ (\E row \in Rows \cup {NoRow} : Select(row) \/ CloseEditor(row))
        \/ (\E r \in sent, ok \in BOOLEAN : AnswerCame(r, ok))
        \/ UNCHANGED programsPageVars)
       => /\ target' = target /\ reads' = reads /\ sent' \subseteq sent
          /\ deleting' \in {deleting, NoRow} /\ asking' \in {asking, NoUpload}
          /\ offered' \in {offered, NoUpload}
  BY DEF DismissPicker, DismissNotice, CancelUpload, CancelDelete, OpenEditor, Select,
         CloseEditor, AnswerCame, programsPageVars
<1> QED
  BY <1>3, <1>4, <1>5, <1>6, <1>7, <1>8, <1>9, <1>10, <1>11, <1>12 DEF ProgramsPageNext

-----------------------------------------------------------------------------
(* The form with the hardware: while a save of it is under way it shows    *)
(* what was saved, and there is one such save.                             *)
PinsOf == BankPins \cup {NoPin, CompiledIn.banks[1]}
PortsOf == Ports \cup {0, Junk, LeftAlone.port, CompiledIn.port}
Forms == [port : PortsOf, banks : Seq(PinsOf)]
HardwareSaves == [op : {"save", "reset"}, patch : Forms, form : Forms, mine : BOOLEAN,
                  at : {"sent", "ok", "failed", "listing"}]
Fetches == [at : {"idle", "asked", "answered"}, config : Forms, open : BOOLEAN,
            after : BOOLEAN]
Copies == [config : Forms, open : BOOLEAN, there : BOOLEAN]

HardwareTyped ==
  /\ stored \in Forms /\ windowOpen \in BOOLEAN
  /\ known \in Copies /\ known.config.banks # <<>> /\ stored.banks # <<>>
  /\ fetch \in Fetches /\ fetch.config.banks # <<>>
  /\ draft \in Forms /\ saves \subseteq HardwareSaves

SaveShown(r) ==
  /\ NoPin \notin Range(r.patch.banks)
  /\ r.mine /\ r.at # "listing" => r.form = draft /\ In(r.patch) \subseteq In(draft)

HardwareOK ==
  /\ HardwareTyped
  /\ \A r \in saves : SaveShown(r)
  /\ \A r \in saves, s \in saves : r.mine /\ s.mine => r = s

(* What a step does to the saves and to what was typed.                    *)
NewSavesAreTheAuthors ==
  \A r \in saves' \ saves :
    r.at = "sent" => /\ In(r.patch) \subseteq In(draft)
                     /\ NoPin \notin Range(r.patch.banks)
TypedGoes ==
  In(draft) \ In(draft') # {} =>
    \/ PressDiscard
    \/ ~ known'.open
    \/ \E r \in saves : r.mine /\ SaveSucceeded(r) /\ r.form = draft

LEMMA FormFields ==
  /\ Fields = {"port", "banks"} /\ LeftAlone.banks = <<>> /\ LeftAlone.port = -2
  /\ LeftAlone \in Forms /\ CompiledIn \in Forms /\ CompiledIn.banks # <<>>
  /\ Range(<<>>) = {}
<1>1. Fields = {"port", "banks"} /\ LeftAlone.banks = <<>> /\ LeftAlone.port = -2
  BY DEF Fields, LeftAlone
<1>2. LeftAlone \in Forms
  <2>1. <<>> \in Seq(PinsOf)
    BY EmptySeq
  <2> QED
    BY <1>1, <2>1 DEF LeftAlone, Forms, PortsOf
<1>3. CompiledIn \in Forms /\ CompiledIn.banks # <<>>
  <2> DEFINE pin == CHOOSE p \in BankPins : \A q \in BankPins : p <= q
             port == CHOOSE p \in Ports : \A q \in Ports : p <= q
  <2>1. CompiledIn = [port |-> port, banks |-> <<pin>>]
    BY DEF CompiledIn
  <2> HIDE DEF pin, port
  <2>2. CompiledIn.banks = <<pin>> /\ CompiledIn.port = port
    BY <2>1
  <2>3. pin = CompiledIn.banks[1] /\ <<pin>> # <<>>
    BY <2>2
  <2>4. pin \in PinsOf /\ port \in PortsOf
    BY <2>2, <2>3 DEF PinsOf, PortsOf
  <2>5. <<pin>> \in Seq(PinsOf)
    BY <2>4
  <2> QED
    BY <2>1, <2>2, <2>3, <2>4, <2>5 DEF Forms
<1>4. Range(<<>>) = {}
  BY DEF Range
<1> QED
  BY <1>1, <1>2, <1>3, <1>4

LEMMA HardwareStarts == HardwareFormInit => HardwareOK
<1> SUFFICES ASSUME HardwareFormInit PROVE HardwareOK
  OBVIOUS
<1>1. /\ stored = CompiledIn /\ windowOpen = TRUE /\ known = Unfetched
      /\ fetch = Fetching(FALSE) /\ draft = LeftAlone /\ saves = {}
  BY DEF HardwareFormInit
<1>2. Unfetched \in Copies /\ Unfetched.config = CompiledIn
  BY FormFields DEF Unfetched, Copies
<1>3. Fetching(FALSE) \in Fetches /\ Fetching(FALSE).config = CompiledIn
  BY FormFields DEF Fetching, NoFetch, Fetches
<1>4. HardwareTyped
  BY <1>1, <1>2, <1>3, FormFields DEF HardwareTyped
<1> QED
  BY <1>1, <1>4 DEF HardwareOK

LEMMA FetchesAre ==
  ASSUME NEW after \in BOOLEAN
  PROVE  /\ Fetching(after) \in Fetches /\ Fetching(after).config = CompiledIn
         /\ NoFetch \in Fetches /\ NoFetch.config = CompiledIn
  BY FormFields DEF Fetching, NoFetch, Fetches

(* The values on the form.                                                 *)
LEMMA ValuesShown ==
  ASSUME HardwareTyped
  PROVE  /\ Value("banks") \in Seq(PinsOf) /\ Value("banks") # <<>>
         /\ Value("banks") = IF draft.banks = <<>> THEN known.config.banks ELSE draft.banks
<1>1. "banks" \in In(draft) <=> draft.banks # <<>>
  BY FormFields DEF In
<1>2. Value("banks") = IF draft.banks = <<>> THEN known.config.banks ELSE draft.banks
  BY <1>1 DEF Value
<1>3. draft.banks \in Seq(PinsOf) /\ known.config.banks \in Seq(PinsOf) /\ known.config.banks # <<>>
  BY DEF HardwareTyped, Forms, Copies
<1> QED
  BY <1>2, <1>3

(* A patch is part of what was typed.                                      *)
LEMMA PatchIsTyped ==
  ASSUME HardwareTyped, ~ BankPinMissing
  PROVE  Patch \in Forms /\ In(Patch) \subseteq In(draft) /\ NoPin \notin Range(Patch.banks)
<1>1. /\ draft \in Forms /\ known.config \in Forms
      /\ draft = [port |-> draft.port, banks |-> draft.banks]
  BY DEF HardwareTyped, Copies, Forms
<1>2. Patch = [f \in {"port", "banks"} |-> IF draft[f] = known.config[f] THEN LeftAlone[f] ELSE draft[f]]
  BY FormFields DEF Patch
<1>3. /\ Patch.port = IF draft.port = known.config.port THEN LeftAlone.port ELSE draft.port
      /\ Patch.banks = IF draft.banks = known.config.banks THEN <<>> ELSE draft.banks
  BY <1>2, FormFields
<1>4. Patch = [port |-> Patch.port, banks |-> Patch.banks]
  BY <1>2
<1>5. Patch.port \in PortsOf /\ Patch.banks \in Seq(PinsOf)
  <2>1. draft.port \in PortsOf /\ draft.banks \in Seq(PinsOf)
    BY <1>1 DEF Forms
  <2>2. LeftAlone.port \in PortsOf /\ <<>> \in Seq(PinsOf)
    BY EmptySeq DEF PortsOf
  <2> QED
    BY <1>3, <2>1, <2>2
<1>6. Patch \in Forms
  BY <1>4, <1>5 DEF Forms
<1>7. In(Patch) \subseteq In(draft)
  BY <1>3, FormFields DEF In
<1>8. NoPin \notin Range(Patch.banks)
  <2>1. CASE draft.banks = <<>> \/ draft.banks = known.config.banks
    BY <1>3, <2>1, FormFields
  <2>2. CASE draft.banks # <<>> /\ draft.banks # known.config.banks
    BY <1>3, <2>2, ValuesShown DEF BankPinMissing
  <2> QED
    BY <2>1, <2>2
<1> QED
  BY <1>6, <1>7, <1>8

(* A save moves on: the rest of what it says stays.                        *)
LEMMA SaveMoves ==
  ASSUME HardwareOK, NEW r \in saves, NEW at \in {"ok", "failed", "listing"},
         saves' = (saves \ {r}) \cup {[r EXCEPT !.at = at]},
         draft' = draft \/ (r.mine /\ at = "listing"),
         r.at # "listing"
  PROVE  /\ saves' \subseteq HardwareSaves
         /\ \A s \in saves' : SaveShown(s)'
         /\ \A s \in saves', q \in saves' : s.mine /\ q.mine => s = q
         /\ NewSavesAreTheAuthors
<1> DEFINE d == [r EXCEPT !.at = at]
<1>0. saves \subseteq HardwareSaves
  BY DEF HardwareOK, HardwareTyped
<1>1. /\ d \in HardwareSaves /\ d.at = at /\ d.mine = r.mine /\ d.patch = r.patch
      /\ d.form = r.form
  BY <1>0 DEF HardwareSaves
<1> HIDE DEF d
<1>2. saves' = (saves \ {r}) \cup {d}
  BY DEF d
<1>3. saves' \subseteq HardwareSaves
  BY <1>0, <1>1, <1>2
<1>4. \A s \in saves', q \in saves' : s.mine /\ q.mine => s = q
  BY <1>1, <1>2 DEF HardwareOK
<1>5. SaveShown(d)'
  <2>1. SaveShown(r)
    BY DEF HardwareOK
  <2>2. CASE draft' = draft
    BY <1>1, <2>1, <2>2 DEF SaveShown
  <2>3. CASE at = "listing"
    BY <1>1, <2>1, <2>3 DEF SaveShown
  <2> QED
    BY <2>2, <2>3
<1>6. ASSUME NEW s \in saves \ {r}
      PROVE  SaveShown(s)'
  <2>1. SaveShown(s)
    BY DEF HardwareOK
  <2>2. CASE draft' = draft
    BY <2>1, <2>2 DEF SaveShown
  <2>3. CASE r.mine
    <3>1. ~ s.mine
      BY <2>3 DEF HardwareOK
    <3> QED
      BY <2>1, <3>1 DEF SaveShown
  <2> QED
    BY <2>2, <2>3
<1>7. \A s \in saves' : SaveShown(s)'
  BY <1>2, <1>5, <1>6
<1>8. NewSavesAreTheAuthors
  BY <1>1, <1>2 DEF NewSavesAreTheAuthors
<1> QED
  BY <1>3, <1>4, <1>7, <1>8

(* A save goes out, while no other is under way.                           *)
LEMMA SaveGoesOut ==
  ASSUME HardwareOK, Editable, NEW kind \in {"save", "reset"}, NEW patch \in Forms,
         In(patch) \subseteq In(draft), NoPin \notin Range(patch.banks),
         saves' = saves \cup {SaveOf(kind, patch)}, draft' = draft
  PROVE  /\ saves' \subseteq HardwareSaves
         /\ \A s \in saves' : SaveShown(s)'
         /\ \A s \in saves', q \in saves' : s.mine /\ q.mine => s = q
         /\ NewSavesAreTheAuthors
<1>0. saves \subseteq HardwareSaves /\ draft \in Forms
  BY DEF HardwareOK, HardwareTyped
<1> PICK d : d = SaveOf(kind, patch)
  OBVIOUS
<1>1. d \in HardwareSaves /\ d.patch = patch /\ d.form = draft /\ d.mine
  BY <1>0 DEF SaveOf, HardwareSaves
<1>2. saves' = saves \cup {d}
  OBVIOUS
<1>3. \A s \in saves : ~ s.mine
  BY DEF Editable, BusySaving
<1>4. SaveShown(d)'
  BY <1>1 DEF SaveShown
<1>5. \A s \in saves : SaveShown(s)'
  BY DEF HardwareOK, SaveShown
<1> QED
  BY <1>0, <1>1, <1>2, <1>3, <1>4, <1>5 DEF NewSavesAreTheAuthors

LEMMA FieldSet ==
  ASSUME HardwareOK, NEW field \in {"port", "banks"}, NEW next, SetField(field, next),
         next # LeftAlone[field],
         field = "port" => next \in PortsOf, field = "banks" => next \in Seq(PinsOf)
  PROVE  HardwareOK' /\ NewSavesAreTheAuthors /\ TypedGoes
<1>1. /\ draft' = [draft EXCEPT ![field] = next] /\ stored' = stored /\ known' = known
      /\ windowOpen' = windowOpen /\ fetch' = fetch /\ saves' = saves
  BY DEF SetField
<1>2. draft \in Forms /\ draft = [port |-> draft.port, banks |-> draft.banks]
  BY DEF HardwareOK, HardwareTyped, Forms
<1>3. draft' \in Forms
  <2>1. CASE field = "port"
    BY <1>1, <1>2, <2>1 DEF Forms
  <2>2. CASE field = "banks"
    BY <1>1, <1>2, <2>2 DEF Forms
  <2> QED
    BY <2>1, <2>2
<1>4. \A s \in saves : ~ s.mine
  BY DEF SetField, Editable, BusySaving
<1>5. \A s \in saves : SaveShown(s)'
  BY <1>4 DEF HardwareOK, SaveShown
<1>6. HardwareOK'
  BY <1>1, <1>3, <1>5 DEF HardwareOK, HardwareTyped
<1>7. In(draft) \subseteq In(draft')
  <2>1. CASE field = "port"
    BY <1>1, <1>2, <2>1, FormFields DEF In
  <2>2. CASE field = "banks"
    BY <1>1, <1>2, <2>2, FormFields DEF In
  <2> QED
    BY <2>1, <2>2
<1>8. NewSavesAreTheAuthors /\ TypedGoes
  BY <1>1, <1>7 DEF NewSavesAreTheAuthors, TypedGoes
<1> QED
  BY <1>6, <1>8

(* The page's copy changes, and takes the form with it when it says that   *)
(* the window is shut.                                                     *)
LEMMA CopyChanges ==
  ASSUME HardwareOK, NEW seen \in Copies, seen.config.banks # <<>>, KnownBecomes(seen, saves),
         stored' = stored, windowOpen' = windowOpen, fetch' \in Fetches,
         fetch'.config.banks # <<>>
  PROVE  HardwareOK' /\ NewSavesAreTheAuthors /\ TypedGoes
<1>0. known' = seen /\ saves \subseteq HardwareSaves
  BY DEF KnownBecomes, HardwareOK, HardwareTyped
<1>1. CASE saves' = saves /\ draft' = draft
  <2>1. \A s \in saves : SaveShown(s)'
    BY <1>1 DEF HardwareOK, SaveShown
  <2>2. HardwareOK'
    BY <1>0, <1>1, <2>1 DEF HardwareOK, HardwareTyped
  <2>3. NewSavesAreTheAuthors /\ TypedGoes
    BY <1>1 DEF NewSavesAreTheAuthors, TypedGoes
  <2> QED
    BY <2>2, <2>3
<1>2. CASE /\ ~ seen.open /\ draft' = LeftAlone
           /\ saves' = {[r EXCEPT !.mine = FALSE] : r \in saves}
  <2>1. ASSUME NEW r \in saves
        PROVE  /\ [r EXCEPT !.mine = FALSE] \in HardwareSaves
               /\ ~ [r EXCEPT !.mine = FALSE].mine
               /\ [r EXCEPT !.mine = FALSE].patch = r.patch
               /\ [r EXCEPT !.mine = FALSE].at = r.at
               /\ ~ r.mine => [r EXCEPT !.mine = FALSE] = r
    BY <1>0 DEF HardwareSaves
  <2>8. ASSUME NEW s \in saves'
        PROVE  /\ s \in HardwareSaves /\ ~ s.mine
               /\ \E r \in saves : s.patch = r.patch /\ s.at = r.at /\ (~ r.mine => s = r)
    <3>1. PICK r \in saves : s = [r EXCEPT !.mine = FALSE]
      BY <1>2
    <3> QED
      BY <2>1, <3>1, Zenon
  <2>2. saves' \subseteq HardwareSaves /\ \A s \in saves' : ~ s.mine
    BY <2>8, Zenon
  <2>3. \A s \in saves' : \E r \in saves : s.patch = r.patch /\ s.at = r.at
                                             /\ (~ r.mine => s = r)
    BY <2>8, Zenon
  <2>4. \A s \in saves' : SaveShown(s)'
    BY <2>2, <2>3 DEF HardwareOK, SaveShown
  <2>5. HardwareTyped'
    BY <1>0, <1>2, <2>2, FormFields DEF HardwareOK, HardwareTyped
  <2>6. NewSavesAreTheAuthors
    BY <2>3 DEF HardwareOK, SaveShown, NewSavesAreTheAuthors
  <2>7. TypedGoes
    BY <1>0, <1>2 DEF TypedGoes
  <2> QED
    BY <2>2, <2>4, <2>5, <2>6, <2>7 DEF HardwareOK
<1> QED
  BY <1>1, <1>2 DEF KnownBecomes

LEMMA HardwareSteps ==
  ASSUME HardwareOK, [HardwareFormNext]_hardwareFormVars
  PROVE  HardwareOK' /\ NewSavesAreTheAuthors /\ TypedGoes
<1>0. /\ HardwareTyped /\ \A s \in saves : SaveShown(s)
      /\ \A r \in saves, s \in saves : r.mine /\ s.mine => r = s
  BY DEF HardwareOK
<1>1. ASSUME NEW port \in Ports \cup {0, Junk}, TypePort(port)
      PROVE  HardwareOK' /\ NewSavesAreTheAuthors /\ TypedGoes
  <2>1. port # LeftAlone["port"]
    <3>1. LeftAlone["port"] = -2
      BY DEF LeftAlone
    <3>2. port # -2
      BY HardwareAssumption DEF Junk
    <3> QED
      BY <3>1, <3>2
  <2>2. port \in PortsOf
    BY DEF PortsOf
  <2> QED
    BY <1>1, <2>1, <2>2, FieldSet DEF TypePort
<1>2. ASSUME NEW next \in Seq(PinsOf), next # <<>>, SetField("banks", next)
      PROVE  HardwareOK' /\ NewSavesAreTheAuthors /\ TypedGoes
  <2>1. next # LeftAlone["banks"]
    BY <1>2, FormFields
  <2> QED
    BY <1>2, <2>1, FieldSet
<1> DEFINE shown == Value("banks")
<1>3. shown \in Seq(PinsOf) /\ shown # <<>> /\ NoPin \in PinsOf
  BY <1>0, ValuesShown DEF PinsOf
<1>4. ASSUME NEW i \in 1 .. MostBanks, NEW pin \in BankPins \cup {NoPin}, EditBank(i, pin)
      PROVE  HardwareOK' /\ NewSavesAreTheAuthors /\ TypedGoes
  <2>1. i \in DOMAIN shown /\ SetField("banks", [shown EXCEPT ![i] = pin])
    BY <1>4 DEF EditBank
  <2> HIDE DEF shown
  <2>2. pin \in PinsOf
    BY DEF PinsOf
  <2>3. [shown EXCEPT ![i] = pin] \in Seq(PinsOf) /\ [shown EXCEPT ![i] = pin] # <<>>
    <3>1. i \in 1 .. Len(shown)
      BY <1>3, <2>1
    <3>2. /\ [shown EXCEPT ![i] = pin] \in Seq(PinsOf)
          /\ Len([shown EXCEPT ![i] = pin]) = Len(shown)
      BY <1>3, <2>2, <3>1, ExceptSeq
    <3>3. Len(shown) # 0
      BY <1>3, EmptySeq
    <3> QED
      BY <3>2, <3>3, EmptySeq
  <2> QED
    BY <1>2, <2>1, <2>3
<1>5. CASE AddBank
  <2>1. SetField("banks", Append(shown, NoPin))
    BY <1>5 DEF AddBank
  <2> HIDE DEF shown
  <2>2. Append(shown, NoPin) \in Seq(PinsOf) /\ Append(shown, NoPin) # <<>>
    BY <1>3, AppendProperties
  <2> QED
    BY <1>2, <2>1, <2>2
<1>6. CASE RemoveBank
  <2>1. Len(shown) > 1 /\ SetField("banks", Front(shown))
    BY <1>6 DEF RemoveBank
  <2> HIDE DEF shown
  <2>2. Front(shown) \in Seq(PinsOf) /\ Front(shown) # <<>>
    <3> DEFINE n == Len(shown) - 1
    <3>1. Len(shown) \in Nat
      BY <1>3, LenProperties
    <3>2. n \in Nat \ {0} /\ n \in Int /\ 1 <= n /\ n - 1 + 1 = n
      <4> SUFFICES ASSUME NEW k \in Nat, k > 1
                   PROVE  k - 1 \in Nat \ {0} /\ k - 1 \in Int /\ 1 <= k - 1 /\ k - 1 - 1 + 1 = k - 1
        BY <2>1, <3>1, Zenon
      <4> QED
        OBVIOUS
    <3>3. \A i \in 1 .. n : shown[i] \in PinsOf
      <4>1. \A i \in 1 .. n : i \in 1 .. Len(shown)
        BY <3>1
      <4> QED
        BY <1>3, <4>1, ElementOfSeq
    <3>4. Front(shown) = SubSeq(shown, 1, n)
      BY DEF Front
    <3> HIDE DEF n
    <3>5. SubSeq(shown, 1, n) \in Seq(PinsOf) /\ Len(SubSeq(shown, 1, n)) = n
      BY <3>2, <3>3, SubSeqProperties
    <3> QED
      BY <3>2, <3>4, <3>5, EmptySeq
  <2> QED
    BY <1>2, <2>1, <2>2
<1>7. ASSUME /\ saves' \subseteq HardwareSaves
             /\ \A s \in saves' : SaveShown(s)'
             /\ \A s \in saves', q \in saves' : s.mine /\ q.mine => s = q
             /\ NewSavesAreTheAuthors
             /\ draft' = draft /\ known' = known /\ windowOpen' \in BOOLEAN
             /\ stored' \in Forms /\ stored'.banks # <<>>
             /\ fetch' \in Fetches /\ fetch'.config.banks # <<>>
      PROVE  HardwareOK' /\ NewSavesAreTheAuthors /\ TypedGoes
  <2>1. HardwareTyped'
    BY <1>0, <1>7 DEF HardwareTyped
  <2>2. TypedGoes
    BY <1>7 DEF TypedGoes
  <2> QED
    BY <1>7, <2>1, <2>2 DEF HardwareOK
<1>8. /\ stored \in Forms /\ stored.banks # <<>> /\ windowOpen \in BOOLEAN
      /\ fetch \in Fetches /\ fetch.config.banks # <<>> /\ saves \subseteq HardwareSaves
      /\ known \in Copies /\ known.config.banks # <<>>
  BY <1>0 DEF HardwareTyped
<1>9. CASE PressSave
  <2>1. /\ Editable /\ ~ BankPinMissing /\ saves' = saves \cup {SaveOf("save", Patch)}
        /\ stored' = stored /\ windowOpen' = windowOpen /\ known' = known /\ fetch' = fetch
        /\ draft' = draft
    BY <1>9 DEF PressSave
  <2>2. Patch \in Forms /\ In(Patch) \subseteq In(draft) /\ NoPin \notin Range(Patch.banks)
    BY <1>0, <2>1, PatchIsTyped
  <2>3. /\ saves' \subseteq HardwareSaves
        /\ \A s \in saves' : SaveShown(s)'
        /\ \A s \in saves', q \in saves' : s.mine /\ q.mine => s = q
        /\ NewSavesAreTheAuthors
    BY <2>1, <2>2, SaveGoesOut
  <2> QED
    BY <1>7, <1>8, <2>1, <2>3
<1>10. CASE ResetToDefaults
  <2>1. /\ Editable /\ saves' = saves \cup {SaveOf("reset", LeftAlone)}
        /\ stored' = stored /\ windowOpen' = windowOpen /\ known' = known /\ fetch' = fetch
        /\ draft' = draft
    BY <1>10 DEF ResetToDefaults
  <2>2. /\ LeftAlone \in Forms /\ In(LeftAlone) \subseteq In(draft)
        /\ NoPin \notin Range(LeftAlone.banks)
    BY FormFields DEF In
  <2>3. /\ saves' \subseteq HardwareSaves
        /\ \A s \in saves' : SaveShown(s)'
        /\ \A s \in saves', q \in saves' : s.mine /\ q.mine => s = q
        /\ NewSavesAreTheAuthors
    BY <2>1, <2>2, SaveGoesOut
  <2> QED
    BY <1>7, <1>8, <2>1, <2>3
<1>11. CASE PressDiscard
  <2>1. /\ draft' = LeftAlone /\ saves' = saves /\ stored' = stored /\ windowOpen' = windowOpen
        /\ known' = known /\ fetch' = fetch /\ \A s \in saves : ~ s.mine
    BY <1>11 DEF PressDiscard, Editable, BusySaving
  <2>2. \A s \in saves : SaveShown(s)'
    BY <1>0, <2>1 DEF SaveShown
  <2>3. HardwareTyped'
    BY <1>0, <2>1, FormFields DEF HardwareTyped
  <2>4. NewSavesAreTheAuthors /\ TypedGoes
    BY <1>11, <2>1 DEF NewSavesAreTheAuthors, TypedGoes
  <2> QED
    BY <1>0, <2>1, <2>2, <2>3, <2>4 DEF HardwareOK
<1>12. ASSUME NEW r \in saves, HandleSave(r)
       PROVE  HardwareOK' /\ NewSavesAreTheAuthors /\ TypedGoes
  <2>1. /\ windowOpen' = windowOpen /\ known' = known /\ fetch' = fetch /\ draft' = draft
        /\ r.at = "sent" /\ stored' \in {stored, Outcome(r)}
    BY <1>12 DEF HandleSave
  <2>2. PICK at \in {"ok", "failed"} : saves' = (saves \ {r}) \cup {[r EXCEPT !.at = at]}
    BY <1>12 DEF HandleSave
  <2>3. Outcome(r) \in Forms /\ Outcome(r).banks # <<>>
    <3>1. r.patch \in Forms
      BY <1>8 DEF HardwareSaves
    <3>2. Merged(r.patch) \in Forms /\ Merged(r.patch).banks # <<>>
      BY <1>8, <3>1, FormFields DEF Merged, Forms
    <3> QED
      BY <3>2, FormFields DEF Outcome
  <2>4. /\ saves' \subseteq HardwareSaves
        /\ \A s \in saves' : SaveShown(s)'
        /\ \A s \in saves', q \in saves' : s.mine /\ q.mine => s = q
        /\ NewSavesAreTheAuthors
    BY <2>1, <2>2, SaveMoves
  <2> QED
    BY <1>7, <1>8, <2>1, <2>3, <2>4
<1>13. ASSUME NEW r \in saves, LoseSave(r)
       PROVE  HardwareOK' /\ NewSavesAreTheAuthors /\ TypedGoes
  <2>1. /\ windowOpen' = windowOpen /\ known' = known /\ fetch' = fetch /\ draft' = draft
        /\ r.at \in {"sent", "ok"} /\ stored' = stored
        /\ saves' = (saves \ {r}) \cup {[r EXCEPT !.at = "failed"]}
    BY <1>13 DEF LoseSave
  <2>2. /\ saves' \subseteq HardwareSaves
        /\ \A s \in saves' : SaveShown(s)'
        /\ \A s \in saves', q \in saves' : s.mine /\ q.mine => s = q
        /\ NewSavesAreTheAuthors
    BY <2>1, SaveMoves
  <2> QED
    BY <1>7, <1>8, <2>1, <2>2
<1>14. ASSUME NEW r \in saves, SaveSucceeded(r)
       PROVE  HardwareOK' /\ NewSavesAreTheAuthors /\ TypedGoes
  <2>1. /\ r.at = "ok" /\ draft' = (IF r.mine THEN LeftAlone ELSE draft)
        /\ saves' = (saves \ {r}) \cup {[r EXCEPT !.at = "listing"]}
        /\ fetch' = Fetching(TRUE) /\ stored' = stored /\ windowOpen' = windowOpen
        /\ known' = known
    BY <1>14 DEF SaveSucceeded
  <2>2. draft' = draft \/ r.mine
    BY <2>1
  <2>3. /\ saves' \subseteq HardwareSaves
        /\ \A s \in saves' : SaveShown(s)'
        /\ \A s \in saves', q \in saves' : s.mine /\ q.mine => s = q
        /\ NewSavesAreTheAuthors
    BY <2>1, <2>2, SaveMoves
  <2>4. fetch' \in Fetches /\ fetch'.config.banks # <<>>
    BY <2>1, FetchesAre, FormFields
  <2>5. draft' \in Forms
    BY <1>0, <2>1, FormFields DEF HardwareTyped
  <2>6. HardwareTyped'
    BY <1>8, <2>1, <2>3, <2>4, <2>5 DEF HardwareTyped
  <2>7. TypedGoes
    <3>1. CASE r.mine
      BY <1>0, <1>14, <2>1, <3>1 DEF SaveShown, TypedGoes
    <3>2. CASE ~ r.mine
      BY <2>1, <3>2 DEF TypedGoes
    <3> QED
      BY <3>1, <3>2
  <2> QED
    BY <2>3, <2>6, <2>7 DEF HardwareOK
<1>15. ASSUME saves' \subseteq saves, draft' = draft
       PROVE  /\ saves' \subseteq HardwareSaves
              /\ \A s \in saves' : SaveShown(s)'
              /\ \A s \in saves', q \in saves' : s.mine /\ q.mine => s = q
              /\ NewSavesAreTheAuthors
  <2>1. \A s \in saves : SaveShown(s)'
    BY <1>0, <1>15 DEF SaveShown
  <2>2. NewSavesAreTheAuthors
    BY <1>15 DEF NewSavesAreTheAuthors
  <2> QED
    BY <1>0, <1>8, <1>15, <2>1, <2>2
<1>16. ASSUME NEW r \in saves, SaveSettled(r) \/ SaveFailed(r)
       PROVE  HardwareOK' /\ NewSavesAreTheAuthors /\ TypedGoes
  <2>1. /\ saves' \subseteq saves /\ draft' = draft /\ stored' = stored /\ known' = known
        /\ windowOpen' = windowOpen /\ fetch' = fetch
    BY <1>16 DEF SaveSettled, SaveFailed
  <2> QED
    BY <1>7, <1>8, <1>15, <2>1
<1>17. ASSUME NEW config \in Configurations, OthersSave(config)
       PROVE  HardwareOK' /\ NewSavesAreTheAuthors /\ TypedGoes
  <2>1. /\ stored' = config /\ windowOpen' = windowOpen /\ known' = known /\ fetch' = fetch
        /\ draft' = draft /\ saves' = saves
    BY <1>17 DEF OthersSave
  <2>2. PICK n \in 1 .. MostBanks :
          config \in [port : Ports, banks : BankRows(BankPins)] /\ config.banks \in [1 .. n -> BankPins]
    BY DEF Configurations, BankRows
  <2>3. n \in Nat \ {0}
    BY <2>2, HardwareAssumption
  <2>4. config.banks \in Seq(PinsOf) /\ config.banks # <<>>
    <3>1. config.banks \in [1 .. n -> PinsOf]
      BY <2>2 DEF PinsOf
    <3>2. config.banks \in Seq(PinsOf) /\ Len(config.banks) = n
      BY <2>3, <3>1
    <3> QED
      BY <2>3, <3>2
  <2>5. config \in Forms
    BY <2>2, <2>4 DEF Forms, PortsOf
  <2> QED
    BY <1>7, <1>8, <1>15, <2>1, <2>4, <2>5
<1>18. CASE Refetch \/ ConfigNotFetched \/ ServeConfig \/ WindowMoves
  <2>1. /\ stored' = stored /\ known' = known /\ draft' = draft /\ saves' = saves
        /\ windowOpen' \in BOOLEAN
    BY <1>8, <1>18 DEF Refetch, ConfigNotFetched, ServeConfig, WindowMoves
  <2>2. \/ fetch' \in {fetch, NoFetch, Fetching(FALSE)}
        \/ fetch' = [fetch EXCEPT !.at = "answered", !.config = stored, !.open = windowOpen]
    BY <1>18 DEF Refetch, ConfigNotFetched, ServeConfig, WindowMoves
  <2>3. /\ [fetch EXCEPT !.at = "answered", !.config = stored, !.open = windowOpen] \in Fetches
        /\ [fetch EXCEPT !.at = "answered", !.config = stored, !.open = windowOpen].config = stored
    BY <1>8 DEF Fetches
  <2>4. fetch' \in Fetches /\ fetch'.config.banks # <<>>
    BY <1>8, <2>2, <2>3, FetchesAre, FormFields
  <2> QED
    BY <1>7, <1>8, <1>15, <2>1, <2>4
<1>19. CASE ConfigFetched
  <2> DEFINE seen == [config |-> fetch.config, open |-> fetch.open, there |-> TRUE]
  <2>1. /\ KnownBecomes(seen, saves) /\ fetch' = NoFetch
        /\ stored' = stored /\ windowOpen' = windowOpen
    BY <1>19 DEF ConfigFetched
  <2>2. seen \in Copies /\ seen.config = fetch.config
    BY <1>8 DEF Copies, Fetches
  <2> HIDE DEF seen
  <2>3. fetch' \in Fetches /\ fetch'.config.banks # <<>>
    BY <2>1, FetchesAre, FormFields
  <2> QED
    BY <1>8, <2>1, <2>2, <2>3, CopyChanges
<1>20. CASE HearWindow
  <2> DEFINE seen == [known EXCEPT !.open = windowOpen]
  <2>1. /\ KnownBecomes(seen, saves) /\ fetch' = fetch
        /\ stored' = stored /\ windowOpen' = windowOpen
    BY <1>20 DEF HearWindow
  <2>2. seen \in Copies /\ seen.config = known.config
    BY <1>8 DEF Copies
  <2> HIDE DEF seen
  <2> QED
    BY <1>8, <2>1, <2>2, CopyChanges
<1>21. CASE UNCHANGED hardwareFormVars
  BY <1>7, <1>8, <1>15, <1>21 DEF hardwareFormVars
<1> QED
  BY <1>1, <1>4, <1>5, <1>6, <1>9, <1>10, <1>11, <1>12, <1>13, <1>14, <1>16, <1>17, <1>18,
     <1>19, <1>20, <1>21 DEF HardwareFormNext
-----------------------------------------------------------------------------
(* Induction over Nat, stated for a set.                                   *)
LEMMA UpTo ==
  ASSUME NEW n \in Nat, NEW S,
         0 \in S,
         \A i \in 1 .. n : i - 1 \in S => i \in S
  PROVE  0 .. n \subseteq S
<1>1. SUFFICES ASSUME NEW Bad, Bad = (0 .. n) \ S, Bad # {}
               PROVE  FALSE
  OBVIOUS
<1>2. PICK m \in Bad : \A k \in Bad : ~ (<<k, m>> \in OpToRel(<, Nat))
  <2>1. Bad \subseteq Nat
    BY <1>1
  <2> QED
    BY <2>1, <1>1, NatLessThanWellFounded, WFMin, Zenon
<1>3. m \in 1 .. n /\ m - 1 \in 0 .. n
  BY <1>1
<1>4. m - 1 \notin S
  BY <1>1, <1>3
<1>5. m - 1 \in Bad
  BY <1>1, <1>3, <1>4
<1>6. <<m - 1, m>> \in OpToRel(<, Nat)
  BY <1>3 DEF OpToRel
<1> QED
  BY <1>2, <1>5, <1>6

(* What every event does to the banks is done to those of the event before *)
(* it, from the first on.                                                  *)
Steps(D, N) == [(1 .. N) \X D -> D]
Taken(g, D, z, N, h) == /\ g \in [0 .. N -> D]
                        /\ g[0] = z
                        /\ \A k \in 1 .. N : g[k] = h[<<k, g[k - 1]>>]
LEMMA StepByStep ==
  ASSUME NEW D, NEW z \in D, NEW N \in Nat, NEW h \in Steps(D, N)
  PROVE  \E g : Taken(g, D, z, N, h)
<1> DEFINE TakesSteps(g, m) == g[0] = z /\ \A k \in 1 .. m : g[k] = h[<<k, g[k - 1]>>]
           Reached == {m \in 0 .. N : \E g \in [0 .. N -> D] : TakesSteps(g, m)}
<1>0. h \in [(1 .. N) \X D -> D]
  BY DEF Steps
<1>1. 0 \in Reached
  <2> DEFINE first == [k \in 0 .. N |-> z]
  <2>1. first \in [0 .. N -> D] /\ first[0] = z
    OBVIOUS
  <2>2. TakesSteps(first, 0)
    <3> HIDE DEF first
    <3> QED
      BY <2>1
  <2> HIDE DEF first, TakesSteps
  <2> QED
    BY <2>1, <2>2
<1>2. ASSUME NEW m \in 1 .. N, m - 1 \in Reached
      PROVE  m \in Reached
  <2>1. PICK g \in [0 .. N -> D] : TakesSteps(g, m - 1)
    BY <1>2
  <2>2. m \in 0 .. N /\ m - 1 \in 0 .. N /\ m # 0 /\ <<m, g[m - 1]>> \in (1 .. N) \X D
    OBVIOUS
  <2> DEFINE more == [g EXCEPT ![m] = h[<<m, g[m - 1]>>]]
  <2>3. more \in [0 .. N -> D]
    BY <2>2, <1>0
  <2>4. more[0] = z
    BY <2>1, <2>2
  <2>5. ASSUME NEW k \in 1 .. m
        PROVE  more[k] = h[<<k, more[k - 1]>>]
    <3>1. k \in 0 .. N /\ k - 1 \in 0 .. N /\ k - 1 # m
      OBVIOUS
    <3>2. more[k - 1] = g[k - 1]
      BY <3>1
    <3>3. CASE k = m
      BY <3>1, <3>2, <3>3
    <3>4. CASE k # m
      <4>1. k \in 1 .. m - 1
        BY <3>4
      <4>2. g[k] = h[<<k, g[k - 1]>>]
        BY <4>1, <2>1
      <4>3. more[k] = g[k]
        BY <3>1, <3>4
      <4> QED
        BY <3>2, <4>2, <4>3
    <3> QED
      BY <3>3, <3>4
  <2>6. TakesSteps(more, m)
    BY <2>4, <2>5
  <2> HIDE DEF more, TakesSteps
  <2> QED
    BY <2>3, <2>6, <2>2
<1>3. 0 .. N \subseteq Reached
  <2> HIDE DEF Reached
  <2> QED
    BY <1>1, <1>2, UpTo
<1>4. N \in Reached
  BY <1>3
<1>5. PICK g \in [0 .. N -> D] : TakesSteps(g, N)
  BY <1>4
<1>6. Taken(g, D, z, N, h)
  BY <1>5 DEF Taken
<1> QED
  BY <1>6

(* The device, event by event.                                             *)
LEMMA DeviceBanksAre ==
  ASSUME NEW events \in Seq(ProgramEvents), NEW count \in BankLetters
  PROVE  /\ DeviceBanks(events, count)[0] = 1 .. count
         /\ \A n \in 1 .. Len(events) :
              DeviceBanks(events, count)[n]
                = EnterEventOf(events[n], DeviceBanks(events, count)[n - 1], count)
<1> DEFINE N == Len(events)
           D == SUBSET (1 .. count)
           z == 1 .. count
           Step == [p \in (1 .. N) \X D |-> EnterEventOf(events[p[1]], p[2], count)]
           Rec(f) == [n \in 0 .. N |-> IF n = 0 THEN 1 .. count
                                       ELSE EnterEventOf(events[n], f[n - 1], count)]
           F == CHOOSE f : f = Rec(f)
<1>0. N \in Nat /\ z \in D
  OBVIOUS
<1>1. \A n \in 1 .. N : \A s \in D : EnterEventOf(events[n], s, count) \in D
  BY DEF EnterEventOf
<1>2. Step \in Steps(D, N)
  BY <1>1 DEF Steps
<1>3. PICK g : Taken(g, D, z, N, Step)
  <2> HIDE DEF Step, D, z, N
  <2> QED
    BY <1>0, <1>2, StepByStep
<1>4. /\ g \in [0 .. N -> D] /\ g[0] = 1 .. count
      /\ \A k \in 1 .. N : g[k] = EnterEventOf(events[k], g[k - 1], count)
  <2>1. g \in [0 .. N -> D] /\ g[0] = 1 .. count /\ \A k \in 1 .. N : g[k] = Step[<<k, g[k - 1]>>]
    BY <1>3 DEF Taken
  <2>2. ASSUME NEW k \in 1 .. N
        PROVE  g[k] = EnterEventOf(events[k], g[k - 1], count)
    <3>1. k - 1 \in 0 .. N
      BY <1>0
    <3>2. <<k, g[k - 1]>> \in (1 .. N) \X D
      BY <2>1, <3>1
    <3> QED
      BY <2>1, <3>2
  <2> QED
    BY <2>1, <2>2
<1> HIDE DEF N
<1>5. g = Rec(g)
  <2>1. \A i \in 0 .. N : g[i] = IF i = 0 THEN 1 .. count ELSE EnterEventOf(events[i], g[i - 1], count)
    <3> TAKE i \in 0 .. N
    <3>1. i = 0 \/ i \in 1 .. N
      BY <1>0
    <3>2. \A k \in 1 .. N : k # 0
      BY <1>0
    <3> QED
      BY <1>4, <3>1, <3>2
  <2> QED
    BY <1>4, <2>1
<1>6. F = Rec(F)
  BY <1>5
<1>7. DeviceBanks(events, count) = F
  BY DEF DeviceBanks, N
<1> HIDE DEF F
<1>8. /\ F[0] = 1 .. count
      /\ \A i \in 1 .. N : F[i] = EnterEventOf(events[i], F[i - 1], count)
  <2>1. 0 \in 0 .. N /\ \A i \in 1 .. N : i \in 0 .. N /\ i # 0
    BY <1>0
  <2>2. \A i \in 0 .. N : F[i] = IF i = 0 THEN 1 .. count ELSE EnterEventOf(events[i], F[i - 1], count)
    BY <1>6
  <2> QED
    BY <2>1, <2>2
<1> QED
  BY <1>7, <1>8 DEF N

(* An event names a way for every bank or has its command.                 *)
LEMMA WaysAre ==
  ASSUME NEW event \in ProgramEvents, NEW count \in BankLetters, NEW b \in 1 .. count
  PROVE  /\ b \in BankLetters
         /\ SimulatedWay(event, b) = "show" \/ SimulatedWay(event, b) = "hide"
              \/ SimulatedWay(event, b) = ""
<1>1. b \in BankLetters
  BY MirrorsAssumption DEF BankLetters
<1> QED
  BY <1>1 DEF ProgramEvents, Ways, SimulatedWay

(* The browser, event by event.                                            *)
LEMMA SimulateBanksAre ==
  ASSUME NEW events \in Seq(ProgramEvents), NEW count \in BankLetters
  PROVE  /\ SimulateBanks(events, count)[0] = [b \in 1 .. count |-> "shown"]
         /\ \A n \in 1 .. Len(events) :
              SimulateBanks(events, count)[n]
                = SimulateEvent(events[n], SimulateBanks(events, count)[n - 1], count)
<1> DEFINE N == Len(events)
           D == [1 .. count -> {"shown", "hidden"}]
           z == [b \in 1 .. count |-> "shown"]
           Step == [p \in (1 .. N) \X D |-> SimulateEvent(events[p[1]], p[2], count)]
           Rec(f) == [n \in 0 .. N |-> IF n = 0 THEN [b \in 1 .. count |-> "shown"]
                                       ELSE SimulateEvent(events[n], f[n - 1], count)]
           F == CHOOSE f : f = Rec(f)
<1>0. N \in Nat /\ z \in D
  OBVIOUS
<1>1. \A n \in 1 .. N : \A s \in D : SimulateEvent(events[n], s, count) \in D
  <2> TAKE n \in 1 .. N
  <2> TAKE s \in D
  <2>0. events[n] \in ProgramEvents
    OBVIOUS
  <2>1. \A b \in 1 .. count :
          \/ SimulatedWay(events[n], b) = "show" \/ SimulatedWay(events[n], b) = "hide"
          \/ SimulatedWay(events[n], b) = ""
    BY <2>0, WaysAre, Zenon
  <2> QED
    BY <2>1 DEF SimulateEvent
<1>2. Step \in Steps(D, N)
  BY <1>1 DEF Steps
<1>3. PICK g : Taken(g, D, z, N, Step)
  <2> HIDE DEF Step, D, z, N
  <2> QED
    BY <1>0, <1>2, StepByStep
<1>4. /\ g \in [0 .. N -> D] /\ g[0] = z
      /\ \A k \in 1 .. N : g[k] = SimulateEvent(events[k], g[k - 1], count)
  <2>1. g \in [0 .. N -> D] /\ g[0] = z /\ \A k \in 1 .. N : g[k] = Step[<<k, g[k - 1]>>]
    BY <1>3 DEF Taken
  <2>2. ASSUME NEW k \in 1 .. N
        PROVE  g[k] = SimulateEvent(events[k], g[k - 1], count)
    <3>1. k - 1 \in 0 .. N
      BY <1>0
    <3>2. <<k, g[k - 1]>> \in (1 .. N) \X D
      BY <2>1, <3>1
    <3> QED
      BY <2>1, <3>2
  <2> QED
    BY <2>1, <2>2
<1> HIDE DEF N
<1>5. g = Rec(g)
  <2>1. \A i \in 0 .. N : g[i] = IF i = 0 THEN z ELSE SimulateEvent(events[i], g[i - 1], count)
    <3> TAKE i \in 0 .. N
    <3>1. i = 0 \/ i \in 1 .. N
      BY <1>0
    <3>2. \A k \in 1 .. N : k # 0
      BY <1>0
    <3> QED
      BY <1>4, <3>1, <3>2
  <2> QED
    BY <1>4, <2>1
<1>6. F = Rec(F)
  BY <1>5
<1>7. SimulateBanks(events, count) = F
  BY DEF SimulateBanks, N
<1> HIDE DEF F
<1>8. /\ F[0] = z
      /\ \A i \in 1 .. N : F[i] = SimulateEvent(events[i], F[i - 1], count)
  <2>1. 0 \in 0 .. N /\ \A i \in 1 .. N : i \in 0 .. N /\ i # 0
    BY <1>0
  <2>2. \A i \in 0 .. N : F[i] = IF i = 0 THEN z ELSE SimulateEvent(events[i], F[i - 1], count)
    BY <1>6
  <2> QED
    BY <2>1, <2>2
<1> QED
  BY <1>7, <1>8 DEF N

(* The banks that are shown in a state of the timeline.                    *)
ShownBanks(state, count) == {b \in 1 .. count : state[b] = "shown"}

(* One event turns the same banks on both.                                 *)
LEMMA OneEventAgrees ==
  ASSUME NEW event \in ProgramEvents, NEW count \in BankLetters,
         NEW before, NEW turned,
         turned = ShownBanks(before, count)
  PROVE  ShownBanks(SimulateEvent(event, before, count), count)
           = EnterEventOf(event, turned, count)
<1>0. \A b \in 1 .. count : b \in turned <=> before[b] = "shown"
  BY DEF ShownBanks
<1>1. ASSUME NEW b \in 1 .. count
      PROVE  SimulateEvent(event, before, count)[b] = "shown" <=> b \in EnterEventOf(event, turned, count)
  <2>1. b \in BankLetters
    BY WaysAre
  <2>2. event.banks[b] \in Ways /\ event.command \in Ways
    BY <2>1 DEF ProgramEvents
  <2>3. SimulateEvent(event, before, count)[b] =
          CASE SimulatedWay(event, b) = "show" -> "shown"
            [] SimulatedWay(event, b) = "hide" -> "hidden"
            [] SimulatedWay(event, b) = "" -> before[b]
    BY DEF SimulateEvent
  <2>4. CASE SimulatedWay(event, b) = "show"
    BY <1>0, <2>1, <2>2, <2>3, <2>4 DEF SimulatedWay, EnterEventOf, Ways
  <2>5. CASE SimulatedWay(event, b) = "hide"
    BY <1>0, <2>1, <2>2, <2>3, <2>5 DEF SimulatedWay, EnterEventOf, Ways
  <2>6. CASE SimulatedWay(event, b) = ""
    BY <1>0, <2>1, <2>2, <2>3, <2>6 DEF SimulatedWay, EnterEventOf, Ways
  <2> QED
    BY <2>4, <2>5, <2>6, WaysAre
<1>2. EnterEventOf(event, turned, count) \subseteq 1 .. count
  <2>1. turned \subseteq 1 .. count
    BY DEF ShownBanks
  <2> QED
    BY <2>1 DEF EnterEventOf
<1> QED
  BY <1>1, <1>2 DEF ShownBanks

LEMMA BanksAgree ==
  ASSUME NEW events \in Seq(ProgramEvents), NEW count \in BankLetters
  PROVE  \A n \in 0 .. Len(events) :
           {b \in 1 .. count : SimulateBanks(events, count)[n][b] = "shown"}
             = DeviceBanks(events, count)[n]
<1> DEFINE N == Len(events)
           S == SimulateBanks(events, count)
           T == DeviceBanks(events, count)
           Good == {n \in 0 .. N : ShownBanks(S[n], count) = T[n]}
<1>1. N \in Nat
  OBVIOUS
<1>2. /\ S[0] = [b \in 1 .. count |-> "shown"] /\ T[0] = 1 .. count
      /\ \A n \in 1 .. N : S[n] = SimulateEvent(events[n], S[n - 1], count)
      /\ \A n \in 1 .. N : T[n] = EnterEventOf(events[n], T[n - 1], count)
  BY DeviceBanksAre, SimulateBanksAre
<1>3. \A n \in 1 .. N : events[n] \in ProgramEvents
  OBVIOUS
<1> HIDE DEF S, T, N
<1>4. 0 \in Good
  <2>1. ShownBanks(S[0], count) = 1 .. count
    BY <1>2 DEF ShownBanks
  <2> QED
    BY <2>1, <1>1, <1>2
<1>5. \A n \in 1 .. N : n - 1 \in Good => n \in Good
  <2> TAKE n \in 1 .. N
  <2> SUFFICES ASSUME n - 1 \in Good PROVE n \in Good
    OBVIOUS
  <2>1. T[n - 1] = ShownBanks(S[n - 1], count) /\ n \in 0 .. N
    BY <1>1
  <2>2. ShownBanks(SimulateEvent(events[n], S[n - 1], count), count)
           = EnterEventOf(events[n], T[n - 1], count)
    <3>1. events[n] \in ProgramEvents /\ T[n - 1] = ShownBanks(S[n - 1], count)
      BY <2>1, <1>3
    <3> QED
      BY <3>1, OneEventAgrees, Zenon
  <2> QED
    BY <2>1, <2>2, <1>2
<1>6. 0 .. N \subseteq Good
  <2> HIDE DEF Good
  <2> QED
    BY <1>1, <1>4, <1>5, UpTo
<1> QED
  BY <1>6 DEF S, T, N, ShownBanks

(* The spaces at either end are counted or looked for, to the same.        *)
LEMMA TrimsAgree ==
  ASSUME NEW A, NEW name \in Seq(A)
  PROVE  DeviceTrim(name) = PageTrim(name)
<1> DEFINE L == Len(name)
           Kept == {i \in 1 .. L : ~ IsSpace(name[i])}
           Prefix == {i \in 1 .. L : \A j \in 1 .. i : IsSpace(name[j])}
           front == SubSeq(name, Cardinality(Prefix) + 1, L)
           Suffix == {i \in 1 .. Len(front) : \A j \in i .. Len(front) : IsSpace(front[j])}
<1>1. L \in Nat /\ DOMAIN name = 1 .. L
  OBVIOUS
<1>2. DeviceTrim(name) = SubSeq(front, 1, Len(front) - Cardinality(Suffix))
  BY DEF DeviceTrim
<1>3. PageTrim(name) = IF Kept = {} THEN <<>>
                       ELSE SubSeq(name, CHOOSE i \in Kept : \A j \in Kept : i <= j,
                                         CHOOSE i \in Kept : \A j \in Kept : j <= i)
  <2>1. {i \in DOMAIN name : name[i] \notin SpaceOfThePage} = Kept
    <3>1. \A c : c \notin SpaceOfThePage <=> ~ IsSpace(c)
      BY Zenon DEF SpaceOfThePage, IsSpace
    <3> QED
      BY <1>1, <3>1
  <2> DEFINE Between(S) == IF S = {} THEN <<>>
                           ELSE SubSeq(name, CHOOSE i \in S : \A j \in S : i <= j,
                                             CHOOSE i \in S : \A j \in S : j <= i)
  <2>2. PageTrim(name) = Between({i \in DOMAIN name : name[i] \notin SpaceOfThePage})
    BY Zenon DEF PageTrim
  <2>3. PageTrim(name) = Between(Kept)
    <3> HIDE DEF Between, Kept
    <3> QED
      BY <2>1, <2>2
  <2> QED
    BY <2>3
<1> HIDE DEF Suffix, front, Prefix
<1>4. CASE Kept = {}
  <2>1. Prefix = 1 .. L
    BY <1>4 DEF Prefix
  <2>2. Cardinality(1 .. L) = L
    BY <1>1, FS_Interval
  <2>3. front = <<>>
    BY <2>1, <2>2, <1>1 DEF front
  <2>4. Suffix = {}
    BY <2>3 DEF Suffix
  <2>5. Cardinality(Suffix) = 0
    BY <2>4, FS_EmptySet
  <2> QED
    BY <1>2, <1>3, <1>4, <2>3, <2>5
<1>5. CASE Kept # {}
  <2>1. \E a \in Kept : \A j \in Kept : a <= j
    <3>1. PICK a \in Kept : \A k \in Kept : ~ (<<k, a>> \in OpToRel(<, Nat))
      <4>1. Kept \subseteq Nat
        OBVIOUS
      <4> QED
        BY <4>1, <1>5, NatLessThanWellFounded, WFMin, Zenon
    <3>2. \A k \in Kept : ~ (k < a)
      <4>1. \A k \in Kept : k < a => <<k, a>> \in OpToRel(<, Nat)
        BY DEF OpToRel
      <4> QED
        BY <3>1, <4>1
    <3>3. \A k \in Kept : k \in Nat
      OBVIOUS
    <3> QED
      BY <3>2, <3>3
  <2>2. \E z \in Kept : \A j \in Kept : j <= z
    <3> DEFINE FromTheEnd == {i \in 0 .. L : L - i \in Kept}
    <3>1. FromTheEnd # {}
      <4>1. PICK k \in Kept : TRUE
        BY <1>5
      <4>2. L - k \in 0 .. L /\ L - (L - k) = k
        BY <1>1
      <4> QED
        BY <4>1, <4>2
    <3>2. PICK a \in FromTheEnd : \A k \in FromTheEnd : ~ (<<k, a>> \in OpToRel(<, Nat))
      <4>1. FromTheEnd \subseteq Nat
        OBVIOUS
      <4> QED
        BY <4>1, <3>1, NatLessThanWellFounded, WFMin, Zenon
    <3>3. \A k \in FromTheEnd : ~ (k < a)
      <4>1. \A k \in FromTheEnd : k < a => <<k, a>> \in OpToRel(<, Nat)
        BY DEF OpToRel
      <4> QED
        BY <3>2, <4>1
    <3>4. ASSUME NEW j \in Kept
          PROVE  j <= L - a
      <4>1. L - j \in 0 .. L /\ L - (L - j) = j
        BY <1>1
      <4>2. L - j \in FromTheEnd
        BY <4>1
      <4> QED
        BY <4>1, <4>2, <3>3, <1>1
    <3> QED
      BY <3>4
  <2> DEFINE a == CHOOSE i \in Kept : \A j \in Kept : i <= j
             z == CHOOSE i \in Kept : \A j \in Kept : j <= i
  <2>3. a \in Kept /\ \A j \in Kept : a <= j
    BY <2>1
  <2>4. z \in Kept /\ \A j \in Kept : j <= z
    BY <2>2
  <2>5. PageTrim(name) = SubSeq(name, a, z)
    BY <1>3, <1>5
  <2> HIDE DEF a, z
  <2>6. a \in 1 .. L /\ z \in 1 .. L /\ a <= z /\ ~ IsSpace(name[a]) /\ ~ IsSpace(name[z])
    BY <2>3, <2>4
  <2>7. \A j \in 1 .. L : j < a \/ z < j => IsSpace(name[j])
    BY <2>3, <2>4, <2>6
  <2> HIDE DEF Kept
  <2>8. Prefix = 1 .. (a - 1)
    BY <2>6, <2>7, <1>1 DEF Prefix
  <2>9. Cardinality(1 .. (a - 1)) = a - 1
    <3>1. 1 \in Int /\ a - 1 \in Int
      BY <2>6
    <3>2. Cardinality(1 .. (a - 1)) = IF 1 > a - 1 THEN 0 ELSE a - 1 - 1 + 1
      BY <3>1, FS_Interval
    <3> QED
      BY <3>2, <2>6
  <2>10. front = SubSeq(name, a, L)
    BY <2>8, <2>9, <2>6 DEF front
  <2> HIDE DEF L
  <2>11. Len(front) = L + 1 - a /\ \A j \in 1 .. Len(front) : front[j] = name[j + a - 1]
    BY <2>10, <2>6, <1>1 DEF L
  <2>12. Suffix = (z - a + 2) .. (L + 1 - a)
    <3>1. ASSUME NEW i \in 1 .. Len(front)
          PROVE  (\A j \in i .. Len(front) : IsSpace(front[j])) <=> i >= z - a + 2
      <4>1. CASE i >= z - a + 2
        <5>1. ASSUME NEW j \in i .. Len(front)
              PROVE  IsSpace(front[j])
          <6>1. j \in 1 .. Len(front) /\ j + a - 1 \in 1 .. L /\ z < j + a - 1
            BY <4>1, <2>6, <2>11, <1>1
          <6> QED
            BY <6>1, <2>7, <2>11
        <5> QED
          BY <5>1, <4>1
      <4>2. CASE ~ (i >= z - a + 2)
        <5>1. z - a + 1 \in i .. Len(front) /\ z - a + 1 \in 1 .. Len(front)
          BY <4>2, <2>6, <2>11, <1>1
        <5>2. z - a + 1 + a - 1 = z
          BY <2>6
        <5>3. front[z - a + 1] = name[z]
          BY <5>1, <5>2, <2>11
        <5> QED
          BY <5>1, <5>3, <2>6, <4>2
      <4> QED
        BY <4>1, <4>2
    <3>2. \A i \in 1 .. Len(front) : i \in Suffix <=> i >= z - a + 2
      BY <3>1 DEF Suffix
    <3>3. Suffix \subseteq 1 .. Len(front)
      BY DEF Suffix
    <3>4. \A i \in Int : i \in (z - a + 2) .. (L + 1 - a)
                          <=> i \in 1 .. Len(front) /\ i >= z - a + 2
      <4>1. z - a + 2 >= 1 /\ Len(front) = L + 1 - a
        BY <2>6, <2>11, <1>1
      <4> QED
        BY <4>1, <2>6, <1>1
    <3>5. \A i \in Suffix : i \in Int
      BY <3>3
    <3>6. \A i \in (z - a + 2) .. (L + 1 - a) : i \in Int
      OBVIOUS
    <3>7. \A i \in Suffix : i \in (z - a + 2) .. (L + 1 - a)
      BY <3>2, <3>3, <3>4, <3>5
    <3>8. \A i \in (z - a + 2) .. (L + 1 - a) : i \in Suffix
      BY <3>2, <3>4, <3>6
    <3> QED
      BY <3>7, <3>8, Zenon
  <2>13. Cardinality(Suffix) = L - z
    <3> DEFINE p == z - a + 2
               q == L + 1 - a
    <3>1. p \in Int /\ q \in Int /\ (IF p > q THEN 0 ELSE q - p + 1) = L - z
      BY <2>6, <1>1
    <3>2. Suffix = p .. q
      BY <2>12
    <3> HIDE DEF p, q
    <3>3. Cardinality(p .. q) = IF p > q THEN 0 ELSE q - p + 1
      BY <3>1, FS_Interval
    <3> QED
      BY <3>1, <3>2, <3>3, Zenon
  <2>14. Len(front) - Cardinality(Suffix) = z - a + 1
    BY <2>13, <2>11, <2>6, <1>1
  <2>15. SubSeq(front, 1, z - a + 1) = SubSeq(name, a, z)
    BY <2>10, <2>6, <1>1 DEF L
  <2> QED
    BY <2>5, <2>14, <2>15, <1>2
<1> QED
  BY <1>4, <1>5

(* What the device does with a program's banks and with the name of a      *)
(* network is what the pages show of it, for every program and every name  *)
(* (Executor::enter_event(), chosen_ssid(), bank-state.ts,                 *)
(* ssid-choice.ts).                                                        *)
LEMMA EveryInputAgrees ==
  ASSUME NEW in \in NameInputs \cup RunInputs
  PROVE  MirrorsAgree(in)
<1>1. \A T : \A n \in Nat : BoundedSeq(T, n) \subseteq Seq(T)
  BY DEF BoundedSeq, SeqOf
<1>2. CASE in \in NameInputs
  <2>1. in.what = "ssid" /\ in.typed \in Seq(Characters)
    BY <1>1, <1>2, MirrorsAssumption, Zenon DEF NameInputs
  <2>2. DeviceTrim(in.typed) = PageTrim(in.typed)
    BY <2>1, TrimsAgree
  <2> QED
    BY <2>1, <2>2 DEF MirrorsAgree, ChosenSsid, DeviceSsid
<1>3. CASE in \in RunInputs
  <2>1. in.what = "banks" /\ in.events \in Seq(ProgramEvents) /\ in.count \in BankLetters
    BY <1>1, <1>3, MirrorsAssumption DEF RunInputs
  <2> QED
    BY <2>1, BanksAgree DEF MirrorsAgree
<1> QED
  BY <1>2, <1>3
-----------------------------------------------------------------------------
(* All parts together: a step is of one of them and leaves the others      *)
(* alone, and every part keeps its own invariant.                          *)
PagesInv ==
  /\ SettingsOK
  /\ ClipOK /\ NetworkOK /\ RestartOK
  /\ StandaloneTyped /\ StandaloneOK /\ PickerOK
  /\ RunPageTyped /\ RunPageOK
  /\ PageCachesTyped /\ PageCachesOK
  /\ TabsOK /\ ProgramsPageOK /\ HardwareOK

LEMMA PagesStart == PagesInit => PagesInv
  BY SettingsStart, ClipStarts, NetworkStarts, RestartStarts, StandaloneStarts, RunPageStarts,
     PageCachesStart, TabsStart, ProgramsPageStarts, HardwareStarts DEF PagesInit, PagesInv

LEMMA OnePartMoves ==
  ASSUME [PagesNext]_pagesVars
  PROVE  /\ [Next]_vars
         /\ [AudiosPageNext]_audiosPageVars /\ [WifiFormNext]_wifiFormVars
         /\ [RestartPageNext]_restartPageVars /\ [StandaloneNext]_standaloneVars
         /\ [RunPageNext]_runPageVars /\ [PageCacheNext]_pageCacheVars
         /\ [BrowserTabsNext]_browserVars /\ [ProgramsPageNext]_programsPageVars
         /\ [HardwareFormNext]_hardwareFormVars
<1>1. CASE PagesNext
  BY <1>1, Zenon DEF PagesNext
<1>2. CASE UNCHANGED pagesVars
  BY <1>2 DEF pagesVars
<1> QED
  BY <1>1, <1>2

LEMMA PagesKeep == PagesInv /\ [PagesNext]_pagesVars => PagesInv'
<1> SUFFICES ASSUME PagesInv, [PagesNext]_pagesVars
             PROVE  PagesInv'
  OBVIOUS
<1>0. SettingsOK'
  BY OnePartMoves, SettingsKeep DEF PagesInv
<1>1. ClipOK' /\ NetworkOK' /\ RestartOK'
  BY OnePartMoves, ClipKeeps, NetworkKeeps, RestartKeeps DEF PagesInv
<1>2. StandaloneTyped' /\ StandaloneOK' /\ PickerOK'
  BY OnePartMoves, StandaloneTypedKeeps, StandaloneKeeps, PickerKeeps DEF PagesInv
<1>3. RunPageTyped' /\ RunPageOK'
  BY OnePartMoves, RunPageKeeps DEF PagesInv
<1>4. PageCachesTyped' /\ PageCachesOK'
  BY OnePartMoves, PageCachesKeep DEF PagesInv
<1>5. TabsOK' /\ ProgramsPageOK' /\ HardwareOK'
  BY OnePartMoves, TabsKeep, ProgramsPageSteps, HardwareSteps DEF PagesInv
<1> QED
  BY <1>0, <1>1, <1>2, <1>3, <1>4, <1>5 DEF PagesInv

(* The inductive invariant of the settings and the pages, for any number   *)
(* of programs, files, tabs, banks, pins, ports and networks, and of       *)
(* changes and frames under way (hardware_store.cpp:162-318,               *)
(* run.tsx:158-661, programs.tsx:30-519, HardwareSection.tsx:119-529,      *)
(* SettingsContext.tsx:105-164).                                           *)
THEOREM PagesCorrect == PagesSpec => []PagesInv
<1> QED
  BY PagesStart, PagesKeep, PTL DEF PagesSpec

(* What clients were told of the settings is what the next boot adopts,    *)
(* whatever failed, was interrupted or came between, for any number of     *)
(* banks, pins and networks (hardware_store.cpp:221-318,                   *)
(* wifi_store.cpp:57-118).                                                 *)
THEOREM SettingsAlwaysAsTold == PagesSpec => []SettingsAreAsTold
<1>1. PagesInv => SettingsAreAsTold
  BY SettingsHold DEF PagesInv
<1> QED
  BY <1>1, PagesCorrect, PTL

(* What the pages show of the device is what the device has once           *)
(* everything was heard (run.tsx:184-325, useSSE.ts:52-144,                *)
(* RestartToApply.tsx:55-71, SettingsContext.tsx:131-164).                 *)
THEOREM PagesAlwaysAgree == PagesSpec => []PagesAgree
<1>1. PagesInv => PagesAgree
  BY RunPageAgrees, PageIsKeptUp, RestartIsTrue, TabsDoAgree, Zenon DEF PagesInv, PagesAgree
<1> QED
  BY <1>1, PagesCorrect, PTL

(* A form sends and clears what it shows, whatever its author does while   *)
(* something takes its time; and a list of files to open has the titles of *)
(* its own repository, but for those that came while it was asked for      *)
(* (audios.tsx:73-165, WifiConfigSection.tsx:68-89,                        *)
(* StandaloneEditorApp.tsx:135-176, 371-430).                              *)
THEOREM FormsAlwaysAsShown == PagesSpec => []FormsAreAsShown
<1>1. PagesInv => FormsAreAsShown
  BY ClipIsShown, NetworkIsShown DEF PagesInv, FormsAreAsShown, StandaloneOK, PickerOK
<1> QED
  BY <1>1, PagesCorrect, PTL

(* What goes out to the device is what its author meant when pressing the  *)
(* button: a start, a file for a program, a change of the hardware         *)
(* (run.tsx:158-173, programs.tsx:157-216, HardwareSection.tsx:193-206).   *)
THEOREM RequestsAlwaysMeant == PagesSpec => RequestsAreMeant
<1>1. PagesInv /\ [PagesNext]_pagesVars
        => [/\ \A r \in requests' \ requests :
                 r.op = "start" /\ r.at = "sent" =>
                   /\ r.id = IF page.armed = NoProgram THEN page.shown.program ELSE page.armed
                   /\ r.id = cached.program /\ stream # "down" /\ page.pick = NoPick
            /\ page.armed # NoProgram /\ page'.armed # page.armed =>
                 \/ Request("start", page.armed) \in requests'
                 \/ page'.notice = "not_started"
                 \/ CancelCountdown]_runPageVars
  BY OnePartMoves, StartsMeant, Zenon DEF PagesInv, Meant
<1>2. PagesInv /\ [PagesNext]_pagesVars
        => [\A r \in sent' :
              r.newest /\ r \notin sent =>
                /\ r.op = "replace" => /\ r.id = r.upload.row
                                       /\ r.upload.file.declared \in {NoRow, r.id}
                /\ r.op = "create" => \/ r.upload.row = NoRow
                                      \/ r.upload.file.declared \notin {NoRow, r.upload.row}
                /\ r.op \in {"create", "replace"} =>
                     r.upload.file.ok /\ (r.upload.file.warns => asking = r.upload)
                /\ r.op = "delete" => r.id = deleting /\ r.id \notin Readonly]_programsPageVars
  BY OnePartMoves, ProgramsPageSteps DEF PagesInv, NewestAreMeant, MeantNow
<1>3. PagesInv /\ [PagesNext]_pagesVars
        => [/\ \A r \in saves' \ saves :
                 r.at = "sent" => /\ In(r.patch) \subseteq In(draft)
                                  /\ NoPin \notin Range(r.patch.banks)
            /\ In(draft) \ In(draft') # {} =>
                 \/ PressDiscard
                 \/ ~ known'.open
                 \/ \E r \in saves : r.mine /\ SaveSucceeded(r) /\ r.form = draft]_hardwareFormVars
  BY OnePartMoves, HardwareSteps, Zenon DEF PagesInv, NewSavesAreTheAuthors, TypedGoes
<1> QED
  BY <1>1, <1>2, <1>3, PagesCorrect, PTL
     DEF PagesSpec, RequestsAreMeant, StartsAreMeant, WritesAreMeant, SavesAreTheAuthors

(* Device and browser come to the same: where the banks stand after every  *)
(* event of every program, and the network that was asked for              *)
(* (bank-state.ts:4-8, ssid-choice.ts:5-12).                               *)
THEOREM BothAlwaysAgree == PagesSpec => []BothAgree
<1> DEFINE Given == input \in MCInputs \cup {NoInput}
<1>1. PagesInit => Given
  BY Zenon DEF PagesInit, Given
<1>2. Given /\ [PagesNext]_pagesVars => Given'
  BY Zenon DEF Given, PagesNext, pagesVars
<1>3. Given => BothAgree
  <2>1. ASSUME input \in MCInputs
        PROVE  BothAgree
    BY <2>1, EveryInputAgrees, Zenon DEF MCInputs, BothAgree
  <2>2. ASSUME input = NoInput
        PROVE  BothAgree
    BY <2>2 DEF NoInput, BothAgree, MirrorsAgree
  <2> QED
    BY <2>1, <2>2 DEF Given
<1> QED
  BY <1>1, <1>2, <1>3, PTL DEF PagesSpec
=================================================================================
