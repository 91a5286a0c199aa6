------------------------- MODULE PeripheralProofs ---------------------------
(***************************************************************************)
(* The devices at the processor's pins: what the keypad scanner reports,   *)
(* the bytes the SPI interface makes of the card's bits, how long delay_us *)
(* lasts, and what the display shows, for every clock, counter and length. *)
(***************************************************************************)
EXTENDS Keypad, SpiDma, Delay, LcdDma, Integers, FiniteSetTheorems, TLAPS

-----------------------------------------------------------------------------
(* Keypad: what is reported was met by the scan, for any keys, any bouncing
   and any delays from 3 clocks on. *)

LEMMA ContactsAreKeys == KeypadTypeOK => \A contacts \in Contacts : contacts \subseteq Keys
BY DEF Contacts, KeypadTypeOK

LEMMA Count8 == \A n \in 0 .. 7 : (n + 1) % 8 \in 0 .. 7 /\ (n < 7 => (n + 1) % 8 = n + 1)
OBVIOUS

LEMMA Count256 ==
  \A n \in 0 .. 255 : (n + 1) % 256 \in 0 .. 255 /\ (n < 255 => (n + 1) % 256 = n + 1)
OBVIOUS

\* The four cases of Scan
LEMMA ScanCases ==
  ASSUME KeypadTypeOK, NEW contacts \in Contacts, Scan(contacts)
  PROVE  /\ ColumnsCounter' = (ColumnsCounter + 1) % 8
         /\ \/ /\ ColumnsCounter < 4
               /\ KeyCode' \in Keys /\ KeyCode' \in sampled' /\ sampled' \subseteq Keys
               /\ UNCHANGED NumberInactiveRows
            \/ /\ ColumnsCounter < 4
               /\ NumberInactiveRows' = (NumberInactiveRows + 1) % 8
               /\ UNCHANGED <<KeyCode, sampled>>
            \/ /\ ColumnsCounter = 4 /\ NumberInactiveRows = 4
               /\ KeyCode' = None /\ sampled' = {} /\ NumberInactiveRows' = 0
            \/ /\ ColumnsCounter = 4 /\ NumberInactiveRows # 4
               /\ NumberInactiveRows' = 0 /\ UNCHANGED <<KeyCode, sampled>>
            \/ ColumnsCounter > 4 /\ UNCHANGED <<KeyCode, NumberInactiveRows, sampled>>
<1> DEFINE inColumn == {k \in contacts : Column[k] = ColumnsCounter}
<1>0. ColumnsCounter \in 0 .. 7 /\ sampled \subseteq Keys /\ inColumn \subseteq Keys
  BY ContactsAreKeys DEF KeypadTypeOK
<1>1. CASE ColumnsCounter < 4 /\ Cardinality(inColumn) = 1
  <2>1. /\ KeyCode' \in inColumn /\ sampled' = sampled \cup inColumn
        /\ UNCHANGED NumberInactiveRows /\ ColumnsCounter' = (ColumnsCounter + 1) % 8
    BY <1>1 DEF Scan
  <2> QED
    BY <1>0, <1>1, <2>1
<1>2. CASE ColumnsCounter < 4 /\ Cardinality(inColumn) # 1
  BY <1>2 DEF Scan
<1>3. CASE ColumnsCounter = 4
  BY <1>3 DEF Scan
<1>4. CASE ColumnsCounter > 4
  BY <1>0, <1>4 DEF Scan
<1> QED
  BY <1>0, <1>1, <1>2, <1>3, <1>4

-----------------------------------------------------------------------------
(* Types *)

LEMMA KeypadClockType == KeypadTypeOK /\ KeypadClock => KeypadTypeOK'
<1> SUFFICES ASSUME KeypadTypeOK, KeypadClock PROVE KeypadTypeOK'
  OBVIOUS
<1>1. PICK contacts \in Contacts : Scan(contacts)
  BY DEF KeypadClock
<1>2. /\ ColumnsCounter' \in 0 .. 7 /\ NumberInactiveRows' \in 0 .. 7
      /\ KeyCode' \in Keys \cup {None} /\ sampled' \subseteq Keys
  <2>1. ColumnsCounter' \in 0 .. 7
    BY <1>1, ScanCases, Count8 DEF KeypadTypeOK
  <2>2. NumberInactiveRows' \in 0 .. 7
    BY <1>1, ScanCases, Count8 DEF KeypadTypeOK
  <2>3. KeyCode' \in Keys \cup {None} /\ sampled' \subseteq Keys
    BY <1>1, ScanCases DEF KeypadTypeOK
  <2> QED
    BY <2>1, <2>2, <2>3
<1>3. DelayCounter' \in 0 .. 255
  BY Count256 DEF KeypadClock, Debounce, KeypadTypeOK
<1>4. KeyPressed' \in Keys \cup {None}
  BY DEF KeypadClock, Debounce, KeypadTypeOK
<1>5. CurrentState' \in States
  BY DEF KeypadClock, Debounce, NextState, States, KeypadTypeOK
<1>6. still' \in 0 .. Dwell /\ reported' \subseteq Keys
  <2>1. still' \in 0 .. Dwell
    BY KeypadAssumption DEF KeypadClock, KeypadTypeOK
  <2>2. reported' \subseteq Keys
    BY DEF KeypadClock, KeypadTypeOK
  <2> QED
    BY <2>1, <2>2
<1>7. held' \subseteq Keys /\ moving' \in Keys
  BY DEF KeypadClock, KeypadTypeOK
<1> QED
  BY <1>2, <1>3, <1>4, <1>5, <1>6, <1>7 DEF KeypadTypeOK

LEMMA KeypadTypeStep == KeypadTypeOK /\ [KeypadNext]_keypadVars => KeypadTypeOK'
<1> SUFFICES ASSUME KeypadTypeOK, [KeypadNext]_keypadVars PROVE KeypadTypeOK'
  OBVIOUS
<1>1. CASE KeypadClock
  BY <1>1, KeypadClockType
<1>2. ASSUME NEW k \in Keys, Finger(k) PROVE KeypadTypeOK'
  <2>1. still' \in 0 .. Dwell
    BY <1>2, KeypadAssumption DEF Finger
  <2>2. held' \subseteq Keys /\ moving' \in Keys /\ reported' \subseteq Keys
    BY <1>2 DEF Finger, KeypadTypeOK
  <2> QED
    BY <1>2, <2>1, <2>2 DEF Finger, scanVars, stateVars, KeypadTypeOK
<1>3. CASE UNCHANGED keypadVars
  BY <1>3 DEF keypadVars, fingerVars, scanVars, stateVars, KeypadTypeOK
<1> QED
  BY <1>1, <1>2, <1>3 DEF KeypadNext

LEMMA KeypadTypeInit == KeypadInit => KeypadTypeOK
<1> SUFFICES ASSUME KeypadInit PROVE KeypadTypeOK
  OBVIOUS
<1>1. still \in 0 .. Dwell /\ DelayCounter \in 0 .. 255
      /\ ColumnsCounter \in 0 .. 7 /\ NumberInactiveRows \in 0 .. 7
  BY KeypadAssumption DEF KeypadInit
<1>2. held \subseteq Keys /\ moving \in Keys /\ sampled \subseteq Keys /\ reported \subseteq Keys
      /\ KeyCode \in Keys \cup {None} /\ KeyPressed \in Keys \cup {None}
      /\ CurrentState \in States
  BY KeypadAssumption DEF KeypadInit, States
<1> QED
  BY <1>1, <1>2 DEF KeypadTypeOK

\* The registers of scan and debouncing keep their types.
THEOREM KeypadTypeCorrect == KeypadSpec => []KeypadTypeOK
BY KeypadTypeInit, KeypadTypeStep, PTL DEF KeypadSpec

-----------------------------------------------------------------------------
(* What is reported *)

\* The first scan: the code is still that of power-up and no column had a key.
PowerUp ==
  /\ ColumnsCounter \in 0 .. 4 /\ NumberInactiveRows = ColumnsCounter
  /\ KeyCode = Zero
  /\ \/ CurrentState = "idle" /\ ColumnsCounter = 0
     \/ CurrentState = "pressed" /\ DelayCounter < ColumnsCounter

CodeWasMet == PowerUp \/ KeyCode \in sampled \cup {None}

LEMMA PowerUpClock ==
  ASSUME KeypadTypeOK, PowerUp, KeypadClock
  PROVE  CodeWasMet'
<1>0. PICK contacts \in Contacts : Scan(contacts)
  BY DEF KeypadClock
<1>1. CASE ColumnsCounter < 4
  <2>1. CASE KeyCode' \in sampled'
    BY <2>1 DEF CodeWasMet
  <2>2. CASE NumberInactiveRows' = (NumberInactiveRows + 1) % 8 /\ UNCHANGED KeyCode
    <3>1. /\ ColumnsCounter' = ColumnsCounter + 1
          /\ NumberInactiveRows' = NumberInactiveRows + 1
      BY <1>0, <1>1, <2>2, ScanCases, Count8 DEF PowerUp
    <3>2. CurrentState' = "pressed"
      <4>1. Zero # None /\ (CurrentState = "idle" \/ ~ (DelayCounter > PressDelay))
        BY <1>1, KeypadAssumption DEF PowerUp, KeypadTypeOK
      <4>2. KeyCode # None
        BY KeypadAssumption DEF PowerUp
      <4> QED
        BY <4>1, <4>2 DEF PowerUp, KeypadClock, Debounce, NextState
    <3>3. DelayCounter' < ColumnsCounter'
      <4>1. CASE CurrentState = "idle"
        BY <3>1, <4>1 DEF KeypadClock, Debounce, PowerUp
      <4>2. CASE CurrentState = "pressed"
        <5>1. DelayCounter' = DelayCounter + 1
          BY <1>1, <4>2, Count256 DEF KeypadClock, Debounce, PowerUp, KeypadTypeOK
        <5> QED
          BY <3>1, <4>2, <5>1 DEF PowerUp, KeypadTypeOK
      <4> QED
        BY <4>1, <4>2 DEF PowerUp
    <3> QED
      BY <1>1, <2>2, <3>1, <3>2, <3>3 DEF PowerUp, CodeWasMet
  <2>3. /\ ~ ColumnsCounter = 4 /\ ~ ColumnsCounter > 4
    BY <1>1 DEF KeypadTypeOK
  <2>4. \/ KeyCode' \in sampled'
        \/ NumberInactiveRows' = (NumberInactiveRows + 1) % 8 /\ UNCHANGED <<KeyCode, sampled>>
    BY <1>0, <2>3, ScanCases
  <2> QED
    BY <2>1, <2>2, <2>4
<1>2. CASE ColumnsCounter = 4
  <2>1. KeyCode' = None
    BY <1>0, <1>2, ScanCases DEF PowerUp
  <2> QED
    BY <2>1 DEF CodeWasMet
<1> QED
  BY <1>1, <1>2 DEF PowerUp

LEMMA MetClock ==
  ASSUME KeypadTypeOK, KeyCode \in sampled \cup {None}, KeypadClock
  PROVE  CodeWasMet'
<1>0. PICK contacts \in Contacts : Scan(contacts)
  BY DEF KeypadClock
<1>1. KeyCode' \in sampled' \cup {None}
  BY <1>0, ScanCases
<1> QED
  BY <1>1 DEF CodeWasMet

LEMMA MetStep == KeypadTypeOK /\ CodeWasMet /\ [KeypadNext]_keypadVars => CodeWasMet'
<1> SUFFICES ASSUME KeypadTypeOK, CodeWasMet, [KeypadNext]_keypadVars PROVE CodeWasMet'
  OBVIOUS
<1>1. CASE KeypadClock
  BY <1>1, PowerUpClock, MetClock DEF CodeWasMet
<1>2. CASE UNCHANGED <<scanVars, stateVars, sampled>>
  BY <1>2 DEF scanVars, stateVars, CodeWasMet, PowerUp
<1> QED
  BY <1>1, <1>2 DEF KeypadNext, Finger, keypadVars

LEMMA ReportStep ==
  ASSUME KeypadTypeOK, CodeWasMet, [KeypadNext]_keypadVars,
         NEW k \in Keys, Reports(k)
  PROVE  k \in sampled
<1>1. KeyPressed # k /\ KeyPressed' = k /\ k # None
  BY KeypadAssumption DEF Reports
<1>2. KeypadClock
  BY <1>1 DEF KeypadNext, Finger, keypadVars, stateVars
<1>3. CurrentState = "waitRelease" /\ KeyCode = k
  BY <1>1, <1>2 DEF KeypadClock, Debounce
<1> QED
  BY <1>1, <1>3 DEF CodeWasMet, PowerUp

\* A key that no scan has met is never reported, although the scanner starts
\* with the code of a key.
THEOREM ReportedKeysWereMet == KeypadSpec => ReportsOnlyKeysMet
<1>1. KeypadInit => KeypadTypeOK /\ CodeWasMet
  BY KeypadTypeInit DEF KeypadInit, CodeWasMet, PowerUp
<1>2. KeypadTypeOK /\ CodeWasMet /\ [KeypadNext]_keypadVars => KeypadTypeOK' /\ CodeWasMet'
  BY KeypadTypeStep, MetStep
<1>3. KeypadTypeOK /\ CodeWasMet /\ [KeypadNext]_keypadVars =>
        [\A k \in Keys : Reports(k) => k \in sampled]_keypadVars
  BY ReportStep
<1> QED
  BY <1>1, <1>2, <1>3, PTL DEF KeypadSpec, ReportsOnlyKeysMet

-----------------------------------------------------------------------------
(* A press is reported once: what the scan knows of the keys that are down,
   from when it met them until it can no longer meet them. *)

\* A contact bounces no longer than a scan takes, and after it the fingers rest
\* until a scan has begun and met all columns.
FingersRest == Bounce <= 8 /\ Bounce + 12 <= Dwell

\* No contact has bounced for n clocks.
Quiet(n) == still + Bounce + n <= Dwell

\* k is down, and no other key of its column
Alone(k) == {j \in held : Column[j] = Column[k]} = {k}

\* The column of the key moved last has not been read since.
Unread ==
  Dwell - still <= (IF ColumnsCounter > Column[moving] THEN -1 ELSE 7)
                     + ColumnsCounter - Column[moving]

\* When this scan has read the column of k, it found some column active.
Active(k) == Column[k] < ColumnsCounter /\ ColumnsCounter <= 4
               => NumberInactiveRows < ColumnsCounter

Scanned ==
  /\ NumberInactiveRows <= ColumnsCounter
  /\ ColumnsCounter > 4 => NumberInactiveRows = 0

\* What the last whole scan, and this one so far, left without any bouncing
LastScan ==
  Quiet(IF ColumnsCounter > 4 THEN ColumnsCounter ELSE ColumnsCounter + 8)
    => KeyCode = None \/ Alone(KeyCode)
ThisScan ==
  ColumnsCounter <= 4 /\ Quiet(ColumnsCounter)
    => NumberInactiveRows = ColumnsCounter \/ (KeyCode # None /\ Alone(KeyCode))

\* The key the code stands for: the scan goes on meeting it as long as it is
\* down alone, and it is not when its column has just changed.
CodeActive ==
  KeyCode # None =>
    /\ Alone(KeyCode) => Active(KeyCode)
    /\ Unread /\ Column[KeyCode] = Column[moving] => ~Alone(KeyCode) /\ Active(KeyCode)

\* A key once reported is waited for, or can no longer be read.
Waits(k) == CurrentState = "waitRelease" /\ KeyPressed = k
ReportedOnce(k) ==
  /\ k \in held
  /\ Waits(k) \/ (~Alone(k) /\ KeyCode # k)
  /\ Alone(k) => KeyCode # None /\ Active(k)
  /\ Unread /\ Column[k] = Column[moving]
       => Waits(k) /\ ~Alone(k) /\ KeyCode # None /\ Active(k)

Starts == PowerUp /\ reported = {} /\ KeyPressed = None

OnceInv ==
  /\ KeypadTypeOK /\ Scanned
  /\ \/ Starts
     \/ LastScan /\ ThisScan /\ CodeActive /\ \A k \in reported : ReportedOnce(k)

-----------------------------------------------------------------------------
\* What a column's contacts are when none of them bounces
LEMMA SteadyColumn ==
  ASSUME KeypadTypeOK, NEW contacts \in Contacts, NEW col, Quiet(0) \/ Column[moving] # col
  PROVE  {k \in contacts : Column[k] = col} = {k \in held : Column[k] = col}
<1>1. still + Bounce <= Dwell => contacts = held
  BY DEF Contacts
<1>2. contacts = held \/ contacts = held \cup {moving} \/ contacts = held \ {moving}
  BY DEF Contacts
<1>3. CASE Quiet(0)
  <2>1. contacts = held
    BY <1>1, <1>3, KeypadAssumption DEF Quiet, KeypadTypeOK
  <2> QED BY <2>1
<1>4. CASE Column[moving] # col
  BY <1>2, <1>4
<1> QED BY <1>3, <1>4

\* A column is read: exactly one row, or not.
LEMMA ColumnRead ==
  ASSUME KeypadTypeOK, Scanned, KeypadClock, ColumnsCounter < 4
  PROVE  LET Seen == Quiet(0) \/ Column[moving] # ColumnsCounter
         IN  /\ ColumnsCounter' = ColumnsCounter + 1
             /\ \/ /\ KeyCode' \in Keys /\ Column[KeyCode'] = ColumnsCounter
                   /\ NumberInactiveRows' = NumberInactiveRows
                   /\ Seen => Alone(KeyCode')
                \/ /\ KeyCode' = KeyCode /\ NumberInactiveRows' = NumberInactiveRows + 1
                   /\ \A k \in Keys : Seen /\ Column[k] = ColumnsCounter => ~Alone(k)
<1> DEFINE Seen == Quiet(0) \/ Column[moving] # ColumnsCounter
<1>1. PICK contacts \in Contacts : Scan(contacts)
  BY DEF KeypadClock
<1> DEFINE inColumn == {k \in contacts : Column[k] = ColumnsCounter}
<1>2. Seen => inColumn = {k \in held : Column[k] = ColumnsCounter}
  BY SteadyColumn
<1>3. ColumnsCounter \in 0 .. 7 /\ NumberInactiveRows \in 0 .. 7 /\ NumberInactiveRows < 4
  BY DEF KeypadTypeOK, Scanned
<1>4. ColumnsCounter' = ColumnsCounter + 1
  BY <1>1, <1>3, Count8 DEF Scan
<1>5. CASE Cardinality(inColumn) = 1
  <2>1. KeyCode' \in inColumn /\ NumberInactiveRows' = NumberInactiveRows
    BY <1>1, <1>5 DEF Scan
  <2>2. inColumn \subseteq Keys /\ IsFiniteSet(inColumn)
    BY ContactsAreKeys, KeypadAssumption, FS_Subset
  <2>3. inColumn = {KeyCode'}
    <3>1. PICK x : inColumn = {x}
      BY <1>5, <2>2, FS_Singleton
    <3> QED BY <2>1, <3>1
  <2>4. Seen => Alone(KeyCode')
    BY <1>2, <2>1, <2>3 DEF Alone
  <2> QED BY <1>4, <2>1, <2>2, <2>4
<1>6. CASE Cardinality(inColumn) # 1
  <2>1. KeyCode' = KeyCode /\ NumberInactiveRows' = (NumberInactiveRows + 1) % 8
    BY <1>1, <1>6 DEF Scan
  <2>2. NumberInactiveRows' = NumberInactiveRows + 1
    BY <1>3, <2>1, Count8
  <2>3. ASSUME NEW k \in Keys, Seen, Column[k] = ColumnsCounter PROVE ~Alone(k)
    <3>1. Alone(k) => inColumn = {k}
      BY <1>2, <2>3 DEF Alone
    <3>2. inColumn # {k}
      BY <1>6, FS_Singleton
    <3> QED BY <3>1, <3>2
  <2> QED BY <1>4, <2>1, <2>2, <2>3
<1> QED BY <1>5, <1>6

\* The other slots of a scan
LEMMA ScanEnds ==
  ASSUME KeypadTypeOK, Scanned, KeypadClock, ~(ColumnsCounter < 4)
  PROVE  /\ ColumnsCounter' = (IF ColumnsCounter = 7 THEN 0 ELSE ColumnsCounter + 1)
         /\ NumberInactiveRows' = 0
         /\ KeyCode' = IF ColumnsCounter = 4 /\ NumberInactiveRows = 4 THEN None ELSE KeyCode
<1>1. PICK contacts \in Contacts : Scan(contacts)
  BY DEF KeypadClock
<1>2. ColumnsCounter \in 0 .. 7
  BY DEF KeypadTypeOK
<1>3. ColumnsCounter' = (ColumnsCounter + 1) % 8
  BY <1>1, ScanCases
<1>4. ColumnsCounter' = (IF ColumnsCounter = 7 THEN 0 ELSE ColumnsCounter + 1)
  BY <1>2, <1>3
<1>5. CASE ColumnsCounter = 4
  BY <1>1, <1>4, <1>5, ScanCases
<1>6. CASE ColumnsCounter > 4
  BY <1>1, <1>4, <1>6, ScanCases DEF Scanned
<1> QED BY <1>2, <1>5, <1>6

\* Fingers between two clocks
LEMMA QuietBefore ==
  ASSUME KeypadTypeOK, KeypadClock
  PROVE  /\ held' = held /\ moving' = moving /\ \A k : Alone(k)' = Alone(k)
         /\ \A n \in Nat : Quiet(n + 1)' => Quiet(n) /\ Quiet(0)
<1>1. held' = held /\ moving' = moving /\ still' = IF still = 0 THEN 0 ELSE still - 1
  BY DEF KeypadClock
<1>2. ASSUME NEW n \in Nat, Quiet(n + 1)' PROVE Quiet(n) /\ Quiet(0)
  <2>1. still \in Nat /\ Bounce \in Nat /\ Dwell \in Nat
    BY KeypadAssumption DEF KeypadTypeOK
  <2> QED BY <1>1, <1>2, <2>1 DEF Quiet
<1> QED BY <1>1, <1>2 DEF Alone

\* A column stays unread only until its slot, which comes before the bouncing
\* is over.
LEMMA UnreadBefore ==
  ASSUME KeypadTypeOK, FingersRest, KeypadClock,
         ColumnsCounter' = (IF ColumnsCounter = 7 THEN 0 ELSE ColumnsCounter + 1)
  PROVE  /\ Unread' => Unread /\ ColumnsCounter # Column[moving]
         /\ ColumnsCounter = Column[moving] => Quiet(0) \/ Unread
<1>1. moving' = moving /\ still' = IF still = 0 THEN 0 ELSE still - 1
  BY DEF KeypadClock
<1>2. /\ still \in Nat /\ still <= Dwell /\ Bounce \in Nat /\ Dwell \in Nat
      /\ Column[moving] \in 0 .. 3 /\ ColumnsCounter \in 0 .. 7
  BY KeypadAssumption DEF KeypadTypeOK
<1>3. Unread' => Unread /\ ColumnsCounter # Column[moving]
  BY <1>1, <1>2 DEF Unread, FingersRest
<1>4. ColumnsCounter = Column[moving] => Quiet(0) \/ Unread
  BY <1>2 DEF Unread, Quiet, FingersRest
<1> QED BY <1>3, <1>4


LEMMA ScannedStep ==
  KeypadTypeOK /\ Scanned /\ [KeypadNext]_keypadVars => Scanned'
<1> SUFFICES ASSUME KeypadTypeOK, Scanned, [KeypadNext]_keypadVars PROVE Scanned'
  OBVIOUS
<1>0. ColumnsCounter \in 0 .. 7 /\ NumberInactiveRows \in 0 .. 7
  BY DEF KeypadTypeOK
<1>1. CASE KeypadClock /\ ColumnsCounter < 4
  BY <1>0, <1>1, ColumnRead DEF Scanned
<1>2. CASE KeypadClock /\ ~(ColumnsCounter < 4)
  BY <1>0, <1>2, ScanEnds DEF Scanned
<1>3. CASE UNCHANGED scanVars
  BY <1>3 DEF scanVars, Scanned
<1> QED
  BY <1>1, <1>2, <1>3 DEF KeypadNext, Finger, keypadVars

-----------------------------------------------------------------------------
(* The code *)

\* A code just read
LEMMA FreshCode ==
  ASSUME KeypadTypeOK, FingersRest, Scanned, KeypadClock, ColumnsCounter < 4,
         KeyCode' \in Keys, Column[KeyCode'] = ColumnsCounter,
         ColumnsCounter' = ColumnsCounter + 1, NumberInactiveRows' = NumberInactiveRows,
         Quiet(0) \/ Column[moving] # ColumnsCounter => Alone(KeyCode')
  PROVE  LastScan' /\ ThisScan' /\ CodeActive'
<1>0. ColumnsCounter \in 0 .. 7 /\ NumberInactiveRows \in 0 .. 7
  BY DEF KeypadTypeOK
<1>1. /\ moving' = moving /\ held' = held
      /\ \A n \in Nat : Quiet(n + 1)' => Quiet(0)
  BY QuietBefore
<1>2. Quiet(0) => Alone(KeyCode)'
  BY <1>1 DEF Alone
<1>7. /\ still' = IF still = 0 THEN 0 ELSE still - 1
      /\ still \in Nat /\ Bounce \in Nat /\ Dwell \in Nat
  BY KeypadAssumption DEF KeypadClock, KeypadTypeOK
<1>3. LastScan'
  <2>1. Quiet(ColumnsCounter + 8)' => Quiet(0)
    BY <1>0, <1>7 DEF Quiet
  <2>2. ColumnsCounter' <= 4
    BY <1>0
  <2> QED BY <1>2, <2>1, <2>2 DEF LastScan
<1>4. ThisScan'
  <2>1. Quiet(ColumnsCounter)' => Quiet(0)
    BY <1>0, <1>7 DEF Quiet
  <2> QED BY <1>2, <2>1, KeypadAssumption DEF ThisScan
<1>5. Active(KeyCode)'
  BY <1>0 DEF Active, Scanned
<1>6. ~(Unread' /\ Column[KeyCode'] = Column[moving'])
  BY <1>0, <1>1, UnreadBefore
<1> QED BY <1>3, <1>4, <1>5, <1>6 DEF CodeActive

\* The first scan, as long as it meets no key ...
LEMMA PowerUpGoesOn ==
  ASSUME KeypadTypeOK, PowerUp, KeypadClock, ColumnsCounter < 4,
         ColumnsCounter' = ColumnsCounter + 1,
         NumberInactiveRows' = NumberInactiveRows + 1, KeyCode' = KeyCode
  PROVE  PowerUp'
<1>1. CurrentState' = "pressed"
  <2>1. Zero # None /\ (CurrentState = "idle" \/ ~(DelayCounter > PressDelay))
    BY KeypadAssumption DEF PowerUp, KeypadTypeOK
  <2>2. KeyCode # None
    BY KeypadAssumption DEF PowerUp
  <2> QED BY <2>1, <2>2 DEF PowerUp, KeypadClock, Debounce, NextState
<1>2. DelayCounter' < ColumnsCounter'
  <2>1. CASE CurrentState = "idle"
    BY <2>1 DEF KeypadClock, Debounce, PowerUp
  <2>2. CASE CurrentState = "pressed"
    <3>1. DelayCounter' = DelayCounter + 1
      BY <2>2, Count256 DEF KeypadClock, Debounce, PowerUp, KeypadTypeOK
    <3> QED BY <2>2, <3>1 DEF PowerUp, KeypadTypeOK
  <2> QED BY <2>1, <2>2 DEF PowerUp
<1> QED BY <1>1, <1>2 DEF PowerUp

\* ... and as it ends: nothing is reported, and the code is right from then on.
LEMMA StartsClock ==
  ASSUME KeypadTypeOK, FingersRest, Scanned, Starts, KeypadClock
  PROVE  /\ reported' = {} /\ KeyPressed' = None
         /\ PowerUp' \/ (LastScan' /\ ThisScan' /\ CodeActive')
<1>1. KeyPressed' = None
  BY DEF Starts, PowerUp, KeypadClock, Debounce
<1>2. reported' = {}
  BY <1>1 DEF Starts, KeypadClock
<1>3. CASE ColumnsCounter < 4
  <2>1. CASE NumberInactiveRows' = NumberInactiveRows
    <3>1. NumberInactiveRows \in Nat
      BY DEF KeypadTypeOK
    <3> QED BY <1>1, <1>2, <1>3, <2>1, <3>1, ColumnRead, FreshCode
  <2>2. CASE NumberInactiveRows' # NumberInactiveRows
    <3>1. PowerUp'
      BY <1>3, <2>2, ColumnRead, PowerUpGoesOn DEF Starts
    <3> QED BY <1>1, <1>2, <3>1
  <2> QED BY <2>1, <2>2
<1>4. CASE ~(ColumnsCounter < 4)
  <2>1. ColumnsCounter' = 5 /\ KeyCode' = None
    BY <1>4, ScanEnds DEF Starts, PowerUp
  <2>2. LastScan'
    BY <2>1 DEF LastScan
  <2>3. ThisScan' /\ CodeActive'
    BY <2>1 DEF ThisScan, CodeActive
  <2> QED BY <1>1, <1>2, <2>2, <2>3
<1> QED BY <1>1, <1>2, <1>3, <1>4

LEMMA StartsFinger ==
  ASSUME Starts, NEW k \in Keys, Finger(k)
  PROVE  Starts'
  BY DEF Starts, PowerUp, Finger, scanVars, stateVars

\* The code goes on as it should while the scan goes on ...
LEMMA CodeClock ==
  ASSUME KeypadTypeOK, FingersRest, Scanned, LastScan, ThisScan, CodeActive, KeypadClock
  PROVE  LastScan' /\ ThisScan' /\ CodeActive'
<1>0. ColumnsCounter \in 0 .. 7 /\ NumberInactiveRows \in 0 .. 7
  BY DEF KeypadTypeOK
<1>1. /\ moving' = moving /\ held' = held /\ \A k : Alone(k)' = Alone(k)
      /\ still' = IF still = 0 THEN 0 ELSE still - 1
      /\ still \in Nat /\ still <= Dwell /\ Bounce \in Nat /\ Dwell \in Nat
  BY QuietBefore, KeypadAssumption DEF KeypadClock, KeypadTypeOK
<1>2. CASE ColumnsCounter < 4 /\ NumberInactiveRows' = NumberInactiveRows
  BY <1>0, <1>2, ColumnRead, FreshCode
<1>3. CASE ColumnsCounter < 4 /\ NumberInactiveRows' # NumberInactiveRows
  <2>1. /\ ColumnsCounter' = ColumnsCounter + 1
        /\ KeyCode' = KeyCode /\ NumberInactiveRows' = NumberInactiveRows + 1
        /\ \A k \in Keys : (Quiet(0) \/ Column[moving] # ColumnsCounter)
                             /\ Column[k] = ColumnsCounter => ~Alone(k)
    BY <1>3, ColumnRead
  <2>2. Alone(KeyCode)' = Alone(KeyCode)
    BY <1>1, <2>1 DEF Alone
  <2>3. LastScan'
    <3>1. Quiet(ColumnsCounter + 8)' => Quiet(ColumnsCounter + 8)
      BY <1>0, <1>1, <2>1 DEF Quiet
    <3>2. ColumnsCounter' <= 4 /\ ColumnsCounter <= 4
      BY <1>0, <1>3, <2>1
    <3>3. LastScan => (Quiet(ColumnsCounter + 8) => KeyCode = None \/ Alone(KeyCode))
      BY <1>0, <3>2 DEF LastScan
    <3>4. (Quiet(ColumnsCounter + 8)' => KeyCode' = None \/ Alone(KeyCode)') => LastScan'
      BY <1>0, <2>1, <3>2 DEF LastScan, Quiet
    <3> QED BY <2>1, <2>2, <3>1, <3>3, <3>4
  <2>4. ThisScan'
    <3>1. Quiet(ColumnsCounter)' => Quiet(ColumnsCounter)
      BY <1>0, <1>1, <2>1 DEF Quiet
    <3>2. NumberInactiveRows = ColumnsCounter => NumberInactiveRows' = ColumnsCounter'
      BY <2>1
    <3> QED BY <1>0, <1>3, <2>1, <2>2, <3>1, <3>2 DEF ThisScan
  <2>5. CodeActive'
    <3> SUFFICES ASSUME KeyCode # None
                 PROVE  /\ Alone(KeyCode) => Active(KeyCode)'
                        /\ Unread' /\ Column[KeyCode] = Column[moving]
                             => ~Alone(KeyCode) /\ Active(KeyCode)'
      BY <1>1, <2>1, <2>2 DEF CodeActive
    <3>1. KeyCode \in Keys
      BY DEF KeypadTypeOK
    <3>2. Active(KeyCode) /\ Column[KeyCode] # ColumnsCounter => Active(KeyCode)'
      BY <1>0, <2>1, <3>1, KeypadAssumption DEF Active
    <3>3. Alone(KeyCode) => Column[KeyCode] # ColumnsCounter
      <4> SUFFICES ASSUME Alone(KeyCode), Column[KeyCode] = ColumnsCounter PROVE FALSE
        OBVIOUS
      <4>1. ~Quiet(0) /\ Column[moving] = ColumnsCounter
        BY <2>1, <3>1
      <4>2. Unread
        BY <1>0, <1>3, <2>1, <4>1, UnreadBefore
      <4> QED BY <4>1, <4>2 DEF CodeActive
    <3>4. Unread' => Unread /\ ColumnsCounter # Column[moving]
      BY <1>0, <1>3, <2>1, UnreadBefore
    <3> QED BY <3>2, <3>3, <3>4 DEF CodeActive
  <2> QED BY <2>3, <2>4, <2>5
<1>4. CASE ~(ColumnsCounter < 4)
  <2>1. /\ ColumnsCounter' = (IF ColumnsCounter = 7 THEN 0 ELSE ColumnsCounter + 1)
        /\ NumberInactiveRows' = 0
        /\ KeyCode' = IF ColumnsCounter = 4 /\ NumberInactiveRows = 4 THEN None ELSE KeyCode
    BY <1>4, ScanEnds
  <2>2. Alone(KeyCode)' = Alone(KeyCode')
    BY <1>1 DEF Alone
  <2>3. LastScan'
    <3>1. CASE ColumnsCounter = 4
      <4>1. ColumnsCounter' = 5
        BY <2>1, <3>1
      <4>2. Quiet(5)' => Quiet(4)
        BY <1>1 DEF Quiet
      <4> QED BY <2>1, <2>2, <3>1, <4>1, <4>2 DEF LastScan, ThisScan
    <3>2. CASE ColumnsCounter > 4
      <4>1. Quiet(IF ColumnsCounter > 4 THEN ColumnsCounter ELSE ColumnsCounter + 8)'
              => Quiet(ColumnsCounter)
        BY <1>0, <1>1, <2>1, <3>2 DEF Quiet
      <4>2. KeyCode' = KeyCode
        BY <2>1, <3>2
      <4> QED BY <2>2, <3>2, <4>1, <4>2 DEF LastScan
    <3> QED BY <1>0, <1>4, <3>1, <3>2
  <2>4. ThisScan'
    BY <1>0, <1>4, <2>1 DEF ThisScan
  <2>5. CodeActive'
    <3> SUFFICES ASSUME KeyCode' # None
                 PROVE  /\ Active(KeyCode)'
                        /\ Unread' /\ Column[KeyCode'] = Column[moving] => ~Alone(KeyCode')
      BY <1>1, <2>2 DEF CodeActive
    <3>1. KeyCode' = KeyCode /\ KeyCode \in Keys
      BY <2>1 DEF KeypadTypeOK
    <3>2. Active(KeyCode)'
      BY <1>0, <1>4, <2>1, <3>1, KeypadAssumption DEF Active
    <3>3. Unread' => Unread
      BY <2>1, UnreadBefore
    <3> QED BY <3>1, <3>2, <3>3 DEF CodeActive
  <2> QED BY <2>3, <2>4, <2>5
<1> QED BY <1>2, <1>3, <1>4

\* ... and when a finger moves: then the last whole scan was quiet, and the code
\* is none or a key that was down alone.
LEMMA CodeFinger ==
  ASSUME KeypadTypeOK, FingersRest, Scanned, LastScan, CodeActive, NEW k \in Keys, Finger(k)
  PROVE  LastScan' /\ ThisScan' /\ CodeActive'
<1>0. /\ ColumnsCounter \in 0 .. 7 /\ NumberInactiveRows \in 0 .. 7
      /\ Bounce \in Nat /\ Dwell \in Nat /\ still = 0 /\ still' = Dwell /\ moving' = k
      /\ ColumnsCounter' = ColumnsCounter /\ NumberInactiveRows' = NumberInactiveRows
      /\ KeyCode' = KeyCode
  BY KeypadAssumption DEF KeypadTypeOK, Finger, scanVars
<1>1. KeyCode = None \/ Alone(KeyCode)
  BY <1>0 DEF LastScan, Quiet, FingersRest
<1>2. LastScan'
  BY <1>0 DEF LastScan, Quiet
<1>3. ThisScan'
  BY <1>0 DEF ThisScan, Quiet, Scanned
<1>4. CodeActive'
  <2> SUFFICES ASSUME KeyCode # None
               PROVE  Active(KeyCode)' /\ (Column[KeyCode] = Column[k] => ~Alone(KeyCode)')
    BY <1>0, Zenon DEF CodeActive
  <2>1. Active(KeyCode)'
    BY <1>0, <1>1 DEF CodeActive, Active
  <2>2. ASSUME Column[KeyCode] = Column[k] PROVE ~Alone(KeyCode)'
    <3>1. {j \in held : Column[j] = Column[KeyCode]} = {KeyCode}
      BY <1>1 DEF Alone
    <3>2. k \in held <=> k \notin held'
      BY DEF Finger
    <3>3. {j \in held' : Column[j] = Column[KeyCode]} # {KeyCode}
      <4>1. CASE k = KeyCode
        BY <3>1, <3>2, <4>1
      <4>2. CASE k # KeyCode
        BY <2>2, <3>1, <3>2, <4>2
      <4> QED BY <4>1, <4>2
    <3> QED BY <1>0, <3>3 DEF Alone
  <2> QED BY <2>1, <2>2
<1> QED BY <1>2, <1>3, <1>4

-----------------------------------------------------------------------------
(* The report *)

\* A scan that found some column active goes on so, and ends with a code.
LEMMA ActiveClock ==
  ASSUME KeypadTypeOK, Scanned, KeypadClock, NEW k \in Keys, Active(k),
         ColumnsCounter = Column[k] => NumberInactiveRows' = NumberInactiveRows
  PROVE  Active(k)' /\ (KeyCode # None => KeyCode' # None)
<1>0. /\ ColumnsCounter \in 0 .. 7 /\ NumberInactiveRows \in 0 .. 7
      /\ Column[k] \in 0 .. 3
  BY KeypadAssumption DEF KeypadTypeOK
<1>1. CASE ColumnsCounter < 4
  <2>1. /\ ColumnsCounter' = ColumnsCounter + 1
        /\ \/ NumberInactiveRows' = NumberInactiveRows
           \/ NumberInactiveRows' = NumberInactiveRows + 1
        /\ KeyCode' \in Keys \cup {KeyCode}
    BY <1>1, ColumnRead
  <2>2. Active(k)'
    BY <1>0, <1>1, <2>1 DEF Active, Scanned
  <2> QED BY <2>1, <2>2, KeypadAssumption
<1>2. CASE ~(ColumnsCounter < 4)
  <2>1. /\ ColumnsCounter' = (IF ColumnsCounter = 7 THEN 0 ELSE ColumnsCounter + 1)
        /\ KeyCode' = IF ColumnsCounter = 4 /\ NumberInactiveRows = 4 THEN None ELSE KeyCode
    BY <1>2, ScanEnds
  <2>2. Active(k)'
    BY <1>0, <1>2, <2>1 DEF Active
  <2>3. ~(ColumnsCounter = 4 /\ NumberInactiveRows = 4)
    BY <1>0 DEF Active
  <2> QED BY <2>1, <2>2, <2>3
<1> QED BY <1>1, <1>2

\* A key that is down alone is read in its slot ...
LEMMA AloneIsRead ==
  ASSUME KeypadTypeOK, FingersRest, Scanned, KeypadClock, NEW k \in Keys, Alone(k),
         ColumnsCounter = Column[k], ~(Unread /\ Column[k] = Column[moving])
  PROVE  NumberInactiveRows' = NumberInactiveRows
<1>1. ColumnsCounter < 4 /\ ColumnsCounter \in Nat
  BY KeypadAssumption DEF KeypadTypeOK
<1>2. ColumnsCounter' = (IF ColumnsCounter = 7 THEN 0 ELSE ColumnsCounter + 1)
  BY <1>1, ColumnRead
<1>3. Quiet(0) \/ Column[moving] # ColumnsCounter
  BY <1>2, UnreadBefore
<1> QED BY <1>1, <1>3, ColumnRead

\* ... and one that is not never becomes the code.
LEMMA OthersAreNotRead ==
  ASSUME KeypadTypeOK, FingersRest, Scanned, KeypadClock, NEW k \in Keys, ~Alone(k),
         KeyCode # k, ~(Unread /\ Column[k] = Column[moving])
  PROVE  KeyCode' # k
<1>1. CASE ColumnsCounter < 4
  <2> SUFFICES ASSUME KeyCode' = k PROVE FALSE
    OBVIOUS
  <2>1. ColumnsCounter \in Nat
    BY DEF KeypadTypeOK
  <2>2. ColumnsCounter' = (IF ColumnsCounter = 7 THEN 0 ELSE ColumnsCounter + 1)
    BY <1>1, <2>1, ColumnRead
  <2>3. Column[k] = ColumnsCounter
    BY <1>1, ColumnRead
  <2>4. Quiet(0) \/ Column[moving] # ColumnsCounter
    BY <2>2, <2>3, UnreadBefore
  <2> QED BY <1>1, <2>4, ColumnRead
<1>2. CASE ~(ColumnsCounter < 4)
  BY <1>2, ScanEnds, KeypadAssumption
<1> QED BY <1>1, <1>2

LEMMA ReportedClock ==
  ASSUME KeypadTypeOK, FingersRest, Scanned, CodeActive, KeypadClock,
         \A k \in reported : ReportedOnce(k)
  PROVE  \A k \in reported' : ReportedOnce(k)'
<1> SUFFICES ASSUME NEW k \in reported' PROVE ReportedOnce(k)'
  OBVIOUS
<1>0. /\ held' = held /\ moving' = moving /\ Alone(k)' = Alone(k)
      /\ k \in reported \/ (k \in held /\ k = KeyPressed' /\ KeyPressed' # KeyPressed)
  BY QuietBefore DEF KeypadClock
<1>1. k \in Keys /\ k # None /\ ColumnsCounter \in 0 .. 7
  BY <1>0, KeypadAssumption DEF KeypadTypeOK
<1>2. Unread' => Unread /\ ColumnsCounter # Column[moving]
  <2>1. CASE ColumnsCounter < 4
    BY <1>1, <2>1, ColumnRead, UnreadBefore
  <2>2. CASE ~(ColumnsCounter < 4)
    BY <2>2, ScanEnds, UnreadBefore
  <2> QED BY <2>1, <2>2
<1> DEFINE Pending == Unread /\ Column[k] = Column[moving]
<1>3. Pending' => Pending /\ ColumnsCounter # Column[k]
  BY <1>0, <1>2
<1>4. Alone(k) /\ ~Pending /\ Active(k) => Active(k)' /\ (KeyCode # None => KeyCode' # None)
  BY <1>1, AloneIsRead, ActiveClock
<1>5. Pending' /\ Active(k) => Active(k)' /\ (KeyCode # None => KeyCode' # None)
  BY <1>1, <1>3, ActiveClock
<1>6. ~Alone(k) /\ ~Pending /\ KeyCode # k => KeyCode' # k
  BY <1>1, OthersAreNotRead
<1>7. CASE k \in reported
  <2>1. ReportedOnce(k)
    BY <1>7
  <2>2. Waits(k) /\ KeyCode # None => Waits(k)'
    BY <1>1 DEF Waits, KeypadClock, Debounce, NextState
  <2>3. Waits(k)' \/ (~Alone(k)' /\ KeyCode' # k)
    BY <1>0, <1>1, <1>6, <2>1, <2>2 DEF ReportedOnce
  <2>4. Alone(k)' => KeyCode' # None /\ Active(k)'
    BY <1>0, <1>4, <2>1 DEF ReportedOnce
  <2>5. Pending' => Waits(k)' /\ ~Alone(k)' /\ KeyCode' # None /\ Active(k)'
    BY <1>0, <1>3, <1>5, <2>1, <2>2 DEF ReportedOnce
  <2> QED BY <1>0, <2>1, <2>3, <2>4, <2>5 DEF ReportedOnce
<1>8. CASE k \notin reported
  <2>1. k \in held /\ KeyCode = k /\ CurrentState = "waitRelease" /\ KeyPressed' = k
    BY <1>0, <1>1, <1>8 DEF KeypadClock, Debounce
  <2>2. Waits(k)'
    BY <1>1, <2>1 DEF Waits, KeypadClock, Debounce, NextState
  <2>3. Alone(k) => Active(k) /\ ~Pending
    BY <1>1, <2>1 DEF CodeActive
  <2>4. Pending => ~Alone(k) /\ Active(k)
    BY <1>1, <2>1 DEF CodeActive
  <2>5. Alone(k)' => KeyCode' # None /\ Active(k)'
    BY <1>0, <1>1, <1>4, <2>1, <2>3
  <2>6. Pending' => ~Alone(k)' /\ KeyCode' # None /\ Active(k)'
    BY <1>0, <1>1, <1>3, <1>5, <2>1, <2>4
  <2> QED BY <1>0, <2>1, <2>2, <2>5, <2>6 DEF ReportedOnce
<1> QED BY <1>7, <1>8

LEMMA ReportedFinger ==
  ASSUME KeypadTypeOK, \A j \in reported : ReportedOnce(j), NEW i \in Keys, Finger(i)
  PROVE  \A j \in reported' : ReportedOnce(j)'
<1> SUFFICES ASSUME NEW k \in reported' PROVE ReportedOnce(k)'
  OBVIOUS
<1>1. ReportedOnce(k) /\ Column[k] # Column[i] /\ moving' = i
  BY DEF Finger
<1>2. {j \in held' : Column[j] = Column[k]} = {j \in held : Column[j] = Column[k]}
  BY <1>1 DEF Finger
<1>3. Alone(k)' = Alone(k) /\ (k \in held' <=> k \in held)
  BY <1>1, <1>2 DEF Alone, Finger
<1>4. Active(k)' = Active(k) /\ Waits(k)' = Waits(k) /\ KeyCode' = KeyCode
  BY DEF Finger, scanVars, stateVars, Active, Waits
<1> QED BY <1>1, <1>3, <1>4 DEF ReportedOnce

-----------------------------------------------------------------------------
LEMMA OnceInit == KeypadInit => OnceInv
<1> SUFFICES ASSUME KeypadInit PROVE OnceInv
  OBVIOUS
<1>1. Scanned /\ Starts
  BY DEF KeypadInit, Scanned, Starts, PowerUp
<1> QED BY <1>1, KeypadTypeInit DEF OnceInv

LEMMA OnceStep == FingersRest /\ OnceInv /\ [KeypadNext]_keypadVars => OnceInv'
<1> SUFFICES ASSUME FingersRest, OnceInv, [KeypadNext]_keypadVars PROVE OnceInv'
  OBVIOUS
<1> DEFINE Code == LastScan /\ ThisScan /\ CodeActive
           Once == \A k \in reported : ReportedOnce(k)
<1>1. KeypadTypeOK /\ Scanned /\ KeypadTypeOK' /\ Scanned'
  BY KeypadTypeStep, ScannedStep DEF OnceInv
<1>2. SUFFICES Starts' \/ (Code /\ Once)'
  BY <1>1 DEF OnceInv
<1>3. CASE KeypadClock
  <2>1. CASE Starts
    BY <1>1, <1>3, <2>1, StartsClock DEF Starts
  <2>2. CASE Code /\ Once
    BY <1>1, <1>3, <2>2, CodeClock, ReportedClock
  <2> QED BY <2>1, <2>2 DEF OnceInv
<1>4. ASSUME NEW k \in Keys, Finger(k) PROVE Starts' \/ (Code /\ Once)'
  <2>1. CASE Starts
    BY <1>4, <2>1, StartsFinger
  <2>2. CASE Code /\ Once
    BY <1>1, <1>4, <2>2, CodeFinger, ReportedFinger
  <2> QED BY <2>1, <2>2 DEF OnceInv
<1>5. CASE UNCHANGED keypadVars
  BY <1>5 DEF keypadVars, fingerVars, scanVars, stateVars, OnceInv, Starts, PowerUp,
              LastScan, ThisScan, CodeActive, ReportedOnce, Quiet, Alone, Active, Unread, Waits
<1> QED BY <1>3, <1>4, <1>5 DEF KeypadNext

LEMMA OnceReport ==
  ASSUME OnceInv, [KeypadNext]_keypadVars, NEW k \in Keys, Reports(k)
  PROVE  KeyPressed = None /\ k \notin reported
<1>1. KeyPressed # k /\ KeyPressed' = k /\ k # None
  BY KeypadAssumption DEF Reports
<1>2. KeypadClock
  BY <1>1 DEF KeypadNext, Finger, keypadVars, stateVars
<1>3. CurrentState = "waitRelease" /\ KeyPressed = None /\ KeyCode = k
  BY <1>1, <1>2 DEF KeypadClock, Debounce
<1>4. k \notin reported
  BY <1>1, <1>3 DEF OnceInv, Starts, ReportedOnce, Waits
<1> QED BY <1>3, <1>4

\* If contacts bounce no longer than a scan takes, and fingers rest for a scan and
\* a half between their moves: however many keys are down, a press is reported
\* once, and 0xFF lies between two reports.
THEOREM PressesAreReportedOnce ==
  ASSUME FingersRest
  PROVE  KeypadSpec => OneReportPerPress
<1>1. OnceInv /\ [KeypadNext]_keypadVars =>
        [\A k \in Keys : Reports(k) => KeyPressed = None /\ k \notin reported]_keypadVars
  BY OnceReport
<1>2. OnceInv /\ [KeypadNext]_keypadVars => OnceInv'
  BY OnceStep
<1> QED BY <1>1, <1>2, OnceInit, PTL DEF KeypadSpec, OneReportPerPress

-----------------------------------------------------------------------------
(* SPI interface: the bytes of a transfer are the card's bits in order, for a
   transfer of any length and a counter of any even width. *)

\* Where the card stands: after the bits of the bytes answered and those of
\* the byte under way; behind by one while SCLK is high.
BitPosition ==
  pos = 8 * answered + (IF waitrequest /\ dataReady THEN 8 ELSE bitIndex)
          - (IF sclk THEN 1 ELSE 0)

\* SCLK is low until the first bit of a byte is taken, and high from the last
\* bit on.
ClockPhase ==
  /\ waitrequest /\ ~dataReady /\ bitIndex = 0 => ~sclk
  /\ waitrequest /\ ~dataReady /\ bitIndex = 8 => sclk
  /\ waitrequest /\ dataReady => sclk /\ bitIndex = 0
  /\ ~waitrequest => bitIndex = 0
  /\ waitrequest => ~readdatavalid
  /\ readdatavalid => sclk /\ answered > 0
  /\ ~waitrequest /\ sclk => answered > 0

\* The bits taken so far
BitsTaken ==
  waitrequest =>
    \A i \in 0 .. 7 :
      dataReady \/ i < bitIndex => data[7 - i] = 8 * answered + i

SpiInv == SpiTypeOK /\ BitPosition /\ ClockPhase /\ BitsTaken /\ BytesInOrder

LEMMA SpiInvInit == SpiInit => SpiInv
<1> SUFFICES ASSUME SpiInit PROVE SpiInv
  OBVIOUS
<1> USE DEF SpiInit
<1>1. SpiTypeOK
  <2>1. issued \in Nat /\ answered \in Nat /\ pos \in Nat
    OBVIOUS
  <2>2. /\ waitrequest \in BOOLEAN /\ readdatavalid \in BOOLEAN
        /\ dataReady \in BOOLEAN /\ sclk \in BOOLEAN
    OBVIOUS
  <2>3. /\ readdata \in Byte /\ data \in Byte
        /\ counter \in 0 .. CounterWrap - 1 /\ bitIndex \in 0 .. 8
    BY SpiDmaAssumption DEF Blank, Byte, SpiDmaAssumption
  <2> QED BY <2>1, <2>2, <2>3 DEF SpiTypeOK
<1>2. BitPosition /\ ClockPhase /\ BitsTaken /\ BytesInOrder
  BY DEF BitPosition, ClockPhase, BitsTaken, BytesInOrder
<1> QED BY <1>1, <1>2 DEF SpiInv

\* The counter stays in its width.
LEMMA CountType ==
  ASSUME counter \in 0 .. CounterWrap - 1, Count PROVE counter' \in 0 .. CounterWrap - 1
  BY SpiDmaAssumption DEF Count, SpiDmaAssumption

LEMMA SpiInvStep == SpiInv /\ [SpiNext]_spiVars => SpiInv'
<1> SUFFICES ASSUME SpiInv, [SpiNext]_spiVars PROVE SpiInv'
  OBVIOUS
<1> USE DEF SpiInv, SpiTypeOK
<1>1. CASE AcceptRead
  <2>1. SpiTypeOK'
    <3>1. (issued \in Nat /\ answered \in Nat /\ pos \in Nat)'
      BY <1>1 DEF AcceptRead, Shift, Byte, Blank
    <3>2. (/\ waitrequest \in BOOLEAN /\ readdatavalid \in BOOLEAN
           /\ dataReady \in BOOLEAN /\ sclk \in BOOLEAN)'
      BY <1>1 DEF AcceptRead, Shift, Byte, Blank
    <3>3. (/\ readdata \in Byte /\ data \in Byte
           /\ counter \in 0 .. CounterWrap - 1 /\ bitIndex \in 0 .. 8)'
      BY <1>1 DEF AcceptRead, Shift, Byte, Blank
    <3> QED BY <3>1, <3>2, <3>3
  <2>2. BitPosition'
    BY <1>1 DEF AcceptRead, Shift, BitPosition, ClockPhase
  <2>3. ClockPhase'
    BY <1>1 DEF AcceptRead, Shift, BitPosition, ClockPhase
  <2>4. BitsTaken'
    BY <1>1 DEF AcceptRead, Shift, BitsTaken, ClockPhase
  <2>5. BytesInOrder'
    BY <1>1 DEF AcceptRead, Shift, BytesInOrder, BitsTaken, BitPosition, ClockPhase
  <2> QED BY <2>1, <2>2, <2>3, <2>4, <2>5
<1>2. CASE EndAnswer
  BY <1>2 DEF EndAnswer, BitPosition, ClockPhase, BitsTaken, BytesInOrder, Byte
<1>3. CASE Hold \/ UNCHANGED spiVars
  BY <1>3 DEF Hold, spiVars, BitPosition, ClockPhase, BitsTaken, BytesInOrder, Byte
<1>4. CASE Deselected
  <2>1. SpiTypeOK'
    <3>1. (issued \in Nat /\ answered \in Nat /\ pos \in Nat)'
      BY <1>4, SpiDmaAssumption DEF Deselected, Shift, Byte, Blank,
        SpiDmaAssumption
    <3>2. (/\ waitrequest \in BOOLEAN /\ readdatavalid \in BOOLEAN
           /\ dataReady \in BOOLEAN /\ sclk \in BOOLEAN)'
      BY <1>4, SpiDmaAssumption DEF Deselected, Shift, Byte, Blank,
        SpiDmaAssumption
    <3>3. (/\ readdata \in Byte /\ data \in Byte
           /\ counter \in 0 .. CounterWrap - 1 /\ bitIndex \in 0 .. 8)'
      BY <1>4, SpiDmaAssumption DEF Deselected, Shift, Byte, Blank,
        SpiDmaAssumption
    <3> QED BY <3>1, <3>2, <3>3
  <2>2. BitPosition'
    BY <1>4, SpiDmaAssumption DEF Deselected, Shift, BitPosition, ClockPhase
  <2>3. ClockPhase'
    BY <1>4, SpiDmaAssumption DEF Deselected, Shift, BitPosition, ClockPhase
  <2>4. BitsTaken'
    BY <1>4, SpiDmaAssumption DEF Deselected, Shift, BitsTaken, ClockPhase
  <2>5. BytesInOrder'
    BY <1>4, SpiDmaAssumption
    DEF Deselected, Shift, BytesInOrder, BitsTaken, BitPosition, ClockPhase
  <2> QED BY <2>1, <2>2, <2>3, <2>4, <2>5
<1>5. CASE TakeBit
  <2>1. /\ counter' \in 0 .. CounterWrap - 1 /\ data' \in Byte
        /\ bitIndex' = bitIndex + 1 /\ bitIndex \in 0 .. 7
        /\ sclk' = TRUE /\ sclk = FALSE /\ pos' = pos
    BY <1>5, CountType DEF TakeBit, Shift, Byte
  <2>2. BitPosition' /\ ClockPhase'
    BY <1>5, <2>1 DEF TakeBit, BitPosition, ClockPhase
  <2>3. BitsTaken'
    <3> SUFFICES ASSUME NEW i \in 0 .. 7, dataReady' \/ i < bitIndex'
                 PROVE  data'[7 - i] = 8 * answered' + i
      BY DEF BitsTaken
    <3>1. CASE i = bitIndex
      BY <1>5, <2>1, <3>1 DEF TakeBit, BitPosition, Byte
    <3>2. CASE i # bitIndex
      BY <1>5, <2>1, <3>2 DEF TakeBit, BitsTaken, Byte
    <3> QED BY <3>1, <3>2
  <2> QED BY <1>5, <2>1, <2>2, <2>3 DEF TakeBit, BytesInOrder
<1>6. CASE DropClock
  <2>1. SpiTypeOK'
    <3>1. (issued \in Nat /\ answered \in Nat /\ pos \in Nat)'
      BY <1>6, CountType DEF DropClock, Shift, Byte, Blank
    <3>2. (/\ waitrequest \in BOOLEAN /\ readdatavalid \in BOOLEAN
           /\ dataReady \in BOOLEAN /\ sclk \in BOOLEAN)'
      BY <1>6, CountType DEF DropClock, Shift, Byte, Blank
    <3>3. (/\ readdata \in Byte /\ data \in Byte
           /\ counter \in 0 .. CounterWrap - 1 /\ bitIndex \in 0 .. 8)'
      BY <1>6, CountType DEF DropClock, Shift, Byte, Blank
    <3> QED BY <3>1, <3>2, <3>3
  <2>2. BitPosition'
    BY <1>6, CountType DEF DropClock, Shift, BitPosition, ClockPhase
  <2>3. ClockPhase'
    BY <1>6, CountType DEF DropClock, Shift, BitPosition, ClockPhase
  <2>4. BitsTaken'
    BY <1>6, CountType DEF DropClock, Shift, BitsTaken, ClockPhase
  <2>5. BytesInOrder'
    BY <1>6, CountType DEF DropClock, Shift, BytesInOrder, BitsTaken, BitPosition, ClockPhase
  <2> QED BY <2>1, <2>2, <2>3, <2>4, <2>5
<1>7. CASE EndByte
  BY <1>7, CountType
  DEF EndByte, BitPosition, ClockPhase, BitsTaken, BytesInOrder, Byte
<1>8. CASE Divide
  BY <1>8, CountType
  DEF Divide, BitPosition, ClockPhase, BitsTaken, BytesInOrder, Byte
<1>9. CASE AnswerRead
  <2>1. SpiTypeOK'
    <3>1. (issued \in Nat /\ answered \in Nat /\ pos \in Nat)'
      BY <1>9 DEF AnswerRead, Byte, Blank
    <3>2. (/\ waitrequest \in BOOLEAN /\ readdatavalid \in BOOLEAN
           /\ dataReady \in BOOLEAN /\ sclk \in BOOLEAN)'
      BY <1>9 DEF AnswerRead, Byte, Blank
    <3>3. (/\ readdata \in Byte /\ data \in Byte
           /\ counter \in 0 .. CounterWrap - 1 /\ bitIndex \in 0 .. 8)'
      BY <1>9 DEF AnswerRead, Byte, Blank
    <3> QED BY <3>1, <3>2, <3>3
  <2>2. BitPosition'
    BY <1>9 DEF AnswerRead, BitPosition, ClockPhase
  <2>3. ClockPhase'
    BY <1>9 DEF AnswerRead, BitPosition, ClockPhase
  <2>4. BitsTaken'
    BY <1>9 DEF AnswerRead, BitsTaken, ClockPhase
  <2>5. BytesInOrder'
    BY <1>9 DEF AnswerRead, BytesInOrder, BitsTaken, BitPosition, ClockPhase
  <2> QED BY <2>1, <2>2, <2>3, <2>4, <2>5
<1> QED BY <1>1, <1>2, <1>3, <1>4, <1>5, <1>6, <1>7, <1>8, <1>9
        DEF SpiNext, ReadBits

\* The registers have their types.
THEOREM SpiTypeCorrect == SpiSpec => []SpiTypeOK
<1>1. SpiInv => SpiTypeOK
  BY DEF SpiInv
<1> QED BY <1>1, SpiInvInit, SpiInvStep, PTL DEF SpiSpec

\* SPI_DMA_Interface.v loses and repeats no bit, whether the DMA controller
\* holds the bus between two bytes or lets go of it.
THEOREM BytesAreInOrder == SpiSpec => []BytesInOrder
<1>1. SpiInv => BytesInOrder
  BY DEF SpiInv
<1> QED BY <1>1, SpiInvInit, SpiInvStep, PTL DEF SpiSpec

-----------------------------------------------------------------------------
(* delay_us, for every period, clock and pace of polling *)

\* Every delay asked for fits in the timer.
LEMMA TicksFit == \A t \in Delays : t \in Nat /\ Ticks(t) \in 0 .. Period - 1
  BY DelayAssumption

LEMMA CountDownInRange ==
  ASSUME timer \in 0 .. Period - 1, NEW n \in Nat, n <= Period
  PROVE  CountDown(n) \in 0 .. Period - 1
  BY DelayAssumption DEF CountDown

LEMMA CountedNat == ASSUME NEW n \in Nat PROVE Counted(n) \in Nat
  BY DelayAssumption DEF Counted

LEMMA DelayTypeStep == DelayTypeOK /\ [DelayNext]_delayVars => DelayTypeOK'
<1> SUFFICES ASSUME DelayTypeOK, [DelayNext]_delayVars PROVE DelayTypeOK'
  OBVIOUS
<1>1. ASSUME NEW t \in Delays, delay_us(t) PROVE DelayTypeOK'
  <2>1. asked_us' \in Nat /\ TimerTick' \in 0 .. Period - 1
    BY <1>1, TicksFit DEF delay_us
  <2>2. timer' \in 0 .. Period - 1 /\ TimerSnap' \in 0 .. Period - 1 /\ elapsed' \in Nat
    BY <1>1 DEF delay_us, DelayTypeOK
  <2>3. polling' \in BOOLEAN
    BY <1>1 DEF delay_us
  <2> QED
    BY <2>1, <2>2, <2>3 DEF DelayTypeOK
<1>2. ASSUME NEW n \in 1 .. Gap, Poll(n) PROVE DelayTypeOK'
  <2>1. n \in Nat /\ n <= Period /\ elapsed + n \in Nat
    BY <1>2, DelayAssumption DEF Poll, DelayTypeOK
  <2>2. timer' \in 0 .. Period - 1
    BY <1>2, <2>1, CountDownInRange DEF Poll, DelayTypeOK
  <2>3. elapsed' \in Nat
    BY <1>2, <2>1, CountedNat DEF Poll
  <2>4. polling' \in BOOLEAN
    <3>1. timer' \in Int /\ Target \in Int
      BY <2>2, DelayAssumption DEF DelayTypeOK, Target
    <3>2. (timer' > Target) \in BOOLEAN /\ (timer' < Target) \in BOOLEAN
      BY <3>1
    <3>3. Waiting(timer') \in BOOLEAN
      BY <3>2, Zenon DEF Waiting
    <3> QED
      BY <1>2, <3>3, Zenon DEF Poll
  <2> QED
    BY <1>2, <2>2, <2>3, <2>4 DEF Poll, DelayTypeOK
<1>3. CASE Work
  <2>1. timer' \in 0 .. Period - 1
    BY <1>3, CountDownInRange, DelayAssumption DEF Work, DelayTypeOK
  <2> QED
    BY <1>3, <2>1 DEF Work, DelayTypeOK
<1>4. CASE UNCHANGED delayVars
  BY <1>4 DEF delayVars, DelayTypeOK
<1> QED
  BY <1>1, <1>2, <1>3, <1>4 DEF DelayNext

-----------------------------------------------------------------------------
\* The clocks that have passed are those the timer has counted, or some
\* periods more.  A delay started far from the timer's end ends before it
\* wraps; one for which the timer has to wrap goes on only until the timer
\* does, or is past its ticks.
Elapsing ==
  polling =>
    /\ elapsed >= TimerSnap - timer
    /\ TimerSnap >= TimerTick + Gap =>
         elapsed = TimerSnap - timer /\ timer >= TimerSnap - TimerTick
    /\ TimerSnap <= TimerTick =>
         elapsed = TimerSnap - timer \/ elapsed >= TimerTick

DelayInv == DelayTypeOK /\ Elapsing

LEMMA DelayInvInit == DelayInit => DelayInv
<1> SUFFICES ASSUME DelayInit PROVE DelayInv
  OBVIOUS
<1>1. DelayTypeOK
  <2>1. TimerTick \in 0 .. Period - 1 /\ asked_us \in Nat /\ elapsed \in Nat
    BY DelayAssumption DEF DelayInit
  <2> QED
    BY <2>1 DEF DelayInit, DelayTypeOK
<1> QED
  BY <1>1 DEF DelayInit, DelayInv, Elapsing

\* What one poll does, in numbers
LEMMA PollCounts ==
  ASSUME DelayInv, NEW n \in 1 .. Gap, Poll(n)
  PROVE  /\ \/ timer' = timer - n
            \/ timer < n /\ timer' = timer - n + Period
         /\ timer' \in 0 .. Period - 1 /\ timer \in 0 .. Period - 1
         /\ elapsed' = elapsed + n \/ (elapsed' = 2 * Period /\ elapsed + n >= 2 * Period)
         /\ TimerTick' = TimerTick /\ TimerSnap' = TimerSnap
         /\ TimerTick \in 0 .. Period - 1 /\ TimerSnap \in 0 .. Period - 1
         /\ elapsed \in Nat /\ Period \in Nat /\ Gap \in Nat \ {0} /\ n \in 1 .. Gap
<1>1. n \in Nat /\ n <= Period
  BY DelayAssumption DEF Poll
<1>2. timer \in 0 .. Period - 1 /\ elapsed \in Nat /\ Period \in Nat
  BY DelayAssumption DEF DelayInv, DelayTypeOK
<1>3. timer' = timer - n \/ (timer < n /\ timer' = timer - n + Period)
  BY <1>1, <1>2 DEF Poll, CountDown
<1>4. elapsed' = elapsed + n \/ (elapsed' = 2 * Period /\ elapsed + n >= 2 * Period)
  BY <1>1, <1>2 DEF Poll, Counted
<1>5. timer' \in 0 .. Period - 1
  BY <1>1, <1>2, CountDownInRange DEF Poll
<1> QED
  BY <1>2, <1>3, <1>4, <1>5, DelayAssumption DEF Poll, DelayInv, DelayTypeOK

LEMMA PollElapses ==
  ASSUME DelayInv, NEW n \in 1 .. Gap, Poll(n)
  PROVE  Elapsing'
<1> SUFFICES ASSUME polling' PROVE Elapsing'
  BY DEF Elapsing
<1>1. polling /\ Waiting(timer')
  BY DEF Poll
<1>2. elapsed' >= TimerSnap' - timer'
  BY <1>1, PollCounts DEF DelayInv, Elapsing
<1>3. ASSUME TimerSnap >= TimerTick + Gap
      PROVE  elapsed' = TimerSnap - timer' /\ timer' >= TimerSnap - TimerTick
  <2>1. elapsed = TimerSnap - timer /\ timer >= TimerSnap - TimerTick
    BY <1>1, <1>3 DEF DelayInv, Elapsing
  <2>2. timer >= n
    BY <1>3, <2>1, PollCounts
  <2>3. timer' = timer - n /\ elapsed' = TimerSnap - timer'
    BY <2>1, <2>2, PollCounts
  <2>4. timer' > TimerSnap - TimerTick
    BY <1>1, <1>3, PollCounts DEF Waiting, Target
  <2> QED
    BY <2>3, <2>4, PollCounts
<1>4. ASSUME TimerSnap <= TimerTick
      PROVE  elapsed' = TimerSnap - timer' \/ elapsed' >= TimerTick
  <2>1. timer' < TimerSnap - TimerTick + Period
    BY <1>1, <1>4, PollCounts DEF Waiting, Target
  <2>2. elapsed = TimerSnap - timer \/ elapsed >= TimerTick
    BY <1>1, <1>4 DEF DelayInv, Elapsing
  <2>3. CASE elapsed' = 2 * Period
    BY <2>3, PollCounts
  <2>4. CASE elapsed' = elapsed + n /\ elapsed >= TimerTick
    BY <2>4, PollCounts
  <2>5. CASE elapsed' = elapsed + n /\ elapsed = TimerSnap - timer
    <3>1. CASE timer' = timer - n
      BY <2>5, <3>1, PollCounts
    <3>2. CASE timer' = timer - n + Period
      BY <2>1, <2>5, <3>2, PollCounts
    <3> QED
      BY <3>1, <3>2, PollCounts
  <2> QED
    BY <2>2, <2>3, <2>4, <2>5, PollCounts
<1> QED
  BY <1>2, <1>3, <1>4, PollCounts DEF Elapsing

LEMMA DelayInvStep == DelayInv /\ [DelayNext]_delayVars => DelayInv'
<1> SUFFICES ASSUME DelayInv, [DelayNext]_delayVars PROVE DelayInv'
  OBVIOUS
<1>1. DelayTypeOK'
  BY DelayTypeStep DEF DelayInv
<1>2. Elapsing'
  <2>1. ASSUME NEW t \in Delays, delay_us(t) PROVE Elapsing'
    <3>1. timer' \in Int /\ TimerSnap' \in Int /\ TimerTick' \in Nat
      BY <1>1, DelayAssumption DEF DelayTypeOK
    <3>2. timer' = TimerSnap' /\ elapsed' = 0
      BY <2>1 DEF delay_us
    <3>3. elapsed' = TimerSnap' - timer'
      <4>1. \A x, y \in Int : x = y => y - x = 0
        OBVIOUS
      <4> QED
        BY <3>1, <3>2, <4>1, Zenon
    <3>4. elapsed' >= TimerSnap' - timer' /\ timer' >= TimerSnap' - TimerTick'
      <4>1. \A x, y \in Int, z \in Nat : x = y => x >= y - z /\ 0 >= y - x
        OBVIOUS
      <4> QED
        BY <3>1, <3>2, <4>1, Zenon
    <3> QED
      BY <3>3, <3>4 DEF Elapsing
  <2>2. ASSUME NEW n \in 1 .. Gap, Poll(n) PROVE Elapsing'
    BY <2>2, PollElapses
  <2>3. CASE Work
    BY <2>3 DEF Work, Elapsing
  <2>4. CASE UNCHANGED delayVars
    BY <2>4 DEF delayVars, DelayInv, Elapsing
  <2> QED
    BY <2>1, <2>2, <2>3, <2>4 DEF DelayNext
<1> QED
  BY <1>1, <1>2 DEF DelayInv

\* The timer and the delay's variables keep their types, for every period.
THEOREM DelayTypeCorrect == DelaySpec => []DelayTypeOK
<1>1. DelayInit => DelayTypeOK
  BY DelayInvInit DEF DelayInv
<1>2. DelayTypeOK /\ [DelayNext]_delayVars => DelayTypeOK'
  BY DelayTypeStep
<1> QED
  BY <1>1, <1>2, PTL DEF DelaySpec

-----------------------------------------------------------------------------
\* A delay started far enough from the timer's end lasts its ticks, and a poll
\* longer at most; one that ends early was started with no more ticks left.
THEOREM DelayLength == DelaySpec => DelayWindow
<1>1. DelayInit => DelayInv
  BY DelayInvInit
<1>2. DelayInv /\ [DelayNext]_delayVars => DelayInv'
  BY DelayInvStep
<1>3. DelayInv /\ [DelayNext]_delayVars =>
        [Returns =>
           /\ TimerSnap >= TimerTick + Gap => elapsed' \in TimerTick .. TimerTick + Gap
           /\ elapsed' < TimerTick => TimerSnap <= TimerTick /\ elapsed' <= TimerSnap + Gap
        ]_delayVars
  <2> SUFFICES ASSUME DelayInv, DelayNext, Returns
               PROVE  /\ TimerSnap >= TimerTick + Gap =>
                           elapsed' \in TimerTick .. TimerTick + Gap
                      /\ elapsed' < TimerTick =>
                           TimerSnap <= TimerTick /\ elapsed' <= TimerSnap + Gap
    OBVIOUS
  <2>1. PICK n \in 1 .. Gap : Poll(n)
    BY DEF DelayNext, Returns, delay_us, Work
  <2>2. polling /\ ~Waiting(timer')
    BY <2>1 DEF Returns, Poll
  <2>3. ASSUME TimerSnap >= TimerTick + Gap
        PROVE  elapsed' \in TimerTick .. TimerTick + Gap
    <3>1. elapsed = TimerSnap - timer /\ timer >= TimerSnap - TimerTick
      BY <2>2, <2>3 DEF DelayInv, Elapsing
    <3>2. timer >= n
      BY <2>1, <2>3, <3>1, PollCounts
    <3>3. timer' <= TimerSnap - TimerTick
      BY <2>1, <2>2, <2>3, PollCounts DEF Waiting, Target
    <3> QED
      BY <2>1, <2>3, <3>1, <3>2, <3>3, PollCounts
  <2>4. ASSUME elapsed' < TimerTick
        PROVE  TimerSnap <= TimerTick /\ elapsed' <= TimerSnap + Gap
    <3>1. TimerSnap <= TimerTick
      <4> SUFFICES ASSUME TimerSnap > TimerTick PROVE FALSE
        BY <2>1, PollCounts
      <4>1. timer' <= TimerSnap - TimerTick
        BY <2>1, <2>2, PollCounts DEF Waiting, Target
      <4>2. elapsed >= TimerSnap - timer
        BY <2>2 DEF DelayInv, Elapsing
      <4> QED
        BY <2>1, <2>4, <4>1, <4>2, PollCounts
    <3>2. elapsed = TimerSnap - timer \/ elapsed >= TimerTick
      BY <2>2, <3>1 DEF DelayInv, Elapsing
    <3> QED
      BY <2>1, <2>4, <3>1, <3>2, PollCounts
  <2> QED
    BY <2>3, <2>4
<1> QED
  BY <1>1, <1>2, <1>3, PTL DEF DelaySpec, DelayWindow

-----------------------------------------------------------------------------
(* LCD interface: what the display shows when a transfer is over, for every
   number of pages and columns, every picture and any requests meanwhile.
   The invariant follows a byte from the DMA controller (next, left) through
   the interface (byteCounter, step) to the display (lcdPage, lcdColumn). *)

\* Where the next byte belongs on the display
Page   == byteCounter \div Columns
PlaceInPage == byteCounter % Columns

\* Writes of the byte under way that are done
Copies == IF AddressDue THEN 0 ELSE (step + 1) \div 2

\* The handshake between the DMA controller and the interface
Handshake ==
  /\ transmitterBusy => left > 0
  /\ ~transmitterBusy => step = 0 /\ ~pageAddressSet
  /\ left = 0 => byteCounter = 0
  /\ left > 0 => next + left = Size + (IF transmitterBusy THEN 1 ELSE 0)
  /\ AddressDue => step <= 5
  /\ pageAddressSet => PlaceInPage = 0

\* As long as no transfer cuts into another one the interface counts the same
\* bytes as the controller, and the display's address is that of the byte.
InStep ==
  ~overlapped /\ left > 0 =>
    /\ byteCounter + left = Size
    /\ AddressDue => /\ step > 0 => lcdPage = Page
                     /\ step > 4 => lcdColumn = 0
    /\ ~AddressDue => /\ lcdPage = Page
                      /\ lcdColumn = (4 * PlaceInPage + Copies) % (4 * Columns)

\* What has been written since the transfer was begun
Written(p, c) ==
  left = 0 \/ p < Page \/ (p = Page /\ c < 4 * PlaceInPage + Copies)

Content ==
  drawing = "idle" /\ ~overlapped =>
    /\ transmitterBusy => lcdData = <<scrbuf, byteCounter>>
    /\ \A p \in 0 .. Pages - 1, c \in 0 .. 4 * Columns - 1 :
         Written(p, c) => lcdRam[p][c] = <<scrbuf, p * Columns + c \div 4>>

LcdInv == LcdTypeOK /\ Handshake /\ InStep /\ Content

LEMMA SizesPositive ==
  /\ Pages \in Nat /\ Pages > 0 /\ Columns \in Nat /\ Columns > 0
  /\ Size \in Nat /\ Size > 0
<1>1. Pages \in Nat /\ Pages > 0 /\ Columns \in Nat /\ Columns > 0
  BY LcdDmaAssumption
<1>2. \A m, n \in Nat : m > 0 /\ n > 0 => m * n \in Nat /\ m * n > 0
  OBVIOUS
<1> QED
  BY <1>1, <1>2 DEF Size

\* A remainder is below the divisor, and a number below it is its own.
LEMMA SmallRemainder ==
  ASSUME NEW x \in Nat, NEW m \in Nat, m > 0
  PROVE  x % m \in Nat /\ x % m < m /\ (x < m => x % m = x)
  OBVIOUS

\* A byte is at one place of one page.
LEMMA PlaceOf ==
  ASSUME NEW b \in Nat
  PROVE  /\ b \div Columns \in Nat /\ b % Columns \in Nat
         /\ b % Columns < Columns
         /\ b % Columns = b - (b \div Columns) * Columns
         /\ b = (b \div Columns) * Columns + (b % Columns)
<1>1. /\ b \div Columns \in Nat /\ b % Columns \in Nat
      /\ b % Columns < Columns
      /\ b % Columns = b - (b \div Columns) * Columns
  BY SizesPositive
<1> DEFINE q == b \div Columns
           r == b % Columns
<1>2. q * Columns \in Nat
  BY <1>1, SizesPositive
<1>3. r = b - q * Columns /\ r \in Nat
  BY <1>1
<1> DEFINE t == q * Columns
<1>4. b = t + r
  <2>1. t \in Nat /\ r = b - t /\ r \in Nat
    BY <1>2, <1>3
  <2> HIDE DEF t, r
  <2> QED BY <2>1
<1> QED BY <1>1, <1>4

\* The place is the only one.
LEMMA PlaceIsUnique ==
  ASSUME NEW b \in Nat, NEW q \in Nat, NEW r \in Nat, r < Columns,
         b = q * Columns + r
  PROVE  b \div Columns = q /\ b % Columns = r
  BY SizesPositive

\* Counting on, the place is the next one of the page or the first of the next.
LEMMA NextPlace ==
  ASSUME NEW b \in Nat
  PROVE  /\ (b % Columns) + 1 < Columns =>
              (b + 1) \div Columns = b \div Columns /\ (b + 1) % Columns = (b % Columns) + 1
         /\ (b % Columns) + 1 = Columns =>
              (b + 1) \div Columns = b \div Columns + 1 /\ (b + 1) % Columns = 0
<1> DEFINE q == b \div Columns
           r == b % Columns
<1>1. q \in Nat /\ r \in Nat /\ r < Columns /\ b = q * Columns + r
  BY PlaceOf
<1> HIDE DEF q, r
<1>2. ASSUME r + 1 < Columns
      PROVE  (b + 1) \div Columns = q /\ (b + 1) % Columns = r + 1
  <2>1. b + 1 = q * Columns + (r + 1)
    BY <1>1, SizesPositive
  <2> QED BY <1>1, <1>2, <2>1, PlaceIsUnique
<1>3. ASSUME r + 1 = Columns
      PROVE  (b + 1) \div Columns = q + 1 /\ (b + 1) % Columns = 0
  <2>1. b + 1 = (q + 1) * Columns + 0
    BY <1>1, <1>3, SizesPositive
  <2> QED BY <1>1, <2>1, SizesPositive, PlaceIsUnique
<1> QED BY <1>2, <1>3 DEF q, r

\* Every byte of a picture has its page on the display.
LEMMA PlaceOnDisplay ==
  ASSUME NEW b \in Nat, b < Size
  PROVE  /\ b \div Columns < Pages
         /\ b + 1 = Size => b \div Columns = Pages - 1 /\ b % Columns = Columns - 1
<1> DEFINE q == b \div Columns
           r == b % Columns
<1>1. q \in Nat /\ r \in Nat /\ r < Columns /\ b = q * Columns + r
  BY PlaceOf
<1> HIDE DEF q, r
<1>2. q < Pages
  <2>1. SUFFICES ASSUME q >= Pages PROVE FALSE
    BY <1>1, SizesPositive
  <2>2. q * Columns >= Pages * Columns
    BY <1>1, <2>1, SizesPositive
  <2> QED BY <1>1, <2>2, SizesPositive DEF Size
<1>3. ASSUME b + 1 = Size
      PROVE  q = Pages - 1 /\ r = Columns - 1
  <2>1. b = (Pages - 1) * Columns + (Columns - 1)
    BY <1>3, SizesPositive DEF Size
  <2> QED BY <2>1, SizesPositive, PlaceIsUnique DEF q, r
<1> QED BY <1>2, <1>3 DEF q, r

\* What the invariant says of the place of the byte under way.
LEMMA PlaceNow ==
  ASSUME LcdInv, left > 0, ~overlapped
  PROVE  /\ byteCounter < Size /\ Page \in 0 .. Pages - 1 /\ PlaceInPage \in 0 .. Columns - 1
         /\ byteCounter = Page * Columns + PlaceInPage
         /\ AddressDue \/ PlaceInPage # 0 \/ pageAddressSet
<1>1. byteCounter \in Nat /\ left \in Nat /\ byteCounter + left = Size
  BY SizesPositive DEF LcdInv, LcdTypeOK, InStep
<1>2. byteCounter < Size
  BY <1>1, SizesPositive
<1> QED
  BY <1>1, <1>2, PlaceOf, PlaceOnDisplay, SizesPositive DEF Page, PlaceInPage, AddressDue

\* The interface starts counting at 0.
LEMMA AtZero == 0 \div Columns = 0 /\ 0 % Columns = 0
  BY SizesPositive

LEMMA LcdInitInv == LcdInit => LcdInv
<1> SUFFICES ASSUME LcdInit PROVE LcdInv
  OBVIOUS
<1> USE SizesPositive
<1>1. LcdTypeOK
  <2>1. Noise \in Bytes
    BY DEF Noise, Bytes
  <2>2. lcdRam \in [0 .. Pages - 1 -> [0 .. 4 * Columns - 1 -> Bytes]]
    BY <2>1, Zenon DEF LcdInit
  <2>3. 0 \in 0 .. Pages - 1 /\ 0 \in 0 .. 4 * Columns - 1 /\ 0 \in 0 .. Size + 1
        /\ 0 \in 0 .. Size /\ 0 \in 0 .. 7
    OBVIOUS
  <2> QED BY <2>1, <2>2, <2>3, Zenon DEF LcdInit, LcdTypeOK
<1>2. Handshake
  BY AtZero DEF LcdInit, Handshake, AddressDue
<1>3. InStep /\ Content
  BY DEF LcdInit, InStep, Content
<1> QED BY <1>1, <1>2, <1>3 DEF LcdInv

LEMMA LcdTypeStep == LcdInv /\ [LcdNext]_lcdVars => LcdTypeOK'
<1> SUFFICES ASSUME LcdInv, [LcdNext]_lcdVars PROVE LcdTypeOK'
  OBVIOUS
<1> USE SizesPositive DEF LcdInv, LcdTypeOK
<1>1. CASE ClrScr
  BY <1>1 DEF ClrScr, dmaVars, interfaceVars, displayVars
<1>2. CASE DrawPicture
  BY <1>2 DEF DrawPicture, dmaVars, interfaceVars, displayVars
<1>3. CASE LCD_Update
  <2>1. left' \in 0 .. Size + 1 /\ next' \in 0 .. Size
    BY <1>3 DEF LCD_Update
  <2>2. overlapped' \in BOOLEAN
    BY <1>3 DEF LCD_Update, Transferring
  <2> QED BY <1>3, <2>1, <2>2 DEF LCD_Update, interfaceVars, displayVars
<1>4. CASE TakeByte
  <2>1. next + left = Size
    BY <1>4 DEF TakeByte, Handshake
  <2>2. next + 1 \in 0 .. Size /\ <<scrbuf, next>> \in Bytes
    BY <1>4, <2>1 DEF TakeByte, Bytes
  <2> QED BY <1>4, <2>2 DEF TakeByte, mainVars, displayVars
<1>5. CASE SendAddress
  <2>1. byteCounter \div Columns \in Nat
    BY PlaceOf
  <2>2. lcdPage' \in 0 .. Pages - 1
    BY <1>5, <2>1 DEF SendAddress
  <2>3. lcdColumn' \in 0 .. 4 * Columns - 1 /\ step' \in 0 .. 7
        /\ pageAddressSet' \in BOOLEAN
    BY <1>5 DEF SendAddress
  <2> QED BY <1>5, <2>2, <2>3 DEF SendAddress, mainVars, dmaVars
<1>6. CASE SendData
  <2>1. step' \in 0 .. 7
    BY <1>6 DEF SendData
  <2>2. lcdColumn' \in 0 .. 4 * Columns - 1
    <3>1. lcdColumn + 1 \in Nat /\ 4 * Columns \in Nat /\ 4 * Columns > 0
      OBVIOUS
    <3>2. (lcdColumn + 1) % (4 * Columns) \in 0 .. 4 * Columns - 1
      BY <3>1, SmallRemainder
    <3> QED BY <1>6, <3>2 DEF SendData
  <2>3. lcdRam' \in [0 .. Pages - 1 -> [0 .. 4 * Columns - 1 -> Bytes]]
    <3>1. [lcdRam[lcdPage] EXCEPT ![lcdColumn] = lcdData] \in [0 .. 4 * Columns - 1 -> Bytes]
      OBVIOUS
    <3>2. [lcdRam EXCEPT ![lcdPage][lcdColumn] = lcdData]
            \in [0 .. Pages - 1 -> [0 .. 4 * Columns - 1 -> Bytes]]
      BY <3>1
    <3> QED BY <1>6, <3>2 DEF SendData
  <2> QED BY <1>6, <2>1, <2>2, <2>3 DEF SendData, mainVars, dmaVars
<1>7. CASE FinishByte
  <2>1. left > 0
    BY <1>7 DEF FinishByte, Handshake
  <2>2. left' \in 0 .. Size + 1 /\ byteCounter' \in Nat
    BY <1>7, <2>1 DEF FinishByte
  <2>3. transmitterBusy' = FALSE /\ pageAddressSet' = FALSE /\ step' = 0
        /\ UNCHANGED <<drawing, scrbuf, next, lcdData, lcdPage, lcdColumn, lcdRam, overlapped>>
    BY <1>7 DEF FinishByte, mainVars, displayVars
  <2>4. 0 \in 0 .. 7
    OBVIOUS
  <2> QED BY <2>2, <2>3, <2>4, Zenon
<1>8. CASE UNCHANGED lcdVars
  BY <1>8 DEF lcdVars, mainVars, dmaVars, interfaceVars, displayVars
<1> QED
  BY <1>1, <1>2, <1>3, <1>4, <1>5, <1>6, <1>7, <1>8 DEF LcdNext, Transfer

LEMMA HandshakeStep == LcdInv /\ [LcdNext]_lcdVars => Handshake'
<1> SUFFICES ASSUME LcdInv, [LcdNext]_lcdVars PROVE Handshake'
  OBVIOUS
<1> USE SizesPositive DEF LcdInv, LcdTypeOK, Handshake
<1>1. CASE ClrScr
  BY <1>1 DEF ClrScr, dmaVars, interfaceVars, displayVars, AddressDue, PlaceInPage
<1>2. CASE DrawPicture
  BY <1>2 DEF DrawPicture, dmaVars, interfaceVars, displayVars, AddressDue, PlaceInPage
<1>3. CASE LCD_Update
  BY <1>3 DEF LCD_Update, interfaceVars, displayVars, AddressDue, PlaceInPage
<1>4. CASE TakeByte
  BY <1>4 DEF TakeByte, mainVars, displayVars, AddressDue, PlaceInPage
<1>5. CASE SendAddress
  BY <1>5 DEF SendAddress, mainVars, dmaVars, AddressDue, PlaceInPage
<1>6. CASE SendData
  BY <1>6 DEF SendData, mainVars, dmaVars, AddressDue, PlaceInPage
<1>7. CASE FinishByte
  BY <1>7, AtZero DEF FinishByte, mainVars, displayVars, AddressDue, PlaceInPage
<1>8. CASE UNCHANGED lcdVars
  BY <1>8 DEF lcdVars, mainVars, dmaVars, interfaceVars, displayVars, AddressDue, PlaceInPage
<1> QED
  BY <1>1, <1>2, <1>3, <1>4, <1>5, <1>6, <1>7, <1>8 DEF LcdNext, Transfer

\* The byte under way is written within its page.
LEMMA WriteColumn ==
  ASSUME LcdInv, left > 0, ~overlapped, transmitterBusy, ~AddressDue, step < 7
  PROVE  /\ Copies \in 0 .. 3
         /\ lcdPage = Page /\ lcdColumn = 4 * PlaceInPage + Copies
<1>1. Copies \in 0 .. 3
  BY DEF LcdInv, LcdTypeOK, Copies
<1>2. PlaceInPage \in 0 .. Columns - 1
  BY PlaceNow
<1>3. 4 * PlaceInPage + Copies \in Nat /\ 4 * Columns \in Nat
      /\ 4 * Columns > 0 /\ 4 * PlaceInPage + Copies < 4 * Columns
  BY <1>1, <1>2, SizesPositive
<1>4. (4 * PlaceInPage + Copies) % (4 * Columns) = 4 * PlaceInPage + Copies
  BY <1>3, SmallRemainder
<1> QED BY <1>1, <1>4 DEF LcdInv, InStep

LEMMA InStepStep == LcdInv /\ [LcdNext]_lcdVars => InStep'
<1> SUFFICES ASSUME LcdInv, [LcdNext]_lcdVars, ~overlapped', left' > 0
             PROVE  /\ byteCounter' + left' = Size
                    /\ AddressDue' => /\ step' > 0 => lcdPage' = Page'
                                      /\ step' > 4 => lcdColumn' = 0
                    /\ ~AddressDue' => /\ lcdPage' = Page'
                                       /\ lcdColumn' = (4 * PlaceInPage' + Copies') % (4 * Columns)
  BY DEF InStep
<1>0. /\ transmitterBusy => left > 0
      /\ ~transmitterBusy => step = 0 /\ ~pageAddressSet
      /\ left = 0 => byteCounter = 0
      /\ AddressDue => step <= 5
      /\ pageAddressSet => PlaceInPage = 0
  BY DEF LcdInv, Handshake
<1>1. CASE UNCHANGED <<left, step, byteCounter, pageAddressSet, lcdPage, lcdColumn, overlapped>>
  BY <1>1 DEF LcdInv, InStep, AddressDue, Page, PlaceInPage, Copies
<1>2. CASE LCD_Update
  <2>1. left = 0 /\ ~transmitterBusy /\ step = 0 /\ byteCounter = 0 /\ ~pageAddressSet
    <3>1. ~(left > 0) /\ ~transmitterBusy
      BY <1>2, Zenon DEF LCD_Update, Transferring
    <3>2. left = 0
      BY <3>1, SizesPositive DEF LcdInv, LcdTypeOK
    <3> QED BY <1>0, <3>1, <3>2
  <2>2. left' = Size /\ step' = 0 /\ byteCounter' = 0 /\ ~pageAddressSet'
    BY <1>2, <2>1 DEF LCD_Update, interfaceVars
  <2>3. AddressDue'
    BY <2>2, AtZero DEF AddressDue
  <2> QED BY <2>2, <2>3, SizesPositive
<1>3. CASE SendAddress
  <2> USE <1>3 DEF SendAddress, dmaVars
  <2>1. left > 0 /\ ~overlapped /\ AddressDue /\ step \in 0 .. 5
    BY <1>0 DEF LcdInv, LcdTypeOK
  <2>2. byteCounter + left = Size /\ byteCounter < Size
        /\ Page \in 0 .. Pages - 1 /\ PlaceInPage = 0
    BY <2>1, PlaceNow DEF LcdInv, InStep, AddressDue, PlaceInPage
  <2>3. Page' = Page /\ PlaceInPage' = PlaceInPage /\ byteCounter' + left' = Size
    BY <2>2 DEF Page, PlaceInPage
  <2>4. lcdPage' = Page
    <3>1. lcdPage' = IF step = 0 /\ Page < Pages THEN Page ELSE lcdPage
      BY Zenon DEF Page
    <3>2. step > 0 => lcdPage = Page
      BY <2>1 DEF LcdInv, InStep
    <3> QED BY <2>1, <2>2, <3>1, <3>2, SizesPositive
  <2>5. CASE step < 5
    <3>1. AddressDue' /\ step' = step + 1
      <4>1. ~pageAddressSet' /\ step' = step + 1 /\ byteCounter' = byteCounter
        <5>1. ~(step >= 5) /\ step # 5
          BY <2>1, <2>5
        <5> QED BY <5>1, Zenon
      <4> QED BY <2>1, <4>1 DEF AddressDue
    <3>2. step' > 4 => lcdColumn' = 0
      BY <2>1, <3>1
    <3> QED BY <2>3, <2>4, <3>1, <3>2
  <2>6. CASE step = 5
    <3>1. ~AddressDue' /\ step' = 0 /\ lcdColumn' = 0
      <4>1. pageAddressSet' = TRUE /\ step' = 0 /\ lcdColumn' = lcdColumn
        <5>1. step >= 5 /\ step # 4
          BY <2>1, <2>6
        <5> QED BY <5>1, Zenon
      <4>2. lcdColumn = 0
        BY <2>1, <2>6 DEF LcdInv, InStep
      <4> QED BY <4>1, <4>2 DEF AddressDue
    <3>2. Copies' = 0
      BY <3>1 DEF Copies
    <3>3. (4 * PlaceInPage' + Copies') % (4 * Columns) = 0
      <4>1. 4 * Columns \in Nat /\ 4 * Columns > 0 /\ 4 * PlaceInPage' + Copies' = 0
        BY <2>2, <2>3, <3>2, SizesPositive
      <4> QED BY <4>1, SmallRemainder
    <3> QED BY <2>3, <2>4, <3>1, <3>3
  <2> QED BY <2>1, <2>5, <2>6
<1>4. CASE SendData
  <2>1. left > 0 /\ ~overlapped /\ ~AddressDue /\ transmitterBusy /\ step \in 0 .. 6
    BY <1>0, <1>4 DEF SendData, LcdInv, LcdTypeOK
  <2>2. /\ Copies \in 0 .. 3 /\ lcdPage = Page /\ lcdColumn = 4 * PlaceInPage + Copies
        /\ Page \in 0 .. Pages - 1 /\ PlaceInPage \in 0 .. Columns - 1
        /\ byteCounter + left = Size
    BY <2>1, WriteColumn, PlaceNow DEF LcdInv, InStep
  <2>3. /\ Page' = Page /\ PlaceInPage' = PlaceInPage /\ ~AddressDue' /\ lcdPage' = lcdPage
        /\ byteCounter' + left' = Size /\ step' = step + 1
    BY <1>4, <2>1, <2>2 DEF SendData, dmaVars, Page, PlaceInPage, AddressDue
  <2>4. CASE step % 2 = 0
    <3>1. lcdColumn' = (4 * PlaceInPage + Copies + 1) % (4 * Columns)
      BY <1>4, <2>2, <2>4 DEF SendData
    <3>2. Copies' = Copies + 1
      BY <2>1, <2>3, <2>4 DEF Copies
    <3>3. 4 * PlaceInPage' + Copies' = 4 * PlaceInPage + Copies + 1
      BY <2>2, <2>3, <3>2
    <3> QED BY <2>2, <2>3, <3>1, <3>3
  <2>5. CASE step % 2 # 0
    <3>1. lcdColumn' = lcdColumn
      BY <1>4, <2>5 DEF SendData
    <3>2. Copies' = Copies
      BY <2>1, <2>3, <2>5 DEF Copies
    <3>3. lcdColumn = (4 * PlaceInPage + Copies) % (4 * Columns)
      BY <2>1 DEF LcdInv, InStep
    <3> QED BY <2>2, <2>3, <3>1, <3>2, <3>3
  <2> QED BY <2>4, <2>5
<1>5. CASE FinishByte
  <2>1. left > 0 /\ ~overlapped /\ ~AddressDue /\ transmitterBusy /\ step = 7
    BY <1>0, <1>5 DEF FinishByte, LcdInv, LcdTypeOK
  <2>2. /\ lcdPage = Page /\ lcdColumn = (4 * PlaceInPage + 4) % (4 * Columns)
        /\ Page \in 0 .. Pages - 1 /\ PlaceInPage \in 0 .. Columns - 1
        /\ byteCounter + left = Size /\ byteCounter \in Nat /\ left \in Nat
    BY <2>1, PlaceNow, SizesPositive DEF LcdInv, InStep, Copies, LcdTypeOK
  <2>3. /\ left' = left - 1 /\ byteCounter' = byteCounter + 1 /\ step' = 0
        /\ pageAddressSet' = FALSE /\ lcdPage' = lcdPage /\ lcdColumn' = lcdColumn
    BY <1>5, <2>1 DEF FinishByte, displayVars
  <2>4. byteCounter' + left' = Size
    BY <2>2, <2>3, SizesPositive
  <2>5. CASE PlaceInPage + 1 < Columns
    <3>1. Page' = Page /\ PlaceInPage' = PlaceInPage + 1
      BY <2>2, <2>3, <2>5, NextPlace DEF Page, PlaceInPage
    <3>2. ~AddressDue'
      <4>1. PlaceInPage' # 0
        BY <2>2, <3>1
      <4> QED BY <4>1 DEF AddressDue, PlaceInPage
    <3>3. Copies' = 0
      BY <2>3, <3>2 DEF Copies
    <3>4. 4 * PlaceInPage' + Copies' = 4 * PlaceInPage + 4
      BY <2>2, <3>1, <3>3
    <3> QED BY <2>2, <2>3, <2>4, <3>1, <3>2, <3>4
  <2>6. CASE PlaceInPage + 1 = Columns
    <3>1. PlaceInPage' = 0
      BY <2>2, <2>3, <2>6, NextPlace DEF Page, PlaceInPage
    <3>2. AddressDue'
      BY <2>3, <3>1 DEF AddressDue, PlaceInPage
    <3> QED BY <2>3, <2>4, <3>2
  <2> QED BY <2>2, <2>5, <2>6, SizesPositive
<1>6. CASE ClrScr \/ DrawPicture \/ TakeByte
  BY <1>1, <1>6 DEF ClrScr, DrawPicture, TakeByte, dmaVars, interfaceVars, displayVars
<1>7. CASE UNCHANGED lcdVars
  BY <1>1, <1>7 DEF lcdVars, dmaVars, interfaceVars, displayVars
<1> QED
  BY <1>2, <1>3, <1>4, <1>5, <1>6, <1>7 DEF LcdNext, Transfer

LEMMA ContentStep == LcdInv /\ [LcdNext]_lcdVars => Content'
<1> SUFFICES ASSUME LcdInv, [LcdNext]_lcdVars, drawing' = "idle", ~overlapped'
             PROVE  /\ transmitterBusy' => lcdData' = <<scrbuf', byteCounter'>>
                    /\ \A p \in 0 .. Pages - 1, c \in 0 .. 4 * Columns - 1 :
                         Written(p, c)' => lcdRam'[p][c] = <<scrbuf', p * Columns + c \div 4>>
  BY DEF Content
<1>0. /\ transmitterBusy => left > 0
      /\ ~transmitterBusy => step = 0 /\ ~pageAddressSet
      /\ left = 0 => byteCounter = 0
      /\ left > 0 => next + left = Size + (IF transmitterBusy THEN 1 ELSE 0)
      /\ pageAddressSet => PlaceInPage = 0
  BY DEF LcdInv, Handshake
<1>1. ASSUME drawing = "idle", ~overlapped
      PROVE  /\ transmitterBusy => lcdData = <<scrbuf, byteCounter>>
             /\ \A p \in 0 .. Pages - 1, c \in 0 .. 4 * Columns - 1 :
                  Written(p, c) => lcdRam[p][c] = <<scrbuf, p * Columns + c \div 4>>
  BY <1>1 DEF LcdInv, Content
<1>2. CASE LCD_Update
  <2>1. ~(left > 0) /\ ~transmitterBusy
    BY <1>2, Zenon DEF LCD_Update, Transferring
  <2>2. left = 0
    BY <2>1, SizesPositive DEF LcdInv, LcdTypeOK
  <2>3. left' = Size /\ step' = 0 /\ byteCounter' = 0 /\ ~pageAddressSet' /\ ~transmitterBusy'
    BY <1>0, <1>2, <2>1, <2>2 DEF LCD_Update, interfaceVars
  <2>4. Page' = 0 /\ PlaceInPage' = 0 /\ AddressDue' /\ Copies' = 0
    BY <2>3, AtZero DEF AddressDue, Page, PlaceInPage, Copies
  <2>5. \A p \in 0 .. Pages - 1, c \in 0 .. 4 * Columns - 1 : ~Written(p, c)'
    BY <2>3, <2>4, SizesPositive DEF Written
  <2> QED BY <2>3, <2>5
<1>3. CASE TakeByte
  <2>1. left > 0 /\ ~transmitterBusy /\ drawing = "idle" /\ ~overlapped
    BY <1>3 DEF TakeByte, mainVars
  <2>2. next = byteCounter
    <3>1. next + left = Size /\ byteCounter + left = Size
      BY <1>0, <2>1, SizesPositive DEF LcdInv, InStep
    <3> QED BY <3>1, SizesPositive DEF LcdInv, LcdTypeOK
  <2>3. \A p, c : Written(p, c)' <=> Written(p, c)
    BY <1>3 DEF TakeByte, Written, Page, PlaceInPage, Copies, AddressDue
  <2>4. lcdData' = <<scrbuf', byteCounter'>>
    BY <1>3, <2>2 DEF TakeByte, mainVars
  <2> QED BY <1>1, <1>3, <2>1, <2>3, <2>4 DEF TakeByte, mainVars, displayVars
<1>4. CASE SendAddress
  <2>1. left > 0 /\ AddressDue /\ transmitterBusy /\ drawing = "idle" /\ ~overlapped
    BY <1>0, <1>4 DEF SendAddress, mainVars
  <2>2. Page' = Page /\ PlaceInPage' = PlaceInPage /\ left' = left
    BY <1>4 DEF SendAddress, dmaVars, Page, PlaceInPage
  <2>3. Copies = 0 /\ Copies' = 0
    <3>1. Copies = 0
      BY <2>1 DEF Copies
    <3>2. CASE step >= 5
      <4>1. step' = 0
        BY <1>4, <3>2, Zenon DEF SendAddress
      <4> QED BY <3>1, <4>1 DEF Copies
    <3>3. CASE ~(step >= 5)
      <4>1. ~pageAddressSet' /\ byteCounter' = byteCounter
        BY <1>4, <3>3, Zenon DEF SendAddress
      <4>2. AddressDue'
        BY <2>1, <4>1 DEF AddressDue
      <4> QED BY <3>1, <4>2 DEF Copies
    <3> QED BY <3>1, <3>2, <3>3
  <2>4. \A p, c : Written(p, c)' <=> Written(p, c)
    BY <2>2, <2>3, Zenon DEF Written
  <2> QED BY <1>1, <1>4, <2>1, <2>4, Zenon DEF SendAddress, mainVars
<1>5. CASE SendData
  <2>1. left > 0 /\ ~overlapped /\ ~AddressDue /\ transmitterBusy /\ step \in 0 .. 6
        /\ drawing = "idle"
    BY <1>0, <1>5 DEF SendData, LcdInv, LcdTypeOK, mainVars
  <2>2. /\ Copies \in 0 .. 3 /\ lcdPage = Page /\ lcdColumn = 4 * PlaceInPage + Copies
        /\ Page \in 0 .. Pages - 1 /\ PlaceInPage \in 0 .. Columns - 1
        /\ byteCounter = Page * Columns + PlaceInPage
    BY <2>1, WriteColumn, PlaceNow
  <2>3. /\ Page' = Page /\ PlaceInPage' = PlaceInPage /\ ~AddressDue' /\ step' = step + 1
        /\ left' = left /\ scrbuf' = scrbuf /\ lcdData' = lcdData /\ byteCounter' = byteCounter
    BY <1>5, <2>1 DEF SendData, mainVars, dmaVars, Page, PlaceInPage, AddressDue
  <2>4. lcdData = <<scrbuf, byteCounter>>
    BY <1>1, <2>1
  <2>5. CASE step % 2 = 0
    <3>1. lcdRam' = [lcdRam EXCEPT ![lcdPage][lcdColumn] = lcdData]
      BY <1>5, <2>5 DEF SendData
    <3>2. Copies' = Copies + 1
      BY <2>1, <2>3, <2>5 DEF Copies
    <3>3. ASSUME NEW p \in 0 .. Pages - 1, NEW c \in 0 .. 4 * Columns - 1, Written(p, c)'
          PROVE  lcdRam'[p][c] = <<scrbuf', p * Columns + c \div 4>>
      <4>1. Written(p, c) \/ (p = lcdPage /\ c = lcdColumn)
        BY <2>2, <2>3, <3>2, <3>3, SizesPositive DEF Written
      <4>2. CASE p = lcdPage /\ c = lcdColumn
        <5>1. c \div 4 = PlaceInPage
          BY <2>2, <4>2, SizesPositive
        <5>2. lcdRam'[p][c] = lcdData
          BY <3>1, <4>2 DEF LcdInv, LcdTypeOK
        <5> QED BY <2>2, <2>3, <2>4, <4>2, <5>1, <5>2
      <4>3. CASE ~(p = lcdPage /\ c = lcdColumn)
        <5>1. lcdRam'[p][c] = lcdRam[p][c]
          BY <3>1, <4>3 DEF LcdInv, LcdTypeOK
        <5> QED BY <1>1, <2>1, <2>3, <4>1, <4>3, <5>1
      <4> QED BY <4>2, <4>3
    <3> QED BY <2>3, <2>4, <3>3
  <2>6. CASE step % 2 # 0
    <3>1. lcdRam' = lcdRam
      BY <1>5, <2>6 DEF SendData
    <3>2. Copies' = Copies
      BY <2>1, <2>3, <2>6 DEF Copies
    <3>3. \A p, c : Written(p, c)' <=> Written(p, c)
      BY <2>3, <3>2, Zenon DEF Written
    <3> QED BY <1>1, <2>1, <2>3, <2>4, <3>1, <3>3
  <2> QED BY <2>5, <2>6
<1>6. CASE FinishByte
  <2>1. left > 0 /\ ~overlapped /\ ~AddressDue /\ transmitterBusy /\ step = 7
        /\ drawing = "idle"
    BY <1>0, <1>6 DEF FinishByte, LcdInv, LcdTypeOK, mainVars
  <2>2. /\ Page \in 0 .. Pages - 1 /\ PlaceInPage \in 0 .. Columns - 1 /\ Copies = 4
        /\ byteCounter + left = Size /\ byteCounter \in Nat /\ left \in Nat
    BY <2>1, PlaceNow, SizesPositive DEF LcdInv, InStep, Copies, LcdTypeOK
  <2>3. /\ left' = left - 1 /\ step' = 0 /\ ~transmitterBusy'
        /\ lcdRam' = lcdRam /\ scrbuf' = scrbuf
        /\ left' # 0 => byteCounter' = byteCounter + 1
    BY <1>6, <2>1 DEF FinishByte, displayVars, mainVars
  <2>4. ASSUME NEW p \in 0 .. Pages - 1, NEW c \in 0 .. 4 * Columns - 1, Written(p, c)'
        PROVE  Written(p, c)
    <3>1. CASE left' = 0
      <4>1. byteCounter + 1 = Size /\ byteCounter < Size
        BY <2>2, <2>3, <3>1, SizesPositive
      <4>2. Page = Pages - 1 /\ PlaceInPage = Columns - 1
        BY <2>2, <4>1, PlaceOnDisplay DEF Page, PlaceInPage
      <4> QED BY <2>2, <4>2, SizesPositive DEF Written
    <3>2. CASE left' # 0 /\ PlaceInPage + 1 < Columns
      <4>1. Page' = Page /\ PlaceInPage' = PlaceInPage + 1
        BY <2>2, <2>3, <3>2, NextPlace DEF Page, PlaceInPage
      <4>2. Copies' = 0
        BY <2>3 DEF Copies
      <4> QED BY <2>2, <2>4, <3>2, <4>1, <4>2, SizesPositive DEF Written
    <3>3. CASE left' # 0 /\ PlaceInPage + 1 = Columns
      <4>1. Page' = Page + 1 /\ PlaceInPage' = 0
        BY <2>2, <2>3, <3>3, NextPlace DEF Page, PlaceInPage
      <4>2. Copies' = 0
        BY <2>3 DEF Copies
      <4> QED BY <2>2, <2>4, <3>3, <4>1, <4>2, SizesPositive DEF Written
    <3> QED BY <2>2, <3>1, <3>2, <3>3, SizesPositive
  <2> QED BY <1>1, <2>1, <2>3, <2>4
<1>7. CASE ClrScr \/ DrawPicture
  BY <1>7 DEF ClrScr, DrawPicture
<1>8. CASE UNCHANGED lcdVars
  <2>1. UNCHANGED <<drawing, overlapped, transmitterBusy, lcdData, scrbuf, byteCounter,
                    left, step, pageAddressSet, lcdRam>>
    BY <1>8 DEF lcdVars, mainVars, dmaVars, interfaceVars, displayVars
  <2>2. \A p, c : Written(p, c)' <=> Written(p, c)
    BY <2>1 DEF Written, Page, PlaceInPage, Copies, AddressDue
  <2> QED BY <1>1, <2>1, <2>2
<1> QED
  BY <1>2, <1>3, <1>4, <1>5, <1>6, <1>7, <1>8 DEF LcdNext, Transfer

LEMMA LcdInvStep == LcdInv /\ [LcdNext]_lcdVars => LcdInv'
  BY LcdTypeStep, HandshakeStep, InStepStep, ContentStep, Zenon DEF LcdInv

\* The invariant holds.
THEOREM LcdInvariant == LcdSpec => []LcdInv
  BY LcdInitInv, LcdInvStep, PTL DEF LcdSpec

\* The registers of main loop, DMA controller and interface have their types,
\* and the display is written within its memory.
THEOREM LcdTypeCorrect == LcdSpec => []LcdTypeOK
  BY LcdInvariant, PTL DEF LcdInv

LEMMA LcdSettles == LcdInv => SettledScreen
<1> SUFFICES ASSUME LcdInv, drawing = "idle", ~Transferring, ~overlapped,
                    NEW p \in 0 .. Pages - 1, NEW c \in 0 .. 4 * Columns - 1
             PROVE  lcdRam[p][c] = <<scrbuf, p * Columns + c \div 4>>
  BY Zenon DEF SettledScreen, Shown
<1>1. left = 0
  BY SizesPositive DEF LcdInv, LcdTypeOK, Transferring
<1> QED BY <1>1 DEF LcdInv, Content, Written

\* After a transfer that did not cut into another one every byte of the screen
\* buffer is on the display, four times, in its place: LCD_DMA_Interface.v
\* addresses each page once and advances its column with every write.
THEOREM ScreenSettles == LcdSpec => []SettledScreen
  BY LcdSettles, LcdInvariant, PTL
=============================================================================
