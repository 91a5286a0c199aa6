------------------------------- MODULE Keypad -------------------------------
(***************************************************************************)
(* The keypad scanner (Keypad.v): at every clock one slot of an eight-slot *)
(* scan - four columns, an evaluation, three idle slots - and one step of  *)
(* the debouncing state machine.  The finger is outside: a key's contact   *)
(* bounces for Bounce clocks after it is pressed or let go.                *)
(***************************************************************************)
EXTENDS Naturals, FiniteSets

CONSTANTS
  Keys,           \* the keys of the matrix
  Column,         \* [Keys -> 0 .. 3]
  Zero,           \* key 0: its code 8'h00 is what KeyCode powers up with
  None,           \* 8'hFF
  PressDelay,     \* _KEY_PRESS_DALAY, 10
  ReleaseDelay,   \* _KEY_RELEASE_DALAY, 20
  Bounce,         \* clocks a contact bounces (assumption about the keys)
  Dwell           \* clocks between two moves of fingers (assumption)

ASSUME KeypadAssumption ==
  /\ IsFiniteSet(Keys) /\ Column \in [Keys -> 0 .. 3]
  /\ Zero \in Keys /\ None \notin Keys
  /\ PressDelay \in Nat \ 0 .. 2 /\ ReleaseDelay \in Nat
  /\ Bounce \in Nat /\ Dwell \in Nat /\ Bounce <= Dwell

VARIABLES
  held,           \* keys under a finger
  moving, still,  \* the key moved last, clocks before a finger moves again
  \* scan
  ColumnsCounter, KeyCode, NumberInactiveRows,
  \* state machine
  CurrentState, DelayCounter, KeyPressed,
  \* history
  sampled,        \* keys a scan has met since the last one that met none
  reported        \* keys reported, since when no finger moved in their column

fingerVars == <<held, moving, still>>
scanVars   == <<ColumnsCounter, KeyCode, NumberInactiveRows>>
stateVars  == <<CurrentState, DelayCounter, KeyPressed>>
keypadVars == <<fingerVars, scanVars, stateVars, sampled, reported>>

KeypadInit ==
  /\ held = {} /\ moving = Zero /\ still = 0
  /\ ColumnsCounter = 0 /\ KeyCode = Zero /\ NumberInactiveRows = 0
  /\ CurrentState = "idle" /\ DelayCounter = 0 /\ KeyPressed = None
  /\ sampled = {} /\ reported = {}

-----------------------------------------------------------------------------
\* A finger presses a key or lets it go.
Finger(k) ==
  /\ still = 0
  /\ held' = IF k \in held THEN held \ {k} ELSE held \cup {k}
  /\ moving' = k /\ still' = Dwell
  /\ reported' = {j \in reported : Column[j] # Column[k]}
  /\ UNCHANGED <<scanVars, stateVars, sampled>>

\* What the contacts may be at a clock edge
Contacts ==
  IF still + Bounce <= Dwell THEN {held}
                             ELSE {held \cup {moving}, held \ {moving}}

\* mutant: the inactive columns are not counted anew in every scan
ScanCountsOn(contacts) ==
  LET inColumn == {k \in contacts : Column[k] = ColumnsCounter}
  IN  /\ ColumnsCounter' = (ColumnsCounter + 1) % 8
      /\ KeyCode' = CASE ColumnsCounter < 4 /\ Cardinality(inColumn) = 1 ->
                           CHOOSE k \in inColumn : TRUE
                      [] ColumnsCounter = 4 /\ NumberInactiveRows = 4 -> None
                      [] OTHER -> KeyCode
      /\ NumberInactiveRows' =
           IF ColumnsCounter < 4 /\ Cardinality(inColumn) # 1
           THEN (NumberInactiveRows + 1) % 8 ELSE NumberInactiveRows
      /\ UNCHANGED sampled

\* The scan: a column in which exactly one row is active gives the code; if
\* all four had none, or several, the code becomes 0xFF.
Scan(contacts) ==
  LET inColumn == {k \in contacts : Column[k] = ColumnsCounter}
  IN  /\ ColumnsCounter' = (ColumnsCounter + 1) % 8
      /\ CASE ColumnsCounter < 4 /\ Cardinality(inColumn) = 1 ->
                /\ KeyCode' \in inColumn /\ sampled' = sampled \cup inColumn
                /\ UNCHANGED NumberInactiveRows
           [] ColumnsCounter < 4 /\ Cardinality(inColumn) # 1 ->
                /\ NumberInactiveRows' = (NumberInactiveRows + 1) % 8
                /\ UNCHANGED <<KeyCode, sampled>>
           [] ColumnsCounter = 4 ->
                /\ KeyCode' = IF NumberInactiveRows = 4 THEN None ELSE KeyCode
                /\ sampled' = IF NumberInactiveRows = 4 THEN {} ELSE sampled
                /\ NumberInactiveRows' = 0
           [] OTHER -> UNCHANGED <<KeyCode, NumberInactiveRows, sampled>>

\* mutant: a pressed key is not waited for
NextStateAtOnce ==
  CASE CurrentState = "idle"        -> IF KeyCode # None THEN "waitRelease" ELSE "idle"
    [] CurrentState = "waitRelease" -> IF KeyCode = None THEN "released"
                                                         ELSE "waitRelease"
    [] OTHER                        -> IF DelayCounter > ReleaseDelay
                                       THEN "idle" ELSE CurrentState

NextState ==
  CASE CurrentState = "idle"        -> IF KeyCode # None THEN "pressed"
                                                         ELSE "idle"
    [] CurrentState = "pressed"     -> IF DelayCounter > PressDelay
                                       THEN "waitRelease" ELSE "pressed"
    [] CurrentState = "waitRelease" -> IF KeyCode = None THEN "released"
                                                         ELSE "waitRelease"
    [] CurrentState = "released"    -> IF DelayCounter > ReleaseDelay
                                       THEN "idle" ELSE "released"

\* mutant: the report follows the code
DebounceFollows ==
  /\ DelayCounter' = IF CurrentState \in {"pressed", "released"}
                     THEN (DelayCounter + 1) % 256 ELSE 0
  /\ KeyPressed' = CASE CurrentState = "waitRelease" -> KeyCode
                     [] CurrentState = "idle"        -> None
                     [] OTHER                        -> KeyPressed
  /\ CurrentState' = NextState

Debounce ==
  /\ DelayCounter' = IF CurrentState \in {"pressed", "released"}
                     THEN (DelayCounter + 1) % 256 ELSE 0
  /\ KeyPressed' = CASE CurrentState = "waitRelease" /\ KeyPressed = None -> KeyCode
                     [] CurrentState = "idle"                             -> None
                     [] OTHER                                             -> KeyPressed
  /\ CurrentState' = NextState

\* Both always blocks, on the registers as they were before the edge
KeypadClock ==
  /\ \E contacts \in Contacts : Scan(contacts)
  /\ Debounce
  /\ still' = IF still = 0 THEN 0 ELSE still - 1
  /\ reported' = IF KeyPressed' = KeyPressed THEN reported
                 ELSE reported \cup (held \cap {KeyPressed'})
  /\ UNCHANGED <<held, moving>>

KeypadNext == KeypadClock \/ \E k \in Keys : Finger(k)

KeypadSpec == KeypadInit /\ [][KeypadNext]_keypadVars /\ WF_keypadVars(KeypadClock)

-----------------------------------------------------------------------------
(* Properties *)

States == {"idle", "pressed", "waitRelease", "released"}

\* The registers have their types.
KeypadTypeOK ==
  /\ held \subseteq Keys /\ moving \in Keys /\ still \in 0 .. Dwell
  /\ ColumnsCounter \in 0 .. 7 /\ NumberInactiveRows \in 0 .. 7
  /\ KeyCode \in Keys \cup {None} /\ KeyPressed \in Keys \cup {None}
  /\ CurrentState \in States /\ DelayCounter \in 0 .. 255
  /\ sampled \subseteq Keys /\ reported \subseteq Keys

\* A report: the code PIO sees changes to a key.
Reports(k) == KeyPressed # k /\ KeyPressed' = k

\* Every reported key was met by a scan since a scan met none: the code 0x00
\* of key 0 with which KeyCode powers up (Keypad.v:22) is gone before the
\* press delay is over.
ReportsOnlyKeysMet ==
  [][\A k \in Keys : Reports(k) => k \in sampled]_keypadVars

\* One report for a press: a contact bouncing at either end for as long as a
\* scan takes makes no second one, unless another key of its column moves - two
\* keys down in one column read as none.  0xFF lies between two reports, so
\* that each has a falling edge for ISR_Keypad (hardware.c:207).
OneReportPerPress ==
  [][\A k \in Keys : Reports(k) => KeyPressed = None /\ k \notin reported]_keypadVars

\* A key that stays down alone is reported or follows one that was; when all
\* are up the report ends.
KeyReported ==
  /\ \A k \in Keys : <>[](held = {k}) => <>[](KeyPressed # None)
  /\ <>[](held = {}) => <>[](KeyPressed = None)
=============================================================================
