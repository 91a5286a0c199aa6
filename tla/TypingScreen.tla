---------------------------- MODULE TypingScreen ----------------------------
(***************************************************************************)
(* Editing one selected value: menu_ProcessKeypadPress with digits,        *)
(* decimal point, measuring unit and # on the typing screen, and           *)
(* menu_ProcessEncoder with the digit under the cursor.  The pages around  *)
(* it are in FrontPanel, where a number only fits or does not fit.         *)
(*                                                                         *)
(* Numbers are exact, in parts of Base^Decimals: a float holds every entry *)
(* of seven digits with its integer part exactly; rounding, which may show *)
(* more decimals of a fraction than were typed, is left out.               *)
(***************************************************************************)
EXTENDS Integers, Sequences

CONSTANTS
  Base,         \* 10
  Decimals,     \* decimal digits typed at most (bound)
  Longest,      \* digits of an entry at most (bound)
  Turns,        \* steps of the encoder one pass finds (bound)
  Values,       \* kinds of values: [min, max, multipliers]; multipliers are
                \* those of the array, of which the unit keys reach three
  Words         \* what may lie in memory behind an array

ASSUME TypingScreenAssumption ==
  /\ Base \in Nat \ {0, 1} /\ Decimals \in Nat /\ Longest \in Nat
  /\ Turns \subseteq Int
  /\ Words \subseteq Nat /\ Words # {}
  /\ \A v \in Values : /\ v.min \in Nat /\ v.max \in Nat /\ v.min <= v.max
                       /\ v.multipliers \in Seq(Nat) /\ v.multipliers # <<>>

VARIABLES
  value,            \* typingScreen.value: what is being edited ...
  floatValue,       \* ... and its value
  selectedDigit,    \* the power of Base the encoder changes it by
  beyond,           \* the memory behind the array of its multipliers
  entered,          \* typingScreen.buffer
  decimalPoint, numDecimalValues, measuringUnitIndex,
  initialized, show, invalidValue,
  pressed,          \* the last key (history)
  typed, pointAt,   \* the digits since the last #, and how many of them came
                    \* before the point, or NoPoint (history)
  misfit            \* that entry did not fit when its unit was last chosen

screenVars  == <<entered, decimalPoint, numDecimalValues, measuringUnitIndex,
                 initialized, show, invalidValue>>
historyVars == <<pressed, typed, pointAt, misfit>>
typingVars  == <<value, floatValue, selectedDigit, beyond, screenVars, historyVars>>

UnitKeys == 0 .. 3               \* A, B, C, D
UnitsCount == 3                  \* measuringUnitsCount of every kind of value
NoPoint == -1

\* Base to the power of n
Power[n \in Nat] == IF n = 0 THEN 1 ELSE Base * Power[n - 1]
One == Power[Decimals]

TypingInit ==
  /\ value \in Values /\ floatValue = value.min * One
  /\ beyond \in [1 .. UnitsCount -> Words]
  /\ entered = 0 /\ decimalPoint = FALSE /\ numDecimalValues = 0
  /\ measuringUnitIndex = 0 /\ selectedDigit = 0
  /\ initialized = FALSE /\ show = FALSE /\ invalidValue = FALSE
  /\ pressed = "none" /\ typed = <<>> /\ pointAt = NoPoint /\ misfit = FALSE

\* measuringUnitsMultipliers[u]
Multiplier(u) ==
  LET known == Len(value.multipliers)
  IN  IF u < known THEN value.multipliers[u + 1] ELSE beyond[u - known + 1]

Fits(x) == x >= value.min * One /\ x <= value.max * One

\* GetNumDigitsI, GetNumDecimals
IntegerDigits(x) ==
  CHOOSE n \in 1 .. x \div One + 1 :
    /\ x \div One < Power[n]
    /\ n = 1 \/ x \div One >= Power[n - 1]
DecimalDigits(x) ==
  LET exact == {d \in 0 .. Decimals : x % Power[Decimals - d] = 0}
      least == CHOOSE d \in exact : \A e \in exact : d <= e
  IN  IF least < 3 THEN least ELSE 3

\* The digits of x, by their powers of Base
DigitPlaces(x) == -DecimalDigits(x) .. IntegerDigits(x) - 1

\* mutant: only a button meets the limits, not a new value
ClampedByButtons(d) ==
  selectedDigit' = IF d \in DigitPlaces(floatValue) THEN d ELSE selectedDigit

\* menu_ClampSelectedDigit, at the end of both handlers, for the cursor at d
ClampSelectedDigit(d) ==
  LET places == DigitPlaces(floatValue')
  IN  /\ selectedDigit' \in places
      /\ \A e \in places : IF d < selectedDigit' THEN selectedDigit' <= e
                           ELSE d > selectedDigit' => e <= selectedDigit'

-----------------------------------------------------------------------------
\* The button of the value is pressed: GP_ResetTypingScreen(value, true, false).
SelectValue ==
  /\ measuringUnitIndex' = 0 /\ selectedDigit' = 0
  /\ decimalPoint' = FALSE /\ numDecimalValues' = 0
  /\ initialized' = FALSE /\ show' = FALSE /\ invalidValue' = FALSE
  /\ pressed' = "select" /\ typed' = <<>> /\ pointAt' = NoPoint /\ misfit' = FALSE
  /\ UNCHANGED <<value, floatValue, beyond, entered>>

NumberGoesOn == entered            \* mutant: an entry goes on behind the #

\* The first key starts an entry.
Number   == IF initialized THEN entered ELSE 0
Fraction == IF initialized THEN numDecimalValues ELSE 0
AtPoint  == initialized /\ decimalPoint
Invalid  == initialized /\ invalidValue
OnScreen == show \/ ~initialized

\* A digit before the point, or behind it
KeyDigit(k) ==
  /\ Len(typed) < Longest
  /\ IF AtPoint
     THEN /\ Fraction < Decimals /\ numDecimalValues' = Fraction + 1
          /\ entered' = Number + k * Power[Decimals - numDecimalValues']
     ELSE numDecimalValues' = Fraction /\ entered' = Number * Base + k * One
  /\ decimalPoint' = AtPoint /\ invalidValue' = Invalid
  /\ initialized' = TRUE /\ show' = TRUE
  /\ pressed' = "digit" /\ typed' = Append(typed, k)
  /\ UNCHANGED <<value, floatValue, beyond, measuringUnitIndex, pointAt, misfit>>
  /\ ClampSelectedDigit(selectedDigit)

KeyPoint ==
  /\ entered' = Number /\ numDecimalValues' = Fraction /\ decimalPoint' = TRUE
  /\ invalidValue' = Invalid /\ initialized' = TRUE /\ show' = OnScreen
  /\ pressed' = "*" /\ pointAt' = IF pointAt = NoPoint THEN Len(typed) ELSE pointAt
  /\ UNCHANGED <<value, floatValue, beyond, measuringUnitIndex, typed, misfit>>
  /\ ClampSelectedDigit(selectedDigit)

\* A, B, C: the unit; D is none and leaves the multiplier 1.
KeyUnit(u) ==
  /\ entered' = Number /\ numDecimalValues' = Fraction /\ decimalPoint' = AtPoint
  /\ measuringUnitIndex' = IF u < UnitsCount THEN u ELSE measuringUnitIndex
  /\ invalidValue' = ~Fits(Number * (IF u < UnitsCount THEN Multiplier(u) ELSE 1))
  /\ initialized' = TRUE /\ show' = OnScreen
  /\ pressed' = "unit" /\ misfit' = invalidValue'
  /\ UNCHANGED <<value, floatValue, beyond, typed, pointAt>>
  /\ ClampSelectedDigit(selectedDigit)

\* #: the number is stored if it is in range; whatever happens the next key
\* starts an entry.  An entry marked invalid is only dropped.
KeyEnter ==
  /\ entered' = Number /\ numDecimalValues' = Fraction /\ decimalPoint' = AtPoint
  /\ initialized' = FALSE
  /\ \/ /\ Invalid
        /\ invalidValue' = FALSE /\ show' = OnScreen /\ UNCHANGED floatValue
     \/ /\ ~Invalid /\ OnScreen
        /\ LET final == Number * Multiplier(measuringUnitIndex)
           IN  IF Fits(final)
               THEN show' = FALSE /\ invalidValue' = FALSE /\ floatValue' = final
               ELSE show' = TRUE /\ invalidValue' = TRUE /\ UNCHANGED floatValue
  /\ pressed' = "#" /\ typed' = <<>> /\ pointAt' = NoPoint /\ misfit' = FALSE
  /\ UNCHANGED <<value, beyond, measuringUnitIndex>>
  /\ ClampSelectedDigit(selectedDigit)

\* The steps change the digit under the cursor, unless the value would leave
\* its range; then a button moves the cursor (1 left, -1 right).  A digit the
\* new value no longer shows is left: 1.9 and a tenth are 2, and the next
\* step makes it 3.
Encoder(turn, move) ==
  /\ turn # 0 \/ move # 0
  /\ LET turned == floatValue + turn * Power[Decimals + selectedDigit]
     IN  floatValue' = IF Fits(turned) THEN turned ELSE floatValue
  /\ ClampSelectedDigit(selectedDigit + move)
  /\ pressed' = "encoder"
  /\ UNCHANGED <<value, beyond, screenVars, typed, pointAt, misfit>>

TypingNext ==
  \/ SelectValue \/ KeyPoint \/ KeyEnter
  \/ \E k \in 0 .. Base - 1 : KeyDigit(k)
  \/ \E u \in UnitKeys : KeyUnit(u)
  \/ \E turn \in Turns, move \in -1 .. 1 : Encoder(turn, move)

TypingSpec == TypingInit /\ [][TypingNext]_typingVars

-----------------------------------------------------------------------------
(* Properties *)

\* The variables have their types; the value is in range (menu.c:150, :184) and
\* the cursor on a digit it shows (menu.c:231-234), whoever changed it last.
TypingTypeOK ==
  /\ value \in Values /\ floatValue \in Nat /\ Fits(floatValue)
  /\ selectedDigit \in DigitPlaces(floatValue)
  /\ beyond \in [1 .. UnitsCount -> Words]
  /\ entered \in Nat /\ decimalPoint \in BOOLEAN
  /\ numDecimalValues \in 0 .. Decimals /\ measuringUnitIndex \in 0 .. UnitsCount - 1
  /\ initialized \in BOOLEAN /\ show \in BOOLEAN /\ invalidValue \in BOOLEAN
  /\ pressed \in {"none", "select", "digit", "*", "unit", "#", "encoder"}
  /\ typed \in Seq(0 .. Base - 1) /\ pointAt \in {NoPoint} \cup Nat
  /\ misfit \in BOOLEAN

\* The number an entry stands for: digit i, of `whole` before the point, is worth
\* its power of Base.
Worth(digits, whole) ==
  LET sum[i \in 0 .. Len(digits)] ==
        IF i = 0 THEN 0 ELSE sum[i - 1] + digits[i] * Power[Decimals + whole - i]
  IN  sum[Len(digits)]

Whole == IF pointAt = NoPoint THEN Len(typed) ELSE pointAt

\* # (menu.c:145) stores the number typed since the last # times the unit
\* chosen last, be it for an earlier entry, if that is in range, and else
\* leaves the value.  With two surprises: an entry that did not fit when its
\* unit was chosen is dropped even if it has become one that fits; and nothing
\* typed is the number 0 - so that the # which should only close the window
\* "INVALID VALUE!" sets a value that may be 0 to 0: the first key starts a
\* new entry before # is looked at, and line 163 is never reached.
EnterStoresTheEntry ==
  [][pressed' = "#" =>
       LET final == Worth(typed, Whole) * Multiplier(measuringUnitIndex)
       IN  floatValue' = IF Fits(final) /\ ~misfit THEN final ELSE floatValue
    ]_typingVars
=============================================================================
