----------------------------- MODULE FrontPanel -----------------------------
(***************************************************************************)
(* The front panel and the menu.                                           *)
(*                                                                         *)
(* Interrupts latch encoder, display buttons and keypad in one global each *)
(* and serve the ENABLE buttons themselves.  menu_draw passes what is      *)
(* latched to the handler of the current page, clears it, initialises the  *)
(* page if it is new and draws it; the sweep page, when drawn, overwrites  *)
(* or restores the settings of the channels.  Then the generators are      *)
(* reset if somebody asked for it.                                         *)
(*                                                                         *)
(* A setting stands for the values one page edits alike: "frequency" for   *)
(* those of the main page, "modulation" for the AM page's, "rate" and      *)
(* "deviation" are the FM page's, "start" also is the sweep frequency.     *)
(***************************************************************************)
EXTENDS Integers, Sequences

CONSTANTS
  Channels,   \* generator channels: the first, or both
  Max,        \* largest legal value of every setting; the smallest is 0
  SubPages,   \* pages the user enters from the icons (bound)
  Inputs,     \* kinds of input that occur (bound)
  Pressed,    \* display buttons and keys that are pressed (bound)
  Turns,      \* sums of steps the encoder latches (bound)
  Holds,      \* kinds of input whose buttons may stay down; the others are
              \* released before anything else happens (bound)
  AnyTime,    \* kinds of input that arrive between any two steps; the others
              \* arrive (bound) one at a time between passes
  NULL        \* no pointer

AllSubPages == {"settings", "phase", "sweep", "am", "fm", "sd"}
Latches == {"encoder", "display", "keypad"}
Buttons == {"0", "1", "2", "3", "4", "5"}
Keys == {"digit", "unit", "enter", "point"}

ASSUME PanelAssumption ==
  /\ Channels \in {{0}, {0, 1}}
  /\ Max \in Nat
  /\ SubPages \subseteq AllSubPages
  /\ Inputs \subseteq Latches \cup {"enable"}
  /\ Pressed \subseteq Buttons \cup Keys
  /\ Turns \subseteq Int /\ 0 \in Turns
  /\ Holds \subseteq {"encoder", "display", "enable"}
  /\ AnyTime \subseteq Inputs

Pages == {"main", "graphic"} \cup AllSubPages

\* The values of DDS_Variables, and those of sweepVariables
Setting  == {"frequency", "phase", "modulation", "rate", "deviation"}
Editable == (Setting \cup {"start", "stop"}) \X Channels

\* What the pointer of the FM page designates before the page's first init
Wild    == <<"wild", 0>>
Pointer == Editable \cup {Wild, NULL}

ASSUME NullAssumption == NULL \notin Editable \cup {Wild}

Legal   == 0 .. Max
Steps   == {-1, 0, 1}

VARIABLES
  turn, pushed,   \* encoder; btnEncoder
  button,         \* btnDisplay: "none", one button, or "many"
  key,            \* keypad: "none" is 0xFF
  held,           \* ports with a button down: "encoder", "display"
  enables,        \* ENABLE buttons that are down
  unhandled,      \* what was latched since its handler ran (history)
  pc,
  redraw,         \* redrawScreen
  page, initialized, stack,     \* menuPage and its call stack
  sel,            \* [page -> channel it has selected]
  fmReady,        \* selectedDDS of the FM page is not NULL
  typing,         \* typingScreen
  val,            \* [editable value -> value]
  on, savedValid, saved,        \* the sweep: switches and saved settings
  relay, wanted,  \* OutputRelay; what the ENABLE presses asked for (history)
  resetDDS, asked \* a reset asked for since the last pulse (history)

latchVars == <<turn, pushed, button, key>>
inputVars == <<latchVars, held, enables, unhandled>>
pageVars  == <<page, initialized, stack>>
menuVars  == <<pageVars, sel, fmReady, typing>>
sweepVars == <<on, savedValid, saved>>
outVars   == <<relay, wanted, resetDDS, asked>>
vars == <<inputVars, pc, redraw, menuVars, val, sweepVars, outVars>>

PC == {"encoder", "encoderClear", "display", "displayClear", "keypad",
       "keypadClear", "draw", "reset", "resetClear"}

Init ==
  /\ turn = 0 /\ pushed = FALSE /\ button = "none"
  /\ key = "digit" /\ unhandled = {"keypad"}       \* keypad = 0x00 is the key 0
  /\ held = {} /\ enables = {}
  /\ pc = "encoder" /\ redraw = TRUE
  /\ page = "main" /\ initialized = FALSE /\ stack = <<>>
  /\ sel = [p \in Pages |-> 0] /\ fmReady = FALSE
  /\ typing = [value |-> NULL, enabled |-> FALSE, initialized |-> FALSE,
               show |-> FALSE, invalid |-> FALSE]
  /\ val = [v \in Editable |-> IF v[1] = "stop" THEN Max ELSE 0]
  /\ on = [c \in Channels |-> FALSE]
  /\ savedValid = [c \in Channels |-> FALSE]
  /\ saved = [c \in Channels |-> [set |-> [s \in Setting |-> 0], relay |-> FALSE]]
  /\ relay = [c \in Channels |-> FALSE] /\ wanted = relay
  /\ resetDDS = TRUE /\ asked = TRUE

-----------------------------------------------------------------------------
(* The input interrupts *)

Latched(kind) ==
  CASE kind = "encoder" -> turn # 0 \/ pushed
    [] kind = "display" -> button # "none"
    [] kind = "keypad"  -> key # "none"

\* What the latches tell of their inputs: of the encoder, its steps, a button
\* that went down, and one that was down already.
Parts == [encoder |-> {"turn", "push", "held"}, display |-> {"display"},
          keypad |-> {"keypad"}]

\* An input of the given kind arrives now.
Arrives(kind) ==
  /\ kind \in Inputs
  /\ kind \in AnyTime \/ (pc = "encoder" /\ \A k \in Latches : ~Latched(k))

Latch(kind, parts) ==
  /\ Arrives(kind)
  /\ unhandled' = unhandled \cup parts
  /\ UNCHANGED <<enables, pc, redraw, menuVars, val, sweepVars, outVars>>

\* A button of the port went down.
StillDown(kind) == held \cup ({kind} \cap Holds)

\* ISR_btnEncoder, at every falling edge of the knob's lines and of its buttons:
\* the steps add up (one way and back leaves nothing), and whatever button is
\* down is latched, be it for the first time or again.
EncoderEdge(d, press) ==
  /\ turn + d \in Turns                             \* bound
  /\ Latch("encoder", {i \in Parts["encoder"] :
                         \/ i = "turn" /\ d # 0
                         \/ i = "push" /\ press
                         \/ i = "held" /\ "encoder" \in held})
  /\ turn' = turn + d
  /\ held' = IF press THEN StillDown("encoder") ELSE held
  /\ pushed' = (pushed \/ press \/ "encoder" \in held)
  /\ UNCHANGED <<button, key>>

TurnEncoder(d) == EncoderEdge(d, FALSE)

\* Between two detents the lines differ: the press counts as a step as well.
PushEncoder(d) == EncoderEdge(d, TRUE)

\* ISR_btnDisplay: the bits of all buttons that are down are ORed; two of them
\* are no case of any handler.
PressDisplay(b) ==
  /\ Latch("display", {"display"})
  /\ button' = IF button \in {"none", b} /\ "display" \notin held THEN b ELSE "many"
  /\ held' = StillDown("display")
  /\ UNCHANGED <<turn, pushed, key>>

\* ISR_Keypad: the last key wins
PressKey(k) ==
  /\ Latch("keypad", {"keypad"})
  /\ key' = k
  /\ UNCHANGED <<turn, pushed, button, held>>

\* ISR_btnEnable toggles the relay of each channel whose button is down, also of
\* those that were down before.
Toggles(cs) == enables \cup cs

\* mutant: a reset only when a channel goes on
PressEnableOn(cs) ==
  /\ Arrives("enable")
  /\ cs \cap enables = {}
  /\ enables' = IF "enable" \in Holds THEN enables \cup cs ELSE enables
  /\ relay'  = [c \in Channels |-> IF c \in Toggles(cs) THEN ~relay[c] ELSE relay[c]]
  /\ wanted' = [c \in Channels |-> IF c \in cs THEN ~wanted[c] ELSE wanted[c]]
  /\ resetDDS' = (\E c \in Toggles(cs) : relay'[c]) /\ asked' = (asked \/ resetDDS')
  /\ UNCHANGED <<latchVars, held, unhandled, pc, redraw, menuVars, val, sweepVars>>

PressEnable(cs) ==
  /\ Arrives("enable")
  /\ cs \cap enables = {}
  /\ enables' = IF "enable" \in Holds THEN enables \cup cs ELSE enables
  /\ relay'  = [c \in Channels |-> IF c \in Toggles(cs) THEN ~relay[c] ELSE relay[c]]
  /\ wanted' = [c \in Channels |-> IF c \in cs THEN ~wanted[c] ELSE wanted[c]]
  /\ resetDDS' = TRUE /\ asked' = TRUE
  /\ UNCHANGED <<latchVars, held, unhandled, pc, redraw, menuVars, val, sweepVars>>

\* All buttons of a port are up again: no falling edge, no interrupt.
Release(kind) ==
  /\ kind \in held /\ Arrives(kind)
  /\ held' = held \ {kind}
  /\ UNCHANGED <<latchVars, enables, unhandled, pc, redraw, menuVars, val, sweepVars, outVars>>

ReleaseEnable(c) ==
  /\ c \in enables /\ Arrives("enable")
  /\ enables' = enables \ {c}
  /\ UNCHANGED <<latchVars, held, unhandled, pc, redraw, menuVars, val, sweepVars, outVars>>

-----------------------------------------------------------------------------
(* menu_draw: a latched input goes to the handler of the page, then it is    *)
(* cleared                                                                   *)

NextPC == [encoder |-> "display", display |-> "keypad", keypad |-> "draw"]
ClearPC == [encoder |-> "encoderClear", display |-> "displayClear",
            keypad |-> "keypadClear"]

NoInput(kind) ==
  /\ pc = kind /\ ~Latched(kind)
  /\ pc' = NextPC[kind]
  /\ UNCHANGED <<inputVars, redraw, menuVars, val, sweepVars, outVars>>

\* The handler of this kind of input runs.
Handle(kind) ==
  /\ pc = kind /\ Latched(kind)
  /\ unhandled' = unhandled \ Parts[kind]
  /\ pc' = ClearPC[kind]
  /\ redraw' = TRUE
  /\ UNCHANGED <<latchVars, held, enables, savedValid, saved, relay, wanted>>

\* mutant: btnEncoder is not cleared
ClearTurnOnly ==
  /\ pc = "encoderClear"
  /\ turn' = 0 /\ unhandled' = unhandled \ Parts["encoder"]
  /\ pc' = "display"
  /\ UNCHANGED <<pushed, button, key, held, enables, redraw, menuVars, val, sweepVars, outVars>>

\* What came since the handler was called is cleared with what it handled.
ClearEncoder ==
  /\ pc = "encoderClear"
  /\ turn' = 0 /\ pushed' = FALSE /\ unhandled' = unhandled \ Parts["encoder"]
  /\ pc' = "display"
  /\ UNCHANGED <<button, key, held, enables, redraw, menuVars, val, sweepVars, outVars>>

ClearDisplay ==
  /\ pc = "displayClear"
  /\ button' = "none" /\ unhandled' = unhandled \ {"display"}
  /\ pc' = "keypad"
  /\ UNCHANGED <<turn, pushed, key, held, enables, redraw, menuVars, val, sweepVars, outVars>>

ClearKeypad ==
  /\ pc = "keypadClear"
  /\ key' = "none" /\ unhandled' = unhandled \ {"keypad"}
  /\ pc' = "draw"
  /\ UNCHANGED <<turn, pushed, button, held, enables, redraw, menuVars, val, sweepVars, outVars>>

-----------------------------------------------------------------------------
(* Pages and the typing screen *)

PushForgets(p) ==                                     \* mutant: page not saved
  /\ page' = p /\ initialized' = FALSE /\ stack' = stack

PushPage(p) ==
  /\ stack' = Append(stack, <<page, initialized>>)
  /\ page' = p /\ initialized' = FALSE

PopPage ==
  IF stack = <<>> THEN UNCHANGED pageVars
  ELSE LET top == stack[Len(stack)]
       IN /\ stack' = SubSeq(stack, 1, Len(stack) - 1)
          /\ page' = top[1] /\ initialized' = top[2]

\* mutant: a typing screen that is shown stays
ResetKeepsShow(v, enable) ==
  [value |-> v, enabled |-> enable, initialized |-> FALSE, show |-> typing.show,
   invalid |-> FALSE]

\* GP_ResetTypingScreen; no caller asks it to show the screen.
ResetTyping(v, enable) ==
  [value |-> v, enabled |-> enable, initialized |-> FALSE, show |-> FALSE,
   invalid |-> FALSE]
NoTyping == ResetTyping(NULL, FALSE)

\* A write in range through a pointer (one through Wild hits nothing modelled)
Stored(v, x) ==
  IF v \in Editable /\ x \in Legal THEN [val EXCEPT ![v] = x] ELSE val

\* One step of the encoder on the value v
Stepped(v, d) == IF v \in Editable THEN Stored(v, val[v] + d) ELSE val

OtherChannelPastEnd(c) == c + 1                        \* mutant: no wrap

\* The channel buttons; with one channel (bound) they leave it
OtherChannel(c) == IF 1 - c \in Channels THEN 1 - c ELSE c

\* Pages that edit with menu_ProcessEncoder
EditPages == {"main", "sweep", "am", "fm"}

-----------------------------------------------------------------------------
(* btn_encoder of the pages *)

\* menu_ProcessEncoder; the phase page edits its own value.
EncoderEdits ==
  /\ Handle("encoder")
  /\ \/ /\ page \in EditPages
        /\ val' = IF typing.enabled THEN Stepped(typing.value, turn) ELSE val
     \/ /\ page = "phase"
        /\ val' = Stepped(<<"phase", sel["phase"]>>, turn)
  /\ UNCHANGED <<menuVars, on, resetDDS, asked>>

\* The settings' own values, a selected icon or file: nothing of this module
EncoderSelects ==
  /\ Handle("encoder") /\ page \in {"graphic", "settings", "sd"}
  /\ UNCHANGED <<menuVars, val, on, resetDDS, asked>>

\* The encoder button opens the selected icon's page, whichever it is.
EncoderOpens(p) ==
  /\ Handle("encoder") /\ page = "graphic" /\ pushed
  /\ PushPage(p)
  /\ UNCHANGED <<sel, fmReady, typing, val, on, resetDDS, asked>>

-----------------------------------------------------------------------------
(* btn_display of the pages *)

\* The FM page updates selectedDDS at the end of every call.
HandleButton(p, bs) ==
  /\ Handle("display") /\ page = p /\ button \in bs
  /\ fmReady' = (fmReady \/ page = "fm")

\* CH_S; the sweep page keeps the typing screen, pointer included.
SelectChannel(p) ==
  /\ HandleButton(p, IF p = "main" THEN {"0"} ELSE {"1"})
  /\ sel' = [sel EXCEPT ![p] = OtherChannel(@)]
  /\ typing' = IF p = "sweep" THEN typing ELSE NoTyping
  /\ UNCHANGED <<pageVars, val, on, resetDDS, asked>>

OpenMenu ==
  /\ HandleButton("main", {"1"})
  /\ PushPage("graphic")
  /\ typing' = NoTyping
  /\ UNCHANGED <<sel, val, on, resetDDS, asked>>

OpenIcon(p) ==
  /\ HandleButton("graphic", {"5"})
  /\ PushPage(p)
  /\ UNCHANGED <<sel, typing, val, on, resetDDS, asked>>

LeftBy(p) == IF p = "am" THEN NoTyping ELSE typing     \* mutant: FM keeps it too

\* What RETURN leaves as typing screen: AM and FM reset it, phase after the pop.
LeftTyping(p) ==
  CASE p \in {"am", "fm"} -> NoTyping
    [] p = "phase" -> ResetTyping(<<"phase", sel["phase"]>>, TRUE)
    [] OTHER -> typing

Return(p) ==
  /\ HandleButton(p, {"0"})
  /\ PopPage
  /\ typing' = LeftTyping(p)
  /\ UNCHANGED <<sel, val, on, resetDDS, asked>>

\* The buttons that start an edit, and what they edit
Edits == [main  |-> [b \in {"3", "4", "5"} |-> "frequency"],
          sweep |-> [b \in {"3", "4", "5"} |-> IF b = "4" THEN "stop" ELSE "start"],
          am    |-> [b \in {"4", "5"} |-> "modulation"],
          fm    |-> [b \in {"4", "5"} |-> IF b = "4" THEN "rate" ELSE "deviation"]]

StartEdit(p) ==
  /\ HandleButton(p, DOMAIN Edits[p])
  /\ typing' = ResetTyping(IF p = "fm" /\ ~fmReady THEN Wild
                           ELSE <<Edits[p][button], sel[p]>>, TRUE)
  /\ UNCHANGED <<pageVars, sel, val, on, resetDDS, asked>>

SwitchSweep ==
  /\ HandleButton("sweep", {"2"})
  /\ on' = [on EXCEPT ![sel["sweep"]] = ~@]
  /\ UNCHANGED <<pageVars, sel, typing, val, resetDDS, asked>>

\* ON of the FM page: both channels are put in phase.
SwitchFM ==
  /\ HandleButton("fm", {"2"})
  /\ resetDDS' = TRUE /\ asked' = TRUE
  /\ UNCHANGED <<pageVars, sel, typing, val, on>>

\* The other buttons of the phase page, two at once included
PhaseButton ==
  /\ HandleButton("phase", (Buttons \ {"0"}) \cup {"many"})
  /\ LET c == CASE button = "1" -> 0
                [] button = "2" -> OtherChannel(0)
                [] OTHER -> sel["phase"]
         d == CASE button = "3" -> -1 [] button = "4" -> 1 [] OTHER -> 0
     IN /\ sel' = [sel EXCEPT !["phase"] = c]
        /\ val' = Stepped(<<"phase", c>>, d)
        /\ typing' = ResetTyping(<<"phase", c>>, TRUE)
  /\ UNCHANGED <<pageVars, on, resetDDS, asked>>

\* Waveforms, switches, selections that this module leaves out; two buttons
IdleButtons == [main |-> {"2"}, graphic |-> Buttons \ {"0"}, settings |-> Buttons \ {"0"},
                sweep |-> {}, am |-> {"2", "3"}, fm |-> {"3"}, sd |-> Buttons \ {"0"}]

OtherButton(p) ==
  /\ HandleButton(p, IdleButtons[p] \cup {"many"})
  /\ UNCHANGED <<pageVars, sel, typing, val, on, resetDDS, asked>>

-----------------------------------------------------------------------------
(* btn_keypad of the pages: menu_ProcessKeypadPress, where there is one *)

\* The first key opens the typing screen.
Opened == IF typing.initialized THEN typing
          ELSE [typing EXCEPT !.initialized = TRUE, !.show = TRUE, !.invalid = FALSE]

KeyIgnored ==
  /\ Handle("keypad")
  /\ page \notin EditPages \cup {"phase"} \/ ~typing.enabled
  /\ UNCHANGED <<menuVars, val, on, resetDDS, asked>>

HandleKey(ks) ==
  /\ Handle("keypad") /\ key \in ks
  /\ page \in EditPages \cup {"phase"} /\ typing.enabled
  /\ UNCHANGED <<pageVars, sel, fmReady, on, resetDDS, asked>>

KeyDigit ==
  /\ HandleKey({"digit", "point"})
  /\ typing' = IF key = "digit" THEN [Opened EXCEPT !.show = TRUE] ELSE Opened
  /\ UNCHANGED val

\* A unit tells whether the number fits.
KeyUnit ==
  /\ HandleKey({"unit"})
  /\ \E bad \in BOOLEAN : typing' = [Opened EXCEPT !.invalid = bad]
  /\ UNCHANGED val

\* #, on an invalid number: it may be typed again.
KeyEnterInvalid ==
  /\ HandleKey({"enter"}) /\ Opened.invalid
  /\ typing' = [Opened EXCEPT !.initialized = FALSE, !.invalid = FALSE]
  /\ UNCHANGED val

\* #, on a number: it is checked again, and stored if it fits.
KeyEnter ==
  /\ HandleKey({"enter"}) /\ ~Opened.invalid /\ Opened.show
  /\ \/ /\ typing' = [Opened EXCEPT !.show = FALSE, !.initialized = FALSE]
        /\ \E x \in Legal : val' = Stored(typing.value, x)
     \/ /\ typing' = [Opened EXCEPT !.invalid = TRUE, !.initialized = FALSE]
        /\ UNCHANGED val

-----------------------------------------------------------------------------
(* menu_draw: init and draw of the page *)

InitTyping ==
  CASE page \in {"main", "sweep", "am"} -> NoTyping
    [] page \in {"graphic", "settings"} -> [typing EXCEPT !.enabled = FALSE]
    [] page = "phase" -> ResetTyping(<<"phase", 0>>, TRUE)
    [] page \in {"fm", "sd"} -> typing

InitPage ==
  IF initialized THEN UNCHANGED <<sel, fmReady, typing>>
  ELSE /\ sel' = [sel EXCEPT ![page] = IF page \in {"phase", "sweep"} THEN 0 ELSE @]
       /\ fmReady' = (fmReady \/ page = "fm")
       /\ typing' = InitTyping

Settings(c) == [s \in Setting |-> val[<<s, c>>]]
Start(c) == val[<<"start", c>>]
Deviation(c) == (val[<<"stop", c>>] - Start(c)) \div 2

\* What the sweep makes of the settings of channel c
Swept(c) ==
  [s \in Setting |-> CASE s = "frequency" -> Start(c) + Deviation(c)
                       [] s = "rate"      -> Start(c)
                       [] s = "deviation" -> Deviation(c)
                       [] OTHER           -> val[<<s, c>>]]

SaveAlways(c) == on[c]                                \* mutant: saves every time
RestoreAlways(c) == ~on[c]                            \* mutant: restores when off
SaveUnlessOff(c) == on[c] /\ Start(c) > 0 /\ ~savedValid[c]   \* mutant: 0 is "none"

MustSave(c)    == on[c] /\ ~savedValid[c]
MustRestore(c) == ~on[c] /\ savedValid[c]

\* Compute of the sweep page, for all channels
Compute ==
  /\ saved' = [c \in Channels |->
       IF MustSave(c) THEN [set |-> Settings(c), relay |-> relay[c]] ELSE saved[c]]
  /\ savedValid' = [c \in Channels |->
       (savedValid[c] \/ MustSave(c)) /\ ~MustRestore(c)]
  /\ val' = [v \in Editable |->
       IF v[1] \notin Setting THEN val[v]
       ELSE IF on[v[2]] THEN Swept(v[2])[v[1]]
       ELSE IF MustRestore(v[2]) THEN saved[v[2]].set[v[1]]
       ELSE val[v]]
  /\ relay' = [c \in Channels |-> IF MustRestore(c) THEN saved[c].relay ELSE relay[c]]

DrawPage ==
  /\ pc = "draw" /\ redraw
  /\ InitPage
  /\ IF page = "sweep" THEN Compute ELSE UNCHANGED <<saved, savedValid, val, relay>>
  /\ initialized' = TRUE /\ redraw' = FALSE
  /\ pc' = "reset"
  /\ UNCHANGED <<inputVars, page, stack, on, wanted, resetDDS, asked>>

NoRedraw ==
  /\ pc = "draw" /\ ~redraw
  /\ pc' = "reset"
  /\ UNCHANGED <<inputVars, redraw, menuVars, val, sweepVars, outVars>>

-----------------------------------------------------------------------------
(* ResetDDSModules: the pulse, then the flag *)

PulseReset ==
  /\ pc = "reset" /\ resetDDS
  /\ asked' = FALSE
  /\ pc' = "resetClear"
  /\ UNCHANGED <<inputVars, redraw, menuVars, val, sweepVars, relay, wanted, resetDDS>>

NoReset ==
  /\ pc = "reset" /\ ~resetDDS
  /\ pc' = "encoder"
  /\ UNCHANGED <<inputVars, redraw, menuVars, val, sweepVars, outVars>>

ClearReset ==
  /\ pc = "resetClear"
  /\ resetDDS' = FALSE
  /\ pc' = "encoder"
  /\ UNCHANGED <<inputVars, redraw, menuVars, val, sweepVars, relay, wanted, asked>>

-----------------------------------------------------------------------------
Interrupt ==
  \/ \E d \in Steps : TurnEncoder(d) \/ PushEncoder(d)
  \/ \E b \in Pressed \cap Buttons : PressDisplay(b)
  \/ \E k \in Pressed \cap Keys : PressKey(k)
  \/ \E cs \in (SUBSET Channels) \ {{}} : PressEnable(cs)
  \/ \E kind \in {"encoder", "display"} : Release(kind)
  \/ \E c \in Channels : ReleaseEnable(c)

EncoderHandler ==
  \/ EncoderEdits \/ EncoderSelects \/ \E p \in SubPages : EncoderOpens(p)

DisplayHandler ==
  \/ \E p \in EditPages : SelectChannel(p) \/ StartEdit(p)
  \/ OpenMenu \/ SwitchSweep \/ SwitchFM \/ PhaseButton
  \/ \E p \in SubPages : OpenIcon(p)
  \/ \E p \in Pages \ {"main"} : Return(p)
  \/ \E p \in Pages \ {"phase"} : OtherButton(p)

KeypadHandler == KeyIgnored \/ KeyDigit \/ KeyUnit \/ KeyEnterInvalid \/ KeyEnter

MainLoop ==
  \/ \E kind \in Latches : NoInput(kind)
  \/ EncoderHandler \/ ClearEncoder
  \/ DisplayHandler \/ ClearDisplay
  \/ KeypadHandler \/ ClearKeypad
  \/ DrawPage \/ NoRedraw
  \/ PulseReset \/ NoReset \/ ClearReset

Next == Interrupt \/ MainLoop

Spec == Init /\ [][Next]_vars
-----------------------------------------------------------------------------
(* Properties *)

TypeOK ==
  /\ turn \in Turns /\ pushed \in BOOLEAN
  /\ button \in Buttons \cup {"none", "many"} /\ key \in Keys \cup {"none"}
  /\ held \subseteq {"encoder", "display"} /\ enables \subseteq Channels
  /\ unhandled \subseteq {"turn", "push", "held", "display", "keypad"}
  /\ pc \in PC /\ redraw \in BOOLEAN
  /\ page \in Pages /\ initialized \in BOOLEAN
  /\ stack \in Seq(Pages \X BOOLEAN)
  /\ sel \in [Pages -> Channels] /\ fmReady \in BOOLEAN
  /\ typing \in [value : Pointer, enabled : BOOLEAN, initialized : BOOLEAN,
                 show : BOOLEAN, invalid : BOOLEAN]
  /\ val \in [Editable -> -Max .. Max]
  /\ on \in [Channels -> BOOLEAN] /\ savedValid \in [Channels -> BOOLEAN]
  /\ saved \in [Channels -> [set : [Setting -> -Max .. Max], relay : BOOLEAN]]
  /\ relay \in [Channels -> BOOLEAN] /\ wanted \in [Channels -> BOOLEAN]
  /\ resetDDS \in BOOLEAN /\ asked \in BOOLEAN

\* The page under a page is the one it was opened from: menu_PopPage never finds
\* an empty or a wrong stack, whatever is pressed before a new page is drawn.
PageStack ==
  [i \in 1 .. Len(stack) |-> stack[i][1]] =
    CASE page = "main"    -> <<>>
      [] page = "graphic" -> <<"main">>
      [] OTHER            -> <<"main", "graphic">>

\* The typing screen is shown or reads keys only with a value to edit: drawing it
\* and menu_ProcessKeypadPress follow the pointer without a test.
TypingSafe == typing.enabled \/ typing.show => typing.value # NULL

\* An edit goes to a value of the page the user sees, or to one the phase and the
\* sweep page left behind on RETURN.  On the FM page it may be astray.
Owned(p) ==
  CASE p = "main" -> {"frequency"}
    [] p = "am"   -> {"modulation"}
    [] p = "fm"   -> {"rate", "deviation", "wild"}
    [] OTHER      -> {}
TypingOwner ==
  typing.enabled =>
    typing.value[1] \in Owned(page) \cup {"phase", "start", "stop"}

\* dataStructures.h:91 on typingScreen.value: "Pointer to the value to be modified"
PointsToValue == typing.enabled => typing.value \in Editable

\* An input is handled again only by being held: what a latch holds has come
\* since its handler ran, except while it is about to be cleared - a step, a key,
\* a button of the display; but a button of the encoder that was down already is
\* handled again whenever the knob turns or another of them goes down.
NoReplay ==
  /\ pc # "encoderClear" =>
       /\ turn # 0 => "turn" \in unhandled
       /\ pushed => "push" \in unhandled \/ "held" \in unhandled
  /\ pc # "displayClear" /\ button # "none" => "display" \in unhandled
  /\ pc # "keypadClear" /\ key # "none" => "keypad" \in unhandled

\* A reset somebody asked for is dropped only between the pulse and the clearing
\* of the flag, the one place ENABLE can be overlooked.
ResetLostOnlyInWindow ==
  [][asked' /\ ~resetDDS' => (asked /\ ~resetDDS) \/ pc = "resetClear"]_vars

\* Once drawn, the sweep is on exactly for the channels whose settings are saved:
\* a page change never leaves a channel swept without its settings kept.
SweepApplied ==
  pc \notin {"displayClear", "keypad", "keypadClear", "draw"} => on = savedValid

\* Every value stays legal, over keypad, encoder, sweep and restore; only the
\* deviation the sweep computes may leave the range, and it is never saved.
ValuesInRange ==
  /\ \A v \in Editable : val[v] \in Legal \/ (v[1] = "deviation" /\ savedValid[v[2]])
  /\ \A c \in Channels : savedValid[c] => saved[c].set \in [Setting -> Legal]

\* An output relay departs from what its ENABLE button asked for only because
\* turning the sweep off restored it, or because its button was still down when
\* the other one was pressed.
RelayUndoneOnlyBySweepOrHold ==
  [][\A c \in Channels :
       relay[c] = wanted[c] /\ relay'[c] # wanted'[c] =>
         \/ savedValid[c] /\ ~savedValid'[c]
         \/ c \in enables /\ \E d \in Channels \ {c} : wanted'[d] # wanted[d]]_vars
=============================================================================
