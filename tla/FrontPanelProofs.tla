-------------------------- MODULE FrontPanelProofs --------------------------
(***************************************************************************)
(* The front panel's properties, for both numbers of channels, any range   *)
(* of values, any set of pages and of inputs, and inputs at any time.      *)
(***************************************************************************)
EXTENDS FrontPanel, SequenceTheorems, TLAPS

-----------------------------------------------------------------------------
(* What the menu's helpers return *)

Typings == [value : Pointer, enabled : BOOLEAN, initialized : BOOLEAN,
            show : BOOLEAN, invalid : BOOLEAN]

LEMMA ChannelsFacts ==
  0 \in Channels /\ Channels \subseteq Int /\ \A c \in Channels : OtherChannel(c) \in Channels
BY PanelAssumption DEF OtherChannel

LEMMA ResetTypingType ==
  ASSUME NEW v \in Pointer, NEW e \in BOOLEAN
  PROVE  ResetTyping(v, e) \in Typings
BY DEF ResetTyping, Typings

LEMMA NoTypingType == NoTyping \in Typings
BY ResetTypingType DEF NoTyping, Pointer

LEMMA EditablePairs ==
  /\ \A s \in Setting \cup {"start", "stop"}, c \in Channels : <<s, c>> \in Editable
  /\ Editable \subseteq Pointer
BY DEF Editable, Pointer

LEMMA EditsEditable ==
  \A p \in EditPages : \A b \in DOMAIN Edits[p] :
    Edits[p][b] \in Setting \cup {"start", "stop"}
BY DEF Edits, EditPages, Setting

Values == [Editable -> -Max .. Max]

LEMMA StoredType ==
  ASSUME val \in Values, NEW v, NEW x
  PROVE  Stored(v, x) \in Values
<1>1. Max \in Nat
  BY PanelAssumption
<1>2. Legal \subseteq -Max .. Max
  BY <1>1 DEF Legal
<1> QED
  BY <1>2 DEF Stored, Values

LEMMA SteppedType ==
  ASSUME val \in Values, NEW v, NEW d
  PROVE  Stepped(v, d) \in Values
BY StoredType DEF Stepped

\* The sweep's settings lie between start and stop, or half their distance
\* from 0.
LEMMA SweptType ==
  ASSUME val \in Values, NEW c \in Channels
  PROVE  /\ Swept(c) \in [Setting -> -Max .. Max]
         /\ Settings(c) \in [Setting -> -Max .. Max]
<1>1. Max \in Nat
  BY PanelAssumption
<1>2. /\ Start(c) \in -Max .. Max
      /\ val[<<"stop", c>>] \in -Max .. Max
      /\ \A s \in Setting : val[<<s, c>>] \in -Max .. Max
  BY DEF Start, Values, Editable
<1>3. \A m \in Nat : \A a \in -m .. m, b \in -m .. m :
        /\ (b - a) \div 2 \in -m .. m
        /\ a + (b - a) \div 2 \in -m .. m
  OBVIOUS
<1>4. Deviation(c) \in -Max .. Max /\ Start(c) + Deviation(c) \in -Max .. Max
  BY <1>1, <1>2, <1>3 DEF Deviation
<1> QED
  BY <1>2, <1>4 DEF Swept, Settings

-----------------------------------------------------------------------------
(* Types *)

LEMMA TypeInit == Init => TypeOK
<1> SUFFICES ASSUME Init PROVE TypeOK
  OBVIOUS
<1>1. Max \in Nat /\ 0 \in Channels
  BY PanelAssumption
<1>2. sel \in [Pages -> Channels]
  BY <1>1 DEF Init
<1>3. typing \in Typings
  BY DEF Init, Typings, Pointer
<1>4. val \in Values /\ saved \in [Channels -> [set : [Setting -> -Max .. Max], relay : BOOLEAN]]
  BY <1>1 DEF Init, Values
<1>5. stack \in Seq(Pages \X BOOLEAN)
  BY DEF Init
<1>6. turn \in Turns /\ button \in Buttons \cup {"none", "many"} /\ key \in Keys \cup {"none"}
      /\ held \subseteq {"encoder", "display"} /\ enables \subseteq Channels
      /\ unhandled \subseteq {"turn", "push", "held", "display", "keypad"}
      /\ pc \in PC /\ page \in Pages
  BY PanelAssumption DEF Init, Keys, PC, Pages
<1>7. pushed \in BOOLEAN /\ redraw \in BOOLEAN /\ initialized \in BOOLEAN /\ fmReady \in BOOLEAN
      /\ resetDDS \in BOOLEAN /\ asked \in BOOLEAN
  BY DEF Init
<1>8. on \in [Channels -> BOOLEAN] /\ savedValid \in [Channels -> BOOLEAN]
      /\ relay \in [Channels -> BOOLEAN] /\ wanted \in [Channels -> BOOLEAN]
  BY DEF Init
<1> QED
  BY <1>2, <1>3, <1>4, <1>5, <1>6, <1>7, <1>8 DEF TypeOK, Typings, Values

InputsOK ==
  /\ turn \in Turns /\ pushed \in BOOLEAN
  /\ button \in Buttons \cup {"none", "many"} /\ key \in Keys \cup {"none"}
  /\ held \subseteq {"encoder", "display"} /\ enables \subseteq Channels
  /\ unhandled \subseteq {"turn", "push", "held", "display", "keypad"}

\* What the interrupts leave alone
LEMMA InterruptLeaves ==
  Interrupt =>
    /\ UNCHANGED <<pc, redraw, menuVars, val, sweepVars>>
    /\ UNCHANGED outVars \/ \E cs \in (SUBSET Channels) \ {{}} : PressEnable(cs)
<1> SUFFICES ASSUME Interrupt,
                    \A cs \in (SUBSET Channels) \ {{}} : ~ PressEnable(cs)
             PROVE  UNCHANGED <<pc, redraw, menuVars, val, sweepVars, outVars>>
  <2>1. ASSUME NEW cs \in (SUBSET Channels) \ {{}}, PressEnable(cs)
        PROVE  UNCHANGED <<pc, redraw, menuVars, val, sweepVars>>
    BY <2>1 DEF PressEnable
  <2> QED
    BY <2>1
<1>1. ASSUME NEW d \in Steps, TurnEncoder(d) \/ PushEncoder(d)
      PROVE  UNCHANGED <<pc, redraw, menuVars, val, sweepVars, outVars>>
  BY <1>1 DEF TurnEncoder, PushEncoder, EncoderEdge, Latch
<1>2. ASSUME NEW b \in Pressed \cap Buttons, PressDisplay(b)
      PROVE  UNCHANGED <<pc, redraw, menuVars, val, sweepVars, outVars>>
  BY <1>2 DEF PressDisplay, Latch
<1>3. ASSUME NEW k \in Pressed \cap Keys, PressKey(k)
      PROVE  UNCHANGED <<pc, redraw, menuVars, val, sweepVars, outVars>>
  BY <1>3 DEF PressKey, Latch
<1>4. ASSUME NEW kind, Release(kind)
      PROVE  UNCHANGED <<pc, redraw, menuVars, val, sweepVars, outVars>>
  BY <1>4 DEF Release
<1>5. ASSUME NEW c \in Channels, ReleaseEnable(c)
      PROVE  UNCHANGED <<pc, redraw, menuVars, val, sweepVars, outVars>>
  BY <1>5 DEF ReleaseEnable
<1> QED
  BY <1>1, <1>2, <1>3, <1>4, <1>5 DEF Interrupt

LEMMA InterruptType == TypeOK /\ Interrupt => TypeOK'
<1> SUFFICES ASSUME TypeOK, Interrupt PROVE TypeOK'
  OBVIOUS
<1>0. UNCHANGED <<pc, redraw, menuVars, val, sweepVars>>
  BY InterruptLeaves
<1>1. InputsOK
  BY DEF TypeOK, InputsOK
<1>2. InputsOK'
  <2> USE <1>1 DEF InputsOK, Latch, StillDown
  <2>1. ASSUME NEW d \in Steps, TurnEncoder(d) \/ PushEncoder(d) PROVE InputsOK'
    BY <2>1 DEF TurnEncoder, PushEncoder, EncoderEdge, Parts
  <2>2. ASSUME NEW b \in Pressed \cap Buttons, PressDisplay(b) PROVE InputsOK'
    BY <2>2, PanelAssumption DEF PressDisplay
  <2>3. ASSUME NEW k \in Pressed \cap Keys, PressKey(k) PROVE InputsOK'
    BY <2>3 DEF PressKey
  <2>4. ASSUME NEW cs \in (SUBSET Channels) \ {{}}, PressEnable(cs) PROVE InputsOK'
    BY <2>4 DEF PressEnable, latchVars
  <2>5. ASSUME NEW kind, Release(kind) PROVE InputsOK'
    BY <2>5 DEF Release, latchVars
  <2>6. ASSUME NEW c \in Channels, ReleaseEnable(c) PROVE InputsOK'
    BY <2>6 DEF ReleaseEnable, latchVars
  <2> QED
    BY <2>1, <2>2, <2>3, <2>4, <2>5, <2>6 DEF Interrupt
<1>3. /\ relay' \in [Channels -> BOOLEAN] /\ wanted' \in [Channels -> BOOLEAN]
      /\ resetDDS' \in BOOLEAN /\ asked' \in BOOLEAN
  <2>1. CASE UNCHANGED outVars
    BY <2>1 DEF outVars, TypeOK
  <2>2. ASSUME NEW cs \in (SUBSET Channels) \ {{}}, PressEnable(cs) PROVE <1>3
    BY <2>2 DEF PressEnable, TypeOK
  <2> QED
    BY <2>1, <2>2, InterruptLeaves
<1> QED
  BY <1>0, <1>2, <1>3 DEF TypeOK, InputsOK, menuVars, pageVars, sweepVars

LEMMA HandleType ==
  ASSUME TypeOK, NEW kind \in Latches, Handle(kind)
  PROVE  /\ InputsOK' /\ pc' \in PC /\ redraw' \in BOOLEAN
         /\ UNCHANGED <<savedValid, saved, relay, wanted>>
<1>1. unhandled' \subseteq unhandled /\ UNCHANGED <<latchVars, held, enables>>
  BY DEF Handle
<1>2. InputsOK'
  BY <1>1 DEF InputsOK, TypeOK, latchVars
<1> QED
  BY <1>2 DEF Handle, Latches, ClearPC, PC

LEMMA EncoderType == TypeOK /\ (EncoderHandler \/ ClearEncoder) => TypeOK'
<1> SUFFICES ASSUME TypeOK, EncoderHandler \/ ClearEncoder PROVE TypeOK'
  OBVIOUS
<1> USE HandleType DEF InputsOK, Latches, menuVars, pageVars, sweepVars, outVars
<1>1. CASE EncoderEdits
  <2>1. val \in Values
    BY DEF TypeOK, Values
  <2>2. val' \in Values
    BY <1>1, <2>1, SteppedType DEF EncoderEdits
  <2> QED
    BY <1>1, <2>2 DEF EncoderEdits, TypeOK, Values
<1>2. CASE EncoderSelects
  BY <1>2 DEF EncoderSelects, TypeOK
<1>3. ASSUME NEW p \in SubPages, EncoderOpens(p) PROVE TypeOK'
  <2>1. page' \in Pages /\ stack' \in Seq(Pages \X BOOLEAN)
    BY <1>3, PanelAssumption DEF EncoderOpens, PushPage, TypeOK, Pages
  <2> QED
    BY <1>3, <2>1 DEF EncoderOpens, PushPage, TypeOK
<1>4. CASE ClearEncoder
  <2>0. UNCHANGED <<button, key, held, enables, redraw, menuVars, val, sweepVars, outVars>>
    BY <1>4 DEF ClearEncoder
  <2>1. turn' \in Turns /\ pc' \in PC /\ unhandled' \subseteq unhandled
    BY <1>4, PanelAssumption DEF ClearEncoder, TypeOK, PC
  <2>2. pushed' \in BOOLEAN
    BY <1>4 DEF ClearEncoder
  <2> QED
    BY <2>0, <2>1, <2>2 DEF TypeOK
<1> QED
  BY <1>1, <1>2, <1>3, <1>4 DEF EncoderHandler

LEMMA DisplayType == TypeOK /\ (DisplayHandler \/ ClearDisplay) => TypeOK'
<1> SUFFICES ASSUME TypeOK, DisplayHandler \/ ClearDisplay PROVE TypeOK'
  OBVIOUS
<1> USE HandleType DEF HandleButton, InputsOK, Latches, menuVars, pageVars, sweepVars, outVars
<1>0. typing \in Typings /\ val \in Values /\ sel \in [Pages -> Channels] /\ page \in Pages
  BY DEF TypeOK, Typings, Values
<1>1. ASSUME NEW p \in EditPages, SelectChannel(p) PROVE TypeOK'
  <2>1. p \in Pages
    BY DEF EditPages, Pages, AllSubPages
  <2>2. sel' \in [Pages -> Channels]
    BY <1>0, <1>1, <2>1, ChannelsFacts DEF SelectChannel
  <2>3. typing' \in Typings
    BY <1>0, <1>1, NoTypingType DEF SelectChannel
  <2> QED
    BY <1>1, <2>2, <2>3 DEF SelectChannel, TypeOK, Typings
<1>2. ASSUME NEW p \in EditPages, StartEdit(p) PROVE TypeOK'
  <2>1. sel[p] \in Channels
    BY <1>0 DEF EditPages, Pages, AllSubPages
  <2>2. Edits[p][button] \in Setting \cup {"start", "stop"}
    BY <1>2, EditsEditable DEF StartEdit
  <2>3. <<Edits[p][button], sel[p]>> \in Pointer /\ Wild \in Pointer
    BY <2>1, <2>2, EditablePairs DEF Pointer
  <2>4. typing' \in Typings
    BY <1>2, <2>3, ResetTypingType DEF StartEdit
  <2> QED
    BY <1>2, <2>4 DEF StartEdit, TypeOK, Typings
<1>3. CASE OpenMenu
  <2>1. page' \in Pages /\ stack' \in Seq(Pages \X BOOLEAN)
    BY <1>3 DEF OpenMenu, PushPage, TypeOK, Pages
  <2>2. typing' \in Typings
    BY <1>3, NoTypingType DEF OpenMenu
  <2> QED
    BY <1>3, <2>1, <2>2 DEF OpenMenu, PushPage, TypeOK, Typings
<1>4. CASE SwitchSweep
  <2>1. on' \in [Channels -> BOOLEAN]
    BY <1>4 DEF SwitchSweep, TypeOK
  <2> QED
    BY <1>4, <2>1 DEF SwitchSweep, TypeOK
<1>5. CASE SwitchFM
  BY <1>5 DEF SwitchFM, TypeOK
<1>6. CASE PhaseButton
  <2> DEFINE c == CASE button = "1" -> 0 [] button = "2" -> OtherChannel(0) [] OTHER -> sel["phase"]
  <2>1. c \in Channels
    <3>1. sel["phase"] \in Channels
      BY <1>0 DEF Pages, AllSubPages
    <3> QED
      BY <3>1, ChannelsFacts
  <2>2. sel' \in [Pages -> Channels]
    BY <1>0, <1>6, <2>1 DEF PhaseButton
  <2>3. val' \in Values
    BY <1>0, <1>6, SteppedType DEF PhaseButton
  <2>4. <<"phase", c>> \in Pointer
    BY <2>1, EditablePairs DEF Setting
  <2>5. typing' \in Typings
    BY <1>6, <2>4, ResetTypingType DEF PhaseButton
  <2> QED
    BY <1>6, <2>2, <2>3, <2>5 DEF PhaseButton, TypeOK, Typings, Values
<1>7. ASSUME NEW p \in SubPages, OpenIcon(p) PROVE TypeOK'
  <2>1. page' \in Pages /\ stack' \in Seq(Pages \X BOOLEAN)
    BY <1>7, PanelAssumption DEF OpenIcon, PushPage, TypeOK, Pages
  <2> QED
    BY <1>7, <2>1 DEF OpenIcon, PushPage, TypeOK
<1>8. ASSUME NEW p \in Pages \ {"main"}, Return(p) PROVE TypeOK'
  <2>1. /\ page' \in Pages /\ initialized' \in BOOLEAN
        /\ stack' \in Seq(Pages \X BOOLEAN)
    <3>1. CASE stack = <<>>
      BY <1>8, <3>1 DEF Return, PopPage, TypeOK
    <3>2. CASE stack # <<>>
      <4>1. Len(stack) \in DOMAIN stack /\ stack[Len(stack)] \in Pages \X BOOLEAN
        BY <3>2 DEF TypeOK
      <4>2. SubSeq(stack, 1, Len(stack) - 1) \in Seq(Pages \X BOOLEAN)
        BY <3>2 DEF TypeOK
      <4> QED
        BY <1>8, <3>2, <4>1, <4>2 DEF Return, PopPage
    <3> QED
      BY <3>1, <3>2
  <2>2. typing' \in Typings
    <3>1. <<"phase", sel["phase"]>> \in Pointer
      BY <1>0, EditablePairs DEF Pages, AllSubPages, Setting
    <3> QED
      BY <1>0, <1>8, <3>1, NoTypingType, ResetTypingType DEF Return, LeftTyping
  <2> QED
    BY <1>8, <2>1, <2>2 DEF Return, TypeOK, Typings
<1>9. ASSUME NEW p \in Pages \ {"phase"}, OtherButton(p) PROVE TypeOK'
  BY <1>9 DEF OtherButton, TypeOK
<1>10. CASE ClearDisplay
  BY <1>10 DEF ClearDisplay, PC, TypeOK
<1> QED
  BY <1>1, <1>2, <1>3, <1>4, <1>5, <1>6, <1>7, <1>8, <1>9, <1>10 DEF DisplayHandler

LEMMA KeypadType == TypeOK /\ (KeypadHandler \/ ClearKeypad) => TypeOK'
<1> SUFFICES ASSUME TypeOK, KeypadHandler \/ ClearKeypad PROVE TypeOK'
  OBVIOUS
<1> USE HandleType DEF InputsOK, Latches, HandleKey, menuVars, pageVars, sweepVars, outVars
<1>0. typing \in Typings /\ Opened \in Typings /\ val \in Values
  BY DEF TypeOK, Typings, Values, Opened
<1>1. CASE KeyIgnored
  BY <1>1 DEF KeyIgnored, TypeOK
<1>2. CASE KeyDigit
  <2>1. typing' \in Typings
    BY <1>0, <1>2 DEF KeyDigit, Typings
  <2> QED
    BY <1>2, <2>1 DEF KeyDigit, TypeOK, Typings
<1>3. CASE KeyUnit
  <2>1. typing' \in Typings
    BY <1>0, <1>3 DEF KeyUnit, Typings
  <2> QED
    BY <1>3, <2>1 DEF KeyUnit, TypeOK, Typings
<1>4. CASE KeyEnterInvalid
  <2>1. typing' \in Typings
    BY <1>0, <1>4 DEF KeyEnterInvalid, Typings
  <2> QED
    BY <1>4, <2>1 DEF KeyEnterInvalid, TypeOK, Typings
<1>5. CASE KeyEnter
  <2>1. typing' \in Typings
    BY <1>0, <1>5 DEF KeyEnter, Typings
  <2>2. val' \in Values
    BY <1>0, <1>5, StoredType DEF KeyEnter
  <2> QED
    BY <1>5, <2>1, <2>2 DEF KeyEnter, TypeOK, Typings, Values
<1>6. CASE ClearKeypad
  BY <1>6 DEF ClearKeypad, PC, TypeOK
<1> QED
  BY <1>1, <1>2, <1>3, <1>4, <1>5, <1>6 DEF KeypadHandler

LEMMA DrawType == TypeOK /\ (DrawPage \/ NoRedraw) => TypeOK'
<1> SUFFICES ASSUME TypeOK, DrawPage \/ NoRedraw PROVE TypeOK'
  OBVIOUS
<1> USE DEF menuVars, pageVars, sweepVars, outVars, inputVars, latchVars, PC
<1>0. typing \in Typings /\ val \in Values /\ sel \in [Pages -> Channels] /\ page \in Pages
  BY DEF TypeOK, Typings, Values
<1>1. CASE DrawPage
  <2>1. sel' \in [Pages -> Channels]
    BY <1>0, <1>1, ChannelsFacts DEF DrawPage, InitPage
  <2>2. fmReady' \in BOOLEAN
    BY <1>1 DEF DrawPage, InitPage, TypeOK
  <2>3. typing' \in Typings
    <3>1. <<"phase", 0>> \in Pointer
      BY ChannelsFacts, EditablePairs DEF Setting
    <3>2. [typing EXCEPT !.enabled = FALSE] \in Typings
      BY <1>0 DEF Typings
    <3>3. InitTyping \in Typings
      BY <1>0, <3>1, <3>2, NoTypingType, ResetTypingType DEF InitTyping, Pages, AllSubPages
    <3> QED
      BY <1>0, <1>1, <3>3 DEF DrawPage, InitPage
  <2>4. /\ saved' \in [Channels -> [set : [Setting -> -Max .. Max], relay : BOOLEAN]]
        /\ val' \in Values
        /\ savedValid' \in [Channels -> BOOLEAN]
        /\ relay' \in [Channels -> BOOLEAN]
    <3>1. CASE page # "sweep"
      BY <1>1, <3>1 DEF DrawPage, TypeOK, Values
    <3>2. CASE page = "sweep"
      <4>1. saved' \in [Channels -> [set : [Setting -> -Max .. Max], relay : BOOLEAN]]
        <5>1. \A c \in Channels :
                [set |-> Settings(c), relay |-> relay[c]]
                  \in [set : [Setting -> -Max .. Max], relay : BOOLEAN]
          BY <1>0, SweptType DEF TypeOK
        <5> QED
          BY <1>1, <3>2, <5>1 DEF DrawPage, Compute, TypeOK
      <4>2. val' \in Values
        <5>1. \A v \in Editable : v[1] \in Setting \cup {"start", "stop"} /\ v[2] \in Channels
          BY DEF Editable
        <5>2. \A c \in Channels, s \in Setting :
                saved[c].set[s] \in -Max .. Max /\ Swept(c)[s] \in -Max .. Max
          BY <1>0, SweptType DEF TypeOK
        <5>3. \A v \in Editable : val[v] \in -Max .. Max
          BY <1>0 DEF Values
        <5> QED
          BY <1>1, <3>2, <5>1, <5>2, <5>3 DEF DrawPage, Compute, Values
      <4>3. savedValid' \in [Channels -> BOOLEAN]
        BY <1>1, <3>2 DEF DrawPage, Compute
      <4>4. relay' \in [Channels -> BOOLEAN]
        <5>1. \A c \in Channels : saved[c].relay \in BOOLEAN /\ relay[c] \in BOOLEAN
          BY DEF TypeOK
        <5> QED
          BY <1>1, <3>2, <5>1 DEF DrawPage, Compute
      <4> QED
        BY <4>1, <4>2, <4>3, <4>4
    <3> QED
      BY <3>1, <3>2
  <2> QED
    BY <1>1, <2>1, <2>2, <2>3, <2>4 DEF DrawPage, TypeOK, Typings, Values
<1>2. CASE NoRedraw
  BY <1>2 DEF NoRedraw, TypeOK
<1> QED
  BY <1>1, <1>2

LEMMA TypeStep == TypeOK /\ [Next]_vars => TypeOK'
<1> SUFFICES ASSUME TypeOK, [Next]_vars PROVE TypeOK'
  OBVIOUS
<1> USE DEF menuVars, pageVars, sweepVars, outVars, inputVars, latchVars
<1>1. ASSUME NEW kind \in Latches, NoInput(kind) PROVE TypeOK'
  BY <1>1 DEF NoInput, NextPC, Latches, PC, TypeOK
<1>2. CASE PulseReset
  <2>1. asked' \in BOOLEAN
    BY <1>2 DEF PulseReset
  <2> QED
    BY <1>2, <2>1 DEF PulseReset, PC, TypeOK
<1>3. CASE NoReset
  BY <1>3 DEF NoReset, PC, TypeOK
<1>4. CASE ClearReset
  <2>1. resetDDS' \in BOOLEAN
    BY <1>4 DEF ClearReset
  <2> QED
    BY <1>4, <2>1 DEF ClearReset, PC, TypeOK
<1>5. CASE UNCHANGED vars
  BY <1>5 DEF vars, TypeOK
<1> QED
  BY <1>1, <1>2, <1>3, <1>4, <1>5, InterruptType, EncoderType, DisplayType, KeypadType,
     DrawType DEF Next, MainLoop

\* Every variable keeps its type: in particular each page's selected channel
\* exists, and the sweep's arithmetic stays within the range of two values.
THEOREM TypeCorrect == Spec => []TypeOK
<1>1. Init => TypeOK
  BY TypeInit
<1>2. TypeOK /\ [Next]_vars => TypeOK'
  BY TypeStep
<1> QED
  BY <1>1, <1>2, PTL DEF Spec

-----------------------------------------------------------------------------
(* The page stack *)

\* The steps that change the page or its stack
LEMMA PageChanges ==
  [Next]_vars =>
    \/ UNCHANGED <<page, stack>>
    \/ OpenMenu
    \/ \E p \in SubPages : OpenIcon(p) \/ EncoderOpens(p)
    \/ \E p \in Pages \ {"main"} : Return(p)
<1> SUFFICES ASSUME [Next]_vars,
                    ~ OpenMenu,
                    \A p \in SubPages : ~ OpenIcon(p) /\ ~ EncoderOpens(p),
                    \A p \in Pages \ {"main"} : ~ Return(p)
             PROVE  UNCHANGED <<page, stack>>
  OBVIOUS
<1> USE DEF pageVars, menuVars
<1>1. CASE Interrupt
  BY <1>1, InterruptLeaves
<1>2. CASE EncoderHandler \/ ClearEncoder
  BY <1>2 DEF EncoderHandler, EncoderEdits, EncoderSelects, ClearEncoder
<1>3. CASE DisplayHandler \/ ClearDisplay
  BY <1>3 DEF DisplayHandler, SelectChannel, StartEdit, SwitchSweep, SwitchFM, PhaseButton,
     OtherButton, ClearDisplay
<1>4. CASE KeypadHandler \/ ClearKeypad
  BY <1>4 DEF KeypadHandler, KeyIgnored, KeyDigit, KeyUnit, KeyEnterInvalid, KeyEnter, HandleKey,
     ClearKeypad
<1>5. CASE DrawPage \/ NoRedraw \/ PulseReset \/ NoReset \/ ClearReset
           \/ \E kind \in Latches : NoInput(kind)
  BY <1>5 DEF DrawPage, NoRedraw, PulseReset, NoReset, ClearReset, NoInput
<1>6. CASE UNCHANGED vars
  BY <1>6 DEF vars
<1> QED
  BY <1>1, <1>2, <1>3, <1>4, <1>5, <1>6 DEF Next, MainLoop

\* What PageStack says, element by element
Nested ==
  /\ page = "main" => Len(stack) = 0
  /\ page = "graphic" => Len(stack) = 1 /\ stack[1][1] = "main"
  /\ page \notin {"main", "graphic"} =>
       Len(stack) = 2 /\ stack[1][1] = "main" /\ stack[2][1] = "graphic"

LEMMA NestedStack == TypeOK /\ Nested => PageStack
<1> SUFFICES ASSUME TypeOK, Nested PROVE PageStack
  OBVIOUS
<1>1. CASE page = "main"
  BY <1>1 DEF Nested, PageStack
<1>2. CASE page = "graphic"
  <2>1. Len(stack) = 1 /\ stack[1][1] = "main"
    BY <1>2 DEF Nested
  <2>2. [i \in 1 .. Len(stack) |-> stack[i][1]] = [i \in 1 .. 1 |-> "main"]
    BY <2>1
  <2>3. [i \in 1 .. 1 |-> "main"] = <<"main">>
    OBVIOUS
  <2> QED
    BY <1>2, <2>2, <2>3 DEF PageStack
<1>3. CASE page \notin {"main", "graphic"}
  BY <1>3 DEF Nested, PageStack
<1> QED
  BY <1>1, <1>2, <1>3

LEMMA AppendToOne ==
  ASSUME NEW S, NEW q \in Seq(S), NEW e \in S, Len(q) = 1
  PROVE  Len(Append(q, e)) = 2 /\ Append(q, e)[1] = q[1] /\ Append(q, e)[2] = e
<1>1. /\ Len(Append(q, e)) = Len(q) + 1
      /\ \A i \in 1 .. Len(q) : Append(q, e)[i] = q[i]
      /\ Append(q, e)[Len(q) + 1] = e
  BY AppendProperties, SMTT(60)
<1> QED
  BY <1>1

LEMMA NestedStep == TypeOK /\ Nested /\ [Next]_vars => Nested'
<1> SUFFICES ASSUME TypeOK, Nested, [Next]_vars PROVE Nested'
  OBVIOUS
<1>0. stack \in Seq(Pages \X BOOLEAN) /\ page \in Pages /\ initialized \in BOOLEAN
  BY DEF TypeOK
<1>1. CASE UNCHANGED <<page, stack>>
  BY <1>1 DEF Nested
<1>2. CASE OpenMenu
  BY <1>0, <1>2 DEF OpenMenu, HandleButton, PushPage, Nested
<1>3. ASSUME NEW p \in SubPages, OpenIcon(p) \/ EncoderOpens(p) PROVE Nested'
  <2>1. page = "graphic" /\ page' \notin {"main", "graphic"} /\ PushPage(p)
    BY <1>3, PanelAssumption DEF OpenIcon, EncoderOpens, HandleButton, AllSubPages, PushPage
  <2>2. Len(stack) = 1 /\ stack[1][1] = "main"
    BY <2>1 DEF Nested
  <2>3. stack' = Append(stack, <<page, initialized>>) /\ <<page, initialized>> \in Pages \X BOOLEAN
    BY <1>0, <2>1 DEF PushPage
  <2>4. Len(stack') = 2 /\ stack'[1] = stack[1] /\ stack'[2] = <<page, initialized>>
    <3> DEFINE S == Pages \X BOOLEAN
               e == <<page, initialized>>
    <3>1. stack \in Seq(S) /\ e \in S /\ stack' = Append(stack, e)
      BY <1>0, <2>3
    <3> HIDE DEF S, e
    <3>2. Len(stack') = 2 /\ stack'[1] = stack[1] /\ stack'[2] = e
      BY <2>2, <3>1, AppendToOne
    <3> QED
      BY <3>2 DEF e
  <2> QED
    BY <2>1, <2>2, <2>4 DEF Nested
<1>4. ASSUME NEW p \in Pages \ {"main"}, Return(p) PROVE Nested'
  <2>1. page = p /\ PopPage
    BY <1>4 DEF Return, HandleButton
  <2>2. Len(stack) \in {1, 2} /\ stack # <<>>
    BY <1>0, <2>1 DEF Nested
  <2>3. page' = stack[Len(stack)][1] /\ stack' = SubSeq(stack, 1, Len(stack) - 1)
    BY <2>1, <2>2 DEF PopPage
  <2>4. CASE page = "graphic"
    <3>1. Len(stack) = 1 /\ stack[1][1] = "main"
      BY <2>4 DEF Nested
    <3>2. Len(stack') = 0
      BY <1>0, <2>3, <3>1
    <3> QED
      BY <2>3, <3>1, <3>2 DEF Nested
  <2>5. CASE page # "graphic"
    <3>1. Len(stack) = 2 /\ stack[1][1] = "main" /\ stack[2][1] = "graphic"
      BY <2>1, <2>5 DEF Nested
    <3>2. Len(stack') = 1 /\ stack'[1] = stack[1]
      BY <1>0, <2>3, <3>1
    <3> QED
      BY <2>3, <3>1, <3>2 DEF Nested
  <2> QED
    BY <2>4, <2>5
<1> QED
  BY <1>1, <1>2, <1>3, <1>4, PageChanges

\* Pages are left to the page they were entered from, over every order of
\* buttons and of redraws between them: three entries of the ten are used.
THEOREM PagesNest == Spec => []PageStack
<1>1. Init => TypeOK /\ Nested
  BY TypeInit DEF Init, Nested
<1>2. TypeOK /\ Nested /\ [Next]_vars => TypeOK' /\ Nested'
  BY TypeStep, NestedStep
<1>3. TypeOK /\ Nested => PageStack
  BY NestedStack
<1> QED
  BY <1>1, <1>2, <1>3, PTL DEF Spec

-----------------------------------------------------------------------------
(* The typing screen *)

\* The steps that change the typing screen
LEMMA TypingChanges ==
  [Next]_vars =>
    \/ UNCHANGED typing
    \/ \E p \in EditPages : SelectChannel(p) \/ StartEdit(p)
    \/ OpenMenu \/ PhaseButton
    \/ \E p \in Pages \ {"main"} : Return(p)
    \/ KeyDigit \/ KeyUnit \/ KeyEnterInvalid \/ KeyEnter
    \/ DrawPage
<1> SUFFICES ASSUME [Next]_vars,
                    ~ OpenMenu, ~ PhaseButton, ~ DrawPage,
                    ~ (KeyDigit \/ KeyUnit \/ KeyEnterInvalid \/ KeyEnter),
                    \A p \in EditPages : ~ SelectChannel(p) /\ ~ StartEdit(p),
                    \A p \in Pages \ {"main"} : ~ Return(p)
             PROVE  UNCHANGED typing
  OBVIOUS
<1> USE DEF pageVars, menuVars
<1>1. CASE Interrupt
  BY <1>1, InterruptLeaves
<1>2. CASE EncoderHandler \/ ClearEncoder
  BY <1>2 DEF EncoderHandler, EncoderEdits, EncoderSelects, EncoderOpens, ClearEncoder
<1>3. CASE DisplayHandler \/ ClearDisplay
  BY <1>3 DEF DisplayHandler, SwitchSweep, SwitchFM, OpenIcon, OtherButton, ClearDisplay
<1>4. CASE KeypadHandler \/ ClearKeypad
  BY <1>4 DEF KeypadHandler, KeyIgnored, ClearKeypad
<1>5. CASE NoRedraw \/ PulseReset \/ NoReset \/ ClearReset
           \/ \E kind \in Latches : NoInput(kind)
  BY <1>5 DEF NoRedraw, PulseReset, NoReset, ClearReset, NoInput
<1>6. CASE UNCHANGED vars
  BY <1>6 DEF vars
<1> QED
  BY <1>1, <1>2, <1>3, <1>4, <1>5, <1>6 DEF Next, MainLoop

LEMMA ResetTypingSafe ==
  /\ \A v \in Editable \cup {Wild} : ResetTyping(v, TRUE).value # NULL
  /\ NoTyping.enabled = FALSE /\ NoTyping.show = FALSE
BY NullAssumption DEF ResetTyping, NoTyping

LEMMA TypingSafeStep == TypeOK /\ TypingSafe /\ [Next]_vars => TypingSafe'
<1> SUFFICES ASSUME TypeOK, TypingSafe, [Next]_vars PROVE TypingSafe'
  OBVIOUS
<1>0. sel \in [Pages -> Channels] /\ page \in Pages
  BY DEF TypeOK
<1>1. CASE UNCHANGED typing
  BY <1>1 DEF TypingSafe
<1>2. ASSUME NEW p \in EditPages, SelectChannel(p) PROVE TypingSafe'
  BY <1>2, ResetTypingSafe DEF SelectChannel, TypingSafe
<1>3. ASSUME NEW p \in EditPages, StartEdit(p) PROVE TypingSafe'
  <2>1. sel[p] \in Channels
    BY <1>0 DEF EditPages, Pages, AllSubPages
  <2>2. <<Edits[p][button], sel[p]>> \in Editable
    BY <1>3, <2>1, EditsEditable, EditablePairs DEF StartEdit, HandleButton
  <2> QED
    BY <1>3, <2>2, ResetTypingSafe DEF StartEdit, TypingSafe
<1>4. CASE OpenMenu
  BY <1>4, ResetTypingSafe DEF OpenMenu, TypingSafe
<1>5. CASE PhaseButton
  <2>1. sel["phase"] \in Channels
    BY <1>0 DEF Pages, AllSubPages
  <2>2. \A c \in Channels : <<"phase", c>> \in Editable
    BY EditablePairs DEF Setting
  <2>3. \E c \in Channels : typing' = ResetTyping(<<"phase", c>>, TRUE)
    BY <1>5, <2>1, ChannelsFacts DEF PhaseButton
  <2> QED
    BY <2>2, <2>3, ResetTypingSafe DEF TypingSafe
<1>6. ASSUME NEW p \in Pages \ {"main"}, Return(p) PROVE TypingSafe'
  <2>1. <<"phase", sel["phase"]>> \in Editable
    BY <1>0, EditablePairs DEF Pages, AllSubPages, Setting
  <2> QED
    BY <1>6, <2>1, ResetTypingSafe DEF Return, LeftTyping, TypingSafe
<1>7. CASE KeyDigit \/ KeyUnit \/ KeyEnterInvalid \/ KeyEnter
  <2>1. typing.enabled /\ typing.value # NULL
    BY <1>7 DEF KeyDigit, KeyUnit, KeyEnterInvalid, KeyEnter, HandleKey, TypingSafe
  <2>2. Opened.value = typing.value
    BY DEF Opened, TypeOK
  <2>3. Opened \in Typings
    BY DEF Opened, TypeOK, Typings
  <2>4. typing'.value = typing.value
    BY <1>7, <2>2, <2>3 DEF KeyDigit, KeyUnit, KeyEnterInvalid, KeyEnter, Typings
  <2> QED
    BY <2>1, <2>4 DEF TypingSafe
<1>8. CASE DrawPage
  <2>1. <<"phase", 0>> \in Editable
    BY ChannelsFacts, EditablePairs DEF Setting
  <2>2. CASE UNCHANGED typing
    BY <2>2 DEF TypingSafe
  <2>3. CASE typing' = InitTyping
    <3>1. CASE page \in {"main", "sweep", "am"}
      BY <2>3, <3>1, ResetTypingSafe DEF InitTyping, TypingSafe
    <3>2. CASE page \in {"graphic", "settings"}
      BY <2>3, <3>2 DEF InitTyping, TypingSafe, TypeOK
    <3>3. CASE page = "phase"
      BY <2>1, <2>3, <3>3, ResetTypingSafe DEF InitTyping, TypingSafe
    <3>4. CASE page \in {"fm", "sd"}
      BY <2>3, <3>4 DEF InitTyping, TypingSafe
    <3> QED
      BY <1>0, <3>1, <3>2, <3>3, <3>4 DEF Pages, AllSubPages
  <2> QED
    BY <1>8, <2>2, <2>3 DEF DrawPage, InitPage
<1> QED
  BY <1>1, <1>2, <1>3, <1>4, <1>5, <1>6, <1>7, <1>8, TypingChanges

\* menu_ProcessKeypadPress and the drawing of the typing screen never follow a
\* null pointer.
THEOREM TypingHasValue == Spec => []TypingSafe
<1>1. Init => TypeOK /\ TypingSafe
  BY TypeInit DEF Init, TypingSafe
<1>2. TypeOK /\ TypingSafe /\ [Next]_vars => TypeOK' /\ TypingSafe'
  BY TypeStep, TypingSafeStep
<1> QED
  BY <1>1, <1>2, PTL DEF Spec

LEMMA ResetTypingOwner ==
  /\ \A s, c : ResetTyping(<<s, c>>, TRUE).value[1] = s
  /\ NoTyping.enabled = FALSE
BY DEF ResetTyping, NoTyping

LEMMA TypingOwnerStep == TypeOK /\ TypingOwner /\ [Next]_vars => TypingOwner'
<1> SUFFICES ASSUME TypeOK, TypingOwner, [Next]_vars PROVE TypingOwner'
  OBVIOUS
<1> USE DEF HandleButton, Handle
<1>0. page \in Pages /\ typing \in Typings
  BY DEF TypeOK, Typings
<1>1. CASE UNCHANGED <<page, typing>>
  BY <1>1 DEF TypingOwner, Owned
<1>2. ASSUME NEW p \in EditPages, SelectChannel(p) PROVE TypingOwner'
  <2>1. CASE p = "sweep"
    BY <1>2, <2>1 DEF SelectChannel, TypingOwner, Owned, pageVars
  <2>2. CASE p # "sweep"
    BY <1>2, <2>2, ResetTypingOwner DEF SelectChannel, TypingOwner
  <2> QED
    BY <2>1, <2>2
<1>3. ASSUME NEW p \in EditPages, StartEdit(p) PROVE TypingOwner'
  <2>1. page' = p
    BY <1>3 DEF StartEdit, pageVars
  <2>2. CASE p = "fm"
    <3>1. button \in {"4", "5"} /\ Edits[p][button] \in {"rate", "deviation"}
      BY <1>3, <2>2 DEF StartEdit, Edits
    <3>2. typing'.value[1] \in {"rate", "deviation", "wild"}
      BY <1>3, <2>2, <3>1, ResetTypingOwner DEF StartEdit, Wild
    <3> QED
      BY <2>1, <2>2, <3>2 DEF TypingOwner, Owned
  <2>3. CASE p # "fm"
    <3>1. typing' = ResetTyping(<<Edits[p][button], sel[p]>>, TRUE)
      BY <1>3, <2>3 DEF StartEdit
    <3>2. typing'.value[1] = Edits[p][button]
      BY <3>1, ResetTypingOwner
    <3>3. button \in DOMAIN Edits[p]
      BY <1>3 DEF StartEdit
    <3>4. Edits[p][button] \in Owned(p) \cup {"start", "stop"}
      BY <2>3, <3>3 DEF Edits, EditPages, Owned
    <3> QED
      BY <2>1, <3>2, <3>4 DEF TypingOwner
  <2> QED
    BY <2>2, <2>3
<1>4. CASE OpenMenu
  BY <1>4, ResetTypingOwner DEF OpenMenu, TypingOwner
<1>5. CASE PhaseButton
  <2>1. typing'.value[1] = "phase"
    <3>1. PICK c : typing' = ResetTyping(<<"phase", c>>, TRUE)
      BY <1>5 DEF PhaseButton
    <3> QED
      BY <3>1, ResetTypingOwner
  <2> QED
    BY <2>1 DEF TypingOwner
<1>6. ASSUME NEW p \in Pages \ {"main"}, Return(p) PROVE TypingOwner'
  <2>1. page = p /\ typing' = LeftTyping(p)
    BY <1>6 DEF Return
  <2>2. CASE p \in {"am", "fm"}
    BY <2>1, <2>2, ResetTypingOwner DEF LeftTyping, TypingOwner
  <2>3. CASE p = "phase"
    <3>1. typing' = ResetTyping(<<"phase", sel["phase"]>>, TRUE)
      BY <2>1, <2>3 DEF LeftTyping
    <3>2. typing'.value[1] = "phase"
      BY <3>1, ResetTypingOwner
    <3> QED
      BY <3>2 DEF TypingOwner
  <2>4. CASE p \notin {"am", "fm", "phase"}
    BY <2>1, <2>4 DEF LeftTyping, TypingOwner, Owned
  <2> QED
    BY <2>2, <2>3, <2>4
<1>7. CASE KeyDigit \/ KeyUnit \/ KeyEnterInvalid \/ KeyEnter
  <2>1. typing.enabled /\ UNCHANGED page
    BY <1>7 DEF KeyDigit, KeyUnit, KeyEnterInvalid, KeyEnter, HandleKey, pageVars
  <2>2. Opened.value = typing.value /\ Opened \in Typings
    BY DEF Opened, TypeOK, Typings
  <2>3. typing'.value = typing.value
    BY <1>7, <2>2 DEF KeyDigit, KeyUnit, KeyEnterInvalid, KeyEnter, Typings
  <2> QED
    BY <2>1, <2>3 DEF TypingOwner, Owned
<1>8. CASE DrawPage
  <2>1. UNCHANGED page
    BY <1>8 DEF DrawPage
  <2>2. CASE UNCHANGED typing
    BY <2>1, <2>2 DEF TypingOwner, Owned
  <2>3. CASE typing' = InitTyping
    <3>1. CASE page \in {"main", "sweep", "am"}
      BY <2>3, <3>1, ResetTypingOwner DEF InitTyping, TypingOwner
    <3>2. CASE page \in {"graphic", "settings"}
      <4>1. typing'.enabled = FALSE
        BY <1>0, <2>3, <3>2 DEF InitTyping, Typings
      <4> QED
        BY <4>1 DEF TypingOwner
    <3>3. CASE page = "phase"
      <4>1. typing' = ResetTyping(<<"phase", 0>>, TRUE)
        BY <2>3, <3>3 DEF InitTyping
      <4>2. typing'.value[1] = "phase"
        BY <4>1, ResetTypingOwner
      <4> QED
        BY <4>2 DEF TypingOwner
    <3>4. CASE page \in {"fm", "sd"}
      BY <2>1, <2>3, <3>4 DEF InitTyping, TypingOwner, Owned
    <3> QED
      BY <1>0, <3>1, <3>2, <3>3, <3>4 DEF Pages, AllSubPages
  <2> QED
    BY <1>8, <2>2, <2>3 DEF DrawPage, InitPage
<1>9. ASSUME NEW p \in SubPages, OpenIcon(p) \/ EncoderOpens(p) PROVE TypingOwner'
  <2>1. page = "graphic" /\ UNCHANGED typing
    BY <1>9 DEF OpenIcon, EncoderOpens
  <2> QED
    BY <2>1 DEF TypingOwner, Owned
<1>10. UNCHANGED page /\ UNCHANGED typing => UNCHANGED <<page, typing>>
  OBVIOUS
<1> QED
  BY <1>1, <1>2, <1>3, <1>4, <1>5, <1>6, <1>7, <1>8, <1>9, <1>10, TypingChanges, PageChanges

\* What is being typed or turned belongs to the page on the screen, or was left
\* behind by the phase page or the sweep page: no other page's value is edited
\* unseen.
THEOREM TypingEditsItsPage == Spec => []TypingOwner
<1>1. Init => TypeOK /\ TypingOwner
  BY TypeInit DEF Init, TypingOwner
<1>2. TypeOK /\ TypingOwner /\ [Next]_vars => TypeOK' /\ TypingOwner'
  BY TypeStep, TypingOwnerStep
<1> QED
  BY <1>1, <1>2, PTL DEF Spec

-----------------------------------------------------------------------------
(* The latches *)

LEMMA NoReplayInterrupt == TypeOK /\ NoReplay /\ Interrupt => NoReplay'
<1> SUFFICES ASSUME TypeOK, NoReplay, Interrupt PROVE NoReplay'
  OBVIOUS
<1>0. UNCHANGED pc
  BY InterruptLeaves
<1> USE <1>0 DEF NoReplay
<1>1. ASSUME NEW d \in Steps, NEW press \in BOOLEAN, EncoderEdge(d, press) PROVE NoReplay'
  <2>1. /\ turn' = turn + d /\ turn \in Int
        /\ pushed' = (pushed \/ press \/ "encoder" \in held)
        /\ UNCHANGED <<button, key>>
    BY <1>1, PanelAssumption DEF EncoderEdge, TypeOK
  <2>2. /\ unhandled \subseteq unhandled'
        /\ d # 0 => "turn" \in unhandled'
        /\ press => "push" \in unhandled'
        /\ "encoder" \in held => "held" \in unhandled'
    BY <1>1 DEF EncoderEdge, Latch, Parts
  <2>3. d # 0 \/ turn' = turn
    BY <2>1 DEF Steps
  <2> QED
    BY <2>1, <2>2, <2>3
<1>2. ASSUME NEW d \in Steps, TurnEncoder(d) \/ PushEncoder(d) PROVE NoReplay'
  BY <1>1, <1>2 DEF TurnEncoder, PushEncoder
<1>3. ASSUME NEW b \in Pressed \cap Buttons, PressDisplay(b) PROVE NoReplay'
  BY <1>3 DEF PressDisplay, Latch
<1>4. ASSUME NEW k \in Pressed \cap Keys, PressKey(k) PROVE NoReplay'
  BY <1>4 DEF PressKey, Latch
<1>5. ASSUME NEW cs \in (SUBSET Channels) \ {{}}, PressEnable(cs) PROVE NoReplay'
  BY <1>5 DEF PressEnable, latchVars
<1>6. ASSUME NEW kind, Release(kind) PROVE NoReplay'
  BY <1>6 DEF Release, latchVars
<1>7. ASSUME NEW c \in Channels, ReleaseEnable(c) PROVE NoReplay'
  BY <1>7 DEF ReleaseEnable, latchVars
<1> QED
  BY <1>2, <1>3, <1>4, <1>5, <1>6, <1>7 DEF Interrupt

\* A handler leaves its latch to be cleared next, and the others alone.
LEMMA NoReplayHandle ==
  ASSUME NoReplay, NEW kind \in Latches, Handle(kind)
  PROVE  NoReplay'
BY DEF Handle, NoReplay, Latched, Latches, ClearPC, Parts, latchVars

LEMMA HandlersHandle ==
  /\ EncoderHandler => Handle("encoder")
  /\ DisplayHandler => Handle("display")
  /\ KeypadHandler => Handle("keypad")
BY DEF EncoderHandler, EncoderEdits, EncoderSelects, EncoderOpens, DisplayHandler, HandleButton,
   SelectChannel, StartEdit, OpenMenu, SwitchSweep, SwitchFM, PhaseButton, OpenIcon, Return,
   OtherButton, KeypadHandler, HandleKey, KeyIgnored, KeyDigit, KeyUnit, KeyEnterInvalid, KeyEnter

LEMMA NoReplayStep == TypeOK /\ NoReplay /\ [Next]_vars => NoReplay'
<1> SUFFICES ASSUME TypeOK, NoReplay, [Next]_vars PROVE NoReplay'
  OBVIOUS
<1>1. CASE Interrupt
  BY <1>1, NoReplayInterrupt
<1>2. CASE EncoderHandler \/ DisplayHandler \/ KeypadHandler
  BY <1>2, HandlersHandle, NoReplayHandle DEF Latches
<1>3. CASE ClearEncoder
  BY <1>3 DEF ClearEncoder, NoReplay, Parts
<1>4. CASE ClearDisplay
  BY <1>4 DEF ClearDisplay, NoReplay
<1>5. CASE ClearKeypad
  BY <1>5 DEF ClearKeypad, NoReplay
<1>6. ASSUME NEW kind \in Latches, NoInput(kind) PROVE NoReplay'
  BY <1>6 DEF NoInput, NextPC, inputVars, latchVars, NoReplay, Latches
<1>7. CASE DrawPage \/ NoRedraw \/ PulseReset \/ NoReset \/ ClearReset
  <2>1. UNCHANGED inputVars
    BY <1>7 DEF DrawPage, NoRedraw, PulseReset, NoReset, ClearReset
  <2>2. pc \notin {"encoderClear", "displayClear", "keypadClear"}
    BY <1>7 DEF DrawPage, NoRedraw, PulseReset, NoReset, ClearReset
  <2> QED
    BY <2>1, <2>2 DEF inputVars, latchVars, NoReplay
<1>8. CASE UNCHANGED vars
  BY <1>8 DEF vars, inputVars, latchVars, NoReplay
<1> QED
  BY <1>1, <1>2, <1>3, <1>4, <1>5, <1>6, <1>7, <1>8 DEF Next, MainLoop

\* No step, no key and no button of the display reaches a handler twice, wherever
\* the interrupts come; a button of the encoder does by staying down while the
\* knob turns or another one is pressed, and in no other way.
THEOREM InputsHandledOnce == Spec => []NoReplay
<1>1. Init => TypeOK /\ NoReplay
  BY TypeInit DEF Init, NoReplay
<1>2. TypeOK /\ NoReplay /\ [Next]_vars => TypeOK' /\ NoReplay'
  BY TypeStep, NoReplayStep
<1> QED
  BY <1>1, <1>2, PTL DEF Spec

-----------------------------------------------------------------------------
(* The sweep *)

\* The steps that change the sweep's switches or its saved settings
LEMMA SweepChanges ==
  [Next]_vars => UNCHANGED <<on, savedValid, saved>> \/ SwitchSweep \/ DrawPage
<1> SUFFICES ASSUME [Next]_vars, ~ SwitchSweep, ~ DrawPage
             PROVE  UNCHANGED <<on, savedValid, saved>>
  OBVIOUS
<1> USE DEF sweepVars, Handle, HandleButton
<1>1. CASE Interrupt
  BY <1>1, InterruptLeaves
<1>2. CASE EncoderHandler \/ ClearEncoder
  BY <1>2 DEF EncoderHandler, EncoderEdits, EncoderSelects, EncoderOpens, ClearEncoder
<1>3. CASE DisplayHandler \/ ClearDisplay
  BY <1>3 DEF DisplayHandler, SelectChannel, StartEdit, OpenMenu, SwitchFM, PhaseButton, OpenIcon,
     Return, OtherButton, ClearDisplay
<1>4. CASE KeypadHandler \/ ClearKeypad
  BY <1>4 DEF KeypadHandler, HandleKey, KeyIgnored, KeyDigit, KeyUnit, KeyEnterInvalid, KeyEnter,
     ClearKeypad
<1>5. CASE NoRedraw \/ PulseReset \/ NoReset \/ ClearReset
           \/ \E kind \in Latches : NoInput(kind)
  BY <1>5 DEF NoRedraw, PulseReset, NoReset, ClearReset, NoInput
<1>6. CASE UNCHANGED vars
  BY <1>6 DEF vars
<1> QED
  BY <1>1, <1>2, <1>3, <1>4, <1>5, <1>6 DEF Next, MainLoop

\* A switch not yet obeyed is one of the sweep page, pressed in this pass: the
\* page is still there to be drawn, and will be.
Pending ==
  on # savedValid =>
    /\ page = "sweep" /\ redraw
    /\ pc \in {"displayClear", "keypad", "keypadClear", "draw"}

LEMMA PendingStep == TypeOK /\ Pending /\ [Next]_vars => Pending'
<1> SUFFICES ASSUME TypeOK, Pending, [Next]_vars PROVE Pending'
  OBVIOUS
<1>1. CASE SwitchSweep
  BY <1>1 DEF SwitchSweep, HandleButton, Handle, ClearPC, pageVars, Pending
<1>2. CASE DrawPage
  <2>1. CASE page = "sweep"
    <3>1. on \in [Channels -> BOOLEAN] /\ savedValid \in [Channels -> BOOLEAN] /\ on' = on
      BY <1>2 DEF TypeOK, DrawPage
    <3>2. savedValid' = [c \in Channels |-> on[c]]
      <4>1. savedValid' = [c \in Channels |-> (savedValid[c] \/ MustSave(c)) /\ ~MustRestore(c)]
        BY <1>2, <2>1 DEF DrawPage, Compute
      <4>2. \A c \in Channels :
              ((savedValid[c] \/ MustSave(c)) /\ ~MustRestore(c)) = on[c]
        <5>1. \A c \in Channels : on[c] \in BOOLEAN /\ savedValid[c] \in BOOLEAN
          BY <3>1
        <5> QED
          BY <5>1 DEF MustSave, MustRestore
      <4> QED
        BY <4>1, <4>2
    <3>3. on' = savedValid'
      BY <3>1, <3>2
    <3> QED
      BY <3>3 DEF Pending
  <2>2. CASE page # "sweep"
    BY <1>2, <2>2 DEF DrawPage, Pending
  <2> QED
    BY <2>1, <2>2
<1>3. ASSUME UNCHANGED <<on, savedValid>>, on = savedValid PROVE Pending'
  BY <1>3 DEF Pending
<1>4. ASSUME UNCHANGED <<on, savedValid>>, on # savedValid, ~ DrawPage PROVE Pending'
  <2>1. page = "sweep" /\ redraw /\ pc \in {"displayClear", "keypad", "keypadClear", "draw"}
    BY <1>4 DEF Pending
  <2> USE DEF menuVars, pageVars
  <2>2. CASE Interrupt
    BY <2>1, <2>2, <1>4, InterruptLeaves DEF Pending
  <2>3. CASE KeypadHandler
    <3>1. redraw' /\ pc' = "keypadClear"
      BY <2>3, HandlersHandle DEF Handle, ClearPC
    <3>2. page' = page
      BY <2>3 DEF KeypadHandler, KeyIgnored, KeyDigit, KeyUnit, KeyEnterInvalid, KeyEnter, HandleKey
    <3> QED
      BY <2>1, <3>1, <3>2 DEF Pending
  <2>4. CASE ClearDisplay \/ ClearKeypad
    BY <2>1, <2>4 DEF ClearDisplay, ClearKeypad, Pending
  <2>5. ASSUME NEW kind \in Latches, NoInput(kind) PROVE Pending'
    BY <2>1, <2>5 DEF NoInput, NextPC, Latches, Pending
  <2>6. CASE UNCHANGED vars
    BY <2>1, <2>6 DEF vars, Pending
  <2>7. ~ (EncoderHandler \/ DisplayHandler \/ ClearEncoder \/ NoRedraw \/ PulseReset \/ NoReset
           \/ ClearReset)
    BY <2>1, HandlersHandle DEF Handle, ClearEncoder, NoRedraw, PulseReset, NoReset, ClearReset
  <2> QED
    BY <1>4, <2>2, <2>3, <2>4, <2>5, <2>6, <2>7 DEF Next, MainLoop
<1> QED
  BY <1>1, <1>2, <1>3, <1>4, SweepChanges

\* Outside the pass in which it was switched, a sweep runs exactly where there
\* are settings to restore.
THEOREM SweepFollowsSwitch == Spec => []SweepApplied
<1>1. Init => TypeOK /\ Pending
  BY TypeInit DEF Init, Pending
<1>2. TypeOK /\ Pending /\ [Next]_vars => TypeOK' /\ Pending'
  BY TypeStep, PendingStep
<1>3. Pending => SweepApplied
  BY DEF Pending, SweepApplied
<1> QED
  BY <1>1, <1>2, <1>3, PTL DEF Spec

\* The steps that change a value
LEMMA ValueChanges ==
  [Next]_vars =>
    \/ UNCHANGED val
    \/ \E v, x : val' = Stored(v, x)
    \/ \E v, d : val' = Stepped(v, d)
    \/ DrawPage
<1> SUFFICES ASSUME [Next]_vars, ~ DrawPage,
                    ~ \E v, x : val' = Stored(v, x),
                    ~ \E v, d : val' = Stepped(v, d)
             PROVE  UNCHANGED val
  OBVIOUS
<1> USE DEF Handle, HandleButton
<1>1. CASE Interrupt
  BY <1>1, InterruptLeaves
<1>2. CASE EncoderHandler \/ ClearEncoder
  BY <1>2 DEF EncoderHandler, EncoderEdits, EncoderSelects, EncoderOpens, ClearEncoder
<1>3. CASE DisplayHandler \/ ClearDisplay
  BY <1>3 DEF DisplayHandler, SelectChannel, StartEdit, OpenMenu, SwitchSweep, SwitchFM,
     PhaseButton, OpenIcon, Return, OtherButton, ClearDisplay
<1>4. CASE KeypadHandler \/ ClearKeypad
  BY <1>4 DEF KeypadHandler, HandleKey, KeyIgnored, KeyDigit, KeyUnit, KeyEnterInvalid, KeyEnter,
     ClearKeypad
<1>5. CASE NoRedraw \/ PulseReset \/ NoReset \/ ClearReset
           \/ \E kind \in Latches : NoInput(kind)
  BY <1>5 DEF NoRedraw, PulseReset, NoReset, ClearReset, NoInput
<1>6. CASE UNCHANGED vars
  BY <1>6 DEF vars
<1> QED
  BY <1>1, <1>2, <1>3, <1>4, <1>5, <1>6 DEF Next, MainLoop

\* Half-way between two legal values is legal.
LEMMA SweptLegal ==
  ASSUME NEW c \in Channels, Start(c) \in Legal, val[<<"stop", c>>] \in Legal
  PROVE  Start(c) + Deviation(c) \in Legal
<1>1. \A m \in Nat : \A a \in 0 .. m, b \in 0 .. m : a + (b - a) \div 2 \in 0 .. m
  OBVIOUS
<1> QED
  BY <1>1, PanelAssumption DEF Deviation, Legal

Guarded(v) == v[1] = "deviation" /\ savedValid[v[2]]

LEMMA ValuesStep == TypeOK /\ ValuesInRange /\ [Next]_vars => ValuesInRange'
<1> SUFFICES ASSUME TypeOK, ValuesInRange, [Next]_vars PROVE ValuesInRange'
  OBVIOUS
<1>0. /\ val \in Values
      /\ \A v \in Editable : val[v] \in Legal \/ Guarded(v)
      /\ \A c \in Channels : savedValid[c] => saved[c].set \in [Setting -> Legal]
  BY DEF TypeOK, Values, ValuesInRange, Guarded
<1>1. CASE UNCHANGED <<savedValid, saved>> /\ ~ DrawPage
  <2>1. \A v \in Editable : val'[v] = val[v] \/ val'[v] \in Legal
    <3>1. \A w, x : \A v \in Editable : Stored(w, x)[v] = val[v] \/ Stored(w, x)[v] \in Legal
      BY <1>0 DEF Stored, Values
    <3>2. \A w, d : \A v \in Editable : Stepped(w, d)[v] = val[v] \/ Stepped(w, d)[v] \in Legal
      BY <3>1 DEF Stepped
    <3> QED
      BY <1>1, <3>1, <3>2, ValueChanges
  <2> QED
    BY <1>0, <1>1, <2>1 DEF ValuesInRange, Guarded
<1>2. CASE DrawPage /\ page # "sweep"
  BY <1>2 DEF DrawPage, ValuesInRange
<1>3. CASE DrawPage /\ page = "sweep"
  <2>1. Compute
    BY <1>3 DEF DrawPage
  <2>2. \A c \in Channels : on[c] \in BOOLEAN /\ savedValid[c] \in BOOLEAN
    BY DEF TypeOK
  <2>3. ASSUME NEW c \in Channels, savedValid'[c]
        PROVE  saved'[c].set \in [Setting -> Legal]
    <3>1. CASE MustSave(c)
      <4>1. \A s \in Setting : val[<<s, c>>] \in Legal
        BY <1>0, <3>1 DEF MustSave, Guarded, Editable
      <4>2. saved'[c].set = Settings(c)
        BY <2>1, <3>1 DEF Compute
      <4> QED
        BY <4>1, <4>2 DEF Settings
    <3>2. CASE ~ MustSave(c)
      <4>1. savedValid[c] /\ saved'[c] = saved[c]
        BY <2>1, <2>3, <3>2 DEF Compute
      <4> QED
        BY <1>0, <4>1
    <3> QED
      BY <3>1, <3>2
  <2>4. ASSUME NEW s \in Setting \cup {"start", "stop"}, NEW c \in Channels
        PROVE  val'[<<s, c>>] \in Legal \/ (s = "deviation" /\ savedValid'[c])
    <3> DEFINE v == <<s, c>>
    <3>0. v \in Editable /\ v[1] = s /\ v[2] = c
      BY DEF Editable
    <3>1. CASE s \notin Setting
      BY <1>0, <2>1, <3>0, <3>1 DEF Compute, Guarded, Setting
    <3>2. CASE s \in Setting /\ on[c]
      <4>1. val'[v] = Swept(c)[s] /\ savedValid'[c]
        BY <2>1, <2>2, <3>0, <3>2 DEF Compute, MustSave, MustRestore
      <4>2. Start(c) \in Legal /\ val[<<"stop", c>>] \in Legal
        BY <1>0 DEF Start, Guarded, Editable
      <4>3. Start(c) + Deviation(c) \in Legal
        BY <4>2, SweptLegal
      <4>4. s # "deviation" => val[v] \in Legal
        BY <1>0, <3>0 DEF Guarded
      <4> QED
        BY <3>2, <4>1, <4>2, <4>3, <4>4 DEF Swept
    <3>3. CASE s \in Setting /\ ~ on[c] /\ savedValid[c]
      <4>1. val'[v] = saved[c].set[s]
        BY <2>1, <3>0, <3>3 DEF Compute, MustRestore
      <4> QED
        BY <1>0, <3>3, <4>1
    <3>4. CASE s \in Setting /\ ~ on[c] /\ ~ savedValid[c]
      <4>1. val'[v] = val[v]
        BY <2>1, <3>0, <3>4 DEF Compute, MustRestore
      <4> QED
        BY <1>0, <3>0, <3>4, <4>1 DEF Guarded
    <3> QED
      BY <2>2, <3>1, <3>2, <3>3, <3>4
  <2>5. \A v \in Editable : val'[v] \in Legal \/ (v[1] = "deviation" /\ savedValid'[v[2]])
    BY <2>4 DEF Editable
  <2> QED
    BY <2>3, <2>5 DEF ValuesInRange
<1>4. UNCHANGED <<savedValid, saved>> \/ DrawPage
  BY SweepChanges DEF SwitchSweep, HandleButton, Handle
<1> QED
  BY <1>1, <1>2, <1>3, <1>4

\* Whatever is typed, turned, swept and restored, a value leaves its range only
\* as the deviation of a sweep that runs downwards, and such a deviation never
\* gets into the settings to restore.
THEOREM ValuesStayLegal == Spec => []ValuesInRange
<1>1. Init => TypeOK /\ ValuesInRange
  <2> SUFFICES ASSUME Init PROVE ValuesInRange
    BY TypeInit
  <2>1. 0 \in Legal /\ Max \in Legal
    BY PanelAssumption DEF Legal
  <2> QED
    BY <2>1 DEF Init, ValuesInRange
<1>2. TypeOK /\ ValuesInRange /\ [Next]_vars => TypeOK' /\ ValuesInRange'
  BY TypeStep, ValuesStep
<1> QED
  BY <1>1, <1>2, PTL DEF Spec

-----------------------------------------------------------------------------
(* Relays and resets *)

\* The steps that change a relay or what was asked of it, or the reset
LEMMA OutputChanges ==
  [Next]_vars =>
    \/ UNCHANGED outVars
    \/ \E cs \in (SUBSET Channels) \ {{}} : PressEnable(cs)
    \/ SwitchFM \/ DrawPage \/ PulseReset \/ ClearReset
<1> SUFFICES ASSUME [Next]_vars, ~ SwitchFM, ~ DrawPage, ~ PulseReset, ~ ClearReset,
                    \A cs \in (SUBSET Channels) \ {{}} : ~ PressEnable(cs)
             PROVE  UNCHANGED outVars
  OBVIOUS
<1> USE DEF outVars, Handle, HandleButton
<1>1. CASE Interrupt
  BY <1>1, InterruptLeaves
<1>2. CASE EncoderHandler \/ ClearEncoder
  BY <1>2 DEF EncoderHandler, EncoderEdits, EncoderSelects, EncoderOpens, ClearEncoder
<1>3. CASE DisplayHandler \/ ClearDisplay
  BY <1>3 DEF DisplayHandler, SelectChannel, StartEdit, OpenMenu, SwitchSweep, PhaseButton,
     OpenIcon, Return, OtherButton, ClearDisplay
<1>4. CASE KeypadHandler \/ ClearKeypad
  BY <1>4 DEF KeypadHandler, HandleKey, KeyIgnored, KeyDigit, KeyUnit, KeyEnterInvalid, KeyEnter,
     ClearKeypad
<1>5. CASE NoRedraw \/ NoReset \/ \E kind \in Latches : NoInput(kind)
  BY <1>5 DEF NoRedraw, NoReset, NoInput
<1>6. CASE UNCHANGED vars
  BY <1>6 DEF vars
<1> QED
  BY <1>1, <1>2, <1>3, <1>4, <1>5, <1>6 DEF Next, MainLoop

LEMMA RelayStep ==
  ASSUME TypeOK, [Next]_vars, NEW c \in Channels,
         relay[c] = wanted[c], relay'[c] # wanted'[c]
  PROVE  \/ savedValid[c] /\ ~ savedValid'[c]
         \/ c \in enables /\ \E d \in Channels \ {c} : wanted'[d] # wanted[d]
<1>0. relay \in [Channels -> BOOLEAN] /\ wanted \in [Channels -> BOOLEAN]
  BY DEF TypeOK
<1>1. CASE UNCHANGED outVars
  BY <1>1 DEF outVars
<1>2. ASSUME NEW cs \in (SUBSET Channels) \ {{}}, PressEnable(cs)
      PROVE  c \in enables /\ \E d \in Channels \ {c} : wanted'[d] # wanted[d]
  <2>1. /\ relay'[c]  = IF c \in enables \cup cs THEN ~relay[c] ELSE relay[c]
        /\ \A d \in Channels : wanted'[d] = IF d \in cs THEN ~wanted[d] ELSE wanted[d]
        /\ cs \cap enables = {}
    BY <1>2 DEF PressEnable, Toggles
  <2>2. c \in enables /\ c \notin cs
    BY <2>1
  <2>3. PICK d : d \in cs
    <3>1. cs # {}
      OBVIOUS
    <3> QED
      BY <3>1
  <2>4. d \in Channels \ {c} /\ wanted'[d] = ~wanted[d] /\ wanted[d] \in BOOLEAN
    BY <1>0, <2>1, <2>2, <2>3
  <2>5. wanted'[d] # wanted[d]
    BY <2>4
  <2> QED
    BY <2>2, <2>4, <2>5
<1>3. CASE SwitchFM \/ PulseReset \/ ClearReset
  BY <1>3 DEF SwitchFM, HandleButton, Handle, PulseReset, ClearReset
<1>4. CASE DrawPage
  <2>1. UNCHANGED wanted /\ Compute
    BY <1>4 DEF DrawPage
  <2>2. MustRestore(c)
    BY <2>1 DEF Compute
  <2> QED
    BY <2>1, <2>2 DEF Compute, MustRestore
<1> QED
  BY <1>1, <1>2, <1>3, <1>4, OutputChanges

\* What ENABLE has switched is taken back by the end of a sweep, or by the other
\* channel's button pressed while one's own is still down; by nothing else.
THEOREM RelaysFollowEnable == Spec => RelayUndoneOnlyBySweepOrHold
<1>1. TypeOK /\ [Next]_vars =>
        [\A c \in Channels :
           relay[c] = wanted[c] /\ relay'[c] # wanted'[c] =>
             \/ savedValid[c] /\ ~savedValid'[c]
             \/ c \in enables /\ \E d \in Channels \ {c} : wanted'[d] # wanted[d]]_vars
  BY RelayStep
<1> QED
  BY <1>1, TypeCorrect, PTL DEF Spec, RelayUndoneOnlyBySweepOrHold

LEMMA ResetStep ==
  ASSUME [Next]_vars, asked', ~ resetDDS'
  PROVE  (asked /\ ~ resetDDS) \/ pc = "resetClear"
<1>1. CASE UNCHANGED outVars
  BY <1>1 DEF outVars
<1>2. ~ \E cs \in (SUBSET Channels) \ {{}} : PressEnable(cs)
  BY DEF PressEnable
<1>3. CASE SwitchFM \/ DrawPage \/ PulseReset \/ ClearReset
  BY <1>3 DEF SwitchFM, DrawPage, PulseReset, ClearReset
<1> QED
  BY <1>1, <1>2, <1>3, OutputChanges

\* A reset asked for is forgotten nowhere but between the pulse and the clearing
\* of its flag.
THEOREM ResetKept == Spec => ResetLostOnlyInWindow
<1>1. [Next]_vars => [asked' /\ ~resetDDS' => (asked /\ ~resetDDS) \/ pc = "resetClear"]_vars
  BY ResetStep
<1> QED
  BY <1>1, PTL DEF Spec, ResetLostOnlyInWindow

=============================================================================
