--------------------------- MODULE DevicesProofs ---------------------------
(***************************************************************************)
(* The parts side by side: each of them does what it promises while the    *)
(* others have the processor, for every value of the constants.            *)
(***************************************************************************)
EXTENDS MCDevices, CardFileProofs, PeripheralProofs, SignalProofs, PageProofs

\* Each part starts as it does alone.
LEMMA PartsStart ==
  Init => /\ FileInit /\ KeypadInit /\ LcdInit /\ SpiInit /\ DdsInit /\ SampleInit
          /\ DelayInit /\ TypingInit /\ SdPageInit
  BY DEF Init

\* A step of the whole is a step of each part, or none.
LEMMA PartsStep ==
  [Next]_allVars =>
    /\ [FileNext]_vars /\ [KeypadNext]_keypadVars /\ [LcdNext]_lcdVars
    /\ [SpiNext]_spiVars /\ [DdsNext]_ddsVars /\ [SampleNext]_sampleVars
    /\ [DelayNext]_delayVars /\ [TypingNext]_typingVars /\ [SdPageNext]_sdPageVars
<1>1. CASE UNCHANGED allVars
  BY <1>1 DEF allVars
<1>2. CASE Next
  BY <1>2 DEF Next, Only
<1> QED BY <1>1, <1>2

\* The parts that need no fairness are themselves.
LEMMA PartsAlone ==
  Spec => SpiSpec /\ DdsSpec /\ SampleSpec /\ DelaySpec /\ TypingSpec /\ SdPageSpec
  BY PartsStart, PartsStep, PTL
  DEF Spec, SpiSpec, DdsSpec, SampleSpec, DelaySpec, TypingSpec, SdPageSpec

\* What the others keep does not rest on fairness.
LEMMA PartsKeep ==
  Spec => [](FileInv /\ Selected /\ Counting /\ LcdInv /\ KeypadTypeOK /\ CodeWasMet)
<1>1. Init => FileInv /\ Selected /\ Counting /\ LcdInv /\ KeypadTypeOK /\ CodeWasMet
  BY PartsStart, FileInitInv, StreamStarts, CountingStarts, LcdInitInv, KeypadTypeInit
  DEF KeypadInit, CodeWasMet, PowerUp
<1>2. /\ FileInv /\ Selected /\ Counting /\ LcdInv /\ KeypadTypeOK /\ CodeWasMet
      /\ [Next]_allVars
      => (FileInv /\ Selected /\ Counting /\ LcdInv /\ KeypadTypeOK /\ CodeWasMet)'
  BY PartsStep, FileInvStep, SelectedStep, CountingStep, LcdInvStep, KeypadTypeStep, MetStep
<1> QED BY <1>1, <1>2, PTL DEF Spec

\* Side by side the parts keep their types.
THEOREM DevicesKeepTypes == Spec => []DevicesTypeOK
<1>1. /\ FileInv /\ LcdInv /\ KeypadTypeOK /\ SpiTypeOK /\ DdsTypeOK /\ SampleTypeOK
      /\ DelayTypeOK /\ TypingTypeOK /\ SdPageTypeOK
      => DevicesTypeOK
  BY DEF DevicesTypeOK, FileInv, LcdInv
<1> QED
  BY <1>1, PartsAlone, PartsKeep, SpiTypeCorrect, DdsTypeCorrect, SampleTypeCorrect,
     DelayTypeCorrect, TypingTypeCorrect, SdPageTypeCorrect, PTL

\* Side by side the parts keep what is checked of their states.
THEOREM DevicesKeepInvariants ==
  Spec => [](/\ OneSectorAtATime /\ OpenIsReadable /\ StatusTruthful /\ SettledScreen
             /\ BytesInOrder /\ ChannelsInPhase /\ TablesWellFormed /\ BoostKeepsSign
             /\ AmFollowsFormula /\ PathNearTheCard)
<1>1. FileInv => OneSectorAtATime /\ OpenIsReadable /\ StatusTruthful
  BY AsksForOne, OpenReadable DEF FileInv, InitializedCard, StatusTruthful, Initializing
<1>2. LcdInv => SettledScreen
  BY LcdSettles
<1> QED
  BY <1>1, <1>2, PartsAlone, PartsKeep, BytesAreInOrder, ResetAlignsChannels,
     TablesAreWellFormed, BoostIsBounded, AMFollowsItsFormula, PathStaysNear, PTL

\* Side by side the parts take no step that they may not take: the player is a
\* stream and gets on with each update, the scanner reports what it met, a
\* delay has its length and ENTER stores what was typed.
THEOREM DevicesKeepPromises ==
  Spec => /\ ImplementsStream /\ UpdateGoesOn /\ ReportsOnlyKeysMet
          /\ DelayWindow /\ EnterStoresTheEntry
<1>1. FileInit => Stream!Init
  BY StreamStarts
<1>2. FileInv /\ Selected /\ [FileNext]_vars => [Stream!Next]_(Stream!streamVars)
  BY StreamStep
<1>3. FileInv /\ Selected /\ Counting /\ [FileNext]_vars => [GoesOn]_vars
  BY UpdateStep
<1>4. KeypadTypeOK /\ CodeWasMet /\ [KeypadNext]_keypadVars =>
        [\A k \in Keys : Reports(k) => k \in sampled]_keypadVars
  BY ReportStep
<1> QED
  BY <1>1, <1>2, <1>3, <1>4, PartsStart, PartsStep, PartsAlone, PartsKeep, DelayLength,
     WhatIsTypedIsStored, PTL
  DEF Spec, ImplementsStream, Stream!Spec, UpdateGoesOn, ReportsOnlyKeysMet

\* Side by side the driver, asked by FatFs only, remains a block device, where
\* FatFs asks for sectors of the card.
THEOREM DevicesKeepTheDevice ==
  ASSUME AsksForTheFile
  PROVE  Spec => ImplementsDevice
<1>1. FileInv /\ [FileNext]_vars => [SDNext]_sdVars
  BY DriverIsAsked
<1>2. FileInit => SDInit
  BY DEF FileInit
<1>3. Spec => SDSpec
  BY <1>1, <1>2, PartsStart, PartsStep, PartsKeep, PTL DEF Spec, SDSpec
<1> QED BY <1>3, DriverIsBlockDevice

\* Side by side every press is reported once, where fingers rest.
THEOREM DevicesReportOnce ==
  ASSUME FingersRest
  PROVE  Spec => OneReportPerPress
<1>1. OnceInv /\ [KeypadNext]_keypadVars =>
        [\A k \in Keys : Reports(k) => KeyPressed = None /\ k \notin reported]_keypadVars
  BY OnceReport
<1>2. OnceInv /\ [KeypadNext]_keypadVars => OnceInv'
  BY OnceStep
<1> QED
  BY <1>1, <1>2, OnceInit, PartsStart, PartsStep, PTL DEF Spec, OneReportPerPress
=============================================================================
