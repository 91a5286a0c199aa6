----------------------------- MODULE SDCardProofs -----------------------------
(***************************************************************************)
(* Types of the SD card driver, that it is a block device, and that its    *)
(* status tells the truth, for every number of tries and polls and every   *)
(* set of sectors.                                                         *)
(***************************************************************************)
EXTENDS SDCard, TLAPS

USE DEF STA_NOINIT, Kinds

LEMMA AddressesNat ==
  ASSUME NEW sector \in Nat
  PROVE  Address(sector) \in Nat /\ BlockAt(Address(sector)) \in Nat
<1>1. sector * 512 \in Nat
  OBVIOUS
<1>2. Address(sector) \in Nat
  BY <1>1, SDCardAssumption DEF Address
<1> QED
  BY <1>2 DEF BlockAt

\* A byte address below 2^32 is the sector's again, for a card that takes it
\* as one.
LEMMA AddressFits ==
  ASSUME NEW sector \in Nat, sector * 512 < Wrap, slot # "hc"
  PROVE  BlockAt(Address(sector)) = sector
<1>1. sector * 512 \in Nat /\ Wrap \in Nat \ {0}
  BY SDCardAssumption
<1>2. \A x \in Nat, w \in Nat \ {0} : x < w => x % w = x
  OBVIOUS
<1>3. (sector * 512) % Wrap = sector * 512
  BY <1>1, <1>2
<1> QED
  BY <1>3 DEF Address, BlockAt

-----------------------------------------------------------------------------
(* Types *)

\* A step of the driver, whatever sectors it is asked for
AnyStep ==
  \/ Remove \/ Insert \/ StartInit \/ SDStep
  \/ \E s \in Nat, n \in Nat \ {0} : ReadCommand(s, n)

LEMMA NextIsAnyStep == [SDNext]_sdVars => [AnyStep]_sdVars
  BY SDCardAssumption DEF SDNext, AnyStep

LEMMA SDTypeInit == SDInit => SDTypeOK
<1> SUFFICES ASSUME SDInit PROVE SDTypeOK
  OBVIOUS
<1>1. asked \in Nat \X (Nat \ {0}) /\ tries \in Nat /\ reply \in Seq(Nat \cup {Garbage})
  BY DEF SDInit
<1>2. sending \in Nat \cup {Garbage, Nothing} /\ sdpc \in SDpcs
  BY DEF SDInit, SDpcs
<1>3. slot \in Kinds \cup {"none"} /\ mode \in {"sd", "idle", "ready"}
      /\ sdType \in Kinds \cup {"none"} /\ sdStatus \in {0, STA_NOINIT}
  BY DEF SDInit
<1>4. cs \in BOOLEAN /\ trusted \in BOOLEAN
  BY DEF SDInit
<1> QED
  BY <1>1, <1>2, <1>3, <1>4 DEF SDTypeOK

LEMMA ReceivedType ==
  ASSUME SDTypeOK, NEW count \in Nat \ {0}
  PROVE  /\ Received(count) \in [1 .. count -> Nat \cup {Garbage}]
         /\ Received(count) \in Seq(Nat \cup {Garbage})
<1>1. Received(count) \in [1 .. count -> Nat \cup {Garbage}]
  BY DEF Received, SDTypeOK
<1> QED
  BY <1>1

LEMMA InitializationType ==
  SDTypeOK /\ (StartInit \/ Initialization) => SDTypeOK'
<1> SUFFICES ASSUME SDTypeOK, StartInit \/ Initialization PROVE SDTypeOK'
  OBVIOUS
<1> USE DEF Goto, cardVars
<1>1. CASE StartInit
  <2>1. trusted' \in BOOLEAN
    BY <1>1 DEF StartInit, SDTypeOK
  <2>2. cs' \in BOOLEAN
    BY <1>1 DEF StartInit
  <2> QED
    BY <1>1, <2>1, <2>2 DEF StartInit, SDTypeOK, SDpcs
<1>2. CASE FailInit
  BY <1>2 DEF FailInit, SDTypeOK, SDpcs
<1>3. CASE PollReset
  <2>1. tries' \in Nat /\ sdpc' \in SDpcs
    BY <1>3 DEF PollReset, SDTypeOK, SDpcs
  <2> QED
    BY <1>3, <2>1 DEF PollReset, SDTypeOK
<1>4. CASE CheckInterface
  <2>1. PICK answer \in InterfaceAnswers :
          CASE answer = "match"    -> /\ Goto("ocr2")
                                      /\ UNCHANGED <<cs, sdType, sdStatus, asked,
                                                     reply, cardVars, trusted>>
            [] answer = "mismatch" -> FailInit
            [] OTHER               -> /\ Goto("ocr1")
                                      /\ UNCHANGED <<cs, sdType, sdStatus, asked,
                                                     reply, cardVars, trusted>>
    BY <1>4 DEF CheckInterface
  <2>2. CASE answer = "match"
    BY <2>1, <2>2 DEF SDTypeOK, SDpcs
  <2>3. CASE answer = "mismatch"
    BY <1>2, <2>1, <2>3
  <2>4. CASE answer # "match" /\ answer # "mismatch"
    BY <2>1, <2>4 DEF SDTypeOK, SDpcs
  <2> QED
    BY <2>2, <2>3, <2>4
<1>5. CASE CheckVoltage
  <2>1. CASE FailInit
    BY <1>2, <2>1
  <2>2. CASE ~FailInit
    BY <1>5, <2>2 DEF CheckVoltage, SDTypeOK, SDpcs
  <2> QED
    BY <2>1, <2>2
<1>6. CASE AcmdReady
  BY <1>6 DEF AcmdReady, SDTypeOK, SDpcs
<1>7. CASE AcmdIdle
  <2>1. CASE FailInit
    BY <1>2, <2>1
  <2>2. CASE ~FailInit
    <3>1. tries' \in Nat
      BY <1>7, <2>2 DEF AcmdIdle, SDTypeOK
    <3> QED
      BY <1>7, <2>2, <3>1 DEF AcmdIdle, SDTypeOK
  <2> QED
    BY <2>1, <2>2
<1>8. CASE CheckCapacity
  BY <1>8 DEF CheckCapacity, SDTypeOK, SDpcs
<1>9. CASE FinishInit
  <2>1. sdType' \in Kinds
    BY <1>9 DEF FinishInit
  <2>2. cs' \in BOOLEAN
    BY <1>9 DEF FinishInit
  <2> QED
    BY <1>9, <2>1, <2>2 DEF FinishInit, SDTypeOK, SDpcs
<1> QED
  BY <1>1, <1>3, <1>4, <1>5, <1>6, <1>7, <1>8, <1>9 DEF Initialization

LEMMA ReadingType ==
  ASSUME SDTypeOK,
         Reading \/ \E s \in Nat, n \in Nat \ {0} : ReadCommand(s, n)
  PROVE  SDTypeOK'
<1> USE DEF Goto, cardVars
<1>1. ASSUME NEW s \in Nat, NEW n \in Nat \ {0}, ReadCommand(s, n)
      PROVE  SDTypeOK'
  <2>1. s \in Nat /\ n \in Nat \ {0}
    OBVIOUS
  <2>2. sending' \in Nat \cup {Garbage, Nothing}
    BY <1>1, <2>1, AddressesNat DEF ReadCommand, SDTypeOK
  <2>3. asked' \in Nat \X (Nat \ {0})
    BY <1>1, <2>1 DEF ReadCommand
  <2>4. cs' \in BOOLEAN
    BY <1>1 DEF ReadCommand
  <2> QED
    BY <1>1, <2>2, <2>3, <2>4 DEF ReadCommand, SDTypeOK, SDpcs
<1>2. ASSUME GiveUp, sending' \in Nat \cup {Garbage, Nothing} PROVE SDTypeOK'
  <2>1. reply' \in Seq(Nat \cup {Garbage})
    BY <1>2 DEF GiveUp
  <2>2. trusted' \in BOOLEAN
    BY <1>2 DEF GiveUp
  <2> QED
    BY <1>2, <2>1, <2>2 DEF GiveUp, SDTypeOK, SDpcs
<1>3. CASE TokenRead
  <2>1. CASE tries < Polls
    BY <1>3, <2>1 DEF TokenRead, SDTypeOK, SDpcs
  <2>2. CASE ~(tries < Polls)
    BY <1>2, <1>3, <2>2 DEF TokenRead
  <2> QED
    BY <2>1, <2>2
<1>4. CASE TokenAwaited
  <2>1. CASE tries < Polls
    <3>1. tries' \in Nat
      BY <1>4, <2>1 DEF TokenAwaited, SDTypeOK
    <3> QED
      BY <1>4, <2>1, <3>1 DEF TokenAwaited, SDTypeOK
  <2>2. CASE ~(tries < Polls)
    BY <1>2, <1>4, <2>2 DEF TokenAwaited, SDTypeOK
  <2> QED
    BY <2>1, <2>2
<1>5. CASE ReadData
  <2>1. asked[2] \in Nat \ {0}
    BY DEF SDTypeOK
  <2>2. reply' \in Seq(Nat \cup {Garbage})
    BY <1>5, <2>1, ReceivedType DEF ReadData
  <2>3. cs' \in BOOLEAN
    BY <1>5 DEF ReadData
  <2> QED
    BY <1>5, <2>2, <2>3 DEF ReadData, SDTypeOK, SDpcs
<1> QED
  BY <1>1, <1>3, <1>4, <1>5 DEF Reading

LEMMA SDTypeStep == SDTypeOK /\ [AnyStep]_sdVars => SDTypeOK'
<1> SUFFICES ASSUME SDTypeOK, [AnyStep]_sdVars PROVE SDTypeOK'
  OBVIOUS
<1>1. CASE Remove
  <2>1. trusted' \in BOOLEAN
    BY <1>1 DEF Remove
  <2> QED
    BY <1>1, <2>1 DEF Remove, SDTypeOK, driverVars
<1>2. CASE Insert
  BY <1>2 DEF Insert, SDTypeOK, driverVars
<1>3. CASE StartInit \/ Initialization
  BY <1>3, InitializationType
<1>4. CASE Reading \/ \E s \in Nat, n \in Nat \ {0} : ReadCommand(s, n)
  BY <1>4, ReadingType
<1>5. CASE UNCHANGED sdVars
  BY <1>5 DEF sdVars, cardVars, driverVars, SDTypeOK
<1> QED
  BY <1>1, <1>2, <1>3, <1>4, <1>5 DEF AnyStep, SDStep

\* The driver's state and the card's keep their types, for every number of
\* tries and polls and every set of sectors.
THEOREM SDTypeCorrect == SDSpec => []SDTypeOK
<1>1. SDInit => SDTypeOK
  BY SDTypeInit
<1>2. SDTypeOK /\ [SDNext]_sdVars => SDTypeOK'
  BY SDTypeStep, NextIsAnyStep
<1> QED
  BY <1>1, <1>2, PTL DEF SDSpec

-----------------------------------------------------------------------------
(* A block device *)

\* A card that can be trusted is addressed by bytes, has nothing left to send
\* between two requests, and sends the sector that was asked for.
HonestCard ==
  trusted =>
    /\ slot \in {"v1", "sc"}
    /\ sdpc \notin {"token", "data"} => sending = Nothing
    /\ sdpc = "token" => sending \in {Nothing, asked[1]}
    /\ sdpc = "data"  => sending = asked[1]

SDInv == SDTypeOK /\ HonestCard

LEMMA HonestStep == SDInv /\ [AnyStep]_sdVars => HonestCard'
<1> SUFFICES ASSUME SDTypeOK, HonestCard, [AnyStep]_sdVars PROVE HonestCard'
  BY DEF SDInv
<1> USE DEF Goto, cardVars
<1>1. CASE Remove
  BY <1>1 DEF Remove, HonestCard
<1>2. CASE Insert
  BY <1>2 DEF Insert, HonestCard, driverVars
<1>3. CASE StartInit
  BY <1>3 DEF StartInit, HonestCard, SDTypeOK
<1>4. CASE Initialization
  <2>1. /\ UNCHANGED <<slot, sending>> /\ (trusted' => trusted)
        /\ sdpc \notin {"token", "data"} /\ sdpc' \notin {"token", "data"}
    <3>1. CASE FailInit
      BY <1>4, <3>1 DEF FailInit, Initialization, PollReset, CheckInterface, CheckVoltage,
         AcmdReady, AcmdIdle, CheckCapacity, FinishInit
    <3>2. CASE ~FailInit
      BY <1>4, <3>2 DEF Initialization, PollReset, CheckInterface, CheckVoltage,
         AcmdReady, AcmdIdle, CheckCapacity, FinishInit, SDTypeOK
    <3> QED
      BY <3>1, <3>2
  <2> QED
    BY <2>1 DEF HonestCard
<1>5. ASSUME NEW s \in Nat, NEW n \in Nat \ {0}, ReadCommand(s, n)
      PROVE  HonestCard'
  <2>1. CASE ~trusted
    BY <1>5, <2>1 DEF ReadCommand, HonestCard
  <2>2. CASE trusted
    <3>1. s \in Nat /\ s * 512 < Wrap /\ slot # "hc"
      BY <1>5, <2>2 DEF ReadCommand, HonestCard
    <3>2. BlockAt(Address(s)) = s
      BY <3>1, AddressFits
    <3>3. sending' \in {Nothing, s} /\ asked'[1] = s /\ sdpc' = "token" /\ slot' = slot
      BY <1>5, <2>2, <3>2 DEF ReadCommand, HonestCard
    <3> QED
      BY <2>2, <3>3 DEF HonestCard
  <2> QED
    BY <2>1, <2>2
<1>6. CASE TokenRead
  BY <1>6 DEF TokenRead, GiveUp, HonestCard
<1>7. CASE TokenAwaited
  BY <1>7 DEF TokenAwaited, GiveUp, HonestCard
<1>8. CASE ReadData
  BY <1>8 DEF ReadData, HonestCard
<1>9. CASE UNCHANGED sdVars
  BY <1>9 DEF sdVars, driverVars, HonestCard
<1> QED
  BY <1>1, <1>2, <1>3, <1>4, <1>5, <1>6, <1>7, <1>8, <1>9 DEF AnyStep, SDStep, Reading

\* A step of the driver that answers no request and takes none
LEMMA DeviceUnchanged ==
  ASSUME UNCHANGED <<asked, reply, trusted>>,
         sdpc \in {"token", "data"} <=> sdpc' \in {"token", "data"}
  PROVE  UNCHANGED Device!vars
<1>1. op' = op
  BY DEF op
<1> QED
  BY <1>1 DEF Device!vars

\* Every step of the driver is a step of the device, or none.
LEMMA DeviceStep == SDInv /\ [SDNext]_sdVars => [Device!Next]_(Device!vars)
<1> SUFFICES ASSUME SDTypeOK, HonestCard, [SDNext]_sdVars
             PROVE  Device!Next \/ UNCHANGED Device!vars
  BY DEF SDInv
<1> USE DEF Goto, cardVars
<1>1. CASE Remove
  <2>1. op' = op
    BY <1>1 DEF Remove, driverVars, op
  <2> QED
    BY <1>1, <2>1 DEF Remove, driverVars, Device!Next, Device!Distrust
<1>2. CASE Insert
  BY <1>2, DeviceUnchanged DEF Insert, driverVars
<1>3. CASE StartInit
  <2>1. op = <<>> /\ op' = <<>>
    BY <1>3 DEF StartInit, op
  <2>2. trusted' \in BOOLEAN /\ reply' = reply
    BY <1>3, SDTypeStep, NextIsAnyStep DEF StartInit, SDTypeOK
  <2> QED
    BY <2>1, <2>2 DEF Device!Next, Device!Initialise
<1>4. CASE Initialization
  <2>1. /\ UNCHANGED <<asked, reply>> /\ (trusted' = trusted \/ trusted' = FALSE)
        /\ sdpc \notin {"token", "data"} /\ sdpc' \notin {"token", "data"}
    <3>1. CASE FailInit
      BY <1>4, <3>1 DEF FailInit, Initialization, PollReset, CheckInterface, CheckVoltage,
         AcmdReady, AcmdIdle, CheckCapacity, FinishInit
    <3>2. CASE ~FailInit
      BY <1>4, <3>2 DEF Initialization, PollReset, CheckInterface, CheckVoltage,
         AcmdReady, AcmdIdle, CheckCapacity, FinishInit, SDTypeOK
    <3> QED
      BY <3>1, <3>2
  <2>2. op' = op
    BY <2>1 DEF op
  <2> QED
    BY <2>1, <2>2, DeviceUnchanged DEF Device!Next, Device!Distrust
<1>5. ASSUME NEW s \in Sectors, NEW n \in Counts, ReadCommand(s, n)
      PROVE  Device!Next
  <2>1. op = <<>> /\ op' = <<s, n>>
    BY <1>5 DEF ReadCommand, op
  <2> QED
    BY <1>5, <2>1 DEF ReadCommand, Device!Next, Device!Ask
<1>6. ASSUME GiveUp, sdpc = "token" PROVE Device!Next
  <2>1. op = asked /\ op' = <<>>
    BY <1>6 DEF GiveUp, op
  <2>2. asked # <<>>
    <3>1. PICK a \in Nat, n \in Nat \ {0} : asked = <<a, n>>
      BY DEF SDTypeOK
    <3>2. <<a, n>> # <<>>
      OBVIOUS
    <3> QED
      BY <3>1, <3>2
  <2> QED
    BY <1>6, <2>1, <2>2 DEF GiveUp, Device!Next, Device!Fail
<1>7. CASE TokenRead
  <2>1. CASE tries < Polls
    BY <1>7, <2>1, DeviceUnchanged DEF TokenRead
  <2>2. CASE ~(tries < Polls)
    BY <1>6, <1>7, <2>2 DEF TokenRead
  <2> QED
    BY <2>1, <2>2
<1>8. CASE TokenAwaited
  <2>1. CASE tries < Polls
    BY <1>8, <2>1, DeviceUnchanged DEF TokenAwaited
  <2>2. CASE ~(tries < Polls)
    BY <1>6, <1>8, <2>2 DEF TokenAwaited
  <2> QED
    BY <2>1, <2>2
<1>9. CASE ReadData
  <2>1. op = asked /\ op' = <<>> /\ asked # <<>> /\ asked[2] \in Nat \ {0}
    BY <1>9 DEF ReadData, op, SDTypeOK
  <2>2. reply' \in [1 .. op[2] -> Nat \cup {Garbage}]
    BY <1>9, <2>1, ReceivedType DEF ReadData
  <2>3. trusted => reply'[1] = op[1]
    <3>1. reply'[1] = IF sending # Nothing THEN sending ELSE Garbage
      BY <1>9, <2>1 DEF ReadData, Received
    <3>2. trusted => sending = asked[1] /\ asked[1] \in Nat
      BY <1>9 DEF ReadData, HonestCard, SDTypeOK
    <3> QED
      BY <2>1, <3>1, <3>2, SDCardAssumption
  <2>4. trusted' = trusted
    BY <1>9 DEF ReadData
  <2> QED
    BY <2>1, <2>2, <2>3, <2>4 DEF Device!Next, Device!Answer
<1>10. CASE UNCHANGED sdVars
  BY <1>10, DeviceUnchanged DEF sdVars, driverVars
<1> QED
  BY <1>1, <1>2, <1>3, <1>4, <1>5, <1>7, <1>8, <1>9, <1>10 DEF SDNext, SDStep, Reading

\* The driver implements the block device: a read that is not answered by an
\* error is answered by the sector asked for, as long as the card, addressed
\* by bytes, stays in its slot and answers in time.
THEOREM DriverIsBlockDevice == SDSpec => ImplementsDevice
<1>1. SDInit => SDInv /\ Device!Init
  <2>1. SDInit => SDInv
    BY SDTypeInit DEF SDInit, SDInv, HonestCard
  <2>2. SDInit => Device!Init
    BY DEF SDInit, Device!Init, op
  <2> QED
    BY <2>1, <2>2
<1>2. SDInv /\ [SDNext]_sdVars => SDInv'
  BY SDTypeStep, HonestStep, NextIsAnyStep DEF SDInv
<1>3. SDInv /\ [SDNext]_sdVars => [Device!Next]_(Device!vars)
  BY DeviceStep
<1> QED
  BY <1>1, <1>2, <1>3, PTL DEF SDSpec, ImplementsDevice, Device!Spec

-----------------------------------------------------------------------------
(* The status *)

Initializing == {"reset", "ifCond", "ocr1", "ocr2", "acmd1", "acmd2", "capacity",
                 "block1", "block2", "blockH"}

\* A card that can be trusted has taken CMD0, and listens to what selects it;
\* once ACMD41 is over it is ready.  The status is 0 for such a card only -
\* while it is initialized again, the status is that of before.
InitializedCard ==
  /\ sdpc \in Initializing => cs
  /\ trusted =>
       /\ slot \in {"v1", "sc"} /\ mode \in {"idle", "ready"}
       /\ sdpc \in {"capacity", "block1", "block2"} => mode = "ready"
       /\ sdpc # "blockH"
       /\ sdpc \notin Initializing /\ sdStatus = 0 =>
            mode = "ready" /\ sdType \in {"v1", "sc"}

LEMMA InitializedStep ==
  SDTypeOK /\ InitializedCard /\ [AnyStep]_sdVars => InitializedCard'
<1> SUFFICES ASSUME SDTypeOK, InitializedCard, [AnyStep]_sdVars PROVE InitializedCard'
  OBVIOUS
<1> USE DEF Goto, cardVars, Initializing
<1>1. CASE Remove
  BY <1>1 DEF Remove, InitializedCard, driverVars
<1>2. CASE Insert
  BY <1>2 DEF Insert, InitializedCard, driverVars
<1>3. CASE StartInit
  BY <1>3 DEF StartInit, InitializedCard, SDTypeOK
<1>4. CASE Initialization
  <2>1. CASE FailInit /\ sdpc \in Initializing
    BY <2>1 DEF FailInit, InitializedCard
  <2>2. CASE PollReset
    BY <2>2 DEF PollReset, InitializedCard
  <2>3. CASE CheckInterface
    BY <2>1, <2>3 DEF CheckInterface, InitializedCard
  <2>4. CASE CheckVoltage
    BY <2>1, <2>4 DEF CheckVoltage, InitializedCard
  <2>5. CASE AcmdReady
    BY <2>5 DEF AcmdReady, InitializedCard
  <2>6. CASE AcmdIdle
    BY <2>1, <2>6 DEF AcmdIdle, InitializedCard
  <2>7. CASE CheckCapacity
    BY <2>7 DEF CheckCapacity, CapacityBits, Listening, InitializedCard
  <2>8. CASE FinishInit
    BY <2>8 DEF FinishInit, InitializedCard
  <2> QED
    BY <1>4, <2>2, <2>3, <2>4, <2>5, <2>6, <2>7, <2>8 DEF Initialization
<1>5. CASE \E s \in Nat, n \in Nat \ {0} : ReadCommand(s, n)
  BY <1>5 DEF ReadCommand, InitializedCard
<1>6. CASE TokenRead
  BY <1>6 DEF TokenRead, GiveUp, InitializedCard
<1>7. CASE TokenAwaited
  BY <1>7 DEF TokenAwaited, GiveUp, InitializedCard
<1>8. CASE ReadData
  BY <1>8 DEF ReadData, InitializedCard
<1>9. CASE UNCHANGED sdVars
  BY <1>9 DEF sdVars, driverVars, InitializedCard
<1> QED
  BY <1>1, <1>2, <1>3, <1>4, <1>5, <1>6, <1>7, <1>8, <1>9 DEF AnyStep, SDStep, Reading

\* The status the file system looks at is 0 only for a card that is in the
\* slot, ready, and addressed by bytes - or one that was late or taken out
\* since (SD.c:97-103).
THEOREM StatusIsTruthful == SDSpec => []StatusTruthful
<1>1. SDInit => InitializedCard
  BY DEF SDInit, InitializedCard, Initializing
<1>2. SDTypeOK /\ InitializedCard /\ [SDNext]_sdVars => InitializedCard'
  BY InitializedStep, NextIsAnyStep
<1>3. InitializedCard => StatusTruthful
  BY DEF InitializedCard, StatusTruthful, Initializing
<1> QED
  BY <1>1, <1>2, <1>3, SDTypeCorrect, PTL DEF SDSpec
=============================================================================
