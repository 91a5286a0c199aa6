------------------------------- MODULE SDCard -------------------------------
(***************************************************************************)
(* The SD card driver (SD.c) in SPI mode, and the card it talks to.        *)
(*                                                                         *)
(* One action is one exchange of a command or of a polled byte.  The card  *)
(* is outside the program: it may answer a poll or not, take a command     *)
(* that comes while it still has a block to send or ignore it, be taken    *)
(* out and put in.  With no card every byte read is 0xFF.                  *)
(***************************************************************************)
EXTENDS Naturals, Sequences

CONSTANTS
  Sectors,   \* sectors the file system asks for
  Counts,    \* numbers of sectors it asks for at once (bound)
  Garbage,   \* bytes that are no sector of the card
  Nothing,   \* the card has no block to send
  Tries,     \* 100: attempts of the initialization loops
  Polls,     \* 500: polls for a data token after the first
  Wrap       \* 2^32: byte addresses are uint32_t

ASSUME SDCardAssumption ==
  /\ Sectors \subseteq Nat /\ Counts \subseteq Nat \ {0}
  /\ Garbage \notin Nat /\ Nothing \notin Nat /\ Garbage # Nothing
  /\ Tries \in Nat \ {0} /\ Polls \in Nat
  /\ Wrap \in Nat \ {0}

VARIABLES
  \* the card
  slot,      \* the kind of card in the slot: "none", "v1", "sc" or "hc"
  mode,      \* "sd" after power-up, "idle" or "ready" in SPI mode
  sending,   \* the block the card is about to send, or Nothing
  \* SD.c
  sdpc, cs, sdType, sdStatus,
  tries,     \* counter of the loop sdpc is in
  asked,     \* <<sector, count>> of the last MMC_disk_read
  reply,     \* what the last one put into the buffer; << >>: RES_ERROR
  \* history
  trusted    \* since it took CMD0 the card, addressed by bytes, has stayed in
             \* the slot and has answered CMD58 and every read in time

cardVars   == <<slot, mode, sending>>
driverVars == <<sdpc, cs, sdType, sdStatus, tries, asked, reply>>
sdVars     == <<cardVars, driverVars, trusted>>

Kinds == {"v1", "sc", "hc"}
STA_NOINIT == 1

SDInit ==
  /\ slot \in Kinds \cup {"none"} /\ mode = "sd" /\ sending = Nothing
  /\ sdpc = "idle" /\ cs = FALSE /\ sdType = "none" /\ sdStatus = STA_NOINIT
  /\ tries = 0 /\ asked = <<0, 1>> /\ reply = <<>>
  /\ trusted = FALSE

-----------------------------------------------------------------------------
(* The slot *)

\* A card loses its state with its power.
Remove ==
  /\ slot # "none"
  /\ slot' = "none" /\ mode' = "sd" /\ sending' = Nothing /\ trusted' = FALSE
  /\ UNCHANGED driverVars

Insert ==
  /\ slot = "none" /\ slot' \in Kinds
  /\ UNCHANGED <<mode, sending, driverVars, trusted>>

\* The selected card understands commands
Listening == cs /\ slot # "none" /\ mode # "sd"

-----------------------------------------------------------------------------
(* SD_Initialize *)

Goto(label) == sdpc' = label /\ tries' = 0

\* mutant: the status of an earlier initialization stays
FailInitSilently ==
  /\ Goto("idle") /\ sdType' = "none"
  /\ UNCHANGED <<cs, sdStatus, asked, reply, cardVars, trusted>>

\* return false: MMC_disk_initialize sets STA_NOINIT; the chip select stays.
FailInit ==
  /\ Goto("idle") /\ sdType' = "none" /\ sdStatus' = STA_NOINIT
  /\ UNCHANGED <<cs, asked, reply, cardVars, trusted>>

\* SPI_Init, 80 clocks deselected, then CMD0: a card takes it or not.
StartInit ==
  /\ sdpc = "idle" /\ Goto("reset") /\ cs' = TRUE
  /\ \/ /\ slot # "none"
        /\ mode' = "idle" /\ sending' = Nothing /\ trusted' = (slot # "hc")
     \/ UNCHANGED <<mode, sending, trusted>>
  /\ UNCHANGED <<slot, sdType, sdStatus, asked, reply>>

\* The response to CMD0 is read up to 100 times; that it never came is not
\* noticed.
PollReset ==
  /\ sdpc = "reset"
  /\ \/ Listening /\ mode = "idle" /\ Goto("ifCond")
     \/ IF tries + 1 = Tries THEN Goto("ifCond")
                             ELSE tries' = tries + 1 /\ UNCHANGED sdpc
  /\ UNCHANGED <<cs, sdType, sdStatus, asked, reply, cardVars, trusted>>

\* What CMD8 brings back: nothing also from a card that is late by a byte
InterfaceAnswers ==
  {"nothing"} \cup CASE ~Listening   -> {}
                     [] slot = "v1"  -> {"illegal"}
                     [] OTHER        -> {"match", "mismatch"}

\* CMD8: without an answer, or with "illegal command", the card is Ver1.x.
CheckInterface ==
  /\ sdpc = "ifCond"
  /\ \E answer \in InterfaceAnswers :
       CASE answer = "match"    -> /\ Goto("ocr2")
                                   /\ UNCHANGED <<cs, sdType, sdStatus, asked,
                                                  reply, cardVars, trusted>>
         [] answer = "mismatch" -> FailInit
         [] OTHER               -> /\ Goto("ocr1")
                                   /\ UNCHANGED <<cs, sdType, sdStatus, asked,
                                                  reply, cardVars, trusted>>

\* CMD58: the voltage range; an absent card's ones pass for a suitable one.
CheckVoltage ==
  /\ sdpc \in {"ocr1", "ocr2"}
  /\ \/ /\ Goto(IF sdpc = "ocr1" THEN "acmd1" ELSE "acmd2")
        /\ UNCHANGED <<cs, sdType, sdStatus, asked, reply, cardVars, trusted>>
     \/ Listening /\ FailInit

\* ACMD41, without the bit that tells a high capacity card it is supported,
\* until the card leaves the idle state: it answers and is ready ...
AcmdReady ==
  /\ sdpc \in {"acmd1", "acmd2"} /\ Listening
  /\ mode' = "ready" /\ UNCHANGED <<slot, sending>>
  /\ Goto(IF sdpc = "acmd1" THEN "block1" ELSE "capacity")
  /\ UNCHANGED <<cs, sdType, sdStatus, asked, reply, trusted>>

\* ... or is still busy, or silent (0xFF has the idle bit), up to 100 times.
AcmdIdle ==
  /\ sdpc \in {"acmd1", "acmd2"}
  /\ IF tries + 1 = Tries
     THEN FailInit
     ELSE /\ tries' = tries + 1
          /\ UNCHANGED <<sdpc, cs, sdType, sdStatus, asked, reply, cardVars,
                         trusted>>

\* CMD58 again: bit 30 of what is read says a high capacity card.  It is clear in
\* the R1 of a card late by a byte, set in the ones of a card that is later or out.
CapacityBits == IF Listening THEN BOOLEAN ELSE {TRUE}

CheckCapacity ==
  /\ sdpc = "capacity"
  /\ \E high \in CapacityBits :
       /\ Goto(IF high THEN "blockH" ELSE "block2")
       /\ trusted' = (trusted /\ ~high)
  /\ UNCHANGED <<cs, sdType, sdStatus, asked, reply, cardVars>>

\* SD_SetBlockLength unless high capacity, deselect, return true: the status
\* becomes 0.
FinishInit ==
  /\ sdpc \in {"block1", "block2", "blockH"} /\ Goto("idle")
  /\ sdType' = CASE sdpc = "block1" -> "v1"
                 [] sdpc = "block2" -> "sc"
                 [] sdpc = "blockH" -> "hc"
  /\ sdStatus' = 0 /\ cs' = FALSE
  /\ UNCHANGED <<asked, reply, cardVars, trusted>>

Initialization ==
  \/ PollReset \/ CheckInterface \/ CheckVoltage \/ AcmdReady \/ AcmdIdle
  \/ CheckCapacity \/ FinishInit

-----------------------------------------------------------------------------
(* SD_ReadSingleBlock and SD_ReadMultipleBlocks *)

AddressOfBlock(sector) == sector % Wrap               \* mutant: not in bytes

\* MMC_disk_read passes a byte address whatever the card ...
Address(sector) == (sector * 512) % Wrap

\* ... and a high capacity card takes it for a block number.
BlockAt(address) == IF slot = "hc" THEN address ELSE address \div 512

\* CMD17 or CMD18 and its R1, which nobody looks at.  A card that still has a
\* block to send may ignore the command; so may a busy one.  The file system
\* asks a byte-addressed card for no sector beyond its last address.
ReadCommand(sector, count) ==
  /\ sdpc = "idle" /\ sdStatus = 0
  /\ trusted => sector * 512 < Wrap
  /\ Goto("token") /\ cs' = TRUE /\ asked' = <<sector, count>>
  /\ \/ /\ slot # "none" /\ mode = "ready"
        /\ sending' = BlockAt(Address(sector))
     \/ UNCHANGED sending
  /\ UNCHANGED <<slot, mode, sdType, sdStatus, reply, trusted>>

\* return false: the card stays selected, CMD12 is not sent, and the bytes of
\* a block that comes now are read as the answer to something else.
GiveUp ==
  /\ Goto("idle") /\ reply' = <<>> /\ trusted' = FALSE
  /\ UNCHANGED <<cs, sdType, sdStatus, asked, slot, mode>>

\* The token 0xFE is read.  Read by the last poll, it counts as a timeout.
TokenRead ==
  /\ sdpc = "token" /\ sending # Nothing
  /\ IF tries < Polls
     THEN /\ Goto("data")
          /\ UNCHANGED <<cs, sdType, sdStatus, asked, reply, cardVars, trusted>>
     ELSE GiveUp /\ sending' = Garbage

\* mutant: the polls are not counted
TokenAwaitedForever ==
  /\ sdpc = "token"
  /\ UNCHANGED <<tries, sdpc, cs, sdType, sdStatus, asked, reply, cardVars, trusted>>

\* Another byte is read.
TokenAwaited ==
  /\ sdpc = "token"
  /\ IF tries < Polls
     THEN /\ tries' = tries + 1
          /\ UNCHANGED <<sdpc, cs, sdType, sdStatus, asked, reply, cardVars,
                         trusted>>
     ELSE GiveUp /\ UNCHANGED sending

\* The buffer after count times 512 bytes and a CRC nobody checks.  Only the
\* token of the first block was waited for: the others start before theirs.
Received(count) ==
  [i \in 1 .. count |-> IF i = 1 /\ sending # Nothing THEN sending ELSE Garbage]

\* DMA of the data, CMD12 after several blocks, deselect, return true.
ReadData ==
  /\ sdpc = "data" /\ Goto("idle") /\ cs' = FALSE
  /\ reply' = Received(asked[2]) /\ sending' = Nothing
  /\ UNCHANGED <<slot, mode, sdType, sdStatus, asked, trusted>>

Reading == TokenRead \/ TokenAwaited \/ ReadData

-----------------------------------------------------------------------------
SDStep == Initialization \/ Reading

SDNext ==
  \/ Remove \/ Insert \/ StartInit \/ SDStep
  \/ \E s \in Sectors, n \in Counts : ReadCommand(s, n)

SDSpec == SDInit /\ [][SDNext]_sdVars

-----------------------------------------------------------------------------
(* Properties *)

SDpcs == {"idle", "reset", "ifCond", "ocr1", "ocr2", "acmd1", "acmd2",
          "capacity", "block1", "block2", "blockH", "token", "data"}

\* The types of the driver's and the card's state.
SDTypeOK ==
  /\ slot \in Kinds \cup {"none"} /\ mode \in {"sd", "idle", "ready"}
  /\ sending \in Nat \cup {Garbage, Nothing}
  /\ sdpc \in SDpcs /\ cs \in BOOLEAN
  /\ sdType \in Kinds \cup {"none"} /\ sdStatus \in {0, STA_NOINIT}
  /\ tries \in Nat /\ asked \in Nat \X (Nat \ {0})
  /\ reply \in Seq(Nat \cup {Garbage})
  /\ trusted \in BOOLEAN

\* The request MMC_disk_read is working on
op == IF sdpc \in {"token", "data"} THEN asked ELSE <<>>

\* The driver keeps the promise of a block device: for MMC_disk_read, RES_OK
\* with another sector than the one asked for needs a card that was late or
\* was taken out before, or a high capacity card.
Device == INSTANCE BlockDevice
ImplementsDevice == Device!Spec

\* The status is 0 (SD.c:103) only for a card that has left its idle state
\* and, being addressed by bytes, has been given its block length - unless it
\* was taken out or was late since.
StatusTruthful ==
  sdStatus = 0 /\ trusted /\ sdpc = "idle" =>
    slot # "none" /\ mode = "ready" /\ sdType \in {"v1", "sc"}
=============================================================================
