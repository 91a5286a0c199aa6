------------------------------- MODULE SpiDma -------------------------------
(***************************************************************************)
(* SPI_DMA_Interface.v while the DMA controller reads a block of the card: *)
(* a read is accepted, eight bits are clocked in, the byte is answered.    *)
(* Between two reads the controller may hold the bus or let go of it, and  *)
(* then the CPU's idle lines reach the card.  One step is one clock.       *)
(*                                                                         *)
(* The contents of the card are the positions of its bits: it shows bit    *)
(* `pos` and goes on to the next when SCLK falls.                          *)
(***************************************************************************)
EXTENDS Integers

CONSTANTS
  Length,         \* bytes of the transfer (512 in SD.c)
  CounterWrap     \* 2^32: counter is a reg [31:0]

ASSUME SpiDmaAssumption ==
  /\ Length \in Nat
  /\ CounterWrap \in Nat /\ CounterWrap > 2 /\ CounterWrap % 2 = 0

VARIABLES
  issued,                                   \* DMA: reads accepted
  waitrequest, readdatavalid, readdata,     \* o_dma_in_...
  data, dataReady, counter, bitIndex,
  sclk,                                     \* o_spi_SCLK
  pos,                                      \* the card
  answered                                  \* bytes answered (history)

spiVars == <<issued, waitrequest, readdatavalid, readdata, data, dataReady,
             counter, bitIndex, sclk, pos, answered>>

Blank == [i \in 0 .. 7 |-> 0]

\* The card has sent its token, the CPU has left SCLK low.
SpiInit ==
  /\ issued = 0 /\ waitrequest = FALSE /\ readdatavalid = FALSE /\ readdata = Blank
  /\ data = Blank /\ dataReady = FALSE /\ counter = 0 /\ bitIndex = 0
  /\ sclk = FALSE /\ pos = 0 /\ answered = 0

\* The card's answer to the clock line
Shift == pos' = IF sclk /\ ~sclk' THEN pos + 1 ELSE pos

-----------------------------------------------------------------------------
\* Read request, taken in the clock in which waitrequest is low.
AcceptRead ==
  /\ ~waitrequest /\ issued < Length
  /\ issued' = issued + 1
  /\ waitrequest' = TRUE /\ dataReady' = FALSE /\ sclk' = FALSE
  /\ readdatavalid' = FALSE
  /\ Shift /\ UNCHANGED <<readdata, data, counter, bitIndex, answered>>

\* No request, and the last byte was answered in the clock before.
EndAnswer ==
  /\ ~waitrequest /\ readdatavalid
  /\ readdatavalid' = FALSE
  /\ UNCHANGED <<issued, waitrequest, readdata, data, dataReady, counter, bitIndex,
                 sclk, pos, answered>>

\* No request, but the DMA controller keeps the chip select.
Hold == ~waitrequest /\ ~readdatavalid /\ UNCHANGED spiVars

\* Deselected: everything is cleared and SCLK is the CPU's.
Deselected ==
  /\ ~waitrequest /\ ~readdatavalid
  /\ data' = Blank /\ dataReady' = FALSE /\ counter' = 0 /\ bitIndex' = 0
  /\ sclk' = FALSE
  /\ Shift /\ UNCHANGED <<issued, waitrequest, readdatavalid, readdata, answered>>

Sampling == counter % 2 = 0 /\ counter # 0

Count == counter' = (counter + 1) % CounterWrap

\* SCLK rises and the bit is taken ...
TakeBit ==
  /\ waitrequest /\ ~dataReady /\ Sampling /\ bitIndex < 8 /\ ~sclk
  /\ data' = [data EXCEPT ![7 - bitIndex] = pos] /\ bitIndex' = bitIndex + 1
  /\ sclk' = TRUE
  /\ Count /\ Shift
  /\ UNCHANGED <<issued, waitrequest, readdatavalid, readdata, dataReady, answered>>

\* ... or it falls.
DropClock ==
  /\ waitrequest /\ ~dataReady /\ Sampling /\ bitIndex < 8 /\ sclk
  /\ sclk' = FALSE
  /\ Count /\ Shift
  /\ UNCHANGED <<issued, waitrequest, readdatavalid, readdata, data, dataReady,
                 bitIndex, answered>>

\* mutant: a byte is over after seven bits
EndByteEarly ==
  /\ waitrequest /\ ~dataReady /\ Sampling /\ bitIndex >= 7
  /\ dataReady' = TRUE /\ bitIndex' = 0
  /\ Count
  /\ UNCHANGED <<issued, waitrequest, readdatavalid, readdata, data, sclk, pos, answered>>

EndByte ==
  /\ waitrequest /\ ~dataReady /\ Sampling /\ bitIndex >= 8
  /\ dataReady' = TRUE /\ bitIndex' = 0
  /\ Count
  /\ UNCHANGED <<issued, waitrequest, readdatavalid, readdata, data, sclk, pos, answered>>

Divide ==
  /\ waitrequest /\ ~dataReady /\ ~Sampling
  /\ Count
  /\ UNCHANGED <<issued, waitrequest, readdatavalid, readdata, data, dataReady,
                 bitIndex, sclk, pos, answered>>

AnswerRead ==
  /\ waitrequest /\ dataReady
  /\ readdata' = data /\ waitrequest' = FALSE /\ readdatavalid' = TRUE
  /\ answered' = answered + 1
  /\ UNCHANGED <<issued, data, dataReady, counter, bitIndex, sclk, pos>>

ReadBits == TakeBit \/ DropClock \/ EndByte \/ Divide \/ AnswerRead

SpiNext == AcceptRead \/ EndAnswer \/ Hold \/ Deselected \/ ReadBits

SpiSpec == SpiInit /\ [][SpiNext]_spiVars

-----------------------------------------------------------------------------
(* Properties *)

Byte == [0 .. 7 -> Nat]

\* The registers have their types.
SpiTypeOK ==
  /\ issued \in Nat /\ answered \in Nat /\ pos \in Nat
  /\ waitrequest \in BOOLEAN /\ readdatavalid \in BOOLEAN /\ dataReady \in BOOLEAN
  /\ readdata \in Byte /\ data \in Byte
  /\ counter \in 0 .. CounterWrap - 1 /\ bitIndex \in 0 .. 8
  /\ sclk \in BOOLEAN

\* The n-th byte the DMA controller gets is made of the card's bits from
\* 8(n-1) on, most significant first: none is lost or read twice, whether the
\* bus was held or let go between the bytes, however the clock divider stands
\* when a byte begins (it is cleared only when deselected), and also when the
\* divider's counter wraps.  When the bus is the CPU's again, the card stands
\* at the bit after the last byte: what SD.c reads next is the CRC.
BytesInOrder ==
  /\ readdatavalid =>
       \A i \in 0 .. 7 : readdata[7 - i] = 8 * (answered - 1) + i
  /\ ~waitrequest /\ ~readdatavalid /\ ~sclk => pos = 8 * answered
=============================================================================
