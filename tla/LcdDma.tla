------------------------------- MODULE LcdDma -------------------------------
(***************************************************************************)
(* The way of a picture to the screen.  The main loop clears and draws the *)
(* screen buffer and starts the DMA controller (GLCD_Update); the          *)
(* controller hands LCD_DMA_Interface.v one byte after the other, which    *)
(* addresses a page of the display at every Columns bytes and writes each  *)
(* byte four times.  Nothing tells the main loop that a transfer is over.  *)
(*                                                                         *)
(* A byte is <<picture, index>>.  Outside are the DMA controller, which    *)
(* starts again with the bytes of a new request when it gets one during a  *)
(* transfer, and the display's memory.                                     *)
(***************************************************************************)
EXTENDS Naturals

CONSTANTS
  Pages,     \* pages of the display, 16
  Columns,   \* bytes on a page, 128
  Pictures   \* what the main loop draws; 0 is the cleared buffer

ASSUME LcdDmaAssumption ==
  /\ Pages \in Nat \ {0} /\ Columns \in Nat \ {0}
  /\ Pictures \subseteq Nat \ {0} /\ Pictures # {}

Size == Pages * Columns          \* 2048

VARIABLES
  drawing, scrbuf,               \* the main loop: where it is, what it drew
  left, next,                    \* DMA: bytes to send, index of the next one
  \* LCD_DMA_Interface.v
  transmitterBusy, lcdData, step, byteCounter, pageAddressSet,
  lcdPage, lcdColumn, lcdRam,    \* the display
  overlapped                     \* a transfer was begun during another one,
                                 \* and none has begun after its end (history)

mainVars      == <<drawing, scrbuf>>
dmaVars       == <<left, next>>
interfaceVars == <<transmitterBusy, lcdData, step, byteCounter, pageAddressSet>>
displayVars   == <<lcdPage, lcdColumn, lcdRam>>
lcdVars       == <<mainVars, dmaVars, interfaceVars, displayVars, overlapped>>

Noise == <<0, Size>>             \* what the display shows at power-up

\* GLCD_Init is about to call GLCD_Update.
LcdInit ==
  /\ drawing = "update" /\ scrbuf = 0
  /\ left = 0 /\ next = 0
  /\ transmitterBusy = FALSE /\ lcdData = Noise /\ step = 0
  /\ byteCounter = 0 /\ pageAddressSet = FALSE
  /\ lcdPage = 0 /\ lcdColumn = 0
  /\ lcdRam = [p \in 0 .. Pages - 1 |-> [c \in 0 .. 4 * Columns - 1 |-> Noise]]
  /\ overlapped = FALSE

-----------------------------------------------------------------------------
(* The main loop: GLCD_ClrScr, the page's draw function, GLCD_Update *)

ClrScr ==
  /\ drawing = "idle" /\ drawing' = "draw" /\ scrbuf' = 0
  /\ UNCHANGED <<dmaVars, interfaceVars, displayVars, overlapped>>

DrawPicture ==
  /\ drawing = "draw" /\ drawing' = "update" /\ scrbuf' \in Pictures
  /\ UNCHANGED <<dmaVars, interfaceVars, displayVars, overlapped>>

Transferring == left > 0 \/ transmitterBusy

\* mutant: the transfer is a byte short
UpdateShort ==
  /\ drawing = "update" /\ drawing' = "idle"
  /\ byteCounter < Size
  /\ next' = 0 /\ left' = IF transmitterBusy THEN Size ELSE Size - 1
  /\ overlapped' = Transferring
  /\ UNCHANGED <<scrbuf, interfaceVars, displayVars>>

\* Addresses, length, GO - whether or not the DMA controller is busy.  A byte
\* on its way is none of the new ones.  Bound: the pages restarts run through
\* stay in 0xB0 .. 0xFF, where one restart for a transfer is enough.
LCD_Update ==
  /\ drawing = "update" /\ drawing' = "idle"
  /\ byteCounter < Size
  /\ next' = 0 /\ left' = IF transmitterBusy THEN Size + 1 ELSE Size
  /\ overlapped' = Transferring
  /\ UNCHANGED <<scrbuf, interfaceVars, displayVars>>

-----------------------------------------------------------------------------
(* The interface: one step is 32 clocks. *)

\* A write request is taken when no byte is under way.
TakeByte ==
  /\ left > 0 /\ ~transmitterBusy
  /\ transmitterBusy' = TRUE /\ lcdData' = <<scrbuf, next>> /\ next' = next + 1
  /\ UNCHANGED <<mainVars, left, step, byteCounter, pageAddressSet, displayVars,
                 overlapped>>

\* mutant: only the first page is addressed
AddressDueOnce == byteCounter = 0 /\ ~pageAddressSet

AddressDue == byteCounter % Columns = 0 /\ ~pageAddressSet

\* Three commands to the display: 0xB0 + page, and the column's two halves.
\* Behind the last page the code is that of some other command.
SendAddress ==
  /\ transmitterBusy /\ AddressDue
  /\ lcdPage' = IF step = 0 /\ byteCounter \div Columns < Pages
                THEN byteCounter \div Columns ELSE lcdPage
  /\ lcdColumn' = IF step = 4 THEN 0 ELSE lcdColumn
  /\ step' = IF step >= 5 THEN 0 ELSE step + 1
  /\ pageAddressSet' = (step >= 5)
  /\ UNCHANGED <<mainVars, dmaVars, transmitterBusy, lcdData, byteCounter, lcdRam,
                 overlapped>>

\* Each second step writes to the display, which advances its column.
SendData ==
  /\ transmitterBusy /\ ~AddressDue /\ step < 7
  /\ step' = step + 1
  /\ IF step % 2 = 0
     THEN /\ lcdRam' = [lcdRam EXCEPT ![lcdPage][lcdColumn] = lcdData]
          /\ lcdColumn' = (lcdColumn + 1) % (4 * Columns)
     ELSE UNCHANGED <<lcdRam, lcdColumn>>
  /\ UNCHANGED <<mainVars, dmaVars, transmitterBusy, lcdData, byteCounter,
                 pageAddressSet, lcdPage, overlapped>>

\* The byte is over.  After the last one the DMA controller takes its chip
\* select back for longer than a clock: the next transfer counts from 0.
FinishByte ==
  /\ transmitterBusy /\ ~AddressDue /\ step >= 7
  /\ transmitterBusy' = FALSE /\ pageAddressSet' = FALSE /\ step' = 0
  /\ left' = left - 1
  /\ byteCounter' = IF left' = 0 THEN 0 ELSE byteCounter + 1
  /\ UNCHANGED <<mainVars, next, lcdData, displayVars, overlapped>>

Transfer == TakeByte \/ SendAddress \/ SendData \/ FinishByte

LcdNext == ClrScr \/ DrawPicture \/ LCD_Update \/ Transfer

LcdSpec == LcdInit /\ [][LcdNext]_lcdVars /\ WF_lcdVars(Transfer)

-----------------------------------------------------------------------------
(* Properties *)

Bytes == (Pictures \cup {0}) \X (0 .. Size)

\* The registers have their types; the display is written within its memory.
LcdTypeOK ==
  /\ drawing \in {"idle", "draw", "update"} /\ scrbuf \in Pictures \cup {0}
  /\ left \in 0 .. Size + 1 /\ next \in 0 .. Size
  /\ transmitterBusy \in BOOLEAN /\ lcdData \in Bytes /\ step \in 0 .. 7
  /\ byteCounter \in Nat /\ pageAddressSet \in BOOLEAN
  /\ lcdPage \in 0 .. Pages - 1 /\ lcdColumn \in 0 .. 4 * Columns - 1
  /\ lcdRam \in [0 .. Pages - 1 -> [0 .. 4 * Columns - 1 -> Bytes]]
  /\ overlapped \in BOOLEAN

\* The display holds the screen buffer, every byte four times in its place.
Shown ==
  \A p \in 0 .. Pages - 1, c \in 0 .. 4 * Columns - 1 :
    lcdRam[p][c] = <<scrbuf, p * Columns + c \div 4>>

\* After a transfer the display shows what was drawn, whenever the buffer was
\* cleared and drawn during an earlier one.  Not after GLCD_Update called
\* during a transfer: the interface counts on, and the picture is shifted.
SettledScreen ==
  drawing = "idle" /\ ~Transferring /\ ~overlapped => Shown

\* When the main loop has nothing more to draw, the display shows the last
\* picture in the end, unless its transfer was begun during another one.
ScreenCatchesUp ==
  <>[](drawing = "idle") => <>[](Shown \/ overlapped)
=============================================================================
