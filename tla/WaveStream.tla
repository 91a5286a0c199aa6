----------------------------- MODULE WaveStream -----------------------------
(***************************************************************************)
(* What ram_wav_update promises to the look-up RAM: the chunks of a file   *)
(* in their order, from the first again behind the last, as long as the    *)
(* file is wanted, and silence when it is not - from a card that can be    *)
(* trusted.  From another one chunks of anything, but no chunk of a file   *)
(* that is not wanted.                                                     *)
(***************************************************************************)
EXTENDS Naturals

CONSTANTS
  First,       \* where the samples begin in the file
  End,         \* the file is over from here on
  After(_),    \* After(p): the place behind the chunk at p
  Bytes(_)     \* Bytes(p): the chunk at p

VARIABLES
  wanted,      \* a file is selected
  open,        \* it has been opened
  place,       \* the place of its next chunk
  half,        \* the last chunk, and where it was read, or silence: << >>
  trusted

streamVars == <<wanted, open, place, half, trusted>>

Init ==
  /\ wanted = FALSE /\ open = FALSE /\ place = First /\ half = <<>>
  /\ trusted = FALSE

\* A file is selected or stopped, or given up: it can not be found or is no
\* wave file.
Select == wanted' \in BOOLEAN /\ UNCHANGED <<open, place, half, trusted>>

Open ==
  /\ wanted /\ ~open
  /\ open' = TRUE /\ UNCHANGED <<wanted, place, half, trusted>>

\* The next chunk; the last one is followed by the first.
Refill ==
  /\ wanted /\ open /\ half' # <<>>
  /\ trusted => /\ half' = [from |-> place, bytes |-> Bytes(place)]
                /\ place' = IF After(place) >= End THEN First ELSE After(place)
  /\ UNCHANGED <<wanted, open, trusted>>

Close ==
  /\ open /\ ~wanted
  /\ open' = FALSE /\ half' = <<>> /\ place' = First /\ UNCHANGED <<wanted, trusted>>

\* The card is given a chance only while no file is open.
Initialise == ~open /\ trusted' \in BOOLEAN /\ UNCHANGED <<wanted, open, place, half>>

Distrust == trusted' = FALSE /\ UNCHANGED <<wanted, open, half>>

Next == Select \/ Open \/ Refill \/ Close \/ Initialise \/ Distrust

Spec == Init /\ [][Next]_streamVars
=============================================================================
