----------------------------- MODULE BlockDevice -----------------------------
(***************************************************************************)
(* What MMC_disk_initialize and MMC_disk_read promise to the file system:  *)
(* a request is answered by the sectors asked for or by an error - as long *)
(* as the device can be trusted.  It can not be any more once a request    *)
(* has failed or the card was taken out, and of several sectors only the   *)
(* first is ever promised.                                                 *)
(***************************************************************************)
EXTENDS Naturals, Sequences

CONSTANTS
  Sectors,   \* sector numbers the file system asks for
  Counts,    \* numbers of sectors it asks for at once
  Garbage    \* the contents of a buffer that holds no sector

VARIABLES
  op,        \* <<sector, count>> of the request under way, or << >>
  reply,     \* sectors the last request put into the buffer; << >>: an error
  trusted

vars == <<op, reply, trusted>>

Init == op = <<>> /\ reply = <<>> /\ trusted = FALSE

Initialise == op = <<>> /\ trusted' \in BOOLEAN /\ UNCHANGED <<op, reply>>

Ask ==
  /\ op = <<>>
  /\ op' \in Sectors \X Counts
  /\ UNCHANGED <<reply, trusted>>

Answer ==
  /\ op # <<>> /\ op' = <<>>
  /\ reply' \in [1 .. op[2] -> Nat \cup {Garbage}]
  /\ trusted => reply'[1] = op[1]
  /\ UNCHANGED trusted

Fail == op # <<>> /\ op' = <<>> /\ reply' = <<>> /\ trusted' = FALSE

\* The card is taken out, or has answered too late.
Distrust == trusted' = FALSE /\ UNCHANGED <<op, reply>>

Next == Initialise \/ Ask \/ Answer \/ Fail \/ Distrust

Spec == Init /\ [][Next]_vars
=============================================================================
