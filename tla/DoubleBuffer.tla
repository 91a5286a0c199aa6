---------------------------- MODULE DoubleBuffer ----------------------------
(***************************************************************************)
(* What playing a file through one look-up RAM promises: a reader that     *)
(* alternates between two halves, a writer that refills only the half that *)
(* is not being read, never twice before it is read, and with consecutive  *)
(* chunks of the file (or its first chunk again, after a rewind).          *)
(***************************************************************************)
EXTENDS Naturals

CONSTANTS
  Tapes,        \* the files that can be played
  Chunk(_, _),  \* Chunk(f, k): the contents of a half, chunk k of file f
  Waveforms,    \* contents that are no chunk: regenerated shapes
  Silence,      \* a silenced half
  Blank         \* a half never written

VARIABLES
  reading,      \* the half being read
  buf,          \* [half -> contents]
  unplayed,     \* halves refilled and not read since
  tape          \* <<f, k>>: the next chunk of the file in play

dbVars == <<reading, buf, unplayed, tape>>

Idle == 1 - reading

Init ==
  /\ reading = 0
  /\ buf = [h \in {0, 1} |-> Blank]
  /\ unplayed = {}
  /\ tape[2] = 0

\* The reader goes to the other half.
Swap ==
  /\ reading' = Idle
  /\ unplayed' = unplayed \ {Idle}
  /\ UNCHANGED <<buf, tape>>

Put(contents) ==
  /\ Idle \notin unplayed
  /\ buf' = [buf EXCEPT ![Idle] = contents]
  /\ unplayed' = unplayed \cup {Idle}
  /\ UNCHANGED reading

\* The next chunk, or the first one of the same or of another file.
Refill ==
  \E f \in Tapes :
    \E k \in {0} \cup (IF f = tape[1] THEN {tape[2]} ELSE {}) :
      /\ Put(Chunk(f, k))
      /\ tape' \in {<<f, k + 1>>, <<f, 0>>}

\* The file is stopped: silence takes the place of a chunk.
Stop == Put(Silence) /\ UNCHANGED tape

\* A file that holds nothing playable is at its first chunk for ever.
Skip == /\ \E f \in Tapes : tape' = <<f, 0>>
        /\ UNCHANGED <<reading, buf, unplayed>>

\* A waveform is written over a half, played or not.
Regenerate(h) ==
  /\ \E w \in Waveforms \cup {Silence} : buf' = [buf EXCEPT ![h] = w]
  /\ unplayed' = unplayed \ {h}
  /\ UNCHANGED <<reading, tape>>

Next == Swap \/ Refill \/ Stop \/ Skip \/ \E h \in {0, 1} : Regenerate(h)

Spec == Init /\ [][Next]_dbVars
=============================================================================
