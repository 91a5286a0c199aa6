--------------------------- MODULE MCWavePlayback ---------------------------
(* Small instances of WavePlayback: the cfg files choose the generators and *)
(* the inputs the user makes.                                               *)
EXTENDS WavePlayback
=============================================================================
