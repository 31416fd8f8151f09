------------------------------- MODULE MCIo61 -------------------------------
(* Model-checking instance of Io61: two-byte slots, two slots, a 5-bit     *)
(* size_t, and an input of five bytes, so that reads cross slots, a slot  *)
(* is evicted and the last slot of a file is short.                        *)
EXTENDS Io61, TLC

MC_Kinds == {ReadFile, ReadPipe, WriteFile}
MC_WriteKinds == {WriteFile}
=============================================================================
