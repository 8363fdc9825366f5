----------------------------- MODULE MCPlcInput -----------------------------
(***************************************************************************)
(* PlcInput with three streams: the devices of streams 0 and 2 send early  *)
(* in a cycle, the device of stream 1 after the compute time.              *)
(***************************************************************************)
EXTENDS PlcInput, TLC

SendAt == 0 :> 1 @@ 1 :> 4 @@ 2 :> 1

ASSUME Punctuality == Punctual /\ Prompt
=============================================================================
