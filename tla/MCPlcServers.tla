---------------------------- MODULE MCPlcServers ----------------------------
(***************************************************************************)
(* PlcServers with two clients, one that reads and one that writes a coil. *)
(***************************************************************************)
EXTENDS PlcServers, TLC

CONSTANTS reader, writer
Kinds == reader :> "read" @@ writer :> "coil"
=============================================================================
