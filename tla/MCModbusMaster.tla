--------------------------- MODULE MCModbusMaster ---------------------------
(***************************************************************************)
(* ModbusMaster with a TCP device and two devices on one serial line.      *)
(***************************************************************************)
EXTENDS ModbusMaster, TLC

None    == [k \in Kinds |-> 0]
Wiring  == 0 :> 0 @@ 1 :> 1 @@ 2 :> 1
Sizes   == 0 :> [None EXCEPT !["coils"] = 2, !["ir"] = 1]
           @@ 1 :> [None EXCEPT !["hrRead"] = 2, !["hrWrite"] = 1]
           @@ 2 :> [None EXCEPT !["di"] = 1, !["coils"] = 1]
=============================================================================
