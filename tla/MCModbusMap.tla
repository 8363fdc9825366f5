---------------------------- MODULE MCModbusMap -----------------------------
(***************************************************************************)
(* ModbusMap with three variables of every width; of each width the PLC    *)
(* program declares one, the middle one of the wide ones.                  *)
(***************************************************************************)
EXTENDS ModbusMap

Declared == {0, 8, 16}
Words == {<<>>, <<1>>, <<3, 1, 2>>, <<2, 3, 1, 3>>}
Bits  == {<<1, 0>>, <<1, 1, 0, 1>>}
=============================================================================
