-------------------------- MODULE MCPressureSensor --------------------------
(***************************************************************************)
(* Small instances of PressureSensor: averages of three samples, a result  *)
(* register of sixteen values (Half = 8).  The pressures that it can hold  *)
(* here are shown as less than zero, little, the middle and more than all  *)
(* of the span, and lie on both sides of Half.                             *)
(***************************************************************************)
EXTENDS PressureSensor
=============================================================================
