---------------------------- MODULE MCTbsecp3I2c ----------------------------
(* The I2C bus for TLC: commands of one and two bytes, messages of up to   *)
(* three, enough commands for a late completion to meet two later ones.    *)
EXTENDS Tbsecp3I2c
===========================================================================
