-------------------------- MODULE MCTpmProperties --------------------------
(* Small instance of TpmProperties: each property of the TPM is 0, a      *)
(* usable value, a value that fits a uint16 but not a uint8, or one above *)
(* 65535; three InitProperties calls.                                     *)
EXTENDS TpmProperties

MCValues == {0, 2, 300, 65538}
=============================================================================
