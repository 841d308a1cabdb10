------------------------------- MODULE MCCrc16 -------------------------------
(* The real CRC over messages of up to MaxBytes bytes.                     *)
EXTENDS Crc16
=============================================================================
