---------------------------- MODULE MCUartParser ----------------------------
(* A three-valued byte: payloads of 0, 1 and 2 bytes, a two-byte buffer.   *)
EXTENDS UartParser, SequencesExt

MCUpdate(crc, byte) == (3 * crc + byte + 1) % 9
MCCompute(bytes) == FoldLeft(MCUpdate, kInit, bytes)
=============================================================================
