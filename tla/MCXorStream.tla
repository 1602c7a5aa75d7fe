---------------------------- MODULE MCXorStream ----------------------------
(* Chunks of two bytes; inputs and keys up to three chunks and a byte. *)
EXTENDS XorStream

CONSTANT MaxLength
MCLengths == 0..MaxLength
=============================================================================
