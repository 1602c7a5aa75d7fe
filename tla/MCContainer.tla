----------------------------- MODULE MCContainer -----------------------------
(* Chunks of two bytes, records one byte longer, inputs of up to two chunks. *)
EXTENDS Container

CONSTANT MaxLength
MCLengths == 0..MaxLength
=============================================================================
