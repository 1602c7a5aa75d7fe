------------------------------- MODULE XorStream -------------------------------
(***************************************************************************)
(* stream::xor of src/stream.rs with the CheckedWriter and the read_back   *)
(* of src/verify.rs around it: how the bytes of the input meet the bytes   *)
(* of the key and reach the temporary file.  The input is read in chunks;  *)
(* the key is read along, from its start again when it repeats, or is      *)
(* cached if it is short.  The file accepts a chunk in pieces, of which a  *)
(* digest is kept, and is read back against that digest.                   *)
(*                                                                         *)
(* A byte is its position: the output is a sequence of pairs, the position *)
(* of an input byte and that of the key byte it was combined with, from 0. *)
(* Both files can grow or shrink while they are read; that their bytes can *)
(* change in place is the subject of Transform.                            *)
(***************************************************************************)
EXTENDS Integers, Sequences

CONSTANTS
    Chunk,        \* bytes per chunk
    Lengths,      \* lengths the two files can have
    MaxResizes    \* bound on the changes of a length

ASSUME ChunkAssumption == Chunk \in Nat \ {0}
ASSUME LengthsAssumption == Lengths \subseteq Nat /\ MaxResizes \in Nat

VARIABLES
    inputLen, keyLen,   \* the lengths when the files were opened
    repeat,             \* --repeat-key
    inputNow, keyNow,   \* the lengths of the two files now
    resizes,            \* changes of a length so far
    cancelled,          \* the flag CANCELLED
    faulty,             \* calls on the three files may fail, the storage may lie
    inputAt, keyAt,     \* the positions of the two file handles
    cached,             \* the whole key is in memory
    remaining,          \* input bytes still to come
    keyPos,             \* the next key byte
    n,                  \* bytes of the current chunk
    pad,                \* the key bytes gathered for it so far
    written,            \* how many bytes of it write_all has written
    output,             \* the bytes in the digest of the CheckedWriter
    file,               \* the temporary file
    back,               \* the bytes read back from it
    stage

arguments == <<inputLen, keyLen, repeat>>
world == <<inputNow, keyNow, resizes, cancelled, faulty>>
reading == <<inputAt, keyAt, cached, keyPos, n, pad>>
writing == <<remaining, written, output>>
vars == <<arguments, world, reading, writing, file, back, stage>>

Ended == {"ok", "error"}
Stages == {"begin", "chunk", "pad", "verify"} \cup Ended
Pairs == Nat \X Nat

TypeOK ==
    /\ inputLen \in Nat /\ keyLen \in Nat /\ repeat \in BOOLEAN
    /\ inputNow \in Nat /\ keyNow \in Nat /\ resizes \in Nat
    /\ cancelled \in BOOLEAN /\ faulty \in BOOLEAN
    /\ inputAt \in Nat /\ keyAt \in Nat /\ cached \in BOOLEAN
    /\ remaining \in Nat /\ keyPos \in Nat /\ n \in 0..Chunk
    /\ pad \in Seq(Nat) /\ Len(pad) <= n
    /\ written \in Nat
    /\ output \in Seq(Pairs) /\ file \in Seq(Pairs) /\ back \in Seq(Pairs)
    /\ stage \in Stages

Init ==
    /\ inputLen \in Lengths /\ keyLen \in Lengths /\ repeat \in BOOLEAN
    /\ inputNow = inputLen /\ keyNow = keyLen /\ resizes = 0
    /\ cancelled = FALSE /\ faulty \in BOOLEAN
    /\ inputAt = 0 /\ keyAt = 0 /\ cached = FALSE
    /\ remaining = inputLen /\ keyPos = 0 /\ n = 0
    /\ pad = <<>> /\ written = 0
    /\ output = <<>> /\ file = <<>> /\ back = <<>>
    /\ stage = "begin"

-----------------------------------------------------------------------------
Least(a, b) == IF a < b THEN a ELSE b

\* count positions from p on.
Positions(p, count) == [j \in 1..count |-> p + j - 1]

ArgumentsOK == keyLen > 0 /\ (repeat \/ keyLen >= inputLen)
Caches == repeat /\ keyLen <= Chunk
BeginOK == ArgumentsOK /\ (Caches => keyLen <= keyNow)

\* The checks, and the whole key read at once if it is short and repeats.
Begin ==
    /\ stage = "begin"
    /\ BeginOK
    /\ cached' = Caches
    /\ keyAt' = IF Caches THEN keyLen ELSE keyAt
    /\ stage' = "chunk"
    /\ UNCHANGED <<arguments, world, inputAt, keyPos, n, pad, writing, file, back>>

ChunkOK == ~cancelled /\ inputAt + Least(remaining, Chunk) <= inputNow

\* The next chunk of the input (read_exact).
ReadChunk ==
    /\ stage = "chunk" /\ remaining > 0
    /\ ChunkOK
    /\ n' = Least(remaining, Chunk)
    /\ inputAt' = inputAt + n'
    /\ pad' = <<>>
    /\ stage' = "pad"
    /\ UNCHANGED <<arguments, world, keyAt, cached, keyPos, writing, file, back>>

\* Mutant: key_pos is not set back, and no byte is left to take.
PosKept == keyPos

\* The key starts again: key_pos, and the handle of an uncached key.
Pos == IF keyPos = keyLen THEN 0 ELSE keyPos

\* Mutant: the handle is not moved back.
HandleUnsought == keyAt

Handle == IF keyPos = keyLen /\ ~cached THEN 0 ELSE keyAt

\* Mutant: the rest of the key, wherever the chunk ends.
TakeRestOfKey == keyLen - Pos

Take == Least(n - Len(pad), Least(keyLen - Pos, Chunk))

\* Mutant: one byte too strict.
PadOKStrict ==
    (keyPos = keyLen => repeat) /\ (cached \/ Handle + Take < keyNow)

PadOK == (keyPos = keyLen => repeat) /\ (cached \/ Handle + Take <= keyNow)

(***************************************************************************)
(* As many key bytes as there are before the key ends or the chunk is      *)
(* filled.  Cached bytes are taken at key_pos, others wherever the file    *)
(* handle stands.                                                          *)
(***************************************************************************)
FillPad ==
    /\ stage = "pad" /\ Len(pad) < n
    /\ PadOK
    /\ pad' = pad \o Positions(IF cached THEN Pos ELSE Handle, Take)
    /\ keyPos' = Pos + Take
    /\ keyAt' = IF cached THEN keyAt ELSE Handle + Take
    /\ UNCHANGED <<arguments, world, inputAt, cached, n, writing, file, back, stage>>

\* The next bytes of the chunk, each combined with its key byte.
Bytes(m) ==
    [j \in 1..m |-> <<inputAt - n + written + j - 1, pad[written + j]>>]

(***************************************************************************)
(* One turn of write_all: the file accepts m bytes of those offered, and   *)
(* CheckedWriter::write adds them to digest and count.                     *)
(***************************************************************************)
Write(m) ==
    /\ stage = "pad" /\ Len(pad) = n
    /\ file' = file \o Bytes(m)
    /\ output' = output \o Bytes(m)
    /\ written' = IF written + m = n THEN 0 ELSE written + m
    /\ remaining' = IF written + m = n THEN remaining - n ELSE remaining
    /\ stage' = IF written + m = n THEN "chunk" ELSE "pad"
    /\ UNCHANGED <<arguments, world, reading, back>>

WriteSome == \E m \in 1..n - written : Write(m)

\* require_eof: the input has not grown; check_cancel; the count is right.
EofOK == inputNow <= inputAt /\ ~cancelled /\ Len(output) = inputLen

Finish ==
    /\ stage = "chunk" /\ remaining = 0
    /\ EofOK
    /\ stage' = "verify"
    /\ UNCHANGED <<arguments, world, reading, writing, file, back>>

\* One read of read_back, up to a chunk.
ReadBack ==
    /\ stage = "verify"
    /\ ~cancelled
    /\ \E m \in 1..Least(Chunk, Len(file) - Len(back)) :
          back' = back \o [j \in 1..m |-> file[Len(back) + j]]
    /\ UNCHANGED <<arguments, world, reading, writing, file, stage>>

\* Mutant: the length is compared, not the digest.
SameLength == Len(back) = Len(output)

SameDigest == back = output

\* The read that finds the end, and the comparison.
Verified ==
    /\ stage = "verify" /\ Len(back) = Len(file)
    /\ ~cancelled /\ SameDigest
    /\ stage' = "ok"
    /\ UNCHANGED <<arguments, world, reading, writing, file, back>>

\* An error return: a check, a read that ends early, or any call that fails.
CheckFails ==
    \/ stage = "begin" /\ ~BeginOK
    \/ stage = "chunk" /\ remaining > 0 /\ ~ChunkOK
    \/ stage = "pad" /\ Len(pad) < n /\ ~PadOK
    \/ stage = "chunk" /\ remaining = 0 /\ ~EofOK
    \/ stage = "verify" /\ (cancelled \/ (Len(back) = Len(file) /\ ~SameDigest))

Fail ==
    /\ stage \notin Ended
    /\ CheckFails \/ faulty
    /\ stage' = "error"
    /\ UNCHANGED <<arguments, world, reading, writing, file, back>>

-----------------------------------------------------------------------------
stream == <<arguments, reading, writing, back, stage>>

Interrupt ==
    /\ stage \notin Ended /\ ~cancelled
    /\ cancelled' = TRUE
    /\ UNCHANGED <<inputNow, keyNow, resizes, faulty, stream, file>>

\* Another program makes one of the files longer or shorter.
Resize ==
    /\ stage \notin Ended /\ resizes < MaxResizes
    /\ resizes' = resizes + 1
    /\ \/ inputNow' \in Lengths \ {inputNow} /\ keyNow' = keyNow
       \/ keyNow' \in Lengths \ {keyNow} /\ inputNow' = inputNow
    /\ UNCHANGED <<cancelled, faulty, stream, file>>

\* A byte that is in neither file; the storage keeps it for one that was written.
Junk == <<inputLen, keyLen>>

Corrupt ==
    /\ faulty /\ stage \in {"chunk", "pad"}
    /\ \A i \in 1..Len(file) : file[i] # Junk
    /\ \E i \in 1..Len(file) : file' = [file EXCEPT ![i] = Junk]
    /\ UNCHANGED <<world, stream>>

Step == Begin \/ ReadChunk \/ FillPad \/ WriteSome \/ Finish \/ ReadBack \/ Verified \/ Fail
Next == Step \/ Interrupt \/ Resize \/ Corrupt

\* xor and read_back run until they return.
Spec == Init /\ [][Next]_vars /\ WF_vars(Step)

-----------------------------------------------------------------------------
(***************************************************************************)
(* Byte i of the output is byte i of the input combined with byte          *)
(* i % key_len of the key, wherever the chunks and the repetitions of the  *)
(* key end, whether or not the key is cached, however the files grow and   *)
(* shrink and in however many pieces a chunk is written (stream.rs:67-98). *)
(***************************************************************************)
Aligned ==
    \A i \in 1..Len(output) : output[i] = <<i - 1, (i - 1) % keyLen>>

(***************************************************************************)
(* A command goes on after read_back only with a file that is, byte for    *)
(* byte, the output, as long as the input was when it was opened: pieces   *)
(* that were not accepted and bytes the storage has changed are noticed    *)
(* (verify.rs:29-68, app.rs:128-130).  And xor does not return without an  *)
(* error if the input has grown (stream.rs:99).                            *)
(***************************************************************************)
WholeOutput ==
    [][/\ stage # "verify" /\ stage' = "verify" => inputNow <= inputLen
       /\ stage # "ok" /\ stage' = "ok" => file = output /\ Len(file) = inputLen]_vars

(***************************************************************************)
(* Left alone, xor succeeds with any key that fits: its loops get to their *)
(* end and none of its checks stands in its way.                           *)
(***************************************************************************)
Undisturbed == resizes = 0 /\ ~cancelled /\ ~faulty
FittingKeySuffices == []Undisturbed /\ ArgumentsOK => <>(stage = "ok")

\* xor ends whatever happens: every turn of its inner loop takes a byte.
EveryStreamEnds == <>(stage \in Ended)
-----------------------------------------------------------------------------
(***************************************************************************)
(* The inductive invariant behind Aligned and WholeOutput (proved in       *)
(* XorStreamProofs).  Before is what was written when the current chunk    *)
(* began, Taken how many key bytes have been used or are in the pad.       *)
(***************************************************************************)
Streaming == {"chunk", "pad"}
Before == Len(output) - written
Taken == Before + (IF stage = "pad" THEN Len(pad) ELSE 0)

\* Where the input is, and how much of it is to come.
InputPlace ==
    /\ stage \notin Ended => Before \in Nat /\ Before + remaining = inputLen
    /\ stage \in {"begin", "chunk"} => inputAt = Before /\ written = 0
    /\ stage = "pad" => inputAt = Before + n /\ n <= remaining
                        /\ (written = 0 \/ (written < n /\ Len(pad) = n))

\* Where the key is: key_pos, and with it the handle of an uncached key.
KeyPlace ==
    /\ stage = "begin" => keyPos = 0 /\ keyAt = 0 /\ output = <<>>
    /\ stage \in Streaming =>
          /\ keyLen > 0 /\ keyPos <= keyLen
          /\ Taken % keyLen = keyPos % keyLen
          /\ ~cached => keyAt = keyPos

\* The pad continues the key where the output has left it.
PadAligned ==
    stage = "pad" =>
        \A j \in 1..Len(pad) : pad[j] = (Before + j - 1) % keyLen

\* What has been read back is a beginning of the file.
ReadBackPlace ==
    /\ stage \notin Ended \cup {"verify"} => back = <<>>
    /\ stage = "verify" =>
          /\ Len(output) = inputLen
          /\ Len(back) <= Len(file)
          /\ \A j \in 1..Len(back) : back[j] = file[j]

IInv == TypeOK /\ InputPlace /\ KeyPlace /\ PadAligned /\ ReadBackPlace /\ Aligned

(***************************************************************************)
(* The safety halves of FittingKeySuffices and EveryStreamEnds (proved in  *)
(* XorStreamProofs).  While nothing disturbs the stream, the files are     *)
(* what they were, and no check has refused a key that fits.               *)
(***************************************************************************)
Untroubled ==
    Undisturbed =>
        /\ inputNow = inputLen /\ keyNow = keyLen /\ file = output
        /\ stage \in Streaming => ArgumentsOK /\ (~repeat => keyPos = Taken)
        /\ stage = "error" => ~ArgumentsOK

\* The steps that remain at most: a read, a turn of each loop for every byte,
\* one read of read_back for every byte, and three checks.
Rank ==
    CASE stage = "begin" -> 4 * inputLen + 4
      [] stage = "chunk" -> 3 * remaining + inputLen + 3
      [] stage = "pad" -> 3 * remaining + inputLen + 2 - Len(pad) - written
      [] stage = "verify" -> Len(file) - Len(back) + 1
      [] OTHER -> 0
=============================================================================
