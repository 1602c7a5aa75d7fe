------------------------------- MODULE Container -------------------------------
(***************************************************************************)
(* The encrypted file of stream::encrypt and stream::decrypt in            *)
(* src/stream.rs: an authenticated header, one length-prefixed record per  *)
(* chunk, an empty final record.  One file is encrypted, kept for a while  *)
(* on a storage that may damage it, and decrypted.                         *)
(*                                                                         *)
(* A byte of the plaintext is its position.  The container is a sequence   *)
(* of units: the fields of the header, the length prefixes, and the bytes  *)
(* of every record.  dryoc's secretstream is abstract: pulling succeeds    *)
(* exactly on the next record that was pushed under the same header, and   *)
(* gives back its tag and its text.                                        *)
(***************************************************************************)
EXTENDS Naturals, Sequences

CONSTANTS
    Chunk,        \* plaintext bytes of a full record
    Overhead,     \* bytes a record has more (TAG_BYTES)
    Lengths,      \* lengths the input can have
    MaxResizes,   \* bound on the changes of its length
    MaxDamages    \* bound on the damages to the container

ASSUME SizesAssumption == Chunk \in Nat \ {0} /\ Overhead \in Nat \ {0}
ASSUME BoundsAssumption ==
    Lengths \subseteq Nat /\ MaxResizes \in Nat /\ MaxDamages \in Nat

VARIABLES
    inputNow,     \* the length of the input
    inputAt,      \* how much of it has been read
    filled,       \* how much of that is in the buffer
    resizes,
    sealed,       \* the records pushed: [tag, text], and from, a ghost: where
                  \* the text begins in the input
    container,    \* the encrypted file
    damages,
    header,       \* the header decrypt has read
    at,           \* how much of the container decrypt has read
    opened,       \* the records it has pulled
    sawShort,     \* one of them was shorter than a chunk
    plain,        \* what it has written
    cancelled,    \* the flag CANCELLED
    faulty,       \* calls on the files may fail
    stage

encoder == <<inputAt, filled, sealed>>
decoder == <<header, at, opened, sawShort, plain>>
world == <<inputNow, resizes, damages, cancelled, faulty>>
vars == <<encoder, decoder, world, container, stage>>

Tags == {"MESSAGE", "FINAL"}

\* The units: magic, chunk size and stream header; a length; byte j of record i.
Header == <<<<"magic", 0, 0>>, <<"chunk size", 0, 0>>, <<"stream header", 0, 0>>>>
Length(v) == <<"length", v, 0>>
Bytes(i, count) == [j \in 1..count |-> <<"byte", i, j>>]
Junk == <<"junk", 0, 0>>
Kinds == {"magic", "chunk size", "stream header", "length", "byte", "junk"}
Units == Kinds \X Nat \X Nat

\* The values of a length prefix that matter: too small, right and too large.
Sizes == 0 .. Chunk + Overhead + 1

Encoding == {"begin", "records", "fill", "sealed"}
Decoding == {"open", "unpack", "drained"}
Stages == Encoding \cup Decoding \cup {"stored", "ok", "error"}

TypeOK ==
    /\ inputNow \in Nat /\ inputAt \in Nat /\ filled \in 0..Chunk /\ resizes \in Nat
    /\ sealed \in Seq([tag : Tags, from : Nat, text : Seq(Nat)])
    /\ \A i \in 1..Len(sealed) : Len(sealed[i].text) <= Chunk
    /\ container \in Seq(Units) /\ damages \in Nat
    /\ at \in 0..Len(container) /\ opened \in 0..Len(sealed)
    /\ sawShort \in BOOLEAN /\ plain \in Seq(Nat)
    /\ cancelled \in BOOLEAN /\ faulty \in BOOLEAN
    /\ stage \in Stages

Init ==
    /\ inputNow \in Lengths /\ inputAt = 0 /\ filled = 0 /\ resizes = 0
    /\ sealed = <<>> /\ container = <<>> /\ damages = 0
    /\ header = <<>> /\ at = 0 /\ opened = 0 /\ sawShort = FALSE /\ plain = <<>>
    /\ cancelled = FALSE /\ faulty \in BOOLEAN
    /\ stage = "begin"

-----------------------------------------------------------------------------
(* encrypt *)

WriteHeader ==
    /\ stage = "begin"
    /\ container' = Header
    /\ stage' = "records"
    /\ UNCHANGED <<encoder, decoder, world>>

Least(a, b) == IF a < b THEN a ELSE b

NextChunk ==
    /\ stage = "records"
    /\ ~cancelled
    /\ stage' = "fill"
    /\ UNCHANGED <<encoder, decoder, world, container>>

\* One read of fill: what the file has, up to the room in the buffer.
Fill ==
    /\ stage = "fill"
    /\ \E m \in 1..Least(Chunk - filled, inputNow - inputAt) :
          /\ filled' = filled + m
          /\ inputAt' = inputAt + m
    /\ UNCHANGED <<sealed, decoder, world, container, stage>>

\* Mutant: the bytes of a short read are taken for all there are.
FilledOnce == filled > 0 \/ inputNow <= inputAt

\* The buffer is full, or a read returned nothing.
Filled == filled = Chunk \/ inputNow <= inputAt

\* Mutant: the text and the byte after it.
TextOneMore == [j \in 1..filled + 1 |-> inputAt - filled + j - 1]

Text == [j \in 1..filled |-> inputAt - filled + j - 1]

PushRecord ==
    /\ stage = "fill" /\ Filled
    /\ LET tag == IF Text = <<>> THEN "FINAL" ELSE "MESSAGE"
           size == Len(Text) + Overhead
       IN  /\ sealed' = Append(sealed, [tag |-> tag, from |-> inputAt - filled,
                                        text |-> Text])
           /\ container' = container \o <<Length(size)>> \o Bytes(Len(sealed) + 1, size)
           /\ stage' = IF Text = <<>> THEN "sealed" ELSE "records"
    /\ filled' = 0
    /\ UNCHANGED <<inputAt, decoder, world>>

\* The last check_cancel; the container is kept.
Store ==
    /\ stage = "sealed"
    /\ ~cancelled
    /\ stage' = "stored"
    /\ UNCHANGED <<encoder, decoder, world, container>>

-----------------------------------------------------------------------------
(* decrypt, another invocation *)

Open ==
    /\ stage = "stored"
    /\ stage' = "open"
    /\ UNCHANGED <<encoder, decoder, world, container>>

HeaderOK ==
    /\ Len(container) >= Len(Header)
    /\ container[1] = Header[1] /\ container[2] = Header[2]

\* The stream header is any 24 bytes; the records tell if it is the right one.
ReadHeader ==
    /\ stage = "open"
    /\ HeaderOK
    /\ header' = SubSeq(container, 1, Len(Header))
    /\ at' = Len(Header)
    /\ stage' = "unpack"
    /\ UNCHANGED <<encoder, opened, sawShort, plain, world, container>>

(***************************************************************************)
(* What the next unit means as a length.  A unit that is not a length      *)
(* reads as some other number: a right one would make it that length.      *)
(***************************************************************************)
RightSize ==
    IF opened < Len(sealed) THEN {Len(sealed[opened + 1].text) + Overhead} ELSE {}

Readings ==
    IF at = Len(container) THEN {}
    ELSE LET u == container[at + 1] IN
         IF u[1] = "length" THEN {u[2]} ELSE Sizes \ RightSize

InRange(size) == size \in Overhead..Chunk + Overhead

\* The secretstream accepts these units as the next record.
Authentic(size) ==
    /\ header = Header
    /\ opened < Len(sealed)
    /\ size = Len(sealed[opened + 1].text) + Overhead
    /\ SubSeq(container, at + 2, at + 1 + size) = Bytes(opened + 1, size)

\* Mutant: a record after a short one is accepted.
SequenceUnchecked(r) == r.tag = "MESSAGE" /\ r.text # <<>>

SequenceOK(r) == r.tag = "MESSAGE" /\ r.text # <<>> /\ ~sawShort

FinalOK(r, size) == r.text = <<>> /\ at + 1 + size = Len(container)

\* Everything decrypt requires of the record at hand.
RecordOK(size) ==
    /\ InRange(size)
    /\ at + 1 + size <= Len(container)
    /\ Authentic(size)
    /\ LET r == sealed[opened + 1] IN
          IF r.tag = "FINAL" THEN FinalOK(r, size) ELSE SequenceOK(r)

PullRecord ==
    /\ stage = "unpack"
    /\ ~cancelled
    /\ \E size \in Readings :
          /\ RecordOK(size)
          /\ LET r == sealed[opened + 1] IN
                /\ plain' = plain \o r.text
                /\ sawShort' = IF r.tag = "FINAL" THEN sawShort ELSE Len(r.text) < Chunk
                /\ stage' = IF r.tag = "FINAL" THEN "drained" ELSE "unpack"
          /\ at' = at + 1 + size
          /\ opened' = opened + 1
    /\ UNCHANGED <<encoder, header, world, container>>

\* The last check_cancel.
Finish ==
    /\ stage = "drained"
    /\ ~cancelled
    /\ stage' = "ok"
    /\ UNCHANGED <<encoder, decoder, world, container>>

-----------------------------------------------------------------------------
(* Failure and the world *)

\* Mutant: at the end of a cut container decrypt waits for more.
CheckFailsWaiting ==
    \/ stage \in {"records", "sealed", "unpack", "drained"} /\ cancelled
    \/ stage = "open" /\ ~HeaderOK
    \/ stage = "unpack" /\ \E size \in Readings : ~RecordOK(size)

CheckFails ==
    \/ stage \in {"records", "sealed", "unpack", "drained"} /\ cancelled
    \/ stage = "open" /\ ~HeaderOK
    \/ stage = "unpack" /\ Readings = {}
    \/ stage = "unpack" /\ \E size \in Readings : ~RecordOK(size)

Fail ==
    /\ stage \in Encoding \cup Decoding
    /\ CheckFails \/ faulty
    /\ stage' = "error"
    /\ UNCHANGED <<encoder, decoder, world, container>>

Interrupt ==
    /\ stage \in Encoding \cup Decoding
    /\ ~cancelled
    /\ cancelled' = TRUE
    /\ UNCHANGED <<encoder, decoder, container, stage, inputNow, resizes, damages, faulty>>

Resize ==
    /\ stage \in Encoding
    /\ resizes < MaxResizes
    /\ resizes' = resizes + 1
    /\ inputNow' \in Lengths \ {inputNow}
    /\ UNCHANGED <<encoder, decoder, container, stage, damages, cancelled, faulty>>

(***************************************************************************)
(* The storage loses or repeats a part of the container, exchanges two     *)
(* neighbouring parts, or returns another unit than was written.           *)
(***************************************************************************)
Part(i, j) == SubSeq(container, i + 1, j)

Damage ==
    /\ stage = "stored"
    /\ damages < MaxDamages
    /\ damages' = damages + 1
    /\ LET end == Len(container) IN
          \/ \E i, j \in 0..end : container' = Part(0, i) \o Part(j, end)
          \/ \E i, j, k \in 0..end :
                /\ i < j /\ j < k
                /\ container' = Part(0, i) \o Part(j, k) \o Part(i, j) \o Part(k, end)
          \/ \E i \in 1..end,
                u \in {Junk} \cup {Length(v) : v \in Sizes} :
                container' = [container EXCEPT ![i] = u]
    /\ UNCHANGED <<encoder, decoder, stage, inputNow, resizes, cancelled, faulty>>

Step ==
    \/ WriteHeader \/ NextChunk \/ Fill \/ PushRecord \/ Store
    \/ ReadHeader \/ PullRecord \/ Finish \/ Fail
Next == Step \/ Open \/ Interrupt \/ Resize \/ Damage

\* encrypt runs until it returns; so does decrypt, if somebody calls it.
Spec == Init /\ [][Next]_vars /\ WF_vars(Step)

-----------------------------------------------------------------------------
(***************************************************************************)
(* Whatever has happened to the container, what decrypt writes is at every *)
(* moment a beginning of what was encrypted: nothing missing, repeated,    *)
(* out of order or unauthenticated (stream.rs:157-171).                    *)
(***************************************************************************)
DecodedInOrder ==
    /\ Len(plain) <= inputAt
    /\ \A i \in 1..Len(plain) : plain[i] = i - 1

\* The length of the container of a plaintext of this length.
Packed(length) ==
    Len(Header) + length + ((length + Chunk - 1) \div Chunk + 1) * (1 + Overhead)

(***************************************************************************)
(* A container that decrypt accepts gives back everything that was         *)
(* encrypted and is as long as encrypt makes it for that plaintext: cut,   *)
(* extended and rearranged containers, and those of an input that grew     *)
(* after its last short read, are refused (stream.rs:161-169).             *)
(***************************************************************************)
AcceptedIsExact ==
    stage = "ok" =>
        /\ Len(plain) = inputAt
        /\ Len(container) = Packed(inputAt)

(***************************************************************************)
(* An undamaged container of an input that kept still is accepted, an      *)
(* empty one and one of whole chunks included (README "authenticated       *)
(* stream", stream.rs:112-125).                                            *)
(***************************************************************************)
Undisturbed == resizes = 0 /\ damages = 0 /\ ~cancelled /\ ~faulty
RoundTrip == []Undisturbed => (stage = "open" ~> stage = "ok")

\* encrypt and decrypt both return, the one with a container or an error.
EveryPassEnds ==
    /\ <>(stage \notin Encoding)
    /\ stage \in Decoding ~> stage \notin Decoding

-----------------------------------------------------------------------------
(***************************************************************************)
(* The inductive invariant behind DecodedInOrder and AcceptedIsExact       *)
(* (proved in ContainerProofs).  EndOf(i) is where the text of record i    *)
(* ends in the input.                                                      *)
(***************************************************************************)
EndOf(i) == IF i = 0 THEN 0 ELSE sealed[i].from + Len(sealed[i].text)

\* Every record continues the one before it; only the last one is empty.
Consecutive ==
    \A i \in 1..Len(sealed) :
        /\ sealed[i].from = EndOf(i - 1) /\ EndOf(i) <= inputAt
        /\ \A j \in 1..Len(sealed[i].text) : sealed[i].text[j] = sealed[i].from + j - 1
        /\ sealed[i].tag = "FINAL" =>
              /\ sealed[i].text = <<>> /\ i = Len(sealed)
              /\ stage \notin Encoding \ {"sealed"}

\* The buffer holds what follows the last record.
BufferPlace ==
    /\ inputAt = EndOf(Len(sealed)) + filled
    /\ stage \notin {"fill", "error"} => filled = 0

\* What has been written is the text of the records opened so far.
PlainPlace ==
    /\ Len(plain) = EndOf(opened)
    /\ \A i \in 1..Len(plain) : plain[i] = i - 1

\* Before decrypt, while it takes records, and when it has found the last one.
UnpackPlace ==
    /\ stage \in Encoding \cup {"stored", "open"} => at = 0 /\ opened = 0 /\ ~sawShort
    /\ stage = "unpack" =>
          /\ at = Len(Header) + EndOf(opened) + opened * (1 + Overhead)
          /\ EndOf(opened) <= opened * Chunk
          /\ opened * Chunk < EndOf(opened) + Chunk
          /\ ~sawShort => EndOf(opened) = opened * Chunk
    /\ stage \in {"drained", "ok"} =>
          /\ opened = Len(sealed)
          /\ Len(container) = Packed(EndOf(opened))

IInv == TypeOK /\ Consecutive /\ BufferPlace /\ PlainPlace /\ UnpackPlace

(***************************************************************************)
(* The safety halves of RoundTrip and EveryPassEnds (proved in             *)
(* ContainerProofs).  Record i begins behind Place(i) units.               *)
(***************************************************************************)
Place(i) == Len(Header) + EndOf(i - 1) + (i - 1) * (1 + Overhead)
SizeOf(i) == Len(sealed[i].text) + Overhead

\* The container is the header and the records, one after the other.
LaidOut ==
    IF stage = "begin" THEN sealed = <<>>
    ELSE
        /\ Len(container) = Place(Len(sealed) + 1)
        /\ \A j \in 1..Len(Header) : container[j] = Header[j]
        /\ \A i \in 1..Len(sealed) :
              /\ Place(i) + 1 + SizeOf(i) <= Len(container)
              /\ container[Place(i) + 1] = Length(SizeOf(i))
              /\ \A j \in 1..SizeOf(i) : container[Place(i) + 1 + j] = <<"byte", i, j>>

\* A record that is not full is followed by the empty one, which ends them.
ShortIsLast ==
    /\ \A i \in 1..Len(sealed) :
          /\ sealed[i].text = <<>> => sealed[i].tag = "FINAL"
          /\ Len(sealed[i].text) < Chunk =>
                IF i < Len(sealed) THEN sealed[i + 1].text = <<>>
                ELSE stage \in {"records", "fill"} => inputNow <= inputAt /\ filled = 0
    /\ stage \in {"sealed", "stored", "open", "unpack"} =>
          Len(sealed) > 0 /\ sealed[Len(sealed)].tag = "FINAL"

\* decrypt is at a record, and behind a short one if it has seen one.
AtRecord ==
    stage = "unpack" =>
        /\ header = Header /\ opened < Len(sealed)
        /\ sawShort => opened > 0 /\ Len(sealed[opened].text) < Chunk

Smooth == LaidOut /\ ShortIsLast /\ AtRecord /\ stage # "error"
Untroubled == Undisturbed => Smooth

\* The steps that remain at most until encrypt or decrypt returns.
ToCome == IF inputAt < inputNow THEN inputNow - inputAt ELSE 0
Rank ==
    CASE stage = "begin" -> 3 * ToCome + 4
      [] stage = "records" -> 3 * ToCome + 3
      [] stage = "fill" -> 3 * ToCome + (IF filled > 0 THEN 4 ELSE 2)
      [] stage = "open" -> Len(container) + 2
      [] stage = "unpack" -> Len(container) - at + 1
      [] stage \in {"sealed", "drained"} -> 1
      [] OTHER -> 0
=============================================================================
