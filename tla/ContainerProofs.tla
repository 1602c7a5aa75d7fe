---------------------------- MODULE ContainerProofs ----------------------------
(***************************************************************************)
(* What decrypt writes and what it accepts, proved for every chunk size,   *)
(* every input and any number of changes and damages (Container).          *)
(***************************************************************************)
EXTENDS Container, TLAPS

-----------------------------------------------------------------------------
(* Numbers and sequences *)

LEMMA TimesMonotone ==
    ASSUME NEW C \in Nat, NEW a \in Nat, NEW b \in Nat, a <= b
    PROVE  C * a <= C * b
<1> DEFINE d == b - a
<1>1. d \in Nat /\ b = a + d
  OBVIOUS
<1> HIDE DEF d
<1>2. C * b = C * a + C * d /\ C * d \in Nat /\ C * a \in Nat
  BY <1>1
<1> QED
  BY <1>2

\* The quotient is the number the dividend lies above.
LEMMA Quotient ==
    ASSUME NEW C \in Nat \ {0}, NEW m \in Nat, NEW x \in Nat,
           C * m <= x, x < C * m + C
    PROVE  x \div C = m
<1> DEFINE q == x \div C
<1>1. q \in Nat /\ C * q <= x /\ x < C * q + C
  OBVIOUS
<1> HIDE DEF q
<1>2. C * (q + 1) = C * q + C /\ C * (m + 1) = C * m + C
  BY <1>1
<1>3. ~(q + 1 <= m)
  <2> SUFFICES ASSUME q + 1 <= m PROVE FALSE
    OBVIOUS
  <2>1. C * (q + 1) <= C * m
    BY <1>1, TimesMonotone
  <2> QED
    BY <1>1, <1>2, <2>1
<1>4. ~(m + 1 <= q)
  <2> SUFFICES ASSUME m + 1 <= q PROVE FALSE
    OBVIOUS
  <2>1. C * (m + 1) <= C * q
    BY <1>1, TimesMonotone
  <2> QED
    BY <1>1, <1>2, <2>1
<1>5. q = m
  BY <1>1, <1>3, <1>4
<1> QED
  BY <1>5 DEF q

\* The number of chunks a plaintext of this length takes.
LEMMA ChunksOf ==
    ASSUME NEW m \in Nat, NEW e \in Nat, e <= m * Chunk, m * Chunk < e + Chunk
    PROVE  (e + Chunk - 1) \div Chunk = m
<1>1. Chunk \in Nat \ {0} /\ Chunk * m = m * Chunk /\ m * Chunk \in Nat
  BY SizesAssumption
<1> QED
  BY <1>1, Quotient

\* What a concatenation holds.
LEMMA Concatenated ==
    ASSUME NEW S, NEW s \in Seq(S), NEW t \in Seq(S)
    PROVE  /\ s \o t \in Seq(S) /\ Len(s \o t) = Len(s) + Len(t)
           /\ \A j \in 1..Len(s) : (s \o t)[j] = s[j]
           /\ \A j \in Len(s) + 1 .. Len(s) + Len(t) :
                 (s \o t)[j] = t[j - Len(s)]
OBVIOUS

\* What one more element makes of a sequence.
LEMMA Appended ==
    ASSUME NEW S, NEW s \in Seq(S), NEW e \in S
    PROVE  /\ Append(s, e) \in Seq(S) /\ Len(Append(s, e)) = Len(s) + 1
           /\ Append(s, e)[Len(s) + 1] = e
           /\ \A i \in 1..Len(s) : Append(s, e)[i] = s[i]
OBVIOUS

LEMMA EmptySequence ==
    ASSUME NEW S, NEW s \in Seq(S)
    PROVE  s = <<>> <=> Len(s) = 0
OBVIOUS

\* The units a part of the container is made of.
LEMMA HeaderUnits == Header \in Seq(Units) /\ Len(Header) = 3
<1>1. /\ <<"magic", 0, 0>> \in Units /\ <<"chunk size", 0, 0>> \in Units
      /\ <<"stream header", 0, 0>> \in Units
  BY DEF Units, Kinds
<1>2. ASSUME NEW S, NEW a \in S, NEW b \in S, NEW c \in S
      PROVE  <<a, b, c>> \in Seq(S) /\ Len(<<a, b, c>>) = 3
  BY <1>2
<1> QED
  BY <1>1, <1>2 DEF Header

LEMMA RecordUnits ==
    ASSUME NEW size \in Nat, NEW i \in Nat
    PROVE  /\ <<Length(size)>> \in Seq(Units) /\ Len(<<Length(size)>>) = 1
           /\ Bytes(i, size) \in Seq(Units) /\ Len(Bytes(i, size)) = size
<1>1. Length(size) \in Units
  BY DEF Length, Units, Kinds
<1>2. \A j \in Nat : <<"byte", i, j>> \in Units
  BY DEF Units, Kinds
<1>3. Bytes(i, size) \in [1..size -> Units]
  <2>1. \A j \in 1..size : j \in Nat
    OBVIOUS
  <2> QED
    BY <1>2, <2>1 DEF Bytes
<1>4. ASSUME NEW S, NEW a \in S
      PROVE  <<a>> \in Seq(S) /\ Len(<<a>>) = 1
  BY <1>4
<1> QED
  BY <1>1, <1>3, <1>4

-----------------------------------------------------------------------------
(* The invariant *)

LEMMA Element ==
    ASSUME NEW S, NEW s \in Seq(S), NEW i \in 1..Len(s)
    PROVE  s[i] \in S
OBVIOUS

LEMMA Records ==
    ASSUME TypeOK
    PROVE  /\ Len(sealed) \in Nat
           /\ \A i \in 1..Len(sealed) :
                 /\ sealed[i].tag \in Tags /\ sealed[i].from \in Nat
                 /\ sealed[i].text \in Seq(Nat) /\ Len(sealed[i].text) \in Nat
                 /\ Len(sealed[i].text) <= Chunk
<1> DEFINE R == [tag : Tags, from : Nat, text : Seq(Nat)]
<1>1. sealed \in Seq(R) /\ \A i \in 1..Len(sealed) : Len(sealed[i].text) <= Chunk
  BY DEF TypeOK
<1>2. \A r \in R : /\ r.tag \in Tags /\ r.from \in Nat
                  /\ r.text \in Seq(Nat) /\ Len(r.text) \in Nat
  OBVIOUS
<1> HIDE DEF R
<1>3. \A i \in 1..Len(sealed) : sealed[i] \in R
  BY <1>1, Element
<1> QED
  BY <1>1, <1>2, <1>3

\* Where texts end, as numbers.
LEMMA Ends ==
    ASSUME IInv
    PROVE  \A i \in 0..Len(sealed) : EndOf(i) \in Nat /\ EndOf(i) <= inputAt
<1>1. inputAt \in Nat /\ \A i \in 1..Len(sealed) : EndOf(i) <= inputAt
  BY DEF IInv, TypeOK, Consecutive
<1>2. \A i \in 1..Len(sealed) : sealed[i].from \in Nat /\ Len(sealed[i].text) \in Nat
  BY Records DEF IInv
<1> QED
  BY <1>1, <1>2 DEF EndOf

\* Nothing has been read or written at first.
LEMMA InitEstablishesInv == Init => IInv
<1> SUFFICES ASSUME Init PROVE IInv
  OBVIOUS
<1>1. TypeOK
  <2>1. inputNow \in Nat
    BY BoundsAssumption DEF Init
  <2>2. filled \in 0..Chunk
    BY SizesAssumption DEF Init
  <2>3. /\ \A S : <<>> \in Seq(S)
        /\ sealed = <<>> /\ container = <<>> /\ plain = <<>> /\ Len(sealed) = 0
        /\ Len(container) = 0
    BY DEF Init
  <2>4. /\ sealed \in Seq([tag : Tags, from : Nat, text : Seq(Nat)])
        /\ container \in Seq(Units) /\ plain \in Seq(Nat)
    BY <2>3
  <2>5. \A i \in 1..Len(sealed) : Len(sealed[i].text) <= Chunk
    BY <2>3
  <2>6. /\ inputAt \in Nat /\ resizes \in Nat /\ damages \in Nat
        /\ at \in 0..Len(container) /\ opened \in 0..Len(sealed)
    BY <2>3 DEF Init
  <2>7. /\ sawShort \in BOOLEAN /\ cancelled \in BOOLEAN /\ faulty \in BOOLEAN
        /\ stage \in Stages
    BY DEF Init, Stages, Encoding
  <2> QED
    BY <2>1, <2>2, <2>4, <2>5, <2>6, <2>7 DEF TypeOK
<1>2. Consecutive /\ BufferPlace /\ PlainPlace
  BY DEF Init, Consecutive, BufferPlace, PlainPlace, EndOf
<1>3. UnpackPlace
  BY DEF Init, UnpackPlace, Encoding
<1> QED
  BY <1>1, <1>2, <1>3 DEF IInv

\* Steps that neither read, push nor pull.
LEMMA FrameKeeps ==
    ASSUME IInv, UNCHANGED <<encoder, decoder>>, TypeOK', UnpackPlace',
           stage' \in Encoding \ {"sealed"} => stage \in Encoding \ {"sealed"},
           stage' \notin {"fill", "error"} => stage \notin {"fill", "error"}
    PROVE  IInv'
<1>1. Consecutive' /\ BufferPlace' /\ PlainPlace'
  BY DEF encoder, decoder, IInv, Consecutive, BufferPlace, PlainPlace, EndOf
<1> QED
  BY <1>1 DEF IInv

LEMMA WriteHeaderKeeps == ASSUME IInv, WriteHeader PROVE IInv'
<1>1. TypeOK'
  BY HeaderUnits DEF WriteHeader, IInv, TypeOK, encoder, decoder, world, Stages,
     Encoding, UnpackPlace
<1>2. UnpackPlace'
  BY DEF WriteHeader, IInv, UnpackPlace, decoder, Encoding
<1> QED
  BY <1>1, <1>2, FrameKeeps DEF WriteHeader, Encoding

LEMMA NextChunkKeeps == ASSUME IInv, NextChunk PROVE IInv' /\ filled' = 0
<1>1. TypeOK'
  BY DEF NextChunk, IInv, TypeOK, encoder, decoder, world, Stages, Encoding
<1>2. UnpackPlace'
  BY DEF NextChunk, IInv, UnpackPlace, decoder, Encoding
<1>3. filled = 0 /\ filled' = 0
  BY DEF NextChunk, IInv, BufferPlace, encoder
<1>4. Consecutive' /\ BufferPlace' /\ PlainPlace'
  BY DEF NextChunk, Encoding, encoder, decoder, IInv, Consecutive, BufferPlace,
         PlainPlace, EndOf
<1> QED
  BY <1>1, <1>2, <1>3, <1>4 DEF IInv

\* The buffer grows with what has been read.
LEMMA FillKeeps == ASSUME IInv, Fill PROVE IInv'
<1>1. PICK m \in 1..Least(Chunk - filled, inputNow - inputAt) :
         filled' = filled + m /\ inputAt' = inputAt + m
  BY DEF Fill
<1>2. /\ stage = "fill" /\ stage' = "fill"
      /\ UNCHANGED <<sealed, decoder, world, container>>
  BY DEF Fill
<1>3. /\ filled \in Nat /\ filled <= Chunk /\ inputAt \in Nat /\ inputNow \in Nat
      /\ Chunk \in Nat
  BY SizesAssumption DEF IInv, TypeOK
<1>4. m \in Nat /\ filled + m <= Chunk
  BY <1>3 DEF Least
<1>5. TypeOK'
  BY <1>1, <1>2, <1>3, <1>4 DEF IInv, TypeOK, decoder, world
<1>6. \A i \in 0..Len(sealed) : EndOf(i) \in Nat /\ EndOf(i) <= inputAt
  BY Ends
<1>10. \A i : EndOf(i)' = EndOf(i)
  BY <1>2 DEF EndOf
<1>7. Consecutive'
  <2>1. \A i \in 1..Len(sealed) : EndOf(i) <= inputAt'
    BY <1>1, <1>3, <1>4, <1>6
  <2> QED
    BY <1>10, <1>2, <2>1 DEF IInv, Consecutive
<1>8. BufferPlace'
  <2>1. Len(sealed) \in Nat
    BY Records DEF IInv
  <2>2. EndOf(Len(sealed)) \in Nat
    BY <1>6, <2>1
  <2> QED
    BY <1>10, <1>1, <1>2, <1>3, <1>4, <2>2 DEF IInv, BufferPlace
<1>9. PlainPlace' /\ UnpackPlace'
  BY <1>2 DEF IInv, PlainPlace, UnpackPlace, decoder, EndOf, Encoding
<1> QED
  BY <1>5, <1>7, <1>8, <1>9 DEF IInv

\* A record continues the text; an empty one is the last.
LEMMA PushKeeps ==
    ASSUME IInv, PushRecord, NEW N, N = Len(sealed)
    PROVE  /\ IInv'
           /\ Len(sealed') = N + 1 /\ \A i \in 1..N : sealed'[i] = sealed[i]
           /\ \A i \in 0..N : EndOf(i)' = EndOf(i)
           /\ EndOf(N + 1)' = EndOf(N) + filled
           /\ Len(sealed'[N + 1].text) = filled
           /\ sealed'[N + 1].text = <<>> <=> filled = 0
           /\ sealed'[N + 1].tag = IF filled = 0 THEN "FINAL" ELSE "MESSAGE"
           /\ container' = container \o <<Length(filled + Overhead)>>
                                     \o Bytes(N + 1, filled + Overhead)
           /\ stage' = IF filled = 0 THEN "sealed" ELSE "records"
<1>0. N = Len(sealed)
  OBVIOUS
<1> DEFINE size == filled + Overhead
           tag == IF filled = 0 THEN "FINAL" ELSE "MESSAGE"
           rec == [tag |-> tag, from |-> inputAt - filled, text |-> Text]
<1>1. /\ filled \in Nat /\ filled <= Chunk /\ inputAt \in Nat /\ N \in Nat
      /\ opened \in 0..N /\ EndOf(N) \in Nat /\ inputAt = EndOf(N) + filled
      /\ Overhead \in Nat
  <2>1. /\ filled \in Nat /\ filled <= Chunk /\ inputAt \in Nat /\ opened \in 0..N
    BY <1>0, SizesAssumption DEF IInv, TypeOK
  <2>2. N \in Nat
    BY <1>0, Records DEF IInv
  <2>3. EndOf(N) \in Nat
    BY <1>0, <2>2, Ends
  <2> QED
    BY <1>0, <2>1, <2>2, <2>3, SizesAssumption DEF IInv, BufferPlace
<1>2. /\ Text \in Seq(Nat) /\ Len(Text) = filled /\ (Text = <<>> <=> filled = 0)
      /\ \A j \in 1..filled : Text[j] = inputAt - filled + j - 1
  <2>1. \A j \in 1..filled : inputAt - filled + j - 1 \in Nat
    BY <1>1
  <2>2. Text \in Seq(Nat) /\ Len(Text) = filled
    BY <1>1, <2>1 DEF Text
  <2>3. Text = <<>> <=> Len(Text) = 0
    BY <2>2, EmptySequence
  <2> QED
    BY <1>1, <2>2, <2>3 DEF Text
<1>3. /\ stage = "fill" /\ sealed' = Append(sealed, rec)
      /\ container' = container \o <<Length(size)>> \o Bytes(N + 1, size)
      /\ stage' = IF filled = 0 THEN "sealed" ELSE "records"
      /\ filled' = 0 /\ inputAt' = inputAt /\ UNCHANGED <<decoder, world>>
  BY <1>0, <1>2 DEF PushRecord
<1>4. rec \in [tag : Tags, from : Nat, text : Seq(Nat)]
  BY <1>1, <1>2 DEF Tags
<1>5. /\ sealed' \in Seq([tag : Tags, from : Nat, text : Seq(Nat)])
      /\ Len(sealed') = N + 1 /\ sealed'[N + 1] = rec
      /\ \A i \in 1..N : sealed'[i] = sealed[i]
  <2> DEFINE R == [tag : Tags, from : Nat, text : Seq(Nat)]
  <2>1. sealed \in Seq(R) /\ rec \in R
    BY <1>4 DEF IInv, TypeOK
  <2> HIDE DEF rec, R
  <2>2. /\ Append(sealed, rec) \in Seq(R)
        /\ Len(Append(sealed, rec)) = Len(sealed) + 1
        /\ Append(sealed, rec)[Len(sealed) + 1] = rec
        /\ \A i \in 1..Len(sealed) : Append(sealed, rec)[i] = sealed[i]
    BY <2>1, Appended
  <2>3. /\ sealed' \in Seq(R)
        /\ Len(sealed') = N + 1 /\ sealed'[N + 1] = rec
        /\ \A i \in 1..N : sealed'[i] = sealed[i]
    BY <1>0, <1>3, <2>2
  <2> QED
    BY <2>3 DEF R
<1>6. container' \in Seq(Units)
  <2>1. container \in Seq(Units)
    BY DEF IInv, TypeOK
  <2>2. /\ <<Length(size)>> \in Seq(Units) /\ Bytes(N + 1, size) \in Seq(Units)
    <3>1. size \in Nat /\ N + 1 \in Nat
      BY <1>1
    <3> QED
      BY <3>1, RecordUnits, Zenon
  <2>3. container \o <<Length(size)>> \in Seq(Units)
    BY <2>1, <2>2, Concatenated, Zenon
  <2> QED
    BY <1>3, <2>2, <2>3, Concatenated, Zenon
<1>7. /\ rec.tag = tag /\ rec.from = inputAt - filled /\ rec.text = Text
  OBVIOUS
<1> HIDE DEF rec, tag, size
<1>8. \A i \in 0..N : EndOf(i)' = EndOf(i)
  <2> TAKE i \in 0..N
  <2>1. i = 0 \/ i \in 1..N
    BY <1>1
  <2> QED
    BY <1>0, <1>5, <2>1 DEF EndOf
<1>9. EndOf(N + 1)' = inputAt
  <2>1. N + 1 # 0
    BY <1>1
  <2>2. EndOf(N + 1)' = sealed'[N + 1].from + Len(sealed'[N + 1].text)
    BY <2>1, Zenon DEF EndOf
  <2>3. sealed'[N + 1].from = inputAt - filled /\ Len(sealed'[N + 1].text) = filled
    BY <1>2, <1>5, <1>7, Zenon
  <2> QED
    BY <1>1, <2>2, <2>3
<1>10. TypeOK'
  <2>1. \A i \in 1..N + 1 : Len(sealed'[i].text) <= Chunk
    <3> TAKE i \in 1..N + 1
    <3>1. i \in 1..N \/ i = N + 1
      BY <1>1
    <3>2. \A k \in 1..N : Len(sealed[k].text) <= Chunk
      BY <1>0, Records DEF IInv
    <3> QED
      BY <1>1, <1>2, <1>5, <1>7, <3>1, <3>2
  <2>2. at = 0 /\ at' = 0 /\ opened' \in 0..N + 1 /\ Len(container') \in Nat
    <3>1. at = 0 /\ UNCHANGED <<at, opened>>
      BY <1>3 DEF IInv, UnpackPlace, Encoding, decoder
    <3> QED
      BY <1>1, <1>6, <3>1
  <2>3. filled' \in 0..Chunk /\ inputAt' \in Nat
    BY <1>1, <1>3, SizesAssumption
  <2>4. inputNow' \in Nat /\ resizes' \in Nat /\ damages' \in Nat
    BY <1>3 DEF IInv, TypeOK, world
  <2>5. /\ sawShort' \in BOOLEAN /\ plain' \in Seq(Nat)
        /\ cancelled' \in BOOLEAN /\ faulty' \in BOOLEAN
    BY <1>3 DEF IInv, TypeOK, world, decoder
  <2>6. stage' \in Stages
    BY <1>3 DEF Stages, Encoding
  <2>7. \A i \in 1..Len(sealed') : Len(sealed'[i].text) <= Chunk
    BY <1>5, <2>1
  <2>8. at' \in 0..Len(container') /\ opened' \in 0..Len(sealed')
    BY <1>5, <2>2
  <2> QED
    BY <1>5, <1>6, <2>3, <2>4, <2>5, <2>6, <2>7, <2>8 DEF TypeOK
<1>11. Consecutive'
  <2>1. ASSUME NEW i \in 1..N
        PROVE  /\ sealed'[i].from = EndOf(i - 1)' /\ EndOf(i)' <= inputAt'
               /\ \A j \in 1..Len(sealed'[i].text) :
                     sealed'[i].text[j] = sealed'[i].from + j - 1
               /\ sealed'[i].tag # "FINAL"
    <3>1. i \in 0..N /\ i - 1 \in 0..N
      BY <1>1
    <3>2. /\ sealed[i].from = EndOf(i - 1) /\ EndOf(i) <= inputAt
          /\ \A j \in 1..Len(sealed[i].text) :
                sealed[i].text[j] = sealed[i].from + j - 1
          /\ sealed[i].tag # "FINAL"
      BY <1>0, <1>1, <1>3 DEF IInv, Consecutive, Encoding
    <3> QED
      BY <1>3, <1>5, <1>8, <3>1, <3>2
  <2>2. /\ sealed'[N + 1].from = EndOf(N)' /\ EndOf(N + 1)' <= inputAt'
        /\ \A j \in 1..Len(sealed'[N + 1].text) :
              sealed'[N + 1].text[j] = sealed'[N + 1].from + j - 1
        /\ sealed'[N + 1].tag = "FINAL" => sealed'[N + 1].text = <<>> /\ filled = 0
    BY <1>1, <1>2, <1>3, <1>5, <1>7, <1>8, <1>9 DEF tag
  <2>3. ASSUME NEW i \in 1..N + 1
        PROVE  i \in 1..N \/ (i = N + 1 /\ i - 1 = N)
    BY <1>1
  <2>4. filled = 0 => stage' \notin Encoding \ {"sealed"}
    BY <1>3 DEF Encoding
  <2> QED
    BY <1>5, <2>1, <2>2, <2>3, <2>4 DEF Consecutive
<1>12. BufferPlace'
  BY <1>1, <1>3, <1>5, <1>9 DEF BufferPlace
<1>13. PlainPlace' /\ UnpackPlace'
  <2>1. at = 0 /\ opened = 0 /\ ~sawShort /\ UNCHANGED <<at, opened, sawShort, plain>>
    BY <1>3 DEF IInv, UnpackPlace, Encoding, decoder
  <2>2. PlainPlace'
    BY <2>1 DEF IInv, PlainPlace, EndOf
  <2> QED
    BY <1>3, <2>1, <2>2 DEF UnpackPlace, Encoding
<1>14. IInv'
  BY <1>10, <1>11, <1>12, <1>13 DEF IInv
<1>15. /\ Len(sealed'[N + 1].text) = filled
       /\ sealed'[N + 1].text = <<>> <=> filled = 0
       /\ sealed'[N + 1].tag = IF filled = 0 THEN "FINAL" ELSE "MESSAGE"
  BY <1>2, <1>5, <1>7, Zenon DEF tag
<1>16. EndOf(N + 1)' = EndOf(N) + filled
  BY <1>1, <1>9
<1>17. container' = container \o <<Length(filled + Overhead)>> \o Bytes(N + 1, filled + Overhead)
  BY <1>3 DEF size
<1> QED
  BY <1>3, <1>5, <1>8, <1>14, <1>15, <1>16, <1>17, Zenon

LEMMA StoreKeeps == ASSUME IInv, Store PROVE IInv'
<1>1. TypeOK'
  BY DEF Store, IInv, TypeOK, encoder, decoder, world, Stages
<1>2. UnpackPlace'
  BY DEF Store, IInv, UnpackPlace, decoder, Encoding
<1> QED
  BY <1>1, <1>2, FrameKeeps DEF Store, Encoding

LEMMA OpenKeeps == ASSUME IInv, Open PROVE IInv'
<1>1. TypeOK'
  BY DEF Open, IInv, TypeOK, encoder, decoder, world, Stages, Decoding
<1>2. UnpackPlace'
  BY DEF Open, IInv, UnpackPlace, decoder, Encoding
<1> QED
  BY <1>1, <1>2, FrameKeeps DEF Open, Encoding

LEMMA FinishKeeps == ASSUME IInv, Finish PROVE IInv'
<1>1. TypeOK'
  BY DEF Finish, IInv, TypeOK, encoder, decoder, world, Stages
<1>2. UnpackPlace'
  BY DEF Finish, IInv, UnpackPlace, encoder, decoder, Encoding, EndOf
<1> QED
  BY <1>1, <1>2, FrameKeeps DEF Finish, Encoding

LEMMA FailKeeps == ASSUME IInv, Fail PROVE IInv'
<1>1. TypeOK'
  BY DEF Fail, IInv, TypeOK, encoder, decoder, world, Stages
<1>2. UnpackPlace'
  BY DEF Fail, UnpackPlace, Encoding
<1> QED
  BY <1>1, <1>2, FrameKeeps DEF Fail, Encoding

LEMMA InterruptKeeps == ASSUME IInv, Interrupt PROVE IInv'
<1>1. TypeOK'
  BY DEF Interrupt, IInv, TypeOK, encoder, decoder
<1>2. UnpackPlace'
  BY DEF Interrupt, IInv, UnpackPlace, encoder, decoder, EndOf
<1> QED
  BY <1>1, <1>2, FrameKeeps DEF Interrupt

LEMMA ResizeKeeps == ASSUME IInv, Resize PROVE IInv'
<1>1. TypeOK'
  BY BoundsAssumption DEF Resize, IInv, TypeOK, encoder, decoder
<1>2. UnpackPlace'
  BY DEF Resize, IInv, UnpackPlace, encoder, decoder, EndOf
<1> QED
  BY <1>1, <1>2, FrameKeeps DEF Resize

\* Whatever the storage returns is a sequence of units.
LEMMA DamageKeeps == ASSUME IInv, Damage PROVE IInv'
<1> DEFINE end == Len(container)
<1>1. container \in Seq(Units) /\ end \in Nat
  BY DEF IInv, TypeOK
<1>2. \A i, j \in 0..end : Part(i, j) \in Seq(Units)
  BY <1>1 DEF Part
<1>3. \A s, t \in Seq(Units) : s \o t \in Seq(Units)
  BY Concatenated
<1>4. 0 \in 0..end /\ end \in 0..end
  BY <1>1
<1>5. \A u \in {Junk} \cup {Length(v) : v \in Sizes} : u \in Units
  <2>1. Junk \in Units /\ \A v \in Nat : Length(v) \in Units
    BY DEF Junk, Length, Units, Kinds
  <2>2. \A v \in Sizes : v \in Nat
    BY SizesAssumption DEF Sizes
  <2> QED
    BY <2>1, <2>2
<1>6. container' \in Seq(Units)
  <2>1. CASE \E i, j \in 0..end : container' = Part(0, i) \o Part(j, end)
    BY <1>2, <1>3, <1>4, <2>1
  <2>2. CASE \E i, j, k \in 0..end :
                container' = Part(0, i) \o Part(j, k) \o Part(i, j) \o Part(k, end)
    <3>1. PICK i \in 0..end, j \in 0..end, k \in 0..end :
             container' = Part(0, i) \o Part(j, k) \o Part(i, j) \o Part(k, end)
      BY <2>2
    <3>2. /\ Part(0, i) \in Seq(Units) /\ Part(j, k) \in Seq(Units)
          /\ Part(i, j) \in Seq(Units) /\ Part(k, end) \in Seq(Units)
      BY <1>2, <1>4
    <3> HIDE DEF end
    <3>3. Part(0, i) \o Part(j, k) \in Seq(Units)
      BY <1>3, <3>2
    <3>4. Part(0, i) \o Part(j, k) \o Part(i, j) \in Seq(Units)
      BY <1>3, <3>2, <3>3
    <3> QED
      BY <1>3, <3>1, <3>2, <3>4
  <2>3. CASE \E i \in 1..end, u \in {Junk} \cup {Length(v) : v \in Sizes} :
                container' = [container EXCEPT ![i] = u]
    <3>1. PICK i \in 1..end, u \in {Junk} \cup {Length(v) : v \in Sizes} :
             container' = [container EXCEPT ![i] = u]
      BY <2>3
    <3>2. u \in Units
      BY <1>5
    <3>3. ASSUME NEW S, NEW s \in Seq(S), NEW e \in S, NEW k \in 1..Len(s)
          PROVE  [s EXCEPT ![k] = e] \in Seq(S)
      OBVIOUS
    <3> QED
      BY <1>1, <3>1, <3>2, <3>3
  <2> QED
    BY <2>1, <2>2, <2>3 DEF Damage
<1>7. at = 0 /\ opened = 0 /\ ~sawShort /\ stage = "stored" /\ stage' = "stored"
  BY DEF Damage, IInv, UnpackPlace
<1>8. TypeOK'
  <2>1. at' \in 0..Len(container') /\ damages' \in Nat
    BY <1>6, <1>7 DEF Damage, decoder, IInv, TypeOK
  <2> QED
    BY <1>6, <2>1 DEF Damage, IInv, TypeOK, encoder, decoder
<1>9. UnpackPlace'
  BY <1>7 DEF Damage, UnpackPlace, decoder, Encoding
<1> QED
  BY <1>8, <1>9, FrameKeeps DEF Damage

\* Decryption begins behind the header.
LEMMA ReadHeaderKeeps == ASSUME IInv, ReadHeader PROVE IInv'
<1>1. /\ at' = 3 /\ opened = 0 /\ ~sawShort /\ Len(container) >= 3 /\ Len(Header) = 3
      /\ stage = "open" /\ stage' = "unpack"
      /\ UNCHANGED <<encoder, opened, sawShort, plain, world, container>>
  BY HeaderUnits DEF ReadHeader, HeaderOK, IInv, UnpackPlace
<1>2. TypeOK'
  <2>1. at' \in 0..Len(container')
    BY <1>1 DEF IInv, TypeOK
  <2> QED
    BY <1>1, <2>1 DEF IInv, TypeOK, encoder, world, Stages, Decoding
<1>3. Consecutive' /\ BufferPlace' /\ PlainPlace'
  BY <1>1 DEF IInv, Consecutive, BufferPlace, PlainPlace, EndOf, encoder, Encoding
<1>4. UnpackPlace'
  <2>1. EndOf(opened)' = 0 /\ opened' = 0
    BY <1>1 DEF EndOf
  <2>2. 0 * (1 + Overhead) = 0 /\ 0 * Chunk = 0 /\ Chunk > 0 /\ Chunk \in Nat
    BY SizesAssumption
  <2> QED
    BY <1>1, <2>1, <2>2 DEF UnpackPlace, Encoding
<1> QED
  BY <1>2, <1>3, <1>4 DEF IInv

\* The product one record further.
LEMMA OneMore ==
    ASSUME NEW k \in Nat, NEW c \in Nat
    PROVE  k * c \in Nat /\ (k + 1) * c = k * c + c
OBVIOUS

\* Where the next record begins.
LEMMA NextPlace ==
    ASSUME NEW h \in Nat, NEW e \in Nat, NEW n \in Nat, NEW p \in Nat, NEW o \in Nat
    PROVE  (h + e + p) + 1 + (n + o) = h + (e + n) + (p + (1 + o))
OBVIOUS

\* How the text of a record grows what has been written.
LEMMA Grown ==
    ASSUME NEW m \in Nat, NEW n \in Nat, NEW c \in Nat, n > 0, n <= c
    PROVE  /\ m + n <= m + c /\ m + c < (m + n) + c
           /\ ~(n < c) => m + n = m + c
OBVIOUS

\* The record that is pulled is the next one that was pushed.
LEMMA PullKeeps == ASSUME IInv, PullRecord PROVE IInv'
<1>k. PICK k : k = opened
  OBVIOUS
<1>r. PICK r : r = sealed[k + 1]
  OBVIOUS
<1>n. PICK n : n = Len(r.text)
  OBVIOUS
<1>e. PICK e : e = EndOf(k)
  OBVIOUS
<1>1. /\ Chunk \in Nat \ {0} /\ Overhead \in Nat /\ k \in Nat
      /\ opened \in 0..Len(sealed) /\ at \in Nat
  BY <1>k, SizesAssumption DEF IInv, TypeOK
<1>2. /\ k < Len(sealed) /\ Len(sealed) \in Nat
      /\ at' = at + 1 + (n + Overhead) /\ at' <= Len(container)
      /\ r.tag = "FINAL" => r.text = <<>> /\ at' = Len(container)
      /\ r.tag # "FINAL" => r.text # <<>> /\ ~sawShort
  <2>1. PICK size \in Readings : RecordOK(size) /\ at' = at + 1 + size
    BY DEF PullRecord
  <2>2. Len(sealed) \in Nat
    BY Records DEF IInv
  <2> QED
    BY <1>k, <1>r, <1>n, <2>1, <2>2 DEF RecordOK, Authentic, FinalOK, SequenceOK
<1>3. /\ stage = "unpack" /\ plain' = plain \o r.text /\ opened' = k + 1
      /\ sawShort' = IF r.tag = "FINAL" THEN sawShort ELSE n < Chunk
      /\ stage' = IF r.tag = "FINAL" THEN "drained" ELSE "unpack"
      /\ UNCHANGED <<encoder, header, world, container>>
  BY <1>k, <1>r, <1>n DEF PullRecord
<1>4. k + 1 \in 1..Len(sealed) /\ k \in 0..Len(sealed) /\ k + 1 \in 0..Len(sealed)
  BY <1>1, <1>2
<1>5. r.text \in Seq(Nat) /\ n \in Nat /\ n <= Chunk /\ e \in Nat
  <2>1. r.text \in Seq(Nat) /\ n \in Nat /\ n <= Chunk
    BY <1>r, <1>n, <1>4, Records DEF IInv
  <2>2. e \in Nat
    BY <1>e, <1>4, Ends
  <2> QED
    BY <2>1, <2>2
<1>6. /\ r.from = e /\ EndOf(k + 1) = e + n
      /\ \A j \in 1..n : r.text[j] = e + j - 1
      /\ r.tag = "FINAL" => k + 1 = Len(sealed)
  <2>1. (k + 1) - 1 = k /\ k + 1 # 0
    BY <1>1
  <2>2. /\ r.from = EndOf((k + 1) - 1)
        /\ \A j \in 1..n : r.text[j] = r.from + j - 1
        /\ r.tag = "FINAL" => k + 1 = Len(sealed)
    BY <1>r, <1>n, <1>4 DEF IInv, Consecutive
  <2> QED
    BY <1>r, <1>n, <1>e, <2>1, <2>2 DEF EndOf
<1>7. \A i : EndOf(i)' = EndOf(i)
  BY <1>3 DEF EndOf, encoder
<1>8. r.tag = "FINAL" => n = 0
  BY <1>n, <1>2
<1>9. r.tag # "FINAL" => n > 0
  BY <1>n, <1>2, <1>5, EmptySequence
<1>10. plain \in Seq(Nat) /\ Len(plain) = e /\ \A i \in 1..e : plain[i] = i - 1
  BY <1>k, <1>e DEF IInv, TypeOK, PlainPlace
<1>11. /\ plain' \in Seq(Nat) /\ Len(plain') = e + n
       /\ \A i \in 1..e + n : plain'[i] = i - 1
  <2>1. /\ plain' \in Seq(Nat) /\ Len(plain') = e + n
        /\ \A i \in 1..e : plain'[i] = plain[i]
        /\ \A i \in e + 1..e + n : plain'[i] = r.text[i - e]
    <3>1. /\ plain \o r.text \in Seq(Nat)
          /\ Len(plain \o r.text) = Len(plain) + Len(r.text)
          /\ \A j \in 1..Len(plain) : (plain \o r.text)[j] = plain[j]
          /\ \A j \in Len(plain) + 1 .. Len(plain) + Len(r.text) :
                (plain \o r.text)[j] = r.text[j - Len(plain)]
      <4>1. plain \in Seq(Nat) /\ r.text \in Seq(Nat)
        BY <1>5, <1>10
      <4> DEFINE text == r.text
      <4> HIDE DEF text
      <4>2. text \in Seq(Nat)
        BY <4>1 DEF text
      <4>3. /\ plain \o text \in Seq(Nat) /\ Len(plain \o text) = Len(plain) + Len(text)
            /\ \A j \in 1..Len(plain) : (plain \o text)[j] = plain[j]
            /\ \A j \in Len(plain) + 1 .. Len(plain) + Len(text) :
                  (plain \o text)[j] = text[j - Len(plain)]
        BY <4>1, <4>2, Concatenated, Zenon
      <4> QED
        BY <4>3 DEF text
    <3> QED
      BY <1>n, <1>3, <1>10, <3>1
  <2>2. ASSUME NEW i \in 1..e + n PROVE plain'[i] = i - 1
    <3>1. CASE i <= e
      BY <1>5, <1>10, <2>1, <3>1
    <3>2. CASE i > e
      <4>1. i - e \in 1..n /\ i \in e + 1..e + n /\ e + (i - e) - 1 = i - 1
        BY <1>5, <3>2
      <4> QED
        BY <1>6, <2>1, <4>1
    <3> QED
      BY <1>5, <3>1, <3>2
  <2> QED
    BY <2>1, <2>2
<1>12. TypeOK'
  <2>1. /\ opened' \in 0..Len(sealed') /\ at' \in 0..Len(container')
        /\ Len(container') \in Nat
    <3>1. sealed' = sealed /\ container' = container /\ Len(container) \in Nat
      BY <1>3 DEF encoder, IInv, TypeOK
    <3>2. at' \in Nat /\ at' <= Len(container)
      BY <1>1, <1>2, <1>5
    <3>3. opened' \in 0..Len(sealed)
      BY <1>3, <1>4
    <3> QED
      BY <3>1, <3>2, <3>3
  <2>2. sawShort' \in BOOLEAN /\ stage' \in Stages
    <3>1. sawShort \in BOOLEAN /\ (n < Chunk) \in BOOLEAN
      BY DEF IInv, TypeOK
    <3>2. CASE r.tag = "FINAL"
      BY <1>3, <3>1, <3>2 DEF Stages, Decoding
    <3>3. CASE r.tag # "FINAL"
      BY <1>3, <3>1, <3>3 DEF Stages, Decoding
    <3> QED
      BY <3>2, <3>3
  <2> QED
    BY <1>3, <1>11, <2>1, <2>2 DEF IInv, TypeOK, encoder, world
<1>13. Consecutive' /\ BufferPlace'
  BY <1>3, <1>7 DEF IInv, Consecutive, BufferPlace, encoder, Encoding
<1>14. PlainPlace'
  BY <1>3, <1>6, <1>7, <1>11 DEF PlainPlace
<1>15. UnpackPlace'
  <2>1. /\ at = Len(Header) + e + k * (1 + Overhead)
        /\ e <= k * Chunk /\ k * Chunk < e + Chunk
        /\ ~sawShort => e = k * Chunk
    BY <1>k, <1>e, <1>3 DEF IInv, UnpackPlace
  <2>2. /\ k * (1 + Overhead) \in Nat /\ k * Chunk \in Nat
        /\ (k + 1) * (1 + Overhead) = k * (1 + Overhead) + (1 + Overhead)
        /\ (k + 1) * Chunk = k * Chunk + Chunk
    <3>1. 1 + Overhead \in Nat
      BY <1>1
    <3> QED
      BY <1>1, <3>1, OneMore
  <2>3. Len(Header) \in Nat
    BY HeaderUnits
  <2>4. at' = Len(Header) + (e + n) + (k + 1) * (1 + Overhead)
    <3>1. (Len(Header) + e + k * (1 + Overhead)) + 1 + (n + Overhead)
             = Len(Header) + (e + n) + (k * (1 + Overhead) + (1 + Overhead))
      BY <1>1, <1>5, <2>2, <2>3, NextPlace
    <3> QED
      BY <1>2, <2>1, <2>2, <3>1
  <2>5. EndOf(opened)' = e + n /\ opened' = k + 1 /\ container' = container
        /\ sealed' = sealed
    BY <1>3, <1>6, <1>7 DEF encoder
  <2>6. CASE r.tag = "FINAL"
    <3>1. n = 0 /\ stage' = "drained" /\ k + 1 = Len(sealed) /\ at' = Len(container)
      BY <1>2, <1>3, <1>6, <1>8, <2>6
    <3>2. (e + Chunk - 1) \div Chunk = k
      BY <1>1, <1>5, <2>1, ChunksOf
    <3>3. Packed(e + n) = Len(Header) + e + (k + 1) * (1 + Overhead)
      BY <1>5, <3>1, <3>2 DEF Packed
    <3>4. Len(container) = Packed(e + n)
      BY <1>5, <2>4, <3>1, <3>3
    <3>5. Packed(EndOf(opened))' = Packed(e + n)
      BY <2>5 DEF Packed
    <3> QED
      BY <2>5, <3>1, <3>4, <3>5 DEF UnpackPlace, Encoding
  <2>7. CASE r.tag # "FINAL"
    <3>1. e = k * Chunk /\ n > 0 /\ stage' = "unpack" /\ sawShort' = (n < Chunk)
      BY <1>2, <1>3, <1>9, <2>1, <2>7
    <3>2. /\ e + n <= (k + 1) * Chunk /\ (k + 1) * Chunk < (e + n) + Chunk
          /\ ~(n < Chunk) => e + n = (k + 1) * Chunk
      BY <1>1, <1>5, <2>2, <3>1, Grown
    <3> QED
      BY <2>4, <2>5, <3>1, <3>2 DEF UnpackPlace, Encoding
  <2> QED
    BY <2>6, <2>7
<1> QED
  BY <1>12, <1>13, <1>14, <1>15 DEF IInv

-----------------------------------------------------------------------------
(* Every behaviour *)

LEMMA NextKeeps == ASSUME IInv, [Next]_vars PROVE IInv'
<1>1. CASE UNCHANGED vars
  BY <1>1 DEF vars, encoder, decoder, world, IInv, TypeOK, Consecutive, BufferPlace,
              PlainPlace, UnpackPlace, EndOf
<1>2. PushRecord => IInv'
  <2> PICK N : N = Len(sealed)
    OBVIOUS
  <2> QED
    BY PushKeeps
<1>3. CASE Next
  BY <1>2, <1>3, WriteHeaderKeeps, NextChunkKeeps, FillKeeps, StoreKeeps, OpenKeeps, ReadHeaderKeeps, PullKeeps, FinishKeeps, FailKeeps, InterruptKeeps,
     ResizeKeeps, DamageKeeps DEF Next, Step
<1> QED
  BY <1>1, <1>3

LEMMA Inductive == Spec => []IInv
<1>1. IInv /\ [Next]_vars => IInv'
  BY NextKeeps
<1> QED
  BY InitEstablishesInv, <1>1, PTL DEF Spec

(***************************************************************************)
(* Type correctness: no record holds more than a chunk, and decrypt never  *)
(* reads behind the end of the container nor pulls a record that was not   *)
(* pushed (stream.rs:110-127 and 148-174).                                 *)
(***************************************************************************)
THEOREM TypeCorrect == Spec => []TypeOK
<1>1. IInv => TypeOK
  BY DEF IInv
<1> QED
  BY Inductive, <1>1, PTL

(***************************************************************************)
(* What decrypt writes is at every moment a beginning of what was          *)
(* encrypted, however encrypt's reads fell and whatever happened to the    *)
(* container (stream.rs:157-171).                                          *)
(***************************************************************************)
THEOREM DecodedText == Spec => []DecodedInOrder
<1>1. ASSUME IInv PROVE DecodedInOrder
  <2>1. opened \in 0..Len(sealed)
    BY <1>1 DEF IInv, TypeOK
  <2>2. EndOf(opened) <= inputAt
    BY <1>1, <2>1, Ends
  <2> QED
    BY <1>1, <2>2 DEF IInv, PlainPlace, DecodedInOrder
<1> QED
  BY Inductive, <1>1, PTL

(***************************************************************************)
(* An accepted container gives back the whole input and has exactly the    *)
(* length encrypt gives it (stream.rs:161-169).                            *)
(***************************************************************************)
THEOREM AcceptedExact == Spec => []AcceptedIsExact
<1>1. ASSUME IInv PROVE AcceptedIsExact
  <2> SUFFICES ASSUME stage = "ok"
               PROVE  Len(plain) = inputAt /\ Len(container) = Packed(inputAt)
    BY DEF AcceptedIsExact
  <2>1. opened = Len(sealed) /\ Len(container) = Packed(EndOf(opened))
    BY <1>1 DEF IInv, UnpackPlace
  <2>2. EndOf(opened) \in Nat /\ Len(sealed) \in Nat
    <3>1. Len(sealed) \in Nat
      BY <1>1, Records DEF IInv
    <3> QED
      BY <1>1, <2>1, <3>1, Ends
  <2>3. inputAt = EndOf(opened)
    BY <1>1, <2>1, <2>2 DEF IInv, BufferPlace
  <2> QED
    BY <1>1, <2>1, <2>3 DEF IInv, PlainPlace
<1> QED
  BY Inductive, <1>1, PTL

-----------------------------------------------------------------------------
(* No refusal without a reason *)

\* Nothing has been disturbed before it is.
LEMMA UndisturbedBefore == ASSUME IInv, [Next]_vars, Undisturbed' PROVE Undisturbed
<1>1. resizes \in Nat /\ damages \in Nat
  BY DEF IInv, TypeOK
<1> QED
  BY <1>1 DEF Next, Step, WriteHeader, NextChunk, Fill, PushRecord, Store, Open, ReadHeader,
     PullRecord, Finish, Fail, Interrupt, Resize, Damage, Undisturbed, vars, world

\* Every record begins where the one before it ends.
LEMMA Places ==
    ASSUME IInv
    PROVE  /\ \A i \in 1..Len(sealed) + 1 : Place(i) \in Nat /\ Place(i) >= Len(Header)
           /\ \A i \in 1..Len(sealed) :
                 /\ SizeOf(i) \in Nat /\ SizeOf(i) <= Chunk + Overhead
                 /\ SizeOf(i) >= Overhead
                 /\ Place(i + 1) = Place(i) + 1 + SizeOf(i)
<1>1. /\ Len(sealed) \in Nat /\ Overhead \in Nat /\ Chunk \in Nat /\ Len(Header) \in Nat
      /\ 1 + Overhead \in Nat
  BY Records, SizesAssumption, HeaderUnits DEF IInv
<1>2. \A i \in 1..Len(sealed) + 1 : i - 1 \in 0..Len(sealed) /\ i - 1 \in Nat
  BY <1>1
<1>3. \A i \in 1..Len(sealed) + 1 : EndOf(i - 1) \in Nat
  BY <1>2, Ends
<1>4. \A i \in 1..Len(sealed) + 1 : (i - 1) * (1 + Overhead) \in Nat
  BY <1>1, <1>2, OneMore
<1>5. \A i \in 1..Len(sealed) + 1 : Place(i) \in Nat /\ Place(i) >= Len(Header)
  BY <1>1, <1>3, <1>4 DEF Place
<1>6. ASSUME NEW i \in 1..Len(sealed)
      PROVE  /\ SizeOf(i) \in Nat /\ SizeOf(i) <= Chunk + Overhead
             /\ SizeOf(i) >= Overhead
             /\ Place(i + 1) = Place(i) + 1 + SizeOf(i)
  <2>1. PICK k \in Nat : k = i - 1
    BY <1>1
  <2>2. k + 1 = i /\ (i + 1) - 1 = k + 1 /\ i \in 1..Len(sealed) + 1
    BY <1>1, <2>1
  <2>3. PICK l \in Nat : l = Len(sealed[i].text) /\ l <= Chunk
    BY Records DEF IInv
  <2>4. EndOf(k) \in Nat /\ EndOf(k + 1) = EndOf(k) + l
    <3>1. sealed[i].from = EndOf(i - 1)
      BY DEF IInv, Consecutive
    <3>2. EndOf(i) = sealed[i].from + Len(sealed[i].text)
      BY <1>1 DEF EndOf
    <3> QED
      BY <1>3, <2>1, <2>2, <2>3, <3>1, <3>2
  <2>5. /\ k * (1 + Overhead) \in Nat
        /\ (k + 1) * (1 + Overhead) = k * (1 + Overhead) + (1 + Overhead)
    BY <1>1, OneMore
  <2>6. SizeOf(i) = l + Overhead
    BY <2>3 DEF SizeOf
  <2>7. (Len(Header) + EndOf(k) + k * (1 + Overhead)) + 1 + (l + Overhead)
           = Len(Header) + (EndOf(k) + l) + (k * (1 + Overhead) + (1 + Overhead))
    BY <1>1, <2>4, <2>5, NextPlace
  <2>8. Place(i) = Len(Header) + EndOf(k) + k * (1 + Overhead)
    BY <2>1 DEF Place
  <2>9. Place(i + 1) = Len(Header) + EndOf(k + 1) + (k + 1) * (1 + Overhead)
    BY <2>2 DEF Place
  <2>10. Place(i + 1) = Place(i) + 1 + SizeOf(i)
    BY <2>4, <2>5, <2>6, <2>7, <2>8, <2>9
  <2>11. l + Overhead \in Nat /\ l + Overhead <= Chunk + Overhead /\ l + Overhead >= Overhead
    BY <1>1, <2>3
  <2> QED
    BY <2>6, <2>10, <2>11
<1> QED
  BY <1>5, <1>6

\* The layout is that of the container and of the records, whoever looks at them.
LEMMA LayoutFrame ==
    ASSUME LaidOut, UNCHANGED <<container, sealed>>, stage # "begin", stage' # "begin"
    PROVE  LaidOut'
BY DEF LaidOut, Place, SizeOf, EndOf

\* A part of a sequence, and when two sequences are the same.
LEMMA PartOf ==
    ASSUME NEW S, NEW s \in Seq(S), NEW a \in Nat, NEW n \in Nat, a + n <= Len(s)
    PROVE  /\ SubSeq(s, a + 1, a + n) \in Seq(S) /\ Len(SubSeq(s, a + 1, a + n)) = n
           /\ \A j \in 1..n : SubSeq(s, a + 1, a + n)[j] = s[a + j]
OBVIOUS

LEMMA SameSequence ==
    ASSUME NEW S, NEW s \in Seq(S), NEW t \in Seq(S), Len(s) = Len(t),
           \A j \in 1..Len(s) : s[j] = t[j]
    PROVE  s = t
OBVIOUS

\* What a length and a record behind it make of the container.
LEMMA Extended ==
    ASSUME NEW S, NEW c \in Seq(S), NEW u \in S, NEW b \in Seq(S)
    PROVE  /\ Len(c \o <<u>> \o b) = Len(c) + 1 + Len(b)
           /\ \A j \in 1..Len(c) : (c \o <<u>> \o b)[j] = c[j]
           /\ (c \o <<u>> \o b)[Len(c) + 1] = u
           /\ \A j \in 1..Len(b) : (c \o <<u>> \o b)[Len(c) + 1 + j] = b[j]
<1> DEFINE d == c \o <<u>>
<1>1. <<u>> \in Seq(S) /\ Len(<<u>>) = 1 /\ <<u>>[1] = u
  OBVIOUS
<1>2. /\ d \in Seq(S) /\ Len(d) = Len(c) + 1 /\ d[Len(c) + 1] = u
      /\ \A j \in 1..Len(c) : d[j] = c[j]
  BY <1>1
<1> HIDE DEF d
<1>3. /\ Len(d \o b) = Len(d) + Len(b) /\ \A j \in 1..Len(d) : (d \o b)[j] = d[j]
      /\ \A j \in Len(d) + 1 .. Len(d) + Len(b) : (d \o b)[j] = b[j - Len(d)]
  BY <1>2, Concatenated, Zenon
<1>4. Len(c) \in Nat /\ Len(b) \in Nat
  OBVIOUS
<1>5. \A j \in 1..Len(b) : (d \o b)[Len(c) + 1 + j] = b[j]
  <2> TAKE j \in 1..Len(b)
  <2>1. Len(c) + 1 + j \in Len(d) + 1 .. Len(d) + Len(b) /\ (Len(c) + 1 + j) - Len(d) = j
    BY <1>2, <1>4
  <2> QED
    BY <1>3, <2>1
<1>6. \A j \in 1..Len(c) : (d \o b)[j] = c[j]
  <2> TAKE j \in 1..Len(c)
  <2>1. j \in 1..Len(d)
    BY <1>2, <1>4
  <2> QED
    BY <1>2, <1>3, <2>1
<1>7. (d \o b)[Len(c) + 1] = u
  <2>1. Len(c) + 1 \in 1..Len(d)
    BY <1>2, <1>4
  <2> QED
    BY <1>2, <1>3, <2>1
<1>8. Len(d \o b) = Len(c) + 1 + Len(b)
  BY <1>2, <1>3, <1>4
<1> QED
  BY <1>5, <1>6, <1>7, <1>8 DEF d

\* A laid-out container has none of the faults decrypt looks for.
LEMMA NoRefusal == ASSUME IInv, Smooth, Undisturbed PROVE ~CheckFails
<1>1. Len(sealed) \in Nat /\ Overhead \in Nat /\ Chunk \in Nat /\ container \in Seq(Units)
  BY Records, SizesAssumption DEF IInv, TypeOK
<1>2. /\ \A i \in 1..Len(sealed) + 1 : Place(i) \in Nat /\ Place(i) >= Len(Header)
      /\ \A i \in 1..Len(sealed) :
            /\ SizeOf(i) \in Nat /\ SizeOf(i) <= Chunk + Overhead /\ SizeOf(i) >= Overhead
            /\ Place(i + 1) = Place(i) + 1 + SizeOf(i)
  BY Places
<1>3. stage = "open" => HeaderOK
  <2> SUFFICES ASSUME stage = "open" PROVE HeaderOK
    OBVIOUS
  <2>1. /\ Len(container) = Place(Len(sealed) + 1)
        /\ \A j \in 1..Len(Header) : container[j] = Header[j]
    BY DEF Smooth, LaidOut
  <2>2. Len(Header) = 3 /\ Len(sealed) + 1 \in 1..Len(sealed) + 1
    BY <1>1, HeaderUnits
  <2>3. Len(container) >= Len(Header)
    BY <1>2, <2>1, <2>2
  <2> QED
    BY <2>1, <2>2, <2>3 DEF HeaderOK
<1>4. ASSUME stage = "unpack"
      PROVE  Readings # {} /\ \A size \in Readings : RecordOK(size)
  <2>1. PICK i : i = opened + 1
    OBVIOUS
  <2>2. i \in 1..Len(sealed) /\ opened < Len(sealed) /\ opened \in Nat /\ i - 1 = opened
    <3>1. opened \in 0..Len(sealed) /\ opened < Len(sealed)
      BY <1>4 DEF Smooth, AtRecord, IInv, TypeOK
    <3> QED
      BY <1>1, <2>1, <3>1
  <2>3. PICK size \in Nat : size = SizeOf(i)
    BY <1>2, <2>2
  <2>4. at = Place(i) /\ at \in Nat
    BY <1>2, <1>4, <2>2 DEF IInv, UnpackPlace, Place
  <2>5. /\ at + 1 + size <= Len(container)
        /\ container[at + 1] = Length(size)
        /\ \A j \in 1..size : container[at + 1 + j] = <<"byte", i, j>>
    BY <1>4, <2>2, <2>3, <2>4 DEF Smooth, LaidOut
  <2>6. Readings = {size}
    <3>1. at # Len(container)
      BY <1>1, <2>3, <2>4, <2>5
    <3>2. Length(size)[1] = "length" /\ Length(size)[2] = size
      BY DEF Length
    <3> QED
      BY <2>5, <3>1, <3>2 DEF Readings
  <2>7. InRange(size)
    BY <1>1, <1>2, <2>2, <2>3 DEF InRange
  <2>8. Authentic(size)
    <3>1. Bytes(i, size) \in Seq(Units) /\ Len(Bytes(i, size)) = size
      BY <2>2, <2>3, RecordUnits
    <3>2. \A j \in 1..size : Bytes(i, size)[j] = <<"byte", i, j>>
      BY DEF Bytes
    <3> DEFINE part == SubSeq(container, (at + 1) + 1, (at + 1) + size)
    <3>3. /\ part \in Seq(Units) /\ Len(part) = size
          /\ \A j \in 1..size : part[j] = container[(at + 1) + j]
      <4>1. at + 1 \in Nat /\ (at + 1) + size <= Len(container)
        BY <2>3, <2>4, <2>5
      <4> QED
        BY <1>1, <2>3, <4>1, PartOf
    <3>4. part = SubSeq(container, at + 2, at + 1 + size)
      <4>1. (at + 1) + 1 = at + 2
        BY <2>4
      <4> QED
        BY <4>1
    <3> HIDE DEF part
    <3>5. \A j \in 1..size : part[j] = Bytes(i, size)[j]
      BY <2>5, <3>2, <3>3
    <3>6. part = Bytes(i, size)
      BY <3>1, <3>3, <3>5, SameSequence
    <3> QED
      BY <1>4, <2>1, <2>2, <2>3, <3>4, <3>6 DEF Authentic, Smooth, AtRecord, SizeOf
  <2>9. CASE sealed[i].tag = "FINAL"
    <3>1. sealed[i].text = <<>> /\ i = Len(sealed)
      BY <2>2, <2>9 DEF IInv, Consecutive
    <3>2. at + 1 + size = Len(container)
      BY <1>2, <1>4, <2>2, <2>3, <2>4, <3>1 DEF Smooth, LaidOut
    <3> QED
      BY <2>1, <2>5, <2>6, <2>7, <2>8, <2>9, <3>1, <3>2 DEF RecordOK, FinalOK
  <2>10. CASE sealed[i].tag # "FINAL"
    <3>1. sealed[i].text # <<>> /\ sealed[i].tag = "MESSAGE"
      <4>1. sealed[i].tag \in Tags
        BY <2>2, Records DEF IInv
      <4> QED
        BY <2>2, <2>10, <4>1 DEF Smooth, ShortIsLast, Tags
    <3>2. ~sawShort
      <4>1. SUFFICES ASSUME sawShort PROVE FALSE
        OBVIOUS
      <4>2. opened \in 1..Len(sealed) /\ Len(sealed[opened].text) < Chunk
        BY <1>1, <1>4, <2>2, <4>1 DEF Smooth, AtRecord
      <4>3. sealed[opened + 1].text = <<>>
        BY <2>2, <4>2 DEF Smooth, ShortIsLast
      <4> QED
        BY <2>1, <3>1, <4>3
    <3> QED
      BY <2>1, <2>5, <2>6, <2>7, <2>8, <2>10, <3>1, <3>2 DEF RecordOK, SequenceOK
  <2> QED
    BY <2>6, <2>9, <2>10
<1> QED
  BY <1>3, <1>4 DEF CheckFails, Undisturbed


\* The header begins the container.
LEMMA WriteHeaderSmooth == ASSUME IInv, Smooth, WriteHeader PROVE Smooth'
<1>1. /\ stage = "begin" /\ stage' = "records" /\ container' = Header
      /\ sealed' = <<>> /\ sealed = <<>>
  BY DEF WriteHeader, encoder, Smooth, LaidOut
<1>2. Len(sealed) = 0 /\ Len(sealed') = 0
  BY <1>1
<1>3. LaidOut'
  <2>1. Place(1)' = Len(Header) + 0 + 0 * (1 + Overhead)
    BY DEF Place, EndOf
  <2>2. Place(1)' = Len(Header)
    BY <2>1, HeaderUnits, SizesAssumption
  <2>3. Place(Len(sealed) + 1)' = Place(1)'
    BY <1>2
  <2> QED
    BY <1>1, <1>2, <2>2, <2>3 DEF LaidOut
<1> QED
  BY <1>1, <1>2, <1>3 DEF Smooth, ShortIsLast, AtRecord

\* Reading goes on only where no record was short.
LEMMA FillSmooth == ASSUME IInv, Smooth, NextChunk \/ Fill PROVE Smooth'
<1>1. /\ stage \in {"records", "fill"} /\ stage' = "fill"
      /\ UNCHANGED <<container, sealed, inputNow>>
  BY DEF NextChunk, Fill, encoder, world
<1>2. inputNow <= inputAt /\ filled = 0 => inputNow <= inputAt' /\ filled' = 0
  <2>1. CASE NextChunk
    BY <2>1 DEF NextChunk, encoder
  <2>2. CASE Fill
    <3>1. PICK m \in 1..Least(Chunk - filled, inputNow - inputAt) : TRUE
      BY <2>2 DEF Fill
    <3>2. ~(inputNow <= inputAt)
      BY <3>1, SizesAssumption DEF Least, IInv, TypeOK
    <3> QED
      BY <3>2
  <2> QED
    BY <2>1, <2>2
<1>3. LaidOut'
  BY <1>1, LayoutFrame DEF Smooth
<1>4. ShortIsLast'
  BY <1>1, <1>2 DEF Smooth, ShortIsLast
<1> QED
  BY <1>1, <1>3, <1>4 DEF Smooth, AtRecord

\* A record is put behind those there are; an empty one is the last.
LEMMA PushSmooth == ASSUME IInv, Smooth, Undisturbed, PushRecord PROVE Smooth'
<1> PICK N : N = Len(sealed)
  OBVIOUS
<1> DEFINE size == filled + Overhead
<1>1. /\ stage = "fill" /\ Filled /\ filled' = 0 /\ inputAt' = inputAt /\ inputNow' = inputNow
  BY DEF PushRecord, world
<1>2. /\ Len(sealed') = N + 1 /\ \A i \in 1..N : sealed'[i] = sealed[i]
      /\ \A i \in 0..N : EndOf(i)' = EndOf(i)
      /\ EndOf(N + 1)' = EndOf(N) + filled
      /\ Len(sealed'[N + 1].text) = filled
      /\ sealed'[N + 1].text = <<>> <=> filled = 0
      /\ sealed'[N + 1].tag = IF filled = 0 THEN "FINAL" ELSE "MESSAGE"
      /\ container' = container \o <<Length(size)>> \o Bytes(N + 1, size)
      /\ stage' = IF filled = 0 THEN "sealed" ELSE "records"
  BY PushKeeps
<1>3. /\ N \in Nat /\ Overhead \in Nat /\ filled \in Nat /\ size \in Nat /\ Chunk \in Nat
      /\ container \in Seq(Units) /\ filled <= Chunk
  BY Records, SizesAssumption DEF IInv, TypeOK
<1>4. /\ Length(size) \in Units /\ Bytes(N + 1, size) \in Seq(Units)
      /\ Len(Bytes(N + 1, size)) = size
      /\ \A j \in 1..size : Bytes(N + 1, size)[j] = <<"byte", N + 1, j>>
  <2>1. Length(size) \in Units
    BY <1>3 DEF Length, Units, Kinds
  <2> HIDE DEF size
  <2>2. Bytes(N + 1, size) \in Seq(Units) /\ Len(Bytes(N + 1, size)) = size
    BY <1>3, RecordUnits
  <2> QED
    BY <2>1, <2>2 DEF Bytes
<1> HIDE DEF size
<1>5. /\ Len(container) = Place(N + 1)
      /\ \A j \in 1..Len(Header) : container[j] = Header[j]
      /\ \A i \in 1..N :
            /\ Place(i) + 1 + SizeOf(i) <= Len(container)
            /\ container[Place(i) + 1] = Length(SizeOf(i))
            /\ \A j \in 1..SizeOf(i) : container[Place(i) + 1 + j] = <<"byte", i, j>>
  BY <1>1 DEF Smooth, LaidOut
<1>6. /\ Len(container') = Len(container) + 1 + size
      /\ \A j \in 1..Len(container) : container'[j] = container[j]
      /\ container'[Len(container) + 1] = Length(size)
      /\ \A j \in 1..size : container'[Len(container) + 1 + j] = <<"byte", N + 1, j>>
  <2>1. PICK b : b = Bytes(N + 1, size)
    OBVIOUS
  <2>2. PICK u : u = Length(size)
    OBVIOUS
  <2>3. b \in Seq(Units) /\ u \in Units /\ container' = container \o <<u>> \o b
    BY <1>2, <1>4, <2>1, <2>2
  <2>4. /\ Len(container') = Len(container) + 1 + Len(b)
        /\ \A j \in 1..Len(container) : container'[j] = container[j]
        /\ container'[Len(container) + 1] = u
        /\ \A j \in 1..Len(b) : container'[Len(container) + 1 + j] = b[j]
    BY <1>3, <2>3, Extended
  <2> QED
    BY <1>4, <2>1, <2>2, <2>4
<1>7. \A i \in 1..N + 1 : Place(i)' = Place(i)
  <2> TAKE i \in 1..N + 1
  <2>1. i - 1 \in 0..N
    BY <1>3
  <2> QED
    BY <1>2, <2>1 DEF Place
<1>8. (\A i \in 1..N : SizeOf(i)' = SizeOf(i)) /\ SizeOf(N + 1)' = size
  BY <1>2 DEF SizeOf, size
<1>9. /\ \A i \in 1..N + 1 : Place(i) \in Nat /\ Place(i) >= Len(Header)
      /\ \A i \in 1..N : SizeOf(i) \in Nat
  BY Places
<1>10. Place(N + 2)' = Place(N + 1)' + 1 + size
  <2>1. /\ N * (1 + Overhead) \in Nat
        /\ (N + 1) * (1 + Overhead) = N * (1 + Overhead) + (1 + Overhead)
    BY <1>3, OneMore
  <2>2. EndOf(N) \in Nat /\ Len(Header) \in Nat
    BY <1>3, Ends, HeaderUnits
  <2>3. Place(N + 1)' = Len(Header) + EndOf(N) + N * (1 + Overhead)
    <3>1. (N + 1) - 1 = N /\ N \in 0..N
      BY <1>3
    <3> QED
      BY <1>2, <3>1 DEF Place
  <2>4. Place(N + 2)' = Len(Header) + (EndOf(N) + filled) + (N + 1) * (1 + Overhead)
    <3>1. (N + 2) - 1 = N + 1
      BY <1>3
    <3> QED
      BY <1>2, <3>1 DEF Place
  <2>5. (Len(Header) + EndOf(N) + N * (1 + Overhead)) + 1 + (filled + Overhead)
           = Len(Header) + (EndOf(N) + filled) + (N * (1 + Overhead) + (1 + Overhead))
    BY <1>3, <2>1, <2>2, NextPlace
  <2> QED
    BY <2>1, <2>3, <2>4, <2>5 DEF size
<1>11. LaidOut'
  <2>1. stage' # "begin" /\ N + 1 \in 1..N + 1
    BY <1>2, <1>3
  <2>2. Len(container') = Place(Len(sealed) + 1)'
    <3>1. Len(sealed') + 1 = N + 2
      BY <1>2, <1>3
    <3>2. Len(container') = Place(N + 2)'
      BY <1>5, <1>6, <1>7, <1>10, <2>1
    <3> QED
      BY <3>1, <3>2 DEF Place
  <2>3. Len(container) \in Nat /\ Len(container) >= Len(Header) /\ Len(Header) \in Nat
    BY <1>3, <1>5, <1>9, <2>1, HeaderUnits
  <2>4. \A j \in 1..Len(Header) : container'[j] = Header[j]
    BY <1>5, <1>6, <2>3
  <2>5. ASSUME NEW i \in 1..N
        PROVE  /\ Place(i)' + 1 + SizeOf(i)' <= Len(container')
               /\ container'[Place(i)' + 1] = Length(SizeOf(i)')
               /\ \A j \in 1..SizeOf(i)' : container'[Place(i)' + 1 + j] = <<"byte", i, j>>
    <3>1. PICK p \in Nat, z \in Nat : p = Place(i) /\ z = SizeOf(i)
      BY <1>3, <1>9
    <3>2. Place(i)' = p /\ SizeOf(i)' = z
      BY <1>3, <1>7, <1>8, <3>1
    <3>3. /\ p + 1 + z <= Len(container) /\ container[p + 1] = Length(z)
          /\ \A j \in 1..z : container[p + 1 + j] = <<"byte", i, j>>
      BY <1>5, <3>1
    <3>4. p + 1 \in 1..Len(container) /\ \A j \in 1..z : p + 1 + j \in 1..Len(container)
      <4>1. p + 1 + z <= Len(container)
        BY <3>3
      <4>2. \A j \in 1..z : j \in Nat /\ j > 0 /\ j <= z
        BY <3>1
      <4> QED
        BY <2>3, <3>1, <4>1, <4>2
    <3>5. p + 1 + z <= Len(container')
      <4>1. Len(container') = Len(container) + 1 + size
        BY <1>6
      <4> QED
        BY <1>3, <2>3, <3>1, <3>3, <4>1
    <3>6. container'[p + 1] = Length(z) /\ \A j \in 1..z : container'[p + 1 + j] = <<"byte", i, j>>
      BY <1>6, <3>3, <3>4
    <3> QED
      BY <3>2, <3>5, <3>6
  <2>6. /\ Place(N + 1)' + 1 + SizeOf(N + 1)' <= Len(container')
        /\ container'[Place(N + 1)' + 1] = Length(SizeOf(N + 1)')
        /\ \A j \in 1..SizeOf(N + 1)' :
              container'[Place(N + 1)' + 1 + j] = <<"byte", N + 1, j>>
    <3>1. Place(N + 1)' = Len(container) /\ SizeOf(N + 1)' = size
      BY <1>5, <1>7, <1>8, <2>1
    <3>2. Len(container) + 1 + size <= Len(container')
      BY <1>3, <1>6, <2>3
    <3> QED
      BY <1>6, <3>1, <3>2, Zenon
  <2>7. \A i \in 1..N + 1 : i \in 1..N \/ i = N + 1
    BY <1>3
  <2>8. \A i \in 1..N + 1 :
           /\ Place(i)' + 1 + SizeOf(i)' <= Len(container')
           /\ container'[Place(i)' + 1] = Length(SizeOf(i)')
           /\ \A j \in 1..SizeOf(i)' : container'[Place(i)' + 1 + j] = <<"byte", i, j>>
    BY <2>5, <2>6, <2>7
  <2> QED
    BY <1>2, <2>1, <2>2, <2>4, <2>8 DEF LaidOut
<1>12. ShortIsLast'
  <2>1. ASSUME NEW i \in 1..N
        PROVE  /\ sealed'[i].text = <<>> => sealed'[i].tag = "FINAL"
               /\ Len(sealed'[i].text) < Chunk => sealed'[i + 1].text = <<>>
    <3>1. sealed'[i] = sealed[i] /\ (sealed[i].text = <<>> => sealed[i].tag = "FINAL")
      BY <1>2 DEF Smooth, ShortIsLast
    <3>2. CASE i < N
      <4>1. i + 1 \in 1..N
        BY <1>3, <3>2
      <4> QED
        BY <1>2, <3>1, <3>2, <4>1 DEF Smooth, ShortIsLast
    <3>3. CASE i = N
      <4>1. Len(sealed[N].text) < Chunk => filled = 0
        BY <1>1, <3>3 DEF Smooth, ShortIsLast
      <4> QED
        BY <1>2, <3>1, <3>3, <4>1
    <3> QED
      BY <1>3, <3>2, <3>3
  <2>2. /\ sealed'[N + 1].text = <<>> => sealed'[N + 1].tag = "FINAL"
        /\ Len(sealed'[N + 1].text) < Chunk /\ stage' \in {"records", "fill"}
              => inputNow' <= inputAt' /\ filled' = 0
    BY <1>1, <1>2, <1>3 DEF Filled
  <2>3. stage' \in {"sealed", "stored", "open", "unpack"} =>
           N + 1 > 0 /\ sealed'[N + 1].tag = "FINAL"
    BY <1>2, <1>3
  <2>4. \A i \in 1..N + 1 : (i \in 1..N /\ i < N + 1) \/ i = N + 1
    BY <1>3
  <2> QED
    BY <1>2, <2>1, <2>2, <2>3, <2>4 DEF ShortIsLast
<1> QED
  BY <1>2, <1>11, <1>12 DEF Smooth, AtRecord

\* Storing and opening the container change nothing of it.
LEMMA StoreSmooth == ASSUME Smooth, Store \/ Open PROVE Smooth'
<1>1. /\ stage \in {"sealed", "stored"} /\ stage' \in {"stored", "open"}
      /\ UNCHANGED <<container, sealed>>
  BY DEF Store, Open, encoder
<1>2. LaidOut'
  BY <1>1, LayoutFrame DEF Smooth
<1>3. ShortIsLast'
  BY <1>1 DEF Smooth, ShortIsLast
<1> QED
  BY <1>1, <1>2, <1>3 DEF Smooth, AtRecord

\* The header that is read is the one that was written.
LEMMA ReadHeaderSmooth == ASSUME IInv, Smooth, ReadHeader PROVE Smooth'
<1>1. /\ stage = "open" /\ stage' = "unpack" /\ HeaderOK
      /\ header' = SubSeq(container, 1, Len(Header))
      /\ UNCHANGED <<container, sealed, opened, sawShort>>
  BY DEF ReadHeader, encoder
<1>2. header' = Header
  <2>1. /\ Len(Header) = 3 /\ Header \in Seq(Units) /\ container \in Seq(Units)
        /\ 0 + 3 <= Len(container) /\ 0 \in Nat /\ 3 \in Nat /\ 0 + 1 = 1 /\ 0 + 3 = 3
    BY <1>1, HeaderUnits DEF HeaderOK, IInv, TypeOK
  <2>2. /\ SubSeq(container, 0 + 1, 0 + 3) \in Seq(Units)
        /\ Len(SubSeq(container, 0 + 1, 0 + 3)) = 3
        /\ \A j \in 1..3 : SubSeq(container, 0 + 1, 0 + 3)[j] = container[0 + j]
    BY <2>1, PartOf
  <2>3. header' \in Seq(Units) /\ Len(header') = 3 /\ \A j \in 1..3 : header'[j] = container[j]
    BY <1>1, <2>1, <2>2
  <2>4. \A j \in 1..3 : container[j] = Header[j]
    BY <1>1, <2>1 DEF Smooth, LaidOut
  <2> QED
    BY <2>1, <2>3, <2>4, SameSequence
<1>3. opened = 0 /\ ~sawShort /\ Len(sealed) > 0
  BY <1>1 DEF IInv, UnpackPlace, Smooth, ShortIsLast
<1>4. LaidOut'
  BY <1>1, LayoutFrame DEF Smooth
<1>5. ShortIsLast'
  BY <1>1 DEF Smooth, ShortIsLast
<1> QED
  BY <1>1, <1>2, <1>3, <1>4, <1>5 DEF Smooth, AtRecord

\* Behind a record that is not the last there is another one.
LEMMA PullSmooth == ASSUME IInv, Smooth, PullRecord PROVE Smooth'
<1> PICK k : k = opened
  OBVIOUS
<1>1. /\ stage = "unpack" /\ UNCHANGED <<container, sealed, header>> /\ opened' = k + 1
      /\ sawShort' = IF sealed[k + 1].tag = "FINAL" THEN sawShort
                     ELSE Len(sealed[k + 1].text) < Chunk
      /\ stage' = IF sealed[k + 1].tag = "FINAL" THEN "drained" ELSE "unpack"
  BY DEF PullRecord, encoder
<1>2. k \in Nat /\ k < Len(sealed) /\ Len(sealed) \in Nat
  BY <1>1, Records DEF IInv, TypeOK, Smooth, AtRecord
<1>3. LaidOut'
  BY <1>1, LayoutFrame DEF Smooth
<1>4. ShortIsLast'
  BY <1>1 DEF Smooth, ShortIsLast
<1>5. AtRecord'
  <2>1. SUFFICES ASSUME stage' = "unpack"
                 PROVE  /\ header' = Header /\ opened' < Len(sealed')
                        /\ sawShort' => opened' > 0 /\ Len(sealed'[opened'].text) < Chunk
    BY DEF AtRecord
  <2>2. sealed[k + 1].tag # "FINAL"
    BY <1>1, <2>1
  <2>3. sealed[Len(sealed)].tag = "FINAL"
    BY <1>1 DEF Smooth, ShortIsLast
  <2>4. k + 1 < Len(sealed)
    BY <1>2, <2>2, <2>3
  <2>5. sawShort' => Len(sealed[k + 1].text) < Chunk
    BY <1>1, <2>2
  <2>6. sealed' = sealed /\ opened' = k + 1 /\ header' = Header
    BY <1>1 DEF Smooth, AtRecord
  <2> QED
    BY <1>2, <2>4, <2>5, <2>6
<1> QED
  BY <1>1, <1>3, <1>4, <1>5 DEF Smooth

\* What is left of decrypt, and the world while it does not disturb.
LEMMA RestSmooth ==
    ASSUME IInv, Smooth, Undisturbed', Finish \/ Interrupt \/ Resize \/ Damage \/ UNCHANGED vars
    PROVE  Smooth'
<1>1. CASE Finish
  <2>1. /\ stage = "drained" /\ stage' = "ok" /\ UNCHANGED <<container, sealed>>
    BY <1>1 DEF Finish, encoder
  <2>2. LaidOut'
    BY <2>1, LayoutFrame DEF Smooth
  <2>3. ShortIsLast'
    BY <2>1 DEF Smooth, ShortIsLast
  <2> QED
    BY <2>1, <2>2, <2>3 DEF Smooth, AtRecord
<1>2. CASE Interrupt \/ Resize \/ Damage
  BY <1>2 DEF Interrupt, Resize, Damage, Undisturbed, IInv, TypeOK
<1>3. CASE UNCHANGED vars
  BY <1>3 DEF vars, encoder, decoder, world, Smooth, LaidOut, ShortIsLast, AtRecord,
              Place, SizeOf, EndOf
<1> QED
  BY <1>1, <1>2, <1>3

\* Whatever happens, everything is smooth while nothing has disturbed it.
LEMMA UntroubledKept == ASSUME IInv, Untroubled, [Next]_vars PROVE Untroubled'
<1> SUFFICES ASSUME Undisturbed' PROVE Smooth'
  BY DEF Untroubled
<1>1. Undisturbed /\ Smooth
  BY UndisturbedBefore DEF Untroubled
<1>2. ~Fail
  BY <1>1, NoRefusal DEF Fail, Undisturbed
<1> QED
  BY <1>1, <1>2, WriteHeaderSmooth, FillSmooth, PushSmooth, StoreSmooth, ReadHeaderSmooth,
     PullSmooth, RestSmooth DEF Next, Step

(***************************************************************************)
(* Neither encrypt nor decrypt returns an error for any reason of its own: *)
(* a container of an input that kept still, that the storage returns as it *)
(* was written, passes every check, for every chunk size, length of input  *)
(* and sequence of reads (stream.rs:105-125 and 129-173).                  *)
(***************************************************************************)
THEOREM NeverRefusedInVain == Spec => [](stage = "error" => ~Undisturbed)
<1>1. Init => Untroubled
  BY DEF Init, Untroubled, Smooth, LaidOut, ShortIsLast, AtRecord
<1>2. IInv /\ Untroubled /\ [Next]_vars => Untroubled'
  BY UntroubledKept
<1>3. Untroubled => (stage = "error" => ~Undisturbed)
  BY DEF Untroubled, Smooth
<1> QED
  BY <1>1, <1>2, <1>3, Inductive, PTL DEF Spec

-----------------------------------------------------------------------------
(* No endless pass *)

\* What is left of the input, as a number.
LEMMA ToComeIs ==
    ASSUME IInv
    PROVE  ToCome \in Nat /\ (ToCome = 0 <=> inputNow <= inputAt)
BY DEF IInv, TypeOK, ToCome

\* While a stage lasts something is to come.
LEMMA RankIs ==
    ASSUME IInv
    PROVE  Rank \in Nat /\ (stage \in Encoding \cup Decoding => Rank > 0)
<1>1. ToCome \in Nat /\ stage \in Stages
  BY ToComeIs DEF IInv, TypeOK
<1>2. Len(container) \in Nat /\ at \in Nat /\ at <= Len(container)
  BY DEF IInv, TypeOK
<1>3. CASE stage \in {"begin", "records"}
  <2>1. Rank = 3 * ToCome + 4 \/ Rank = 3 * ToCome + 3
    BY <1>3 DEF Rank
  <2> QED
    BY <1>1, <2>1
<1>4. CASE stage = "fill"
  <2>1. Rank = 3 * ToCome + 4 \/ Rank = 3 * ToCome + 2
    BY <1>4 DEF Rank
  <2> QED
    BY <1>1, <2>1
<1>5. CASE stage \in {"open", "unpack"}
  <2>1. Rank = Len(container) + 2 \/ Rank = Len(container) - at + 1
    BY <1>5 DEF Rank
  <2> QED
    BY <1>2, <2>1
<1>6. CASE stage \in {"sealed", "drained", "stored", "ok", "error"}
  BY <1>6 DEF Rank, Encoding, Decoding
<1> QED
  BY <1>1, <1>3, <1>4, <1>5, <1>6 DEF Stages, Encoding, Decoding

\* Every step of encrypt and of decrypt brings its end nearer.
LEMMA StepLowers == ASSUME IInv, Step PROVE Rank' < Rank
<1>1. /\ ToCome \in Nat /\ filled \in Nat /\ Len(container) \in Nat
      /\ at \in Nat /\ at <= Len(container)
  BY ToComeIs, SizesAssumption DEF IInv, TypeOK
<1>2. CASE WriteHeader \/ NextChunk
  <2>1. ToCome' = ToCome /\ filled' = filled
    BY <1>2 DEF WriteHeader, NextChunk, encoder, world, ToCome
  <2>2. CASE WriteHeader
    BY <1>1, <2>1, <2>2 DEF WriteHeader, Rank
  <2>3. CASE NextChunk
    <3>1. filled' = 0
      BY <2>3, NextChunkKeeps
    <3>2. Rank = 3 * ToCome + 3 /\ Rank' = 3 * ToCome + 2
      BY <2>1, <2>3, <3>1 DEF NextChunk, Rank
    <3> QED
      BY <1>1, <3>2
  <2> QED
    BY <1>2, <2>2, <2>3
<1>3. CASE Fill
  <2>1. PICK m \in 1..Least(Chunk - filled, inputNow - inputAt) :
           filled' = filled + m /\ inputAt' = inputAt + m
    BY <1>3 DEF Fill
  <2>2. stage = "fill" /\ stage' = "fill" /\ inputNow' = inputNow
    BY <1>3 DEF Fill, world
  <2>3. /\ inputNow \in Nat /\ inputAt \in Nat /\ m \in Nat /\ m > 0
        /\ inputAt + m <= inputNow
    BY SizesAssumption DEF IInv, TypeOK, Least
  <2>4. ToCome' = ToCome - m /\ ToCome >= m
    BY <2>1, <2>2, <2>3 DEF ToCome
  <2>5. Rank' = 3 * (ToCome - m) + 4
    BY <1>1, <2>1, <2>2, <2>3, <2>4 DEF Rank
  <2>6. Rank = 3 * ToCome + 4 \/ Rank = 3 * ToCome + 2
    BY <2>2 DEF Rank
  <2> QED
    BY <1>1, <2>3, <2>4, <2>5, <2>6
<1>4. CASE PushRecord
  <2>1. stage = "fill" /\ UNCHANGED <<inputAt, inputNow>>
    BY <1>4 DEF PushRecord, world
  <2>2. stage' = IF filled = 0 THEN "sealed" ELSE "records"
    <3> PICK N : N = Len(sealed)
      OBVIOUS
    <3> QED
      BY <1>4, PushKeeps
  <2>3. ToCome' = ToCome
    BY <2>1 DEF ToCome
  <2>4. CASE filled = 0
    <3>1. Rank = 3 * ToCome + 2 /\ Rank' = 1
      BY <2>1, <2>2, <2>4 DEF Rank
    <3> QED
      BY <1>1, <3>1
  <2>5. CASE filled # 0
    <3>1. Rank = 3 * ToCome + 4 /\ Rank' = 3 * ToCome + 3
      BY <1>1, <2>1, <2>2, <2>3, <2>5 DEF Rank
    <3> QED
      BY <1>1, <3>1
  <2> QED
    BY <2>4, <2>5
<1>5. CASE ReadHeader
  <2>1. /\ stage = "open" /\ stage' = "unpack" /\ at' = 3 /\ Len(container) >= 3
        /\ container' = container
    BY <1>5, HeaderUnits DEF ReadHeader, HeaderOK
  <2>2. Rank = Len(container) + 2 /\ Rank' = Len(container) - 3 + 1
    BY <2>1 DEF Rank
  <2> QED
    BY <1>1, <2>1, <2>2
<1>6. CASE PullRecord
  <2>1. PICK size \in Readings : RecordOK(size) /\ at' = at + 1 + size
    BY <1>6 DEF PullRecord
  <2>2. stage = "unpack" /\ stage' \in {"drained", "unpack"} /\ container' = container
    BY <1>6 DEF PullRecord
  <2>3. size \in Nat /\ at' <= Len(container)
    BY <2>1, SizesAssumption DEF RecordOK, InRange
  <2>4. Rank = Len(container) - at + 1
    BY <2>2 DEF Rank
  <2>5. Rank' = Len(container) - at' + 1 \/ Rank' = 1
    BY <2>2 DEF Rank
  <2> QED
    BY <1>1, <2>1, <2>3, <2>4, <2>5
<1>7. CASE Store \/ Finish \/ Fail
  <2>1. stage \in Encoding \cup Decoding /\ stage' \in {"stored", "ok", "error"}
    BY <1>7 DEF Store, Finish, Fail, Encoding, Decoding
  <2>2. Rank' = 0
    BY <2>1 DEF Rank
  <2> QED
    BY <2>1, <2>2, RankIs
<1> QED
  BY <1>2, <1>3, <1>4, <1>5, <1>6, <1>7 DEF Step

(***************************************************************************)
(* encrypt takes at most 3 * length + 4 steps from the last change of the  *)
(* length of its input, decrypt at most as many as the container has units *)
(* and two more: a record that is short, empty or cut keeps neither of     *)
(* them in its loop (stream.rs:22-34, 112-125 and 142-172).                *)
(***************************************************************************)
THEOREM EveryPassIsBounded ==
    Spec => /\ [](Rank \in Nat)
            /\ [][IF Step THEN Rank' < Rank ELSE Rank' = Rank \/ Open \/ Resize]_vars
<1>1. IInv => Rank \in Nat
  BY RankIs
<1>2. ASSUME IInv, [Next]_vars, ~Step PROVE Rank' = Rank \/ Open \/ Resize
  <2>1. CASE Interrupt \/ UNCHANGED vars
    <3>1. UNCHANGED <<inputAt, inputNow, filled, container, at, stage>>
      BY <2>1 DEF Interrupt, vars, encoder, decoder, world
    <3> QED
      BY <3>1 DEF Rank, ToCome
  <2>2. CASE Damage
    BY <2>2 DEF Damage, Rank
  <2> QED
    BY <1>2, <2>1, <2>2 DEF Next
<1>3. IInv /\ [Next]_vars => (IF Step THEN Rank' < Rank ELSE Rank' = Rank \/ Open \/ Resize)
  BY <1>2, StepLowers
<1> QED
  BY <1>1, <1>3, Inductive, PTL DEF Spec
=============================================================================
