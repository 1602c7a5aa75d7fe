---------------------------- MODULE XorStreamProofs ----------------------------
(***************************************************************************)
(* The inductive invariant of XorStream, and that every byte meets its key *)
(* byte, for every chunk size, every pair of files and any number of       *)
(* changes of their lengths.                                               *)
(***************************************************************************)
EXTENDS XorStream, TLAPS

-----------------------------------------------------------------------------
(* Remainders *)

\* A multiple leaves nothing.
LEMMA ModMultiple ==
    ASSUME NEW K \in Nat \ {0}, NEW q \in Nat
    PROVE  (K * q) % K = 0
OBVIOUS

\* The remainder grows with the dividend up to the divisor, and starts again.
LEMMA ModShift ==
    ASSUME NEW K \in Nat \ {0}, NEW a \in Nat, NEW t \in Nat,
           (a % K) + t <= K
    PROVE  (a + t) % K = ((a % K) + t) % K
<1> DEFINE p == a % K
<1>0. p \in Nat /\ p < K /\ p + t <= K
  OBVIOUS
<1>1. CASE p + t < K
  <2>1. (a + t) % K = p + t
    BY <1>0, <1>1
  <2>2. (p + t) % K = p + t
    BY <1>0, <1>1
  <2> QED
    BY <2>1, <2>2
<1>2. CASE p + t = K
  <2>1. (a \div K) \in Nat /\ a = K * (a \div K) + p
    OBVIOUS
  <2>2. a + t = K * ((a \div K) + 1) /\ (a \div K) + 1 \in Nat
    BY <1>2, <2>1
  <2>3. (K * ((a \div K) + 1)) % K = 0
    BY <2>2, ModMultiple
  <2>4. (a + t) % K = 0
    BY <2>2, <2>3, Zenon
  <2>5. K % K = 0
    OBVIOUS
  <2> QED
    BY <1>2, <2>4, <2>5
<1> QED
  BY <1>1, <1>2

\* Below the divisor a number is its own remainder.
LEMMA ModSmall ==
    ASSUME NEW K \in Nat \ {0}, NEW p \in Nat, p < K
    PROVE  p % K = p
OBVIOUS

\* What a concatenation holds.
LEMMA Concatenated ==
    ASSUME NEW S, NEW s \in Seq(S), NEW t \in Seq(S)
    PROVE  /\ s \o t \in Seq(S) /\ Len(s \o t) = Len(s) + Len(t)
           /\ \A j \in 1..Len(s) : (s \o t)[j] = s[j]
           /\ \A j \in Len(s) + 1 .. Len(s) + Len(t) :
                 (s \o t)[j] = t[j - Len(s)]
OBVIOUS

-----------------------------------------------------------------------------
(* The invariant *)

\* Nothing has been read at first.
LEMMA InitEstablishesInv == Init => IInv
<1> SUFFICES ASSUME Init PROVE IInv
  OBVIOUS
<1>1. /\ inputLen \in Nat /\ keyLen \in Nat /\ repeat \in BOOLEAN
      /\ inputNow = inputLen /\ keyNow = keyLen /\ resizes = 0
      /\ cancelled = FALSE /\ faulty \in BOOLEAN
      /\ inputAt = 0 /\ keyAt = 0 /\ cached = FALSE
      /\ remaining = inputLen /\ keyPos = 0 /\ n = 0
      /\ pad = <<>> /\ written = 0 /\ output = <<>> /\ file = <<>> /\ back = <<>>
      /\ stage = "begin"
  BY LengthsAssumption DEF Init
<1>2. TypeOK
  <2>1. /\ pad \in Seq(Nat) /\ Len(pad) <= n
        /\ output \in Seq(Pairs) /\ file \in Seq(Pairs) /\ back \in Seq(Pairs)
    BY <1>1
  <2>2. n \in 0..Chunk
    BY <1>1, ChunkAssumption
  <2> QED
    BY <1>1, <2>1, <2>2 DEF TypeOK, Stages
<1>3. InputPlace /\ KeyPlace /\ PadAligned /\ ReadBackPlace /\ Aligned
  BY <1>1 DEF InputPlace, KeyPlace, Streaming, PadAligned, ReadBackPlace, Aligned, Before
<1> QED
  BY <1>2, <1>3 DEF IInv

\* The stream begins at the start of both files, an uncached key's included.
LEMMA BeginKeeps == ASSUME IInv, Begin PROVE IInv'
<1>1. /\ stage = "begin" /\ stage' = "chunk" /\ keyLen > 0
      /\ cached' = Caches /\ keyAt' = IF Caches THEN keyLen ELSE keyAt
      /\ inputLen' = inputLen /\ keyLen' = keyLen /\ repeat' = repeat
      /\ UNCHANGED world /\ inputAt' = inputAt /\ remaining' = remaining
      /\ keyPos' = keyPos /\ n' = n /\ pad' = pad /\ written' = written
      /\ output' = output /\ file' = file /\ back' = back
  BY DEF Begin, BeginOK, ArgumentsOK, arguments, writing
<1>2. TypeOK'
  BY <1>1 DEF IInv, TypeOK, Stages, world, Caches
<1>3. InputPlace' /\ PadAligned' /\ ReadBackPlace' /\ Aligned'
  BY <1>1 DEF IInv, InputPlace, PadAligned, ReadBackPlace, Aligned, Ended, Before
<1>4. KeyPlace'
  BY <1>1 DEF IInv, TypeOK, InputPlace, KeyPlace, Streaming, Taken, Before
<1> QED
  BY <1>2, <1>3, <1>4 DEF IInv

\* A chunk is no longer than what remains.
LEMMA ReadChunkKeeps == ASSUME IInv, ReadChunk PROVE IInv'
<1>1. /\ stage = "chunk" /\ stage' = "pad" /\ remaining > 0
      /\ n' = Least(remaining, Chunk) /\ inputAt' = inputAt + n' /\ pad' = <<>>
      /\ inputLen' = inputLen /\ keyLen' = keyLen /\ repeat' = repeat
      /\ UNCHANGED world /\ keyAt' = keyAt /\ cached' = cached
      /\ remaining' = remaining /\ keyPos' = keyPos /\ written' = written
      /\ output' = output /\ file' = file /\ back' = back
  BY DEF ReadChunk, arguments, writing
<1>2. n' \in 0..Chunk /\ n' <= remaining
  BY <1>1, ChunkAssumption DEF IInv, TypeOK, Least
<1>3. TypeOK'
  BY <1>1, <1>2 DEF IInv, TypeOK, Stages, world
<1>4. InputPlace' /\ PadAligned' /\ ReadBackPlace' /\ Aligned'
  BY <1>1, <1>2, <1>3
     DEF IInv, InputPlace, PadAligned, ReadBackPlace, Aligned, Ended, Before
<1>5. KeyPlace'
  BY <1>1 DEF IInv, TypeOK, InputPlace, KeyPlace, Streaming, Taken, Before, Ended
<1> QED
  BY <1>3, <1>4, <1>5 DEF IInv

\* The bytes gathered in one turn are the next ones of the key.
LEMMA FillPadKeeps == ASSUME IInv, FillPad PROVE IInv'
<1> DEFINE a == Before + Len(pad)
<1>1. /\ stage = "pad" /\ stage' = "pad" /\ Len(pad) < n
      /\ pad' = pad \o Positions(IF cached THEN Pos ELSE Handle, Take)
      /\ keyPos' = Pos + Take
      /\ keyAt' = IF cached THEN keyAt ELSE Handle + Take
      /\ inputLen' = inputLen /\ keyLen' = keyLen /\ repeat' = repeat
      /\ UNCHANGED world /\ inputAt' = inputAt /\ cached' = cached
      /\ remaining' = remaining /\ n' = n /\ written' = written
      /\ output' = output /\ file' = file /\ back' = back
  BY DEF FillPad, arguments, writing
<1>2. /\ keyLen \in Nat \ {0} /\ keyPos \in Nat /\ keyPos <= keyLen /\ n \in Nat
      /\ pad \in Seq(Nat) /\ keyAt \in Nat /\ written = 0
      /\ Len(pad) \in Nat /\ Before \in Nat /\ a \in Nat
      /\ a % keyLen = keyPos % keyLen
      /\ ~cached => keyAt = keyPos
  <2>1. /\ keyLen > 0 /\ keyPos <= keyLen /\ Taken = a
        /\ Taken % keyLen = keyPos % keyLen
        /\ ~cached => keyAt = keyPos
    BY <1>1 DEF IInv, KeyPlace, Streaming, Taken
  <2>2. /\ keyLen \in Nat /\ keyPos \in Nat /\ keyAt \in Nat /\ n \in Nat
        /\ pad \in Seq(Nat)
    BY ChunkAssumption DEF IInv, TypeOK
  <2>3. Len(pad) \in Nat /\ Before \in Nat /\ written = 0
    BY <1>1, <2>2 DEF IInv, InputPlace, Ended
  <2> QED
    BY <2>1, <2>2, <2>3
<1>3. Pos \in Nat /\ Pos < keyLen /\ a % keyLen = Pos
  <2>1. CASE keyPos = keyLen
    BY <1>2, <2>1, ModMultiple DEF Pos
  <2>2. CASE keyPos # keyLen
    <3>1. Pos = keyPos /\ keyPos < keyLen
      BY <1>2, <2>2 DEF Pos
    <3> HIDE DEF a
    <3>2. keyPos % keyLen = keyPos
      BY <1>2, <3>1, ModSmall
    <3> QED
      BY <1>2, <3>1, <3>2
  <2> QED
    BY <2>1, <2>2
<1>4. ~cached => Handle = Pos
  BY <1>2 DEF Handle, Pos
<1>5. Take \in Nat /\ Pos + Take <= keyLen /\ Len(pad) + Take <= n
  BY <1>1, <1>2, <1>3, ChunkAssumption DEF Take, Least
<1>6. pad' = pad \o [j \in 1..Take |-> Pos + j - 1]
  BY <1>1, <1>4 DEF Positions
<1>7. /\ pad' \in Seq(Nat) /\ Len(pad') = Len(pad) + Take
      /\ \A j \in 1..Len(pad) : pad'[j] = pad[j]
      /\ \A j \in Len(pad) + 1 .. Len(pad) + Take :
            pad'[j] = Pos + (j - Len(pad)) - 1
  <2> DEFINE more == [j \in 1..Take |-> Pos + j - 1]
  <2>1. more \in Seq(Nat) /\ Len(more) = Take
    BY <1>3, <1>5
  <2>2. \A j \in 1..Take : more[j] = Pos + j - 1
    OBVIOUS
  <2> HIDE DEF more
  <2>3. /\ pad \o more \in Seq(Nat) /\ Len(pad \o more) = Len(pad) + Len(more)
        /\ \A j \in 1..Len(pad) : (pad \o more)[j] = pad[j]
        /\ \A j \in Len(pad) + 1 .. Len(pad) + Len(more) :
              (pad \o more)[j] = more[j - Len(pad)]
    BY <1>2, <2>1, Concatenated, Zenon
  <2>4. \A j \in Len(pad) + 1 .. Len(pad) + Take : j - Len(pad) \in 1..Take
    BY <1>2, <1>5
  <2> QED
    BY <1>6, <2>1, <2>2, <2>3, <2>4 DEF more
<1>8. TypeOK'
  <2>1. keyPos' \in Nat /\ keyAt' \in Nat
    BY <1>1, <1>2, <1>3, <1>4, <1>5
  <2>2. pad' \in Seq(Nat) /\ Len(pad') <= n'
    BY <1>1, <1>5, <1>7
  <2>3. stage' \in Stages
    BY <1>1 DEF IInv, TypeOK
  <2> QED
    BY <1>1, <2>1, <2>2, <2>3 DEF IInv, TypeOK, world
<1>9. PadAligned'
  <2>1. ASSUME NEW j \in Len(pad) + 1 .. Len(pad) + Take
        PROVE  pad'[j] = (Before + j - 1) % keyLen
    <3> DEFINE t == j - Len(pad) - 1
    <3>1. t \in Nat /\ Pos + t < keyLen /\ a + t = Before + j - 1
      BY <1>2, <1>3, <1>5, <2>1
    <3>2. keyLen \in Nat \ {0} /\ a \in Nat /\ Pos \in Nat /\ Pos + t <= keyLen
      BY <1>2, <1>3, <3>1
    <3>3. Pos + t \in Nat
      BY <3>1, <3>2
    <3>4. pad'[j] = Pos + t
      BY <1>7, <1>2, <1>5, <2>1
    <3> HIDE DEF a, t
    <3>5. (a + t) % keyLen = (Pos + t) % keyLen
      <4>1. a % keyLen = Pos /\ (a % keyLen) + t <= keyLen
        BY <1>3, <3>2
      <4>2. (a + t) % keyLen = ((a % keyLen) + t) % keyLen
        BY <3>1, <3>2, <4>1, ModShift, Zenon
      <4> QED
        BY <4>1, <4>2, Zenon
    <3>6. (Pos + t) % keyLen = Pos + t
      BY <3>1, <3>2, <3>3, ModSmall, Zenon
    <3> QED
      BY <3>1, <3>4, <3>5, <3>6
  <2>2. \A j \in 1..Len(pad) : pad'[j] = (Before + j - 1) % keyLen
    BY <1>1, <1>7 DEF IInv, PadAligned
  <2>3. \A j \in 1..Len(pad') : pad'[j] = (Before + j - 1) % keyLen
    <3> TAKE j \in 1..Len(pad')
    <3>1. j \in 1..Len(pad) \/ j \in Len(pad) + 1 .. Len(pad) + Take
      BY <1>2, <1>5, <1>7
    <3> QED
      BY <2>1, <2>2, <3>1
  <2> QED
    BY <1>1, <2>3 DEF PadAligned, Before
<1>10. KeyPlace'
  <2>1. (a + Take) % keyLen = (Pos + Take) % keyLen
    <3>1. keyLen \in Nat \ {0} /\ a \in Nat
      BY <1>2
    <3> HIDE DEF a
    <3>2. a % keyLen = Pos /\ (a % keyLen) + Take <= keyLen
      BY <1>3, <1>5
    <3>3. (a + Take) % keyLen = ((a % keyLen) + Take) % keyLen
      BY <1>5, <3>1, <3>2, ModShift, Zenon
    <3> QED
      BY <3>2, <3>3, Zenon
  <2>2. Taken' = a + Take
    <3>1. Taken' = Before + Len(pad')
      BY <1>1 DEF Taken, Before
    <3> QED
      BY <1>2, <1>5, <1>7, <3>1
  <2>3. ~cached => keyAt' = Pos + Take
    BY <1>1, <1>4
  <2> QED
    BY <1>1, <1>2, <1>5, <2>1, <2>2, <2>3 DEF KeyPlace, Streaming
<1>11. InputPlace' /\ ReadBackPlace' /\ Aligned'
  BY <1>1, <1>2 DEF IInv, InputPlace, ReadBackPlace, Aligned, Ended, Before
<1> QED
  BY <1>8, <1>9, <1>10, <1>11 DEF IInv

\* The bytes the file accepts are the next ones of the chunk and of the key.
LEMMA WriteKeeps == ASSUME IInv, NEW m \in 1..n - written, Write(m) PROVE IInv'
<1> DEFINE more == Bytes(m)
<1>1. /\ stage = "pad" /\ Len(pad) = n
      /\ file' = file \o more /\ output' = output \o more
      /\ written' = IF written + m = n THEN 0 ELSE written + m
      /\ remaining' = IF written + m = n THEN remaining - n ELSE remaining
      /\ stage' = IF written + m = n THEN "chunk" ELSE "pad"
      /\ inputLen' = inputLen /\ keyLen' = keyLen /\ repeat' = repeat
      /\ UNCHANGED world /\ inputAt' = inputAt /\ keyAt' = keyAt
      /\ cached' = cached /\ keyPos' = keyPos /\ n' = n /\ pad' = pad /\ back' = back
  BY DEF Write, arguments, reading
<1>2. /\ n \in Nat /\ n <= remaining /\ remaining \in Nat /\ inputLen \in Nat
      /\ written \in Nat /\ m \in Nat /\ m > 0 /\ written + m <= n
      /\ Before \in Nat /\ Before = Len(output) - written
      /\ inputAt = Before + n /\ Before + remaining = inputLen
      /\ pad \in Seq(Nat) /\ output \in Seq(Pairs) /\ file \in Seq(Pairs)
      /\ Len(output) \in Nat
      /\ \A j \in 1..n : pad[j] = (Before + j - 1) % keyLen
      /\ \A i \in 1..Len(output) : output[i] = <<i - 1, (i - 1) % keyLen>>
  <2>1. /\ n \in Nat /\ written \in Nat /\ remaining \in Nat /\ inputLen \in Nat
        /\ pad \in Seq(Nat) /\ output \in Seq(Pairs) /\ file \in Seq(Pairs)
    BY ChunkAssumption DEF IInv, TypeOK
  <2>2. m \in Nat /\ m > 0 /\ written + m <= n /\ Len(output) \in Nat
    BY <2>1
  <2>3. /\ Before \in Nat /\ Before + remaining = inputLen
        /\ inputAt = Before + n /\ n <= remaining
    BY <1>1 DEF IInv, InputPlace, Ended
  <2>4. /\ \A j \in 1..n : pad[j] = (Before + j - 1) % keyLen
        /\ \A i \in 1..Len(output) : output[i] = <<i - 1, (i - 1) % keyLen>>
    BY <1>1 DEF IInv, PadAligned, Aligned
  <2> QED
    BY <2>1, <2>2, <2>3, <2>4 DEF Before
<1>3. /\ more \in Seq(Pairs) /\ Len(more) = m
      /\ \A j \in 1..m :
            more[j] = <<Len(output) + j - 1, (Len(output) + j - 1) % keyLen>>
  <2>1. \A j \in 1..m :
           /\ written + j \in 1..n
           /\ inputAt - n + written + j - 1 = Len(output) + j - 1
           /\ Before + (written + j) - 1 = Len(output) + j - 1
    BY <1>2
  <2>2. \A j \in 1..m :
           /\ pad[written + j] \in Nat
           /\ pad[written + j] = (Len(output) + j - 1) % keyLen
    <3>1. Len(pad) = n /\ pad \in Seq(Nat)
      BY <1>1, <1>2
    <3>2. \A i \in 1..n : pad[i] \in Nat
      BY <3>1
    <3> QED
      BY <1>2, <2>1, <3>2
  <2>3. \A j \in 1..m :
           /\ <<inputAt - n + written + j - 1, pad[written + j]>> \in Pairs
           /\ <<inputAt - n + written + j - 1, pad[written + j]>>
                = <<Len(output) + j - 1, (Len(output) + j - 1) % keyLen>>
    <3> TAKE j \in 1..m
    <3>1. Len(output) + j - 1 \in Nat
      BY <1>2
    <3> QED
      BY <2>1, <2>2, <3>1 DEF Pairs
  <2>4. m \in Nat
    BY <1>2
  <2>5. more = [j \in 1..m |-> <<inputAt - n + written + j - 1, pad[written + j]>>]
    BY DEF Bytes
  <2>6. more \in [1..m -> Pairs]
    BY <2>3, <2>5, Zenon
  <2> HIDE DEF more
  <2>7. more \in Seq(Pairs) /\ Len(more) = m
    BY <2>4, <2>6
  <2> QED
    BY <2>3, <2>5, <2>7
<1>4. /\ output' \in Seq(Pairs) /\ Len(output') = Len(output) + m
      /\ \A i \in 1..Len(output) : output'[i] = output[i]
      /\ \A i \in Len(output) + 1 .. Len(output) + m :
            output'[i] = more[i - Len(output)]
  <2> HIDE DEF more
  <2>1. output \in Seq(Pairs) /\ more \in Seq(Pairs)
    BY <1>2, <1>3
  <2>2. /\ output \o more \in Seq(Pairs)
        /\ Len(output \o more) = Len(output) + Len(more)
        /\ \A i \in 1..Len(output) : (output \o more)[i] = output[i]
        /\ \A i \in Len(output) + 1 .. Len(output) + Len(more) :
              (output \o more)[i] = more[i - Len(output)]
    BY <2>1, Concatenated, Zenon
  <2>3. output' = output \o more /\ Len(more) = m
    BY <1>1, <1>3
  <2> QED
    BY <2>2, <2>3, Zenon
<1>5. file' \in Seq(Pairs)
  <2> HIDE DEF more
  <2> QED
    BY <1>1, <1>2, <1>3, Concatenated
<1>6. TypeOK'
  <2> HIDE DEF more
  <2> QED
    BY <1>1, <1>2, <1>4, <1>5 DEF IInv, TypeOK, Stages, world
<1>7. Aligned'
  <2>1. ASSUME NEW i \in Len(output) + 1 .. Len(output) + m
        PROVE  output'[i] = <<i - 1, (i - 1) % keyLen>>
    <3> DEFINE j == i - Len(output)
    <3>1. j \in 1..m /\ Len(output) + j - 1 = i - 1
      BY <1>2, <2>1
    <3> HIDE DEF more, j
    <3>2. output'[i] = more[j]
      BY <1>4, <2>1 DEF j
    <3> QED
      BY <1>3, <3>1, <3>2
  <2>2. \A i \in 1..Len(output) : output'[i] = <<i - 1, (i - 1) % keyLen>>
    BY <1>2, <1>4
  <2>3. \A i \in 1..Len(output') : output'[i] = <<i - 1, (i - 1) % keyLen>>
    <3> TAKE i \in 1..Len(output')
    <3>1. i \in 1..Len(output) \/ i \in Len(output) + 1 .. Len(output) + m
      BY <1>2, <1>4
    <3> QED
      BY <2>1, <2>2, <3>1
  <2> QED
    BY <1>1, <2>3 DEF Aligned
<1>8. CASE written + m = n
  <2> HIDE DEF more
  <2>1. /\ stage' = "chunk" /\ written' = 0 /\ remaining' = remaining - n
        /\ Before' = Before + n
    BY <1>1, <1>2, <1>4, <1>8 DEF Before
  <2>2. InputPlace' /\ PadAligned'
    BY <1>1, <1>2, <2>1 DEF InputPlace, PadAligned
  <2>3. KeyPlace'
    <3>1. Taken = Before + n
      BY <1>1 DEF Taken
    <3>2. Taken' = Before'
      BY <1>2, <2>1 DEF Taken
    <3> QED
      BY <1>1, <2>1, <3>1, <3>2 DEF IInv, KeyPlace, Streaming
  <2>4. ReadBackPlace'
    BY <1>1, <2>1 DEF IInv, ReadBackPlace, Ended
  <2> QED
    BY <1>6, <1>7, <2>2, <2>3, <2>4 DEF IInv
<1>9. CASE written + m # n
  <2> HIDE DEF more
  <2>1. /\ stage' = "pad" /\ written' = written + m /\ remaining' = remaining
        /\ Before' = Before
    BY <1>1, <1>2, <1>4, <1>9 DEF Before
  <2>2. InputPlace'
    BY <1>1, <1>2, <1>9, <2>1 DEF InputPlace, Ended
  <2>3. PadAligned'
    BY <1>1, <1>2, <2>1 DEF PadAligned
  <2>4. KeyPlace'
    <3>1. Taken' = Taken
      BY <1>1, <2>1 DEF Taken
    <3> QED
      BY <1>1, <2>1, <3>1 DEF IInv, KeyPlace, Streaming
  <2>5. ReadBackPlace'
    BY <1>1, <2>1 DEF IInv, ReadBackPlace, Ended
  <2> QED
    BY <1>6, <1>7, <2>2, <2>3, <2>4, <2>5 DEF IInv
<1> QED
  BY <1>8, <1>9

\* Reading back begins with a complete output.
LEMMA FinishKeeps == ASSUME IInv, Finish PROVE IInv'
<1>1. /\ stage = "chunk" /\ stage' = "verify" /\ Len(output) = inputLen
      /\ UNCHANGED <<arguments, world, reading, writing, file, back>>
  BY DEF Finish, EofOK
<1>2. TypeOK' /\ Aligned'
  BY <1>1 DEF IInv, TypeOK, Aligned, Stages, arguments, world, reading, writing
<1>3. back = <<>> /\ file \in Seq(Pairs)
  BY <1>1 DEF IInv, TypeOK, ReadBackPlace, Ended
<1>4. ReadBackPlace'
  BY <1>1, <1>3 DEF ReadBackPlace, arguments, writing
<1>5. InputPlace' /\ KeyPlace' /\ PadAligned'
  BY <1>1 DEF IInv, InputPlace, KeyPlace, PadAligned, Streaming, Before, Ended,
              arguments, reading, writing
<1> QED
  BY <1>2, <1>4, <1>5 DEF IInv

\* What read_back reads are the next bytes of the file.
LEMMA ReadBackKeeps == ASSUME IInv, ReadBack PROVE IInv'
<1>1. PICK m \in 1..Least(Chunk, Len(file) - Len(back)) :
         back' = back \o [j \in 1..m |-> file[Len(back) + j]]
  BY DEF ReadBack
<1> DEFINE more == [j \in 1..m |-> file[Len(back) + j]]
<1>2. /\ stage = "verify" /\ stage' = "verify"
      /\ UNCHANGED <<arguments, world, reading, writing, file>>
  BY DEF ReadBack
<1>3. /\ file \in Seq(Pairs) /\ back \in Seq(Pairs) /\ Len(output) = inputLen
      /\ Len(file) \in Nat /\ Len(back) \in Nat /\ Len(back) <= Len(file)
      /\ \A j \in 1..Len(back) : back[j] = file[j]
  BY <1>2 DEF IInv, TypeOK, ReadBackPlace
<1>4. m \in Nat /\ Len(back) + m <= Len(file)
  BY <1>3, ChunkAssumption DEF Least
<1>5. more \in Seq(Pairs) /\ Len(more) = m /\ \A j \in 1..m : more[j] = file[Len(back) + j]
  <2>1. \A j \in 1..m : Len(back) + j \in 1..Len(file)
    BY <1>3, <1>4
  <2> QED
    BY <1>3, <1>4, <2>1
<1>6. /\ back' \in Seq(Pairs) /\ Len(back') = Len(back) + m
      /\ \A j \in 1..Len(back) : back'[j] = back[j]
      /\ \A j \in Len(back) + 1 .. Len(back) + m : back'[j] = more[j - Len(back)]
  <2> HIDE DEF more
  <2>1. /\ back \o more \in Seq(Pairs) /\ Len(back \o more) = Len(back) + Len(more)
        /\ \A j \in 1..Len(back) : (back \o more)[j] = back[j]
        /\ \A j \in Len(back) + 1 .. Len(back) + Len(more) :
              (back \o more)[j] = more[j - Len(back)]
    BY <1>3, <1>5, Concatenated, Zenon
  <2>2. back' = back \o more
    BY <1>1 DEF more
  <2> QED
    BY <1>5, <2>1, <2>2
<1>7. \A j \in 1..Len(back') : back'[j] = file[j]
  <2> HIDE DEF more
  <2> TAKE j \in 1..Len(back')
  <2>1. CASE j \in 1..Len(back)
    BY <1>3, <1>6, <2>1
  <2>2. CASE j \in Len(back) + 1 .. Len(back) + m
    <3>1. j - Len(back) \in 1..m /\ Len(back) + (j - Len(back)) = j
      BY <1>3, <1>4, <2>2
    <3> QED
      BY <1>5, <1>6, <2>2, <3>1
  <2> QED
    BY <1>3, <1>4, <1>6, <2>1, <2>2
<1> HIDE DEF more
<1>8. ReadBackPlace'
  BY <1>2, <1>3, <1>4, <1>6, <1>7 DEF ReadBackPlace, Ended, arguments, writing
<1>9. TypeOK' /\ Aligned'
  BY <1>2, <1>6 DEF IInv, TypeOK, Aligned, Stages, arguments, world, reading, writing
<1>10. InputPlace' /\ KeyPlace' /\ PadAligned'
  BY <1>2 DEF IInv, InputPlace, KeyPlace, PadAligned, Streaming, Before, Ended,
              arguments, reading, writing
<1> QED
  BY <1>8, <1>9, <1>10 DEF IInv

\* The storage changes the file, which no part of the invariant relies on yet.
LEMMA CorruptKeeps == ASSUME IInv, Corrupt PROVE IInv'
<1>1. PICK i \in 1..Len(file) : file' = [file EXCEPT ![i] = Junk]
  BY DEF Corrupt
<1>2. stage \in {"chunk", "pad"} /\ UNCHANGED <<world, stream>>
  BY DEF Corrupt
<1>3. file' \in Seq(Pairs)
  <2>1. file \in Seq(Pairs) /\ Junk \in Pairs
    BY DEF IInv, TypeOK, Junk, Pairs
  <2> QED
    BY <1>1, <2>1
<1>4. TypeOK'
  BY <1>2, <1>3 DEF IInv, TypeOK, world, stream, arguments, reading, writing
<1>5. InputPlace' /\ KeyPlace' /\ PadAligned' /\ Aligned'
  BY <1>2 DEF IInv, InputPlace, KeyPlace, PadAligned, Aligned, Taken, Before,
              stream, arguments, reading, writing
<1>6. ReadBackPlace'
  BY <1>2 DEF IInv, ReadBackPlace, Ended, stream, arguments, reading, writing
<1> QED
  BY <1>4, <1>5, <1>6 DEF IInv

\* What has ended claims only what has been written.
LEMMA EndKeeps ==
    ASSUME IInv, stage' \in Ended,
           UNCHANGED <<arguments, world, reading, writing, file, back>>
    PROVE  IInv'
<1>1. TypeOK' /\ Aligned'
  BY DEF IInv, TypeOK, Aligned, Stages, arguments, world, reading, writing
<1> QED
  BY <1>1 DEF IInv, InputPlace, KeyPlace, PadAligned, ReadBackPlace, Ended, Streaming

\* The world does not touch the stream.
LEMMA WorldKeeps ==
    ASSUME IInv, UNCHANGED <<stream, file>>, TypeOK'
    PROVE  IInv'
<1>1. InputPlace' /\ KeyPlace' /\ PadAligned' /\ Aligned'
  BY DEF stream, arguments, reading, writing, IInv, InputPlace, KeyPlace, PadAligned,
         Aligned, Taken, Before
<1>2. ReadBackPlace'
  BY DEF stream, arguments, writing, IInv, ReadBackPlace
<1> QED
  BY <1>1, <1>2 DEF IInv

\* Every step keeps the invariant.
LEMMA NextKeeps == IInv /\ [Next]_vars => IInv'
<1> SUFFICES ASSUME IInv, [Next]_vars PROVE IInv'
  OBVIOUS
<1>1. CASE Verified
  BY <1>1, EndKeeps DEF Verified, Ended
<1>2. CASE Fail
  BY <1>2, EndKeeps DEF Fail, Ended
<1>3. CASE Interrupt
  <2>1. TypeOK'
    BY <1>3 DEF Interrupt, stream, arguments, reading, writing, IInv, TypeOK
  <2> QED
    BY <1>3, <2>1, WorldKeeps DEF Interrupt
<1>4. CASE Resize
  <2>1. inputNow' \in Nat /\ keyNow' \in Nat /\ resizes' \in Nat
    <3>1. inputNow \in Nat /\ keyNow \in Nat /\ resizes \in Nat
      BY DEF IInv, TypeOK
    <3>2. /\ resizes' = resizes + 1
          /\ inputNow' \in Lengths \/ inputNow' = inputNow
          /\ keyNow' \in Lengths \/ keyNow' = keyNow
      BY <1>4 DEF Resize
    <3>3. \A l \in Lengths : l \in Nat
      BY LengthsAssumption
    <3> QED
      BY <3>1, <3>2, <3>3
  <2>2. TypeOK'
    BY <1>4, <2>1 DEF Resize, stream, arguments, reading, writing, IInv, TypeOK
  <2> QED
    BY <1>4, <2>2, WorldKeeps DEF Resize
<1>5. CASE UNCHANGED vars
  <2>1. TypeOK' /\ UNCHANGED <<stream, file>>
    BY <1>5 DEF vars, stream, arguments, reading, writing, world, IInv, TypeOK
  <2> QED
    BY <2>1, WorldKeeps
<1>6. CASE WriteSome
  BY <1>6, WriteKeeps DEF WriteSome
<1> QED
  BY <1>1, <1>2, <1>3, <1>4, <1>5, <1>6, BeginKeeps, ReadChunkKeeps, FillPadKeeps,
     FinishKeeps, ReadBackKeeps, CorruptKeeps DEF Next, Step

\* The invariant holds of every reachable state.
LEMMA InvHolds == Spec => []IInv
BY InitEstablishesInv, NextKeeps, PTL DEF Spec

\* Every variable keeps its type, and the pad fits its chunk.
THEOREM TypeCorrect == Spec => []TypeOK
<1>1. IInv => TypeOK
  BY DEF IInv
<1> QED
  BY <1>1, InvHolds, PTL

(***************************************************************************)
(* Byte i of the output is byte i of the input with byte i % key_len of    *)
(* the key, for every chunk size and every length (stream.rs:63-91).       *)
(***************************************************************************)
THEOREM BytesAligned == Spec => []Aligned
<1>1. IInv => Aligned
  BY DEF IInv
<1> QED
  BY <1>1, InvHolds, PTL

(***************************************************************************)
(* Success means a file that is the output, as long as the input was, and  *)
(* an input that has not grown (stream.rs:99, verify.rs:29-68).            *)
(***************************************************************************)
THEOREM OutputIsWhole == Spec => WholeOutput
<1>1. ASSUME IInv, [Next]_vars, stage # "verify", stage' = "verify"
      PROVE  inputNow <= inputLen
  <2>1. Finish
    BY <1>1 DEF Next, Step, Begin, ReadChunk, FillPad, WriteSome, Write, ReadBack,
                Verified, Fail, Interrupt, Resize, Corrupt, stream, vars, Ended
  <2>2. /\ stage = "chunk" /\ remaining = 0 /\ inputNow <= inputAt
    BY <2>1 DEF Finish, EofOK
  <2> QED
    BY <1>1, <2>2 DEF IInv, InputPlace, TypeOK, Ended
<1>2. ASSUME IInv, [Next]_vars, stage # "ok", stage' = "ok"
      PROVE  file = output /\ Len(file) = inputLen
  <2>1. Verified
    BY <1>2 DEF Next, Step, Begin, ReadChunk, FillPad, WriteSome, Write, ReadBack,
                Finish, Fail, Interrupt, Resize, Corrupt, stream, vars
  <2>2. stage = "verify" /\ Len(back) = Len(file) /\ back = output
    BY <2>1 DEF Verified, SameDigest
  <2>3. /\ file \in Seq(Pairs) /\ back \in Seq(Pairs) /\ Len(output) = inputLen
        /\ \A j \in 1..Len(file) : back[j] = file[j]
    BY <1>2, <2>2 DEF IInv, TypeOK, ReadBackPlace
  <2>4. file = back
    BY <2>2, <2>3
  <2> QED
    BY <2>2, <2>3, <2>4
<1> QED
  BY <1>1, <1>2, InvHolds, PTL DEF Spec, WholeOutput

-----------------------------------------------------------------------------
(* No refusal without a reason, and no endless loop *)

\* A piece that is written holds as many bytes as were accepted.
LEMMA BytesArePairs ==
    ASSUME IInv, stage = "pad", Len(pad) = n, NEW m \in 1..n - written
    PROVE  Bytes(m) \in Seq(Pairs) /\ Len(Bytes(m)) = m
<1>1. /\ n \in Nat /\ written \in Nat /\ inputAt - n \in Nat /\ pad \in [1..n -> Nat]
      /\ m \in Nat /\ \A j \in 1..m : written + j \in 1..n
  <2>1. n \in Nat /\ written \in Nat /\ pad \in Seq(Nat)
    BY ChunkAssumption DEF IInv, TypeOK
  <2>2. inputAt - n \in Nat
    BY <2>1 DEF IInv, InputPlace, Ended
  <2> QED
    BY <2>1, <2>2
<1>2. \A j \in 1..m : <<inputAt - n + written + j - 1, pad[written + j]>> \in Pairs
  BY <1>1 DEF Pairs
<1>3. Bytes(m) \in [1..m -> Pairs]
  BY <1>2, Zenon DEF Bytes
<1> QED
  BY <1>1, <1>3

\* The two ghosts agree in length however the storage changes the file.
Kept == Len(file) = Len(output)

\* What is accepted is what the digest is of.
LEMMA KeptHolds == Spec => []Kept
<1>1. Init => Kept
  BY DEF Init, Kept
<1>2. ASSUME IInv, Kept, [Next]_vars PROVE Kept'
  <2>1. file \in Seq(Pairs) /\ output \in Seq(Pairs)
    BY <1>2 DEF IInv, TypeOK
  <2>2. CASE UNCHANGED <<file, output>>
    BY <1>2, <2>2 DEF Kept
  <2>3. ASSUME NEW m \in 1..n - written, Write(m) PROVE Kept'
    <3>1. file' = file \o Bytes(m) /\ output' = output \o Bytes(m)
      BY <2>3 DEF Write
    <3>2. Bytes(m) \in Seq(Pairs)
      BY <1>2, <2>3, BytesArePairs DEF Write
    <3>3. /\ Len(file \o Bytes(m)) = Len(file) + Len(Bytes(m))
          /\ Len(output \o Bytes(m)) = Len(output) + Len(Bytes(m))
      BY <2>1, <3>2, Concatenated
    <3> QED
      BY <1>2, <3>1, <3>3 DEF Kept
  <2>4. CASE Corrupt
    BY <1>2, <2>1, <2>4 DEF Corrupt, stream, writing, Kept
  <2> QED
    BY <1>2, <2>2, <2>3, <2>4
       DEF Next, Step, Begin, ReadChunk, FillPad, WriteSome, Finish, ReadBack, Verified,
           Fail, Interrupt, Resize, vars, stream, writing
<1> QED
  BY <1>1, <1>2, InvHolds, PTL DEF Spec

\* Every turn of the inner loop takes a byte of the key, and no more than fit.
LEMMA PadGrows ==
    ASSUME IInv, FillPad
    PROVE  Take \in Nat /\ Take > 0 /\ Len(pad') = Len(pad) + Take
<1>1. /\ n \in Nat /\ keyLen \in Nat /\ keyLen > 0 /\ keyPos \in Nat /\ keyPos <= keyLen
      /\ pad \in Seq(Nat) /\ Len(pad) \in Nat /\ Len(pad) < n /\ keyAt \in Nat
      /\ Chunk \in Nat /\ Chunk > 0
  BY ChunkAssumption DEF FillPad, IInv, TypeOK, KeyPlace, Streaming
<1>2. Pos \in Nat /\ Pos < keyLen /\ Handle \in Nat
  BY <1>1 DEF Pos, Handle
<1>3. Take \in Nat /\ Take > 0
  BY <1>1, <1>2 DEF Take, Least
<1> DEFINE p == IF cached THEN Pos ELSE Handle
<1>4. Positions(p, Take) \in Seq(Nat) /\ Len(Positions(p, Take)) = Take
  BY <1>2, <1>3 DEF Positions
<1>5. pad' = pad \o Positions(p, Take)
  BY DEF FillPad
<1> HIDE DEF p
<1>6. Len(pad \o Positions(p, Take)) = Len(pad) + Len(Positions(p, Take))
  BY <1>1, <1>4, Concatenated
<1> QED
  BY <1>3, <1>4, <1>5, <1>6

\* Writing a piece takes no byte of the key.
LEMMA WriteTakes ==
    ASSUME IInv, NEW m \in 1..n - written, Write(m)
    PROVE  Taken' = Taken
<1>1. /\ n \in Nat /\ written \in Nat /\ output \in Seq(Pairs) /\ Len(pad) = n
      /\ stage = "pad"
  BY ChunkAssumption DEF Write, IInv, TypeOK
<1>2. Len(output') = Len(output) + m
  <2>1. Bytes(m) \in Seq(Pairs) /\ Len(Bytes(m)) = m
    BY <1>1, BytesArePairs
  <2>2. Len(output \o Bytes(m)) = Len(output) + Len(Bytes(m))
    BY <1>1, <2>1, Concatenated
  <2> QED
    BY <2>1, <2>2 DEF Write
<1>3. CASE written + m = n
  <2>1. Len(output) \in Nat /\ stage' = "chunk" /\ written' = 0 /\ m \in Nat
    BY <1>1, <1>3 DEF Write
  <2>2. Taken = Len(output) - written + n /\ Taken' = Len(output') - 0 + 0
    BY <1>1, <2>1 DEF Taken, Before
  <2> QED
    BY <1>1, <1>2, <1>3, <2>1, <2>2
<1>4. CASE written + m # n
  <2>1. Len(output) \in Nat /\ stage' = "pad" /\ written' = written + m /\ pad' = pad
        /\ m \in Nat
    BY <1>1, <1>4 DEF Write, reading
  <2>2. /\ Taken = Len(output) - written + n
        /\ Taken' = Len(output') - (written + m) + n
    BY <1>1, <2>1 DEF Taken, Before
  <2> QED
    BY <1>1, <1>2, <2>1, <2>2
<1> QED
  BY <1>3, <1>4

\* Nothing has been disturbed before it is.
LEMMA UndisturbedBefore == [Next]_vars /\ resizes \in Nat /\ Undisturbed' => Undisturbed
BY DEF Next, Step, Begin, ReadChunk, FillPad, WriteSome, Write, Finish, ReadBack, Verified,
       Fail, Interrupt, Resize, Corrupt, Undisturbed, vars, world

\* While nothing disturbs the stream, no check refuses a key that fits.
LEMMA NoRefusal ==
    ASSUME IInv, Kept, Untroubled, Undisturbed, ArgumentsOK
    PROVE  ~CheckFails
<1>1. /\ inputNow = inputLen /\ keyNow = keyLen /\ file = output /\ ~cancelled
      /\ stage \in Streaming => (~repeat => keyPos = Taken)
  BY DEF Untroubled, Undisturbed
<1>2. /\ inputLen \in Nat /\ keyLen \in Nat /\ n \in Nat /\ remaining \in Nat
      /\ Len(pad) \in Nat /\ Chunk \in Nat /\ Chunk > 0
  BY ChunkAssumption DEF IInv, TypeOK
<1>3. stage = "begin" => BeginOK
  BY <1>1, <1>2 DEF BeginOK
<1>4. stage = "chunk" /\ remaining > 0 => ChunkOK
  BY <1>1, <1>2 DEF IInv, InputPlace, Ended, ChunkOK, Least
<1>5. ASSUME stage = "pad", Len(pad) < n PROVE PadOK
  <2>1. /\ keyPos \in Nat /\ keyPos <= keyLen /\ keyLen > 0 /\ (~cached => keyAt = keyPos)
    BY <1>5 DEF IInv, TypeOK, KeyPlace, Streaming
  <2>2. keyPos = keyLen => repeat
    <3>1. Taken = Before + Len(pad) /\ Before \in Nat /\ Before + remaining = inputLen
          /\ n <= remaining
      BY <1>5 DEF Taken, IInv, InputPlace, Ended
    <3>2. ~repeat => keyPos < keyLen
      BY <1>1, <1>2, <1>5, <3>1 DEF ArgumentsOK, Streaming
    <3> QED
      BY <1>2, <3>2
  <2>3. ~cached => Handle = Pos
    BY <2>1 DEF Handle, Pos
  <2>4. Pos \in Nat /\ Pos <= keyLen /\ Pos + Take <= keyLen
    <3>1. Pos \in Nat /\ Pos <= keyLen
      BY <1>2, <2>1 DEF Pos
    <3> QED
      BY <1>2, <1>5, <3>1 DEF Take, Least
  <2> QED
    BY <1>1, <2>2, <2>3, <2>4 DEF PadOK
<1>6. stage = "chunk" /\ remaining = 0 => EofOK
  BY <1>1, <1>2 DEF IInv, TypeOK, InputPlace, Before, Ended, EofOK
<1>7. stage = "verify" /\ Len(back) = Len(file) => SameDigest
  <2>1. SUFFICES ASSUME stage = "verify", Len(back) = Len(file) PROVE back = file
    BY <1>1 DEF SameDigest
  <2> QED
    BY <2>1 DEF IInv, TypeOK, ReadBackPlace
<1> QED
  BY <1>1, <1>3, <1>4, <1>5, <1>6, <1>7 DEF CheckFails

\* Whatever happens to a stream, it is untroubled while nothing has disturbed it.
LEMMA UntroubledKept ==
    ASSUME IInv, Kept, Untroubled, [Next]_vars
    PROVE  Untroubled'
<1> SUFFICES ASSUME Undisturbed'
             PROVE  /\ inputNow' = inputLen' /\ keyNow' = keyLen' /\ file' = output'
                    /\ stage' \in Streaming =>
                          ArgumentsOK' /\ (~repeat' => keyPos' = Taken')
                    /\ stage' = "error" => ~ArgumentsOK'
  BY DEF Untroubled
<1>1. Undisturbed
  BY UndisturbedBefore DEF IInv, TypeOK
<1>2. /\ inputNow = inputLen /\ keyNow = keyLen /\ file = output
      /\ stage \in Streaming => ArgumentsOK /\ (~repeat => keyPos = Taken)
      /\ stage = "error" => ~ArgumentsOK
  BY <1>1 DEF Untroubled
<1>3. ASSUME UNCHANGED <<arguments, inputNow, keyNow>>
      PROVE  inputNow' = inputLen' /\ keyNow' = keyLen' /\ (ArgumentsOK' <=> ArgumentsOK)
  BY <1>2, <1>3 DEF arguments, ArgumentsOK
<1>4. CASE Begin
  <2>1. stage = "begin" /\ stage' = "chunk" /\ BeginOK
        /\ UNCHANGED <<arguments, inputNow, keyNow, keyPos, writing, file>>
    BY <1>4 DEF Begin, world
  <2>2. Taken' = 0 /\ keyPos' = 0
    BY <2>1 DEF IInv, InputPlace, KeyPlace, TypeOK, Taken, Before, writing, Ended
  <2> QED
    BY <1>2, <1>3, <2>1, <2>2 DEF BeginOK, writing
<1>5. CASE ReadChunk
  <2>1. stage = "chunk" /\ stage' = "pad" /\ pad' = <<>>
        /\ UNCHANGED <<arguments, inputNow, keyNow, keyPos, writing, file>>
    BY <1>5 DEF ReadChunk, world
  <2>2. Taken' = Taken
    BY <2>1 DEF IInv, InputPlace, Taken, Before, writing, Ended
  <2> QED
    BY <1>2, <1>3, <2>1, <2>2 DEF Streaming, writing, arguments
<1>6. CASE FillPad
  <2>1. stage = "pad" /\ stage' = "pad" /\ Len(pad) < n /\ PadOK
        /\ keyPos' = Pos + Take /\ UNCHANGED <<arguments, inputNow, keyNow, writing, file>>
    BY <1>6 DEF FillPad, world
  <2>2. Taken' = Taken + Take
    <3>1. Len(pad') = Len(pad) + Take
      BY <1>6, PadGrows
    <3>2. Len(pad) \in Nat /\ Before \in Nat /\ Take \in Nat
      BY <1>6, <2>1, PadGrows DEF IInv, TypeOK, InputPlace, Ended
    <3> QED
      BY <2>1, <3>1, <3>2 DEF Taken, Before, writing
  <2>3. ~repeat => Pos = keyPos
    BY <2>1 DEF PadOK, Pos
  <2> QED
    BY <1>2, <1>3, <2>1, <2>2, <2>3 DEF Streaming, writing, arguments
<1>7. ASSUME NEW m \in 1..n - written, Write(m)
      PROVE  /\ inputNow' = inputLen' /\ keyNow' = keyLen' /\ file' = output'
             /\ stage' \in Streaming => ArgumentsOK' /\ (~repeat' => keyPos' = Taken')
             /\ stage' = "error" => ~ArgumentsOK'
  <2>1. stage = "pad" /\ stage' \in {"pad", "chunk"}
        /\ UNCHANGED <<arguments, inputNow, keyNow, keyPos, repeat>>
        /\ file' = file \o Bytes(m) /\ output' = output \o Bytes(m)
    BY <1>7 DEF Write, world, reading, arguments
  <2>2. Taken' = Taken
    BY <1>7, WriteTakes
  <2> QED
    BY <1>2, <1>3, <2>1, <2>2 DEF Streaming
<1>8. CASE Finish \/ ReadBack \/ Verified
  <2>1. stage' \in {"verify", "ok"} /\ UNCHANGED <<arguments, inputNow, keyNow, writing, file>>
    BY <1>8 DEF Finish, ReadBack, Verified, world
  <2> QED
    BY <1>2, <1>3, <2>1 DEF Streaming, writing
<1>9. CASE Fail
  <2>1. ~ArgumentsOK
    BY <1>1, <1>9, NoRefusal DEF Fail, Undisturbed
  <2>2. stage' = "error" /\ UNCHANGED <<arguments, inputNow, keyNow, writing, file>>
    BY <1>9 DEF Fail, world
  <2> QED
    BY <1>2, <1>3, <2>1, <2>2 DEF Streaming, writing
<1>10. CASE Interrupt
  BY <1>10 DEF Interrupt, Undisturbed
<1>11. CASE Resize
  BY <1>11 DEF Resize, Undisturbed, IInv, TypeOK
<1>12. CASE Corrupt
  BY <1>1, <1>12 DEF Corrupt, Undisturbed
<1>13. CASE UNCHANGED vars
  <2>1. /\ UNCHANGED <<arguments, inputNow, keyNow, stage, keyPos, file, writing, pad, repeat>>
    BY <1>13 DEF vars, world, reading, arguments
  <2> QED
    BY <1>2, <1>3, <2>1 DEF writing, Taken, Before
<1>14. CASE WriteSome
  BY <1>7, <1>14 DEF WriteSome
<1> QED
  BY <1>4, <1>5, <1>6, <1>8, <1>9, <1>10, <1>11, <1>12, <1>13, <1>14 DEF Next, Step

(***************************************************************************)
(* Left alone, xor returns an error only for a key that is empty or too    *)
(* short: the cached and the repeated key, every length and every chunk    *)
(* size pass all its checks (stream.rs:52-100, verify.rs:45-68).           *)
(***************************************************************************)
THEOREM NeverRefusedInVain == Spec => [](Undisturbed /\ stage = "error" => ~ArgumentsOK)
<1>1. Init => Untroubled
  BY DEF Init, Untroubled, Streaming
<1>2. IInv /\ Kept /\ Untroubled /\ [Next]_vars => Untroubled'
  BY UntroubledKept
<1>3. Untroubled => (Undisturbed /\ stage = "error" => ~ArgumentsOK)
  BY DEF Untroubled
<1> QED
  BY <1>1, <1>2, <1>3, InvHolds, KeptHolds, PTL DEF Spec

\* What the stages say of the numbers in Rank.
LEMMA RankIs ==
    ASSUME IInv
    PROVE  /\ Rank \in Nat
           /\ stage \notin Ended => Rank > 0
<1>1. /\ inputLen \in Nat /\ remaining \in Nat /\ n \in Nat /\ written \in Nat
      /\ Len(pad) \in Nat /\ Len(pad) <= n /\ Len(file) \in Nat /\ Len(back) \in Nat
      /\ stage \in Stages
  BY ChunkAssumption DEF IInv, TypeOK
<1>2. CASE stage = "pad"
  <2>1. n <= remaining /\ written <= n
    BY <1>1, <1>2 DEF IInv, InputPlace
  <2>2. Rank = 3 * remaining + inputLen + 2 - Len(pad) - written
    BY <1>2 DEF Rank
  <2> QED
    BY <1>1, <2>1, <2>2
<1>3. CASE stage = "verify"
  <2>1. Len(back) <= Len(file)
    BY <1>3 DEF IInv, ReadBackPlace
  <2>2. Rank = Len(file) - Len(back) + 1
    BY <1>3 DEF Rank
  <2> QED
    BY <1>1, <2>1, <2>2
<1>4. CASE stage = "begin" \/ stage = "chunk"
  <2>1. Rank = 4 * inputLen + 4 \/ Rank = 3 * remaining + inputLen + 3
    BY <1>4 DEF Rank
  <2> QED
    BY <1>1, <2>1
<1>5. CASE stage \in Ended
  BY <1>5 DEF Rank, Ended
<1>6. stage \in {"pad", "verify", "begin", "chunk"} \cup Ended
  BY <1>1 DEF Stages
<1> QED
  BY <1>2, <1>3, <1>4, <1>5, <1>6

\* Every step of the program brings its end nearer.
LEMMA StepLowers ==
    ASSUME IInv, Kept, Step
    PROVE  Rank' < Rank
<1>1. /\ inputLen \in Nat /\ remaining \in Nat /\ n \in Nat /\ written \in Nat
      /\ Len(pad) \in Nat /\ Len(pad) <= n /\ Len(file) \in Nat /\ Len(back) \in Nat
  BY ChunkAssumption DEF IInv, TypeOK
<1>2. CASE Begin
  <2>1. /\ stage = "begin" /\ stage' = "chunk" /\ inputLen' = inputLen
        /\ remaining' = remaining
    BY <1>2 DEF Begin, arguments, writing
  <2>2. remaining = inputLen
    BY <1>1, <2>1 DEF IInv, InputPlace, KeyPlace, Before, Ended
  <2> QED
    BY <1>1, <2>1, <2>2 DEF Rank
<1>3. CASE ReadChunk
  <2>1. /\ stage = "chunk" /\ stage' = "pad" /\ inputLen' = inputLen
        /\ remaining' = remaining /\ pad' = <<>> /\ written' = written
    BY <1>3 DEF ReadChunk, arguments, writing
  <2>2. written = 0 /\ Len(pad') = 0
    BY <2>1 DEF IInv, InputPlace
  <2> QED
    BY <1>1, <2>1, <2>2 DEF Rank
<1>4. CASE FillPad
  <2>1. /\ stage = "pad" /\ stage' = "pad" /\ inputLen' = inputLen
        /\ remaining' = remaining /\ written' = written
    BY <1>4 DEF FillPad, arguments, writing
  <2>2. Take \in Nat /\ Take > 0 /\ Len(pad') = Len(pad) + Take
    BY <1>4, PadGrows
  <2>3. /\ Rank = 3 * remaining + inputLen + 2 - Len(pad) - written
        /\ Rank' = 3 * remaining + inputLen + 2 - Len(pad') - written
    BY <2>1 DEF Rank
  <2> QED
    BY <1>1, <2>2, <2>3
<1>5. ASSUME NEW m \in 1..n - written, Write(m) PROVE Rank' < Rank
  <2>1. /\ stage = "pad" /\ inputLen' = inputLen /\ pad' = pad /\ Len(pad) = n
        /\ m \in Nat /\ m > 0 /\ n > 0 /\ written < n
    BY <1>1, <1>5 DEF Write, arguments, reading
  <2>2. Rank = 3 * remaining + inputLen + 2 - n - written /\ n <= remaining
    BY <2>1 DEF Rank, IInv, InputPlace
  <2>3. CASE written + m = n
    <3>1. stage' = "chunk" /\ remaining' = remaining - n
      BY <1>5, <2>3 DEF Write
    <3>2. Rank' = 3 * (remaining - n) + inputLen + 3
      BY <2>1, <3>1 DEF Rank
    <3> QED
      BY <1>1, <2>1, <2>2, <3>2
  <2>4. CASE written + m # n
    <3>1. stage' = "pad" /\ remaining' = remaining /\ written' = written + m
      BY <1>5, <2>4 DEF Write
    <3>2. Rank' = 3 * remaining + inputLen + 2 - n - (written + m)
      BY <2>1, <3>1 DEF Rank
    <3> QED
      BY <1>1, <2>1, <2>2, <3>2
  <2> QED
    BY <2>3, <2>4
<1>6. CASE Finish
  <2>1. /\ stage = "chunk" /\ stage' = "verify" /\ file' = file /\ back' = back
        /\ remaining = 0 /\ Len(output) = inputLen
    BY <1>6 DEF Finish, EofOK
  <2>2. back = <<>> /\ Len(file) = inputLen
    BY <2>1 DEF IInv, ReadBackPlace, Ended, Kept
  <2>3. Rank = inputLen + 3 /\ Rank' = inputLen - 0 + 1
    BY <1>1, <2>1, <2>2 DEF Rank
  <2> QED
    BY <1>1, <2>3
<1>7. CASE ReadBack
  <2>1. PICK m \in 1..Least(Chunk, Len(file) - Len(back)) :
           back' = back \o [j \in 1..m |-> file[Len(back) + j]]
    BY <1>7 DEF ReadBack
  <2> DEFINE more == [j \in 1..m |-> file[Len(back) + j]]
  <2>2. stage = "verify" /\ stage' = "verify" /\ file' = file
    BY <1>7 DEF ReadBack
  <2>3. Len(back) <= Len(file) /\ file \in Seq(Pairs) /\ back \in Seq(Pairs)
    BY <2>2 DEF IInv, TypeOK, ReadBackPlace
  <2>4. m \in Nat /\ m > 0 /\ Len(back) + m <= Len(file)
    BY <1>1, <2>3, ChunkAssumption DEF Least
  <2>5. more \in Seq(Pairs) /\ Len(more) = m
    <3>1. \A j \in 1..m : Len(back) + j \in 1..Len(file)
      BY <1>1, <2>4
    <3> QED
      BY <2>3, <2>4, <3>1
  <2>6. back' = back \o more
    BY <2>1
  <2> HIDE DEF more
  <2>7. Len(back') = Len(back) + m
    BY <2>3, <2>5, <2>6, Concatenated
  <2> QED
    BY <1>1, <2>2, <2>4, <2>7 DEF Rank
<1>8. CASE Verified \/ Fail
  <2>1. stage \notin Ended /\ stage' \in Ended
    BY <1>8 DEF Verified, Fail, Ended
  <2>2. Rank' = 0
    BY <2>1 DEF Rank, Ended
  <2> QED
    BY <2>1, <2>2, RankIs
<1> QED
  BY <1>2, <1>3, <1>4, <1>5, <1>6, <1>7, <1>8 DEF Step, WriteSome

(***************************************************************************)
(* xor and read_back take at most 4 * length + 4 steps, a step being a     *)
(* check, a read, a turn of the inner loop or a piece that is accepted:    *)
(* every one of them lowers Rank, and nothing that happens to the files or *)
(* to the flag raises it (stream.rs:67-98, verify.rs:49-68).               *)
(***************************************************************************)
THEOREM EveryTurnCounts ==
    Spec => [](Rank \in Nat) /\ [][IF Step THEN Rank' < Rank ELSE Rank' = Rank]_vars
<1>1. IInv => Rank \in Nat
  BY RankIs
<1>2. ASSUME IInv, Kept, [Next]_vars, ~Step PROVE Rank' = Rank
  <2>1. CASE Interrupt \/ Resize \/ UNCHANGED vars
    <3>1. UNCHANGED <<inputLen, remaining, pad, written, file, back, stage>>
      BY <2>1 DEF Interrupt, Resize, vars, stream, arguments, reading, writing
    <3> QED
      BY <3>1 DEF Rank
  <2>2. CASE Corrupt
    <3>1. /\ UNCHANGED <<inputLen, remaining, pad, written, back, stage>>
          /\ stage # "verify"
      BY <2>2 DEF Corrupt, stream, arguments, reading, writing
    <3> QED
      BY <3>1 DEF Rank
  <2> QED
    BY <1>2, <2>1, <2>2 DEF Next
<1>3. IInv /\ Kept /\ [Next]_vars => (IF Step THEN Rank' < Rank ELSE Rank' = Rank)
  BY <1>2, StepLowers
<1> QED
  BY <1>1, <1>3, InvHolds, KeptHolds, PTL DEF Spec
=============================================================================
