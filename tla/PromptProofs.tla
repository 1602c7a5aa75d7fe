---------------------------- MODULE PromptProofs ----------------------------
(***************************************************************************)
(* The prompts of Prompt, proved for any number of keys, repeats and       *)
(* failing calls: the console goes back to the shell unless giving it back *)
(* fails itself, and the loops that edit UTF-16 units do to them what the  *)
(* user means to the characters.                                           *)
(***************************************************************************)
EXTENDS Prompt, Induction

-----------------------------------------------------------------------------
(* Steps that repeat, and the units of a line *)

\* A step taken no times leaves what there is; one more time takes it once more.
LEMMA TimesTaken ==
    ASSUME NEW S, NEW x \in S, NEW step \in [S -> S], NEW n \in Nat
    PROVE  /\ Times(step, x, 0) = x
           /\ Times(step, x, n) \in S
           /\ Times(step, x, n + 1) = step[Times(step, x, n)]
PROOF
<1>1. PICK m \in Nat : m = n + 1 OBVIOUS
<1>2. PICK g \in [1..m -> [S -> S]] : \A i \in 1..m : g[i] = step
  <2>1. [i \in 1..m |-> step] \in [1..m -> [S -> S]] OBVIOUS
  <2> QED BY <2>1
<1>3. PICK f \in [0..m -> S] : Turns(f, m, x, g, S) BY Recursion
<1>4. f[0] = x /\ \A i \in 1..m : f[i] = step[f[i - 1]] BY <1>2, <1>3 DEF Turns
<1>5. ASSUME NEW k \in 0..m PROVE Times(step, x, k) = f[k]
  <2>1. \E h : h = [i \in 0..k |-> IF i = 0 THEN x ELSE step[h[i - 1]]]
    <3>1. PICK h : h = [i \in 0..k |-> f[i]] OBVIOUS
    <3>2. h = [i \in 0..k |-> IF i = 0 THEN x ELSE step[h[i - 1]]] BY <1>4, <3>1
    <3> QED BY <3>2
  <2> DEFINE h == CHOOSE h : h = [i \in 0..k |-> IF i = 0 THEN x ELSE step[h[i - 1]]]
  <2>2. h = [i \in 0..k |-> IF i = 0 THEN x ELSE step[h[i - 1]]] BY <2>1
  <2>3. Times(step, x, k) = h[k] BY DEF Times
  <2>4. PICK e : /\ e = [i \in 0..k |-> IF i = 0 THEN x ELSE step[e[i - 1]]]
                 /\ Times(step, x, k) = e[k]
    <3> HIDE DEF h
    <3> QED BY <2>2, <2>3
  <2>5. Turns(e, k, x, g, S)
    <3>1. e[0] = x BY <2>4
    <3>2. \A i \in 1..k : e[i] = g[i][e[i - 1]] BY <1>2, <2>4
    <3> QED BY <3>1, <3>2 DEF Turns
  <2>6. \A i \in 0..k : e[i] = f[i] BY <1>3, <2>5, SameTurns
  <2> QED BY <2>4, <2>6
<1>6. f[0] = x /\ f[n] \in S /\ f[n + 1] = step[f[n]] BY <1>1, <1>4
<1> QED BY <1>1, <1>5, <1>6

\* The units of one more character are units.
LEMMA PutType == ASSUME NEW v \in Seq(Units), NEW c \in Chars PROVE Put(v, c) \in Seq(Units)
<1>1. CASE c = "astral"
  <2>1. Utf16(c) = <<"high", "low">> BY <1>1 DEF Utf16
  <2>2. Utf16(c) \in Seq(Units) BY <2>1 DEF Units
  <2> QED BY <2>2 DEF Put
<1>2. CASE c # "astral"
  <2>1. Utf16(c) = <<c>> /\ c \in Units BY <1>2 DEF Utf16, Chars, Units
  <2>2. Utf16(c) \in Seq(Units) BY <2>1
  <2> QED BY <2>2 DEF Put
<1> QED BY <1>1, <1>2

\* The units of a line, one character after the other.
LEMMA UnitsStep ==
    ASSUME NEW l \in Seq(Chars), NEW c \in Chars
    PROVE  /\ UnitsOf(<<>>) = <<>>
           /\ UnitsOf(l) \in Seq(Units)
           /\ UnitsOf(Append(l, c)) = Put(UnitsOf(l), c)
PROOF
<1>1. PICK S : S = Seq(Units) OBVIOUS
<1>2. PICK m \in Nat : m = Len(l) + 1 OBVIOUS
<1>3. PICK t \in Seq(Chars) : t = Append(l, c)
  <2>1. Append(l, c) \in Seq(Chars) OBVIOUS
  <2> QED BY <2>1
<1>4. Len(t) = m /\ t[m] = c /\ \A i \in 1..Len(l) : t[i] = l[i] BY <1>2, <1>3
<1>5. PICK g \in [1..m -> [S -> S]] : \A i \in 1..m, v \in S : g[i][v] = Put(v, t[i])
  <2> DEFINE g == [i \in 1..m |-> [v \in S |-> Put(v, t[i])]]
  <2>1. ASSUME NEW i \in 1..m, NEW v \in S PROVE Put(v, t[i]) \in S
    <3>1. t[i] \in Chars BY <1>4
    <3> QED BY <1>1, <3>1, PutType
  <2>2. g \in [1..m -> [S -> S]] BY <2>1
  <2>3. \A i \in 1..m, v \in S : g[i][v] = Put(v, t[i]) OBVIOUS
  <2> QED BY <2>2, <2>3
<1>6. <<>> \in S BY <1>1
<1>7. PICK f \in [0..m -> S] : Turns(f, m, <<>>, g, S) BY <1>6, Recursion
<1>8. f[0] = <<>> /\ \A i \in 1..m : f[i] = Put(f[i - 1], t[i])
    BY <1>5, <1>7 DEF Turns
<1>9. ASSUME NEW s \in Seq(Chars), Len(s) \in 0..m, \A i \in 1..Len(s) : s[i] = t[i]
      PROVE  UnitsOf(s) = f[Len(s)]
  <2>1. PICK k \in 0..m : k = Len(s) BY <1>9
  <2>2. \E h : h = [i \in 0..k |-> IF i = 0 THEN <<>> ELSE Put(h[i - 1], s[i])]
    <3>1. PICK h : h = [i \in 0..k |-> f[i]] OBVIOUS
    <3>2. \A i \in 0..k : f[i] = IF i = 0 THEN <<>> ELSE Put(f[i - 1], s[i])
        BY <1>8, <1>9, <2>1
    <3>3. h = [i \in 0..k |-> IF i = 0 THEN <<>> ELSE Put(h[i - 1], s[i])] BY <3>1, <3>2
    <3> QED BY <3>3
  <2> DEFINE h == CHOOSE h : h = [i \in 0..k |-> IF i = 0 THEN <<>> ELSE Put(h[i - 1], s[i])]
  <2>3. h = [i \in 0..k |-> IF i = 0 THEN <<>> ELSE Put(h[i - 1], s[i])] BY <2>2
  <2>4. UnitsOf(s) = h[k] BY <2>1 DEF UnitsOf
  <2>5. PICK e : /\ e = [i \in 0..k |-> IF i = 0 THEN <<>> ELSE Put(e[i - 1], s[i])]
                 /\ UnitsOf(s) = e[k]
    <3> HIDE DEF h
    <3> QED BY <2>3, <2>4
  <2>6. Turns(e, k, <<>>, g, S)
    <3>1. e[0] = <<>> BY <2>5
    <3>2. \A i \in 1..k : e[i] = Put(e[i - 1], t[i])
      <4>1. \A i \in 1..k : e[i] = Put(e[i - 1], s[i]) BY <2>5
      <4> QED BY <1>9, <2>1, <4>1
    <3>3. \A i \in 1..k : e[i - 1] \in S => e[i] = g[i][e[i - 1]] BY <1>5, <3>2
    <3> QED BY <3>1, <3>3 DEF Turns
  <2>7. \A i \in 0..k : e[i] = f[i] BY <1>7, <2>6, SameTurns
  <2> QED BY <2>1, <2>5, <2>7
<1>10. UnitsOf(<<>>) = f[0] BY <1>9
<1>11. UnitsOf(l) = f[Len(l)] BY <1>2, <1>4, <1>9
<1>12. UnitsOf(t) = f[m] BY <1>4, <1>9
<1>13. f[m] = Put(f[Len(l)], c) /\ f[Len(l)] \in S BY <1>2, <1>4, <1>8
<1> QED BY <1>1, <1>3, <1>8, <1>10, <1>11, <1>12, <1>13

\* A character adds its one unit to those of the line, an astral one its pair.
LEMMA UnitsAppended ==
    ASSUME NEW l \in Seq(Chars)
    PROVE  /\ UnitsOf(l) \in Seq(Units)
           /\ \A c \in Chars \ {"astral"} : UnitsOf(Append(l, c)) = Append(UnitsOf(l), c)
           /\ UnitsOf(Append(l, "astral")) = Append(Append(UnitsOf(l), "high"), "low")
PROOF
<1>1. UnitsOf(l) \in Seq(Units) /\ "astral" \in Chars BY UnitsStep DEF Chars
<1>2. ASSUME NEW c \in Chars \ {"astral"} PROVE UnitsOf(Append(l, c)) = Append(UnitsOf(l), c)
  <2>1. Utf16(c) = <<c>> /\ c \in Units BY DEF Utf16, Chars, Units
  <2>2. UnitsOf(Append(l, c)) = UnitsOf(l) \o <<c>> BY <2>1, UnitsStep DEF Put
  <2> QED BY <1>1, <2>1, <2>2
<1>3. UnitsOf(l) \o <<"high", "low">> = Append(Append(UnitsOf(l), "high"), "low")
    BY <1>1 DEF Units
<1>4. UnitsOf(Append(l, "astral")) = UnitsOf(l) \o <<"high", "low">>
    BY <1>1, UnitsStep DEF Utf16, Put
<1> QED BY <1>1, <1>2, <1>3, <1>4

-----------------------------------------------------------------------------
(* Characters and units *)

\* A line that is not empty is a shorter one and its last element.
LEMMA Nonempty ==
    ASSUME NEW S, NEW l \in Seq(S), l # <<>>
    PROVE  Front(l) \in Seq(S) /\ Last(l) \in S /\ l = Append(Front(l), Last(l))
BY DEF Front, Last

\* An empty line has no units.
LEMMA UnitsEmpty == UnitsOf(<<>>) = <<>>
BY UnitsStep, <<>> \in Seq(Chars), "letter" \in Chars DEF Chars

\* The last unit tells the last character, and removing it leaves the others.
LEMMA LastCharacter ==
    ASSUME NEW l \in Seq(Chars), NEW c \in Chars
    PROVE  LET v == UnitsOf(Append(l, c))
           IN  /\ Len(v) > Len(UnitsOf(l))
               /\ v # <<>>
               /\ Last(v) = IF c = "astral" THEN "low" ELSE c
               /\ RemoveCharacter(v) = UnitsOf(l)
PROOF
<1>1. PICK u \in Seq(Units) : u = UnitsOf(l) BY UnitsAppended
<1>2. CASE c = "astral"
  <2>1. PICK v : v = Append(Append(u, "high"), "low") OBVIOUS
  <2>2. UnitsOf(Append(l, c)) = v BY <1>1, <1>2, <2>1, UnitsAppended
  <2>3. /\ v \in Seq(Units) /\ Len(v) = Len(u) + 2
        /\ v[Len(u) + 1] = "high" /\ v[Len(u) + 2] = "low"
        /\ \A i \in 1..Len(u) : v[i] = u[i]
      BY <2>1 DEF Units
  <2>4. Last(v) = "low" /\ Len(v) > 1 /\ v[Len(v) - 1] = "high" BY <2>3 DEF Last
  <2>5. RemoveCharacter(v) = SubSeq(v, 1, Len(u)) BY <2>3, <2>4 DEF RemoveCharacter
  <2>6. SubSeq(v, 1, Len(u)) = u /\ Len(v) > Len(u) /\ v # <<>> BY <2>3
  <2> QED BY <1>1, <1>2, <2>2, <2>4, <2>5, <2>6
<1>3. CASE c # "astral"
  <2>1. PICK v : v = Append(u, c) OBVIOUS
  <2>2. UnitsOf(Append(l, c)) = v BY <1>1, <1>3, <2>1, UnitsAppended
  <2>3. /\ v \in Seq(Units) /\ Len(v) = Len(u) + 1
        /\ v[Len(u) + 1] = c /\ \A i \in 1..Len(u) : v[i] = u[i]
      BY <1>3, <2>1 DEF Units, Chars
  <2>4. Last(v) = c /\ Last(v) # "low" BY <1>3, <2>3 DEF Last, Chars
  <2>5. RemoveCharacter(v) = SubSeq(v, 1, Len(u)) BY <2>3, <2>4 DEF RemoveCharacter
  <2>6. SubSeq(v, 1, Len(u)) = u /\ Len(v) > Len(u) /\ v # <<>> BY <2>3
  <2> QED BY <1>1, <1>3, <2>2, <2>4, <2>5, <2>6
<1> QED BY <1>2, <1>3

\* Every character has a unit of its own.
LEMMA UnitsMany == ASSUME NEW l \in Seq(Chars) PROVE Len(UnitsOf(l)) >= Len(l)
PROOF
<1> DEFINE T == {m \in Seq(Chars) : Len(UnitsOf(m)) >= Len(m)}
<1>1. <<>> \in T BY UnitsEmpty
<1>2. ASSUME NEW m \in Seq(Chars), NEW c \in Chars, m \in T PROVE Append(m, c) \in T
  <2>1. Len(Append(m, c)) = Len(m) + 1 /\ Append(m, c) \in Seq(Chars) OBVIOUS
  <2>2. UnitsOf(m) \in Seq(Units) /\ UnitsOf(Append(m, c)) \in Seq(Units)
      BY <2>1, UnitsAppended
  <2>3. PICK u, v \in Seq(Units) : u = UnitsOf(m) /\ v = UnitsOf(Append(m, c)) BY <2>2
  <2>4. Len(v) > Len(u) BY <2>3, LastCharacter
  <2> QED BY <1>2, <2>1, <2>3, <2>4
<1>3. Seq(Chars) \subseteq T
  <2> HIDE DEF T
  <2> QED BY <1>1, <1>2, BySequence
<1> QED BY <1>3

\* No two lines have the same units.
LEMMA UnitsOnce ==
    ASSUME NEW l \in Seq(Chars), NEW m \in Seq(Chars), UnitsOf(l) = UnitsOf(m)
    PROVE  l = m
PROOF
<1> DEFINE T == {k \in Seq(Chars) : \A n \in Seq(Chars) : UnitsOf(k) = UnitsOf(n) => k = n}
<1>1. <<>> \in T
  <2>1. ASSUME NEW n \in Seq(Chars), n # <<>> PROVE UnitsOf(n) # <<>>
    <3>1. PICK j \in Seq(Chars), d \in Chars : n = Append(j, d) BY <2>1, Nonempty
    <3> QED BY <3>1, LastCharacter
  <2> QED BY <2>1, UnitsEmpty
<1>2. ASSUME NEW k \in Seq(Chars), NEW c \in Chars, k \in T PROVE Append(k, c) \in T
  <2> SUFFICES ASSUME NEW n \in Seq(Chars), UnitsOf(Append(k, c)) = UnitsOf(n)
               PROVE  Append(k, c) = n
      OBVIOUS
  <2>1. n # <<>> BY LastCharacter, UnitsEmpty
  <2>2. PICK j \in Seq(Chars), d \in Chars : n = Append(j, d) BY <2>1, Nonempty
  <2>3. UnitsOf(k) = UnitsOf(j) BY <2>2, LastCharacter
  <2>4. k = j BY <1>2, <2>3
  <2>5. (IF c = "astral" THEN "low" ELSE c) = (IF d = "astral" THEN "low" ELSE d)
      BY <2>2, LastCharacter
  <2>6. c = d BY <2>5 DEF Chars
  <2> QED BY <2>2, <2>4, <2>6
<1>3. Seq(Chars) \subseteq T
  <2> HIDE DEF T
  <2> QED BY <1>1, <1>2, BySequence
<1> QED BY <1>3

\* No half of a pair is left without the other: the units of a line are UTF-16.
LEMMA UnitsWellFormed == ASSUME NEW l \in Seq(Chars) PROVE WellFormed(UnitsOf(l))
PROOF
<1> DEFINE T == {m \in Seq(Chars) : WellFormed(UnitsOf(m))}
<1>1. <<>> \in T BY UnitsEmpty DEF WellFormed
<1>2. ASSUME NEW m \in Seq(Chars), NEW c \in Chars, m \in T PROVE Append(m, c) \in T
  <2>1. Append(m, c) \in Seq(Chars) OBVIOUS
  <2>2. PICK u \in Seq(Units) : u = UnitsOf(m) BY UnitsAppended
  <2>3. PICK v : v = UnitsOf(Append(m, c)) OBVIOUS
  <2>4. WellFormed(u) BY <1>2, <2>2
  <2>5. CASE c = "astral"
    <3>1. v = Append(Append(u, "high"), "low") BY <2>2, <2>3, <2>5, UnitsAppended
    <3>2. /\ Len(v) = Len(u) + 2 /\ DOMAIN v = 1..(Len(u) + 2)
          /\ v[Len(u) + 1] = "high" /\ v[Len(u) + 2] = "low"
          /\ \A i \in 1..Len(u) : v[i] = u[i]
        BY <3>1 DEF Units
    <3>3. ASSUME NEW i \in 1..(Len(u) + 2)
          PROVE  /\ v[i] = "high" => i < Len(v) /\ v[i + 1] = "low"
                 /\ v[i] = "low" => i > 1 /\ v[i - 1] = "high"
      <4>1. CASE i <= Len(u)
        <5>1. i \in 1..Len(u) /\ v[i] = u[i] BY <3>2, <4>1
        <5>2. /\ u[i] = "high" => i < Len(u) /\ u[i + 1] = "low"
              /\ u[i] = "low" => i > 1 /\ u[i - 1] = "high"
          <6>1. i \in DOMAIN u BY <5>1
          <6> QED BY <2>4, <6>1 DEF WellFormed
        <5>3. i < Len(u) => v[i + 1] = u[i + 1] BY <3>2, <5>1
        <5>4. i > 1 => v[i - 1] = u[i - 1]
          <6>1. i > 1 => i - 1 \in 1..Len(u) BY <5>1
          <6> QED BY <3>2, <6>1
        <5> QED BY <3>2, <5>1, <5>2, <5>3, <5>4
      <4>2. CASE i = Len(u) + 1
        <5>1. v[i] = "high" /\ v[i + 1] = "low" /\ i < Len(v) BY <3>2, <4>2
        <5> QED BY <5>1
      <4>3. CASE i = Len(u) + 2
        <5>1. v[i] = "low" /\ v[i - 1] = "high" /\ i > 1 BY <3>2, <4>3
        <5> QED BY <5>1
      <4> QED BY <4>1, <4>2, <4>3
    <3>4. WellFormed(v) BY <3>2, <3>3 DEF WellFormed
    <3> QED BY <2>1, <2>3, <3>4
  <2>6. CASE c # "astral"
    <3>1. v = Append(u, c) /\ c \notin {"high", "low"}
        BY <2>2, <2>3, <2>6, UnitsAppended DEF Chars
    <3>2. /\ Len(v) = Len(u) + 1 /\ DOMAIN v = 1..(Len(u) + 1)
          /\ v[Len(u) + 1] = c /\ \A i \in 1..Len(u) : v[i] = u[i]
        BY <3>1
    <3>3. WellFormed(v) BY <2>4, <3>1, <3>2 DEF WellFormed
    <3> QED BY <2>1, <2>3, <3>3
  <2> QED BY <2>5, <2>6
<1>3. Seq(Chars) \subseteq T
  <2> HIDE DEF T
  <2> QED BY <1>1, <1>2, BySequence
<1> QED BY <1>3

-----------------------------------------------------------------------------
(* Ctrl-W *)

\* LastWhere finds the last place that is a space, or is none, and 0 if no place is.
LEMMA LastFound ==
    ASSUME NEW l, NEW n \in Nat, NEW space \in BOOLEAN
    PROVE  /\ LastWhere(l, n, space) \in 0..n
           /\ LastWhere(l, n, space) # 0 => (l[LastWhere(l, n, space)] = "space") = space
           /\ \A i \in 1..n : (l[i] = "space") = space => i <= LastWhere(l, n, space)
PROOF
<1>1. PICK at : at = {i \in 1..n : (l[i] = "space") = space} OBVIOUS
<1>2. LastWhere(l, n, space) = IF at = {} THEN 0 ELSE CHOOSE i \in at : \A j \in at : j <= i
    BY <1>1 DEF LastWhere
<1>3. CASE at = {} BY <1>1, <1>2, <1>3
<1>4. CASE at # {}
  <2>1. at \subseteq 0..n BY <1>1
  <2>2. \E i \in at : \A j \in at : j <= i BY <1>4, <2>1, Greatest
  <2>3. PICK x \in at : x = LastWhere(l, n, space) /\ \A j \in at : j <= x
      BY <1>2, <1>4, <2>2
  <2> QED BY <1>1, <2>3
<1> QED BY <1>3, <1>4

\* A turn of the loops that remove a word leaves a prefix of the units.
LEMMA RemoveIfType ==
    ASSUME NEW v \in Seq(Units), NEW space \in BOOLEAN
    PROVE  RemoveIf(v, space) \in Seq(Units)
PROOF
<1>1. \A k \in Int : k <= Len(v) => SubSeq(v, 1, k) \in Seq(Units) OBVIOUS
<1>2. RemoveCharacter(v) \in Seq(Units) BY <1>1 DEF RemoveCharacter
<1> QED BY <1>2 DEF RemoveIf

\* A turn removes the last character, or the loop is over.
LEMMA RemoveTurn ==
    ASSUME NEW l \in Seq(Chars), NEW space \in BOOLEAN, NEW p \in 0..Len(l),
           p >= LastWhere(l, Len(l), ~space)
    PROVE  RemoveIf(UnitsOf(SubSeq(l, 1, p)), space) =
             UnitsOf(SubSeq(l, 1, IF p > LastWhere(l, Len(l), ~space) THEN p - 1 ELSE p))
PROOF
<1>1. PICK b \in 0..Len(l) :
         /\ b = LastWhere(l, Len(l), ~space)
         /\ b # 0 => (l[b] = "space") # space
         /\ \A i \in 1..Len(l) : (l[i] = "space") # space => i <= b
  <2>1. Len(l) \in Nat OBVIOUS
  <2> QED BY <2>1, LastFound, ZenonT(60)
<1>2. CASE p = 0
  <2>1. b = 0 /\ ~(p > b) BY <1>1, <1>2
  <2>2. SubSeq(l, 1, 0) = <<>> OBVIOUS
  <2>3. RemoveIf(<<>>, space) = <<>> BY DEF RemoveIf
  <2>4. UnitsOf(SubSeq(l, 1, p)) = <<>> BY <1>2, <2>2, UnitsEmpty
  <2> QED BY <1>1, <2>1, <2>3, <2>4
<1>3. CASE p # 0
  <2>1. PICK m \in Seq(Chars) : m = SubSeq(l, 1, p - 1)
    <3>1. p - 1 \in 0..Len(l) BY <1>3
    <3>2. SubSeq(l, 1, p - 1) \in Seq(Chars) BY <3>1
    <3> QED BY <3>2
  <2>2. PICK c \in Chars : c = l[p] BY <1>3
  <2>3. SubSeq(l, 1, p) = Append(m, c) BY <1>3, <2>1, <2>2
  <2>4. PICK v : v = UnitsOf(Append(m, c)) OBVIOUS
  <2>5. v # <<>> /\ (Last(v) = "space" <=> c = "space") /\ RemoveCharacter(v) = UnitsOf(m)
      BY <2>4, LastCharacter DEF Chars
  <2>6. CASE p > b
    <3>1. (c = "space") = space BY <1>1, <1>3, <2>2, <2>6
    <3>2. RemoveIf(v, space) = UnitsOf(m) BY <2>5, <3>1 DEF RemoveIf
    <3> QED BY <1>1, <2>1, <2>3, <2>4, <2>6, <3>2
  <2>7. CASE p = b
    <3>1. (c = "space") # space BY <1>1, <1>3, <2>2, <2>7
    <3>2. RemoveIf(v, space) = v BY <2>5, <3>1 DEF RemoveIf
    <3>3. RemoveIf(UnitsOf(SubSeq(l, 1, p)), space) = UnitsOf(SubSeq(l, 1, p))
        BY <2>3, <2>4, <3>2
    <3>4. ~(p > LastWhere(l, Len(l), ~space)) BY <1>1, <2>7
    <3> QED BY <3>3, <3>4
  <2> QED BY <1>1, <2>6, <2>7
<1> QED BY <1>2, <1>3

\* A loop leaves what the user sees up to the last character it stops at.
LEMMA RemovedWhile ==
    ASSUME NEW l \in Seq(Chars), NEW space \in BOOLEAN
    PROVE  RemoveWhile(UnitsOf(l), space) = UnitsOf(SubSeq(l, 1, LastWhere(l, Len(l), ~space)))
PROOF
<1>1. PICK b \in 0..Len(l) : b = LastWhere(l, Len(l), ~space)
  <2>1. Len(l) \in Nat OBVIOUS
  <2> QED BY <2>1, LastFound
<1>2. PICK S : S = Seq(Units) OBVIOUS
<1>3. PICK step \in [S -> S] : /\ step = [w \in Seq(Units) |-> RemoveIf(w, space)]
                               /\ \A w \in S : step[w] = RemoveIf(w, space)
  <2>1. [w \in S |-> RemoveIf(w, space)] \in [S -> S] BY <1>2, RemoveIfType
  <2> QED BY <1>2, <2>1
<1>4. PICK x \in S : x = UnitsOf(l) BY <1>2, UnitsAppended
<1> DEFINE left(n) == IF Len(l) - n > b THEN Len(l) - n ELSE b
           Done == {n \in Nat : Times(step, x, n) = UnitsOf(SubSeq(l, 1, left(n)))}
<1>5. 0 \in Done
  <2>1. left(0) = Len(l) /\ SubSeq(l, 1, Len(l)) = l BY <1>1
  <2>2. Times(step, x, 0) = x BY 0 \in Nat, TimesTaken
  <2> QED BY <1>4, <2>1, <2>2
<1>6. ASSUME NEW n \in Nat, n \in Done PROVE n + 1 \in Done
  <2>1. PICK p \in 0..Len(l) : p = left(n) /\ p >= b OBVIOUS
  <2>2. left(n + 1) = IF p > b THEN p - 1 ELSE p BY <2>1
  <2>3. Times(step, x, n + 1) = step[Times(step, x, n)] /\ Times(step, x, n) \in S
      BY TimesTaken
  <2>4. Times(step, x, n + 1) = RemoveIf(UnitsOf(SubSeq(l, 1, p)), space)
      BY <1>3, <1>6, <2>1, <2>3
  <2>5. RemoveIf(UnitsOf(SubSeq(l, 1, p)), space)
          = UnitsOf(SubSeq(l, 1, IF p > b THEN p - 1 ELSE p))
      BY <1>1, <2>1, RemoveTurn
  <2>6. Times(step, x, n + 1) = UnitsOf(SubSeq(l, 1, left(n + 1))) BY <2>2, <2>4, <2>5
  <2> QED BY <2>6
<1>7. Nat \subseteq Done
  <2> HIDE DEF Done
  <2> QED BY <1>5, <1>6, Always
<1>8. PICK n \in Nat : n = Len(x) /\ n >= Len(l) BY <1>2, <1>4, UnitsMany
<1>9. left(n) = b BY <1>8
<1>10. RemoveWhile(UnitsOf(l), space) = Times(step, x, n) BY <1>3, <1>4, <1>8 DEF RemoveWhile
<1>11. Times(step, x, n) = UnitsOf(SubSeq(l, 1, left(n))) BY <1>7, <1>8
<1> QED BY <1>1, <1>9, <1>10, <1>11

\* So do the loops.
LEMMA RemoveWhileType ==
    ASSUME NEW v \in Seq(Units), NEW space \in BOOLEAN
    PROVE  RemoveWhile(v, space) \in Seq(Units)
PROOF
<1>1. PICK S : S = Seq(Units) OBVIOUS
<1>2. PICK step \in [S -> S] : step = [w \in Seq(Units) |-> RemoveIf(w, space)]
  <2>1. [w \in S |-> RemoveIf(w, space)] \in [S -> S] BY <1>1, RemoveIfType
  <2> QED BY <1>1, <2>1
<1>3. v \in S /\ Len(v) \in Nat BY <1>1
<1>4. Times(step, v, Len(v)) \in S BY <1>3, TimesTaken
<1> QED BY <1>1, <1>2, <1>4 DEF RemoveWhile

\* Whatever the console reads, what has been typed stays a sequence of units.
LEMMA EditType == ASSUME NEW v \in Seq(Units), NEW u PROVE Edit(v, u) \in Seq(Units)
PROOF
<1>1. \A k \in Int : k <= Len(v) => SubSeq(v, 1, k) \in Seq(Units) OBVIOUS
<1>2. RemoveCharacter(v) \in Seq(Units) BY <1>1 DEF RemoveCharacter
<1>3. RemoveWhile(RemoveWhile(v, TRUE), FALSE) \in Seq(Units) BY RemoveWhileType
<1>4. u \in Units => Append(v, u) \in Seq(Units) OBVIOUS
<1>5. CASE u \in Units
  <2>1. Edit(v, u) = Append(v, u) BY <1>5 DEF Edit, Units
  <2> QED BY <1>4, <1>5, <2>1
<1>6. CASE u = "backspace"
  <2>1. Edit(v, u) = RemoveCharacter(v) BY <1>6 DEF Edit, Units
  <2> QED BY <1>2, <2>1
<1>7. CASE u = "word"
  <2>1. Edit(v, u) = RemoveWhile(RemoveWhile(v, TRUE), FALSE) BY <1>7 DEF Edit, Units
  <2> QED BY <1>3, <2>1
<1>8. CASE u = "line"
  <2>1. Edit(v, u) = <<>> BY <1>8 DEF Edit, Units
  <2> QED BY <2>1
<1>9. CASE u \notin Units \cup {"backspace", "word", "line"}
  <2>1. Edit(v, u) = v BY <1>9 DEF Edit, Units
  <2> QED BY <2>1
<1> QED BY <1>5, <1>6, <1>7, <1>8, <1>9

\* Ctrl-W takes what the user takes it to take.
LEMMA WordRemoved ==
    ASSUME NEW l \in Seq(Chars)
    PROVE  /\ Meant(l, "word") \in Seq(Chars)
           /\ Edit(UnitsOf(l), "word") = UnitsOf(Meant(l, "word"))
PROOF
<1>1. PICK b \in 0..Len(l) : b = LastWhere(l, Len(l), FALSE)
  <2>1. Len(l) \in Nat OBVIOUS
  <2> QED BY <2>1, LastFound
<1>2. PICK g \in 0..b : g = LastWhere(l, b, TRUE)
  <2>1. b \in Nat OBVIOUS
  <2> QED BY <2>1, LastFound
<1>3. PICK m \in Seq(Chars) : m = SubSeq(l, 1, b)
  <2>1. SubSeq(l, 1, b) \in Seq(Chars) OBVIOUS
  <2> QED BY <2>1
<1>4. Len(m) = b /\ \A i \in 1..b : m[i] = l[i] BY <1>3
<1>5. Meant(l, "word") = SubSeq(l, 1, g) BY <1>1, <1>2 DEF Meant, Chars
<1>6. RemoveWhile(UnitsOf(l), TRUE) = UnitsOf(m) BY <1>1, <1>3, RemovedWhile
<1>7. RemoveWhile(UnitsOf(m), FALSE) = UnitsOf(SubSeq(m, 1, g))
  <2>1. PICK at : at = {i \in 1..Len(m) : (m[i] = "space") = TRUE} OBVIOUS
  <2>2. at = {i \in 1..b : (l[i] = "space") = TRUE} BY <1>4, <2>1
  <2>3. LastWhere(m, Len(m), TRUE) = IF at = {} THEN 0 ELSE CHOOSE i \in at : \A j \in at : j <= i
      BY <2>1 DEF LastWhere
  <2>4. LastWhere(l, b, TRUE) = IF at = {} THEN 0 ELSE CHOOSE i \in at : \A j \in at : j <= i
      BY <2>2 DEF LastWhere
  <2> QED BY <1>2, <2>3, <2>4, RemovedWhile
<1>8. SubSeq(m, 1, g) = SubSeq(l, 1, g) /\ SubSeq(l, 1, g) \in Seq(Chars) BY <1>3, <1>4
<1>9. Edit(UnitsOf(l), "word") = RemoveWhile(RemoveWhile(UnitsOf(l), TRUE), FALSE)
    BY DEF Edit, Units
<1> QED BY <1>5, <1>6, <1>7, <1>8, <1>9

Single == (Chars \ {"astral"}) \cup EditKeys \cup Ignored \cup {"eof", "interrupt"}

\* The editing keys undo on the units what they undo for the user.
LEMMA EditMeant ==
    ASSUME NEW l \in Seq(Chars), NEW k \in Single
    PROVE  /\ Meant(l, k) \in Seq(Chars)
           /\ Edit(UnitsOf(l), k) = UnitsOf(Meant(l, k))
PROOF
<1>1. CASE k \in Chars \ {"astral"}
  <2>1. Meant(l, k) = Append(l, k) /\ Append(l, k) \in Seq(Chars)
    <3>1. Append(l, k) \in Seq(Chars) BY <1>1
    <3>2. Meant(l, k) = Append(l, k) BY <1>1 DEF Meant, Chars
    <3> QED BY <3>1, <3>2
  <2>2. k \in Units BY <1>1 DEF Chars, Units
  <2>3. Edit(UnitsOf(l), k) = Append(UnitsOf(l), k) BY <2>2 DEF Edit, Units
  <2> QED BY <1>1, <2>1, <2>3, UnitsAppended
<1>2. CASE k = "backspace"
  <2>1. Meant(l, k) = IF l = <<>> THEN l ELSE Front(l) BY <1>2 DEF Meant, Chars
  <2>2. Edit(UnitsOf(l), k) = RemoveCharacter(UnitsOf(l)) BY <1>2 DEF Edit, Units
  <2>3. CASE l = <<>>
    <3>1. RemoveCharacter(<<>>) = <<>>
      <4>1. PICK v \in Seq(Units) : v = <<>> BY <<>> \in Seq(Units)
      <4>2. Len(v) = 0 /\ SubSeq(v, 1, 0 - 1) = <<>> BY <4>1
      <4> QED BY <4>1, <4>2 DEF RemoveCharacter
    <3> QED BY <2>1, <2>2, <2>3, <3>1, UnitsEmpty
  <2>4. CASE l # <<>>
    <3>1. PICK m \in Seq(Chars), c \in Chars : m = Front(l) /\ l = Append(m, c)
        BY <2>4, Nonempty
    <3>2. Meant(l, k) = m BY <2>1, <2>4, <3>1
    <3>3. RemoveCharacter(UnitsOf(Append(m, c))) = UnitsOf(m) BY LastCharacter
    <3> QED BY <2>2, <3>1, <3>2, <3>3
  <2> QED BY <2>3, <2>4
<1>3. CASE k = "word" BY <1>3, WordRemoved
<1>4. CASE k = "line"
  <2>1. Meant(l, k) = <<>> /\ Edit(UnitsOf(l), k) = <<>> BY <1>4 DEF Meant, Edit, Chars, Units
  <2> QED BY <2>1, UnitsEmpty
<1>5. CASE k \in Ignored \cup {"eof", "interrupt"}
  <2>1. Meant(l, k) = l /\ Edit(UnitsOf(l), k) = UnitsOf(l)
      BY <1>5 DEF Meant, Edit, Chars, Units, Ignored
  <2> QED BY <2>1
<1> QED BY <1>1, <1>2, <1>3, <1>4, <1>5 DEF Single, EditKeys

\* Also held keys do.
LEMMA RepeatedMeant ==
    ASSUME NEW l \in Seq(Chars), NEW k \in Single, NEW n \in Nat
    PROVE  LET typed == Times([m \in Seq(Chars) |-> Meant(m, k)], l, n)
           IN  /\ typed \in Seq(Chars)
               /\ Times([v \in Seq(Units) |-> Edit(v, k)], UnitsOf(l), n) = UnitsOf(typed)
PROOF
<1>1. PICK S : S = Seq(Chars) OBVIOUS
<1>2. PICK U : U = Seq(Units) OBVIOUS
<1>3. PICK mean \in [S -> S] : /\ mean = [m \in Seq(Chars) |-> Meant(m, k)]
                               /\ \A m \in S : mean[m] = Meant(m, k)
  <2>1. [m \in S |-> Meant(m, k)] \in [S -> S] BY <1>1, EditMeant
  <2> QED BY <1>1, <2>1
<1>4. PICK edit \in [U -> U] : /\ edit = [v \in Seq(Units) |-> Edit(v, k)]
                               /\ \A v \in U : edit[v] = Edit(v, k)
  <2>1. [v \in U |-> Edit(v, k)] \in [U -> U] BY <1>2, EditType
  <2> QED BY <1>2, <2>1
<1>5. PICK x \in U : x = UnitsOf(l) BY <1>2, UnitsAppended
<1>6. l \in S BY <1>1
<1> DEFINE T == {i \in Nat : Times(edit, x, i) = UnitsOf(Times(mean, l, i))}
<1>7. 0 \in T
  <2>1. Times(edit, x, 0) = x /\ Times(mean, l, 0) = l BY <1>6, 0 \in Nat, TimesTaken
  <2> QED BY <1>5, <2>1
<1>8. ASSUME NEW i \in Nat, i \in T PROVE i + 1 \in T
  <2>1. Times(edit, x, i) \in U /\ Times(edit, x, i + 1) = edit[Times(edit, x, i)]
      BY TimesTaken
  <2>2. Times(mean, l, i) \in S /\ Times(mean, l, i + 1) = mean[Times(mean, l, i)]
      BY <1>6, TimesTaken
  <2>3. PICK m \in Seq(Chars) : m = Times(mean, l, i) BY <1>1, <2>2
  <2>4. Times(edit, x, i + 1) = Edit(UnitsOf(m), k) BY <1>4, <1>8, <2>1, <2>3
  <2>5. Times(mean, l, i + 1) = Meant(m, k) BY <1>1, <1>3, <2>2, <2>3
  <2>6. Times(edit, x, i + 1) = UnitsOf(Times(mean, l, i + 1)) BY <2>4, <2>5, EditMeant
  <2> QED BY <2>6
<1>9. Nat \subseteq T
  <2> HIDE DEF T
  <2> QED BY <1>7, <1>8, Always
<1>10. Times(edit, x, n) = UnitsOf(Times(mean, l, n)) BY <1>9
<1>11. Times(mean, l, n) \in Seq(Chars) BY <1>1, <1>6, TimesTaken
<1> QED BY <1>3, <1>4, <1>5, <1>10, <1>11

-----------------------------------------------------------------------------
(* The console *)

\* What the guard keeps while it exists, and the mode before and after it.
GuardKeeps ==
    /\ stage \in Hidden \cup {"raw", "restore"} => saved = ModeLeft
    /\ stage \in {"open", "mode", "raw"} => mode = ModeLeft
    /\ stage = "restore" => mode \in {saved, "raw"}

ModeInv == ModeRestored /\ GuardKeeps

\* Steps that leave the console alone and stay outside prompt_password.
LEMMA Elsewhere ==
    ASSUME ModeInv, stage' \notin Inside, stage \notin Inside, UNCHANGED console
    PROVE  ModeInv'
BY DEF ModeInv, ModeRestored, GuardKeeps, ModeLeft, console, Inside, Hidden, Reading

\* The user's steps and what else leaves stage and console as they are.
LEMMA Unmoved ==
    ASSUME ModeInv, UNCHANGED <<stage, console>>
    PROVE  ModeInv'
BY DEF ModeInv, ModeRestored, GuardKeeps, ModeLeft, console

\* Every step of prompt_password keeps what the guard promises.
LEMMA WindowsKeeps ==
    ASSUME ModeInv, Windows
    PROVE  ModeInv'
PROOF
<1> USE DEF ModeInv, ModeRestored, GuardKeeps, ModeLeft, console, Inside, Hidden,
            Reading, At, GoTo, Fails, Interrupted
<1>1. CASE OpenConsole BY <1>1 DEF OpenConsole
<1>2. CASE SaveMode BY <1>2 DEF SaveMode
<1>3. CASE SetRaw BY <1>3 DEF SetRaw
<1>4. CASE ShowPrompt BY <1>4 DEF ShowPrompt
<1>5. CASE Poll BY <1>5 DEF Poll
<1>6. CASE Wait BY <1>6 DEF Wait
<1>7. CASE ReadEvent
  <2>1. stage = "read" /\ stage' \in {"poll", "newline"} /\ UNCHANGED console
      BY <1>7 DEF ReadEvent
  <2> QED BY <2>1
<1>8. CASE Newline BY <1>8 DEF Newline
<1>9. CASE Restore
  <2>1. stage = "restore" /\ stage' = "returned" /\ saved = ModeLeft
      BY <1>9 DEF Restore
  <2>2. CASE mode' = saved /\ lost' = lost BY <2>1, <2>2
  <2>3. CASE mode' = mode /\ lost' = (lost \/ mode # saved)
    <3>1. CASE mode = saved BY <2>1, <2>3, <3>1
    <3>2. CASE mode # saved
      <4>1. mode = "raw" /\ lost' BY <2>1, <2>3, <3>2
      <4> QED BY <2>1, <2>3, <4>1
    <3> QED BY <3>1, <3>2
  <2> QED BY <1>9, <2>2, <2>3 DEF Restore
<1> QED BY <1>1, <1>2, <1>3, <1>4, <1>5, <1>6, <1>7, <1>8, <1>9 DEF Windows

\* No step of either console lets go of a mode that has to be given back.
LEMMA NextKeeps ==
    ASSUME ModeInv, [Next]_vars
    PROVE  ModeInv'
PROOF
<1>1. CASE Windows BY <1>1, WindowsKeeps
<1>2. CASE Call
  <2>1. CASE stage' = "done" /\ UNCHANGED console
      BY <1>2, <2>1, Elsewhere DEF Call, At, Inside, Hidden, Reading
  <2>2. CASE stage' \in {"open", "rpassword"} /\ UNCHANGED console
      BY <1>2, <2>2 DEF Call, At, ModeInv, ModeRestored, GuardKeeps, ModeLeft,
                        console, Inside, Hidden, Reading
  <2> QED BY <1>2, <2>1, <2>2 DEF Call, Leave, GoTo
<1>3. CASE Returned
  <2>1. stage = "returned" /\ stage' \in {"done", "judge"} /\ UNCHANGED console
      BY <1>3 DEF Returned, At, Leave, GoTo
  <2> QED BY <2>1, Elsewhere DEF Inside, Hidden, Reading
<1>4. CASE Judge
  <2>1. stage = "judge" /\ stage' \in {"done", "call", "final"} /\ UNCHANGED console
      BY <1>4 DEF Judge, At, Leave
  <2> QED BY <2>1, Elsewhere DEF Inside, Hidden, Reading
<1>5. CASE Final
  <2>1. stage = "final" /\ stage' \in {"done", "print", "accepted"} /\ UNCHANGED console
      BY <1>5 DEF Final, At, Leave, GoTo
  <2> QED BY <2>1, Elsewhere DEF Inside, Hidden, Reading
<1>6. CASE PrintDigest
  <2>1. stage = "print" /\ stage' = "done" /\ UNCHANGED console
      BY <1>6 DEF PrintDigest, At, Leave
  <2> QED BY <2>1, Elsewhere DEF Inside, Hidden, Reading
<1>7. CASE Rpassword
  <2>1. stage = "rpassword" /\ stage' = "returned" /\ UNCHANGED console
      BY <1>7 DEF Rpassword, At, Fails, GoTo
  <2> QED BY <2>1, Elsewhere DEF Inside, Hidden, Reading
<1>8. CASE User
  <2>1. UNCHANGED <<stage, console>> BY <1>8 DEF User, Type, Signal
  <2> QED BY <2>1, Unmoved
<1>9. CASE UNCHANGED vars BY <1>9, Unmoved DEF vars
<1> QED
    BY <1>1, <1>2, <1>3, <1>4, <1>5, <1>6, <1>7, <1>8, <1>9 DEF Next, Program

(***************************************************************************)
(* The shell gets its console back on every path out of prompt_password    *)
(* but one, a guard whose own call fails (console.rs:14-22), which leaves  *)
(* it raw for good; and typing is never echoed while the prompt is shown.  *)
(***************************************************************************)
THEOREM ConsoleGivenBack == Spec => []ModeRestored
PROOF
<1>1. Init => ModeInv
    BY DEF Init, ModeInv, ModeRestored, GuardKeeps, ModeLeft, Inside, Hidden, Reading
<1>2. ModeInv /\ [Next]_vars => ModeInv' BY NextKeeps
<1>3. ModeInv => ModeRestored BY DEF ModeInv
<1> QED BY <1>1, <1>2, <1>3, PTL DEF Spec

-----------------------------------------------------------------------------
(* The line *)

\* Which of the lines the user means is prompted for, and how many were read.
Turn == IF secret = None THEN 1 ELSE 2
Before == {"call", "open", "mode", "raw", "show", "rpassword"}
After == {"newline", "restore", "returned"}
Accepted == {"final", "print", "accepted"}
Read == IF stage \in After \cup {"judge"} THEN Turn ELSE Turn - 1

\* The prompt has not failed.
Live == stage \in Before \cup Reading \cup {"judge"} \/ (stage \in After /\ result = "ok")

\* What the prompt has of the line it reads; what was typed before it is still queued.
Got == IF stage \in Reading THEN value ELSE <<>>

Typed(l, k, n) == Times([m \in Seq(Chars) |-> Meant(m, k)], l, n)

\* A key is on its way: what is got and the records of the key make the line.
KeyComes ==
    \E l \in Seq(Chars) :
        \/ \E k \in Single, n \in Nat :
             queue = <<<<k, n>>>> /\ Got = UnitsOf(l) /\ line = Typed(l, k, n)
        \/ /\ queue = <<<<"high", 1>>, <<"low", 1>>>>
           /\ Got = UnitsOf(l) /\ line = Append(l, "astral")
        \/ /\ queue = <<<<"low", 1>>>>
           /\ Got = Append(UnitsOf(l), "high") /\ line = Append(l, "astral")

\* The line is over, and Enter is on its way.
EnterComes ==
    /\ \E n \in Nat : queue = <<<<"enter", n>>>>
    /\ line = <<>> /\ Len(lines) = Read + 1 /\ Got = UnitsOf(lines[Read + 1])

Coming ==
    \/ Len(lines) = Read /\ queue = <<>> /\ Got = UnitsOf(line)
    \/ Len(lines) = Read /\ KeyComes
    \/ EnterComes

LineTypes ==
    /\ command \in Commands
    /\ line \in Seq(Chars) /\ lines \in Seq(Seq(Chars))
    /\ value \in Seq(Units) /\ secret \in Seq(Units) \cup {None}
    /\ stage = "read" => queue # <<>>
    /\ ~windows => queue = <<>>
    /\ stage = "rpassword" => ~windows

\* What has been read and accepted is what was meant.
LinesKept ==
    /\ Live /\ Read = Turn => Len(lines) >= Turn /\ value = UnitsOf(lines[Turn])
    /\ secret # None =>
         /\ Len(lines) >= 1 /\ secret = UnitsOf(lines[1])
         /\ command # "sha3" => secret # <<>>
    /\ stage \in Accepted =>
         /\ command # "sha3" => secret # None
         /\ command = "keymake" => Len(lines) >= 2 /\ UnitsOf(lines[1]) = UnitsOf(lines[2])

LineInv == LineTypes /\ (Live => Coming) /\ LinesKept

said == <<windows, command, queue, line, lines, secret>>

\* Before the first key nothing is typed and nothing is read.
LEMMA InitLine == Init => LineInv
PROOF
<1> SUFFICES ASSUME Init PROVE LineInv OBVIOUS
<1>1. <<>> \in Seq(Chars) /\ <<>> \in Seq(Seq(Chars)) /\ <<>> \in Seq(Units) /\ Len(lines) = 0
    BY DEF Init
<1>2. LineTypes BY <1>1 DEF Init, LineTypes
<1>3. stage \in {"call", "final"} /\ secret = None /\ queue = <<>> /\ line = <<>> BY DEF Init
<1>4. Coming
    BY <1>1, <1>3, UnitsEmpty DEF Coming, Read, Turn, Got, After, Reading
<1>5. LinesKept
  <2>1. Live => stage = "call" BY <1>3 DEF Live, Before, Reading, After
  <2>2. ~(Live /\ Read = Turn) BY <1>3, <2>1 DEF Read, Turn, After
  <2>3. stage = "final" => command = "sha3" BY DEF Init
  <2> QED BY <1>3, <2>2, <2>3 DEF LinesKept, Accepted
<1> QED BY <1>2, <1>4, <1>5 DEF LineInv

\* A step of the program that says nothing new about the line.
LEMMA Moves ==
    ASSUME LineInv, UNCHANGED said, value' \in Seq(Units),
           Live' => Live /\ Read' = Read /\ Got' = Got /\ (Read = Turn => value' = value),
           stage' \in Accepted => stage \in Accepted,
           stage' = "read" => queue # <<>>, stage' = "rpassword" => ~windows
    PROVE  LineInv'
PROOF
<1>1. LineTypes' BY DEF LineInv, LineTypes, said
<1>2. Turn' = Turn BY DEF Turn, said
<1>3. Live' => Coming'
  <2> SUFFICES ASSUME Live' PROVE Coming' OBVIOUS
  <2>1. Coming /\ Read' = Read /\ Got' = Got BY DEF LineInv
  <2>2. queue' = queue /\ line' = line /\ lines' = lines BY DEF said
  <2>3. KeyComes => KeyComes' BY <2>1, <2>2 DEF KeyComes
  <2>4. EnterComes => EnterComes' BY <2>1, <2>2 DEF EnterComes
  <2> QED BY <2>1, <2>2, <2>3, <2>4 DEF Coming
<1>4. LinesKept' BY <1>2 DEF LineInv, LinesKept, said
<1> QED BY <1>1, <1>3, <1>4 DEF LineInv

\* A step that changes nothing changes nothing of the line.
LEMMA LineUnmoved == LineInv /\ UNCHANGED vars => LineInv'
PROOF
<1> SUFFICES ASSUME LineInv, UNCHANGED vars PROVE LineInv' OBVIOUS
<1>1. UNCHANGED said /\ stage' = stage /\ value' = value /\ result' = result
    BY DEF vars, said, config, typing, reading, ending
<1>2. Live' = Live /\ Read' = Read /\ Got' = Got BY <1>1 DEF Live, Read, Turn, Got, said
<1> QED BY <1>1, <1>2, Moves DEF LineInv, LineTypes

\* Calls of prompt_password that read no key.
LEMMA CallsLine ==
    ASSUME LineInv, OpenConsole \/ SaveMode \/ SetRaw \/ ShowPrompt \/ Poll \/ Wait
                    \/ Newline \/ Restore
    PROVE  LineInv'
PROOF
<1> USE DEF At, GoTo, Fails, Interrupted, config, typing, ending, reading
<1>1. UNCHANGED said
    BY DEF OpenConsole, SaveMode, SetRaw, ShowPrompt, Poll, Wait, Newline, Restore, said
<1>2. value' \in Seq(Units)
  <2>1. value' = value \/ value' = <<>>
      BY DEF OpenConsole, SaveMode, SetRaw, ShowPrompt, Poll, Wait, Newline, Restore
  <2>2. value \in Seq(Units) BY DEF LineInv, LineTypes
  <2>3. <<>> \in Seq(Units) OBVIOUS
  <2> QED BY <2>1, <2>2, <2>3
<1>3. Live' => Live /\ Read' = Read /\ Got' = Got /\ (Read = Turn => value' = value)
  <2> USE <1>1 DEF Live, Read, Turn, Got, Before, After, Reading, said
  <2>1. CASE OpenConsole \/ SaveMode \/ SetRaw BY <2>1 DEF OpenConsole, SaveMode, SetRaw
  <2>2. CASE ShowPrompt BY <2>2 DEF ShowPrompt
  <2>3. CASE Poll \/ Wait BY <2>3 DEF Poll, Wait
  <2>4. CASE Newline \/ Restore BY <2>4 DEF Newline, Restore
  <2> QED BY <2>1, <2>2, <2>3, <2>4
<1>4. stage' \notin Accepted \cup {"rpassword"} /\ (stage' = "read" => queue # <<>>)
    BY DEF OpenConsole, SaveMode, SetRaw, ShowPrompt, Poll, Wait, Newline, Restore, Accepted
<1> QED BY <1>1, <1>2, <1>3, <1>4, Moves

\* What private_prompt, password and run do with a line but accept it.
LEMMA CallersLine ==
    ASSUME LineInv, Call \/ Returned \/ Final \/ PrintDigest \/ (Judge /\ stage' = "done")
    PROVE  LineInv'
PROOF
<1> USE DEF At, GoTo, Leave, config, typing, ending, reading
<1>1. UNCHANGED said /\ value' = value BY DEF Call, Returned, Final, PrintDigest, Judge, said
<1>2. Live' => Live /\ Read' = Read /\ Got' = Got
  <2> USE <1>1 DEF Live, Read, Turn, Got, Before, After, Reading, said
  <2>1. CASE Call BY <2>1 DEF Call
  <2>2. CASE Returned BY <2>2 DEF Returned
  <2>3. CASE Final \/ PrintDigest \/ (Judge /\ stage' = "done") BY <2>3 DEF Final, PrintDigest
  <2> QED BY <2>1, <2>2, <2>3
<1>3. /\ stage' \in Accepted => stage \in Accepted
      /\ stage' # "read" /\ (stage' = "rpassword" => ~windows)
    BY DEF Call, Returned, Final, PrintDigest, Accepted
<1>4. value' \in Seq(Units) BY <1>1 DEF LineInv, LineTypes
<1> QED BY <1>1, <1>2, <1>3, <1>4, Moves

\* A signal only asks for the end: the line is what it was.
LEMMA SignalLine == ASSUME LineInv, Signal PROVE LineInv'
PROOF
<1>1. UNCHANGED said /\ stage' = stage /\ value' = value /\ result' = result
    BY DEF Signal, said, config, typing, reading, ending
<1>2. Live' = Live /\ Read' = Read /\ Got' = Got BY <1>1 DEF Live, Read, Turn, Got, said
<1> QED BY <1>1, <1>2, Moves DEF LineInv, LineTypes

\* password accepts a line: it is the first, or equal to the first.
LEMMA JudgeLine == ASSUME LineInv, Judge, stage' # "done" PROVE LineInv'
PROOF
<1>1. /\ stage = "judge" /\ ~Refused /\ secret' = value
      /\ stage' = IF command = "keymake" /\ secret = None THEN "call" ELSE "final"
      /\ UNCHANGED <<windows, command, queue, line, lines, keys, value>>
    BY DEF Judge, At, Leave, config, typing, reading
<1>2. Live /\ Read = Turn BY <1>1 DEF Live, Read
<1>3. /\ Len(lines) >= Turn /\ value = UnitsOf(lines[Turn]) /\ Coming
      /\ value \in Seq(Units) /\ LineTypes
    BY <1>2 DEF LineInv, LinesKept, LineTypes
<1>4. secret' # None /\ Turn' = 2 BY <1>1, <1>3, KeysAssumption DEF Turn
<1>5. LineTypes' BY <1>1, <1>3 DEF LineTypes
<1>6. secret = None /\ command # "sha3" => value # <<>> BY <1>1 DEF Refused
<1>7. secret # None => value = secret BY <1>1 DEF Refused
<1>8. Live' => Coming'
  <2> SUFFICES ASSUME Live' PROVE Coming' OBVIOUS
  <2>1. stage' = "call" /\ secret = None BY <1>1 DEF Live, Before, Reading, After
  <2>2. Read' = Read /\ Got' = Got
      BY <1>1, <1>2, <1>4, <2>1 DEF Read, Turn, Got, After, Reading
  <2>3. KeyComes => KeyComes' BY <1>1, <2>2 DEF KeyComes
  <2>4. EnterComes => EnterComes' BY <1>1, <2>2 DEF EnterComes
  <2> QED BY <1>1, <1>3, <2>2, <2>3, <2>4 DEF Coming
<1>9. LinesKept'
  <2>1. ~(Live' /\ Read' = Turn')
      BY <1>1, <1>4 DEF Live, Read, Before, Reading, After
  <2>2. Len(lines) >= 1 /\ value = UnitsOf(lines[1]) /\ (command # "sha3" => value # <<>>)
    <3>1. CASE secret = None BY <1>3, <1>6, <3>1 DEF Turn, LineTypes
    <3>2. CASE secret # None BY <1>7, <3>2 DEF LineInv, LinesKept
    <3> QED BY <3>1, <3>2
  <2>3. stage' = "final" /\ command = "keymake" =>
          Len(lines) >= 2 /\ UnitsOf(lines[1]) = UnitsOf(lines[2])
      BY <1>1, <1>3, <2>2 DEF Turn
  <2>4. stage' \in Accepted => stage' = "final" BY <1>1 DEF Accepted
  <2> QED BY <1>1, <1>4, <2>1, <2>2, <2>3, <2>4 DEF LinesKept
<1> QED BY <1>5, <1>8, <1>9 DEF LineInv

\* rpassword returns a line of its own.
LEMMA RpasswordLine == ASSUME LineInv, Rpassword PROVE LineInv'
PROOF
<1>1. CASE \E error \in {"interrupted", "failed"} : Fails(error, "returned")
  <2>1. UNCHANGED said /\ value' = value /\ stage' = "returned" /\ result' # "ok"
      BY <1>1 DEF Fails, GoTo, said, config, typing, ending
  <2>2. ~Live' BY <2>1 DEF Live, Before, Reading
  <2> QED BY <2>1, <2>2, Moves DEF LineInv, LineTypes, Accepted
<1>2. CASE ~\E error \in {"interrupted", "failed"} : Fails(error, "returned")
  <2>1. PICK l \in LinuxLines :
          /\ stage = "rpassword" /\ value' = UnitsOf(l) /\ lines' = Append(lines, l)
          /\ stage' = "returned"
          /\ UNCHANGED <<windows, command, queue, line, secret>>
      BY <1>2 DEF Rpassword, At, config, ending
  <2>2. l \in Seq(Chars) /\ UnitsOf(l) \in Seq(Units) BY KeysAssumption, UnitsAppended
  <2>3. LineTypes /\ LinesKept /\ Live /\ Read = Turn - 1 /\ Got = <<>>
      BY <2>1 DEF LineInv, Live, Read, Got, Before, After, Reading
  <2>4. queue = <<>> BY <2>1, <2>3 DEF LineTypes
  <2>5. Len(lines) = Read /\ <<>> = UnitsOf(line)
      BY <2>3, <2>4 DEF LineInv, Coming, KeyComes, EnterComes
  <2>6. Turn \in {1, 2} /\ Turn' = Turn BY <2>1 DEF Turn
  <2>7. /\ lines' \in Seq(Seq(Chars)) /\ Len(lines') = Turn /\ lines'[Turn] = l
        /\ \A i \in 1..Len(lines) : lines'[i] = lines[i]
      BY <2>1, <2>2, <2>3, <2>5, <2>6 DEF LineTypes
  <2>8. Read' = Turn /\ Got' = <<>> BY <2>1, <2>6 DEF Read, Got, After, Reading
  <2>9. LineTypes' BY <2>1, <2>2, <2>3, <2>7 DEF LineTypes
  <2>10. Coming' BY <2>1, <2>4, <2>5, <2>7, <2>8 DEF Coming
  <2>11. LinesKept'
    <3>1. secret # None => Len(lines) >= 1 /\ lines'[1] = lines[1]
      <4>1. Len(lines) \in Nat /\ (secret # None => Len(lines) >= 1)
          BY <2>3 DEF LinesKept, LineTypes
      <4> QED BY <2>7, <4>1
    <3>2. stage' \notin Accepted BY <2>1 DEF Accepted
    <3>3. Len(lines') >= Len(lines) BY <2>1, <2>3, <2>7 DEF LineTypes
    <3> QED BY <2>1, <2>3, <2>6, <2>7, <3>1, <3>2, <3>3 DEF LinesKept, LineTypes
  <2> QED BY <2>9, <2>10, <2>11 DEF LineInv
<1> QED BY <1>1, <1>2

\* A step that is taken once is the step.
LEMMA TimesOnce ==
    ASSUME NEW S, NEW x \in S, NEW step \in [S -> S]
    PROVE  Times(step, x, 1) = step[x]
PROOF
<1>1. 0 \in Nat /\ 0 + 1 = 1 OBVIOUS
<1> QED BY <1>1, TimesTaken

\* A key that is no command adds its character to the line.
LEMMA TypedOnce ==
    ASSUME NEW l \in Seq(Chars), NEW k \in Chars
    PROVE  Typed(l, k, 1) = Append(l, k)
PROOF
<1>1. PICK S : S = Seq(Chars) OBVIOUS
<1>2. ASSUME NEW m \in Seq(Chars) PROVE Meant(m, k) = Append(m, k) /\ Append(m, k) \in Seq(Chars)
  <2>1. Append(m, k) \in Seq(Chars) OBVIOUS
  <2> QED BY <2>1 DEF Meant, Chars
<1>3. PICK g \in [S -> S] : g = [m \in Seq(Chars) |-> Meant(m, k)] /\ g[l] = Append(l, k)
  <2>1. [m \in S |-> Meant(m, k)] \in [S -> S] BY <1>1, <1>2
  <2> QED BY <1>1, <1>2, <2>1
<1>4. Typed(l, k, 1) = g[l] BY <1>1, <1>3, TimesOnce DEF Typed
<1> QED BY <1>3, <1>4

\* The user types: what is on its way makes the line again.
LEMMA TypeLine ==
    ASSUME LineInv, NEW k \in Chars \cup EditKeys \cup EndKeys \cup Ignored, NEW n \in Repeats,
           Type(k, n)
    PROVE  LineInv'
PROOF
<1>1. /\ windows /\ queue = <<>> /\ (k = "astral" => n = 1)
      /\ UNCHANGED <<windows, command, stage, value, result, secret>>
    BY DEF Type, config, reading, ending
<1>2. LineTypes /\ LinesKept BY DEF LineInv
<1>3. n \in Nat BY KeysAssumption
<1>4. Live' = Live /\ Read' = Read /\ Got' = Got /\ Turn' = Turn
    BY <1>1 DEF Live, Read, Got, Turn
<1>5. Live => Len(lines) = Read /\ Got = UnitsOf(line)
    BY <1>1 DEF LineInv, Coming, KeyComes, EnterComes
<1>6. LineTypes' /\ (Live => Coming') /\ (lines' = lines \/ lines' = Append(lines, line))
  <2>1. CASE k = "enter"
    <3>1. queue' = <<<<k, n>>>> /\ line' = <<>> /\ lines' = Append(lines, line)
        BY <2>1 DEF Type, Chars
    <3>2. LineTypes' BY <1>1, <1>2, <3>1 DEF LineTypes
    <3>3. Live => Coming'
      <4> SUFFICES ASSUME Live PROVE EnterComes' BY DEF Coming
      <4>1. Len(lines) \in Nat /\ Len(lines') = Len(lines) + 1 /\ lines'[Len(lines) + 1] = line
          BY <1>2, <3>1 DEF LineTypes
      <4> QED BY <1>3, <1>4, <1>5, <2>1, <3>1, <4>1 DEF EnterComes
    <3> QED BY <3>1, <3>2, <3>3
  <2>2. CASE k = "astral"
    <3>1. queue' = <<<<"high", 1>>, <<"low", 1>>>> /\ lines' = lines
        BY <1>1, <2>2 DEF Type, Chars, Utf16
    <3>2. line' = Append(line, "astral") /\ line' \in Seq(Chars)
      <4>1. k \in Chars /\ line' = Typed(line, k, 1) BY <1>1, <2>2 DEF Type, Chars, Typed
      <4>2. line' = Append(line, k) BY <1>2, <4>1, TypedOnce DEF LineTypes
      <4>3. Append(line, k) \in Seq(Chars)
        <5>1. line \in Seq(Chars) BY <1>2 DEF LineTypes
        <5> QED BY <4>1, <5>1
      <4> QED BY <2>2, <4>2, <4>3
    <3>3. LineTypes' BY <1>1, <1>2, <3>1, <3>2 DEF LineTypes
    <3>4. Live => Coming'
        BY <1>2, <1>4, <1>5, <3>1, <3>2 DEF Coming, KeyComes, LineTypes
    <3> QED BY <3>1, <3>3, <3>4
  <2>3. CASE k \notin {"enter", "astral"}
    <3>1. k \in Single BY <2>3 DEF Single, EndKeys
    <3>2. queue' = <<<<k, n>>>> /\ lines' = lines /\ line' = Typed(line, k, n)
      <4>1. k \in Chars => [i \in DOMAIN Utf16(k) |-> <<Utf16(k)[i], n>>] = <<<<k, n>>>>
          BY <2>3 DEF Utf16
      <4> QED BY <2>3, <4>1 DEF Type, Typed
    <3>3. line' \in Seq(Chars) BY <1>2, <1>3, <3>1, <3>2, RepeatedMeant DEF LineTypes, Typed
    <3>4. LineTypes' BY <1>1, <1>2, <3>2, <3>3 DEF LineTypes
    <3>5. Live => Coming'
        BY <1>2, <1>3, <1>4, <1>5, <3>1, <3>2 DEF Coming, KeyComes, LineTypes
    <3> QED BY <3>2, <3>4, <3>5
  <2> QED BY <2>1, <2>2, <2>3
<1>7. LinesKept'
  <2>1. /\ Len(lines) \in Nat /\ Len(lines') >= Len(lines)
        /\ \A i \in 1..Len(lines) : lines'[i] = lines[i]
    <3>1. lines \in Seq(Seq(Chars)) /\ line \in Seq(Chars) BY <1>2 DEF LineTypes
    <3>2. CASE lines' = lines BY <3>1, <3>2
    <3>3. CASE lines' = Append(lines, line) BY <3>1, <3>3
    <3> QED BY <1>6, <3>2, <3>3
  <2>2. Turn \in {1, 2} BY DEF Turn
  <2>3. Live /\ Read = Turn => Len(lines') >= Turn /\ value = UnitsOf(lines'[Turn])
      BY <1>2, <2>1, <2>2 DEF LinesKept
  <2>4. secret # None => Len(lines') >= 1 /\ secret = UnitsOf(lines'[1])
      BY <1>2, <2>1 DEF LinesKept
  <2>5. stage \in Accepted /\ command = "keymake" =>
          Len(lines') >= 2 /\ UnitsOf(lines'[1]) = UnitsOf(lines'[2])
      BY <1>2, <2>1 DEF LinesKept
  <2> QED BY <1>1, <1>2, <1>4, <2>3, <2>4, <2>5 DEF LinesKept
<1> QED BY <1>4, <1>6, <1>7 DEF LineInv

\* A unit that is no command is added to the units.
LEMMA EditedOnce ==
    ASSUME NEW v \in Seq(Units), NEW u \in Units
    PROVE  Times([w \in Seq(Units) |-> Edit(w, u)], v, 1) = Append(v, u)
PROOF
<1>1. PICK S : S = Seq(Units) OBVIOUS
<1>2. PICK g \in [S -> S] : g = [w \in Seq(Units) |-> Edit(w, u)] /\ g[v] = Edit(v, u)
  <2>1. [w \in S |-> Edit(w, u)] \in [S -> S] BY <1>1, EditType
  <2> QED BY <1>1, <2>1
<1>3. Times(g, v, 1) = g[v] BY <1>1, TimesOnce
<1>4. Edit(v, u) = Append(v, u) BY DEF Edit, Units
<1> QED BY <1>2, <1>3, <1>4

\* Enter changes no unit, however long it is held.
LEMMA EnterEdits ==
    ASSUME NEW v \in Seq(Units), NEW n \in Nat
    PROVE  Times([w \in Seq(Units) |-> Edit(w, "enter")], v, n) = v
PROOF
<1>1. PICK S : S = Seq(Units) OBVIOUS
<1>2. \A w \in Seq(Units) : Edit(w, "enter") = w BY DEF Edit, Units
<1>3. PICK g \in [S -> S] : /\ g = [w \in Seq(Units) |-> Edit(w, "enter")]
                            /\ \A w \in S : g[w] = w
  <2>1. [w \in S |-> Edit(w, "enter")] \in [S -> S] BY <1>1, EditType
  <2> QED BY <1>1, <1>2, <2>1
<1>4. v \in S BY <1>1
<1> DEFINE T == {i \in Nat : Times(g, v, i) = v}
<1>5. 0 \in T BY <1>4, 0 \in Nat, TimesTaken
<1>6. ASSUME NEW i \in Nat, i \in T PROVE i + 1 \in T
  <2>1. Times(g, v, i + 1) = g[Times(g, v, i)] BY <1>4, TimesTaken
  <2>2. Times(g, v, i) = v BY <1>6
  <2>3. Times(g, v, i + 1) = v BY <1>3, <1>4, <2>1, <2>2
  <2> QED BY <2>3
<1>7. Nat \subseteq T
  <2> HIDE DEF T
  <2> QED BY <1>5, <1>6, Always
<1> QED BY <1>3, <1>7

\* A record is read: what is got and what is still on its way make the line.
LEMMA ReadLine == ASSUME LineInv, ReadEvent PROVE LineInv'
PROOF
<1>1. CASE Interrupted("newline") \/ (~cancelled /\ Fails("failed", "newline"))
  <2>1. UNCHANGED said /\ value' = value /\ stage' = "newline" /\ result' # "ok"
      BY <1>1 DEF Interrupted, Fails, GoTo, said, config, typing, ending
  <2>2. ~Live' BY <2>1 DEF Live, Before, Reading
  <2> QED BY <2>1, <2>2, Moves DEF LineInv, LineTypes, Accepted
<1>2. CASE ~(Interrupted("newline") \/ (~cancelled /\ Fails("failed", "newline")))
  <2>1. PICK u, n : u = Head(queue)[1] /\ n = Head(queue)[2] OBVIOUS
  <2>2. /\ stage = "read" /\ queue' = Tail(queue)
        /\ value' = Times([v \in Seq(Units) |-> Edit(v, u)], value, n)
        /\ result' = Ending(u)
        /\ stage' = IF Ending(u) = None THEN "poll" ELSE "newline"
        /\ UNCHANGED <<windows, command, line, lines, secret>>
      BY <1>2, <2>1 DEF ReadEvent, At, config, ending
  <2>3. LineTypes /\ LinesKept /\ Coming /\ Live /\ Read = Turn - 1 /\ Got = value
      BY <2>2 DEF LineInv, Live, Read, Got, Reading, After
  <2>4. /\ Turn \in {1, 2} /\ Turn' = Turn
        /\ Read' = IF stage' = "newline" THEN Turn ELSE Turn - 1
        /\ Got' = IF stage' = "newline" THEN <<>> ELSE value'
      BY <2>2 DEF Turn, Read, Got, After, Reading
  <2>5. CASE EnterComes
    <3>1. PICK i \in Nat : queue = <<<<"enter", i>>>> BY <2>5 DEF EnterComes
    <3>2. u = "enter" /\ n = i /\ Tail(queue) = <<>> BY <2>1, <3>1
    <3>3. value' = value BY <2>2, <2>3, <3>2, EnterEdits DEF LineTypes
    <3>4. Ending(u) # None BY <3>2, KeysAssumption DEF Ending
    <3>5. stage' = "newline" /\ queue' = <<>> BY <2>2, <3>2, <3>4
    <3>6. line = <<>> /\ Len(lines) = Turn /\ value = UnitsOf(lines[Turn])
        BY <2>3, <2>4, <2>5 DEF EnterComes
    <3>7. LineTypes' BY <2>2, <2>3, <3>3, <3>5 DEF LineTypes
    <3>8. Coming' BY <2>2, <2>4, <3>5, <3>6, UnitsEmpty DEF Coming
    <3>9. LinesKept'
        BY <2>2, <2>3, <2>4, <3>3, <3>5, <3>6 DEF LinesKept, Accepted
    <3> QED BY <3>7, <3>8, <3>9 DEF LineInv
  <2>6. CASE KeyComes /\ Len(lines) = Read
    <3>1. ASSUME Len(lines) = Read, value' \in Seq(Units), u # "enter",
                 stage' = "poll" => \/ queue' = <<>> /\ value' = UnitsOf(line)
                                    \/ KeyComes'
          PROVE  LineInv'
      <4>1. Ending(u) # "ok" BY <3>1, KeysAssumption DEF Ending
      <4>2. Live' => stage' = "poll" BY <2>2, <4>1 DEF Live, Before, Reading
      <4>3. windows BY <2>2, <2>3 DEF LineTypes
      <4>4. LineTypes' BY <2>2, <2>3, <3>1, <4>3 DEF LineTypes
      <4>5. Live' => Coming' BY <2>2, <2>3, <2>4, <3>1, <4>2 DEF Coming
      <4>6. LinesKept' BY <2>2, <2>3, <2>4, <4>2 DEF LinesKept, Accepted
      <4> QED BY <4>4, <4>5, <4>6 DEF LineInv
    <3>2. PICK l \in Seq(Chars) :
            \/ \E k \in Single, i \in Nat :
                 queue = <<<<k, i>>>> /\ Got = UnitsOf(l) /\ line = Typed(l, k, i)
            \/ /\ queue = <<<<"high", 1>>, <<"low", 1>>>>
               /\ Got = UnitsOf(l) /\ line = Append(l, "astral")
            \/ /\ queue = <<<<"low", 1>>>>
               /\ Got = Append(UnitsOf(l), "high") /\ line = Append(l, "astral")
        BY <2>6 DEF KeyComes
    <3>3. CASE \E k \in Single, i \in Nat :
                 queue = <<<<k, i>>>> /\ Got = UnitsOf(l) /\ line = Typed(l, k, i)
      <4>1. PICK k \in Single, i \in Nat :
              queue = <<<<k, i>>>> /\ Got = UnitsOf(l) /\ line = Typed(l, k, i)
          BY <3>3
      <4>2. u = k /\ n = i /\ Tail(queue) = <<>> BY <2>1, <4>1
      <4>3. value' = UnitsOf(line) BY <2>2, <2>3, <4>1, <4>2, RepeatedMeant DEF Typed
      <4>4. value' \in Seq(Units) BY <2>3, <4>3, UnitsAppended DEF LineTypes
      <4>5. u # "enter" BY <4>2 DEF Single, Chars, EditKeys, Ignored
      <4> QED BY <2>2, <2>6, <3>1, <4>2, <4>3, <4>4, <4>5
    <3>4. CASE /\ queue = <<<<"high", 1>>, <<"low", 1>>>>
               /\ Got = UnitsOf(l) /\ line = Append(l, "astral")
      <4>1. u = "high" /\ n = 1 /\ Tail(queue) = <<<<"low", 1>>>> BY <2>1, <3>4
      <4>2. value' = Append(value, "high") /\ value' \in Seq(Units)
        <5>1. "high" \in Units /\ value \in Seq(Units) BY <2>3 DEF Units, LineTypes
        <5>2. Append(value, "high") \in Seq(Units) BY <5>1
        <5> QED BY <2>2, <4>1, <5>1, <5>2, EditedOnce
      <4>3. stage' = "poll" => KeyComes'
          BY <2>2, <2>3, <2>4, <3>4, <4>1, <4>2 DEF KeyComes
      <4> QED BY <2>6, <3>1, <4>1, <4>2, <4>3
    <3>5. CASE /\ queue = <<<<"low", 1>>>>
               /\ Got = Append(UnitsOf(l), "high") /\ line = Append(l, "astral")
      <4>1. u = "low" /\ n = 1 /\ Tail(queue) = <<>> BY <2>1, <3>5
      <4>2. value' = Append(value, "low") /\ value' \in Seq(Units)
        <5>1. "low" \in Units /\ value \in Seq(Units) BY <2>3 DEF Units, LineTypes
        <5>2. Append(value, "low") \in Seq(Units) BY <5>1
        <5> QED BY <2>2, <4>1, <5>1, <5>2, EditedOnce
      <4>3. value' = UnitsOf(line) BY <2>3, <3>5, <4>2, UnitsAppended
      <4> QED BY <2>2, <2>6, <3>1, <4>1, <4>2, <4>3
    <3> QED BY <3>2, <3>3, <3>4, <3>5
  <2>7. queue # <<>> BY <2>2, <2>3 DEF LineTypes
  <2> QED BY <2>3, <2>5, <2>6, <2>7 DEF Coming
<1> QED BY <1>1, <1>2

\* Every step leaves the line and its units in accord.
LEMMA NextLine == LineInv /\ [Next]_vars => LineInv'
PROOF
<1> SUFFICES ASSUME LineInv, [Next]_vars PROVE LineInv' OBVIOUS
<1>1. CASE OpenConsole \/ SaveMode \/ SetRaw \/ ShowPrompt \/ Poll \/ Wait \/ Newline \/ Restore
    BY <1>1, CallsLine
<1>2. CASE ReadEvent BY <1>2, ReadLine
<1>3. CASE Call \/ Returned \/ Final \/ PrintDigest BY <1>3, CallersLine
<1>4. CASE Judge BY <1>4, CallersLine, JudgeLine
<1>5. CASE Rpassword BY <1>5, RpasswordLine
<1>6. CASE Signal BY <1>6, SignalLine
<1>7. CASE \E k \in Chars \cup EditKeys \cup EndKeys \cup Ignored, n \in Repeats : Type(k, n)
    BY <1>7, TypeLine
<1>8. CASE UNCHANGED vars BY <1>8, LineUnmoved
<1> QED BY <1>1, <1>2, <1>3, <1>4, <1>5, <1>6, <1>7, <1>8 DEF Next, Program, Windows, User

\* The invariant says that what was read is what was typed.
LEMMA LineRead == LineInv => LineAsTyped
PROOF
<1> SUFFICES ASSUME LineInv PROVE LineAsTyped OBVIOUS
<1>1. stage \in {"poll", "wait"} /\ queue = <<>> => value = UnitsOf(line)
  <2> SUFFICES ASSUME stage \in {"poll", "wait"}, queue = <<>> PROVE value = UnitsOf(line)
      OBVIOUS
  <2>1. Coming /\ Got = value BY DEF LineInv, Live, Got, Reading
  <2> QED BY <2>1 DEF Coming, KeyComes, EnterComes
<1>2. secret # None => secret = UnitsOf(lines[1]) BY DEF LineInv, LinesKept
<1>3. stage \in {"print", "accepted"} =>
        /\ command # "sha3" => secret # <<>>
        /\ command = "keymake" => lines[1] = lines[2]
  <2> SUFFICES ASSUME stage \in Accepted
               PROVE  /\ command # "sha3" => secret # <<>>
                      /\ command = "keymake" => lines[1] = lines[2]
      BY DEF Accepted
  <2>1. command # "sha3" => secret # <<>> BY DEF LineInv, LinesKept
  <2>2. ASSUME command = "keymake" PROVE lines[1] = lines[2]
    <3>1. /\ lines \in Seq(Seq(Chars)) /\ Len(lines) >= 2
          /\ UnitsOf(lines[1]) = UnitsOf(lines[2])
        BY <2>2 DEF LineInv, LinesKept, LineTypes
    <3>2. lines[1] \in Seq(Chars) /\ lines[2] \in Seq(Chars) BY <3>1
    <3> QED BY <3>1, <3>2, UnitsOnce
  <2> QED BY <2>1, <2>2
<1> QED BY <1>1, <1>2, <1>3 DEF LineAsTyped

(***************************************************************************)
(* What the prompt has got is what the user meant, for any number of keys  *)
(* and repeats, and also for characters of two units; a password is the    *)
(* first line, and two lines that make a key are the same characters       *)
(* (prompt_password, remove_character, password).                          *)
(***************************************************************************)
THEOREM LineMeant == Spec => []LineAsTyped
PROOF
<1>1. Init => LineInv BY InitLine
<1>2. LineInv /\ [Next]_vars => LineInv' BY NextLine
<1>3. LineInv => LineAsTyped BY LineRead
<1> QED BY <1>1, <1>2, <1>3, PTL DEF Spec

\* What Enter ends can be made a string of.
EnterAccepted == stage = "read" /\ Head(queue)[1] = "enter" => Ending("enter") = "ok"

(***************************************************************************)
(* Enter never ends a prompt in an error: whatever was typed and edited,   *)
(* String::from_utf16 of prompt_password accepts what is left.             *)
(***************************************************************************)
THEOREM NeverMalformed == Spec => []EnterAccepted
PROOF
<1>1. Init => LineInv BY InitLine
<1>2. LineInv /\ [Next]_vars => LineInv' BY NextLine
<1>3. LineInv => EnterAccepted
  <2> SUFFICES ASSUME LineInv, stage = "read", Head(queue)[1] = "enter"
               PROVE  Ending("enter") = "ok"
      BY DEF EnterAccepted
  <2>1. Coming /\ Got = value /\ LineTypes /\ queue # <<>>
      BY DEF LineInv, LineTypes, Live, Got, Reading
  <2>2. ~KeyComes BY DEF KeyComes, Single, Chars, EditKeys, Ignored
  <2>3. EnterComes BY <2>1, <2>2 DEF Coming
  <2>4. lines[Read + 1] \in Seq(Chars) /\ value = UnitsOf(lines[Read + 1])
    <3>1. Read \in {0, 1, 2} BY DEF Read, Turn
    <3> QED BY <2>1, <2>3, <3>1 DEF EnterComes, LineTypes
  <2>5. WellFormed(value) BY <2>4, UnitsWellFormed
  <2> QED BY <2>5 DEF Ending
<1> QED BY <1>1, <1>2, <1>3, PTL DEF Spec

-----------------------------------------------------------------------------
(* CancelEnds *)

\* Ctrl-C that a call has returned is in the flag, or about to be.
CancelInv ==
    /\ stage \in Inside => windows
    /\ stage = "rpassword" => ~windows
    /\ stage \in Asking /\ result = "interrupted" =>
         stage = "returned" \/ (windows /\ cancelled)

\* No step loses a Ctrl-C.
LEMMA NextCancel ==
    ASSUME CancelInv, [Next]_vars
    PROVE  CancelInv'
PROOF
<1> USE DEF CancelInv, Inside, Hidden, Reading, Asking, At, GoTo, config, reading
<1>1. CASE OpenConsole \/ SaveMode \/ SetRaw \/ ShowPrompt \/ Poll \/ Wait
  BY <1>1 DEF OpenConsole, SaveMode, SetRaw, ShowPrompt, Poll, Wait, Fails, Interrupted
<1>2. CASE ReadEvent
  <2>1. \A u : Ending(u) = "interrupted" => u = "interrupt"
    BY KeysAssumption DEF Ending, KeysAssumption
  <2> QED BY <1>2, <2>1 DEF ReadEvent, Fails, Interrupted
<1>3. CASE Newline \/ Restore \/ Rpassword
  BY <1>3 DEF Newline, Restore, Rpassword, Fails
<1>4. CASE Call \/ Returned \/ Judge \/ Final \/ PrintDigest
  BY <1>4, KeysAssumption
     DEF Call, Returned, Judge, Final, PrintDigest, Leave, KeysAssumption
<1>5. CASE User \/ UNCHANGED vars
  <2>1. /\ stage' = stage /\ windows' = windows /\ result' = result
        /\ cancelled => cancelled'
    BY <1>5 DEF User, Type, Signal, vars
  <2> QED BY <2>1
<1> QED BY <1>1, <1>2, <1>3, <1>4, <1>5 DEF Next, Program, Windows

\* What a step after Ctrl-C may do.
Obeys ==
    CancelSeen =>
        /\ Rank \in 1..7
        /\ CancelSeen' \/ exit' = 130
        /\ IF Program THEN Rank' < Rank ELSE Rank' = Rank

\* Each step of prompt_password and its callers goes on to the end.
LEMMA CancelObeyed ==
    ASSUME CancelInv, [Next]_vars
    PROVE  Obeys
PROOF
<1> SUFFICES ASSUME CancelSeen
             PROVE  /\ Rank \in 1..7
                    /\ CancelSeen' \/ exit' = 130
                    /\ IF Program THEN Rank' < Rank ELSE Rank' = Rank
    BY DEF Obeys
<1> USE DEF CancelInv, Inside, Hidden, Reading, Asking, At, GoTo, config, reading
<1>1. /\ stage \in Asking
      /\ stage # "returned" => windows /\ cancelled
      /\ stage = "returned" => cancelled \/ result = "interrupted"
    BY DEF CancelSeen
<1>2. Rank \in 1..7 BY <1>1 DEF Rank, StepsLeft
<1>3. ASSUME Windows PROVE CancelSeen' /\ Rank' < Rank
  <2>1. windows /\ cancelled /\ windows' = windows /\ cancelled'
    BY <1>1, <1>3 DEF Windows, OpenConsole, SaveMode, SetRaw, ShowPrompt, Poll, Wait,
                      ReadEvent, Newline, Restore, Fails, Interrupted
  <2>2. \/ stage = "open" /\ stage' = "returned"
        \/ stage = "mode" /\ stage' \in {"returned", "raw"}
        \/ stage = "raw" /\ stage' \in {"restore", "show"}
        \/ stage = "show" /\ stage' \in {"restore", "poll"}
        \/ stage = "poll" /\ stage' = "newline"
        \/ stage = "wait" /\ stage' \in {"newline", "poll", "read"}
        \/ stage = "read" /\ stage' = "newline"
        \/ stage = "newline" /\ stage' = "restore"
        \/ stage = "restore" /\ stage' = "returned"
    BY <1>3, <2>1 DEF Windows, OpenConsole, SaveMode, SetRaw, ShowPrompt, Poll, Wait,
                      ReadEvent, Newline, Restore, Fails, Interrupted
  <2>3. StepsLeft[stage'] < StepsLeft[stage] BY <2>2 DEF StepsLeft
  <2> QED BY <2>1, <2>2, <2>3 DEF CancelSeen, Rank, StepsLeft
<1>4. ASSUME Call \/ Returned \/ Judge \/ Final \/ PrintDigest
      PROVE  (CancelSeen' \/ exit' = 130) /\ Rank' < Rank
  <2>1. \/ stage \in {"call", "returned", "judge", "final"} /\ stage' = "done" /\ exit' = 130
        \/ /\ stage = "judge" /\ stage' \in {"call", "final"}
           /\ windows /\ cancelled /\ windows' = windows /\ cancelled' = cancelled
    BY <1>1, <1>4 DEF Call, Returned, Judge, Final, PrintDigest, Leave
  <2>2. StepsLeft[stage'] < StepsLeft[stage] BY <2>1 DEF StepsLeft
  <2> QED BY <2>1, <2>2 DEF CancelSeen, Rank, StepsLeft
<1>5. ~Rpassword BY <1>1 DEF Rpassword
<1>6. ASSUME User \/ UNCHANGED vars PROVE CancelSeen' /\ Rank' = Rank
  <2>1. /\ stage' = stage /\ windows' = windows /\ result' = result
        /\ cancelled => cancelled'
    BY <1>6 DEF User, Type, Signal, vars
  <2> QED BY <2>1 DEF CancelSeen, Rank, StepsLeft
<1> QED BY <1>2, <1>3, <1>4, <1>5, <1>6 DEF Next, Program

(***************************************************************************)
(* The safety half of CancelEnds: a prompt in which Ctrl-C was pressed is  *)
(* at most seven steps from exit code 130, each of them brings it nearer,  *)
(* and no key, failing call or second prompt takes it back                 *)
(* (console.rs:73-157, app.rs:15-50, main.rs:21-30).                       *)
(***************************************************************************)
THEOREM CancelHeard == Spec => [][Obeys]_vars
PROOF
<1>1. Init => CancelInv
  BY KeysAssumption DEF Init, CancelInv, Inside, Hidden, Reading, Asking, KeysAssumption
<1>2. CancelInv /\ [Next]_vars => CancelInv' BY NextCancel
<1>3. CancelInv /\ [Next]_vars => Obeys BY CancelObeyed
<1> QED BY <1>1, <1>2, <1>3, PTL DEF Spec
=============================================================================
