----------------------------- MODULE NamesProofs -----------------------------
(***************************************************************************)
(* The command line of Names, proved for any number of arguments and any   *)
(* parts of names: what parse finds is what is spelled, and the names a    *)
(* data command gets past the checks are safe and lead back.               *)
(***************************************************************************)
EXTENDS Names, Induction

\* What an argument is, or a name: one part at least.
Argument == Seq(Parts) \ {<<>>}

\* An argument is a sequence of parts that is not empty.
LEMMA ArgumentHas ==
    ASSUME NEW n \in Argument
    PROVE  /\ n \in Seq(Parts) /\ Len(n) \in Nat /\ Len(n) > 0 /\ DOMAIN n = 1..Len(n)
           /\ \A i \in 1..Len(n) : n[i] \in Parts
PROOF
<1>1. n \in Seq(Parts) /\ n # <<>> BY DEF Argument
<1>2. Len(n) # 0 BY <1>1
<1> QED BY <1>1, <1>2

\* And every such sequence is one.
LEMMA ArgumentIs ==
    ASSUME NEW n \in Seq(Parts), Len(n) > 0
    PROVE  n \in Argument
BY DEF Argument

\* Two elements are a sequence of two, one is a sequence of one.
LEMMA Pair ==
    ASSUME NEW a, NEW b
    PROVE  /\ Len(<<a, b>>) = 2 /\ <<a, b>>[1] = a /\ <<a, b>>[2] = b
           /\ Len(<<a>>) = 1 /\ <<a>>[1] = a
OBVIOUS

\* A name after one name makes two names.
LEMMA AppendOne ==
    ASSUME NEW S, NEW a \in S, NEW b \in S
    PROVE  Append(<<a>>, b) = <<a, b>>
PROOF
<1>1. PICK s \in Seq(S) : s = <<a>>
  <2>1. <<a>> \in Seq(S) OBVIOUS
  <2> QED BY <2>1
<1>2. Len(s) = 1 /\ s[1] = a BY <1>1
<1>3. PICK t \in Seq(S) : t = Append(s, b)
  <2>1. Append(s, b) \in Seq(S) OBVIOUS
  <2> QED BY <2>1
<1>4. Len(t) = Len(s) + 1 /\ t[Len(s) + 1] = b /\ \A i \in 1..Len(s) : t[i] = s[i] BY <1>3
<1>5. 1 \in 1..Len(s) /\ Len(s) + 1 = 2 BY <1>2
<1>6. Len(t) = 2 /\ t[1] = a /\ t[2] = b BY <1>2, <1>4, <1>5
<1>7. t = <<t[1], t[2]>> BY <1>6
<1> QED BY <1>1, <1>3, <1>6, <1>7

\* The empty name has one part, which is empty.
LEMMA NoNameIs ==
    /\ NoName \in Argument
    /\ \A n \in Seq(Parts) : Len(n) = 1 /\ n[1] = "" => n = NoName
PROOF
<1>1. PICK x \in Parts : x = "" BY PartsAssumption DEF PartsAssumption, OwnParts
<1>2. <<x>> \in Seq(Parts) /\ Len(<<x>>) > 0 OBVIOUS
<1>3. \A n \in Seq(Parts) : Len(n) = 1 /\ n[1] = x => n = <<x>> OBVIOUS
<1>4. NoName = <<x>> BY <1>1 DEF NoName, Word
<1> QED BY <1>1, <1>2, <1>3, <1>4, ArgumentIs

-----------------------------------------------------------------------------
(* Names *)

\* A name that ends well is on Windows what it is elsewhere, but for its case.
LEMMA DenotesFolded ==
    ASSUME NEW n \in Argument, ValidName(n)
    PROVE  Denotes(n) = Folded(n)
PROOF
<1>1. Len(n) \in Nat /\ Len(n) > 0 /\ DOMAIN n = 1..Len(n) /\ Last(n) = n[Len(n)]
    BY ArgumentHas DEF Last
<1>2. n[Len(n)] # "" /\ Trim[n[Len(n)]] = n[Len(n)] BY <1>1 DEF ValidName
<1> DEFINE ends == {i \in DOMAIN n : n[i] # ""}
           end == CHOOSE i \in ends : \A j \in ends : j <= i
<1>3. Len(n) \in ends /\ \A j \in ends : j \in Nat /\ j <= Len(n)
  <2>1. Len(n) \in DOMAIN n BY <1>1
  <2>2. \A j \in DOMAIN n : j \in Nat /\ j <= Len(n) BY <1>1
  <2> QED BY <1>2, <2>1, <2>2
<1>4. end = Len(n)
  <2> HIDE DEF ends
  <2>1. end \in ends /\ \A j \in ends : j <= end BY <1>3
  <2>2. end \in Nat /\ end <= Len(n) /\ Len(n) <= end BY <1>3, <2>1
  <2> QED BY <1>1, <2>2
<1>5. Denotes(n) = Folded([i \in 1..Len(n) |-> IF i = Len(n) THEN Trim[n[i]] ELSE n[i]])
    BY <1>3, <1>4 DEF Denotes
<1>6. Folded(n) = [i \in 1..Len(n) |-> Fold[n[i]]] BY <1>1 DEF Folded
<1>7. \A i \in 1..Len(n) : (IF i = Len(n) THEN Trim[n[i]] ELSE n[i]) = n[i] BY <1>2
<1>8. PICK m : m = [i \in 1..Len(n) |-> IF i = Len(n) THEN Trim[n[i]] ELSE n[i]] OBVIOUS
<1>9. DOMAIN m = 1..Len(n) /\ \A i \in 1..Len(n) : m[i] = n[i] BY <1>7, <1>8
<1>10. Folded(m) = [i \in 1..Len(n) |-> Fold[n[i]]] BY <1>9 DEF Folded
<1> QED BY <1>5, <1>6, <1>8, <1>10

\* The names the program keeps consist of its parts.
LEMMA ProtectedParts ==
    ASSUME NEW q \in Protected
    PROVE  q \in Seq(OwnParts)
PROOF
<1>1. PICK key \in OwnParts : key = "key" BY DEF OwnParts
<1>2. PICK meta \in OwnParts : meta = "meta" BY DEF OwnParts
<1>3. PICK xcha \in OwnParts : xcha = "xcha" BY DEF OwnParts
<1>4. PICK xorbox \in OwnParts : xorbox = "xorbox" BY DEF OwnParts
<1>5. PICK lock \in OwnParts : lock = "lock" BY DEF OwnParts
<1>6. PICK empty \in OwnParts : empty = "" BY DEF OwnParts
<1>7. {<<key, key>>, <<key, meta>>, <<xcha, key>>, <<empty, xorbox, lock>>} \subseteq Seq(OwnParts)
    OBVIOUS
<1> QED BY <1>1, <1>2, <1>3, <1>4, <1>5, <1>6, <1>7 DEF Protected

\* What Windows takes for a name of the program, reserved does as well.
LEMMA FoldedReserved ==
    ASSUME NEW n \in Argument, NEW q \in Protected, Folded(n) = Folded(q)
    PROVE  Lowered(n) = q
PROOF
<1>1. DOMAIN n = 1..Len(n) /\ Len(n) \in Nat /\ \A i \in 1..Len(n) : n[i] \in Parts
    BY ArgumentHas
<1>2. q \in Seq(OwnParts) BY ProtectedParts
<1>3. DOMAIN n = DOMAIN q
  <2>1. DOMAIN Folded(n) = DOMAIN n /\ DOMAIN Folded(q) = DOMAIN q BY DEF Folded
  <2> QED BY <2>1
<1>4. \A i \in DOMAIN n : Fold[n[i]] = Fold[q[i]]
  <2>1. \A i \in DOMAIN n : Folded(n)[i] = Fold[n[i]] BY DEF Folded
  <2>2. \A i \in DOMAIN q : Folded(q)[i] = Fold[q[i]] BY DEF Folded
  <2> QED BY <1>3, <2>1, <2>2
<1>5. \A i \in DOMAIN n : Lower[n[i]] = q[i]
  <2>1. \A i \in DOMAIN n : n[i] \in Parts /\ q[i] \in OwnParts BY <1>1, <1>2, <1>3
  <2> QED BY <1>4, <2>1, FoldingAssumption DEF FoldingAssumption
<1>6. Lowered(n) = [i \in DOMAIN n |-> q[i]] BY <1>5 DEF Lowered
<1>7. q = [i \in DOMAIN q |-> q[i]] BY <1>2
<1> QED BY <1>3, <1>6, <1>7

\* And what it takes for a temporary file of ours.
LEMMA FoldedTemporary ==
    ASSUME NEW n \in Argument, DenotesTemporary(Folded(n))
    PROVE  IsTemporary(Lowered(n))
PROOF
<1>1. DOMAIN n = 1..Len(n) /\ Len(n) \in Nat /\ \A i \in 1..Len(n) : n[i] \in Parts
    BY ArgumentHas
<1>2. Len(Folded(n)) = Len(n) /\ Len(Lowered(n)) = Len(n)
  <2>1. DOMAIN Folded(n) = 1..Len(n) /\ DOMAIN Lowered(n) = 1..Len(n)
      BY <1>1 DEF Folded, Lowered
  <2>2. Folded(n) = [i \in 1..Len(n) |-> Folded(n)[i]] BY <1>1 DEF Folded
  <2>3. Lowered(n) = [i \in 1..Len(n) |-> Lowered(n)[i]] BY <1>1 DEF Lowered
  <2> QED BY <1>1, <2>2, <2>3
<1>3. Len(n) > 1 BY <1>2 DEF DenotesTemporary
<1>4. 1 \in DOMAIN n /\ 2 \in DOMAIN n /\ n[1] \in Parts /\ n[2] \in Parts BY <1>1, <1>3
<1>5. Folded(n)[1] = Fold[n[1]] /\ Folded(n)[2] = Fold[n[2]] BY <1>4 DEF Folded
<1>6. Lowered(n)[1] = Lower[n[1]] /\ Lowered(n)[2] = Lower[n[2]] BY <1>4 DEF Lowered
<1>7. Lower[n[1]] = ""
  <2>1. Fold[n[1]] = Fold[""] BY <1>5 DEF DenotesTemporary
  <2> QED BY <1>4, <2>1, FoldingAssumption DEF FoldingAssumption, OwnParts
<1>8. Lower[n[2]] \in Temporary
  <2>1. \E t \in Temporary : Fold[n[2]] = Fold[t] BY <1>5 DEF DenotesTemporary
  <2> QED BY <1>4, <2>1, FoldingAssumption DEF FoldingAssumption
<1> QED BY <1>2, <1>3, <1>6, <1>7, <1>8 DEF IsTemporary

\* A name past the checks denotes no file of the program and no device.
LEMMA CheckedIsSafe ==
    ASSUME NEW n \in Argument, ValidName(n), ~Reserved(n)
    PROVE  LET d == Denotes(n)
           IN  /\ d # <<>> /\ \A q \in Protected : d # Folded(q)
               /\ ~DenotesTemporary(d) /\ ~DenotesDevice(d)
PROOF
<1>1. Denotes(n) = Folded(n) BY DenotesFolded
<1>2. 1 \in DOMAIN n /\ n[1] \in Parts BY ArgumentHas
<1>3. Folded(n)[1] = Fold[n[1]] BY <1>2 DEF Folded
<1>4. Folded(n) # <<>>
  <2>1. DOMAIN Folded(n) # {} BY <1>2 DEF Folded
  <2> QED BY <2>1
<1>5. \A q \in Protected : Folded(n) # Folded(q) BY FoldedReserved DEF Reserved
<1>6. ~DenotesTemporary(Folded(n)) BY FoldedTemporary DEF Reserved
<1>7. ~DenotesDevice(Folded(n))
  <2> SUFFICES ASSUME NEW x \in Devices, Trim[Folded(n)[1]] = Fold[x] PROVE FALSE
      BY DEF DenotesDevice
  <2>1. Trim[n[1]] \in Parts /\ Trim[Fold[n[1]]] = Fold[Trim[n[1]]]
      BY <1>2, PartsAssumption DEF PartsAssumption
  <2>2. Fold[Trim[n[1]]] = Fold[x] BY <1>3, <2>1
  <2>3. Upper[Trim[n[1]]] \in Devices
      BY <2>1, <2>2, FoldingAssumption DEF FoldingAssumption
  <2> QED BY <2>3 DEF ValidName
<1> QED BY <1>1, <1>4, <1>5, <1>6, <1>7

\* The name E derives is a name, and D derives from it the one it was given.
LEMMA ThereAndBack ==
    ASSUME NEW n \in Argument, n # NoName
    PROVE  XchaOutput(XchaOutput(n, TRUE), FALSE) = n
PROOF
<1>1. n \in Seq(Parts) /\ Len(n) \in Nat /\ Len(n) > 0 BY ArgumentHas
<1>2. "xcha" \in Parts BY PartsAssumption DEF PartsAssumption, OwnParts
<1>3. PICK m \in Seq(Parts) : m = Append(n, "xcha")
  <2>1. PICK x \in Parts : x = "xcha" BY <1>2
  <2>2. Append(n, x) \in Seq(Parts) BY <1>1
  <2> QED BY <2>1, <2>2
<1>4. /\ Len(m) = Len(n) + 1 /\ m[Len(m)] = "xcha"
      /\ \A i \in 1..Len(n) : m[i] = n[i]
    BY <1>1, <1>3
<1>5. Last(m) = "xcha" BY <1>4 DEF Last
<1>6. Front(m) = n
  <2>1. Front(m) = SubSeq(m, 1, Len(n)) BY <1>1, <1>4 DEF Front
  <2> QED BY <1>1, <1>4, <2>1
<1>7. m # <<"", Last(m)>>
  <2>1. PICK w : w = <<"", Last(m)>> OBVIOUS
  <2>2. Len(w) = 2 /\ w[1] = "" BY <2>1, Pair
  <2>3. ASSUME m = w PROVE FALSE
    <3>1. Len(m) = 2 /\ m[1] = "" BY <2>2, <2>3
    <3>2. Len(n) = 1
      <4>1. \A i \in Nat : i + 1 = 2 => i = 1 OBVIOUS
      <4> QED BY <1>1, <1>4, <3>1, <4>1
    <3>3. n[1] = m[1] BY <1>4, <3>2
    <3>4. n = NoName BY <1>1, <3>1, <3>2, <3>3, NoNameIs
    <3> QED BY <3>4
  <2> QED BY <2>1, <2>3
<1>8. XchaOutput(n, TRUE) = m BY <1>3 DEF XchaOutput
<1>9. HasExtension(m)
  <2>1. Len(m) > 1 BY <1>1, <1>4
  <2> QED BY <1>7, <2>1 DEF HasExtension
<1> QED BY <1>5, <1>6, <1>8, <1>9 DEF XchaOutput

\* Whatever is derived has a part at least, also where there is no name to derive.
LEMMA DerivedIsArgument ==
    ASSUME NEW n \in Argument, NEW encrypt \in BOOLEAN
    PROVE  XchaOutput(n, encrypt) \in Argument
PROOF
<1>1. n \in Seq(Parts) /\ Len(n) \in Nat /\ Len(n) > 0 BY ArgumentHas
<1>2. "xcha" \in Parts BY PartsAssumption DEF PartsAssumption, OwnParts
<1>3. CASE encrypt
  <2>1. PICK x \in Parts : x = "xcha" BY <1>2
  <2>2. Append(n, x) \in Seq(Parts) BY <1>1
  <2>3. Len(Append(n, x)) = Len(n) + 1 BY <1>1
  <2>4. Append(n, x) \in Argument
    <3>1. PICK k \in Seq(Parts) : k = Append(n, x) BY <2>2
    <3>2. Len(k) > 0 BY <1>1, <2>3, <3>1
    <3> QED BY <3>1, <3>2, ArgumentIs
  <2>5. XchaOutput(n, encrypt) = Append(n, x) BY <1>3, <2>1 DEF XchaOutput
  <2> QED BY <2>4, <2>5
<1>4. CASE ~encrypt /\ HasExtension(n) /\ Last(n) = "xcha"
  <2>1. Len(n) > 1 BY <1>4 DEF HasExtension
  <2>2. Front(n) = SubSeq(n, 1, Len(n) - 1) BY DEF Front
  <2>3. Front(n) \in Seq(Parts) /\ Len(Front(n)) > 0 BY <1>1, <2>1, <2>2
  <2> QED BY <1>4, <2>3, ArgumentIs DEF XchaOutput
<1>5. CASE ~encrypt /\ ~(HasExtension(n) /\ Last(n) = "xcha")
    BY <1>5, NoNameIs DEF XchaOutput
<1> QED BY <1>3, <1>4, <1>5

-----------------------------------------------------------------------------
(* The options of xor *)

Options == [names : Seq(Argument), flags : SUBSET Flags, ok : BOOLEAN]
Start == [names |-> <<>>, flags |-> {}, ok |-> TRUE]

\* What one argument does to what was found before it.
LEMMA OptionDoes ==
    ASSUME NEW o \in Options, NEW a \in Argument
    PROVE  /\ Option(o, a) \in Options
           /\ Option(o, a).names = IF a \notin Flags /\ a[1] \notin Dashed
                                   THEN Append(o.names, a) ELSE o.names
           /\ Option(o, a).flags = IF a \in Flags THEN o.flags \cup {a} ELSE o.flags
           /\ Option(o, a).ok <=> /\ o.ok
                                  /\ IF a \in Flags THEN a \notin o.flags ELSE a[1] \notin Dashed
PROOF
<1>1. PICK ns \in Seq(Argument), fs \in SUBSET Flags, b \in BOOLEAN :
         o = [names |-> ns, flags |-> fs, ok |-> b]
    BY DEF Options
<1>2. Append(ns, a) \in Seq(Argument) /\ o.names = ns /\ o.flags = fs /\ o.ok = b BY <1>1
<1>3. CASE a \in Flags
  <2>1. PICK c \in BOOLEAN : c <=> b /\ a \notin fs OBVIOUS
  <2>2. Option(o, a) = [names |-> ns, flags |-> fs \cup {a}, ok |-> b /\ a \notin fs]
      BY <1>1, <1>3 DEF Option
  <2>3. Option(o, a) = [names |-> ns, flags |-> fs \cup {a}, ok |-> c] BY <2>1, <2>2
  <2>4. fs \cup {a} \in SUBSET Flags BY <1>3
  <2>5. [names |-> ns, flags |-> fs \cup {a}, ok |-> c] \in Options BY <2>4 DEF Options
  <2> QED BY <1>2, <1>3, <2>1, <2>3, <2>5
<1>4. CASE a \notin Flags /\ a[1] \in Dashed
  <2>1. Option(o, a) = [names |-> ns, flags |-> fs, ok |-> FALSE] BY <1>1, <1>4 DEF Option
  <2>2. [names |-> ns, flags |-> fs, ok |-> FALSE] \in Options BY DEF Options
  <2> QED BY <1>2, <1>4, <2>1, <2>2
<1>5. CASE a \notin Flags /\ a[1] \notin Dashed
  <2>1. Option(o, a) = [names |-> Append(ns, a), flags |-> fs, ok |-> b]
      BY <1>1, <1>5 DEF Option
  <2>2. [names |-> Append(ns, a), flags |-> fs, ok |-> b] \in Options BY <1>2 DEF Options
  <2> QED BY <1>2, <1>5, <2>1, <2>2
<1> QED BY <1>3, <1>4, <1>5

\* parse goes through the arguments of xor once, from the first to the last.
LEMMA XorLoop ==
    ASSUME NEW s \in Seq(Argument)
    PROVE  \E f \in [0..Len(s) -> Options] :
              /\ f[0] = Start
              /\ \A i \in 1..Len(s) : f[i] = Option(f[i - 1], s[i])
              /\ ParseXor(s) =
                    IF /\ f[Len(s)].ok
                       /\ Len(f[Len(s)].names) = (IF InPlace \in f[Len(s)].flags THEN 1 ELSE 2)
                    THEN Xor(f[Len(s)].names, f[Len(s)].flags) ELSE Rejected
PROOF
<1>1. PICK n \in Nat : n = Len(s) OBVIOUS
<1>2. Start \in Options BY <<>> \in Seq(Argument) DEF Start, Options
<1>3. PICK g \in [1..n -> [Options -> Options]] :
         \A i \in 1..n, o \in Options : g[i][o] = Option(o, s[i])
  <2> DEFINE g == [i \in 1..n |-> [o \in Options |-> Option(o, s[i])]]
  <2>1. ASSUME NEW i \in 1..n, NEW o \in Options PROVE Option(o, s[i]) \in Options
    <3>1. s[i] \in Argument BY <1>1
    <3> QED BY <3>1, OptionDoes
  <2>2. g \in [1..n -> [Options -> Options]] BY <2>1
  <2>3. \A i \in 1..n, o \in Options : g[i][o] = Option(o, s[i]) OBVIOUS
  <2> QED BY <2>2, <2>3
<1>4. PICK f \in [0..n -> Options] : Turns(f, n, Start, g, Options) BY <1>2, Recursion
<1>5. f[0] = Start /\ \A i \in 1..n : f[i] = Option(f[i - 1], s[i])
    BY <1>3, <1>4 DEF Turns
<1>6. \E h : h = [k \in 0..Len(s) |-> IF k = 0 THEN [names |-> <<>>, flags |-> {}, ok |-> TRUE]
                                      ELSE Option(h[k - 1], s[k])]
  <2>1. PICK h : h = [k \in 0..Len(s) |-> f[k]] OBVIOUS
  <2>2. h = [k \in 0..Len(s) |-> IF k = 0 THEN Start ELSE Option(h[k - 1], s[k])]
      BY <1>1, <1>5, <2>1
  <2> QED BY <2>2 DEF Start
<1> DEFINE h == CHOOSE h : h = [k \in 0..Len(s) |->
                                  IF k = 0 THEN [names |-> <<>>, flags |-> {}, ok |-> TRUE]
                                  ELSE Option(h[k - 1], s[k])]
<1>7. h = [k \in 0..Len(s) |-> IF k = 0 THEN Start ELSE Option(h[k - 1], s[k])]
    BY <1>6 DEF Start
<1>8. ParseXor(s) = IF /\ h[Len(s)].ok
                       /\ Len(h[Len(s)].names) = (IF InPlace \in h[Len(s)].flags THEN 1 ELSE 2)
                    THEN Xor(h[Len(s)].names, h[Len(s)].flags) ELSE Rejected
    BY DEF ParseXor
<1>9. PICK e : /\ e = [k \in 0..n |-> IF k = 0 THEN Start ELSE Option(e[k - 1], s[k])]
               /\ e[n] = h[n]
  <2> HIDE DEF h
  <2> QED BY <1>1, <1>7
<1>10. Turns(e, n, Start, g, Options)
  <2>1. e[0] = Start BY <1>9
  <2>2. \A i \in 1..n : e[i] = Option(e[i - 1], s[i]) BY <1>9
  <2> QED BY <1>3, <2>1, <2>2 DEF Turns
<1>11. e[n] = f[n]
  <2>1. n \in 0..n OBVIOUS
  <2> QED BY <1>4, <1>10, <2>1, SameTurns
<1>12. h[Len(s)] = f[Len(s)]
  <2> HIDE DEF h
  <2> QED BY <1>1, <1>9, <1>11
<1> HIDE DEF h
<1> QED BY <1>1, <1>5, <1>8, <1>12

\* Where the names ns are among the first k arguments.
Placed(at, ns, s, k) ==
    /\ at \in [1..Len(ns) -> 1..k]
    /\ \A i, j \in 1..Len(ns) : i < j => at[i] < at[j]
    /\ \A i \in 1..Len(ns) : ns[i] = s[at[i]] /\ ns[i] \notin Flags
    /\ \A m \in 1..k : s[m] \notin Flags => \E i \in 1..Len(ns) : at[i] = m

\* A flag is repeated, or an option is none.
Wrong(s) ==
    \/ \E i, j \in 1..Len(s) : i # j /\ s[i] \in Flags /\ s[j] = s[i]
    \/ \E m \in 1..Len(s) : s[m] \notin Flags /\ s[m][1] \in Dashed

\* What parse knows of the first k arguments.
Account(o, s, k) ==
    /\ ~o.ok => Wrong(s)
    /\ o.ok => /\ \E at : Placed(at, o.names, s, k)
               /\ \A f \in Flags : f \in o.flags <=> \E m \in 1..k : s[m] = f
               /\ \A i, j \in 1..k : s[i] \in Flags /\ s[j] = s[i] => i = j
               /\ \A m \in 1..k : s[m] \notin Flags => s[m][1] \notin Dashed

\* A name is placed where it stands.
LEMMA PlacedNext ==
    ASSUME NEW s \in Seq(Argument), NEW k \in 0..(Len(s) - 1), NEW ns \in Seq(Argument),
           NEW at, Placed(at, ns, s, k)
    PROVE  /\ s[k + 1] \in Flags => Placed(at, ns, s, k + 1)
           /\ s[k + 1] \notin Flags => \E bt : Placed(bt, Append(ns, s[k + 1]), s, k + 1)
PROOF
<1>1. /\ k \in Nat /\ Len(ns) \in Nat /\ k + 1 \in 1..Len(s) /\ s[k + 1] \in Argument
      /\ \A m \in 1..(k + 1) : m \in 1..k \/ m = k + 1
    OBVIOUS
<1>2. CASE s[k + 1] \in Flags
  <2>1. at \in [1..Len(ns) -> 1..(k + 1)] BY <1>1 DEF Placed
  <2> QED BY <1>1, <1>2, <2>1 DEF Placed
<1>3. CASE s[k + 1] \notin Flags
  <2>1. PICK a \in Argument : a = s[k + 1] BY <1>1
  <2>2. PICK ms \in Seq(Argument) : ms = Append(ns, a)
    <3>1. Append(ns, a) \in Seq(Argument) OBVIOUS
    <3> QED BY <3>1
  <2>3. /\ Len(ms) = Len(ns) + 1 /\ ms[Len(ns) + 1] = a
        /\ \A i \in 1..Len(ns) : ms[i] = ns[i]
      BY <2>2
  <2>4. PICK n \in Nat : n = Len(ns) BY <1>1
  <2>5. /\ at \in [1..n -> 1..k] /\ \A i, j \in 1..n : i < j => at[i] < at[j]
        /\ \A i \in 1..n : ns[i] = s[at[i]] /\ ns[i] \notin Flags
        /\ \A m \in 1..k : s[m] \notin Flags => \E i \in 1..n : at[i] = m
      BY <2>4 DEF Placed
  <2>6. PICK bt : bt = [i \in 1..(n + 1) |-> IF i <= n THEN at[i] ELSE k + 1] OBVIOUS
  <2>7. /\ bt \in [1..(n + 1) -> 1..(k + 1)] /\ bt[n + 1] = k + 1
        /\ \A i \in 1..n : bt[i] = at[i] /\ bt[i] \in 1..k
        /\ \A i \in 1..(n + 1) : i \in 1..n \/ i = n + 1
      BY <2>5, <2>6
  <2>8. \A i, j \in 1..(n + 1) : i < j => bt[i] < bt[j]
    <3> SUFFICES ASSUME NEW i \in 1..(n + 1), NEW j \in 1..(n + 1), i < j PROVE bt[i] < bt[j]
        OBVIOUS
    <3>1. i \in 1..n /\ bt[i] \in 1..k
      <4>1. i \in 1..n OBVIOUS
      <4> QED BY <2>7, <4>1
    <3>2. CASE j = n + 1 BY <2>7, <3>1, <3>2
    <3>3. CASE j \in 1..n BY <2>5, <2>7, <3>1, <3>3
    <3> QED BY <2>7, <3>2, <3>3
  <2>9. \A i \in 1..(n + 1) : ms[i] = s[bt[i]] /\ ms[i] \notin Flags
    <3>1. \A i \in 1..n : ms[i] = s[bt[i]] /\ ms[i] \notin Flags BY <2>3, <2>4, <2>5, <2>7
    <3>2. ms[n + 1] = s[bt[n + 1]] /\ ms[n + 1] \notin Flags
        BY <1>3, <2>1, <2>3, <2>4, <2>7
    <3> QED BY <2>7, <3>1, <3>2
  <2>10. \A m \in 1..(k + 1) : s[m] \notin Flags => \E i \in 1..(n + 1) : bt[i] = m
    <3> SUFFICES ASSUME NEW m \in 1..(k + 1), s[m] \notin Flags
                 PROVE  \E i \in 1..(n + 1) : bt[i] = m
        OBVIOUS
    <3>1. CASE m = k + 1
      <4>1. n + 1 \in 1..(n + 1) OBVIOUS
      <4> QED BY <2>7, <3>1, <4>1
    <3>2. CASE m \in 1..k
      <4>1. PICK i \in 1..n : at[i] = m BY <2>5, <3>2
      <4>2. i \in 1..(n + 1) OBVIOUS
      <4> QED BY <2>7, <4>1, <4>2
    <3> QED BY <1>1, <3>1, <3>2
  <2>11. Len(ms) = n + 1 BY <2>3, <2>4
  <2>12. Placed(bt, ms, s, k + 1) BY <2>7, <2>8, <2>9, <2>10, <2>11 DEF Placed
  <2> QED BY <1>3, <2>1, <2>2, <2>12
<1> QED BY <1>2, <1>3

\* Each argument keeps the account.
LEMMA AccountNext ==
    ASSUME NEW s \in Seq(Argument), NEW k \in 0..(Len(s) - 1), NEW o \in Options,
           Account(o, s, k)
    PROVE  Account(Option(o, s[k + 1]), s, k + 1)
PROOF
<1>1. /\ k \in Nat /\ k + 1 \in 1..Len(s) /\ 1..k \subseteq 1..Len(s) /\ k + 1 \notin 1..k
      /\ \A m \in 1..(k + 1) : m \in 1..k \/ m = k + 1
    OBVIOUS
<1>2. PICK a \in Argument : a = s[k + 1] BY <1>1
<1>3. PICK q \in Options : q = Option(o, a) BY OptionDoes
<1>4. o.names \in Seq(Argument) /\ o.ok \in BOOLEAN BY DEF Options
<1>5. CASE ~o.ok
  <2>1. ~q.ok BY <1>2, <1>3, <1>5, OptionDoes
  <2> QED BY <1>2, <1>3, <1>5, <2>1 DEF Account
<1>6. CASE o.ok /\ a \in Flags /\ a \in o.flags
  <2>1. ~q.ok BY <1>3, <1>6, OptionDoes
  <2>2. PICK m \in 1..k : s[m] = a BY <1>6 DEF Account
  <2>3. m \in 1..Len(s) /\ m # k + 1 BY <1>1
  <2>4. Wrong(s) BY <1>1, <1>2, <1>6, <2>2, <2>3 DEF Wrong
  <2> QED BY <1>2, <1>3, <2>1, <2>4 DEF Account
<1>7. CASE o.ok /\ a \in Flags /\ a \notin o.flags
  <2>1. q.ok /\ q.names = o.names /\ q.flags = o.flags \cup {a} BY <1>3, <1>7, OptionDoes
  <2>2. \A m \in 1..k : s[m] # a BY <1>7 DEF Account
  <2>3. \E at : Placed(at, q.names, s, k + 1)
    <3>1. PICK at : Placed(at, o.names, s, k) BY <1>7 DEF Account
    <3> QED BY <1>2, <1>4, <1>7, <2>1, <3>1, PlacedNext
  <2>4. \A f \in Flags : f \in q.flags <=> \E m \in 1..(k + 1) : s[m] = f
    <3> SUFFICES ASSUME NEW f \in Flags PROVE f \in q.flags <=> \E m \in 1..(k + 1) : s[m] = f
        OBVIOUS
    <3>1. f \in o.flags <=> \E m \in 1..k : s[m] = f BY <1>7 DEF Account
    <3>2. (\E m \in 1..(k + 1) : s[m] = f) <=> (\E m \in 1..k : s[m] = f) \/ f = a
      <4>1. 1..k \subseteq 1..(k + 1) /\ k + 1 \in 1..(k + 1) BY <1>1
      <4> QED BY <1>1, <1>2, <4>1
    <3> QED BY <2>1, <3>1, <3>2
  <2>5. \A i, j \in 1..(k + 1) : s[i] \in Flags /\ s[j] = s[i] => i = j
    <3>1. \A i, j \in 1..k : s[i] \in Flags /\ s[j] = s[i] => i = j BY <1>7 DEF Account
    <3> QED BY <1>1, <1>2, <2>2, <3>1
  <2>6. \A m \in 1..(k + 1) : s[m] \notin Flags => s[m][1] \notin Dashed
      BY <1>1, <1>2, <1>7 DEF Account
  <2> QED BY <1>2, <1>3, <2>1, <2>3, <2>4, <2>5, <2>6 DEF Account
<1>8. CASE o.ok /\ a \notin Flags /\ a[1] \in Dashed
  <2>1. ~q.ok BY <1>3, <1>8, OptionDoes
  <2>2. Wrong(s) BY <1>1, <1>2, <1>8 DEF Wrong
  <2> QED BY <1>2, <1>3, <2>1, <2>2 DEF Account
<1>9. CASE o.ok /\ a \notin Flags /\ a[1] \notin Dashed
  <2>1. q.ok /\ q.names = Append(o.names, a) /\ q.flags = o.flags BY <1>3, <1>9, OptionDoes
  <2>2. \E at : Placed(at, q.names, s, k + 1)
    <3>1. PICK at : Placed(at, o.names, s, k) BY <1>9 DEF Account
    <3> QED BY <1>2, <1>4, <1>9, <2>1, <3>1, PlacedNext
  <2>3. \A f \in Flags : f \in q.flags <=> \E m \in 1..(k + 1) : s[m] = f
    <3> SUFFICES ASSUME NEW f \in Flags PROVE f \in q.flags <=> \E m \in 1..(k + 1) : s[m] = f
        OBVIOUS
    <3>1. f \in o.flags <=> \E m \in 1..k : s[m] = f BY <1>9 DEF Account
    <3>2. (\E m \in 1..(k + 1) : s[m] = f) <=> (\E m \in 1..k : s[m] = f)
      <4>1. 1..k \subseteq 1..(k + 1) BY <1>1
      <4>2. f # a BY <1>9
      <4> QED BY <1>1, <1>2, <4>1, <4>2
    <3> QED BY <2>1, <3>1, <3>2
  <2>4. \A i, j \in 1..(k + 1) : s[i] \in Flags /\ s[j] = s[i] => i = j
    <3>1. \A i, j \in 1..k : s[i] \in Flags /\ s[j] = s[i] => i = j BY <1>9 DEF Account
    <3> QED BY <1>1, <1>2, <1>9, <3>1
  <2>5. \A m \in 1..(k + 1) : s[m] \notin Flags => s[m][1] \notin Dashed
      BY <1>1, <1>2, <1>9 DEF Account
  <2> QED BY <1>2, <1>3, <2>1, <2>2, <2>3, <2>4, <2>5 DEF Account
<1> QED BY <1>4, <1>5, <1>6, <1>7, <1>8, <1>9

\* When parse is through, the account is one of all arguments.
LEMMA XorParsed ==
    ASSUME NEW s \in Seq(Argument)
    PROVE  \E o \in Options :
              /\ Account(o, s, Len(s))
              /\ ParseXor(s) = IF o.ok /\ Len(o.names) = (IF InPlace \in o.flags THEN 1 ELSE 2)
                               THEN Xor(o.names, o.flags) ELSE Rejected
PROOF
<1>1. PICK n \in Nat : n = Len(s) OBVIOUS
<1>2. PICK f \in [0..n -> Options] :
         /\ f[0] = Start
         /\ \A i \in 1..n : f[i] = Option(f[i - 1], s[i])
         /\ ParseXor(s) = IF /\ f[n].ok
                             /\ Len(f[n].names) = (IF InPlace \in f[n].flags THEN 1 ELSE 2)
                          THEN Xor(f[n].names, f[n].flags) ELSE Rejected
    BY <1>1, XorLoop
<1> DEFINE Kept == {k \in 0..n : Account(f[k], s, k)}
<1>3. 0 \in Kept
  <2>1. PICK ns \in Seq(Argument) : ns = <<>> /\ Len(ns) = 0
      BY <<>> \in Seq(Argument), Len(<<>>) = 0
  <2>2. PICK at : at = [i \in 1..0 |-> 0] OBVIOUS
  <2>3. Placed(at, ns, s, 0) BY <2>1, <2>2 DEF Placed
  <2>4. \E bt : Placed(bt, Start.names, s, 0) BY <2>1, <2>3 DEF Start
  <2>5. Account(Start, s, 0)
    <3>1. Start.ok /\ Start.flags = {} BY DEF Start
    <3>2. \A m \in 1..0 : FALSE OBVIOUS
    <3> QED BY <2>4, <3>1, <3>2 DEF Account
  <2> QED BY <1>2, <2>5
<1>4. ASSUME NEW k \in 0..(n - 1), k \in Kept PROVE k + 1 \in Kept
  <2>1. /\ k \in 0..n /\ k + 1 \in 0..n /\ k + 1 \in 1..n /\ (k + 1) - 1 = k
        /\ k \in 0..(Len(s) - 1)
      BY <1>1
  <2>2. f[k + 1] = Option(f[k], s[k + 1]) /\ f[k] \in Options BY <1>2, <2>1
  <2>3. Account(f[k], s, k) BY <1>4
  <2>4. Account(Option(f[k], s[k + 1]), s, k + 1) BY <2>1, <2>2, <2>3, AccountNext
  <2> QED BY <2>1, <2>2, <2>4
<1>5. n \in Kept
  <2> HIDE DEF Kept
  <2>1. 0..n \subseteq Kept BY <1>3, <1>4, UpTo
  <2> QED BY <2>1
<1>6. Account(f[n], s, n) /\ f[n] \in Options BY <1>5
<1> QED BY <1>1, <1>2, <1>6

\* The names of a command line are one sequence only.
LEMMA PlacedOnce ==
    ASSUME NEW s \in Seq(Argument), NEW k \in Nat,
           NEW ns \in Seq(Argument), NEW ms \in Seq(Argument),
           NEW at, Placed(at, ns, s, k), NEW bt, Placed(bt, ms, s, k), Len(ns) <= Len(ms)
    PROVE  ns = ms
PROOF
<1>1. PICK n \in Nat, m \in Nat : n = Len(ns) /\ m = Len(ms) /\ n <= m OBVIOUS
<1>2. /\ at \in [1..n -> 1..k] /\ \A i, j \in 1..n : i < j => at[i] < at[j]
      /\ \A i \in 1..n : ns[i] = s[at[i]] /\ ns[i] \notin Flags
      /\ \A l \in 1..k : s[l] \notin Flags => \E i \in 1..n : at[i] = l
    BY <1>1 DEF Placed
<1>3. /\ bt \in [1..m -> 1..k] /\ \A i, j \in 1..m : i < j => bt[i] < bt[j]
      /\ \A i \in 1..m : ms[i] = s[bt[i]] /\ ms[i] \notin Flags
      /\ \A l \in 1..k : s[l] \notin Flags => \E i \in 1..m : bt[i] = l
    BY <1>1 DEF Placed
<1>4. 1..n \subseteq 1..m BY <1>1
<1>5. \A i \in 1..n : \E j \in 1..m : at[i] = bt[j] BY <1>2, <1>3
<1>6. \A j \in 1..m : \E i \in 1..n : at[i] = bt[j] BY <1>2, <1>3
<1> DEFINE Differ == {i \in 1..n : at[i] # bt[i]}
<1>7. Differ = {}
  <2> SUFFICES ASSUME Differ # {} PROVE FALSE OBVIOUS
  <2>1. PICK i \in Differ : \A j \in Differ : i <= j
    <3>1. Differ \subseteq Nat OBVIOUS
    <3> HIDE DEF Differ
    <3> QED BY <3>1, Least
  <2>2. /\ i \in 1..n /\ i \in 1..m /\ at[i] # bt[i]
        /\ \A j \in 1..n : j < i => at[j] = bt[j]
    <3>1. i \in 1..n /\ at[i] # bt[i] OBVIOUS
    <3>2. \A j \in 1..n : j < i => ~(i <= j) BY <3>1
    <3> QED BY <1>4, <2>1, <3>1, <3>2
  <2>3. at[i] \in 1..k /\ bt[i] \in 1..k BY <1>2, <1>3, <2>2
  <2>4. CASE at[i] < bt[i]
    <3>1. PICK j \in 1..m : at[i] = bt[j] BY <1>5, <2>2
    <3>2. j < i
      <4>1. j # i BY <2>2, <3>1
      <4>2. ~(i < j)
        <5>1. i < j => bt[i] < bt[j] BY <1>3, <2>2
        <5>2. ~(bt[i] < at[i]) BY <2>3, <2>4
        <5> QED BY <3>1, <5>1, <5>2
      <4> QED BY <2>2, <4>1, <4>2
    <3>3. j \in 1..n BY <1>1, <2>2, <3>2
    <3>4. at[j] = at[i] /\ at[j] < at[i] BY <1>2, <2>2, <3>1, <3>2, <3>3
    <3> QED BY <2>3, <3>4
  <2>5. CASE bt[i] < at[i]
    <3>1. PICK j \in 1..n : at[j] = bt[i] BY <1>6, <2>2
    <3>2. j < i
      <4>1. j # i BY <2>2, <3>1
      <4>2. ~(i < j)
        <5>1. i < j => at[i] < at[j] BY <1>2, <2>2
        <5>2. ~(at[i] < bt[i]) BY <2>3, <2>5
        <5> QED BY <3>1, <5>1, <5>2
      <4> QED BY <2>2, <4>1, <4>2
    <3>3. j \in 1..m BY <1>4
    <3>4. bt[j] = bt[i] /\ bt[j] < bt[i] BY <1>3, <2>2, <3>1, <3>2, <3>3
    <3> QED BY <2>3, <3>4
  <2> QED BY <2>2, <2>3, <2>4, <2>5
<1>8. \A i \in 1..n : at[i] = bt[i] BY <1>7
<1>9. n = m
  <2> SUFFICES ASSUME n # m PROVE FALSE OBVIOUS
  <2>1. n + 1 \in 1..m BY <1>1
  <2>2. PICK i \in 1..n : at[i] = bt[n + 1] BY <1>6, <2>1
  <2>3. i \in 1..m /\ i < n + 1 BY <1>4
  <2>4. bt[i] < bt[n + 1] /\ bt[i] = bt[n + 1] BY <1>3, <1>8, <2>1, <2>2, <2>3
  <2>5. bt[i] \in 1..k BY <1>3, <2>3
  <2> QED BY <2>4, <2>5
<1>10. ASSUME NEW i \in 1..n PROVE ns[i] = ms[i]
  <2>1. ns[i] = s[at[i]] BY <1>2
  <2>2. ms[i] = s[bt[i]] BY <1>3, <1>4
  <2> QED BY <1>8, <2>1, <2>2
<1>11. Len(ns) = Len(ms) /\ \A i \in 1..Len(ns) : ns[i] = ms[i] BY <1>1, <1>9, <1>10
<1> QED BY <1>11

\* Others is said of all arguments.
LEMMA OthersPlaced ==
    ASSUME NEW s \in Seq(Argument), NEW ns \in Seq(Argument)
    PROVE  Others(ns, s) <=> \E at : Placed(at, ns, s, Len(s))
PROOF
<1>1. PICK D : D = DOMAIN ns OBVIOUS
<1>2. PICK E : E = DOMAIN s OBVIOUS
<1>3. D = 1..Len(ns) /\ E = 1..Len(s) BY <1>1, <1>2
<1>4. Others(ns, s) <=>
        \E at \in [D -> E] :
            /\ \A i, j \in D : i < j => at[i] < at[j]
            /\ \A i \in D : ns[i] = s[at[i]] /\ ns[i] \notin Flags
            /\ \A k \in E : s[k] \notin Flags => \E i \in D : at[i] = k
    BY <1>1, <1>2 DEF Others
<1>5. \A at : Placed(at, ns, s, Len(s)) <=>
        /\ at \in [D -> E]
        /\ \A i, j \in D : i < j => at[i] < at[j]
        /\ \A i \in D : ns[i] = s[at[i]] /\ ns[i] \notin Flags
        /\ \A k \in E : s[k] \notin Flags => \E i \in D : at[i] = k
    BY <1>3 DEF Placed
<1> QED BY <1>4, <1>5, Zenon

\* A list of names and a set of flags say the command line.
Right(ns, fs, s) ==
    /\ Others(ns, s) /\ Once(fs, s)
    /\ \A i \in DOMAIN ns : ns[i][1] \notin Dashed

\* The account is right, and nothing else is.
LEMMA AccountRight ==
    ASSUME NEW s \in Seq(Argument), NEW o \in Options, Account(o, s, Len(s)),
           NEW ns \in Seq(Argument), NEW fs \in SUBSET Flags
    PROVE  Right(ns, fs, s) <=> o.ok /\ ns = o.names /\ fs = o.flags
PROOF
<1>1. /\ DOMAIN s = 1..Len(s) /\ DOMAIN ns = 1..Len(ns) /\ Len(s) \in Nat /\ Len(ns) \in Nat
      /\ o.names \in Seq(Argument) /\ o.flags \in SUBSET Flags /\ Len(o.names) \in Nat
    BY DEF Options
<1>2. ASSUME o.ok, ns = o.names, fs = o.flags PROVE Right(ns, fs, s)
  <2>1. PICK at : Placed(at, ns, s, Len(s)) BY <1>2 DEF Account
  <2>2. Others(ns, s) BY <2>1, OthersPlaced
  <2>3. Once(fs, s) BY <1>1, <1>2 DEF Once, Account
  <2>4. \A m \in 1..Len(s) : s[m] \notin Flags => s[m][1] \notin Dashed BY <1>2 DEF Account
  <2>5. ASSUME NEW i \in 1..Len(ns) PROVE ns[i][1] \notin Dashed
    <3>1. at[i] \in 1..Len(s) /\ ns[i] = s[at[i]] /\ ns[i] \notin Flags BY <2>1 DEF Placed
    <3> QED BY <2>4, <3>1
  <2> QED BY <1>1, <2>2, <2>3, <2>5 DEF Right
<1>3. ASSUME Right(ns, fs, s) PROVE o.ok /\ ns = o.names /\ fs = o.flags
  <2>1. PICK at : Placed(at, ns, s, Len(s)) BY <1>3, OthersPlaced DEF Right
  <2>2. o.ok
    <3>1. ~Wrong(s)
      <4>1. ASSUME NEW i \in 1..Len(s), NEW j \in 1..Len(s), s[i] \in Flags, s[j] = s[i]
            PROVE  i = j
          BY <1>1, <1>3, <4>1 DEF Right, Once
      <4>2. ASSUME NEW m \in 1..Len(s), s[m] \notin Flags PROVE s[m][1] \notin Dashed
        <5>1. PICK i \in 1..Len(ns) : at[i] = m BY <2>1, <4>2 DEF Placed
        <5>2. ns[i] = s[m] BY <2>1, <5>1 DEF Placed
        <5> QED BY <1>1, <1>3, <5>1, <5>2 DEF Right
      <4> QED BY <4>1, <4>2 DEF Wrong
    <3> QED BY <3>1 DEF Account
  <2>3. fs = o.flags
    <3>1. \A f \in Flags : f \in fs <=> \E m \in 1..Len(s) : s[m] = f
        BY <1>1, <1>3 DEF Right, Once
    <3>2. \A f \in Flags : f \in o.flags <=> \E m \in 1..Len(s) : s[m] = f
        BY <2>2 DEF Account
    <3> QED BY <1>1, <3>1, <3>2
  <2>4. PICK bt : Placed(bt, o.names, s, Len(s)) BY <2>2 DEF Account
  <2>5. CASE Len(ns) <= Len(o.names) BY <1>1, <2>1, <2>2, <2>3, <2>4, <2>5, PlacedOnce
  <2>6. CASE Len(o.names) <= Len(ns) BY <1>1, <2>1, <2>2, <2>3, <2>4, <2>6, PlacedOnce
  <2> QED BY <1>1, <2>5, <2>6
<1> QED BY <1>2, <1>3

-----------------------------------------------------------------------------
(* What is spelled is parsed *)

\* A word is the one argument with its one part.
LEMMA WordIs ==
    ASSUME NEW p
    PROVE  /\ Word(p)[1] = p /\ Len(Word(p)) = 1
           /\ \A q : Word(q) = Word(p) => q = p
           /\ \A n \in Argument : Len(n) = 1 /\ n[1] = p => n = Word(p)
PROOF
<1>1. \A q : Word(q) = Word(p) => q = p
  <2> SUFFICES ASSUME NEW q, Word(q) = Word(p) PROVE q = p OBVIOUS
  <2>1. Word(q)[1] = q /\ Word(p)[1] = p BY DEF Word
  <2> QED BY <2>1
<1>2. ASSUME NEW n \in Argument, Len(n) = 1, n[1] = p PROVE n = Word(p)
  <2>1. n \in Seq(Parts) BY ArgumentHas
  <2>2. n = <<n[1]>> BY <2>1, <1>2
  <2> QED BY <1>2, <2>2 DEF Word
<1>3. Word(p)[1] = p /\ Len(Word(p)) = 1 BY DEF Word
<1> QED BY <1>1, <1>2, <1>3

\* A sequence is the list of its elements.
LEMMA Listed ==
    ASSUME NEW S, NEW s \in Seq(S), NEW a, NEW b, NEW c
    PROVE  /\ s = <<a>> <=> Len(s) = 1 /\ s[1] = a
           /\ s = <<a, b>> <=> Len(s) = 2 /\ s[1] = a /\ s[2] = b
           /\ s = <<a, b, c>> <=> Len(s) = 3 /\ s[1] = a /\ s[2] = b /\ s[3] = c
PROOF
<1>1. Len(s) = 1 => s = <<s[1]>> OBVIOUS
<1>2. Len(s) = 2 => s = <<s[1], s[2]>> OBVIOUS
<1>3. Len(s) = 3 => s = <<s[1], s[2], s[3]>> OBVIOUS
<1>4. /\ Len(<<a>>) = 1 /\ <<a>>[1] = a
      /\ Len(<<a, b>>) = 2 /\ <<a, b>>[1] = a /\ <<a, b>>[2] = b
      /\ Len(<<a, b, c>>) = 3
      /\ <<a, b, c>>[1] = a /\ <<a, b, c>>[2] = b /\ <<a, b, c>>[3] = c
    OBVIOUS
<1>5. s = <<a>> <=> Len(s) = 1 /\ s[1] = a BY <1>1, <1>4
<1>6. s = <<a, b>> <=> Len(s) = 2 /\ s[1] = a /\ s[2] = b BY <1>2, <1>4
<1>7. s = <<a, b, c>> <=> Len(s) = 3 /\ s[1] = a /\ s[2] = b /\ s[3] = c BY <1>3, <1>4
<1> QED BY <1>5, <1>6, <1>7

\* The two flags of xor are two.
LEMMA FlagsDiffer == InPlace # RepeatKey
PROOF
<1>1. InPlace[1] = "--in-place" /\ RepeatKey[1] = "--repeat-key" BY WordIs DEF InPlace, RepeatKey
<1> QED BY <1>1

\* What kind of command a word leads to.
LEMMA Kinds ==
    ASSUME NEW word, NEW tail
    PROVE  LET p == Parsed(word, tail)
           IN  /\ p.op = "xor" => word = "xor"
               /\ p.op = "keymake" => word = "keymake"
               /\ p.op \in {"E", "D", "xcha K"} => word = "xcha"
               /\ p.op = "sha3" => word = "sha3"
               /\ p.op = "keyrestore" => word = "keyrestore"
               /\ word = "xor" => p = ParseXor(tail)
               /\ word = "keymake" => p = ParseKeyMake(tail)
               /\ word = "xcha" => p = ParseXcha(tail)
PROOF
<1>1. ParseXor(tail).op \in {"xor", "rejected"} BY DEF ParseXor, Xor, Rejected
<1>2. ParseKeyMake(tail).op \in {"keymake", "rejected"} BY DEF ParseKeyMake, KeyMake, Rejected
<1>3. ParseXcha(tail).op \in {"E", "D", "xcha K", "rejected"}
  <2>1. Xcha(tail[1], tail[2], Len(tail) = 3).op = tail[1][1] BY DEF Xcha
  <2>2. tail[1] \in {Word("E"), Word("D")} => tail[1][1] \in {"E", "D"} BY WordIs
  <2>3. CASE tail = <<Word("K")>>
    <3>1. Len(tail) = 1 BY <2>3
    <3>2. ParseXcha(tail) = Keys("xcha K") BY <2>3, <3>1 DEF ParseXcha
    <3>3. Keys("xcha K").op = "xcha K" BY DEF Keys
    <3> QED BY <3>2, <3>3, Zenon
  <2>4. CASE /\ tail # <<Word("K")>> /\ Len(tail) \in {2, 3}
             /\ tail[1] \in {Word("E"), Word("D")}
             /\ Len(tail) = 3 => tail[3] = InPlace
    <3>1. ParseXcha(tail) = Xcha(tail[1], tail[2], Len(tail) = 3) BY <2>4 DEF ParseXcha
    <3>2. ParseXcha(tail).op = tail[1][1] BY <2>1, <3>1, Zenon
    <3>3. tail[1][1] \in {"E", "D"} BY <2>2, <2>4, Zenon
    <3> QED BY <3>2, <3>3, Zenon
  <2>5. CASE /\ tail # <<Word("K")>>
             /\ ~(/\ Len(tail) \in {2, 3} /\ tail[1] \in {Word("E"), Word("D")}
                  /\ Len(tail) = 3 => tail[3] = InPlace)
    <3>1. ParseXcha(tail) = Rejected BY <2>5 DEF ParseXcha
    <3> QED BY <3>1 DEF Rejected
  <2> QED BY <2>3, <2>4, <2>5
<1>4. Keys("keyrestore").op = "keyrestore" /\ Sha3(tail).op = "sha3" /\ Rejected.op = "rejected"
    BY DEF Keys, Sha3, Rejected
<1>5. CASE word = "xor" BY <1>1, <1>5 DEF Parsed
<1>6. CASE word = "keymake" BY <1>2, <1>6 DEF Parsed
<1>7. CASE word = "xcha" BY <1>3, <1>7 DEF Parsed
<1>8. CASE word = "sha3" BY <1>4, <1>8 DEF Parsed
<1>9. CASE word = "keyrestore" BY <1>4, <1>9 DEF Parsed
<1>10. CASE word \notin {"xor", "keymake", "xcha", "sha3", "keyrestore"}
  <2>1. Parsed(word, tail) = Rejected BY <1>10 DEF Parsed
  <2> QED BY <1>4, <1>10, <2>1
<1> QED BY <1>5, <1>6, <1>7, <1>8, <1>9, <1>10

\* A command of xor is spelled if it is parsed.
LEMMA XorSpelled ==
    ASSUME NEW l, l.tail \in Seq(Argument),
           NEW ns \in Seq(Argument), NEW fs \in SUBSET Flags,
           Len(ns) = (IF InPlace \in fs THEN 1 ELSE 2)
    PROVE  Spells(l, Xor(ns, fs)) <=> Parsed(l.word, l.tail) = Xor(ns, fs)
PROOF
<1>1. PICK c : c = Xor(ns, fs) OBVIOUS
<1>2. /\ c.op = "xor" /\ c.names = ns
      /\ c.replace = (InPlace \in fs) /\ c.repeat = (RepeatKey \in fs)
    BY <1>1 DEF Xor
<1>3. {f \in Flags : IF f = InPlace THEN c.replace ELSE c.repeat} = fs
    BY <1>2, FlagsDiffer DEF Flags
<1>4. Spells(l, c) <=> l.word = "xor" /\ Right(ns, fs, l.tail)
    BY <1>2, <1>3 DEF Spells, Right
<1>5. PICK o \in Options :
         /\ Account(o, l.tail, Len(l.tail))
         /\ ParseXor(l.tail) = IF o.ok /\ Len(o.names) = (IF InPlace \in o.flags THEN 1 ELSE 2)
                               THEN Xor(o.names, o.flags) ELSE Rejected
    BY XorParsed
<1>6. Right(ns, fs, l.tail) <=> o.ok /\ ns = o.names /\ fs = o.flags BY <1>5, AccountRight
<1>7. ASSUME o.ok, ns = o.names, fs = o.flags PROVE ParseXor(l.tail) = c
    BY <1>1, <1>5, <1>7
<1>8. ASSUME ParseXor(l.tail) = c PROVE o.ok /\ ns = o.names /\ fs = o.flags
  <2>1. c # Rejected BY <1>2 DEF Rejected
  <2>2. o.ok /\ c = Xor(o.names, o.flags) BY <1>5, <1>8, <2>1
  <2>3. /\ o.names = ns /\ (InPlace \in fs <=> InPlace \in o.flags)
        /\ (RepeatKey \in fs <=> RepeatKey \in o.flags)
    <3>1. /\ c.names = o.names /\ c.replace = (InPlace \in o.flags)
          /\ c.repeat = (RepeatKey \in o.flags)
        BY <2>2 DEF Xor
    <3> QED BY <1>2, <3>1
  <2>4. fs = o.flags
    <3>1. o.flags \in SUBSET Flags BY DEF Options
    <3>2. \A f \in Flags : f \in fs <=> f \in o.flags BY <2>3 DEF Flags
    <3> QED BY <3>1, <3>2
  <2> QED BY <2>2, <2>3, <2>4
<1>9. Parsed(l.word, l.tail) = c => l.word = "xor"
  <2>1. Parsed(l.word, l.tail).op = "xor" => l.word = "xor" BY Kinds
  <2> QED BY <1>2, <2>1, Zenon
<1>10. l.word = "xor" => Parsed(l.word, l.tail) = ParseXor(l.tail) BY Kinds
<1> QED BY <1>1, <1>4, <1>6, <1>7, <1>8, <1>9, <1>10

\* What xcha takes for a file and what to do with it.
Taken(s) ==
    /\ Len(s) \in {2, 3} /\ s[1] \in {Word("E"), Word("D")}
    /\ Len(s) = 3 => s[3] = InPlace

\* xcha asks for keys, for a file, or for nothing.
LEMMA XchaCases ==
    ASSUME NEW s \in Seq(Argument)
    PROVE  /\ s = <<Word("K")>> => ParseXcha(s) = Keys("xcha K") /\ ~Taken(s)
           /\ Taken(s) => \E r \in BOOLEAN : (r <=> Len(s) = 3) /\ ParseXcha(s) = Xcha(s[1], s[2], r)
           /\ s # <<Word("K")>> /\ ~Taken(s) => ParseXcha(s) = Rejected
PROOF
<1>1. s = <<Word("K")>> => Len(s) = 1 BY Listed
<1>2. s = <<Word("K")>> => ParseXcha(s) = Keys("xcha K") BY <1>1 DEF ParseXcha
<1>3. Taken(s) => Len(s) # 1 BY DEF Taken
<1>4. PICK r \in BOOLEAN : r = (Len(s) = 3) OBVIOUS
<1>5. Taken(s) /\ s # <<Word("K")>> => ParseXcha(s) = Xcha(s[1], s[2], Len(s) = 3)
    BY DEF ParseXcha, Taken
<1>6. s # <<Word("K")>> /\ ~Taken(s) => ParseXcha(s) = Rejected BY DEF ParseXcha, Taken
<1> QED BY <1>1, <1>2, <1>3, <1>4, <1>5, <1>6

\* A command on a file is one operation, one name and one place.
LEMMA XchaFields ==
    ASSUME NEW w \in {Word("E"), Word("D")}, NEW n, NEW r \in BOOLEAN
    PROVE  /\ Word(Xcha(w, n, r).op) = w /\ Xcha(w, n, r).op \in {"E", "D"}
           /\ Xcha(w, n, r).op = w[1]
           /\ Xcha(w, n, r).names = <<n>> /\ Xcha(w, n, r).names[1] = n
           /\ Xcha(w, n, r).replace = r
PROOF
<1>1. Word(w[1]) = w /\ w[1] \in {"E", "D"} BY WordIs
<1>2. <<n>>[1] = n OBVIOUS
<1>3. Xcha(w, n, r).op = w[1] /\ Xcha(w, n, r).names = <<n>> /\ Xcha(w, n, r).replace = r
    BY DEF Xcha
<1> QED BY <1>1, <1>2, <1>3

\* A command on a file is spelled if it is parsed.
LEMMA XchaSpelled ==
    ASSUME NEW l, l.tail \in Seq(Argument),
           NEW w \in {Word("E"), Word("D")}, NEW n \in Argument, NEW r \in BOOLEAN
    PROVE  Spells(l, Xcha(w, n, r)) <=> Parsed(l.word, l.tail) = Xcha(w, n, r)
PROOF
<1>1. PICK s \in Seq(Argument) : s = l.tail OBVIOUS
<1>2. PICK c : c = Xcha(w, n, r) OBVIOUS
<1>3. Word(c.op) = w /\ c.op \in {"E", "D"} /\ c.names[1] = n /\ c.replace = r
    BY <1>2, XchaFields
<1>4. Spells(l, c) <=> l.word = "xcha" /\ s = IF r THEN <<w, n, InPlace>> ELSE <<w, n>>
    BY <1>1, <1>3 DEF Spells
<1>5. s = (IF r THEN <<w, n, InPlace>> ELSE <<w, n>>) <=>
         Taken(s) /\ s[1] = w /\ s[2] = n /\ (r <=> Len(s) = 3)
  <2>1. s = <<w, n, InPlace>> <=> Len(s) = 3 /\ s[1] = w /\ s[2] = n /\ s[3] = InPlace
      BY Listed
  <2>2. s = <<w, n>> <=> Len(s) = 2 /\ s[1] = w /\ s[2] = n BY Listed
  <2>3. CASE r
    <3>1. Len(s) = 3 /\ s[1] = w /\ s[2] = n /\ s[3] = InPlace <=>
            Taken(s) /\ s[1] = w /\ s[2] = n /\ (r <=> Len(s) = 3)
        BY <2>3 DEF Taken
    <3> QED BY <2>1, <2>3, <3>1
  <2>4. CASE ~r
    <3>1. Len(s) = 2 /\ s[1] = w /\ s[2] = n <=>
            Taken(s) /\ s[1] = w /\ s[2] = n /\ (r <=> Len(s) = 3)
      <4>1. Len(s) = 2 /\ s[1] = w => Taken(s) /\ Len(s) # 3 BY DEF Taken
      <4>2. Taken(s) /\ Len(s) # 3 => Len(s) = 2 BY DEF Taken
      <4> QED BY <2>4, <4>1, <4>2
    <3> QED BY <2>2, <2>4, <3>1
  <2> QED BY <2>3, <2>4
<1>6. Taken(s) /\ s[1] = w /\ s[2] = n /\ (r <=> Len(s) = 3) <=> ParseXcha(s) = c
  <2>1. ASSUME Taken(s), s[1] = w, s[2] = n, r <=> Len(s) = 3 PROVE ParseXcha(s) = c
    <3>1. PICK q \in BOOLEAN : (q <=> Len(s) = 3) /\ ParseXcha(s) = Xcha(s[1], s[2], q)
        BY <2>1, XchaCases
    <3>2. q = r BY <2>1, <3>1
    <3> QED BY <1>2, <2>1, <3>1, <3>2
  <2>2. ASSUME ParseXcha(s) = c PROVE Taken(s) /\ s[1] = w /\ s[2] = n /\ (r <=> Len(s) = 3)
    <3>1. c # Rejected /\ c # Keys("xcha K")
      <4>1. Rejected.op = "rejected" /\ Keys("xcha K").op = "xcha K" BY DEF Rejected, Keys
      <4> QED BY <1>3, <4>1
    <3>2. Taken(s) BY <2>2, <3>1, XchaCases
    <3>3. PICK q \in BOOLEAN : (q <=> Len(s) = 3) /\ ParseXcha(s) = Xcha(s[1], s[2], q)
        BY <3>2, XchaCases
    <3>4. s[1] \in {Word("E"), Word("D")} BY <3>2 DEF Taken
    <3>5. /\ Word(c.op) = s[1] /\ c.names[1] = s[2] /\ c.replace = q
        BY <2>2, <3>3, <3>4, XchaFields
    <3>6. w = s[1] /\ n = s[2] /\ (r <=> q) BY <1>3, <3>5
    <3> QED BY <3>2, <3>3, <3>6
  <2> QED BY <2>1, <2>2
<1>7. Parsed(l.word, s) = c => l.word = "xcha" BY <1>3, Kinds
<1>8. l.word = "xcha" => Parsed(l.word, s) = ParseXcha(s) BY Kinds
<1> QED BY <1>1, <1>2, <1>4, <1>5, <1>6, <1>7, <1>8

\* A size is spelled if it is parsed: no number a key may have is too large for a u64.
LEMMA KeyMakeSpelled ==
    ASSUME NEW l, l.tail \in Seq(Argument), NEW size \in 1..MaxKeyBytes
    PROVE  Spells(l, KeyMake(size)) <=> Parsed(l.word, l.tail) = KeyMake(size)
PROOF
<1>1. PICK s \in Seq(Argument) : s = l.tail OBVIOUS
<1>2. KeyMake(size).op = "keymake" /\ KeyMake(size).size = size BY DEF KeyMake
<1>3. Spells(l, KeyMake(size)) <=>
         l.word = "keymake" /\ \E p \in DOMAIN Value : s = <<Word(p)>> /\ Value[p] = size
    BY <1>1, <1>2 DEF Spells
<1>4. \A p : s = <<Word(p)>> <=> Len(s) = 1 /\ Len(s[1]) = 1 /\ s[1][1] = p
  <2> SUFFICES ASSUME NEW p PROVE s = <<Word(p)>> <=> Len(s) = 1 /\ Len(s[1]) = 1 /\ s[1][1] = p
      OBVIOUS
  <2>1. s = <<Word(p)>> <=> Len(s) = 1 /\ s[1] = Word(p) BY Listed
  <2>2. Word(p)[1] = p /\ Len(Word(p)) = 1 BY WordIs
  <2>3. ASSUME Len(s) = 1, Len(s[1]) = 1, s[1][1] = p PROVE s[1] = Word(p)
    <3>1. s[1] \in Argument BY <2>3
    <3> QED BY <2>3, <3>1, WordIs
  <2>4. s[1] = Word(p) => Len(s[1]) = 1 /\ s[1][1] = p BY <2>2
  <2> QED BY <2>1, <2>3, <2>4, Zenon
<1>5. 1..MaxKeyBytes \subseteq 0..MaxU64
  <2>1. MaxKeyBytes \in Nat /\ MaxU64 \in Nat /\ MaxKeyBytes <= MaxU64
      BY PartsAssumption DEF PartsAssumption
  <2> QED BY <2>1
<1>6. ASSUME NEW p \in DOMAIN Value, s = <<Word(p)>>, Value[p] = size
      PROVE  ParseKeyMake(s) = KeyMake(size)
  <2>1. Len(s) = 1 /\ Len(s[1]) = 1 /\ s[1][1] = p BY <1>4, <1>6
  <2>2. size \in 0..MaxU64 BY <1>5
  <2> QED BY <1>6, <2>1, <2>2 DEF ParseKeyMake
<1>7. ASSUME ParseKeyMake(s) = KeyMake(size)
      PROVE  \E p \in DOMAIN Value : s = <<Word(p)>> /\ Value[p] = size
  <2>1. ParseKeyMake(s) # Rejected BY <1>2, <1>7 DEF Rejected
  <2>2. PICK p : p = s[1][1] OBVIOUS
  <2>3. /\ Len(s) = 1 /\ Len(s[1]) = 1 /\ p \in DOMAIN Value
        /\ ParseKeyMake(s) = KeyMake(Value[p])
      BY <2>1, <2>2 DEF ParseKeyMake
  <2>4. Value[p] = size BY <1>2, <1>7, <2>3 DEF KeyMake
  <2> QED BY <1>4, <2>2, <2>3, <2>4
<1>8. Parsed(l.word, s) = KeyMake(size) => l.word = "keymake" BY <1>2, Kinds
<1>9. l.word = "keymake" => Parsed(l.word, s) = ParseKeyMake(s) BY Kinds
<1> QED BY <1>1, <1>3, <1>6, <1>7, <1>8, <1>9

\* A text is spelled if it is parsed.
LEMMA Sha3Spelled ==
    ASSUME NEW l, l.tail \in Seq(Argument), NEW t, Len(t) <= 1
    PROVE  Spells(l, Sha3(t)) <=> Parsed(l.word, l.tail) = Sha3(t)
PROOF
<1>1. Sha3(t).op = "sha3" /\ Sha3(t).text = t /\ Sha3(l.tail).text = l.tail BY DEF Sha3
<1>2. Spells(l, Sha3(t)) <=> l.word = "sha3" /\ l.tail = t BY <1>1 DEF Spells
<1>3. Sha3(t) # Rejected BY <1>1 DEF Rejected
<1>4. l.word = "sha3" =>
         Parsed(l.word, l.tail) = IF Len(l.tail) <= 1 THEN Sha3(l.tail) ELSE Rejected
    BY DEF Parsed
<1>5. Parsed(l.word, l.tail) = Sha3(t) => l.word = "sha3" BY <1>1, Kinds
<1> QED BY <1>1, <1>2, <1>3, <1>4, <1>5

\* A command on the keys alone is spelled if it is parsed.
LEMMA KeysSpelled ==
    ASSUME NEW l, l.tail \in Seq(Argument), NEW k \in {"xcha K", "keyrestore"}
    PROVE  Spells(l, Keys(k)) <=> Parsed(l.word, l.tail) = Keys(k)
PROOF
<1>1. Keys(k).op = k BY DEF Keys
<1>2. Rejected.op = "rejected" BY DEF Rejected
<1>3. CASE k = "xcha K"
  <2>1. Spells(l, Keys(k)) <=> l.word = "xcha" /\ l.tail = <<Word("K")>>
      BY <1>1, <1>3 DEF Spells
  <2>2. l.word = "xcha" => Parsed(l.word, l.tail) = ParseXcha(l.tail) BY Kinds
  <2>3. Parsed(l.word, l.tail) = Keys(k) => l.word = "xcha" BY <1>1, <1>3, Kinds
  <2>4. l.tail = <<Word("K")>> => ParseXcha(l.tail) = Keys(k) BY <1>3, XchaCases
  <2>5. ASSUME ParseXcha(l.tail) = Keys(k) PROVE l.tail = <<Word("K")>>
    <3>1. ~Taken(l.tail)
      <4> SUFFICES ASSUME Taken(l.tail) PROVE FALSE OBVIOUS
      <4>1. PICK r \in BOOLEAN : ParseXcha(l.tail) = Xcha(l.tail[1], l.tail[2], r)
          BY XchaCases
      <4>2. l.tail[1] \in {Word("E"), Word("D")} BY DEF Taken
      <4>3. PICK w \in {Word("E"), Word("D")} : w = l.tail[1] BY <4>2
      <4> DEFINE n == l.tail[2]
      <4>4. Keys(k) = Xcha(w, n, r) BY <2>5, <4>1, <4>3
      <4>5. Xcha(w, n, r).op \in {"E", "D"} BY XchaFields
      <4> QED BY <1>1, <1>3, <4>4, <4>5
    <3>2. ParseXcha(l.tail) # Rejected BY <1>1, <1>2, <2>5
    <3> QED BY <3>1, <3>2, XchaCases
  <2> QED BY <2>1, <2>2, <2>3, <2>4, <2>5
<1>4. CASE k = "keyrestore"
  <2>1. Spells(l, Keys(k)) <=> l.word = "keyrestore" /\ l.tail = <<>>
      BY <1>1, <1>4 DEF Spells
  <2>2. l.word = "keyrestore" =>
           Parsed(l.word, l.tail) = IF l.tail = <<>> THEN Keys("keyrestore") ELSE Rejected
      BY DEF Parsed
  <2>3. Parsed(l.word, l.tail) = Keys(k) => l.word = "keyrestore" BY <1>1, <1>4, Kinds
  <2>4. Keys(k) # Rejected BY <1>1, <1>2, <1>4
  <2> QED BY <1>4, <2>1, <2>2, <2>3, <2>4
<1> QED BY <1>3, <1>4

\* The commands there are.
LEMMA PossibleAre ==
    ASSUME NEW args, NEW c
    PROVE  c \in Possible(args) <=>
             \/ \E x \in args, f \in {{InPlace}, Flags} : c = Xor(<<x>>, f)
             \/ \E x \in args, y \in args, f \in {{}, {RepeatKey}} : c = Xor(<<x, y>>, f)
             \/ \E w \in {Word("E"), Word("D")}, n \in args, r \in BOOLEAN : c = Xcha(w, n, r)
             \/ \E size \in 1..MaxKeyBytes : c = KeyMake(size)
             \/ c = Sha3(<<>>) \/ \E x \in args : c = Sha3(<<x>>)
             \/ c = Keys("xcha K") \/ c = Keys("keyrestore")
PROOF
<1> DEFINE A == {Xor(<<x>>, f) : x \in args, f \in {{InPlace}, Flags}}
           B == {Xor(<<x, y>>, f) : x \in args, y \in args, f \in {{}, {RepeatKey}}}
           C == {Xcha(w, n, r) : w \in {Word("E"), Word("D")}, n \in args, r \in BOOLEAN}
           D == {KeyMake(s) : s \in 1..MaxKeyBytes}
           E == {Sha3(<<x>>) : x \in args}
           F == {Sha3(<<>>), Keys("xcha K"), Keys("keyrestore")}
<1>1. c \in A <=> \E x \in args, f \in {{InPlace}, Flags} : c = Xor(<<x>>, f) OBVIOUS
<1>2. c \in B <=> \E x \in args, y \in args, f \in {{}, {RepeatKey}} : c = Xor(<<x, y>>, f)
    OBVIOUS
<1>3. c \in C <=>
         \E w \in {Word("E"), Word("D")}, n \in args, r \in BOOLEAN : c = Xcha(w, n, r)
    OBVIOUS
<1>4. c \in D <=> \E size \in 1..MaxKeyBytes : c = KeyMake(size) OBVIOUS
<1>5. c \in E <=> \E x \in args : c = Sha3(<<x>>) OBVIOUS
<1>6. c \in F <=> c = Sha3(<<>>) \/ c = Keys("xcha K") \/ c = Keys("keyrestore") OBVIOUS
<1>7. Possible(args) = A \cup B \cup C \cup D \cup E \cup F BY DEF Possible
<1> HIDE DEF A, B, C, D, E, F
<1>8. c \in Possible(args) <=> c \in A \/ c \in B \/ c \in C \/ c \in D \/ c \in E \/ c \in F
    BY <1>7
<1> QED BY <1>1, <1>2, <1>3, <1>4, <1>5, <1>6, <1>8, Zenon

\* Every command that can be asked for is spelled if it is parsed.
LEMMA SpelledIsParsed ==
    ASSUME NEW l, l.tail \in Seq(Argument), NEW c \in Possible(ToSet(l.tail))
    PROVE  /\ Spells(l, c) <=> Parsed(l.word, l.tail) = c
           /\ c # Rejected
PROOF
<1> DEFINE args == ToSet(l.tail)
<1>1. args \subseteq Argument
  <2>1. \A i \in DOMAIN l.tail : l.tail[i] \in Argument OBVIOUS
  <2> QED BY <2>1 DEF ToSet
<1>2. Rejected.op = "rejected" BY DEF Rejected
<1> HIDE DEF args
<1>3. \/ \E x \in args, f \in {{InPlace}, Flags} : c = Xor(<<x>>, f)
      \/ \E x \in args, y \in args, f \in {{}, {RepeatKey}} : c = Xor(<<x, y>>, f)
      \/ \E w \in {Word("E"), Word("D")}, n \in args, r \in BOOLEAN : c = Xcha(w, n, r)
      \/ \E size \in 1..MaxKeyBytes : c = KeyMake(size)
      \/ c = Sha3(<<>>) \/ \E x \in args : c = Sha3(<<x>>)
      \/ c = Keys("xcha K") \/ c = Keys("keyrestore")
    BY PossibleAre DEF args
<1>4. ASSUME NEW x \in args, NEW f \in {{InPlace}, Flags}, c = Xor(<<x>>, f)
      PROVE  (Spells(l, c) <=> Parsed(l.word, l.tail) = c) /\ c # Rejected
  <2>1. InPlace \in f /\ f \in SUBSET Flags BY <1>4 DEF Flags
  <2>2. PICK ns \in Seq(Argument) : ns = <<x>> /\ Len(ns) = 1
    <3>1. x \in Argument BY <1>1
    <3>2. <<x>> \in Seq(Argument) /\ Len(<<x>>) = 1 BY <3>1
    <3> QED BY <3>2
  <2>3. c.op = "xor" BY <1>4 DEF Xor
  <2> QED BY <1>2, <1>4, <2>1, <2>2, <2>3, XorSpelled
<1>5. ASSUME NEW x \in args, NEW y \in args, NEW f \in {{}, {RepeatKey}}, c = Xor(<<x, y>>, f)
      PROVE  (Spells(l, c) <=> Parsed(l.word, l.tail) = c) /\ c # Rejected
  <2>1. InPlace \notin f /\ f \in SUBSET Flags BY <1>5, FlagsDiffer DEF Flags
  <2>2. PICK ns \in Seq(Argument) : ns = <<x, y>> /\ Len(ns) = 2
    <3>1. x \in Argument /\ y \in Argument BY <1>1
    <3>2. <<x, y>> \in Seq(Argument) /\ Len(<<x, y>>) = 2 BY <3>1
    <3> QED BY <3>2
  <2>3. c.op = "xor" BY <1>5 DEF Xor
  <2> QED BY <1>2, <1>5, <2>1, <2>2, <2>3, XorSpelled
<1>6. ASSUME NEW w \in {Word("E"), Word("D")}, NEW n \in args, NEW r \in BOOLEAN,
             c = Xcha(w, n, r)
      PROVE  (Spells(l, c) <=> Parsed(l.word, l.tail) = c) /\ c # Rejected
  <2>1. n \in Argument BY <1>1
  <2>2. c.op \in {"E", "D"} BY <1>6, XchaFields
  <2> QED BY <1>2, <1>6, <2>1, <2>2, XchaSpelled
<1>7. ASSUME NEW size \in 1..MaxKeyBytes, c = KeyMake(size)
      PROVE  (Spells(l, c) <=> Parsed(l.word, l.tail) = c) /\ c # Rejected
  <2>1. c.op = "keymake" BY <1>7 DEF KeyMake
  <2> QED BY <1>2, <1>7, <2>1, KeyMakeSpelled
<1>8. ASSUME NEW t, Len(t) <= 1, c = Sha3(t)
      PROVE  (Spells(l, c) <=> Parsed(l.word, l.tail) = c) /\ c # Rejected
  <2>1. c.op = "sha3" BY <1>8 DEF Sha3
  <2> QED BY <1>2, <1>8, <2>1, Sha3Spelled
<1>9. ASSUME NEW k \in {"xcha K", "keyrestore"}, c = Keys(k)
      PROVE  (Spells(l, c) <=> Parsed(l.word, l.tail) = c) /\ c # Rejected
  <2>1. c.op \in {"xcha K", "keyrestore"} BY <1>9 DEF Keys
  <2> QED BY <1>2, <1>9, <2>1, KeysSpelled
<1>10. Len(<<>>) <= 1 /\ \A x : Len(<<x>>) <= 1 OBVIOUS
<1> QED BY <1>3, <1>4, <1>5, <1>6, <1>7, <1>8, <1>9, <1>10

\* What is parsed is a command on the arguments that were given, or none.
LEMMA ParsedIsPossible ==
    ASSUME NEW l, l.tail \in Seq(Argument), Parsed(l.word, l.tail) # Rejected
    PROVE  Parsed(l.word, l.tail) \in Possible(ToSet(l.tail))
PROOF
<1>1. PICK s \in Seq(Argument) : s = l.tail OBVIOUS
<1>2. PICK args : args = ToSet(s) OBVIOUS
<1>3. \A i \in 1..Len(s) : s[i] \in args /\ s[i] \in Argument BY <1>2 DEF ToSet
<1>4. PICK c : c = Parsed(l.word, s) OBVIOUS
<1>5. CASE l.word = "xor"
  <2>1. PICK o \in Options :
           /\ Account(o, s, Len(s))
           /\ ParseXor(s) = IF o.ok /\ Len(o.names) = (IF InPlace \in o.flags THEN 1 ELSE 2)
                            THEN Xor(o.names, o.flags) ELSE Rejected
      BY XorParsed
  <2>2. /\ o.ok /\ Len(o.names) = (IF InPlace \in o.flags THEN 1 ELSE 2)
        /\ c = Xor(o.names, o.flags)
      BY <1>1, <1>4, <1>5, <2>1, Kinds
  <2>3. PICK at : Placed(at, o.names, s, Len(s)) BY <2>1, <2>2 DEF Account
  <2>4. \A i \in 1..Len(o.names) : o.names[i] \in args
    <3>1. \A i \in 1..Len(o.names) : at[i] \in 1..Len(s) /\ o.names[i] = s[at[i]]
        BY <2>3 DEF Placed
    <3> QED BY <1>3, <3>1
  <2>5. o.names \in Seq(Argument) /\ o.flags \in SUBSET Flags BY DEF Options
  <2>6. CASE InPlace \in o.flags
    <3>1. Len(o.names) = 1 /\ o.names[1] \in args BY <2>2, <2>4, <2>6
    <3>2. o.names = <<o.names[1]>> BY <2>5, <3>1, Listed
    <3>3. o.flags \in {{InPlace}, Flags} BY <2>5, <2>6 DEF Flags
    <3>4. \E x \in args, f \in {{InPlace}, Flags} : c = Xor(<<x>>, f)
        BY <2>2, <3>1, <3>2, <3>3
    <3> QED BY <1>1, <1>2, <1>4, <3>4, PossibleAre
  <2>7. CASE InPlace \notin o.flags
    <3>1. Len(o.names) = 2 /\ o.names[1] \in args /\ o.names[2] \in args BY <2>2, <2>4, <2>7
    <3>2. o.names = <<o.names[1], o.names[2]>> BY <2>5, <3>1, Listed
    <3>3. o.flags \in {{}, {RepeatKey}} BY <2>5, <2>7 DEF Flags
    <3>4. \E x \in args, y \in args, f \in {{}, {RepeatKey}} : c = Xor(<<x, y>>, f)
        BY <2>2, <3>1, <3>2, <3>3
    <3> QED BY <1>1, <1>2, <1>4, <3>4, PossibleAre
  <2> QED BY <2>6, <2>7
<1>6. CASE l.word = "xcha"
  <2>1. c = ParseXcha(s) /\ c # Rejected BY <1>1, <1>4, <1>6, Kinds
  <2>2. CASE s = <<Word("K")>>
    <3>1. c = Keys("xcha K") BY <2>1, <2>2, XchaCases
    <3> QED BY <1>1, <1>2, <1>4, <3>1, PossibleAre
  <2>3. CASE Taken(s)
    <3>1. PICK r \in BOOLEAN : c = Xcha(s[1], s[2], r) BY <2>1, <2>3, XchaCases
    <3>2. s[1] \in {Word("E"), Word("D")} /\ 2 \in 1..Len(s)
      <4>1. Len(s) = 2 \/ Len(s) = 3 BY <2>3 DEF Taken
      <4>2. 2 \in 1..2 /\ 2 \in 1..3 OBVIOUS
      <4> QED BY <2>3, <4>1, <4>2, Zenon DEF Taken
    <3>3. s[2] \in args BY <1>3, <3>2
    <3>4. \E w \in {Word("E"), Word("D")}, n \in args, q \in BOOLEAN : c = Xcha(w, n, q)
        BY <3>1, <3>2, <3>3
    <3> QED BY <1>1, <1>2, <1>4, <3>4, PossibleAre
  <2> QED BY <2>1, <2>2, <2>3, XchaCases
<1>7. CASE l.word = "keymake"
  <2>1. c = ParseKeyMake(s) /\ c # Rejected BY <1>1, <1>4, <1>7, Kinds
  <2>2. PICK size : size = Value[s[1][1]] OBVIOUS
  <2>3. size \in 1..MaxKeyBytes /\ c = KeyMake(size) BY <2>1, <2>2 DEF ParseKeyMake
  <2>4. \E z \in 1..MaxKeyBytes : c = KeyMake(z) BY <2>3
  <2> QED BY <1>1, <1>2, <1>4, <2>4, PossibleAre
<1>8. CASE l.word = "sha3"
  <2>1. Parsed(l.word, s) = IF Len(s) <= 1 THEN Sha3(s) ELSE Rejected BY <1>8 DEF Parsed
  <2>2. Len(s) <= 1 /\ c = Sha3(s) BY <1>1, <1>4, <2>1
  <2>3. CASE Len(s) = 0
    <3>1. s = <<>> BY <2>3
    <3>2. c = Sha3(<<>>) BY <2>2, <3>1
    <3> QED BY <1>1, <1>2, <1>4, <3>2, PossibleAre
  <2>4. CASE Len(s) = 1
    <3>1. s = <<s[1]>> /\ s[1] \in args BY <1>3, <2>4, Listed
    <3>2. \E x \in args : c = Sha3(<<x>>) BY <2>2, <3>1
    <3> QED BY <1>1, <1>2, <1>4, <3>2, PossibleAre
  <2>5. Len(s) \in Nat OBVIOUS
  <2>6. Len(s) = 0 \/ Len(s) = 1
    <3>1. \A k \in Nat : k <= 1 => k = 0 \/ k = 1 OBVIOUS
    <3> QED BY <2>2, <2>5, <3>1, Zenon
  <2> QED BY <2>3, <2>4, <2>6
<1>9. CASE l.word = "keyrestore"
  <2>1. Parsed(l.word, s) = IF s = <<>> THEN Keys("keyrestore") ELSE Rejected
      BY <1>9 DEF Parsed
  <2>2. c = Keys("keyrestore") BY <1>1, <1>4, <2>1
  <2> QED BY <1>1, <1>2, <1>4, <2>2, PossibleAre
<1>10. CASE l.word \notin {"xor", "keymake", "xcha", "sha3", "keyrestore"}
  <2>1. Parsed(l.word, s) = Rejected BY <1>10 DEF Parsed
  <2> QED BY <1>1, <2>1
<1> QED BY <1>5, <1>6, <1>7, <1>8, <1>9, <1>10

\* parse finds the one command a line spells, and none only if there is none.
LEMMA OneCommand ==
    ASSUME NEW l, l.tail \in Seq(Argument)
    PROVE  {c \in Possible(ToSet(l.tail)) : Spells(l, c)} =
              IF Parsed(l.word, l.tail) = Rejected THEN {} ELSE {Parsed(l.word, l.tail)}
PROOF
<1> DEFINE spelled == {c \in Possible(ToSet(l.tail)) : Spells(l, c)}
<1>1. \A c \in Possible(ToSet(l.tail)) : Spells(l, c) <=> Parsed(l.word, l.tail) = c
    BY SpelledIsParsed
<1>2. \A c \in spelled : c = Parsed(l.word, l.tail) /\ c # Rejected BY <1>1, SpelledIsParsed
<1>3. CASE Parsed(l.word, l.tail) = Rejected BY <1>2, <1>3
<1>4. CASE Parsed(l.word, l.tail) # Rejected
  <2>1. Parsed(l.word, l.tail) \in spelled BY <1>1, <1>4, ParsedIsPossible
  <2> HIDE DEF spelled
  <2>2. spelled = {Parsed(l.word, l.tail)} BY <1>2, <2>1
  <2> QED BY <1>4, <2>2 DEF spelled
<1> QED BY <1>3, <1>4

-----------------------------------------------------------------------------
(* The steps *)

\* What a plan for data says: one name or two, and in place there is one.
LEMMA DataPlan ==
    ASSUME NEW l \in CommandLines, NEW p, p = Parsed(l.word, l.tail), IsData(p)
    PROVE  /\ p.names \in Seq(Argument) /\ p.replace \in BOOLEAN
           /\ Head(p.names) \in Argument
           /\ p.op = "xor" /\ ~p.replace => p.names[2] \in Argument
PROOF
<1>1. l.tail \in Seq(Argument) BY PartsAssumption DEF PartsAssumption, Argument
<1>2. Rejected.op = "rejected" BY DEF Rejected
<1>3. p # Rejected BY <1>2 DEF IsData
<1>4. CASE p.op = "xor"
  <2>1. p = ParseXor(l.tail) BY <1>4, Kinds
  <2>2. PICK o \in Options :
           p = IF o.ok /\ Len(o.names) = (IF InPlace \in o.flags THEN 1 ELSE 2)
               THEN Xor(o.names, o.flags) ELSE Rejected
      BY <1>1, <2>1, XorParsed
  <2>3. Len(o.names) = (IF InPlace \in o.flags THEN 1 ELSE 2) /\ p = Xor(o.names, o.flags)
      BY <1>3, <2>2
  <2>4. p.names = o.names /\ p.replace = (InPlace \in o.flags) BY <2>3 DEF Xor
  <2>5. p.names \in Seq(Argument) /\ p.replace \in BOOLEAN BY <2>4 DEF Options
  <2>6. Len(p.names) = IF p.replace THEN 1 ELSE 2 BY <2>3, <2>4
  <2>7. Head(p.names) = p.names[1] /\ p.names[1] \in Argument
    <3>1. 1 \in 1..Len(p.names) BY <2>6
    <3> QED BY <2>5, <3>1
  <2>8. ~p.replace => p.names[2] \in Argument
    <3>1. ~p.replace => 2 \in 1..Len(p.names) BY <2>6
    <3> QED BY <2>5, <3>1
  <2> QED BY <2>5, <2>7, <2>8
<1>5. CASE p.op \in {"E", "D"}
  <2>1. p = ParseXcha(l.tail) BY <1>5, Kinds
  <2>2. Taken(l.tail)
    <3>1. Keys("xcha K").op = "xcha K" BY DEF Keys
    <3> QED BY <1>1, <1>3, <1>5, <2>1, <3>1, XchaCases
  <2>3. PICK r \in BOOLEAN : p = Xcha(l.tail[1], l.tail[2], r) BY <1>1, <2>1, <2>2, XchaCases
  <2>4. PICK w \in {Word("E"), Word("D")} : w = l.tail[1] BY <2>2 DEF Taken
  <2>5. PICK n \in Argument : n = l.tail[2]
    <3>1. 2 \in 1..Len(l.tail)
      <4>1. Len(l.tail) = 2 \/ Len(l.tail) = 3 BY <2>2 DEF Taken
      <4>2. 2 \in 1..2 /\ 2 \in 1..3 OBVIOUS
      <4> QED BY <4>1, <4>2, Zenon
    <3> QED BY <1>1, <3>1
  <2>6. p = Xcha(w, n, r) BY <2>3, <2>4, <2>5
  <2>7. p.names = <<n>> /\ p.replace = r BY <2>6, XchaFields
  <2>8. <<n>> \in Seq(Argument) /\ Head(<<n>>) = n OBVIOUS
  <2> QED BY <1>5, <2>7, <2>8
<1> QED BY <1>4, <1>5 DEF IsData

\* What a step may have left of the command line.
NamesInv ==
    /\ given \in CommandLines
    /\ stage \in {"parse", "input", "target", "accepted", "refused"}
    /\ stage \in {"parse", "input"} => names = <<>>
    /\ stage # "parse" => plan = Parsed(given.word, given.tail)
    /\ stage \in {"input", "target"} => IsData(plan)
    /\ stage = "target" => names = <<Head(plan.names)>>
    /\ stage = "accepted" /\ IsData(plan) =>
         names = IF plan.replace THEN <<Head(plan.names)>> ELSE <<Head(plan.names), Target>>
    /\ \A i \in DOMAIN names : names[i] \in Argument /\ ValidName(names[i]) /\ ~Reserved(names[i])

\* The names that are opened or created are checked before.
LEMMA CheckedKept ==
    ASSUME NEW n \in Argument, ValidName(n), ~Reserved(n), NEW ns,
           ns = <<n>> \/ \E m \in Argument : ns = <<m, n>> /\ ValidName(m) /\ ~Reserved(m)
    PROVE  \A i \in DOMAIN ns : ns[i] \in Argument /\ ValidName(ns[i]) /\ ~Reserved(ns[i])
PROOF
<1>1. CASE ns = <<n>>
  <2>1. DOMAIN ns = 1..1 /\ ns[1] = n BY <1>1
  <2> QED BY <2>1
<1>2. ASSUME NEW m \in Argument, ns = <<m, n>>, ValidName(m), ~Reserved(m)
      PROVE  \A i \in DOMAIN ns : ns[i] \in Argument /\ ValidName(ns[i]) /\ ~Reserved(ns[i])
  <2>1. DOMAIN ns = 1..2 /\ ns[1] = m /\ ns[2] = n BY <1>2
  <2> QED BY <1>2, <2>1
<1> QED BY <1>1, <1>2

\* What the target of a plan is, is named by an argument or derived from one.
LEMMA TargetIsArgument ==
    ASSUME given \in CommandLines, plan = Parsed(given.word, given.tail), IsData(plan),
           ~plan.replace
    PROVE  Target \in Argument
PROOF
<1>1. Head(plan.names) \in Argument /\ (plan.op = "xor" => plan.names[2] \in Argument)
    BY DataPlan
<1>2. CASE plan.op = "xor" BY <1>1, <1>2 DEF Target
<1>3. CASE plan.op # "xor"
  <2>1. PICK e \in BOOLEAN : e = (plan.op = "E") OBVIOUS
  <2>2. Target = XchaOutput(Head(plan.names), e) BY <1>3, <2>1 DEF Target
  <2> QED BY <1>1, <2>2, DerivedIsArgument
<1> QED BY <1>2, <1>3

\* Before the command line is parsed no name is opened.
LEMMA InitNames == Init => NamesInv
PROOF
<1> SUFFICES ASSUME Init PROVE NamesInv OBVIOUS
<1>1. DOMAIN names = {} BY DEF Init
<1> QED BY <1>1 DEF Init, NamesInv

\* Every step checks what it adds.
LEMMA NextNames == NamesInv /\ [Next]_vars => NamesInv'
PROOF
<1> SUFFICES ASSUME NamesInv, [Next]_vars PROVE NamesInv' OBVIOUS
<1>1. CASE Parse
  <2>1. /\ stage = "parse" /\ names = <<>> /\ names' = names /\ given' = given
        /\ plan' = Parsed(given.word, given.tail)
      BY <1>1 DEF Parse, NamesInv
  <2>2. stage' = CASE plan' = Rejected -> "refused"
                   [] IsData(plan') -> "input"
                   [] OTHER -> "accepted"
      BY <1>1 DEF Parse
  <2>3. ~IsData(Rejected) BY DEF IsData, Rejected
  <2>4. /\ stage' \in {"input", "accepted", "refused"}
        /\ stage' = "input" => IsData(plan')
        /\ stage' = "accepted" => ~IsData(plan')
    <3>1. CASE plan' = Rejected BY <2>2, <2>3, <3>1
    <3>2. CASE plan' # Rejected /\ IsData(plan') BY <2>2, <3>2
    <3>3. CASE plan' # Rejected /\ ~IsData(plan') BY <2>2, <3>3
    <3> QED BY <3>1, <3>2, <3>3
  <2>5. DOMAIN names' = {} BY <2>1
  <2>6. IsData(plan)' <=> IsData(plan') BY DEF IsData
  <2> QED BY <2>1, <2>4, <2>5, <2>6 DEF NamesInv
<1>2. CASE CheckInput
  <2>1. PICK n : n = Head(plan.names) OBVIOUS
  <2>2. /\ stage = "input" /\ names = <<>> /\ given' = given /\ plan' = plan
        /\ plan = Parsed(given.word, given.tail) /\ IsData(plan) /\ given \in CommandLines
      BY <1>2 DEF CheckInput, Checked, NamesInv
  <2>3. n \in Argument BY <2>1, <2>2, DataPlan
  <2>4. CASE ValidName(n) /\ ~Reserved(n)
    <3>1. stage' = "target" /\ names' = Append(names, n) BY <1>2, <2>1, <2>4 DEF CheckInput, Checked
    <3>2. names' = <<n>> BY <2>2, <3>1
    <3>3. \A i \in DOMAIN names' :
             names'[i] \in Argument /\ ValidName(names'[i]) /\ ~Reserved(names'[i])
        BY <2>3, <2>4, <3>2, CheckedKept
    <3> QED BY <2>1, <2>2, <3>1, <3>2, <3>3 DEF NamesInv, IsData
  <2>5. CASE ~(ValidName(n) /\ ~Reserved(n))
    <3>1. stage' = "refused" /\ names' = names BY <1>2, <2>1, <2>5 DEF CheckInput, Checked
    <3>2. DOMAIN names' = {} BY <2>2, <3>1
    <3> QED BY <2>2, <3>1, <3>2 DEF NamesInv, IsData
  <2> QED BY <2>4, <2>5
<1>3. CASE CheckTarget
  <2>1. PICK m : m = Head(plan.names) OBVIOUS
  <2>2. /\ stage = "target" /\ names = <<m>> /\ given' = given /\ plan' = plan
        /\ plan = Parsed(given.word, given.tail) /\ IsData(plan) /\ given \in CommandLines
        /\ \A i \in DOMAIN names :
              names[i] \in Argument /\ ValidName(names[i]) /\ ~Reserved(names[i])
      BY <1>3, <2>1 DEF CheckTarget, Checked, NamesInv
  <2>3. m \in Argument /\ ValidName(m) /\ ~Reserved(m)
    <3>1. 1 \in DOMAIN names /\ names[1] = m BY <2>2
    <3> QED BY <2>2, <3>1
  <2>4. Target' = Target /\ (IsData(plan)' <=> IsData(plan)) BY <2>2 DEF Target, IsData
  <2>5. CASE plan.replace
    <3>1. stage' = "accepted" /\ names' = names BY <1>3, <2>5 DEF CheckTarget
    <3> QED BY <2>1, <2>2, <2>4, <2>5, <3>1 DEF NamesInv
  <2>6. CASE ~plan.replace /\ ValidName(Target) /\ ~Reserved(Target)
    <3>1. stage' = "accepted" /\ names' = Append(names, Target)
        BY <1>3, <2>6 DEF CheckTarget, Checked
    <3>2. PICK n \in Argument : n = Target BY <2>2, <2>6, TargetIsArgument
    <3>3. names' = <<m, n>>
      <4>1. Append(<<m>>, n) = <<m, n>> BY <2>3, AppendOne
      <4> QED BY <2>2, <3>1, <3>2, <4>1, Zenon
    <3>4. \A i \in DOMAIN names' :
             names'[i] \in Argument /\ ValidName(names'[i]) /\ ~Reserved(names'[i])
        BY <2>3, <2>6, <3>2, <3>3, CheckedKept
    <3> QED BY <2>1, <2>2, <2>4, <2>6, <3>1, <3>2, <3>3, <3>4 DEF NamesInv
  <2>7. CASE ~plan.replace /\ ~(ValidName(Target) /\ ~Reserved(Target))
    <3>1. stage' = "refused" /\ names' = names BY <1>3, <2>7 DEF CheckTarget, Checked
    <3> QED BY <2>2, <3>1 DEF NamesInv
  <2> QED BY <2>5, <2>6, <2>7
<1>4. CASE UNCHANGED vars
  <2>1. given' = given /\ stage' = stage /\ plan' = plan /\ names' = names BY <1>4 DEF vars
  <2>2. Target' = Target /\ (IsData(plan)' <=> IsData(plan)) BY <2>1 DEF Target, IsData
  <2> QED BY <2>1, <2>2 DEF NamesInv
<1> QED BY <1>1, <1>2, <1>3, <1>4 DEF Next

\* What the commands hold of their line and their names, in every state.
THEOREM NamesChecked == Spec => []NamesInv
BY InitNames, NextNames, PTL DEF Spec

\* parse finds the command a command line spells, if there is one, for any number
\* of arguments in any order.
THEOREM LineIsParsed == Spec => []ParsedAsSpelled
PROOF
<1>1. NamesInv => ParsedAsSpelled
  <2> SUFFICES ASSUME NamesInv, stage # "parse"
               PROVE  {c \in Possible(ToSet(given.tail)) : Spells(given, c)} =
                         IF plan = Rejected THEN {} ELSE {plan}
      BY DEF ParsedAsSpelled
  <2>1. given.tail \in Seq(Argument) /\ plan = Parsed(given.word, given.tail)
      BY PartsAssumption DEF PartsAssumption, NamesInv, Argument
  <2> QED BY <2>1, OneCommand
<1> QED BY <1>1, NamesChecked, PTL

\* No accepted name is a file of the program or a device under any spelling, for
\* any parts of names and any rule by which Windows compares them that knows, of the
\* letters of our names and of the devices, only their two cases in ASCII.
THEOREM NoNameIsOurs == Spec => []NamesAreSafe
PROOF
<1>1. NamesInv => NamesAreSafe
  <2> SUFFICES ASSUME NamesInv, stage = "accepted", IsData(plan)
               PROVE  /\ names # <<>>
                      /\ \A i \in DOMAIN names :
                           LET d == Denotes(names[i])
                           IN  /\ d # <<>> /\ \A q \in Protected : d # Folded(q)
                               /\ ~DenotesTemporary(d) /\ ~DenotesDevice(d)
      BY DEF NamesAreSafe
  <2>1. names = <<Head(plan.names)>> \/ names = <<Head(plan.names), Target>> BY DEF NamesInv
  <2>2. Len(names) # 0 BY <2>1
  <2>3. names # <<>> BY <2>2
  <2>4. \A i \in DOMAIN names : names[i] \in Argument /\ ValidName(names[i]) /\ ~Reserved(names[i])
      BY DEF NamesInv
  <2> QED BY <2>3, <2>4, CheckedIsSafe
<1> QED BY <1>1, NamesChecked, PTL

\* Whatever E names, D accepts, and it leads back to the name that was encrypted.
THEOREM NameLeadsBack == Spec => []NameComesBack
PROOF
<1>1. NamesInv => NameComesBack
  <2> SUFFICES ASSUME NamesInv, stage = "accepted", plan.op = "E", ~plan.replace
               PROVE  /\ ValidName(names[2]) /\ ~Reserved(names[2])
                      /\ XchaOutput(names[2], FALSE) = names[1]
      BY DEF NameComesBack
  <2>1. IsData(plan) BY DEF IsData
  <2>2. PICK n : n = Head(plan.names) OBVIOUS
  <2>3. PICK m : m = Target OBVIOUS
  <2>4. names = <<n, m>> BY <2>1, <2>2, <2>3 DEF NamesInv
  <2>5. DOMAIN names = 1..2 /\ names[1] = n /\ names[2] = m BY <2>4
  <2>6. \A i \in DOMAIN names : names[i] \in Argument /\ ValidName(names[i]) /\ ~Reserved(names[i])
      BY DEF NamesInv
  <2>7. /\ n \in Argument /\ ValidName(n) /\ ValidName(m) /\ ~Reserved(m)
      BY <2>5, <2>6
  <2>8. m = XchaOutput(n, TRUE) BY <2>2, <2>3 DEF Target, XchaOutput
  <2>9. XchaOutput(m, FALSE) = n BY <2>7, <2>8, ThereAndBack DEF ValidName
  <2> QED BY <2>5, <2>7, <2>9
<1> QED BY <1>1, NamesChecked, PTL
=============================================================================
