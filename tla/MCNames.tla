------------------------------- MODULE MCNames -------------------------------
(***************************************************************************)
(* Command lines of up to four arguments from a few words, and data        *)
(* commands on every name of up to three parts.                            *)
(***************************************************************************)
EXTENDS Names

Words == {"xor", "keymake", "keyrestore", "sha3", "xcha", "other"}

\* Letters of ASCII in both cases; of the other parts no case is needed.
Cases == {<<"KEY", "key">>, <<"META", "meta">>, <<"XCHA", "xcha">>,
          <<"XORBOX", "xorbox">>, <<"LOCK", "lock">>, <<"XORBOX-1", "xorbox-1">>,
          <<"NUL", "nul">>, <<"COM1", "com1">>, <<"CONIN$", "conin$">>,
          <<"KEY ", "key ">>, <<"NUL ", "nul ">>}
\* Letters outside ASCII: a pair that ASCII does not relate, the letter i without
\* its dot, whose upper case is the I of CONIN$, and the sign for Kelvin, whose
\* lower case is the k of key; the last two are letters of their own to Windows.
Umlauts == {<<"A-umlaut", "a-umlaut">>}
Dotless == {<<"CONIN$", "con-dotless-n$">>}
Kelvin == "kelvin-ey"

Padded == {<<"key ", "key">>, <<"KEY ", "KEY">>, <<"nul ", "nul">>, <<"NUL ", "NUL">>}
Arguments == {"--in-place", "--repeat-key", "--help", "E", "K", "a", "0", "1", "max"}
MCParts ==
    {"", "key", "meta", "xcha", "xorbox", "lock", "xorbox-1", "nul", "com1", "a/b",
     "D", "over", "wide", "+1", Kelvin}
        \cup {p[i] : p \in Cases \cup Umlauts \cup Dotless \cup Padded, i \in {1, 2}}
        \cup Arguments

Swapped(pairs) == {<<p[2], p[1]>> : p \in pairs}
Replace(pairs) ==
    [p \in MCParts |-> IF \E q \in pairs : q[1] = p
                       THEN (CHOOSE q \in pairs : q[1] = p)[2] ELSE p]
MCLower == Replace(Cases)
MCUpper == Replace(Swapped(Cases \cup Umlauts \cup Dotless))
MCFold == Replace(Swapped(Cases \cup Umlauts))
MCTrim == Replace(Padded)

MCValue == [p \in {"0", "1", "max", "over", "wide"} |->
              CASE p = "0" -> 0 [] p = "1" -> 1 [] p = "max" -> MaxKeyBytes
                [] p = "over" -> MaxKeyBytes + 1 [] p = "wide" -> MaxU64 + 1]

NameParts == {"", "key", "KEY", "key ", "meta", "xcha", "XCHA", "xorbox", "lock",
              "xorbox-1", "XORBOX-1", "nul ", "NUL", "com1", "a", "a/b", "--help",
              "con-dotless-n$", "A-umlaut", Kelvin}
FileNames == UNION {[1..n -> NameParts] : n \in 1..3}

Grammar == [word : Words, tail : UNION {[1..n -> {<<p>> : p \in Arguments}] : n \in 0..4}]
OnNames ==
    [word : {"xcha"},
     tail : {<<Word(op), n>> \o r : op \in {"E", "D"}, n \in FileNames, r \in {<<>>, <<InPlace>>}}]
    \cup [word : {"xor"}, tail : {<<<<"a">>, n>> : n \in FileNames}]
    \cup [word : {"keymake"}, tail : {<<<<p>>>> : p \in {"over", "wide", "+1"}}]
MCCommandLines == Grammar \cup OnNames
=============================================================================
