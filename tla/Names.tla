-------------------------------- MODULE Names --------------------------------
(***************************************************************************)
(* The command line and the file names on it: parse of src/cli.rs, then    *)
(* valid_name, reserved and xcha_output of src/files.rs as Root::input and *)
(* Root::destination apply them to the names of a data command.            *)
(*                                                                         *)
(* A name is the sequence of its parts between the dots (".lock" has two,  *)
(* the first one empty); a part is a string that the functions and sets    *)
(* below say everything about that the code asks.  A number is a part as   *)
(* well, and Value says which.  Three rules of case meet in a name, and    *)
(* nothing but FoldingAssumption relates them.                             *)
(***************************************************************************)
EXTENDS Naturals, SequencesExt

CONSTANTS
    Parts,            \* the parts of names
    Trim,             \* a part without trailing spaces
    Lower,            \* its ASCII letters in lower case (to_ascii_lowercase)
    Upper,            \* in upper case by the rules of Unicode (to_uppercase)
    Fold,             \* what Windows compares: the same for parts it takes as one
    Control,          \* parts with separators or characters no name may have
    Devices,          \* CON, NUL, COM1 and the like
    Temporary,        \* parts that begin with "xorbox-"
    Dashed,           \* parts that begin with "-"
    Value,            \* the numbers written in digits
    MaxKeyBytes, MaxU64,
    CommandLines      \* the command lines given: [word, tail]

\* The parts of the names the program keeps for itself.
OwnParts == {"", "key", "meta", "xcha", "xorbox", "lock"}

\* What is one letter to Windows is told by the letters, so it has nothing to do
\* with spaces at the end.
ASSUME PartsAssumption ==
    /\ OwnParts \subseteq Parts
    /\ {Trim, Lower, Upper, Fold} \subseteq [Parts -> Parts]
    /\ \A p \in Parts : Trim[Fold[p]] = Fold[Trim[p]]
    /\ MaxKeyBytes \in Nat /\ MaxU64 \in Nat /\ MaxKeyBytes <= MaxU64
    /\ Control \cup Devices \cup Temporary \cup Dashed \subseteq Parts
    /\ \A l \in CommandLines : l.tail \in Seq(Seq(Parts) \ {<<>>})

(***************************************************************************)
(* What the checks need of Windows: to it only the two cases of a letter   *)
(* of ASCII are one letter with it, so that whatever it takes for a part   *)
(* of our names is that part in lower case by ASCII, and whatever it takes *)
(* for a device is one in upper case by Unicode.                           *)
(***************************************************************************)
ASSUME FoldingAssumption ==
    \A p \in Parts :
        /\ \A q \in OwnParts : Fold[p] = Fold[q] => Lower[p] = q
        /\ \A q \in Temporary : Fold[p] = Fold[q] => Lower[p] \in Temporary
        /\ \A q \in Devices : Fold[p] = Fold[q] => Upper[p] \in Devices

VARIABLES
    given,            \* the command line
    stage,            \* parse, input, target, accepted, refused
    plan,             \* the Command that parse returns
    names             \* the names the command opens or creates, after their checks

vars == <<given, stage, plan, names>>

\* An argument of one part.
Word(p) == <<p>>

InPlace == Word("--in-place")
RepeatKey == Word("--repeat-key")
Flags == {InPlace, RepeatKey}

Rejected == [op |-> "rejected"]
Xor(ns, f) == [op |-> "xor", names |-> ns,
               replace |-> InPlace \in f, repeat |-> RepeatKey \in f]
Xcha(word, n, inPlace) == [op |-> word[1], names |-> <<n>>, replace |-> inPlace]
Keys(command) == [op |-> command]
KeyMake(size) == [op |-> "keymake", size |-> size]
Sha3(text) == [op |-> "sha3", text |-> text]

-----------------------------------------------------------------------------
(* parse *)

\* Mutant: an option that is given twice counts once.
OptionTwice(o, a) ==
    CASE a \in Flags -> [o EXCEPT !.flags = @ \cup {a}]
      [] a[1] \in Dashed \ {"--in-place", "--repeat-key"} -> [o EXCEPT !.ok = FALSE]
      [] OTHER -> [o EXCEPT !.names = Append(@, a)]

\* One argument of xor: a flag, at most once, or a name.
Option(o, a) ==
    CASE a \in Flags -> [o EXCEPT !.ok = @ /\ a \notin o.flags, !.flags = @ \cup {a}]
      [] a \notin Flags /\ a[1] \in Dashed -> [o EXCEPT !.ok = FALSE]
      [] OTHER -> [o EXCEPT !.names = Append(@, a)]

ParseXor(tail) ==
    LET after[k \in 0..Len(tail)] ==
            IF k = 0 THEN [names |-> <<>>, flags |-> {}, ok |-> TRUE]
            ELSE Option(after[k - 1], tail[k])
        o == after[Len(tail)]
    IN  IF o.ok /\ Len(o.names) = (IF InPlace \in o.flags THEN 1 ELSE 2)
        THEN Xor(o.names, o.flags) ELSE Rejected

\* Digits only, then a u64, then the range.
ParseKeyMake(tail) ==
    IF /\ Len(tail) = 1
       /\ Len(tail[1]) = 1 /\ tail[1][1] \in DOMAIN Value
       /\ Value[tail[1][1]] \in 0..MaxU64
       /\ Value[tail[1][1]] \in 1..MaxKeyBytes
    THEN KeyMake(Value[tail[1][1]]) ELSE Rejected

ParseXcha(tail) ==
    CASE tail = <<Word("K")>> -> Keys("xcha K")
      [] /\ Len(tail) \in {2, 3}
         /\ tail[1] \in {Word("E"), Word("D")}
         /\ Len(tail) = 3 => tail[3] = InPlace -> Xcha(tail[1], tail[2], Len(tail) = 3)
      [] OTHER -> Rejected

Parsed(word, tail) ==
    CASE word = "xor" -> ParseXor(tail)
      [] word = "keymake" -> ParseKeyMake(tail)
      [] word = "keyrestore" /\ tail = <<>> -> Keys("keyrestore")
      [] word = "sha3" /\ Len(tail) <= 1 -> Sha3(tail)
      [] word = "xcha" -> ParseXcha(tail)
      [] OTHER -> Rejected

-----------------------------------------------------------------------------
(* Names *)

\* The empty name.
NoName == Word("")

\* Mutant: a name may end in a dot or a space.
ValidNameEndingAnyhow(n) ==
    /\ n # NoName /\ n[1] \notin Dashed
    /\ \A i \in DOMAIN n : n[i] \notin Control
    /\ Upper[Trim[n[1]]] \notin Devices

\* Not a path, not empty, no option, no final dot or space, not a device.
ValidName(n) ==
    /\ n # NoName /\ n[1] \notin Dashed
    /\ Last(n) # "" /\ Trim[Last(n)] = Last(n)
    /\ \A i \in DOMAIN n : n[i] \notin Control
    /\ Upper[Trim[n[1]]] \notin Devices

Protected == {<<"key", "key">>, <<"key", "meta">>, <<"xcha", "key">>,
              <<"", "xorbox", "lock">>}

Lowered(n) == [i \in DOMAIN n |-> Lower[n[i]]]

IsTemporary(n) == Len(n) > 1 /\ n[1] = "" /\ n[2] \in Temporary

\* Mutant: a name is compared as it was typed.
ReservedAsTyped(n) == n \in Protected \/ IsTemporary(n)

Reserved(n) == Lowered(n) \in Protected \/ IsTemporary(Lowered(n))

\* A dot that begins the name begins no extension (Path::extension).
HasExtension(n) == Len(n) > 1 /\ n # <<"", Last(n)>>

\* Mutant: the stem ends at the first dot.
XchaOutputPrefix(n, encrypt) ==
    IF encrypt THEN Append(n, "xcha")
    ELSE IF HasExtension(n) /\ Last(n) = "xcha" THEN <<n[1]>> ELSE NoName

\* The name the other file gets, or the empty name if there is none.
XchaOutput(n, encrypt) ==
    IF encrypt THEN Append(n, "xcha")
    ELSE IF HasExtension(n) /\ Last(n) = "xcha" THEN Front(n) ELSE NoName

Target ==
    CASE plan.replace -> Head(plan.names)
      [] plan.op = "xor" -> plan.names[2]
      [] OTHER -> XchaOutput(Head(plan.names), plan.op = "E")

-----------------------------------------------------------------------------
(* The steps *)

Init ==
    /\ given \in CommandLines
    /\ stage = "parse"
    /\ plan = Rejected
    /\ names = <<>>

IsData(c) == c.op \in {"xor", "E", "D"}

Parse ==
    /\ stage = "parse"
    /\ plan' = Parsed(given.word, given.tail)
    /\ stage' = CASE plan' = Rejected -> "refused"
                  [] IsData(plan') -> "input"
                  [] OTHER -> "accepted"
    /\ UNCHANGED <<given, names>>

Checked(n, next) ==
    LET ok == ValidName(n) /\ ~Reserved(n)
    IN  /\ stage' = IF ok THEN next ELSE "refused"
        /\ names' = IF ok THEN Append(names, n) ELSE names
        /\ UNCHANGED <<given, plan>>

CheckInput == stage = "input" /\ Checked(Head(plan.names), "target")

\* In place the target is the path of the input; otherwise destination checks it.
CheckTarget ==
    /\ stage = "target"
    /\ IF plan.replace THEN stage' = "accepted" /\ UNCHANGED <<given, plan, names>>
       ELSE Checked(Target, "accepted")

Next == Parse \/ CheckInput \/ CheckTarget

Spec == Init /\ [][Next]_vars

-----------------------------------------------------------------------------
(* Properties *)

\* The elements of ns are those of s that are no flags, in their order.
Others(ns, s) ==
    \E at \in [DOMAIN ns -> DOMAIN s] :
        /\ \A i, j \in DOMAIN ns : i < j => at[i] < at[j]
        /\ \A i \in DOMAIN ns : ns[i] = s[at[i]] /\ ns[i] \notin Flags
        /\ \A k \in DOMAIN s : s[k] \notin Flags => \E i \in DOMAIN ns : at[i] = k

\* Of the flags the ones in fs are there, each of them once.
Once(fs, s) ==
    /\ \A f \in Flags : f \in fs <=> \E k \in DOMAIN s : s[k] = f
    /\ \A i, j \in DOMAIN s : s[i] \in Flags /\ s[j] = s[i] => i = j

\* The flags of a command are given once, anywhere; its names in their order.
Spells(l, c) ==
    CASE c.op = "xor" ->
           /\ l.word = "xor"
           /\ Others(c.names, l.tail)
           /\ Once({f \in Flags : IF f = InPlace THEN c.replace ELSE c.repeat}, l.tail)
           /\ \A i \in DOMAIN c.names : c.names[i][1] \notin Dashed
      [] c.op \in {"E", "D"} ->
           /\ l.word = "xcha"
           /\ l.tail = IF c.replace THEN <<Word(c.op), c.names[1], InPlace>>
                                    ELSE <<Word(c.op), c.names[1]>>
      [] c.op = "keymake" ->
           l.word = "keymake" /\ \E p \in DOMAIN Value : l.tail = <<Word(p)>> /\ Value[p] = c.size
      [] c.op = "sha3" -> l.word = "sha3" /\ l.tail = c.text
      [] c.op = "xcha K" -> l.word = "xcha" /\ l.tail = <<Word("K")>>
      [] c.op = "keyrestore" -> l.word = "keyrestore" /\ l.tail = <<>>

\* The commands one can ask for with the arguments of a command line.
Possible(args) ==
    {Xor(<<x>>, f) : x \in args, f \in {{InPlace}, Flags}}
    \cup {Xor(<<x, y>>, f) : x \in args, y \in args, f \in {{}, {RepeatKey}}}
    \cup {Xcha(w, n, r) : w \in {Word("E"), Word("D")}, n \in args, r \in BOOLEAN}
    \cup {KeyMake(s) : s \in 1..MaxKeyBytes}
    \cup {Sha3(<<x>>) : x \in args}
    \cup {Sha3(<<>>), Keys("xcha K"), Keys("keyrestore")}

(***************************************************************************)
(* parse finds the command a command line spells, and refuses exactly the  *)
(* lines that spell none: every command can be asked for in every order of *)
(* its options, and no line means two commands.                            *)
(***************************************************************************)
ParsedAsSpelled ==
    stage # "parse" =>
        {c \in Possible(ToSet(given.tail)) : Spells(given, c)} =
            IF plan = Rejected THEN {} ELSE {plan}

(***************************************************************************)
(* What Windows opens under a name: final dots and spaces do not count,    *)
(* nor does case, as it folds it, and the name of a device is that device  *)
(* with any ending.                                                        *)
(***************************************************************************)
Folded(n) == [i \in DOMAIN n |-> Fold[n[i]]]

Denotes(n) ==
    LET ends == {i \in DOMAIN n : n[i] # ""}
        last == IF ends = {} THEN 0 ELSE CHOOSE i \in ends : \A j \in ends : j <= i
    IN  Folded([i \in 1..last |-> IF i = last THEN Trim[n[i]] ELSE n[i]])

\* One of our temporary files, or a device, to Windows.
DenotesTemporary(d) ==
    Len(d) > 1 /\ d[1] = Fold[""] /\ \E t \in Temporary : d[2] = Fold[t]
DenotesDevice(d) == \E x \in Devices : Trim[d[1]] = Fold[x]

(***************************************************************************)
(* An accepted data command reads and writes no key, no metadata, no lock  *)
(* or temporary file of the program and no device, however the name is     *)
(* spelled and also if it was derived (valid_name, reserved, xcha_output): *)
(* the checks, which fold case in two ways of their own, refuse all that   *)
(* Windows would take for one of these.                                    *)
(***************************************************************************)
NamesAreSafe ==
    stage = "accepted" /\ IsData(plan) =>
        /\ names # <<>>
        /\ \A i \in DOMAIN names :
             LET d == Denotes(names[i])
             IN  /\ d # <<>> /\ \A q \in Protected : d # Folded(q)
                 /\ ~DenotesTemporary(d) /\ ~DenotesDevice(d)

(***************************************************************************)
(* What E writes under a new name, D accepts and brings back under the     *)
(* name it had (xcha_output, both ways).                                   *)
(***************************************************************************)
NameComesBack ==
    stage = "accepted" /\ plan.op = "E" /\ ~plan.replace =>
        /\ ValidName(names[2]) /\ ~Reserved(names[2])
        /\ XchaOutput(names[2], FALSE) = names[1]
=============================================================================
