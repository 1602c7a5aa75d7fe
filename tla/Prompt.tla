------------------------------- MODULE Prompt -------------------------------
(***************************************************************************)
(* The hidden prompts of keymake, keyrestore and sha3: private_prompt and  *)
(* password of src/app.rs above prompt_password, which Windows implements  *)
(* in src/platform/windows/console.rs and Linux takes from rpassword.      *)
(*                                                                         *)
(* The user types while the program polls; Ctrl-C arrives as a key or as a *)
(* signal from elsewhere, and any call to the console can fail.  The       *)
(* console counts UTF-16 units, the user means characters: `line' and      *)
(* `lines' are what the user meant, `value' is what the program has got.   *)
(***************************************************************************)
EXTENDS Naturals, SequencesExt

CONSTANTS
    MaxKeys,          \* bound on the keys the user types
    Repeats,          \* the repeat counts of a held key
    LinuxLines,       \* the lines rpassword may return
    None

Commands == {"keymake", "keyrestore", "sha3"}
Chars == {"letter", "space", "astral"}
EditKeys == {"backspace", "word", "line"}
EndKeys == {"enter", "eof", "interrupt"}
Ignored == {"other"}           \* other controls, key releases, mouse events
Units == {"letter", "space", "high", "low"}

ASSUME KeysAssumption ==
    /\ MaxKeys \in Nat /\ Repeats \subseteq Nat \ {0}
    /\ LinuxLines \subseteq Seq(Chars)
    /\ None \notin Seq(Units) \cup {"ok", "interrupted", "failed"}

VARIABLES
    windows, command,          \* the platform and the command
    stage,                     \* the next call; "accepted" and "done" at the end
    mode, saved,               \* "shell" or "raw": the console's, the guard's
    lost,                      \* history: a guard's call failed and left it raw
    cancelled,                 \* the flag CANCELLED
    queue,                     \* input records not yet read: <<unit, repeats>>
    value, result,             \* the units so far; "ok", "interrupted", "failed"
    secret, exit,              \* the first line accepted; 0, 1 or 130
    line, lines, keys          \* what the user meant, and how much was typed

config == <<windows, command>>
console == <<mode, saved, lost>>
typing == <<queue, line, lines, keys>>
reading == <<value, result>>
ending == <<secret, exit>>
vars == <<config, stage, console, cancelled, typing, reading, ending>>

Reading == {"poll", "wait", "read"}
Hidden == Reading \cup {"show", "newline"}
Inside == Hidden \cup {"open", "mode", "raw", "restore"}
Asking == Inside \cup {"call", "rpassword", "returned", "judge", "final"}

Init ==
    /\ windows \in BOOLEAN /\ command \in Commands
    /\ stage = "call" \/ (command = "sha3" /\ stage = "final")   \* sha3 TEXT
    /\ mode = "shell" /\ saved = None /\ lost = FALSE
    /\ cancelled = FALSE
    /\ queue = <<>> /\ line = <<>> /\ lines = <<>> /\ keys = 0
    /\ value = <<>> /\ result = None
    /\ secret = None /\ exit = None

At(s) == stage = s

-----------------------------------------------------------------------------
(* The user *)

Utf16(c) == IF c = "astral" THEN <<"high", "low">> ELSE <<c>>
Put(v, c) == v \o Utf16(c)
UnitsOf(l) ==
    LET f[i \in 0..Len(l)] == IF i = 0 THEN <<>> ELSE Put(f[i - 1], l[i]) IN f[Len(l)]

\* The last of the first n characters that is a space, or that is none.
LastWhere(l, n, space) ==
    LET at == {i \in 1..n : (l[i] = "space") = space}
    IN  IF at = {} THEN 0 ELSE CHOOSE i \in at : \A j \in at : j <= i

\* What an editing key means to the user: Ctrl-W takes the last word and what follows it.
Meant(l, k) ==
    LET body == LastWhere(l, Len(l), FALSE)
        gap == LastWhere(l, body, TRUE)
    IN  CASE k \in Chars -> Append(l, k)
          [] k = "backspace" -> IF l = <<>> THEN l ELSE Front(l)
          [] k = "word" -> SubSeq(l, 1, gap)
          [] k = "line" -> <<>>
          [] OTHER -> l

Times(step, x, n) == LET f[i \in 0..n] == IF i = 0 THEN x ELSE step[f[i - 1]] IN f[n]

(***************************************************************************)
(* A key event; a character outside the basic plane comes as two events    *)
(* that nothing separates, and not from a held key.  Ctrl-C is a key only  *)
(* while the prompt has switched processed input off.                      *)
(***************************************************************************)
Type(k, n) ==
    /\ windows /\ stage # "done" /\ queue = <<>> /\ keys < MaxKeys
    /\ k = "astral" => n = 1
    /\ k = "interrupt" => mode = "raw"
    /\ queue' = IF k \in Chars THEN [i \in DOMAIN Utf16(k) |-> <<Utf16(k)[i], n>>]
                ELSE <<<<k, n>>>>
    /\ line' = IF k = "enter" THEN <<>>
               ELSE Times([l \in Seq(Chars) |-> Meant(l, k)], line, n)
    /\ lines' = IF k = "enter" THEN Append(lines, line) ELSE lines
    /\ keys' = keys + 1
    /\ UNCHANGED <<config, stage, console, cancelled, reading, ending>>

\* The Ctrl-C handler of main, for an event that is not a key of the prompt.
Signal ==
    /\ stage # "done"
    /\ ~cancelled
    /\ cancelled' = TRUE
    /\ UNCHANGED <<config, stage, console, typing, reading, ending>>

-----------------------------------------------------------------------------
(* prompt_password on Windows *)

GoTo(next) == stage' = next /\ UNCHANGED <<config, cancelled, typing, ending>>

Fails(error, next) == GoTo(next) /\ result' = error /\ UNCHANGED <<console, value>>

Interrupted(next) == cancelled /\ Fails("interrupted", next)

\* The guard exists once GetConsoleMode has succeeded; earlier errors just return.
OpenConsole ==
    /\ At("open")
    /\ \/ Interrupted("returned")
       \/ ~cancelled /\ Fails("failed", "returned")
       \/ ~cancelled /\ GoTo("mode") /\ UNCHANGED <<console, reading>>

SaveMode ==
    /\ At("mode")
    /\ \/ Fails("failed", "returned")
       \/ GoTo("raw") /\ saved' = mode /\ UNCHANGED <<mode, lost, reading>>

SetRaw ==
    /\ At("raw")
    /\ \/ Fails("failed", "restore")
       \/ GoTo("show") /\ mode' = "raw" /\ UNCHANGED <<saved, lost, reading>>

ShowPrompt ==
    /\ At("show")
    /\ \/ Fails("failed", "restore")
       \/ GoTo("poll") /\ value' = <<>> /\ UNCHANGED <<console, result>>

Poll ==
    /\ At("poll")
    /\ \/ Interrupted("newline")
       \/ ~cancelled /\ GoTo("wait") /\ UNCHANGED <<console, reading>>

\* Mutant: a blocking read, which sleeps until there is a key event.
WaitBlocking ==
    /\ At("wait") /\ queue # <<>>
    /\ \/ Fails("failed", "newline")
       \/ GoTo("read") /\ UNCHANGED <<console, reading>>

\* WaitForSingleObject with a timeout of 50 ms.
Wait ==
    /\ At("wait")
    /\ \/ Fails("failed", "newline")
       \/ /\ GoTo(IF queue = <<>> THEN "poll" ELSE "read")
          /\ UNCHANGED <<console, reading>>

\* Mutant: one unit is removed, whatever it is half of.
RemoveUnit(v) == SubSeq(v, 1, Len(v) - 1)

RemoveCharacter(v) ==
    LET pair == Len(v) > 1 /\ Last(v) = "low" /\ v[Len(v) - 1] = "high"
    IN  SubSeq(v, 1, Len(v) - (IF pair THEN 2 ELSE 1))

\* A turn of a loop of Ctrl-W: while the last unit is whitespace, or is not.
RemoveIf(v, space) ==
    IF v # <<>> /\ (Last(v) = "space") = space THEN RemoveCharacter(v) ELSE v

\* Every turn removes a unit, so the loop is over after as many as there are.
RemoveWhile(v, space) == Times([w \in Seq(Units) |-> RemoveIf(w, space)], v, Len(v))

Edit(v, u) ==
    CASE u \in Units -> Append(v, u)
      [] u = "backspace" -> RemoveCharacter(v)
      [] u = "word" -> RemoveWhile(RemoveWhile(v, TRUE), FALSE)
      [] u = "line" -> <<>>
      [] OTHER -> v

\* String::from_utf16 accepts it: every half of a pair has its other half.
WellFormed(v) ==
    \A i \in DOMAIN v :
        /\ v[i] = "high" => i < Len(v) /\ v[i + 1] = "low"
        /\ v[i] = "low" => i > 1 /\ v[i - 1] = "high"

\* How a key ends the prompt, or None.  An ending key ends it on its first repeat.
Ending(u) ==
    CASE u = "interrupt" -> "interrupted"
      [] u = "eof" /\ value = <<>> -> "failed"
      [] u = "enter" -> IF WellFormed(value) THEN "ok" ELSE "failed"
      [] OTHER -> None

\* ReadConsoleInputW takes one record, whose unit is applied as often as it repeats.
ReadEvent ==
    /\ At("read")
    /\ \/ Interrupted("newline")
       \/ ~cancelled /\ Fails("failed", "newline")
       \/ LET u == Head(queue)[1]
              n == Head(queue)[2]
          IN  /\ ~cancelled
              /\ queue' = Tail(queue)
              /\ value' = Times([v \in Seq(Units) |-> Edit(v, u)], value, n)
              /\ result' = Ending(u)
              /\ stage' = IF Ending(u) = None THEN "poll" ELSE "newline"
              /\ cancelled' = (u = "interrupt")
              /\ UNCHANGED <<config, console, line, lines, keys, ending>>

\* The hidden line is ended on the screen; an earlier error is kept.
Newline ==
    /\ At("newline")
    /\ \/ Fails(IF result = "ok" THEN "failed" ELSE result, "restore")
       \/ GoTo("restore") /\ UNCHANGED <<console, reading>>

\* Mutant: the mode is restored by the last statement, which errors do not reach.
RestoreOnSuccess ==
    /\ At("restore")
    /\ GoTo("returned")
    /\ mode' = IF result = "ok" THEN saved ELSE mode
    /\ UNCHANGED <<saved, lost, reading>>

(***************************************************************************)
(* The guard is dropped on every path.  Its own SetConsoleMode can fail as *)
(* well, which nobody notices: the console then stays as it is, and for a  *)
(* second prompt that is the mode to save.                                 *)
(***************************************************************************)
Restore ==
    /\ At("restore")
    /\ GoTo("returned")
    /\ \/ mode' = saved /\ lost' = lost
       \/ mode' = mode /\ lost' = (lost \/ mode # saved)
    /\ UNCHANGED <<saved, reading>>

-----------------------------------------------------------------------------
(* rpassword on Linux: it returns a line, an error, or Interrupted *)

Rpassword ==
    /\ At("rpassword")
    /\ \/ \E l \in LinuxLines :
            /\ value' = UnitsOf(l)
            /\ lines' = Append(lines, l)
            /\ result' = "ok"
            /\ stage' = "returned"
            /\ UNCHANGED <<config, console, cancelled, queue, line, keys, ending>>
       \/ \E error \in {"interrupted", "failed"} : Fails(error, "returned")

-----------------------------------------------------------------------------
(* private_prompt, password and the prompt of run *)

\* An error leaves run, and main derives the exit code from the flag.
Leave(flag) ==
    /\ stage' = "done"
    /\ exit' = IF flag THEN 130 ELSE 1
    /\ cancelled' = flag
    /\ UNCHANGED <<config, console, typing, reading, secret>>

Call ==
    /\ At("call")
    /\ \/ cancelled /\ Leave(TRUE)
       \/ /\ ~cancelled
          /\ GoTo(IF windows THEN "open" ELSE "rpassword")
          /\ result' = None
          /\ UNCHANGED <<console, value>>

\* Interrupted sets the flag, for rpassword's signal may come later.
Returned ==
    /\ At("returned")
    /\ LET flag == cancelled \/ result = "interrupted"
       IN  \/ (flag \/ result # "ok") /\ Leave(flag)
           \/ ~flag /\ result = "ok" /\ GoTo("judge") /\ UNCHANGED <<console, reading>>

\* password: not empty, and typed twice if it makes a key.
Refused ==
    \/ command # "sha3" /\ secret = None /\ value = <<>>
    \/ secret # None /\ value # secret

Judge ==
    /\ At("judge")
    /\ \/ Refused /\ Leave(cancelled)
       \/ /\ ~Refused
          /\ secret' = value
          /\ stage' = IF command = "keymake" /\ secret = None THEN "call" ELSE "final"
          /\ UNCHANGED <<config, console, cancelled, typing, reading, exit>>

\* check_cancel before the line is used: hashed by run, or by the key commands.
Final ==
    /\ At("final")
    /\ \/ cancelled /\ Leave(TRUE)
       \/ /\ ~cancelled
          /\ GoTo(IF command = "sha3" THEN "print" ELSE "accepted")
          /\ UNCHANGED <<console, reading>>

PrintDigest ==
    /\ At("print")
    /\ \/ Leave(cancelled)
       \/ /\ stage' = "done"
          /\ exit' = 0
          /\ UNCHANGED <<config, console, cancelled, typing, reading, secret>>

-----------------------------------------------------------------------------

Windows ==
    \/ OpenConsole \/ SaveMode \/ SetRaw \/ ShowPrompt \/ Poll \/ Wait
    \/ ReadEvent \/ Newline \/ Restore

Program == Windows \/ Call \/ Returned \/ Judge \/ Final \/ PrintDigest

User ==
    \/ \E k \in Chars \cup EditKeys \cup EndKeys \cup Ignored, n \in Repeats : Type(k, n)
    \/ Signal

Next == Program \/ Rpassword \/ User

\* The program runs on; rpassword, like the user, may take for ever.
Spec == Init /\ [][Next]_vars /\ WF_vars(Program)

-----------------------------------------------------------------------------
(* Properties *)

(***************************************************************************)
(* What the prompt has got is what the user meant: remove_character and    *)
(* the loops of prompt_password undo whole characters and whole words,     *)
(* also of characters that take two UTF-16 units, and no line is mixed     *)
(* with another.  A password is the line typed first, not empty, and, if   *)
(* it makes a key, equal to the line typed second (password of app.rs).    *)
(***************************************************************************)
LineAsTyped ==
    /\ stage \in {"poll", "wait"} /\ queue = <<>> => value = UnitsOf(line)
    /\ secret # None => secret = UnitsOf(lines[1])
    /\ stage \in {"print", "accepted"} =>
         /\ command # "sha3" => secret # <<>>
         /\ command = "keymake" => lines[1] = lines[2]

\* The mode the shell is left with.
ModeLeft == IF lost THEN "raw" ELSE "shell"

(***************************************************************************)
(* The user's shell gets its console back: outside prompt_password the     *)
(* mode is the one the shell had set, whichever call before the guard's    *)
(* own failed (InputMode).  If that one fails, whose result nobody reads,  *)
(* the shell is left with the raw mode, and no later prompt gives it back: *)
(* the second prompt of keymake saves and restores what it finds.  And     *)
(* nothing is shown or read while typing is echoed.                        *)
(***************************************************************************)
ModeRestored ==
    /\ stage \notin Inside => mode = ModeLeft
    /\ stage \in Hidden => mode = "raw"

\* A prompt in which Ctrl-C was pressed; rpassword may sleep on.
CancelSeen ==
    /\ stage \in Asking
    /\ result = "interrupted" \/ (windows /\ cancelled)

(***************************************************************************)
(* Ctrl-C ends an idle prompt although no key event follows it, and so     *)
(* does Interrupted from either console; the exit code is 130              *)
(* (prompt_password, private_prompt, main).                                *)
(***************************************************************************)
CancelEnds == CancelSeen ~> exit = 130

\* The steps of the program from each stage of a prompt to its end, once Ctrl-C
\* has been pressed.
StepsLeft ==
    [mode |-> 7, raw |-> 6, show |-> 5, wait |-> 5, poll |-> 4, read |-> 4,
     newline |-> 3, restore |-> 2, open |-> 2, judge |-> 2, rpassword |-> 2,
     call |-> 1, final |-> 1, returned |-> 1, done |-> 0]
Rank == StepsLeft[stage]
=============================================================================
