---------------------------- MODULE AtomicFolder ----------------------------
(***************************************************************************)
(* What a command of xorbox promises the owner of a folder, whatever fails *)
(* or dies around it: a name goes from one whole content to another in one *)
(* step, by a command that is alone in the folder; a power loss leaves the *)
(* old content or the new one; what succeeded has written, and stays.      *)
(***************************************************************************)
EXTENDS Naturals

CONSTANTS
    Runs, NoRun,      \* the invocations of the program
    Names,            \* the names of the folder
    Texts, Nothing,    \* whole contents, and that there is no file
    MaxOutputs,       \* how many names a command may write
    Durable           \* the platform can make a name durable

VARIABLES
    shown,            \* what every name holds
    safe,             \* what it would hold after a power loss
    holder,           \* the invocation that is in the folder
    wrote,            \* how many names it has written
    result,           \* how every invocation ended
    edits             \* user actions so far

vars == <<shown, safe, holder, wrote, result, edits>>

Views == [Names -> Texts \cup {Nothing}]

Init ==
    /\ shown \in Views
    /\ safe = shown
    /\ holder = NoRun
    /\ wrote = 0
    /\ result = [r \in Runs |-> "waiting"]
    /\ edits = 0

Begin(r) ==
    /\ holder = NoRun /\ result[r] = "waiting"
    /\ holder' = r
    /\ UNCHANGED <<shown, safe, wrote, result, edits>>

Refuse(r) ==
    /\ holder \notin {NoRun, r} /\ result[r] = "waiting"
    /\ result' = [result EXCEPT ![r] = "error"]
    /\ UNCHANGED <<shown, safe, holder, wrote, edits>>

\* One name holds a new content; a power loss may still undo it.
Commit(n) ==
    /\ holder # NoRun /\ wrote < MaxOutputs
    /\ wrote' = wrote + 1
    /\ UNCHANGED <<holder, result, edits>>
    /\ shown'[n] \in Texts
    /\ shown' = [shown EXCEPT ![n] = shown'[n]]
    /\ UNCHANGED safe

\* What names hold becomes safe, one at a time or together.
Settle ==
    /\ UNCHANGED <<holder, wrote, result, edits>>
    /\ UNCHANGED shown
    /\ safe' = [n \in Names |-> IF safe'[n] = shown[n] THEN shown[n] ELSE safe[n]]

Ends(code) ==
    /\ holder # NoRun
    /\ holder' = NoRun
    /\ wrote' = 0
    /\ result' = [result EXCEPT ![holder] = code]
    /\ UNCHANGED <<shown, safe, edits>>

Succeed ==
    /\ wrote > 0
    /\ Ends("success")
    /\ Durable => safe = shown

Fail == \E code \in {"error", "cancelled", "killed"} : Ends(code)

PowerLoss ==
    /\ holder' = NoRun
    /\ wrote' = 0
    /\ result' = [r \in Runs |-> IF r = holder THEN "killed" ELSE result[r]]
    /\ shown' = safe
    /\ UNCHANGED <<safe, edits>>

\* The owner does anything to any name, except leave it torn.
User ==
    /\ edits' = edits + 1
    /\ UNCHANGED <<holder, wrote, result>>
    /\ shown' \in Views
    /\ safe' \in Views

Next ==
    \/ Settle
    \/ \E r \in Runs : Begin(r) \/ Refuse(r)
    \/ \E n \in Names : Commit(n)
    \/ Succeed \/ Fail \/ PowerLoss \/ User

Spec == Init /\ [][Next]_vars
=============================================================================
