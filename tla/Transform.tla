------------------------------- MODULE Transform -------------------------------
(***************************************************************************)
(* The commands that transform a file: xor_file and xcha_file of           *)
(* src/app.rs.  A command opens its input and its key, streams the         *)
(* transformed input into a temporary file, reads that back, checks that   *)
(* input and key are still the files it opened, and publishes the result   *)
(* under a new name or, in place, over the input.                          *)
(*                                                                         *)
(* The commands of src/cli.rs appear as records.  What the algorithms do   *)
(* to a content is the operator Xform; how they stream it is the subject   *)
(* of the reads here: the input and the key can change between two chunks. *)
(***************************************************************************)
EXTENDS Folder

CONSTANTS
    Commands,             \* the commands given: [op, in, out, replace]
    Protected,            \* the names of keys and metadata (files::reserved)
    KeyName,              \* the key file of every operation
    Xform(_, _, _),       \* Xform(op, key, text), or Reject
    KeyFits(_, _, _),     \* KeyFits(op, key, text): the length checks of the key
    Reject                \* decryption refuses the text

Ops == {"xor", "enc", "dec"}

ASSUME CommandsAssumption ==
    /\ Commands \subseteq [op : Ops, in : Names, out : Names, replace : BOOLEAN]
    /\ \A c \in Commands : c.replace => c.out = c.in
ASSUME KeyAssumption ==
    /\ Protected \subseteq Names
    /\ KeyName \in [Ops -> Names]
ASSUME XformAssumption ==
    /\ Reject \notin Texts \cup {Torn}
    /\ \A op \in Ops, k, t \in Texts : Xform(op, k, t) \in Texts \cup {Reject}

VARIABLES
    cmd,        \* the command that is running
    input,      \* the snapshot of its open input
    key,        \* the snapshot of its open key
    seen,       \* the contents its reads of the input came from
    seenKey,    \* the contents its reads of the key came from
    digest      \* what the bytes written hash to

command == <<cmd, input, key, seen, seenKey, digest>>
vars == <<folder, command>>

NoCommand == [op |-> "none"]
NoSnapshot == [ino |-> NoFile]

Snapshots == [ino : Inodes, stamp : Nat, text : Contents]

EarlyStages == {"input", "target", "key", "load", "temp", "stream", "verify",
                "recheck", "keycheck"}
Stages == EarlyStages \cup PublishStages \cup {"idle", "leaving", "done"}

TypeOK ==
    /\ FolderTypeOK(Stages)
    /\ cmd \in Commands \cup {NoCommand}
    /\ input \in Snapshots \cup {NoSnapshot}
    /\ key \in Snapshots \cup {NoSnapshot}
    /\ seen \in SUBSET Contents
    /\ seenKey \in SUBSET Contents
    /\ digest \in Contents

Init ==
    /\ FolderInit
    /\ cmd = NoCommand
    /\ input = NoSnapshot
    /\ key = NoSnapshot
    /\ seen = {}
    /\ seenKey = {}
    /\ digest = Partial

Temp == <<self, 1>>

\* How the folder's operators see a step of the command.
Passes(next) ==
    /\ stage' = next
    /\ UNCHANGED <<directory, files, self, cancelled, verdicts, world>>

Start(r, c) ==
    /\ Enter(r)
    /\ stage' = "input"
    /\ cmd' = c
    /\ UNCHANGED <<input, key, seen, seenKey, digest>>

-----------------------------------------------------------------------------
(* Opening input, target and key *)

\* Mutant: reserved names and aliases of protected files are accepted.
InputExists == entry[cmd.in] # NoFile

(***************************************************************************)
(* Root::input with data = true: the name is not reserved, and the file is *)
(* not a protected one under another name.                                 *)
(***************************************************************************)
InputOK ==
    /\ entry[cmd.in] # NoFile
    /\ cmd.in \notin Protected
    /\ \A n \in Protected : entry[n] # entry[cmd.in]

OpenInput ==
    /\ At("input")
    /\ InputOK
    /\ input' = Snapshot(entry[cmd.in])
    /\ held' = held \cup {entry[cmd.in]}
    /\ Passes("target")
    /\ UNCHANGED <<cmd, key, seen, seenKey, digest>>

\* In place: prepare_in_place; otherwise Root::destination.
TargetOK ==
    IF cmd.replace THEN OneLink(input.ino)
    ELSE cmd.out \notin Protected /\ entry[cmd.out] = NoFile

ChooseTarget ==
    /\ At("target")
    /\ TargetOK
    /\ Passes("key")
    /\ UNCHANGED <<held, command>>

KeyFile == entry[KeyName[cmd.op]]

\* Root::input with data = false, then the checks of the key's length.
KeyOK == KeyFile # NoFile /\ KeyFits(cmd.op, data[KeyFile], input.text)

OpenKey ==
    /\ At("key")
    /\ KeyOK
    /\ key' = Snapshot(KeyFile)
    /\ held' = held \cup {KeyFile}
    /\ Passes(IF cmd.op = "xor" THEN "temp" ELSE "load")
    /\ UNCHANGED <<cmd, input, seen, seenKey, digest>>

\* xcha_file reads its 32-byte key once and requires the end of the file.
LoadOK == KeyFits(cmd.op, data[key.ino], input.text)

LoadKey ==
    /\ At("load")
    /\ LoadOK
    /\ seenKey' = {data[key.ino]}
    /\ Passes("temp")
    /\ UNCHANGED <<held, cmd, input, key, seen, digest>>

CreateTemp ==
    /\ At("temp")
    /\ MakeTemp(Temp, "stream")
    /\ UNCHANGED command

-----------------------------------------------------------------------------
(* stream::xor, encrypt and decrypt *)

(***************************************************************************)
(* A chunk is read from whatever the open file holds at that moment.  An   *)
(* empty input is read once too, to find its end.                          *)
(***************************************************************************)
ReadInput ==
    /\ At("stream")
    /\ ~cancelled
    /\ data[input.ino] \notin seen
    /\ seen' = seen \cup {data[input.ino]}
    /\ UNCHANGED <<folder, cmd, input, key, seenKey, digest>>

\* stream::xor reads the key as it goes, or once if it is short and repeats.
ReadKey ==
    /\ At("stream")
    /\ ~cancelled
    /\ cmd.op = "xor"
    /\ data[key.ino] \notin seenKey
    /\ seenKey' = seenKey \cup {data[key.ino]}
    /\ UNCHANGED <<folder, cmd, input, key, seen, digest>>

(***************************************************************************)
(* What has been written when the end of the input is reached.  Chunks of  *)
(* different contents make bytes nobody meant, except that a decryption    *)
(* does not authenticate them.                                             *)
(***************************************************************************)
Output ==
    IF (\E k \in seenKey : seenKey = {k}) /\ (\E t \in seen : seen = {t})
    THEN Xform(cmd.op, CHOOSE k \in seenKey : TRUE, CHOOSE t \in seen : TRUE)
    ELSE IF cmd.op = "dec" THEN Reject ELSE Torn

\* Mutant: a failed authentication does not stop the stream.
StreamAccepted == TRUE

StreamOK == Output # Reject

EndStream ==
    /\ At("stream")
    /\ ~cancelled
    /\ seen # {} /\ seenKey # {}
    /\ StreamOK
    /\ digest' = Output
    /\ Write(Temp, Output, "verify")
    /\ UNCHANGED <<cmd, input, key, seen, seenKey>>

VerifyOK == data[Temp] = digest

Verify ==
    /\ At("verify")
    /\ ReadBack(Temp, digest, "recheck")
    /\ UNCHANGED command

Damage ==
    /\ At("verify")
    /\ Corrupt(Temp)
    /\ UNCHANGED command

\* input.unchanged() after the read-back.
RecheckInput ==
    /\ At("recheck")
    /\ Unchanged(cmd.in, input)
    /\ Passes("keycheck")
    /\ UNCHANGED <<held, command>>

\* Mutant: the key's name is compared with the input's snapshot.
RecheckKeyOfInput ==
    /\ At("keycheck")
    /\ Unchanged(KeyName[cmd.op], input)
    /\ Passes("publish")
    /\ UNCHANGED <<held, command>>

RecheckKey ==
    /\ At("keycheck")
    /\ Unchanged(KeyName[cmd.op], key)
    /\ Passes("publish")
    /\ UNCHANGED <<held, command>>

-----------------------------------------------------------------------------
(* Publication and the end *)

Publish ==
    /\ \/ SyncTemp(Temp)
       \/ FinalUnchanged(cmd.replace, cmd.out, input)
       \/ FinalLinks(cmd.replace, input)
       \/ Rename(Temp, cmd.out, cmd.replace)
       \/ RenameFails(Temp, cmd.out, cmd.replace)
       \/ Confirm(Temp, cmd.out)
       \/ ConfirmFails(Temp, cmd.out)
       \/ SyncPublication(Temp, "done")
       \/ SyncPublicationFails(Temp)
    /\ UNCHANGED command

(***************************************************************************)
(* An error before the rename: a check that does not pass, the flag seen   *)
(* by check_cancel, or any call that fails.                                *)
(***************************************************************************)
CheckFails ==
    \/ At("input") /\ ~InputOK
    \/ At("target") /\ ~TargetOK
    \/ At("key") /\ ~KeyOK
    \/ At("load") /\ ~LoadOK
    \/ At("stream") /\ (cancelled \/ (seen # {} /\ seenKey # {} /\ ~StreamOK))
    \/ At("stream") /\ (data[input.ino] # input.text \/ data[key.ino] # key.text)
    \/ At("verify") /\ (cancelled \/ ~VerifyOK)
    \/ At("recheck") /\ ~Unchanged(cmd.in, input)
    \/ At("keycheck") /\ ~Unchanged(KeyName[cmd.op], key)
    \/ At("publish") /\ cancelled
    \/ At("final") /\ cmd.replace /\ ~Unchanged(cmd.out, input)
    \/ At("links") /\ (cancelled \/ (cmd.replace /\ ~OneLink(input.ino)))

CallFails ==
    /\ Faults
    /\ self # NoRun
    /\ stage \in EarlyStages \cup {"publish", "final", "links"}

Stop ==
    /\ CheckFails \/ CallFails
    /\ Abort(Temp)
    /\ UNCHANGED command

\* The command's variables mean nothing once it is gone.
Forget ==
    /\ cmd' = NoCommand
    /\ input' = NoSnapshot
    /\ key' = NoSnapshot
    /\ seen' = {}
    /\ seenKey' = {}
    /\ digest' = Partial

End == Leave /\ Forget
Death == (Kill \/ PowerLoss) /\ Forget

Step ==
    \/ OpenInput \/ ChooseTarget \/ OpenKey \/ LoadKey \/ CreateTemp
    \/ ReadInput \/ ReadKey \/ EndStream \/ Verify
    \/ RecheckInput \/ RecheckKey \/ Publish \/ Stop \/ End

Environment ==
    \/ Damage
    \/ Death
    \/ /\ Interrupt \/ User
          \/ (\E n \in Names : WriteBack(n))
          \/ (\E r \in Runs : Refuse(r))
       /\ UNCHANGED command

Next ==
    \/ \E r \in Runs, c \in Commands : Start(r, c)
    \/ Step
    \/ Environment

(***************************************************************************)
(* A command that has begun keeps running; everything else may stop.       *)
(***************************************************************************)
Spec == Init /\ [][Next]_vars /\ WF_vars(Step)

-----------------------------------------------------------------------------
\* The step that puts the output under its final name.
Publishes == stage = "rename" /\ stage' = "confirm"

(***************************************************************************)
(* What is published is exactly the transformation of the content the      *)
(* input had when it was opened under the key as it was when it was        *)
(* opened, although both were read in chunks while the user worked in the  *)
(* folder (app.rs:128-133, files.rs:234-247).                              *)
(***************************************************************************)
PublishedExact ==
    [][Publishes => data[Temp] = Xform(cmd.op, key.text, input.text)
                    /\ data[Temp] \in Texts]_vars

(***************************************************************************)
(* The rename loses nothing: a new name was free; in place, unless the     *)
(* user acted after the last check, what is replaced is the very file that *)
(* was opened, still with the content that was transformed, and no other   *)
(* name kept the old content alive (files.rs:189-197).                     *)
(***************************************************************************)
NothingOverwritten ==
    [][Publishes =>
         IF cmd.replace
         THEN ~late => /\ entry[cmd.out] = input.ino
                       /\ data[input.ino] = input.text
                       /\ OneLink(input.ino)
         ELSE entry[cmd.out] = NoFile]_vars

(***************************************************************************)
(* No command ever replaces or writes to a key, metadata or any other file *)
(* that is not its own temporary file or, in place, the named input:       *)
(* without the user, a directory entry of a running folder changes only by *)
(* the rename onto the command's own target, and no published or user file *)
(* changes content (README "Sources and keys are read only").              *)
(***************************************************************************)
OnlyTheTarget ==
    [][edits' = edits /\ crashes' = crashes =>
         /\ \A n \in Names : entry'[n] # entry[n] =>
               Publishes /\ n = cmd.out /\ n \notin Protected
         /\ \A n \in Names : entry[n] # NoFile => data'[entry[n]] = data[entry[n]]]_vars

(***************************************************************************)
(* A command is one atomic replacement of one name: whatever fails, dies   *)
(* or is cancelled, every name holds the old content or the new one, now   *)
(* and after a power loss, and success means written and, on Linux, safe   *)
(* (Root::publish; README "complete old file to the complete new file").   *)
(***************************************************************************)
Atomic == INSTANCE AtomicFolder WITH
    Nothing <- Unborn, MaxOutputs <- 1, Durable <- ~Windows,
    shown <- Shown, safe <- Safe, holder <- self, wrote <- Wrote
ImplementsAtomicFolder == Atomic!Spec

(***************************************************************************)
(* The exit code 130 is the code of a cancelled command (README, "Exit     *)
(* codes"), and a command is "cancelled before publication" (check_cancel, *)
(* stream.rs:14-20): what it exits with 130 has not replaced anything.     *)
(***************************************************************************)
CancelledPublishesNothing ==
    \A t \in Temps : result[t[1]] = "cancelled" =>
        report[t] \notin {"unverified", "occurred", "published"}

(***************************************************************************)
(* Every command ends, whatever fails, is interrupted or is changed under  *)
(* it: no check, no retry and no lock waits for anything.                  *)
(***************************************************************************)
EveryRunEnds == \A r \in Runs : self = r ~> self # r

(***************************************************************************)
(* The folder as the command needs it: its input, target and key as they   *)
(* should be.  Ready is a command that finds it so at its start.           *)
(***************************************************************************)
InOrder ==
    /\ InputOK
    /\ IF cmd.replace THEN OneLink(entry[cmd.in])
       ELSE cmd.out \notin Protected /\ entry[cmd.out] = NoFile
    /\ KeyFile # NoFile
    /\ KeyFits(cmd.op, data[KeyFile], data[entry[cmd.in]])
    /\ Xform(cmd.op, data[KeyFile], data[entry[cmd.in]]) # Reject

Ready == At("input") /\ InOrder

(***************************************************************************)
(* The checks do not get in their own way: left alone, a ready command     *)
(* succeeds (app.rs:97-175).  By PublishedExact its target then holds the  *)
(* transformed input.                                                      *)
(***************************************************************************)
ReadySucceeds == \A r \in Runs : Ready /\ self = r ~> result[r] = "success"

-----------------------------------------------------------------------------
(***************************************************************************)
(* The inductive invariant behind WholeFiles, PublishedExact and           *)
(* NothingOverwritten (proved in TransformProofs).  The stages before the  *)
(* rename, from the one where a fact starts to hold:                       *)
(***************************************************************************)
VerifiedStages == {"recheck", "keycheck", "publish", "final", "links", "rename"}
WrittenStages == {"verify"} \cup VerifiedStages
TempStages == {"stream"} \cup WrittenStages
KeyStages == {"load", "temp"} \cup TempStages
InputStages == {"target", "key"} \cup KeyStages

\* A command runs exactly when the folder is locked.
Running ==
    /\ self = NoRun <=> stage = "idle"
    /\ self # NoRun => cmd \in Commands

\* What a name denotes, now or after a power loss, is whole and on the disk.
Whole(i) == i # NoFile => data[i] \in Texts /\ (i \in Temps => i \in flushed)
NamesWhole == \A n \in Names : Whole(entry[n]) /\ Whole(disk[n])

\* The temporary file of a running command has no other name or role yet.
TempApart ==
    stage \in TempStages =>
        /\ \A n \in Names : entry[n] # Temp /\ disk[n] # Temp
        /\ input.ino # Temp /\ key.ino # Temp

(***************************************************************************)
(* An open file whose metadata is still that of the snapshot has had the   *)
(* content of the snapshot all the time, so every read S saw that content. *)
(***************************************************************************)
Frozen(s, S) ==
    /\ s \in Snapshots
    /\ s.text \in Texts
    /\ data[s.ino] \in Texts
    /\ S \subseteq Texts
    /\ stamp[s.ino] >= s.stamp
    /\ stamp[s.ino] = s.stamp => data[s.ino] = s.text /\ S \subseteq {s.text}

InputFrozen == stage \in InputStages => Frozen(input, seen)
KeyFrozen == stage \in KeyStages => Frozen(key, seenKey)

NothingRead ==
    /\ stage \in {"idle", "input"} => seen = {}
    /\ stage \in {"idle", "input", "target", "key"} => seenKey = {}

\* The digest is that of what was written, and after the read-back the data is.
DigestIsOutput ==
    /\ stage \in WrittenStages =>
          digest = Output /\ digest # Reject /\ seen # {} /\ seenKey # {}
    /\ stage \in VerifiedStages => data[Temp] = digest /\ Temp \in flushed

\* The re-checks leave one content each for the reads.
Rechecked ==
    /\ stage \in {"keycheck", "publish", "final", "links", "rename"} =>
          seen = {input.text}
    /\ stage \in {"publish", "final", "links", "rename"} => seenKey = {key.text}

\* The last checks of an in-place command, as long as the user keeps out.
LastChecks ==
    stage \in {"links", "rename"} /\ cmd.replace /\ ~late =>
        /\ entry[cmd.out] = input.ino
        /\ data[input.ino] = input.text
        /\ stage = "rename" => OneLink(input.ino)

\* Neither the input nor the target chosen is a key or metadata.
TargetAllowed ==
    /\ stage \in InputStages => cmd.in \notin Protected
    /\ stage \in {"key"} \cup KeyStages => cmd.out \notin Protected

IInv ==
    /\ TypeOK /\ Running /\ NamesWhole /\ TempApart
    /\ InputFrozen /\ KeyFrozen /\ NothingRead
    /\ DigestIsOutput /\ Rechecked /\ LastChecks

-----------------------------------------------------------------------------
(***************************************************************************)
(* Why ReadySucceeds and EveryRunEnds hold, as far as single steps go.     *)
(* Unhindered: no check of the command that is still to come can fail, as  *)
(* long as nobody disturbs it and no call fails.                           *)
(***************************************************************************)
Unhindered ==
    /\ self # NoRun /\ ~cancelled
    /\ stage \in EarlyStages \cup PublishStages \cup {"done"}
    /\ stage \in {"input"} \cup InputStages => InOrder
    /\ stage \in InputStages => Unchanged(cmd.in, input)
    /\ stage \in KeyStages => Unchanged(KeyName[cmd.op], key)
    /\ stage = "verify" => VerifyOK
    /\ stage = "confirm" => entry[cmd.out] = Temp

\* The steps from each stage to the end, and the reads that are possible now.
StepsLeft ==
    [input |-> 18, target |-> 17, key |-> 16, load |-> 15, temp |-> 14,
     stream |-> 11, verify |-> 10, recheck |-> 9, keycheck |-> 8,
     publish |-> 7, final |-> 6, links |-> 5, rename |-> 4, confirm |-> 3,
     sync |-> 2, done |-> 1, leaving |-> 1, idle |-> 0]
Unread(s, S) == IF stage = "stream" /\ data[s.ino] \notin S THEN 1 ELSE 0
Rank == StepsLeft[stage] + Unread(input, seen) + Unread(key, seenKey)
=============================================================================
