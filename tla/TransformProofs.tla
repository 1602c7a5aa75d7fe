---------------------------- MODULE TransformProofs ----------------------------
(***************************************************************************)
(* The inductive invariant IInv of module Transform, and what follows from *)
(* it for every folder, every set of commands, every transformation and    *)
(* any number of invocations, user actions and crashes.                    *)
(***************************************************************************)
EXTENDS Transform, TLAPS

\* The initial folder satisfies the invariant.
LEMMA InitEstablishesInv == Init => IInv
<1> SUFFICES ASSUME Init PROVE IInv
  OBVIOUS
<1> USE RunsAssumption, InodesAssumption, TextsAssumption
<1>1. PICK g \in Given :
        /\ entry = [n \in Names |-> IF g[n] = Unborn THEN NoFile ELSE n]
        /\ data = [i \in Inodes |-> IF i \in Names THEN g[i] ELSE Unborn]
  BY DEF Init, FolderInit
<1>2. /\ Names \subseteq Inodes
      /\ \A n \in Names : g[n] \in Texts \cup {Unborn}
  BY DEF Inodes
<1>3. TypeOK
  <2>1. entry \in [Names -> Inodes \cup {NoFile}]
    BY <1>1, <1>2
  <2>2. data \in [Inodes -> Contents]
    BY <1>1, <1>2 DEF Contents
  <2>3. /\ stamp \in [Inodes -> Nat]
        /\ report \in [Temps -> Reports]
        /\ result \in [Runs -> Results]
    BY DEF Init, FolderInit, Reports, Results
  <2> QED
    BY <2>1, <2>2, <2>3 DEF Init, FolderInit, TypeOK, FolderTypeOK, Contents, Stages
<1>4. NamesWhole
  <2>1. \A n \in Names : entry[n] # NoFile => entry[n] = n /\ data[n] \in Texts
    BY <1>1, <1>2
  <2> QED
    BY <2>1 DEF Init, FolderInit, NamesWhole, Whole
<1>5. /\ Running /\ TempApart /\ InputFrozen /\ KeyFrozen
      /\ NothingRead /\ DigestIsOutput /\ Rechecked /\ LastChecks
  BY DEF Init, FolderInit, Running, TempApart, InputFrozen, KeyFrozen,
         NothingRead, DigestIsOutput, Rechecked, LastChecks,
         VerifiedStages, WrittenStages, TempStages, KeyStages, InputStages
<1> QED
  BY <1>3, <1>4, <1>5 DEF IInv

-----------------------------------------------------------------------------
(* Frames: what of the invariant a kind of step leaves to prove *)

\* Once a command is past its rename, or without one, only the names matter.
LEMMA PastRename ==
    ASSUME TypeOK', NamesWhole', Running',
           stage' \notin {"input"} \cup InputStages,
           stage' = "idle" => seen' = {} /\ seenKey' = {}
    PROVE  IInv'
BY DEF IInv, TempApart, InputFrozen, KeyFrozen, NothingRead, DigestIsOutput,
       Rechecked, LastChecks, VerifiedStages, WrittenStages, TempStages,
       KeyStages, InputStages

(***************************************************************************)
(* A step of the command that leaves its own variables and the content of  *)
(* the files alone keeps what is known of its input, its key and its       *)
(* output, as long as it claims nothing new.                               *)
(***************************************************************************)
LEMMA QuietStep ==
    ASSUME IInv, TypeOK', NamesWhole',
           entry' = entry, disk' = disk, data' = data, stamp' = stamp,
           flushed \subseteq flushed',
           self' = self, self # NoRun, command' = command,
           stage' \notin {"idle", "input"},
           stage' \in InputStages => stage \in InputStages,
           stage' \in KeyStages => stage \in KeyStages,
           stage' \in TempStages => stage \in TempStages,
           stage' \in {"target", "key"} => stage \in {"target", "key"},
           DigestIsOutput', Rechecked', LastChecks'
    PROVE  IInv'
<1>1. Running'
  BY DEF IInv, Running, command
<1>2. TempApart'
  BY DEF IInv, TempApart, Temp, command
<1>3. InputFrozen' /\ KeyFrozen'
  BY DEF IInv, InputFrozen, KeyFrozen, Frozen, command
<1>4. NothingRead'
  BY DEF IInv, NothingRead, command
<1> QED
  BY <1>1, <1>2, <1>3, <1>4 DEF IInv

\* Nor can a step disturb the checks made if it claims no new one.
LEMMA ChecksKept ==
    ASSUME IInv,
           entry' = entry, data' = data, flushed \subseteq flushed',
           self' = self, command' = command, late' = late,
           stage' \in WrittenStages => stage \in WrittenStages,
           stage' \in VerifiedStages => stage \in VerifiedStages,
           stage' \in VerifiedStages \ {"recheck"} => stage \in VerifiedStages \ {"recheck"},
           stage' \in VerifiedStages \ {"recheck", "keycheck"} =>
               stage \in VerifiedStages \ {"recheck", "keycheck"},
           stage' \in {"links", "rename"} => stage' = stage
    PROVE  DigestIsOutput' /\ Rechecked' /\ LastChecks'
<1>1. DigestIsOutput'
  BY DEF IInv, DigestIsOutput, Output, Temp, command
<1>2. Rechecked'
  BY DEF IInv, Rechecked, VerifiedStages, command
<1>3. LastChecks'
  BY DEF IInv, LastChecks, OneLink, command
<1> QED
  BY <1>1, <1>2, <1>3

\* The names stay whole when neither directory nor contents change.
LEMMA NamesKept ==
    ASSUME NamesWhole, entry' = entry, disk' = disk, data' = data,
           flushed \subseteq flushed'
    PROVE  NamesWhole'
BY DEF NamesWhole, Whole

-----------------------------------------------------------------------------
(* The actions of the command, up to the read-back *)

\* A command that begins has read nothing.
LEMMA StartKeeps ==
    ASSUME IInv, NEW r \in Runs, NEW c \in Commands, Start(r, c)
    PROVE  IInv'
<1>1. /\ self = NoRun /\ stage = "idle" /\ self' = r /\ self' # NoRun
      /\ stage' = "input" /\ cmd' = c /\ seen' = {} /\ seenKey' = {}
      /\ entry' = entry /\ disk' = disk /\ data' = data /\ flushed' = flushed
  BY RunsAssumption
     DEF IInv, Running, NothingRead, Start, Enter, directory, files
<1>2. TypeOK'
  BY <1>1 DEF IInv, TypeOK, FolderTypeOK, Stages, EarlyStages, Start, Enter,
              directory, files, verdicts, world
<1>3. NamesWhole'
  BY <1>1, NamesKept DEF IInv
<1>4. /\ Running' /\ TempApart' /\ InputFrozen' /\ KeyFrozen'
      /\ NothingRead' /\ DigestIsOutput' /\ Rechecked' /\ LastChecks'
  BY <1>1 DEF Running, TempApart, InputFrozen, KeyFrozen, NothingRead,
              DigestIsOutput, Rechecked, LastChecks, VerifiedStages,
              WrittenStages, TempStages, KeyStages, InputStages
<1> QED
  BY <1>2, <1>3, <1>4 DEF IInv

\* The file a name denotes is whole, and so is the snapshot of it.
LEMMA SnapshotOfName ==
    ASSUME IInv, NEW n \in Names, entry[n] # NoFile
    PROVE  /\ entry[n] \in Inodes
           /\ Snapshot(entry[n]) \in Snapshots
           /\ Snapshot(entry[n]).text \in Texts
           /\ Snapshot(entry[n]).ino = entry[n]
           /\ Snapshot(entry[n]).stamp = stamp[entry[n]]
           /\ Snapshot(entry[n]).text = data[entry[n]]
<1>1. entry[n] \in Inodes
  BY DEF IInv, TypeOK, FolderTypeOK
<1>2. data[entry[n]] \in Texts /\ stamp[entry[n]] \in Nat
  BY <1>1 DEF IInv, NamesWhole, Whole, TypeOK, FolderTypeOK
<1> QED
  BY <1>1, <1>2 DEF Snapshot, Snapshots, Contents

\* A step of the command in terms of its variables.
LEMMA PassesFrame ==
    ASSUME NEW next, Passes(next)
    PROVE  /\ stage' = next
           /\ entry' = entry /\ disk' = disk /\ temps' = temps
           /\ data' = data /\ flushed' = flushed /\ stamp' = stamp
           /\ self' = self /\ cancelled' = cancelled
           /\ report' = report /\ result' = result
           /\ late' = late /\ edits' = edits /\ crashes' = crashes
BY DEF Passes, directory, files, verdicts, world

\* The input is opened as it is: nothing has been read from it.
LEMMA OpenInputKeeps == ASSUME IInv, OpenInput PROVE IInv'
<1>1. /\ stage = "input" /\ self # NoRun /\ entry[cmd.in] # NoFile
      /\ input' = Snapshot(entry[cmd.in])
      /\ held' = held \cup {entry[cmd.in]}
      /\ cmd' = cmd /\ key' = key /\ seen' = seen
      /\ seenKey' = seenKey /\ digest' = digest
      /\ Passes("target")
  BY DEF OpenInput, At, InputOK
<1>2. cmd \in Commands /\ cmd.in \in Names
  BY <1>1, CommandsAssumption DEF IInv, Running
<1>3. /\ entry[cmd.in] \in Inodes
      /\ input' \in Snapshots /\ input'.text \in Texts
      /\ input'.ino = entry[cmd.in]
      /\ input'.stamp = stamp[entry[cmd.in]]
      /\ input'.text = data[entry[cmd.in]]
  BY <1>1, <1>2, SnapshotOfName
<1>4. seen = {} /\ seenKey = {}
  BY <1>1 DEF IInv, NothingRead
<1>5. TypeOK'
  BY <1>1, <1>3, PassesFrame
     DEF IInv, TypeOK, FolderTypeOK, Stages, EarlyStages
<1>6. NamesWhole'
  BY <1>1, PassesFrame, NamesKept DEF IInv
<1>7. Frozen(input, seen)'
  BY <1>1, <1>3, <1>4, PassesFrame DEF IInv, TypeOK, FolderTypeOK, Frozen
<1>8. stage' = "target" /\ self' = self
  BY <1>1, PassesFrame
<1>9. /\ Running' /\ TempApart' /\ InputFrozen' /\ KeyFrozen'
      /\ NothingRead' /\ DigestIsOutput' /\ Rechecked' /\ LastChecks'
  BY <1>1, <1>2, <1>4, <1>7, <1>8
     DEF Running, TempApart, InputFrozen, KeyFrozen, NothingRead,
         DigestIsOutput, Rechecked, LastChecks, VerifiedStages,
         WrittenStages, TempStages, KeyStages
<1> QED
  BY <1>5, <1>6, <1>9 DEF IInv

\* Choosing the target changes nothing but the stage.
LEMMA ChooseTargetKeeps == ASSUME IInv, ChooseTarget PROVE IInv'
<1>1. /\ stage = "target" /\ self # NoRun /\ Passes("key")
      /\ held' = held /\ command' = command
  BY DEF ChooseTarget, At
<1>2. TypeOK'
  BY <1>1, PassesFrame
     DEF IInv, TypeOK, FolderTypeOK, Stages, EarlyStages, command
<1>3. NamesWhole'
  BY <1>1, PassesFrame, NamesKept DEF IInv
<1>4. DigestIsOutput' /\ Rechecked' /\ LastChecks'
  BY <1>1, PassesFrame
     DEF DigestIsOutput, Rechecked, LastChecks, WrittenStages, VerifiedStages
<1> QED
  BY <1>1, <1>2, <1>3, <1>4, PassesFrame, QuietStep
     DEF InputStages, KeyStages, TempStages, WrittenStages, VerifiedStages

\* The key is opened as it is: nothing has been read from it.
LEMMA OpenKeyKeeps == ASSUME IInv, OpenKey PROVE IInv'
<1> DEFINE next == IF cmd.op = "xor" THEN "temp" ELSE "load"
<1>1. /\ stage = "key" /\ self # NoRun /\ KeyFile # NoFile
      /\ key' = Snapshot(KeyFile)
      /\ held' = held \cup {KeyFile}
      /\ cmd' = cmd /\ input' = input /\ seen' = seen
      /\ seenKey' = seenKey /\ digest' = digest
      /\ Passes(next)
  BY DEF OpenKey, At, KeyOK
<1>2. cmd \in Commands /\ KeyName[cmd.op] \in Names
  BY <1>1, CommandsAssumption, KeyAssumption DEF IInv, Running
<1>3. /\ KeyFile \in Inodes
      /\ key' \in Snapshots /\ key'.text \in Texts
      /\ key'.ino = KeyFile
      /\ key'.stamp = stamp[KeyFile]
      /\ key'.text = data[KeyFile]
  BY <1>1, <1>2, SnapshotOfName DEF KeyFile
<1>4. seenKey = {}
  BY <1>1 DEF IInv, NothingRead
<1>5. TypeOK'
  BY <1>1, <1>3, PassesFrame
     DEF IInv, TypeOK, FolderTypeOK, Stages, EarlyStages
<1>6. NamesWhole'
  BY <1>1, PassesFrame, NamesKept DEF IInv
<1>7. Frozen(key, seenKey)'
  BY <1>1, <1>3, <1>4, PassesFrame DEF IInv, TypeOK, FolderTypeOK, Frozen
<1>8. Frozen(input, seen)'
  BY <1>1, PassesFrame DEF IInv, InputFrozen, InputStages, Frozen
<1>9. stage' \in {"temp", "load"} /\ self' = self
  BY <1>1, PassesFrame
<1>10. /\ Running' /\ TempApart' /\ InputFrozen' /\ KeyFrozen'
       /\ NothingRead' /\ DigestIsOutput' /\ Rechecked' /\ LastChecks'
  BY <1>1, <1>2, <1>7, <1>8, <1>9
     DEF Running, TempApart, InputFrozen, KeyFrozen, NothingRead,
         DigestIsOutput, Rechecked, LastChecks, VerifiedStages,
         WrittenStages, TempStages
<1> QED
  BY <1>5, <1>6, <1>10 DEF IInv

\* The key is read from the open file, whatever it holds by then.
LEMMA LoadKeyKeeps == ASSUME IInv, LoadKey PROVE IInv'
<1>1. /\ stage = "load" /\ self # NoRun /\ Passes("temp") /\ held' = held
      /\ seenKey' = {data[key.ino]}
      /\ cmd' = cmd /\ input' = input /\ key' = key
      /\ seen' = seen /\ digest' = digest
  BY DEF LoadKey, At
<1>2. Frozen(key, seenKey) /\ Frozen(input, seen)
  BY <1>1 DEF IInv, KeyFrozen, InputFrozen, InputStages, KeyStages
<1>3. TypeOK'
  BY <1>1, <1>2, PassesFrame
     DEF IInv, TypeOK, FolderTypeOK, Stages, EarlyStages, Frozen, Contents
<1>4. NamesWhole'
  BY <1>1, PassesFrame, NamesKept DEF IInv
<1>5. Frozen(key, seenKey)' /\ Frozen(input, seen)'
  BY <1>1, <1>2, PassesFrame DEF Frozen
<1>6. stage' = "temp" /\ self' = self
  BY <1>1, PassesFrame
<1>7. /\ Running' /\ TempApart' /\ InputFrozen' /\ KeyFrozen'
      /\ NothingRead' /\ DigestIsOutput' /\ Rechecked' /\ LastChecks'
  BY <1>1, <1>5, <1>6
     DEF IInv, Running, TempApart, InputFrozen, KeyFrozen, NothingRead,
         DigestIsOutput, Rechecked, LastChecks, VerifiedStages,
         WrittenStages, TempStages
<1> QED
  BY <1>3, <1>4, <1>7 DEF IInv

\* The new temporary file is not one a name, the input or the key denotes.
LEMMA CreateTempKeeps == ASSUME IInv, CreateTemp PROVE IInv'
<1>1. /\ stage = "temp" /\ self # NoRun /\ stage' = "stream" /\ self' = self
      /\ data[Temp] = Unborn /\ data' = [data EXCEPT ![Temp] = Partial]
      /\ temps' = temps \cup {Temp} /\ held' = held \cup {Temp}
      /\ entry' = entry /\ disk' = disk /\ flushed' = flushed
      /\ stamp' = stamp /\ cancelled' = cancelled
      /\ report' = report /\ result' = result
      /\ late' = late /\ edits' = edits /\ crashes' = crashes
      /\ cmd' = cmd /\ input' = input /\ key' = key
      /\ seen' = seen /\ seenKey' = seenKey /\ digest' = digest
  BY DEF CreateTemp, MakeTemp, At, verdicts, world, command
<1>2. Temp \in Temps /\ Temp \in Inodes /\ Temp' = Temp
  BY <1>1 DEF IInv, TypeOK, FolderTypeOK, Temps, Temp, Inodes
<1>3. Frozen(key, seenKey) /\ Frozen(input, seen)
  BY <1>1 DEF IInv, KeyFrozen, InputFrozen, InputStages, KeyStages
<1>4. /\ \A n \in Names : entry[n] # Temp /\ disk[n] # Temp
      /\ input.ino # Temp /\ key.ino # Temp
  <2>1. NoFile # Temp
    BY <1>2, InodesAssumption
  <2> QED
    BY <1>1, <1>3, <2>1, TextsAssumption
       DEF IInv, NamesWhole, Whole, Frozen
<1>5. TypeOK'
  BY <1>1, <1>2
     DEF IInv, TypeOK, FolderTypeOK, Stages, EarlyStages, Contents
<1>6. NamesWhole'
  <2>1. \A i \in Inodes \cup {NoFile} : i # Temp => data'[i] = data[i]
    BY <1>1 DEF IInv, TypeOK, FolderTypeOK
  <2> QED
    BY <1>1, <1>4 DEF IInv, TypeOK, FolderTypeOK, NamesWhole, Whole
<1>7. Frozen(key, seenKey)' /\ Frozen(input, seen)'
  BY <1>1, <1>3, <1>4 DEF IInv, TypeOK, FolderTypeOK, Frozen
<1>8. TempApart'
  BY <1>1, <1>2, <1>4 DEF TempApart
<1>9. /\ Running' /\ InputFrozen' /\ KeyFrozen' /\ NothingRead'
      /\ DigestIsOutput' /\ Rechecked' /\ LastChecks'
  BY <1>1, <1>7
     DEF IInv, Running, InputFrozen, KeyFrozen, NothingRead, DigestIsOutput,
         Rechecked, LastChecks, VerifiedStages, WrittenStages
<1> QED
  BY <1>5, <1>6, <1>8, <1>9 DEF IInv

\* The folder does not change.
LEMMA FolderFrame ==
    ASSUME UNCHANGED folder
    PROVE  /\ stage' = stage /\ self' = self
           /\ cancelled' = cancelled /\ held' = held
           /\ entry' = entry /\ disk' = disk /\ temps' = temps
           /\ data' = data /\ flushed' = flushed /\ stamp' = stamp
           /\ report' = report /\ result' = result
           /\ late' = late /\ edits' = edits /\ crashes' = crashes
BY DEF folder, directory, files, process, verdicts, world

\* A read of the input or of the key sees the content of the moment.
LEMMA ReadKeeps ==
    ASSUME IInv, stage = "stream", UNCHANGED folder,
           cmd' = cmd, input' = input, key' = key, digest' = digest,
           seen' \subseteq seen \cup {data[input.ino]},
           seenKey' \subseteq seenKey \cup {data[key.ino]}
    PROVE  IInv'
<1>1. Frozen(key, seenKey) /\ Frozen(input, seen)
  BY DEF IInv, KeyFrozen, InputFrozen, InputStages, KeyStages, TempStages
<1>2. TypeOK'
  BY <1>1, FolderFrame DEF IInv, TypeOK, FolderTypeOK, Frozen, Contents
<1>3. NamesWhole'
  BY FolderFrame, NamesKept DEF IInv
<1>4. Frozen(key, seenKey)' /\ Frozen(input, seen)'
  BY <1>1, FolderFrame DEF Frozen
<1>5. Running' /\ TempApart'
  BY FolderFrame DEF IInv, Running, TempApart, Temp
<1>6. /\ InputFrozen' /\ KeyFrozen' /\ NothingRead'
      /\ DigestIsOutput' /\ Rechecked' /\ LastChecks'
  BY <1>4, FolderFrame
     DEF InputFrozen, KeyFrozen, NothingRead, DigestIsOutput, Rechecked,
         LastChecks, VerifiedStages, WrittenStages
<1> QED
  BY <1>2, <1>3, <1>5, <1>6 DEF IInv

\* One content of the input and of the key make a whole text, or none.
LEMMA OutputType ==
    ASSUME IInv, stage \in {"stream"} \cup WrittenStages
    PROVE  /\ Output \in Contents \cup {Reject}
           /\ Output # Torn /\ Output # Reject => Output \in Texts
<1>1. cmd.op \in Ops
  BY CommandsAssumption DEF IInv, Running, TypeOK, WrittenStages, VerifiedStages
<1>2. seen \subseteq Texts /\ seenKey \subseteq Texts
  BY DEF IInv, InputFrozen, KeyFrozen, Frozen, InputStages, KeyStages, TempStages
<1> QED
  BY <1>1, <1>2, XformAssumption DEF Output, Contents

-----------------------------------------------------------------------------
(* The actions of the command, from the end of the stream to the rename *)

(***************************************************************************)
(* Only the running command's own temporary file changes: no name, no      *)
(* snapshot and no other file does.                                        *)
(***************************************************************************)
LEMMA TempChanges ==
    ASSUME IInv, stage \in TempStages, NEW text \in Contents,
           data' = [data EXCEPT ![Temp] = text],
           entry' = entry, disk' = disk, flushed' = flushed, stamp' = stamp,
           self' = self, cmd' = cmd, input' = input, key' = key,
           seen' = seen, seenKey' = seenKey,
           stage' \in TempStages
    PROVE  /\ Temp \in Temps /\ Temp \in Inodes /\ Temp' = Temp
           /\ data' \in [Inodes -> Contents]
           /\ data'[Temp] = text
           /\ NamesWhole' /\ Running' /\ TempApart' /\ NothingRead'
           /\ InputFrozen' /\ KeyFrozen'
<1>1. Temp \in Temps /\ Temp \in Inodes /\ Temp' = Temp
  BY DEF IInv, Running, TypeOK, FolderTypeOK, Temps, Temp, Inodes,
         TempStages, WrittenStages, VerifiedStages
<1>2. /\ \A n \in Names : entry[n] # Temp /\ disk[n] # Temp
      /\ input.ino # Temp /\ key.ino # Temp
  BY DEF IInv, TempApart
<1>3. data' \in [Inodes -> Contents] /\ data'[Temp] = text
  BY <1>1 DEF IInv, TypeOK, FolderTypeOK
<1>4. \A i \in Inodes \cup {NoFile} : i # Temp => data'[i] = data[i]
  BY <1>1 DEF IInv, TypeOK, FolderTypeOK
<1>5. NamesWhole'
  BY <1>1, <1>2, <1>4 DEF IInv, TypeOK, FolderTypeOK, NamesWhole, Whole
<1>6. Running' /\ TempApart' /\ NothingRead'
  BY <1>1, <1>2
     DEF IInv, Running, TempApart, NothingRead,
         TempStages, WrittenStages, VerifiedStages
<1>7. Frozen(key, seenKey) /\ Frozen(input, seen)
  BY DEF IInv, KeyFrozen, InputFrozen, InputStages, KeyStages
<1>8. Frozen(key, seenKey)' /\ Frozen(input, seen)'
  BY <1>2, <1>4, <1>7 DEF Frozen, Snapshots
<1> QED
  BY <1>1, <1>3, <1>5, <1>6, <1>8 DEF InputFrozen, KeyFrozen

\* What is written is the output, which decryption did not reject.
LEMMA EndStreamKeeps == ASSUME IInv, EndStream PROVE IInv'
<1>1. /\ stage = "stream" /\ self # NoRun /\ seen # {} /\ seenKey # {}
      /\ Output # Reject /\ digest' = Output
      /\ stage' = "verify" /\ data' = [data EXCEPT ![Temp] = Output]
      /\ entry' = entry /\ disk' = disk /\ temps' = temps
      /\ flushed' = flushed /\ stamp' = stamp /\ self' = self
      /\ cancelled' = cancelled /\ held' = held
      /\ report' = report /\ result' = result
      /\ late' = late /\ edits' = edits /\ crashes' = crashes
      /\ cmd' = cmd /\ input' = input /\ key' = key
      /\ seen' = seen /\ seenKey' = seenKey
  BY DEF EndStream, StreamOK, Write, At, directory, verdicts, world
<1>2. Output \in Contents /\ Output' = Output
  BY <1>1, OutputType DEF Output
<1>3. /\ data' \in [Inodes -> Contents]
      /\ NamesWhole' /\ Running' /\ TempApart' /\ NothingRead'
      /\ InputFrozen' /\ KeyFrozen'
  BY <1>1, <1>2, TempChanges DEF TempStages, WrittenStages
<1>4. TypeOK'
  BY <1>1, <1>2, <1>3
     DEF IInv, TypeOK, FolderTypeOK, Stages, EarlyStages
<1>5. DigestIsOutput' /\ Rechecked' /\ LastChecks'
  BY <1>1, <1>2 DEF DigestIsOutput, Rechecked, LastChecks, VerifiedStages
<1> QED
  BY <1>3, <1>4, <1>5 DEF IInv

\* Storage that does not return what was written: the read-back is to come.
LEMMA DamageKeeps == ASSUME IInv, Damage PROVE IInv'
<1>1. /\ stage = "verify" /\ self # NoRun /\ stage' = stage
      /\ data' = [data EXCEPT ![Temp] = Torn]
      /\ entry' = entry /\ disk' = disk /\ temps' = temps
      /\ flushed' = flushed /\ stamp' = stamp /\ self' = self
      /\ cancelled' = cancelled /\ held' = held
      /\ report' = report /\ result' = result
      /\ late' = late /\ edits' = edits /\ crashes' = crashes
      /\ cmd' = cmd /\ input' = input /\ key' = key
      /\ seen' = seen /\ seenKey' = seenKey /\ digest' = digest
  BY DEF Damage, Corrupt, At, directory, process, verdicts, world, command
<1>2. Torn \in Contents /\ Output' = Output
  BY <1>1 DEF Contents, Output
<1>3. /\ data' \in [Inodes -> Contents]
      /\ NamesWhole' /\ Running' /\ TempApart' /\ NothingRead'
      /\ InputFrozen' /\ KeyFrozen'
  BY <1>1, <1>2, TempChanges DEF TempStages, WrittenStages
<1>4. TypeOK'
  BY <1>1, <1>3 DEF IInv, TypeOK, FolderTypeOK
<1>5. DigestIsOutput' /\ Rechecked' /\ LastChecks'
  BY <1>1, <1>2
     DEF IInv, DigestIsOutput, Rechecked, LastChecks, WrittenStages, VerifiedStages
<1> QED
  BY <1>3, <1>4, <1>5 DEF IInv

\* The read-back has found the output in the file, and it is on the disk.
LEMMA VerifyKeeps == ASSUME IInv, Verify PROVE IInv'
<1>1. /\ stage = "verify" /\ self # NoRun /\ stage' = "recheck"
      /\ data[Temp] = digest /\ flushed' = flushed \cup {Temp}
      /\ entry' = entry /\ disk' = disk /\ temps' = temps
      /\ data' = data /\ stamp' = stamp /\ self' = self
      /\ cancelled' = cancelled /\ held' = held
      /\ report' = report /\ result' = result
      /\ late' = late /\ edits' = edits /\ crashes' = crashes
      /\ command' = command
  BY DEF Verify, ReadBack, At, directory, verdicts, world
<1>2. Temp \in Temps /\ Temp' = Temp /\ Output' = Output
  BY <1>1 DEF IInv, TypeOK, FolderTypeOK, Temps, Temp, Output, command
<1>3. TypeOK'
  BY <1>1, <1>2
     DEF IInv, TypeOK, FolderTypeOK, Stages, EarlyStages, command
<1>4. NamesWhole'
  BY <1>1, NamesKept DEF IInv
<1>5. DigestIsOutput' /\ Rechecked' /\ LastChecks'
  BY <1>1, <1>2
     DEF IInv, DigestIsOutput, Rechecked, LastChecks, WrittenStages,
         VerifiedStages, command
<1> QED
  BY <1>1, <1>3, <1>4, <1>5, QuietStep
     DEF InputStages, KeyStages, TempStages, WrittenStages, VerifiedStages

\* Metadata still as in the snapshot: every read saw the snapshot's content.
LEMMA UnchangedReads ==
    ASSUME NEW n, NEW s, NEW S, Frozen(s, S), S # {}, Unchanged(n, s)
    PROVE  data[s.ino] = s.text /\ S = {s.text}
BY DEF Frozen, Unchanged

\* The re-check of the input leaves one content for all its reads.
LEMMA RecheckInputKeeps == ASSUME IInv, RecheckInput PROVE IInv'
<1>1. /\ stage = "recheck" /\ self # NoRun /\ Passes("keycheck")
      /\ held' = held /\ command' = command /\ Unchanged(cmd.in, input)
  BY DEF RecheckInput, At
<1>2. seen = {input.text}
  <2>1. Frozen(input, seen) /\ seen # {}
    BY <1>1
       DEF IInv, InputFrozen, DigestIsOutput, InputStages, KeyStages,
           TempStages, WrittenStages, VerifiedStages
  <2> QED
    BY <1>1, <2>1, UnchangedReads
<1>3. TypeOK'
  BY <1>1, PassesFrame
     DEF IInv, TypeOK, FolderTypeOK, Stages, EarlyStages, command
<1>4. NamesWhole'
  BY <1>1, PassesFrame, NamesKept DEF IInv
<1>5. DigestIsOutput' /\ Rechecked' /\ LastChecks'
  BY <1>1, <1>2, PassesFrame
     DEF IInv, DigestIsOutput, Rechecked, LastChecks, Output, Temp,
         WrittenStages, VerifiedStages, command
<1> QED
  BY <1>1, <1>3, <1>4, <1>5, PassesFrame, QuietStep
     DEF InputStages, KeyStages, TempStages, WrittenStages, VerifiedStages

\* And so does the re-check of the key.
LEMMA RecheckKeyKeeps == ASSUME IInv, RecheckKey PROVE IInv'
<1>1. /\ stage = "keycheck" /\ self # NoRun /\ Passes("publish")
      /\ held' = held /\ command' = command
      /\ Unchanged(KeyName[cmd.op], key)
  BY DEF RecheckKey, At
<1>2. seenKey = {key.text}
  <2>1. Frozen(key, seenKey) /\ seenKey # {}
    BY <1>1
       DEF IInv, KeyFrozen, DigestIsOutput, KeyStages, TempStages,
           WrittenStages, VerifiedStages
  <2> QED
    BY <1>1, <2>1, UnchangedReads
<1>3. TypeOK'
  BY <1>1, PassesFrame
     DEF IInv, TypeOK, FolderTypeOK, Stages, PublishStages, command
<1>4. NamesWhole'
  BY <1>1, PassesFrame, NamesKept DEF IInv
<1>5. DigestIsOutput' /\ Rechecked' /\ LastChecks'
  BY <1>1, <1>2, PassesFrame
     DEF IInv, DigestIsOutput, Rechecked, LastChecks, Output, Temp,
         WrittenStages, VerifiedStages, command
<1> QED
  BY <1>1, <1>3, <1>4, <1>5, PassesFrame, QuietStep
     DEF InputStages, KeyStages, TempStages, WrittenStages, VerifiedStages

-----------------------------------------------------------------------------
(* Publication *)

\* The second synchronization of the temporary file.
LEMMA SyncTempKeeps ==
    ASSUME IInv, SyncTemp(Temp), UNCHANGED command
    PROVE  IInv'
<1>1. /\ stage = "publish" /\ self # NoRun /\ stage' = "final"
      /\ flushed' = flushed \cup {Temp}
      /\ entry' = entry /\ disk' = disk /\ temps' = temps
      /\ data' = data /\ stamp' = stamp /\ self' = self
      /\ cancelled' = cancelled /\ held' = held
      /\ report' = report /\ result' = result
      /\ late' = late /\ edits' = edits /\ crashes' = crashes
      /\ command' = command
  BY DEF SyncTemp, At, directory, verdicts, world
<1>2. Temp \in Temps
  BY <1>1 DEF IInv, TypeOK, FolderTypeOK, Temps, Temp
<1>3. TypeOK'
  BY <1>1, <1>2
     DEF IInv, TypeOK, FolderTypeOK, Stages, PublishStages, command
<1>4. NamesWhole'
  BY <1>1, NamesKept DEF IInv
<1>5. DigestIsOutput' /\ Rechecked' /\ LastChecks'
  BY <1>1, ChecksKept DEF WrittenStages, VerifiedStages
<1> QED
  BY <1>1, <1>3, <1>4, <1>5, QuietStep
     DEF InputStages, KeyStages, TempStages, WrittenStages, VerifiedStages

(***************************************************************************)
(* The last look at the input: it still has the content that was           *)
(* transformed, and the name still denotes it.                             *)
(***************************************************************************)
LEMMA FinalUnchangedKeeps ==
    ASSUME IInv, FinalUnchanged(cmd.replace, cmd.out, input), UNCHANGED command
    PROVE  IInv'
<1>1. /\ stage = "final" /\ self # NoRun /\ stage' = "links"
      /\ cmd.replace => Unchanged(cmd.out, input)
      /\ entry' = entry /\ disk' = disk /\ temps' = temps
      /\ data' = data /\ flushed' = flushed /\ stamp' = stamp /\ self' = self
      /\ cancelled' = cancelled /\ held' = held
      /\ report' = report /\ result' = result
      /\ late' = late /\ edits' = edits /\ crashes' = crashes
      /\ command' = command
  BY DEF FinalUnchanged, At, directory, files, verdicts, world
<1>2. TypeOK'
  BY <1>1 DEF IInv, TypeOK, FolderTypeOK, Stages, PublishStages, command
<1>3. NamesWhole'
  BY <1>1, NamesKept DEF IInv
<1>4. DigestIsOutput' /\ Rechecked'
  BY <1>1
     DEF IInv, DigestIsOutput, Rechecked, Output, Temp, WrittenStages,
         VerifiedStages, command
<1>5. LastChecks'
  <2>1. Frozen(input, seen)
    BY <1>1 DEF IInv, InputFrozen, InputStages, KeyStages, TempStages,
                WrittenStages, VerifiedStages
  <2> QED
    BY <1>1, <2>1 DEF LastChecks, Frozen, Unchanged, command
<1> QED
  BY <1>1, <1>2, <1>3, <1>4, <1>5, QuietStep
     DEF InputStages, KeyStages, TempStages, WrittenStages, VerifiedStages

\* The last count of the links.
LEMMA FinalLinksKeeps ==
    ASSUME IInv, FinalLinks(cmd.replace, input), UNCHANGED command
    PROVE  IInv'
<1>1. /\ stage = "links" /\ self # NoRun /\ stage' = "rename"
      /\ cmd.replace => OneLink(input.ino)
      /\ entry' = entry /\ disk' = disk /\ temps' = temps
      /\ data' = data /\ flushed' = flushed /\ stamp' = stamp /\ self' = self
      /\ cancelled' = cancelled /\ held' = held
      /\ report' = report /\ result' = result
      /\ late' = late /\ edits' = edits /\ crashes' = crashes
      /\ command' = command
  BY DEF FinalLinks, At, directory, files, verdicts, world
<1>2. TypeOK'
  BY <1>1 DEF IInv, TypeOK, FolderTypeOK, Stages, PublishStages, command
<1>3. NamesWhole'
  BY <1>1, NamesKept DEF IInv
<1>4. DigestIsOutput' /\ Rechecked'
  BY <1>1
     DEF IInv, DigestIsOutput, Rechecked, Output, Temp, WrittenStages,
         VerifiedStages, command
<1>5. LastChecks'
  BY <1>1 DEF IInv, LastChecks, OneLink, command
<1> QED
  BY <1>1, <1>2, <1>3, <1>4, <1>5, QuietStep
     DEF InputStages, KeyStages, TempStages, WrittenStages, VerifiedStages

(***************************************************************************)
(* What a command holds in its temporary file when it comes to the rename: *)
(* the transformed input, whole and on the disk.                           *)
(***************************************************************************)
LEMMA ReadyToRename ==
    ASSUME IInv, At("rename")
    PROVE  /\ Temp \in Temps /\ Temp \in Inodes /\ cmd \in Commands
           /\ data[Temp] = Xform(cmd.op, key.text, input.text)
           /\ data[Temp] \in Texts /\ Temp \in flushed
<1>1. Temp \in Temps /\ Temp \in Inodes /\ cmd \in Commands
  BY DEF IInv, At, Running, TypeOK, FolderTypeOK, Temps, Temp, Inodes
<1>2. /\ seen = {input.text} /\ seenKey = {key.text}
      /\ data[Temp] = Output /\ Output # Reject /\ Temp \in flushed
  BY DEF IInv, At, Rechecked, DigestIsOutput, WrittenStages, VerifiedStages
<1>3. Output = Xform(cmd.op, key.text, input.text)
  BY <1>2 DEF Output
<1>4. input.text \in Texts /\ key.text \in Texts
  BY DEF IInv, At, InputFrozen, KeyFrozen, Frozen, InputStages, KeyStages,
         TempStages, WrittenStages, VerifiedStages
<1> QED
  BY <1>1, <1>2, <1>3, <1>4, CommandsAssumption, XformAssumption

\* The rename puts a whole file, which is on the disk, under the target.
LEMMA RenameKeeps ==
    ASSUME IInv, Rename(Temp, cmd.out, cmd.replace), UNCHANGED command
    PROVE  IInv'
<1>1. /\ stage = "rename" /\ self # NoRun /\ stage' = "confirm"
      /\ entry' = [entry EXCEPT ![cmd.out] = Temp]
      /\ disk' = disk /\ temps' = temps \ {Temp}
      /\ data' = data /\ flushed' = flushed /\ stamp' = stamp /\ self' = self
      /\ cancelled' = cancelled /\ held' = held
      /\ report' = report /\ result' = result
      /\ late' = late /\ edits' = edits /\ crashes' = crashes
      /\ command' = command
  BY DEF Rename, At, directory, files, verdicts, world
<1>2. /\ Temp \in Temps /\ Temp \in Inodes /\ cmd.out \in Names
      /\ data[Temp] \in Texts /\ Temp \in flushed
  BY <1>1, ReadyToRename, CommandsAssumption DEF At
<1>3. TypeOK'
  BY <1>1, <1>2
     DEF IInv, TypeOK, FolderTypeOK, Stages, PublishStages, command
<1>4. NamesWhole'
  BY <1>1, <1>2 DEF IInv, TypeOK, FolderTypeOK, NamesWhole, Whole
<1>5. Running'
  BY <1>1 DEF IInv, Running, command
<1> QED
  BY <1>1, <1>3, <1>4, <1>5, PastRename
     DEF InputStages, KeyStages, TempStages, WrittenStages, VerifiedStages

(***************************************************************************)
(* Once the command has given up or is past its rename, nothing it does    *)
(* touches a file or a name.                                               *)
(***************************************************************************)
LEMMA AfterwardsKeeps ==
    ASSUME IInv, self # NoRun, self' = self, cmd' = cmd,
           entry' = entry, data' = data, flushed \subseteq flushed',
           disk' = disk \/ disk' = entry,
           stage' \in {"sync", "leaving", "done"}, TypeOK'
    PROVE  IInv'
<1>1. NamesWhole'
  BY DEF IInv, NamesWhole, Whole
<1>2. Running'
  BY DEF IInv, Running
<1> QED
  BY <1>1, <1>2, PastRename
     DEF InputStages, KeyStages, TempStages, WrittenStages, VerifiedStages

\* Giving up: what the folder's variables become.
LEMMA GiveUpFrame ==
    ASSUME NEW kept, NEW temp, NEW rep \in Reports, TypeOK, self # NoRun,
           GiveUp(kept), EndAs(temp, rep), UNCHANGED command
    PROVE  /\ TypeOK' /\ self' = self /\ cmd' = cmd /\ entry' = entry
           /\ data' = data /\ flushed' = flushed /\ disk' = disk
           /\ stage' = "leaving"
<1>1. /\ stage' = "leaving" /\ temps' = temps \ (Own(self) \ kept)
      /\ entry' = entry /\ disk' = disk /\ data' = data
      /\ flushed' = flushed /\ stamp' = stamp /\ self' = self
      /\ cancelled' = cancelled /\ held' = held /\ result' = result
      /\ late' = late /\ edits' = edits /\ crashes' = crashes
      /\ command' = command
  BY DEF GiveUp, files, world
<1>2. report' \in [Temps -> Reports]
  BY DEF EndAs, TypeOK, FolderTypeOK, Reports
<1> QED
  BY <1>1, <1>2 DEF TypeOK, FolderTypeOK, Stages, command

\* Every error return keeps the invariant.
LEMMA GiveUpKeeps ==
    ASSUME IInv, NEW kept, NEW temp, NEW rep \in Reports, self # NoRun,
           GiveUp(kept), EndAs(temp, rep), UNCHANGED command
    PROVE  IInv'
BY GiveUpFrame, AfterwardsKeeps DEF IInv

\* The target is the temporary file that was renamed.
LEMMA ConfirmKeeps ==
    ASSUME IInv, Confirm(Temp, cmd.out), UNCHANGED command
    PROVE  IInv'
<1>1. /\ self # NoRun /\ stage' = "sync"
      /\ entry' = entry /\ disk' = disk /\ temps' = temps
      /\ data' = data /\ flushed' = flushed /\ stamp' = stamp /\ self' = self
      /\ cancelled' = cancelled /\ held' = held
      /\ report' = report /\ result' = result
      /\ late' = late /\ edits' = edits /\ crashes' = crashes
      /\ command' = command
  BY DEF Confirm, At, directory, files, verdicts, world
<1>2. TypeOK'
  BY <1>1 DEF IInv, TypeOK, FolderTypeOK, Stages, PublishStages, command
<1> QED
  BY <1>1, <1>2, AfterwardsKeeps DEF command

\* The file and, on Linux, the directory have reached the disk.
LEMMA SyncPublicationKeeps ==
    ASSUME IInv, SyncPublication(Temp, "done"), UNCHANGED command
    PROVE  IInv'
<1>1. /\ self # NoRun /\ stage' = "done" /\ flushed' = flushed \cup {Temp}
      /\ disk' = IF Windows THEN disk ELSE entry
      /\ report' = [report EXCEPT ![Temp] = "published"]
      /\ held' = held \ {Temp}
      /\ entry' = entry /\ temps' = temps /\ data' = data
      /\ stamp' = stamp /\ self' = self /\ cancelled' = cancelled
      /\ result' = result
      /\ late' = late /\ edits' = edits /\ crashes' = crashes
      /\ command' = command
  BY DEF SyncPublication, At, world
<1>2. Temp \in Temps
  BY <1>1 DEF IInv, TypeOK, FolderTypeOK, Temps, Temp
<1>3. disk' = disk \/ disk' = entry
  BY <1>1
<1>4. TypeOK'
  BY <1>1, <1>2, <1>3
     DEF IInv, TypeOK, FolderTypeOK, Stages, PublishStages, Reports, command
<1> QED
  BY <1>1, <1>3, <1>4, AfterwardsKeeps DEF command

\* Every call of Root::publish keeps the invariant.
LEMMA PublishKeeps == ASSUME IInv, Publish PROVE IInv'
<1> USE DEF Publish, Reports
<1>1. CASE SyncTemp(Temp)
  BY <1>1, SyncTempKeeps
<1>2. CASE FinalUnchanged(cmd.replace, cmd.out, input)
  BY <1>2, FinalUnchangedKeeps
<1>3. CASE FinalLinks(cmd.replace, input)
  BY <1>3, FinalLinksKeeps
<1>4. CASE Rename(Temp, cmd.out, cmd.replace)
  BY <1>4, RenameKeeps
<1>5. CASE RenameFails(Temp, cmd.out, cmd.replace)
  BY <1>5, GiveUpKeeps DEF RenameFails, At
<1>6. CASE Confirm(Temp, cmd.out)
  BY <1>6, ConfirmKeeps
<1>7. CASE ConfirmFails(Temp, cmd.out)
  BY <1>7, GiveUpKeeps DEF ConfirmFails, At
<1>8. CASE SyncPublication(Temp, "done")
  BY <1>8, SyncPublicationKeeps
<1>9. CASE SyncPublicationFails(Temp)
  BY <1>9, GiveUpKeeps DEF SyncPublicationFails, At
<1> QED
  BY <1>1, <1>2, <1>3, <1>4, <1>5, <1>6, <1>7, <1>8, <1>9

\* So does every error before the rename.
LEMMA StopKeeps == ASSUME IInv, Stop PROVE IInv'
BY GiveUpKeeps DEF Stop, Abort, Reports

-----------------------------------------------------------------------------
(* The end of a command and the world around it *)

\* With the command gone, only the directory and the files are left.
LEMMA GoneKeeps ==
    ASSUME IInv, Forget, self' = NoRun, stage' = "idle", TypeOK', NamesWhole'
    PROVE  IInv'
<1>1. Running' /\ seen' = {} /\ seenKey' = {}
  BY DEF Running, Forget
<1> QED
  BY <1>1, PastRename
     DEF InputStages, KeyStages, TempStages, WrittenStages, VerifiedStages

\* What a process leaves behind that exits or is killed.
LEMMA GoneFrame ==
    ASSUME TypeOK, NEW code \in Results, Gone(code), Forget,
           UNCHANGED <<directory, files, report, edits>>, crashes' \in Nat
    PROVE  /\ TypeOK' /\ self' = NoRun /\ stage' = "idle"
           /\ entry' = entry /\ disk' = disk /\ data' = data
           /\ flushed' = flushed
<1>1. /\ entry' = entry /\ disk' = disk /\ temps' = temps
      /\ data' = data /\ flushed' = flushed /\ stamp' = stamp
      /\ self' = NoRun /\ stage' = "idle"
      /\ cancelled' = FALSE /\ held' = {} /\ late' = FALSE
      /\ report' = report /\ result' = [result EXCEPT ![self] = code]
      /\ edits' = edits
  BY DEF Gone, directory, files
<1>2. result' \in [Runs -> Results]
  BY <1>1 DEF TypeOK, FolderTypeOK
<1>3. /\ cmd' = NoCommand /\ input' = NoSnapshot /\ key' = NoSnapshot
      /\ seen' = {} /\ seenKey' = {} /\ digest' = Partial
  BY DEF Forget
<1> QED
  BY <1>1, <1>2, <1>3 DEF TypeOK, FolderTypeOK, Stages, Contents

\* The exit of a command.
LEMMA EndKeeps == ASSUME IInv, End PROVE IInv'
<1>1. /\ Gone(ExitCode) /\ Forget
      /\ UNCHANGED <<directory, files, report, edits>> /\ crashes' = crashes
  BY DEF End, Leave
<1>2. ExitCode \in Results
  BY DEF ExitCode, Results
<1>3. /\ TypeOK' /\ self' = NoRun /\ stage' = "idle"
      /\ entry' = entry /\ disk' = disk /\ data' = data /\ flushed' = flushed
  BY <1>1, <1>2, GoneFrame DEF IInv, TypeOK, FolderTypeOK
<1> QED
  BY <1>1, <1>3, NamesKept, GoneKeeps DEF IInv

\* A kill leaves the folder as it is.
LEMMA KillKeeps == ASSUME IInv, Kill, Forget PROVE IInv'
<1>1. /\ Gone("killed") /\ UNCHANGED <<directory, files, report, edits>>
      /\ crashes' \in Nat
  BY DEF Kill, IInv, TypeOK, FolderTypeOK
<1>2. /\ TypeOK' /\ self' = NoRun /\ stage' = "idle"
      /\ entry' = entry /\ disk' = disk /\ data' = data /\ flushed' = flushed
  BY <1>1, GoneFrame DEF IInv, Results
<1> QED
  BY <1>2, NamesKept, GoneKeeps DEF IInv

(***************************************************************************)
(* After a power loss the names are those on the disk, and those denote    *)
(* files whose content was on the disk too.                                *)
(***************************************************************************)
LEMMA PowerLossKeeps == ASSUME IInv, PowerLoss, Forget PROVE IInv'
<1>1. /\ entry' = disk /\ disk' = disk
      /\ data' = [i \in Inodes |->
                    IF i \in Temps \ flushed /\ data[i] # Unborn
                    THEN Torn ELSE data[i]]
      /\ result' = [r \in Runs |-> IF r = self THEN "killed" ELSE result[r]]
      /\ self' = NoRun /\ stage' = "idle" /\ cancelled' = FALSE /\ held' = {}
      /\ late' = FALSE /\ crashes' = crashes + 1
      /\ flushed' = flushed /\ stamp' = stamp /\ report' = report
      /\ edits' = edits
  BY DEF PowerLoss
<1>2. temps' \in SUBSET Temps
  BY DEF PowerLoss
<1>3. /\ cmd' = NoCommand /\ input' = NoSnapshot /\ key' = NoSnapshot
      /\ seen' = {} /\ seenKey' = {} /\ digest' = Partial
  BY DEF Forget
<1>4. TypeOK'
  <2>1. data' \in [Inodes -> Contents]
    BY <1>1 DEF IInv, TypeOK, FolderTypeOK, Contents
  <2>2. result' \in [Runs -> Results]
    BY <1>1 DEF IInv, TypeOK, FolderTypeOK, Results
  <2>3. /\ disk \in [Names -> Inodes \cup {NoFile}]
        /\ flushed \in SUBSET Temps /\ stamp \in [Inodes -> Nat]
        /\ report \in [Temps -> Reports] /\ edits \in Nat
        /\ crashes + 1 \in Nat
    BY DEF IInv, TypeOK, FolderTypeOK
  <2>4. FolderTypeOK(Stages)'
    BY <1>1, <1>2, <2>1, <2>2, <2>3 DEF FolderTypeOK, Stages
  <2> QED
    BY <1>3, <2>4 DEF TypeOK, Contents
<1>5. NamesWhole'
  BY <1>1 DEF IInv, NamesWhole, Whole, TypeOK, FolderTypeOK
<1> QED
  BY <1>1, <1>4, <1>5, GoneKeeps

\* Ctrl-C, a written-back directory entry or a refused invocation.
LEMMA AsideKeeps ==
    ASSUME IInv, TypeOK', UNCHANGED command,
           stage' = stage, self' = self, entry' = entry, data' = data,
           flushed' = flushed, stamp' = stamp, late' = late,
           \A n \in Names : disk'[n] \in {disk[n], entry[n]}
    PROVE  IInv'
<1>1. /\ cmd' = cmd /\ input' = input /\ key' = key
      /\ seen' = seen /\ seenKey' = seenKey /\ digest' = digest
  BY DEF command
<1>2. NamesWhole'
  BY DEF IInv, NamesWhole, Whole
<1>3. Running' /\ TempApart' /\ NothingRead'
  BY <1>1 DEF IInv, Running, TempApart, NothingRead, Temp
<1>4. InputFrozen' /\ KeyFrozen'
  BY <1>1 DEF IInv, InputFrozen, KeyFrozen, Frozen
<1>5. DigestIsOutput' /\ Rechecked' /\ LastChecks'
  BY <1>1
     DEF IInv, DigestIsOutput, Rechecked, LastChecks, Output, Temp, OneLink
<1> QED
  BY <1>2, <1>3, <1>4, <1>5 DEF IInv

LEMMA InterruptKeeps ==
    ASSUME IInv, Interrupt, UNCHANGED command
    PROVE  IInv'
<1>1. /\ cancelled' = TRUE /\ stage' = stage /\ self' = self /\ held' = held
      /\ entry' = entry /\ disk' = disk /\ temps' = temps
      /\ data' = data /\ flushed' = flushed /\ stamp' = stamp
      /\ report' = report /\ result' = result
      /\ late' = late /\ edits' = edits /\ crashes' = crashes
  BY DEF Interrupt, directory, files, verdicts, world
<1>2. TypeOK'
  BY <1>1 DEF IInv, TypeOK, FolderTypeOK, command
<1> QED
  BY <1>1, <1>2, AsideKeeps

LEMMA WriteBackKeeps ==
    ASSUME IInv, NEW n \in Names, WriteBack(n), UNCHANGED command
    PROVE  IInv'
<1>1. /\ cancelled' = cancelled /\ stage' = stage /\ self' = self
      /\ held' = held
      /\ entry' = entry /\ temps' = temps
      /\ disk' = [disk EXCEPT ![n] = entry[n]]
      /\ data' = data /\ flushed' = flushed /\ stamp' = stamp
      /\ report' = report /\ result' = result
      /\ late' = late /\ edits' = edits /\ crashes' = crashes
  BY DEF WriteBack, files, process, verdicts, world
<1>2. /\ disk' \in [Names -> Inodes \cup {NoFile}]
      /\ \A m \in Names : disk'[m] \in {disk[m], entry[m]}
  BY <1>1 DEF IInv, TypeOK, FolderTypeOK
<1>3. TypeOK'
  BY <1>1, <1>2 DEF IInv, TypeOK, FolderTypeOK, command
<1> QED
  BY <1>1, <1>2, <1>3, AsideKeeps

LEMMA RefuseKeeps ==
    ASSUME IInv, NEW r \in Runs, Refuse(r), UNCHANGED command
    PROVE  IInv'
<1>1. /\ cancelled' = cancelled /\ stage' = stage /\ self' = self
      /\ held' = held
      /\ entry' = entry /\ disk' = disk /\ temps' = temps
      /\ data' = data /\ flushed' = flushed /\ stamp' = stamp
      /\ report' = report /\ result' = [result EXCEPT ![r] = "error"]
      /\ late' = late /\ edits' = edits /\ crashes' = crashes
  BY DEF Refuse, directory, files, process, world
<1>2. TypeOK'
  BY <1>1 DEF IInv, TypeOK, FolderTypeOK, Results, command
<1> QED
  BY <1>1, <1>2, AsideKeeps

(***************************************************************************)
(* The user may change what a file holds, but never without its metadata,  *)
(* never the temporary file of the command, and never into anything but a  *)
(* whole text.                                                             *)
(***************************************************************************)
LEMMA UserFrame ==
    ASSUME IInv, UserActs, UNCHANGED command,
           entry' \in [Names -> Inodes \cup {NoFile}],
           disk' \in [Names -> Inodes \cup {NoFile}],
           data' \in [Inodes -> Contents],
           stamp' \in [Inodes -> Nat],
           \A i \in Inodes :
               /\ stamp'[i] >= stamp[i]
               /\ data'[i] # data[i] =>
                     data'[i] \in Texts /\ (data[i] = Unborn \/ stamp'[i] > stamp[i]),
           stage \in TempStages => data'[Temp] = data[Temp],
           \A n \in Names : /\ entry'[n] # entry[n] => Whole(entry[n])'
                            /\ disk'[n] # disk[n] => Whole(disk[n])',
           stage \in TempStages =>
               \A n \in Names : entry'[n] # Temp /\ disk'[n] # Temp
    PROVE  IInv'
<1>1. /\ stage' = stage /\ self' = self /\ cancelled' = cancelled
      /\ held' = held /\ temps' = temps /\ flushed' = flushed
      /\ report' = report /\ result' = result /\ crashes' = crashes
      /\ edits' = edits + 1
      /\ late' = (late \/ stage \in {"links", "rename"})
  BY DEF UserActs, process, verdicts
<1>2. /\ cmd' = cmd /\ input' = input /\ key' = key
      /\ seen' = seen /\ seenKey' = seenKey /\ digest' = digest
  BY DEF command
<1>3. TypeOK'
  BY <1>1, <1>2 DEF IInv, TypeOK, FolderTypeOK
<1>4. NamesWhole'
  <2>1. ASSUME NEW i \in Inodes \cup {NoFile}, Whole(i) PROVE Whole(i)'
    BY <1>1, <2>1 DEF Whole
  <2> QED
    BY <2>1 DEF IInv, NamesWhole, TypeOK, FolderTypeOK
<1>5. Running' /\ NothingRead'
  BY <1>1, <1>2 DEF IInv, Running, NothingRead
<1>6. TempApart'
  BY <1>1, <1>2 DEF IInv, TempApart, Temp
<1>7. ASSUME NEW s, NEW S, Frozen(s, S)
      PROVE  /\ data'[s.ino] \in Texts
             /\ stamp'[s.ino] >= s.stamp
             /\ stamp'[s.ino] = s.stamp => data'[s.ino] = s.text /\ S \subseteq {s.text}
  <2>1. s.ino \in Inodes /\ s.stamp \in Nat /\ stamp[s.ino] >= s.stamp
    BY <1>7 DEF Frozen, Snapshots
  <2>2. data[s.ino] \in Texts /\ data[s.ino] # Unborn
    BY <1>7, TextsAssumption DEF Frozen
  <2>3. stamp[s.ino] \in Nat /\ stamp'[s.ino] \in Nat
    BY <2>1 DEF IInv, TypeOK, FolderTypeOK
  <2>4. stamp'[s.ino] = s.stamp => stamp[s.ino] = s.stamp /\ data'[s.ino] = data[s.ino]
    BY <2>1, <2>2, <2>3
  <2> QED
    BY <1>7, <2>1, <2>2, <2>3, <2>4 DEF Frozen
<1>8. InputFrozen' /\ KeyFrozen'
  BY <1>1, <1>2, <1>7 DEF IInv, InputFrozen, KeyFrozen, Frozen
<1>9. DigestIsOutput' /\ Rechecked'
  BY <1>1, <1>2
     DEF IInv, DigestIsOutput, Rechecked, Output, Temp, TempStages,
         WrittenStages, VerifiedStages
<1>10. LastChecks'
  BY <1>1 DEF LastChecks
<1> QED
  BY <1>3, <1>4, <1>5, <1>6, <1>8, <1>9, <1>10 DEF IInv

\* The temporary file of the running command is not under any name.
LEMMA TempHidden ==
    ASSUME IInv, stage \in TempStages
    PROVE  /\ Temp \in Temps
           /\ \A n \in Names : entry[n] # Temp /\ disk[n] # Temp
           /\ \A i \in Spare : i # Temp
BY InodesAssumption
   DEF IInv, TempApart, Running, TypeOK, FolderTypeOK, Temp, Temps,
       TempStages, WrittenStages, VerifiedStages

\* The metadata after a file has gained or lost a name.
LEMMA TouchFrame ==
    ASSUME IInv, NEW i \in Inodes \cup {NoFile}, Touch(i)
    PROVE  /\ stamp' \in [Inodes -> Nat]
           /\ \A j \in Inodes : stamp'[j] >= stamp[j]
BY DEF IInv, TypeOK, FolderTypeOK, Touch

\* The directory after a name has come to denote i.
LEMMA DenoteFrame ==
    ASSUME IInv, NEW n \in Names, NEW i \in Inodes \cup {NoFile}, Denote(n, i)
    PROVE  /\ entry' \in [Names -> Inodes \cup {NoFile}]
           /\ disk' \in [Names -> Inodes \cup {NoFile}]
           /\ \A m \in Names : /\ entry'[m] \in {entry[m], i}
                               /\ disk'[m] \in {disk[m], i}
BY DEF IInv, TypeOK, FolderTypeOK, Denote

\* Writing into a file moves its metadata on.
LEMMA UserEditKeeps ==
    ASSUME IInv, NEW n \in Names, NEW t \in UserTexts, UserEdit(n, t),
           UNCHANGED command
    PROVE  IInv'
<1>1. /\ entry[n] # NoFile /\ UserActs
      /\ data' = [data EXCEPT ![entry[n]] = t]
      /\ stamp' = [stamp EXCEPT ![entry[n]] = stamp[entry[n]] + 1]
      /\ entry' = entry /\ disk' = disk
  BY DEF UserEdit
<1>2. t \in Texts /\ t \in Contents
  BY TextsAssumption DEF Contents
<1>3. entry[n] \in Inodes
  BY <1>1 DEF IInv, TypeOK, FolderTypeOK
<1>4. /\ entry' \in [Names -> Inodes \cup {NoFile}]
      /\ disk' \in [Names -> Inodes \cup {NoFile}]
      /\ data' \in [Inodes -> Contents]
      /\ stamp' \in [Inodes -> Nat]
      /\ \A i \in Inodes :
            /\ stamp'[i] >= stamp[i]
            /\ data'[i] # data[i] => data'[i] \in Texts /\ stamp'[i] > stamp[i]
  BY <1>1, <1>2, <1>3 DEF IInv, TypeOK, FolderTypeOK
<1>5. stage \in TempStages => data'[Temp] = data[Temp]
  BY <1>1, <1>3, TempHidden DEF IInv, TypeOK, FolderTypeOK, Inodes
<1> QED
  BY <1>1, <1>4, <1>5, TempHidden, UserFrame

\* A new file of the user's is whole.
LEMMA UserPutKeeps ==
    ASSUME IInv, NEW n \in Names, NEW i \in Spare, NEW t \in UserTexts,
           UserPut(n, i, t), UNCHANGED command
    PROVE  IInv'
<1>1. /\ data[i] = Unborn /\ data' = [data EXCEPT ![i] = t]
      /\ Denote(n, i) /\ Touch(entry[n]) /\ UserActs
  BY DEF UserPut
<1>2. i \in Inodes /\ i \notin Temps /\ t \in Texts /\ t \in Contents
  BY InodesAssumption, TextsAssumption DEF Inodes, Contents
<1>3. entry[n] \in Inodes \cup {NoFile}
  BY DEF IInv, TypeOK, FolderTypeOK
<1>4. /\ data' \in [Inodes -> Contents]
      /\ \A j \in Inodes :
            data'[j] # data[j] => data'[j] \in Texts /\ data[j] = Unborn
  BY <1>1, <1>2 DEF IInv, TypeOK, FolderTypeOK
<1>5. Whole(i)'
  BY <1>1, <1>2 DEF IInv, TypeOK, FolderTypeOK, Whole
<1>6. stage \in TempStages => data'[Temp] = data[Temp]
  BY <1>1, <1>2, TempHidden DEF IInv, TypeOK, FolderTypeOK
<1>7. \A m \in Names : /\ entry'[m] \in {entry[m], i}
                       /\ disk'[m] \in {disk[m], i}
  BY <1>1, <1>2, DenoteFrame
<1>8. \A m \in Names : /\ entry'[m] # entry[m] => Whole(entry[m])'
                       /\ disk'[m] # disk[m] => Whole(disk[m])'
  BY <1>5, <1>7 DEF Whole
<1>9. stage \in TempStages =>
          \A m \in Names : entry'[m] # Temp /\ disk'[m] # Temp
  BY <1>7, TempHidden
<1> QED
  BY <1>1, <1>2, <1>3, <1>4, <1>6, <1>8, <1>9, DenoteFrame, TouchFrame, UserFrame

\* A name that is removed, or given to another name's file.
LEMMA UserNamesKeeps ==
    ASSUME IInv, NEW n \in Names, NEW i \in Inodes \cup {NoFile}, Whole(i),
           stage \in TempStages => i # Temp, NEW j \in Inodes \cup {NoFile},
           Denote(n, i), Touch(j), UserActs, data' = data, UNCHANGED command
    PROVE  IInv'
<1>1. flushed' = flushed
  BY DEF UserActs
<1>2. Whole(i)'
  BY <1>1 DEF Whole
<1>3. data' \in [Inodes -> Contents]
  BY DEF IInv, TypeOK, FolderTypeOK
<1>4. \A m \in Names : /\ entry'[m] \in {entry[m], i}
                       /\ disk'[m] \in {disk[m], i}
  BY DenoteFrame
<1>5. \A m \in Names : /\ entry'[m] # entry[m] => Whole(entry[m])'
                       /\ disk'[m] # disk[m] => Whole(disk[m])'
  BY <1>2, <1>4 DEF Whole
<1>6. stage \in TempStages =>
          \A m \in Names : entry'[m] # Temp /\ disk'[m] # Temp
  BY <1>4, TempHidden
<1> QED
  BY <1>3, <1>5, <1>6, DenoteFrame, TouchFrame, UserFrame

\* Whatever the user does in the folder keeps the invariant.
LEMMA UserKeeps == ASSUME IInv, User, UNCHANGED command PROVE IInv'
<1>1. ASSUME NEW n \in Names, NEW t \in UserTexts, UserEdit(n, t) PROVE IInv'
  BY <1>1, UserEditKeeps
<1>2. ASSUME NEW n \in Names, NEW i \in Spare, NEW t \in UserTexts,
             UserPut(n, i, t)
      PROVE  IInv'
  BY <1>2, UserPutKeeps
<1>3. ASSUME NEW n \in Names, UserRemove(n) PROVE IInv'
  <2>1. stage \in TempStages => NoFile # Temp
    BY TempHidden, InodesAssumption DEF Inodes
  <2>2. entry[n] \in Inodes \cup {NoFile} /\ Whole(NoFile)
    BY DEF IInv, TypeOK, FolderTypeOK, Whole
  <2> QED
    BY <1>3, <2>1, <2>2, UserNamesKeeps DEF UserRemove
<1>4. ASSUME NEW n \in Names, NEW m \in Names, UserLink(n, m) PROVE IInv'
  <2>1. entry[n] \in Inodes \cup {NoFile} /\ Whole(entry[n])
    BY DEF IInv, NamesWhole, TypeOK, FolderTypeOK
  <2>2. stage \in TempStages => entry[n] # Temp
    BY TempHidden
  <2> QED
    BY <1>4, <2>1, <2>2, UserNamesKeeps DEF UserLink
<1> QED
  BY <1>1, <1>2, <1>3, <1>4 DEF User

-----------------------------------------------------------------------------
(* The invariant and the theorems *)

\* Every step keeps the invariant.
LEMMA NextKeeps == IInv /\ [Next]_vars => IInv'
<1> SUFFICES ASSUME IInv, [Next]_vars PROVE IInv'
  OBVIOUS
<1>1. CASE UNCHANGED vars
  <2>1. UNCHANGED folder /\ UNCHANGED command
    BY <1>1 DEF vars
  <2>2. TypeOK'
    BY <2>1, FolderFrame DEF IInv, TypeOK, FolderTypeOK, command
  <2> QED
    BY <2>1, <2>2, FolderFrame, AsideKeeps
<1>2. ASSUME NEW r \in Runs, NEW c \in Commands, Start(r, c) PROVE IInv'
  BY <1>2, StartKeeps
<1>3. CASE Step
  <2>1. CASE ReadInput
    <3>1. /\ stage = "stream" /\ UNCHANGED folder
          /\ seen' = seen \cup {data[input.ino]} /\ seenKey' = seenKey
          /\ cmd' = cmd /\ input' = input /\ key' = key /\ digest' = digest
      BY <2>1 DEF ReadInput, At
    <3> QED
      BY <3>1, ReadKeeps
  <2>2. CASE ReadKey
    <3>1. /\ stage = "stream" /\ UNCHANGED folder
          /\ seen' = seen /\ seenKey' = seenKey \cup {data[key.ino]}
          /\ cmd' = cmd /\ input' = input /\ key' = key /\ digest' = digest
      BY <2>2 DEF ReadKey, At
    <3> QED
      BY <3>1, ReadKeeps
  <2> QED
    BY <1>3, <2>1, <2>2, OpenInputKeeps, ChooseTargetKeeps, OpenKeyKeeps,
       LoadKeyKeeps, CreateTempKeeps, EndStreamKeeps, VerifyKeeps,
       RecheckInputKeeps, RecheckKeyKeeps, PublishKeeps, StopKeeps, EndKeeps
       DEF Step
<1>4. CASE Environment
  BY <1>4, DamageKeeps, KillKeeps, PowerLossKeeps, InterruptKeeps, UserKeeps,
     WriteBackKeeps, RefuseKeeps
     DEF Environment, Death
<1> QED
  BY <1>1, <1>2, <1>3, <1>4 DEF Next

\* The invariant holds of every reachable state.
LEMMA InvHolds == Spec => []IInv
<1> QED
  BY InitEstablishesInv, NextKeeps, PTL DEF Spec

\* Every variable keeps its type.
THEOREM TypeCorrect == Spec => []TypeOK
<1>1. IInv => TypeOK
  BY DEF IInv
<1> QED
  BY <1>1, InvHolds, PTL

(***************************************************************************)
(* However many commands, users and crashes there are, no name ever        *)
(* denotes a half-written, mixed or damaged file (files.rs:179-216).       *)
(***************************************************************************)
THEOREM FilesAreWhole == Spec => []WholeFiles
<1>1. IInv => WholeFiles
  BY DEF IInv, NamesWhole, Whole, WholeFiles
<1> QED
  BY <1>1, InvHolds, PTL

\* The rename is the only step from "rename" to "confirm".
LEMMA PublishesIsRename ==
    ASSUME IInv, [Next]_vars, Publishes
    PROVE  Rename(Temp, cmd.out, cmd.replace)
<1>1. stage = "rename" /\ stage' = "confirm"
  BY DEF Publishes
<1>2. ~UNCHANGED vars
  BY <1>1, FolderFrame DEF vars
<1>3. \A r \in Runs, c \in Commands : ~Start(r, c)
  BY <1>1 DEF Start
<1>4. ~Environment
  BY <1>1
     DEF Environment, Damage, Corrupt, Death, Kill, PowerLoss, Gone, Interrupt,
         User, UserEdit, UserPut, UserRemove, UserLink, UserActs, WriteBack,
         Refuse, process
<1>5. Step
  BY <1>2, <1>3, <1>4 DEF Next
<1>6. /\ ~OpenInput /\ ~ChooseTarget /\ ~OpenKey /\ ~LoadKey /\ ~CreateTemp
      /\ ~ReadInput /\ ~ReadKey /\ ~EndStream /\ ~Verify
      /\ ~RecheckInput /\ ~RecheckKey /\ ~End
  BY <1>1
     DEF OpenInput, ChooseTarget, OpenKey, LoadKey, CreateTemp, ReadInput,
         ReadKey, EndStream, Verify, RecheckInput, RecheckKey, End, Leave, At
<1>7. ~Stop
  BY <1>1 DEF Stop, Abort, GiveUp
<1>8. Publish
  BY <1>5, <1>6, <1>7 DEF Step
<1> QED
  BY <1>1, <1>8
     DEF Publish, SyncTemp, FinalUnchanged, FinalLinks, RenameFails, Confirm,
         ConfirmFails, SyncPublication, SyncPublicationFails, GiveUp, At

(***************************************************************************)
(* What is published is the transformation of the content the input had    *)
(* when it was opened under the key as it was when it was opened: the      *)
(* re-checks make up for files that change while they are read             *)
(* (app.rs:128-133, files.rs:234-247).                                     *)
(***************************************************************************)
THEOREM PublicationExact == Spec => PublishedExact
<1>1. ASSUME IInv, [Next]_vars, Publishes
      PROVE  data[Temp] = Xform(cmd.op, key.text, input.text) /\ data[Temp] \in Texts
  <2>1. At("rename")
    BY <1>1, PublishesIsRename DEF Rename
  <2> QED
    BY <1>1, <2>1, ReadyToRename
<1> QED
  BY <1>1, InvHolds, PTL DEF Spec, PublishedExact

(***************************************************************************)
(* The rename loses nothing: a new name was free; in place, unless the     *)
(* user acted after the last check, what is replaced is the very file that *)
(* was opened, with the content that was transformed (files.rs:189-197).   *)
(***************************************************************************)
THEOREM NothingLost == Spec => NothingOverwritten
<1> DEFINE Lossless == IF cmd.replace
                   THEN ~late => /\ entry[cmd.out] = input.ino
                                 /\ data[input.ino] = input.text
                                 /\ OneLink(input.ino)
                   ELSE entry[cmd.out] = NoFile
<1>1. ASSUME IInv, [Next]_vars, Publishes PROVE Lossless
  <2>1. Rename(Temp, cmd.out, cmd.replace) /\ stage = "rename"
    BY <1>1, PublishesIsRename DEF Publishes
  <2>2. CASE cmd.replace
    BY <1>1, <2>1, <2>2 DEF IInv, LastChecks
  <2>3. CASE ~cmd.replace
    BY <2>1, <2>3 DEF Rename
  <2> QED
    BY <2>2, <2>3
<1> QED
  BY <1>1, InvHolds, PTL DEF Spec, NothingOverwritten

-----------------------------------------------------------------------------
(* Keys, metadata and everything else that is not the command's target *)

\* The names of files that a command refuses are not its input or target.
LEMMA TargetAllowedKept ==
    ASSUME IInv, TargetAllowed, [Next]_vars
    PROVE  TargetAllowed'
<1> USE DEF InputStages, KeyStages, TempStages, WrittenStages, VerifiedStages
<1>1. CASE UNCHANGED vars
  BY <1>1, FolderFrame DEF vars, command, TargetAllowed
<1>2. ASSUME NEW r \in Runs, NEW c \in Commands, Start(r, c)
      PROVE  TargetAllowed'
  BY <1>2 DEF Start, TargetAllowed
<1>3. CASE OpenInput
  BY <1>3 DEF OpenInput, InputOK, Passes, TargetAllowed
<1>4. CASE ChooseTarget
  <2>1. /\ stage = "target" /\ cmd \in Commands /\ cmd' = cmd
        /\ stage' = "key" /\ TargetOK
    BY <1>4 DEF ChooseTarget, Passes, At, command, IInv, Running
  <2> QED
    BY <2>1, CommandsAssumption DEF TargetOK, TargetAllowed
<1>5. CASE OpenKey \/ LoadKey \/ CreateTemp \/ EndStream \/ Verify
           \/ RecheckInput \/ RecheckKey
  <2>1. cmd' = cmd /\ stage \in {"key"} \cup KeyStages
    BY <1>5 DEF OpenKey, LoadKey, CreateTemp, EndStream, Verify, RecheckInput,
                RecheckKey, At, command
  <2> QED
    BY <2>1 DEF TargetAllowed
<1>6. CASE ReadInput \/ ReadKey
  BY <1>6, FolderFrame DEF ReadInput, ReadKey, TargetAllowed
<1>7. CASE Publish
  <2>1. cmd' = cmd /\ stage \in PublishStages
    BY <1>7
       DEF Publish, command, SyncTemp, FinalUnchanged, FinalLinks, Rename,
           RenameFails, Confirm, ConfirmFails, SyncPublication,
           SyncPublicationFails, At, PublishStages
  <2>2. stage' \in InputStages => stage \in {"publish", "final", "links"}
    BY <1>7, <2>1
       DEF Publish, SyncTemp, FinalUnchanged, FinalLinks, Rename,
           RenameFails, Confirm, ConfirmFails, SyncPublication,
           SyncPublicationFails, GiveUp, At
  <2> QED
    BY <2>1, <2>2 DEF TargetAllowed
<1>8. CASE Stop \/ End \/ Death
  <2>1. stage' \in {"leaving", "idle"}
    BY <1>8 DEF Stop, Abort, GiveUp, End, Leave, Death, Kill, PowerLoss, Gone
  <2> QED
    BY <2>1 DEF TargetAllowed
<1>9. CASE Environment /\ ~Death
  <2>1. stage' = stage /\ cmd' = cmd
    BY <1>9
       DEF Environment, Damage, Corrupt, Interrupt, User, UserEdit, UserPut,
           UserRemove, UserLink, UserActs, WriteBack, Refuse, process, command
  <2> QED
    BY <2>1 DEF TargetAllowed
<1> QED
  BY <1>1, <1>2, <1>3, <1>4, <1>5, <1>6, <1>7, <1>8, <1>9
     DEF Next, Step, Environment

\* Without the user and crashes, only the rename changes the directory.
LEMMA DirectoryByRename ==
    ASSUME IInv, [Next]_vars, edits' = edits, crashes' = crashes
    PROVE  entry' = entry \/ Rename(Temp, cmd.out, cmd.replace)
<1>1. ~Death /\ ~User
  BY DEF Death, Kill, PowerLoss, User, UserEdit, UserPut, UserRemove, UserLink,
         UserActs, IInv, TypeOK, FolderTypeOK
<1>2. CASE UNCHANGED vars
  BY <1>2, FolderFrame DEF vars
<1>3. CASE \E r \in Runs, c \in Commands : Start(r, c)
  BY <1>3 DEF Start, Enter, directory
<1>4. CASE Environment
  BY <1>1, <1>4 DEF Environment, Damage, Corrupt, Interrupt, WriteBack, Refuse, directory
<1>5. CASE Publish
  BY <1>5
     DEF Publish, SyncTemp, FinalUnchanged, FinalLinks, RenameFails, Confirm,
         ConfirmFails, SyncPublication, SyncPublicationFails, GiveUp, directory
<1>6. CASE ReadInput \/ ReadKey
  BY <1>6, FolderFrame DEF ReadInput, ReadKey
<1>7. CASE Step /\ ~Publish /\ ~ReadInput /\ ~ReadKey
  BY <1>7
     DEF Step, OpenInput, ChooseTarget, OpenKey, LoadKey, CreateTemp, MakeTemp,
         EndStream, Write, Verify, ReadBack, RecheckInput, RecheckKey, Passes,
         Stop, Abort, GiveUp, End, Leave, directory
<1> QED
  BY <1>2, <1>3, <1>4, <1>5, <1>6, <1>7 DEF Next

\* And no file that has a name changes its content.
LEMMA NamedFilesKept ==
    ASSUME IInv, [Next]_vars, edits' = edits, crashes' = crashes,
           NEW n \in Names, entry[n] # NoFile
    PROVE  data'[entry[n]] = data[entry[n]]
<1>1. ~Death /\ ~User
  BY DEF Death, Kill, PowerLoss, User, UserEdit, UserPut, UserRemove, UserLink,
         UserActs, IInv, TypeOK, FolderTypeOK
<1>2. entry[n] \in Inodes /\ data[entry[n]] \in Texts
  BY DEF IInv, NamesWhole, Whole, TypeOK, FolderTypeOK
<1>3. CASE UNCHANGED vars
  BY <1>3, FolderFrame DEF vars
<1>4. CASE \E r \in Runs, c \in Commands : Start(r, c)
  BY <1>4 DEF Start, Enter, files
<1>5. CASE CreateTemp
  BY <1>2, <1>5, TextsAssumption
     DEF CreateTemp, MakeTemp, IInv, TypeOK, FolderTypeOK
<1>6. CASE EndStream \/ Damage
  <2>1. stage \in TempStages
    BY <1>6 DEF EndStream, Damage, At, TempStages, WrittenStages
  <2>2. \E text : data' = [data EXCEPT ![Temp] = text]
    BY <1>6 DEF EndStream, Write, Damage, Corrupt
  <2> QED
    BY <1>2, <2>1, <2>2, TempHidden DEF IInv, TypeOK, FolderTypeOK
<1>7. CASE Environment /\ ~Damage
  BY <1>1, <1>7 DEF Environment, Interrupt, WriteBack, Refuse, files
<1>8. CASE Publish
  BY <1>8
     DEF Publish, SyncTemp, FinalUnchanged, FinalLinks, Rename, RenameFails,
         Confirm, ConfirmFails, SyncPublication, SyncPublicationFails, GiveUp,
         files
<1>9. CASE ReadInput \/ ReadKey
  BY <1>9, FolderFrame DEF ReadInput, ReadKey
<1>10. CASE /\ Step /\ ~Publish /\ ~ReadInput /\ ~ReadKey
            /\ ~CreateTemp /\ ~EndStream
  BY <1>10
     DEF Step, OpenInput, ChooseTarget, OpenKey, LoadKey, Verify, ReadBack,
         RecheckInput, RecheckKey, Passes, Stop, Abort, GiveUp, End, Leave, files
<1> QED
  BY <1>3, <1>4, <1>5, <1>6, <1>7, <1>8, <1>9, <1>10 DEF Next

(***************************************************************************)
(* No command ever replaces or writes to a key, metadata or any other file *)
(* than its own target (README "Sources and keys are read only").          *)
(***************************************************************************)
THEOREM TargetsOnly == Spec => OnlyTheTarget
<1>1. Init => TargetAllowed
  BY DEF Init, FolderInit, TargetAllowed, InputStages, KeyStages, TempStages,
         WrittenStages, VerifiedStages
<1>2. IInv /\ TargetAllowed /\ [Next]_vars => TargetAllowed'
  BY TargetAllowedKept
<1>3. ASSUME IInv, TargetAllowed, [Next]_vars, edits' = edits, crashes' = crashes
      PROVE  /\ \A n \in Names : entry'[n] # entry[n] =>
                    Publishes /\ n = cmd.out /\ n \notin Protected
             /\ \A n \in Names : entry[n] # NoFile => data'[entry[n]] = data[entry[n]]
  <2>1. ASSUME NEW n \in Names, entry'[n] # entry[n]
        PROVE  Publishes /\ n = cmd.out /\ n \notin Protected
    <3>1. Rename(Temp, cmd.out, cmd.replace)
      BY <1>3, <2>1, DirectoryByRename
    <3>2. Publishes /\ n = cmd.out
      BY <1>3, <2>1, <3>1 DEF Rename, At, Publishes, IInv, TypeOK, FolderTypeOK
    <3>3. cmd.out \notin Protected
      BY <1>3, <3>1
         DEF Rename, At, TargetAllowed, KeyStages, TempStages, WrittenStages,
             VerifiedStages
    <3> QED
      BY <3>2, <3>3
  <2> QED
    BY <1>3, <2>1, NamedFilesKept
<1> QED
  BY <1>1, <1>2, <1>3, InvHolds, PTL DEF Spec, OnlyTheTarget

-----------------------------------------------------------------------------
(***************************************************************************)
(* Transform implements AtomicFolder, and what its reports and exit codes  *)
(* say is true, for every value of the constants.  Both rest on Books:     *)
(* what is known of every temporary file, reported or not.                 *)
(***************************************************************************)

Unnamed(t) == \A n \in Names : entry[n] # t /\ disk[n] # t

BeforeTemp == {"input", "target", "key", "load", "temp"}
Unreported == EarlyStages \cup PublishStages

\* A command that has begun is not yet over; one that has not has no file.
RunsOnce ==
    /\ self # NoRun => result[self] = "waiting"
    /\ \A r \in Runs : result[r] = "waiting" /\ r # self =>
          data[<<r, 1>>] = Unborn /\ report[<<r, 1>>] = "none"

\* These commands have one temporary file each, from "stream" on.
OneTemp ==
    /\ \A r \in Runs : data[<<r, 2>>] = Unborn /\ report[<<r, 2>>] \in {"none", "stopped"}
    /\ stage \in BeforeTemp => data[Temp] = Unborn
    /\ stage \in TempStages => Temp \in temps
    /\ stage \in Unreported => report[Temp] = "none"

\* What success means, from the last synchronization on.
DoneSettled ==
    /\ stage = "done" => report[Temp] = "published" /\ (~Windows => entry = disk)
    /\ \A n \in Names, r \in Runs :
          entry[n] = <<r, 1>> /\ result[r] = "success" /\ ~Windows => disk[n] = <<r, 1>>

StoppedGone ==
    \A t \in Temps : report[t] = "stopped" => Unnamed(t) /\ (crashes = 0 => t \notin temps)

RetainedKept ==
    \A t \in Temps : report[t] = "retained" =>
        /\ Unnamed(t) /\ data[t] \in Texts /\ t \in flushed
        /\ crashes = 0 => t \in temps

\* A file that has been renamed, whether that was reported yet or not.
Out(t) == Written(t) = 1 \/ (t = Temp /\ stage \in {"confirm", "sync"})

OutLanded ==
    \A t \in Temps : Out(t) =>
        /\ data[t] \in Texts /\ t \in flushed
        /\ crashes = 0 => t \notin temps
        /\ t[1] = self /\ edits = 0 => entry[cmd.out] = t

Books ==
    /\ RunsOnce /\ OneTemp /\ DoneSettled
    /\ StoppedGone /\ RetainedKept /\ OutLanded

-----------------------------------------------------------------------------
(* Books is invariant *)

LEMMA InitBooks == Init => Books
<1> SUFFICES ASSUME Init PROVE Books
  OBVIOUS
<1> USE RunsAssumption, InodesAssumption
<1>1. PICK g \in Given :
        data = [i \in Inodes |-> IF i \in Names THEN g[i] ELSE Unborn]
  BY DEF Init, FolderInit
<1>2. \A t \in Temps : data[t] = Unborn /\ report[t] = "none"
  BY <1>1 DEF Inodes, Init, FolderInit
<1>3. \A r \in Runs : <<r, 1>> \in Temps /\ <<r, 2>> \in Temps
  BY DEF Temps
<1>4. self = NoRun /\ stage = "idle" /\ \A r \in Runs : result[r] = "waiting"
  BY DEF Init, FolderInit
<1>5. OutLanded
  BY <1>2, <1>4 DEF OutLanded, Out, Written
<1> QED
  BY <1>2, <1>3, <1>4, <1>5
     DEF Books, RunsOnce, OneTemp, DoneSettled, StoppedGone, RetainedKept,
         BeforeTemp, TempStages, WrittenStages, VerifiedStages, Unreported,
         EarlyStages, PublishStages

\* The running command's temporary file is one of Temps.
LEMMA TempIsTemp ==
    ASSUME TypeOK, self # NoRun
    PROVE  self \in Runs /\ Temp \in Temps /\ Temp = <<self, 1>>
BY DEF TypeOK, FolderTypeOK, Temps, Temp

\* A file with a name is not unborn.
LEMMA UnbornUnnamed ==
    ASSUME IInv, NEW t, t # NoFile, data[t] = Unborn
    PROVE  Unnamed(t)
BY TextsAssumption DEF IInv, NamesWhole, Whole, Unnamed

(***************************************************************************)
(* A step that renames nothing and does not change what has been renamed.  *)
(***************************************************************************)
LEMMA LandedFrame ==
    ASSUME Books, flushed \subseteq flushed', crashes' = 0 => crashes = 0,
           \A t \in Temps : Out(t)' =>
               /\ Out(t)
               /\ data'[t] = data[t]
               /\ crashes' = 0 /\ t \in temps' => t \in temps
               /\ t[1] = self' /\ edits' = 0 =>
                     /\ self' = self /\ edits = 0
                     /\ entry'[cmd'.out] = entry[cmd.out]
    PROVE  OutLanded'
BY DEF Books, OutLanded

(***************************************************************************)
(* A step that leaves the directory and the reports alone and changes no   *)
(* temporary file but the command's own, which it has.                     *)
(***************************************************************************)
LEMMA QuietBooks ==
    ASSUME IInv, Books,
           entry' = entry, disk' = disk, temps' = temps,
           report' = report, result' = result, self' = self, crashes' = crashes,
           cmd' = cmd, edits' = edits,
           flushed \subseteq flushed',
           \A t \in Temps : data'[t] = data[t] \/ (self # NoRun /\ t = Temp /\ stage \in TempStages),
           stage' \in BeforeTemp => stage \in BeforeTemp,
           stage' \in TempStages => stage \in TempStages,
           stage' \in Unreported => stage \in Unreported,
           stage' = "done" => stage = "done",
           stage' \in {"confirm", "sync"} => stage \in {"confirm", "sync"}
    PROVE  Books'
<1> USE DEF TempStages, WrittenStages, VerifiedStages, BeforeTemp
<1>1. \A r \in Runs : <<r, 1>> \in Temps /\ <<r, 2>> \in Temps
  BY DEF Temps
<1>2. Temp' = Temp
  BY DEF Temp
<1>3. self # NoRun => self \in Runs /\ Temp \in Temps /\ Temp = <<self, 1>>
  BY TempIsTemp DEF IInv
<1>4. RunsOnce'
  <2>1. ASSUME NEW r \in Runs, r # self PROVE data'[<<r, 1>>] = data[<<r, 1>>]
    <3>1. self # NoRun => <<r, 1>> # Temp
      BY <2>1, <1>3
    <3> QED
      BY <1>1, <3>1
  <2> QED
    BY <2>1 DEF Books, RunsOnce
<1>5. OneTemp'
  <2>1. ASSUME NEW r \in Runs PROVE data'[<<r, 2>>] = data[<<r, 2>>]
    <3>1. self # NoRun => <<r, 2>> # Temp
      BY <1>3
    <3> QED
      BY <1>1, <3>1
  <2>2. stage' \in BeforeTemp => data'[Temp] = data[Temp]
    <3>1. stage \in BeforeTemp => self # NoRun
      BY DEF IInv, Running
    <3> QED
      BY <3>1, <1>3
  <2> QED
    BY <2>1, <2>2, <1>2 DEF Books, OneTemp
<1>6. DoneSettled'
  BY <1>2 DEF Books, DoneSettled
<1>7. StoppedGone'
  BY DEF Books, StoppedGone, Unnamed
<1>8. RetainedKept'
  <2>1. ASSUME NEW t \in Temps, report[t] = "retained" PROVE data'[t] = data[t]
    <3>1. self # NoRun /\ stage \in TempStages => report[Temp] = "none"
      BY DEF Books, OneTemp, Unreported, EarlyStages, PublishStages
    <3> QED
      BY <2>1, <3>1
  <2> QED
    BY <2>1 DEF Books, RetainedKept, Unnamed
<1>9. OutLanded'
  <2>1. \A t \in Temps : Out(t)' => Out(t)
    BY <1>2 DEF Out, Written
  <2>2. ASSUME NEW t \in Temps, Out(t) PROVE data'[t] = data[t]
    <3>1. stage \in TempStages => report[Temp] = "none"
      BY DEF Books, OneTemp, Unreported, EarlyStages, PublishStages
    <3>2. ~(t = Temp /\ stage \in TempStages)
      BY <2>2, <3>1 DEF Out, Written
    <3> QED
      BY <3>2
  <2> QED
    BY <2>1, <2>2, LandedFrame
<1> QED
  BY <1>4, <1>5, <1>6, <1>7, <1>8, <1>9 DEF Books

\* Most steps of the command, and what goes on beside it.
LEMMA QuietStepsBooks ==
    ASSUME IInv, Books,
           \/ OpenInput \/ ChooseTarget \/ OpenKey \/ LoadKey
           \/ ReadInput \/ ReadKey \/ EndStream \/ Verify
           \/ RecheckInput \/ RecheckKey
           \/ /\ \/ SyncTemp(Temp)
                 \/ FinalUnchanged(cmd.replace, cmd.out, input)
                 \/ FinalLinks(cmd.replace, input)
                 \/ Confirm(Temp, cmd.out)
                 \/ Interrupt
              /\ UNCHANGED command
           \/ Damage
           \/ UNCHANGED vars
    PROVE  Books'
<1> USE DEF At, directory, verdicts, world, command, TempStages, WrittenStages,
            VerifiedStages, BeforeTemp, Unreported, EarlyStages, PublishStages
<1> DEFINE Kept == /\ entry' = entry /\ disk' = disk /\ temps' = temps
                   /\ report' = report /\ result' = result /\ self' = self
                   /\ crashes' = crashes /\ flushed \subseteq flushed'
                   /\ cmd' = cmd /\ edits' = edits
<1> DEFINE Moves == /\ stage' \in BeforeTemp => stage \in BeforeTemp
                    /\ stage' \in TempStages => stage \in TempStages
                    /\ stage' \in Unreported => stage \in Unreported
                    /\ stage' = "done" => stage = "done"
                    /\ stage' \in {"confirm", "sync"} => stage \in {"confirm", "sync"}
<1>1. CASE OpenInput \/ ChooseTarget \/ OpenKey \/ LoadKey \/ RecheckInput \/ RecheckKey
  <2>1. Kept /\ Moves /\ data' = data
    BY <1>1 DEF OpenInput, ChooseTarget, OpenKey, LoadKey, RecheckInput, RecheckKey,
                Passes, files
  <2> QED
    BY <2>1, QuietBooks
<1>2. CASE ReadInput \/ ReadKey \/ UNCHANGED vars
  <2>1. Kept /\ Moves /\ data' = data
    BY <1>2, FolderFrame DEF ReadInput, ReadKey, vars
  <2> QED
    BY <2>1, QuietBooks
<1>3. CASE EndStream
  <2>1. Kept /\ Moves /\ data' = [data EXCEPT ![Temp] = Output]
        /\ stage = "stream" /\ self # NoRun
    BY <1>3 DEF EndStream, Write
  <2>2. data \in [Inodes -> Contents]
    BY DEF IInv, TypeOK, FolderTypeOK
  <2>3. \A t \in Temps : t # Temp => data'[t] = data[t]
    BY <2>1, <2>2 DEF Inodes
  <2> QED
    BY <2>1, <2>3, QuietBooks
<1>4. CASE Damage
  <2>1. Kept /\ Moves /\ data' = [data EXCEPT ![Temp] = Torn]
        /\ stage = "verify" /\ self # NoRun
    BY <1>4 DEF Damage, Corrupt, process
  <2>2. data \in [Inodes -> Contents]
    BY DEF IInv, TypeOK, FolderTypeOK
  <2>3. \A t \in Temps : t # Temp => data'[t] = data[t]
    BY <2>1, <2>2 DEF Inodes
  <2> QED
    BY <2>1, <2>3, QuietBooks
<1>5. CASE Verify \/ (SyncTemp(Temp) /\ UNCHANGED command)
  <2>1. Kept /\ Moves /\ data' = data
    BY <1>5 DEF Verify, ReadBack, SyncTemp
  <2> QED
    BY <2>1, QuietBooks
<1>6. CASE /\ \/ FinalUnchanged(cmd.replace, cmd.out, input)
              \/ FinalLinks(cmd.replace, input) \/ Confirm(Temp, cmd.out)
           /\ UNCHANGED command
  <2>1. Kept /\ Moves /\ data' = data
    BY <1>6 DEF FinalUnchanged, FinalLinks, Confirm, files
  <2> QED
    BY <2>1, QuietBooks
<1>7. CASE Interrupt /\ UNCHANGED command
  <2>1. Kept /\ Moves /\ data' = data
    BY <1>7 DEF Interrupt, files
  <2> QED
    BY <2>1, QuietBooks
<1> QED
  BY <1>1, <1>2, <1>3, <1>4, <1>5, <1>6, <1>7

\* The names of the two files an invocation may have.
LEMMA TempNames ==
    ASSUME NEW r \in Runs, NEW q \in Runs
    PROVE  /\ <<r, 1>> \in Temps /\ <<r, 2>> \in Temps /\ <<r, 1>> # <<q, 2>>
           /\ <<r, 1>> = <<q, 1>> => r = q
BY DEF Temps

\* A command that begins has no file.
LEMMA StartBooks ==
    ASSUME IInv, Books, NEW r \in Runs, NEW c \in Commands, Start(r, c)
    PROVE  Books'
<1> USE DEF TempStages, WrittenStages, VerifiedStages, BeforeTemp
<1>1. /\ self = NoRun /\ result[r] = "waiting" /\ self' = r /\ self' # NoRun
      /\ stage' = "input" /\ Temp' = <<r, 1>>
      /\ entry' = entry /\ disk' = disk /\ temps' = temps /\ data' = data
      /\ flushed' = flushed /\ report' = report /\ result' = result
      /\ crashes' = crashes /\ edits' = edits
  BY RunsAssumption DEF Start, Enter, directory, files, verdicts, world, Temp
<1>2. data[<<r, 1>>] = Unborn /\ report[<<r, 1>>] = "none"
  BY <1>1, RunsAssumption DEF Books, RunsOnce
<1>3. RunsOnce'
  <2>1. \A q \in Runs : q # self
    BY <1>1, RunsAssumption
  <2> QED
    BY <1>1, <2>1 DEF Books, RunsOnce
<1>4. OneTemp'
  BY <1>1, <1>2 DEF Books, OneTemp, Unreported, EarlyStages, PublishStages
<1>5. DoneSettled' /\ StoppedGone' /\ RetainedKept'
  BY <1>1 DEF Books, DoneSettled, StoppedGone, RetainedKept, Unnamed
<1>6. OutLanded'
  <2>1. \A t \in Temps : t[1] = r => report[t] \in {"none", "stopped"}
    BY <1>2 DEF Temps, Books, OneTemp
  <2>2. \A t \in Temps : Out(t)' => Out(t) /\ t[1] # r
    BY <1>1, <2>1 DEF Out, Written
  <2> QED
    BY <1>1, <2>2, LandedFrame
<1> QED
  BY <1>3, <1>4, <1>5, <1>6 DEF Books

LEMMA CreateTempBooks ==
    ASSUME IInv, Books, CreateTemp
    PROVE  Books'
<1> USE DEF TempStages, WrittenStages, VerifiedStages, BeforeTemp, Unreported,
            EarlyStages, PublishStages
<1>1. /\ stage = "temp" /\ self # NoRun /\ stage' = "stream" /\ self' = self
      /\ temps' = temps \cup {Temp} /\ data' = [data EXCEPT ![Temp] = Partial]
      /\ entry' = entry /\ disk' = disk /\ flushed' = flushed
      /\ report' = report /\ result' = result /\ crashes' = crashes
      /\ Temp' = Temp /\ cmd' = cmd /\ edits' = edits
  BY DEF CreateTemp, MakeTemp, At, verdicts, world, command, Temp
<1>2. self \in Runs /\ Temp \in Temps /\ Temp = <<self, 1>>
  BY <1>1, TempIsTemp DEF IInv
<1>3. report[Temp] = "none"
  BY <1>1 DEF Books, OneTemp
<1>4. \A t \in Temps : t # Temp => data'[t] = data[t]
  BY <1>1 DEF IInv, TypeOK, FolderTypeOK, Inodes
<1>5. RunsOnce'
  BY <1>1, <1>2, <1>4, TempNames DEF Books, RunsOnce
<1>6. OneTemp'
  BY <1>1, <1>2, <1>3, <1>4, TempNames DEF Books, OneTemp
<1>7. DoneSettled' /\ StoppedGone' /\ RetainedKept'
  BY <1>1, <1>3, <1>4 DEF Books, DoneSettled, StoppedGone, RetainedKept, Unnamed
<1>8. OutLanded'
  <2>1. \A t \in Temps : Out(t)' => Out(t) /\ t # Temp
    BY <1>1, <1>3 DEF Out, Written
  <2> QED
    BY <1>1, <1>4, <2>1, LandedFrame
<1> QED
  BY <1>5, <1>6, <1>7, <1>8 DEF Books

\* The renamed file was not reported; no name of a reported file comes or goes.
LEMMA RenameBooks ==
    ASSUME IInv, Books, Rename(Temp, cmd.out, cmd.replace), UNCHANGED command
    PROVE  Books'
<1> USE DEF TempStages, WrittenStages, VerifiedStages, BeforeTemp, Unreported,
            EarlyStages, PublishStages
<1>1. /\ stage = "rename" /\ self # NoRun /\ stage' = "confirm" /\ self' = self
      /\ entry' = [entry EXCEPT ![cmd.out] = Temp] /\ temps' = temps \ {Temp}
      /\ disk' = disk /\ data' = data /\ flushed' = flushed
      /\ report' = report /\ result' = result /\ crashes' = crashes
      /\ Temp' = Temp /\ cmd' = cmd /\ edits' = edits
  BY DEF Rename, At, files, verdicts, world, command, Temp
<1>2. self \in Runs /\ Temp \in Temps /\ Temp = <<self, 1>>
  BY <1>1, TempIsTemp DEF IInv
<1>3. report[Temp] = "none" /\ result[self] = "waiting"
  BY <1>1 DEF Books, OneTemp, RunsOnce
<1>4. entry \in [Names -> Inodes \cup {NoFile}]
  BY DEF IInv, TypeOK, FolderTypeOK
<1>5. \A n \in Names : entry'[n] = entry[n] \/ entry'[n] = Temp
  BY <1>1, <1>4
<1>6. RunsOnce' /\ OneTemp'
  BY <1>1, <1>3 DEF Books, RunsOnce, OneTemp
<1>7. DoneSettled'
  BY <1>1, <1>2, <1>3, <1>5, TempNames DEF Books, DoneSettled
<1>8. StoppedGone' /\ RetainedKept'
  BY <1>1, <1>3, <1>5 DEF Books, StoppedGone, RetainedKept, Unnamed
<1>9. OutLanded'
  <2> SUFFICES ASSUME NEW t \in Temps, Out(t)'
               PROVE  /\ data[t] \in Texts /\ t \in flushed
                      /\ crashes = 0 => t \notin temps'
                      /\ t[1] = self /\ edits = 0 => entry'[cmd.out] = t
    BY <1>1 DEF OutLanded
  <2>1. CASE t = Temp
    <3>1. data[Temp] \in Texts /\ Temp \in flushed /\ cmd.out \in Names
      BY <1>1, ReadyToRename, CommandsAssumption DEF At
    <3> QED
      BY <1>1, <1>4, <2>1, <3>1
  <2>2. CASE t # Temp
    <3>1. Written(t) = 1
      BY <1>1, <2>2 DEF Out, Written
    <3>2. t[1] # self
      BY <1>2, <2>2, <3>1 DEF Temps, Books, OneTemp, Written
    <3> QED
      BY <1>1, <3>1, <3>2 DEF Books, OutLanded, Out
  <2> QED
    BY <2>1, <2>2
<1> QED
  BY <1>6, <1>7, <1>8, <1>9 DEF Books

(***************************************************************************)
(* An error return: what is dropped is gone and was never under a name,    *)
(* what is kept is complete.                                               *)
(***************************************************************************)
LEMMA GiveUpBooks ==
    ASSUME IInv, Books, self # NoRun, stage \in Unreported,
           NEW kept \in SUBSET {Temp}, NEW rep \in {"stopped", "retained", "unverified", "occurred"},
           GiveUp(kept), EndAs(Temp, rep), UNCHANGED command,
           rep = "stopped" => stage \notin {"confirm", "sync"} /\ kept = {},
           rep = "retained" => stage = "rename" /\ kept = {Temp},
           rep \in {"unverified", "occurred"} => stage \in {"confirm", "sync"}
    PROVE  Books'
<1> USE DEF TempStages, WrittenStages, VerifiedStages, BeforeTemp, Unreported,
            EarlyStages, PublishStages
<1>1. /\ stage' = "leaving" /\ self' = self /\ temps' = temps \ (Own(self) \ kept)
      /\ entry' = entry /\ disk' = disk /\ data' = data /\ flushed' = flushed
      /\ result' = result /\ crashes' = crashes /\ Temp' = Temp
      /\ cmd' = cmd /\ edits' = edits
  BY DEF GiveUp, files, world, command, Temp
<1>2. self \in Runs /\ Temp \in Temps /\ Temp = <<self, 1>>
  BY TempIsTemp DEF IInv
<1>3. /\ report'[Temp] = rep
      /\ \A t \in Temps : t # Temp =>
            report'[t] = report[t] \/ (t[1] = self /\ report'[t] = "stopped")
  BY <1>2 DEF EndAs
<1>4. <<self, 2>> \in Temps /\ data[<<self, 2>>] = Unborn
  BY <1>2, TempNames DEF Books, OneTemp
<1>5. \A t \in Temps : t[1] = self => t = Temp \/ t = <<self, 2>>
  BY <1>2 DEF Temps
<1>6. \A t \in Temps : t # NoFile
  BY InodesAssumption DEF Inodes
<1>7. Unnamed(<<self, 2>>)
  BY <1>4, <1>6, UnbornUnnamed
<1>8. stage \notin {"confirm", "sync"} => Unnamed(Temp)
  <2>1. CASE stage \in TempStages
    BY <2>1 DEF IInv, TempApart, Unnamed
  <2>2. CASE stage \in BeforeTemp
    BY <2>2, <1>2, <1>6, UnbornUnnamed DEF Books, OneTemp
  <2> QED
    BY <2>1, <2>2
<1>9. RunsOnce'
  <2>1. ASSUME NEW r \in Runs, r # self PROVE report'[<<r, 1>>] = report[<<r, 1>>]
    BY <2>1, <1>2, <1>3, TempNames
  <2> QED
    BY <1>1, <2>1 DEF Books, RunsOnce
<1>10. OneTemp'
  <2>1. ASSUME NEW r \in Runs PROVE report'[<<r, 2>>] \in {"none", "stopped"}
    BY <1>2, <1>3, TempNames DEF Books, OneTemp
  <2> QED
    BY <1>1, <2>1 DEF Books, OneTemp
<1>11. DoneSettled'
  BY <1>1 DEF Books, DoneSettled
<1>12. StoppedGone'
  <2> SUFFICES ASSUME NEW t \in Temps, report'[t] = "stopped"
               PROVE  Unnamed(t) /\ (crashes = 0 => t \notin temps')
    BY <1>1 DEF StoppedGone, Unnamed
  <2>1. CASE t = Temp
    BY <2>1, <1>1, <1>2, <1>3, <1>8 DEF Own
  <2>2. CASE t # Temp /\ t[1] = self
    BY <2>2, <1>1, <1>5, <1>7 DEF Own
  <2>3. CASE t[1] # self
    BY <2>3, <1>1, <1>2, <1>3 DEF Books, StoppedGone
  <2> QED
    BY <2>1, <2>2, <2>3
<1>13. RetainedKept'
  <2> SUFFICES ASSUME NEW t \in Temps, report'[t] = "retained"
               PROVE  /\ Unnamed(t) /\ data[t] \in Texts /\ t \in flushed
                      /\ crashes = 0 => t \in temps'
    BY <1>1 DEF RetainedKept, Unnamed
  <2>1. CASE t = Temp
    <3>1. stage = "rename" /\ kept = {Temp}
      BY <2>1, <1>3
    <3>2. data[Temp] \in Texts /\ Temp \in flushed /\ Temp \in temps
      BY <3>1, ReadyToRename DEF At, IInv, DigestIsOutput, Books, OneTemp
    <3> QED
      BY <2>1, <3>1, <3>2, <1>1, <1>8
  <2>2. CASE t # Temp
    <3>1. report[t] = "retained"
      BY <2>2, <1>3
    <3>2. t[1] # self
      BY <2>2, <3>1, <1>5, <1>2 DEF Books, OneTemp
    <3> QED
      BY <3>1, <3>2, <1>1 DEF Books, RetainedKept, Own
  <2> QED
    BY <2>1, <2>2
<1>14. OutLanded'
  <2>1. \A t \in Temps : Out(t)' => Out(t)
    BY <1>1, <1>3 DEF Out, Written
  <2> QED
    BY <1>1, <2>1, LandedFrame
<1> QED
  BY <1>9, <1>10, <1>11, <1>12, <1>13, <1>14 DEF Books

\* The four error returns of a command.
LEMMA ErrorsBooks ==
    ASSUME IInv, Books,
           \/ Stop
           \/ RenameFails(Temp, cmd.out, cmd.replace)
           \/ ConfirmFails(Temp, cmd.out)
           \/ SyncPublicationFails(Temp),
           UNCHANGED command
    PROVE  Books'
<1> USE DEF Unreported, EarlyStages, PublishStages, At
<1>1. CASE Stop
  <2>1. /\ GiveUp({}) /\ EndAs(Temp, "stopped") /\ self # NoRun
        /\ stage \in EarlyStages \cup {"publish", "final", "links"}
    BY <1>1 DEF Stop, Abort, CheckFails, CallFails
  <2> QED
    BY <2>1, GiveUpBooks
<1>2. CASE RenameFails(Temp, cmd.out, cmd.replace)
  <2>1. /\ GiveUp({Temp}) /\ EndAs(Temp, "retained") /\ self # NoRun /\ stage = "rename"
    BY <1>2 DEF RenameFails
  <2> QED
    BY <2>1, GiveUpBooks
<1>3. CASE ConfirmFails(Temp, cmd.out)
  <2>1. /\ GiveUp({}) /\ EndAs(Temp, "unverified") /\ self # NoRun /\ stage = "confirm"
    BY <1>3 DEF ConfirmFails
  <2> QED
    BY <2>1, GiveUpBooks
<1>4. CASE SyncPublicationFails(Temp)
  <2>1. /\ GiveUp({}) /\ EndAs(Temp, "occurred") /\ self # NoRun /\ stage = "sync"
    BY <1>4 DEF SyncPublicationFails
  <2> QED
    BY <2>1, GiveUpBooks
<1> QED
  BY <1>1, <1>2, <1>3, <1>4

\* The last synchronization; on Linux the directory is on the disk with it.
LEMMA SyncPublicationBooks ==
    ASSUME IInv, Books, SyncPublication(Temp, "done"), UNCHANGED command
    PROVE  Books'
<1> USE DEF TempStages, WrittenStages, VerifiedStages, BeforeTemp, Unreported,
            EarlyStages, PublishStages
<1>1. /\ stage = "sync" /\ self # NoRun /\ stage' = "done" /\ self' = self
      /\ disk' = (IF Windows THEN disk ELSE entry)
      /\ report' = [report EXCEPT ![Temp] = "published"]
      /\ flushed' = flushed \cup {Temp}
      /\ entry' = entry /\ temps' = temps /\ data' = data
      /\ result' = result /\ crashes' = crashes /\ Temp' = Temp
      /\ cmd' = cmd /\ edits' = edits
  BY DEF SyncPublication, At, world, command, Temp
<1>2. self \in Runs /\ Temp \in Temps /\ Temp = <<self, 1>>
  BY <1>1, TempIsTemp DEF IInv
<1>3. \A t \in Temps : report'[t] = IF t = Temp THEN "published" ELSE report[t]
  BY <1>1 DEF IInv, TypeOK, FolderTypeOK
<1>4. RunsOnce'
  BY <1>1, <1>2, <1>3, TempNames DEF Books, RunsOnce
<1>5. OneTemp'
  BY <1>1, <1>2, <1>3, TempNames DEF Books, OneTemp
<1>6. DoneSettled'
  BY <1>1, <1>2, <1>3 DEF Books, DoneSettled
<1>7. \A t \in Temps : Unnamed(t) => Unnamed(t)'
  BY <1>1 DEF Unnamed
<1>8. StoppedGone'
  BY <1>1, <1>3, <1>7 DEF Books, StoppedGone
<1>9. RetainedKept'
  BY <1>1, <1>3, <1>7 DEF Books, RetainedKept
<1>10. OutLanded'
  <2>1. \A t \in Temps : Out(t)' => Out(t)
    BY <1>1, <1>3 DEF Out, Written
  <2> QED
    BY <1>1, <2>1, LandedFrame
<1> QED
  BY <1>4, <1>5, <1>6, <1>8, <1>9, <1>10 DEF Books

\* An exit or a kill; only what has been synchronized is called a success.
LEMMA GoneBooks ==
    ASSUME IInv, Books, self # NoRun, NEW code \in Results, Gone(code),
           UNCHANGED <<directory, files, report>>,
           code = "success" => stage = "done",
           code # "waiting", crashes \in Nat, crashes' \in Nat, crashes' = 0 => crashes = 0
    PROVE  Books'
<1> USE DEF TempStages, WrittenStages, VerifiedStages, BeforeTemp, Unreported,
            EarlyStages, PublishStages
<1>1. /\ self' = NoRun /\ stage' = "idle" /\ result' = [result EXCEPT ![self] = code]
      /\ entry' = entry /\ disk' = disk /\ temps' = temps /\ data' = data
      /\ flushed' = flushed /\ report' = report
  BY DEF Gone, directory, files
<1>2. self \in Runs /\ Temp = <<self, 1>>
  BY TempIsTemp DEF IInv
<1>3. \A r \in Runs : result'[r] = IF r = self THEN code ELSE result[r]
  BY <1>1 DEF IInv, TypeOK, FolderTypeOK
<1>4. RunsOnce'
  BY <1>1, <1>3 DEF Books, RunsOnce
<1>5. OneTemp'
  BY <1>1 DEF Books, OneTemp
<1>6. DoneSettled'
  BY <1>1, <1>2, <1>3 DEF Books, DoneSettled
<1>7. StoppedGone' /\ RetainedKept'
  BY <1>1 DEF Books, StoppedGone, RetainedKept, Unnamed
<1>8. OutLanded'
  <2>1. \A t \in Temps : Out(t)' => Out(t)
    BY <1>1 DEF Out, Written
  <2>2. \A t \in Temps : t[1] # self'
    BY <1>1, RunsAssumption DEF Temps
  <2> QED
    BY <1>1, <2>1, <2>2, LandedFrame
<1> QED
  BY <1>4, <1>5, <1>6, <1>7, <1>8 DEF Books

LEMMA EndBooks == ASSUME IInv, Books, End PROVE Books'
<1>1. /\ Gone(ExitCode) /\ self # NoRun /\ crashes' = crashes
      /\ UNCHANGED <<directory, files, report>>
  BY DEF End, Leave, At
<1>2. ExitCode \in Results /\ ExitCode # "waiting" /\ (ExitCode = "success" => stage = "done")
  BY DEF ExitCode, Results
<1> QED
  BY <1>1, <1>2, GoneBooks DEF IInv, TypeOK, FolderTypeOK

LEMMA KillBooks == ASSUME IInv, Books, Kill PROVE Books'
<1>1. /\ Gone("killed") /\ self # NoRun /\ crashes' = crashes + 1
      /\ UNCHANGED <<directory, files, report>>
  BY DEF Kill
<1>2. crashes \in Nat
  BY DEF IInv, TypeOK, FolderTypeOK
<1>3. crashes' \in Nat /\ crashes' # 0
  BY <1>1, <1>2
<1> QED
  BY <1>1, <1>2, <1>3, GoneBooks DEF Results

\* A power loss; what was on the disk is what is left.
LEMMA PowerLossBooks == ASSUME IInv, Books, PowerLoss PROVE Books'
<1> USE DEF TempStages, WrittenStages, VerifiedStages, BeforeTemp, Unreported,
            EarlyStages, PublishStages
<1>1. /\ self' = NoRun /\ stage' = "idle" /\ entry' = disk /\ disk' = disk
      /\ data' = [i \in Inodes |->
                    IF i \in Temps \ flushed /\ data[i] # Unborn THEN Torn ELSE data[i]]
      /\ flushed' = flushed /\ report' = report /\ crashes' = crashes + 1
      /\ result' = [r \in Runs |-> IF r = self THEN "killed" ELSE result[r]]
  BY DEF PowerLoss
<1>2. crashes' # 0
  BY <1>1 DEF IInv, TypeOK, FolderTypeOK
<1>3. \A t \in Temps : /\ data[t] = Unborn => data'[t] = Unborn
                       /\ t \in flushed => data'[t] = data[t]
  BY <1>1 DEF Inodes
<1>4. RunsOnce' /\ OneTemp'
  <2>1. \A r \in Runs : <<r, 1>> \in Temps /\ <<r, 2>> \in Temps
    BY DEF Temps
  <2> QED
    BY <1>1, <1>3, <2>1 DEF Books, RunsOnce, OneTemp
<1>5. DoneSettled'
  BY <1>1 DEF Books, DoneSettled
<1>6. StoppedGone' /\ RetainedKept'
  BY <1>1, <1>2, <1>3 DEF Books, StoppedGone, RetainedKept, Unnamed
<1>7. OutLanded'
  <2>1. \A t \in Temps : Out(t)' => Out(t)
    BY <1>1 DEF Out, Written
  <2>2. \A t \in Temps : t[1] # self'
    BY <1>1, RunsAssumption DEF Temps
  <2>3. \A t \in Temps : Out(t) => data'[t] = data[t]
    BY <1>3 DEF Books, OutLanded
  <2> QED
    BY <1>1, <1>2, <2>1, <2>2, <2>3, LandedFrame
<1> QED
  BY <1>4, <1>5, <1>6, <1>7 DEF Books

\* A directory entry that reaches the disk; a refused invocation.
LEMMA WriteBackBooks ==
    ASSUME IInv, Books, NEW n \in Names, WriteBack(n), UNCHANGED command
    PROVE  Books'
<1>1. /\ disk' = [disk EXCEPT ![n] = entry[n]] /\ disk[n] # entry[n]
      /\ entry' = entry /\ temps' = temps /\ data' = data /\ flushed' = flushed
      /\ self' = self /\ stage' = stage /\ report' = report /\ result' = result
      /\ crashes' = crashes /\ Temp' = Temp /\ cmd' = cmd /\ edits' = edits
  BY DEF WriteBack, files, process, verdicts, world, command, Temp
<1>2. \A m \in Names : disk'[m] = disk[m] \/ disk'[m] = entry[m]
  BY <1>1 DEF IInv, TypeOK, FolderTypeOK
<1>3. RunsOnce' /\ OneTemp'
  BY <1>1 DEF Books, RunsOnce, OneTemp
<1>4. DoneSettled'
  BY <1>1, <1>2 DEF Books, DoneSettled
<1>5. StoppedGone' /\ RetainedKept'
  BY <1>1, <1>2 DEF Books, StoppedGone, RetainedKept, Unnamed
<1>6. OutLanded'
  <2>1. \A t \in Temps : Out(t)' => Out(t)
    BY <1>1 DEF Out, Written
  <2> QED
    BY <1>1, <2>1, LandedFrame
<1> QED
  BY <1>3, <1>4, <1>5, <1>6 DEF Books

LEMMA RefuseBooks ==
    ASSUME IInv, Books, NEW r \in Runs, Refuse(r), UNCHANGED command
    PROVE  Books'
<1>1. /\ r # self /\ result' = [result EXCEPT ![r] = "error"]
      /\ entry' = entry /\ disk' = disk /\ temps' = temps /\ data' = data
      /\ flushed' = flushed /\ self' = self /\ stage' = stage
      /\ report' = report /\ crashes' = crashes /\ Temp' = Temp
      /\ cmd' = cmd /\ edits' = edits
  BY DEF Refuse, directory, files, process, world, command, Temp
<1>2. \A q \in Runs : result'[q] = IF q = r THEN "error" ELSE result[q]
  BY <1>1 DEF IInv, TypeOK, FolderTypeOK
<1>3. RunsOnce'
  <2>1. self # NoRun => self \in Runs
    BY DEF IInv, TypeOK, FolderTypeOK
  <2> QED
    BY <1>1, <1>2, <2>1 DEF Books, RunsOnce
<1>4. OneTemp' /\ DoneSettled'
  BY <1>1, <1>2 DEF Books, OneTemp, DoneSettled
<1>5. StoppedGone' /\ RetainedKept'
  BY <1>1 DEF Books, StoppedGone, RetainedKept, Unnamed
<1>6. OutLanded'
  <2>1. \A t \in Temps : Out(t)' => Out(t)
    BY <1>1 DEF Out, Written
  <2> QED
    BY <1>1, <2>1, LandedFrame
<1> QED
  BY <1>3, <1>4, <1>5, <1>6 DEF Books

(***************************************************************************)
(* The user can name only what has a name, and what the user does to a     *)
(* name is on the disk at once.                                            *)
(***************************************************************************)
LEMMA UserFrameBooks ==
    ASSUME IInv, Books, UserActs,
           entry = disk => entry' = disk',
           \A n \in Names : entry'[n] = disk'[n] \/ (entry'[n] = entry[n] /\ disk'[n] = disk[n]),
           \A t \in Temps : Unnamed(t) => Unnamed(t)' /\ data'[t] = data[t],
           \A t \in Temps : data[t] \in Texts => data'[t] \in Texts
    PROVE  Books'
<1>1. /\ temps' = temps /\ flushed' = flushed /\ self' = self /\ stage' = stage
      /\ report' = report /\ result' = result /\ crashes' = crashes /\ Temp' = Temp
      /\ edits' = edits + 1 /\ edits \in Nat
  BY DEF UserActs, process, verdicts, Temp, IInv, TypeOK, FolderTypeOK
<1>2. \A t \in Temps : data[t] = Unborn => data'[t] = Unborn
  <2>1. \A t \in Temps : t # NoFile
    BY InodesAssumption DEF Inodes
  <2> QED
    BY <2>1, UnbornUnnamed
<1>3. \A r \in Runs : <<r, 1>> \in Temps /\ <<r, 2>> \in Temps
  BY DEF Temps
<1>4. RunsOnce'
  BY <1>1, <1>2, <1>3 DEF Books, RunsOnce
<1>5. OneTemp'
  <2>1. stage \in BeforeTemp => Temp \in Temps
    <3>1. stage \in BeforeTemp => self # NoRun
      BY DEF IInv, Running, BeforeTemp
    <3> QED
      BY <3>1, TempIsTemp DEF IInv
  <2> QED
    BY <1>1, <1>2, <1>3, <2>1 DEF Books, OneTemp
<1>6. DoneSettled'
  BY <1>1 DEF Books, DoneSettled
<1>7. StoppedGone'
  BY <1>1 DEF Books, StoppedGone
<1>8. RetainedKept'
  BY <1>1 DEF Books, RetainedKept
<1>9. OutLanded'
  <2>1. \A t \in Temps : Out(t)' => Out(t)
    BY <1>1 DEF Out, Written
  <2> QED
    BY <1>1, <2>1 DEF Books, OutLanded
<1> QED
  BY <1>4, <1>5, <1>6, <1>7, <1>8, <1>9 DEF Books

\* The directory after a name has come to denote i, on the disk too.
LEMMA DenoteBooks ==
    ASSUME IInv, NEW n \in Names, NEW i \in Inodes \cup {NoFile}, Denote(n, i)
    PROVE  /\ entry = disk => entry' = disk'
           /\ \A m \in Names :
                 entry'[m] = disk'[m] \/ (entry'[m] = entry[m] /\ disk'[m] = disk[m])
           /\ \A t \in Temps : Unnamed(t) /\ i # t => Unnamed(t)'
<1>1. /\ entry' = [entry EXCEPT ![n] = i] /\ disk' = [disk EXCEPT ![n] = i]
      /\ entry \in [Names -> Inodes \cup {NoFile}]
      /\ disk \in [Names -> Inodes \cup {NoFile}]
  BY DEF Denote, IInv, TypeOK, FolderTypeOK
<1> QED
  BY <1>1 DEF Unnamed

LEMMA UserBooks == ASSUME IInv, Books, User PROVE Books'
<1>1. /\ data \in [Inodes -> Contents]
      /\ \A n \in Names : entry[n] \in Inodes \cup {NoFile}
      /\ \A t \in Temps : t \in Inodes /\ t # NoFile /\ t \notin Spare
  BY InodesAssumption DEF IInv, TypeOK, FolderTypeOK, Inodes
<1>2. ASSUME NEW n \in Names, NEW t \in UserTexts, UserEdit(n, t) PROVE Books'
  <2>1. /\ UserActs /\ entry' = entry /\ disk' = disk
        /\ data' = [data EXCEPT ![entry[n]] = t]
    BY <1>2 DEF UserEdit
  <2>2. \A u \in Temps : Unnamed(u) => Unnamed(u)' /\ data'[u] = data[u]
    BY <1>1, <2>1 DEF Unnamed
  <2>3. \A u \in Temps : data[u] \in Texts => data'[u] \in Texts
    BY <1>1, <2>1, TextsAssumption
  <2> QED
    BY <2>1, <2>2, <2>3, UserFrameBooks
<1>3. ASSUME NEW n \in Names, NEW i \in Spare, NEW t \in UserTexts, UserPut(n, i, t)
      PROVE  Books'
  <2>1. UserActs /\ Denote(n, i) /\ data' = [data EXCEPT ![i] = t]
    BY <1>3 DEF UserPut
  <2>2. i \in Inodes
    BY DEF Inodes
  <2>3. \A u \in Temps : Unnamed(u) => Unnamed(u)' /\ data'[u] = data[u]
    BY <1>1, <2>1, <2>2, DenoteBooks
  <2>4. \A u \in Temps : data'[u] = data[u]
    BY <1>1, <2>1
  <2> QED
    BY <2>1, <2>2, <2>3, <2>4, DenoteBooks, UserFrameBooks
<1>4. ASSUME NEW n \in Names, UserRemove(n) PROVE Books'
  <2>1. UserActs /\ Denote(n, NoFile) /\ data' = data
    BY <1>4 DEF UserRemove
  <2>2. \A u \in Temps : Unnamed(u) => Unnamed(u)' /\ data'[u] = data[u]
    BY <1>1, <2>1, DenoteBooks
  <2> QED
    BY <2>1, <2>2, DenoteBooks, UserFrameBooks
<1>5. ASSUME NEW n \in Names, NEW m \in Names, UserLink(n, m) PROVE Books'
  <2>1. UserActs /\ Denote(m, entry[n]) /\ data' = data
    BY <1>5 DEF UserLink
  <2>2. \A u \in Temps : Unnamed(u) => entry[n] # u
    BY DEF Unnamed
  <2>3. \A u \in Temps : Unnamed(u) => Unnamed(u)' /\ data'[u] = data[u]
    BY <1>1, <2>1, <2>2, DenoteBooks
  <2> QED
    BY <1>1, <2>1, <2>3, DenoteBooks, UserFrameBooks
<1> QED
  BY <1>2, <1>3, <1>4, <1>5 DEF User

\* Every step keeps the books.
LEMMA NextBooks == IInv /\ Books /\ [Next]_vars => Books'
<1> SUFFICES ASSUME IInv, Books, [Next]_vars PROVE Books'
  OBVIOUS
<1>1. CASE UNCHANGED vars
  BY <1>1, QuietStepsBooks
<1>2. ASSUME NEW r \in Runs, NEW c \in Commands, Start(r, c) PROVE Books'
  BY <1>2, StartBooks
<1>3. CASE Step
  <2>1. CASE Publish
    BY <2>1, QuietStepsBooks, RenameBooks, ErrorsBooks, SyncPublicationBooks
       DEF Publish
  <2> QED
    BY <1>3, <2>1, QuietStepsBooks, CreateTempBooks, ErrorsBooks, EndBooks
       DEF Step, Stop
<1>4. CASE Environment
  BY <1>4, QuietStepsBooks, KillBooks, PowerLossBooks, UserBooks, WriteBackBooks,
     RefuseBooks
     DEF Environment, Death
<1> QED
  BY <1>1, <1>2, <1>3, <1>4 DEF Next

LEMMA BooksHold == Spec => [](IInv /\ Books)
<1> QED
  BY InitEstablishesInv, InitBooks, NextKeeps, NextBooks, PTL DEF Spec

-----------------------------------------------------------------------------
(* What the reports and the exit codes say *)

(***************************************************************************)
(* What a command says of each file is true whatever failed and whatever   *)
(* the user and the crashes did since: "publication was not reached"       *)
(* leaves no file, a "retained" temporary file is there, complete, and a   *)
(* replacement reported as made has been made (files.rs:185-214).          *)
(***************************************************************************)
THEOREM ReportsTrue == Spec => []ReportIsTrue
<1>1. ASSUME IInv, Books PROVE ReportIsTrue
  <2>1. ASSUME NEW t \in Temps, Written(t) = 1, t[1] = self, edits = 0
        PROVE  \E n \in Names : entry[n] = t
    <3>1. self # NoRun
      BY <2>1, RunsAssumption DEF Temps
    <3>2. cmd.out \in Names
      BY <1>1, <3>1, CommandsAssumption DEF IInv, Running
    <3> QED
      BY <1>1, <2>1, <3>2 DEF Books, OutLanded, Out
  <2> QED
    BY <1>1, <2>1
       DEF Books, StoppedGone, RetainedKept, OutLanded, Out, Unnamed, ReportIsTrue
<1> QED
  BY <1>1, BooksHold, PTL

(***************************************************************************)
(* On Linux no later power loss undoes a command that exited with 0        *)
(* (files.rs:213, linux.rs:93-100).                                        *)
(***************************************************************************)
THEOREM Durability == Spec => []SuccessIsDurable
<1>1. ASSUME IInv, Books PROVE SuccessIsDurable
  <2> SUFFICES ASSUME NEW n \in Names, NEW t \in Temps, entry[n] = t,
                      result[t[1]] = "success", ~Windows
               PROVE  disk[n] = t /\ t \in flushed
    BY DEF SuccessIsDurable
  <2>1. t # NoFile /\ t \in flushed
    BY <1>1, InodesAssumption DEF Inodes, IInv, NamesWhole, Whole
  <2>2. t[1] \in Runs /\ (t = <<t[1], 1>> \/ t = <<t[1], 2>>)
    BY DEF Temps
  <2>3. t # <<t[1], 2>>
    <3>1. ASSUME t = <<t[1], 2>> PROVE FALSE
      <4>1. data[t] = Unborn
        BY <1>1, <2>2, <3>1 DEF Books, OneTemp
      <4> QED
        BY <1>1, <2>1, <4>1, UnbornUnnamed DEF Unnamed
    <3> QED
      BY <3>1
  <2> QED
    BY <1>1, <2>1, <2>2, <2>3 DEF Books, DoneSettled
<1> QED
  BY <1>1, BooksHold, PTL

-----------------------------------------------------------------------------
(* The refinement of AtomicFolder *)

\* The running command has put its output under its name.
Counted ==
    self # NoRun /\ (stage \in {"confirm", "sync"}
                       \/ report[Temp] \in {"unverified", "occurred", "published"})

\* A command has one output at most.
OneOutput == Wrote = IF Counted THEN 1 ELSE 0

LEMMA WroteNow == IInv /\ Books => OneOutput
<1> SUFFICES ASSUME IInv, Books PROVE OneOutput
  OBVIOUS
<1> USE DEF OneOutput
<1>1. CASE self = NoRun
  BY <1>1 DEF Wrote, Counted
<1>2. CASE self # NoRun
  <2>1. self \in Runs /\ Temp = <<self, 1>>
    BY <1>2, TempIsTemp DEF IInv
  <2>2. Written(<<self, 2>>) = 0
    BY <2>1 DEF Books, OneTemp, Written
  <2>3. stage \in {"confirm", "sync"} => Written(<<self, 1>>) = 0
    BY <2>1 DEF Books, OneTemp, Unreported, PublishStages, Written
  <2> QED
    BY <1>2, <2>1, <2>2, <2>3 DEF Wrote, Counted, Written
<1> QED
  BY <1>1, <1>2

LEMMA WroteNext == IInv' /\ Books' => OneOutput'
BY WroteNow, PTL

\* Names hold whole contents or nothing.
ViewsOK == Shown \in Atomic!Views /\ Safe \in Atomic!Views

LEMMA ViewsWhole == IInv => ViewsOK
BY DEF ViewsOK, IInv, NamesWhole, Whole, Shown, Safe, Content, Atomic!Views

LEMMA ViewsWholeNext == IInv' => ViewsOK'
BY ViewsWhole, PTL

\* A step that leaves the directory and the files under its names alone.
LEMMA SameViews ==
    ASSUME entry' = entry, disk' = disk,
           \A n \in Names : /\ entry[n] # NoFile => data'[entry[n]] = data[entry[n]]
                            /\ disk[n] # NoFile => data'[disk[n]] = data[disk[n]]
    PROVE  Shown' = Shown /\ Safe' = Safe
BY DEF Shown, Safe, Content

LEMMA InitRefines == Init => Atomic!Init
<1> SUFFICES ASSUME Init PROVE Atomic!Init
  OBVIOUS
<1>1. Shown \in Atomic!Views
  BY InitEstablishesInv, ViewsWhole DEF ViewsOK
<1>2. Safe = Shown
  BY DEF Init, FolderInit, Safe, Shown
<1>3. Wrote = 0
  BY DEF Init, FolderInit, Wrote
<1> QED
  BY <1>1, <1>2, <1>3 DEF Init, FolderInit, Atomic!Init

\* The steps nobody outside the command sees.
LEMMA HiddenSteps ==
    ASSUME IInv, Books, IInv', Books',
           \/ OpenInput \/ ChooseTarget \/ OpenKey \/ LoadKey \/ CreateTemp
           \/ ReadInput \/ ReadKey \/ EndStream \/ Verify
           \/ RecheckInput \/ RecheckKey
           \/ SyncTemp(Temp)
           \/ FinalUnchanged(cmd.replace, cmd.out, input)
           \/ FinalLinks(cmd.replace, input)
           \/ Confirm(Temp, cmd.out)
           \/ Damage \/ Interrupt
           \/ UNCHANGED vars
    PROVE  UNCHANGED Atomic!vars
<1> DEFINE Still == /\ entry' = entry /\ disk' = disk /\ report' = report
                    /\ self' = self /\ result' = result /\ edits' = edits
                    /\ stage' \in {"confirm", "sync"} <=> stage \in {"confirm", "sync"}
<1> USE DEF At, directory, verdicts, world
<1>1. CASE OpenInput \/ ChooseTarget \/ OpenKey \/ LoadKey \/ RecheckInput \/ RecheckKey
  <2>1. Still /\ data' = data
    BY <1>1 DEF OpenInput, ChooseTarget, OpenKey, LoadKey, RecheckInput, RecheckKey,
                Passes, files
  <2> QED
    BY <2>1, SameViews, WroteNow, WroteNext DEF OneOutput, Counted, Temp, Atomic!vars
<1>2. CASE ReadInput \/ ReadKey \/ UNCHANGED vars
  <2>1. Still /\ data' = data
    BY <1>2, FolderFrame DEF ReadInput, ReadKey, vars
  <2> QED
    BY <2>1, SameViews, WroteNow, WroteNext DEF OneOutput, Counted, Temp, Atomic!vars
<1>3. CASE EndStream \/ Damage \/ CreateTemp
  <2>1. Still /\ \E text : data' = [data EXCEPT ![Temp] = text]
    BY <1>3 DEF EndStream, Write, Damage, Corrupt, process, CreateTemp, MakeTemp
  <2>2. Unnamed(Temp)
    <3>1. CASE CreateTemp
      <4>1. Temp # NoFile /\ data[Temp] = Unborn
        BY <3>1, TempIsTemp, InodesAssumption DEF CreateTemp, MakeTemp, IInv, Inodes
      <4> QED
        BY <4>1, UnbornUnnamed
    <3>2. CASE EndStream \/ Damage
      BY <3>2 DEF EndStream, Damage, IInv, TempApart, TempStages, WrittenStages, Unnamed
    <3> QED
      BY <1>3, <3>1, <3>2
  <2>3. \A n \in Names : /\ entry[n] # NoFile => data'[entry[n]] = data[entry[n]]
                         /\ disk[n] # NoFile => data'[disk[n]] = data[disk[n]]
    BY <2>1, <2>2 DEF Unnamed, IInv, TypeOK, FolderTypeOK
  <2> QED
    BY <2>1, <2>3, SameViews, WroteNow, WroteNext DEF OneOutput, Counted, Temp, Atomic!vars
<1>4. CASE \/ Verify \/ SyncTemp(Temp) \/ FinalUnchanged(cmd.replace, cmd.out, input)
           \/ FinalLinks(cmd.replace, input) \/ Confirm(Temp, cmd.out) \/ Interrupt
  <2>1. Still /\ data' = data
    BY <1>4 DEF Verify, ReadBack, SyncTemp, FinalUnchanged, FinalLinks, Confirm,
                Interrupt, files
  <2> QED
    BY <2>1, SameViews, WroteNow, WroteNext DEF OneOutput, Counted, Temp, Atomic!vars
<1> QED
  BY <1>1, <1>2, <1>3, <1>4

LEMMA StartRefines ==
    ASSUME IInv, Books, IInv', Books', NEW r \in Runs, NEW c \in Commands, Start(r, c)
    PROVE  Atomic!Begin(r)
<1>1. /\ self = NoRun /\ result[r] = "waiting" /\ self' = r /\ stage' = "input"
      /\ entry' = entry /\ disk' = disk /\ data' = data /\ report' = report
      /\ result' = result /\ edits' = edits /\ Temp' = <<r, 1>>
  BY DEF Start, Enter, directory, files, verdicts, world, Temp
<1>2. report[<<r, 1>>] = "none"
  BY <1>1, RunsAssumption DEF Books, RunsOnce
<1>3. ~Counted /\ ~Counted'
  BY <1>1, <1>2 DEF Counted
<1> QED
  BY <1>1, <1>3, SameViews, WroteNow, WroteNext DEF OneOutput, Atomic!Begin

LEMMA RenameRefines ==
    ASSUME IInv, Books, IInv', Books', Rename(Temp, cmd.out, cmd.replace), UNCHANGED command
    PROVE  Atomic!Commit(cmd.out) /\ cmd.out \in Names
<1>1. /\ stage = "rename" /\ self # NoRun /\ stage' = "confirm" /\ self' = self
      /\ entry' = [entry EXCEPT ![cmd.out] = Temp] /\ disk' = disk /\ data' = data
      /\ report' = report /\ result' = result /\ edits' = edits
  BY DEF Rename, At, files, verdicts, world
<1>2. cmd.out \in Names /\ Temp \in Temps /\ Temp # NoFile
  BY <1>1, TempIsTemp, CommandsAssumption, InodesAssumption DEF IInv, Running, Inodes
<1>3. report[Temp] = "none" /\ ~Counted /\ Counted'
  BY <1>1 DEF Books, OneTemp, Unreported, PublishStages, Counted
<1>4. data[Temp] \in Texts
  BY <1>1, ReadyToRename DEF At
<1>5. Shown'[cmd.out] = data[Temp]
  BY <1>1, <1>2 DEF Shown, Content, IInv, TypeOK, FolderTypeOK
<1>6. Shown' = [Shown EXCEPT ![cmd.out] = Shown'[cmd.out]]
  BY <1>1, <1>2 DEF Shown, Content, IInv, TypeOK, FolderTypeOK
<1>7. Safe' = Safe
  BY <1>1 DEF Safe, Content
<1>8. Wrote = 0 /\ Wrote' = 1
  BY <1>3, WroteNow, WroteNext DEF OneOutput
<1> QED
  BY <1>1, <1>2, <1>4, <1>5, <1>6, <1>7, <1>8 DEF Atomic!Commit

\* An error return shows nothing new: the output is there already or never.
LEMMA ErrorsRefine ==
    ASSUME IInv, Books, IInv', Books',
           \/ Stop
           \/ RenameFails(Temp, cmd.out, cmd.replace)
           \/ ConfirmFails(Temp, cmd.out)
           \/ SyncPublicationFails(Temp)
    PROVE  UNCHANGED Atomic!vars
<1> USE DEF Unreported, EarlyStages, PublishStages, At
<1>1. PICK kept, rep : /\ GiveUp(kept) /\ EndAs(Temp, rep) /\ self # NoRun
                       /\ stage \in Unreported
                       /\ rep \in {"unverified", "occurred", "published"} <=>
                             stage \in {"confirm", "sync"}
  <2>1. CASE Stop
    <3>1. /\ GiveUp({}) /\ EndAs(Temp, "stopped") /\ self # NoRun
          /\ stage \in EarlyStages \cup {"publish", "final", "links"}
      BY <2>1 DEF Stop, Abort, CheckFails, CallFails
    <3> QED
      BY <3>1
  <2>2. CASE RenameFails(Temp, cmd.out, cmd.replace)
    <3>1. /\ GiveUp({Temp}) /\ EndAs(Temp, "retained") /\ self # NoRun
          /\ stage = "rename"
      BY <2>2 DEF RenameFails
    <3> QED
      BY <3>1
  <2>3. CASE ConfirmFails(Temp, cmd.out)
    <3>1. /\ GiveUp({}) /\ EndAs(Temp, "unverified") /\ self # NoRun
          /\ stage = "confirm"
      BY <2>3 DEF ConfirmFails
    <3> QED
      BY <3>1
  <2>4. CASE SyncPublicationFails(Temp)
    <3>1. /\ GiveUp({}) /\ EndAs(Temp, "occurred") /\ self # NoRun
          /\ stage = "sync"
      BY <2>4 DEF SyncPublicationFails
    <3> QED
      BY <3>1
  <2> QED
    BY <2>1, <2>2, <2>3, <2>4
<1>2. /\ stage' = "leaving" /\ self' = self /\ entry' = entry /\ disk' = disk
      /\ data' = data /\ result' = result /\ edits' = edits /\ Temp' = Temp
  BY <1>1 DEF GiveUp, files, world, Temp
<1>3. report'[Temp] = rep /\ report[Temp] = "none"
  BY <1>1, TempIsTemp DEF EndAs, Books, OneTemp, IInv
<1>4. Counted' <=> Counted
  BY <1>1, <1>2, <1>3 DEF Counted
<1> QED
  BY <1>2, <1>4, SameViews, WroteNow, WroteNext DEF OneOutput, Atomic!vars

LEMMA SyncPublicationRefines ==
    ASSUME IInv, Books, IInv', Books', SyncPublication(Temp, "done"), UNCHANGED command
    PROVE  Atomic!Settle
<1>1. /\ stage = "sync" /\ self # NoRun /\ stage' = "done" /\ self' = self
      /\ disk' = (IF Windows THEN disk ELSE entry)
      /\ report' = [report EXCEPT ![Temp] = "published"]
      /\ entry' = entry /\ data' = data
      /\ result' = result /\ edits' = edits /\ Temp' = Temp
  BY DEF SyncPublication, At, world, Temp
<1>2. report'[Temp] = "published"
  BY <1>1, TempIsTemp DEF IInv, TypeOK, FolderTypeOK
<1>3. Counted /\ Counted'
  BY <1>1, <1>2 DEF Counted
<1>4. Shown' = Shown /\ (Safe' = Safe \/ Safe' = Shown)
  BY <1>1 DEF Shown, Safe, Content
<1>5. Safe' = [n \in Names |-> IF Safe'[n] = Shown[n] THEN Shown[n] ELSE Safe[n]]
  BY <1>4 DEF Shown, Safe
<1> QED
  BY <1>1, <1>3, <1>4, <1>5, WroteNow, WroteNext DEF OneOutput, Atomic!Settle

LEMMA EndRefines ==
    ASSUME IInv, Books, IInv', Books', End
    PROVE  Atomic!Succeed \/ Atomic!Fail
<1>1. /\ self # NoRun /\ stage \in {"leaving", "done"} /\ self' = NoRun
      /\ result' = [result EXCEPT ![self] = ExitCode]
      /\ entry' = entry /\ disk' = disk /\ data' = data /\ edits' = edits
  BY DEF End, Leave, At, Gone, directory, files
<1>2. Shown' = Shown /\ Safe' = Safe /\ Wrote' = 0
  BY <1>1, SameViews, WroteNext DEF OneOutput, Counted
<1>3. CASE stage = "done"
  <2>1. ExitCode = "success"
    BY <1>3 DEF ExitCode
  <2>2. Wrote = 1
    BY <1>1, <1>3, WroteNow DEF OneOutput, Counted, Books, DoneSettled
  <2>3. ~Windows => Safe = Shown
    BY <1>3 DEF Books, DoneSettled, Safe, Shown
  <2> QED
    BY <1>1, <1>2, <2>1, <2>2, <2>3 DEF Atomic!Succeed, Atomic!Ends
<1>4. CASE stage # "done"
  <2>1. ExitCode \in {"error", "cancelled", "killed"}
    BY <1>4 DEF ExitCode
  <2> QED
    BY <1>1, <1>2, <2>1 DEF Atomic!Fail, Atomic!Ends
<1> QED
  BY <1>3, <1>4

LEMMA DeathRefines ==
    ASSUME IInv, Books, IInv', Books', Kill \/ PowerLoss
    PROVE  Atomic!Fail \/ Atomic!PowerLoss
<1>1. CASE Kill
  <2>1. /\ self # NoRun /\ self' = NoRun /\ result' = [result EXCEPT ![self] = "killed"]
        /\ entry' = entry /\ disk' = disk /\ data' = data /\ edits' = edits
    BY <1>1 DEF Kill, Gone, directory, files
  <2>2. Shown' = Shown /\ Safe' = Safe /\ Wrote' = 0
    BY <2>1, SameViews, WroteNext DEF OneOutput, Counted
  <2> QED
    BY <2>1, <2>2 DEF Atomic!Fail, Atomic!Ends
<1>2. CASE PowerLoss
  <2>1. /\ self' = NoRun /\ entry' = disk /\ disk' = disk /\ edits' = edits
        /\ data' = [i \in Inodes |->
                      IF i \in Temps \ flushed /\ data[i] # Unborn THEN Torn ELSE data[i]]
        /\ result' = [r \in Runs |-> IF r = self THEN "killed" ELSE result[r]]
    BY <1>2 DEF PowerLoss
  <2>2. \A n \in Names : disk[n] # NoFile => data'[disk[n]] = data[disk[n]]
    BY <2>1 DEF IInv, TypeOK, FolderTypeOK, NamesWhole, Whole
  <2>3. Shown' = Safe /\ Safe' = Safe
    BY <2>1, <2>2 DEF Shown, Safe, Content
  <2>4. Wrote' = 0
    BY <2>1, WroteNext DEF OneOutput, Counted
  <2> QED
    BY <2>1, <2>3, <2>4 DEF Atomic!PowerLoss
<1> QED
  BY <1>1, <1>2

LEMMA UserRefines ==
    ASSUME IInv, Books, IInv', Books', User, UNCHANGED command
    PROVE  Atomic!User
<1>1. UserActs
  BY DEF User, UserEdit, UserPut, UserRemove, UserLink
<1>2. /\ self' = self /\ stage' = stage /\ report' = report /\ result' = result
      /\ edits' = edits + 1
  BY <1>1 DEF UserActs, process, verdicts
<1>3. Counted' <=> Counted
  BY <1>2 DEF Counted, Temp
<1> QED
  BY <1>2, <1>3, WroteNow, WroteNext, ViewsWholeNext DEF OneOutput, ViewsOK, Atomic!Views, Atomic!User

LEMMA WriteBackRefines ==
    ASSUME IInv, Books, IInv', Books', NEW n \in Names, WriteBack(n), UNCHANGED command
    PROVE  Atomic!Settle
<1>1. /\ disk' = [disk EXCEPT ![n] = entry[n]] /\ entry' = entry /\ data' = data
      /\ self' = self /\ stage' = stage /\ report' = report /\ result' = result
      /\ edits' = edits
  BY DEF WriteBack, files, process, verdicts, world
<1>2. Shown' = Shown
  BY <1>1 DEF Shown, Content
<1>3. Safe' = [m \in Names |-> IF m = n THEN Shown[n] ELSE Safe[m]]
  BY <1>1 DEF Shown, Safe, Content, IInv, TypeOK, FolderTypeOK
<1>4. Safe' = [m \in Names |-> IF Safe'[m] = Shown[m] THEN Shown[m] ELSE Safe[m]]
  BY <1>3
<1>5. Counted' <=> Counted
  BY <1>1 DEF Counted, Temp
<1> QED
  BY <1>1, <1>2, <1>4, <1>5, WroteNow, WroteNext DEF OneOutput, Atomic!Settle

LEMMA RefuseRefines ==
    ASSUME IInv, Books, IInv', Books', NEW r \in Runs, Refuse(r), UNCHANGED command
    PROVE  Atomic!Refuse(r)
<1>1. /\ self # NoRun /\ r # self /\ result[r] = "waiting"
      /\ result' = [result EXCEPT ![r] = "error"]
      /\ entry' = entry /\ disk' = disk /\ data' = data
      /\ self' = self /\ stage' = stage /\ report' = report /\ edits' = edits
  BY DEF Refuse, directory, files, process, world
<1>2. Counted' <=> Counted
  BY <1>1 DEF Counted, Temp
<1> QED
  BY <1>1, <1>2, SameViews, WroteNow, WroteNext DEF OneOutput, Atomic!Refuse

\* Every step is one of AtomicFolder, or is not seen.
LEMMA StepRefines ==
    ASSUME IInv, Books, IInv', Books', [Next]_vars
    PROVE  [Atomic!Next]_(Atomic!vars)
<1> USE DEF Atomic!Next
<1>1. CASE UNCHANGED vars
  BY <1>1, HiddenSteps
<1>2. ASSUME NEW r \in Runs, NEW c \in Commands, Start(r, c)
      PROVE  [Atomic!Next]_(Atomic!vars)
  BY <1>2, StartRefines
<1>3. CASE Step
  <2>1. CASE Publish
    BY <2>1, HiddenSteps, RenameRefines, ErrorsRefine, SyncPublicationRefines
       DEF Publish
  <2> QED
    BY <1>3, <2>1, HiddenSteps, ErrorsRefine, EndRefines DEF Step
<1>4. CASE Environment
  BY <1>4, HiddenSteps, DeathRefines, UserRefines, WriteBackRefines, RefuseRefines
     DEF Environment, Death
<1> QED
  BY <1>1, <1>2, <1>3, <1>4 DEF Next

(***************************************************************************)
(* xor and xcha are atomic: for every folder, every set of commands and    *)
(* any number of invocations, users' actions and crashes, all anybody can  *)
(* see of a command is one replacement of one name by a whole content      *)
(* (files.rs:179-216, README "complete old file to the complete new        *)
(* file").                                                                 *)
(***************************************************************************)
THEOREM Refinement == Spec => ImplementsAtomicFolder
<1>1. Init => Atomic!Init
  BY InitRefines
<1>2. IInv /\ Books /\ IInv' /\ Books' /\ [Next]_vars => [Atomic!Next]_(Atomic!vars)
  BY StepRefines
<1> QED
  BY <1>1, <1>2, BooksHold, PTL DEF Spec, ImplementsAtomicFolder, Atomic!Spec

-----------------------------------------------------------------------------
(***************************************************************************)
(* A command that finds everything in order is never refused, and every    *)
(* command has only so many steps to take.                                 *)
(***************************************************************************)

\* What an unhindered command knows of the files it has open.
LEMMA Sight ==
    ASSUME IInv, Unhindered
    PROVE  /\ cmd \in Commands /\ cmd.in \in Names /\ cmd.out \in Names
           /\ cmd.op \in Ops /\ KeyName[cmd.op] \in Names
           /\ cmd.replace => cmd.out = cmd.in
           /\ stage \in InputStages =>
                 /\ entry[cmd.in] = input.ino /\ stamp[input.ino] = input.stamp
                 /\ data[input.ino] = input.text /\ seen \subseteq {input.text}
           /\ stage \in KeyStages =>
                 /\ KeyFile = key.ino /\ stamp[key.ino] = key.stamp
                 /\ data[key.ino] = key.text /\ seenKey \subseteq {key.text}
<1>1. cmd \in Commands
  BY DEF IInv, Running, Unhindered
<1>2. /\ cmd.in \in Names /\ cmd.out \in Names /\ cmd.op \in Ops
      /\ cmd.replace => cmd.out = cmd.in
  BY <1>1, CommandsAssumption
<1>3. KeyName[cmd.op] \in Names
  BY <1>2, KeyAssumption
<1>4. stage \in InputStages =>
        /\ entry[cmd.in] = input.ino /\ stamp[input.ino] = input.stamp
        /\ data[input.ino] = input.text /\ seen \subseteq {input.text}
  BY DEF IInv, InputFrozen, Frozen, Unhindered, Unchanged
<1>5. stage \in KeyStages =>
        /\ KeyFile = key.ino /\ stamp[key.ino] = key.stamp
        /\ data[key.ino] = key.text /\ seenKey \subseteq {key.text}
  BY DEF IInv, KeyFrozen, Frozen, Unhindered, Unchanged, KeyFile
<1> QED
  BY <1>1, <1>2, <1>3, <1>4, <1>5

\* What has been read of input and key makes an output.
LEMMA OutputMade ==
    ASSUME IInv, Unhindered, stage = "stream", seen # {}, seenKey # {}
    PROVE  StreamOK
<1>1. /\ data[entry[cmd.in]] = input.text /\ seen = {input.text}
      /\ data[KeyFile] = key.text /\ seenKey = {key.text}
  BY Sight DEF InputStages, KeyStages, TempStages
<1>2. Xform(cmd.op, data[KeyFile], data[entry[cmd.in]]) # Reject
  BY DEF Unhindered, InOrder, InputStages, KeyStages, TempStages
<1>3. Output = Xform(cmd.op, key.text, input.text)
  BY <1>1 DEF Output
<1> QED
  BY <1>1, <1>2, <1>3 DEF StreamOK

\* None of its checks fails, before the rename or after it.
LEMMA NoRefusal ==
    ASSUME IInv, Unhindered, ~Faults
    PROVE  /\ ~Stop
           /\ ~RenameFails(Temp, cmd.out, cmd.replace)
           /\ ~ConfirmFails(Temp, cmd.out)
           /\ ~SyncPublicationFails(Temp)
<1> USE DEF InputStages, KeyStages, TempStages, WrittenStages, VerifiedStages
<1>1. ~cancelled
  BY DEF Unhindered
<1>2. /\ ~(At("input") /\ ~InputOK)
      /\ ~(At("target") /\ ~TargetOK)
  BY Sight DEF At, Unhindered, InOrder, TargetOK
<1>3. /\ ~(At("key") /\ ~KeyOK)
      /\ ~(At("load") /\ ~LoadOK)
  BY Sight DEF At, Unhindered, InOrder, KeyOK, LoadOK
<1>4. /\ ~(At("stream") /\ seen # {} /\ seenKey # {} /\ ~StreamOK)
      /\ ~(At("stream") /\ (data[input.ino] # input.text \/ data[key.ino] # key.text))
  BY OutputMade, Sight DEF At
<1>5. ~(At("verify") /\ ~VerifyOK)
  BY DEF At, Unhindered
<1>6. /\ ~(At("recheck") /\ ~Unchanged(cmd.in, input))
      /\ ~(At("keycheck") /\ ~Unchanged(KeyName[cmd.op], key))
      /\ ~(At("final") /\ cmd.replace /\ ~Unchanged(cmd.out, input))
  BY Sight DEF At, Unhindered
<1>7. ~(At("links") /\ cmd.replace /\ ~OneLink(input.ino))
  BY Sight DEF At, Unhindered, InOrder
<1>8. ~Stop
  BY <1>1, <1>2, <1>3, <1>4, <1>5, <1>6, <1>7 DEF Stop, CheckFails, CallFails
<1>9. ~RenameFails(Temp, cmd.out, cmd.replace)
  BY DEF RenameFails, At, Unhindered, InOrder
<1>10. ~ConfirmFails(Temp, cmd.out) /\ ~SyncPublicationFails(Temp)
  BY DEF ConfirmFails, SyncPublicationFails, At, Unhindered
<1> QED
  BY <1>8, <1>9, <1>10

\* The folder stays in order while the directory and the named files stay.
LEMMA StaysInOrder ==
    ASSUME IInv, Unhindered, InOrder, entry' = entry, cmd' = cmd,
           \A n \in Names : entry[n] # NoFile => data'[entry[n]] = data[entry[n]]
    PROVE  InOrder'
<1>1. /\ cmd.in \in Names /\ entry[cmd.in] # NoFile
      /\ KeyName[cmd.op] \in Names /\ KeyFile # NoFile /\ KeyFile' = KeyFile
  BY Sight DEF InOrder, InputOK, KeyFile
<1>2. data'[entry[cmd.in]] = data[entry[cmd.in]] /\ data'[KeyFile] = data[KeyFile]
  BY <1>1 DEF KeyFile
<1>3. InputOK'
  BY DEF InOrder, InputOK
<1>4. IF cmd'.replace THEN OneLink(entry[cmd.in])'
      ELSE cmd'.out \notin Protected /\ entry'[cmd'.out] = NoFile
  BY DEF InOrder, OneLink
<1>5. /\ KeyFits(cmd.op, data'[KeyFile'], data'[entry[cmd.in]])
      /\ Xform(cmd.op, data'[KeyFile'], data'[entry[cmd.in]]) # Reject
  BY <1>1, <1>2 DEF InOrder
<1> QED
  BY <1>1, <1>3, <1>4, <1>5 DEF InOrder

\* A step that changes neither names nor metadata keeps what was to hold.
LEMMA StaysUnhindered ==
    ASSUME IInv, Unhindered, self' = self, cancelled' = cancelled,
           entry' = entry, stamp' = stamp, cmd' = cmd,
           \A n \in Names : entry[n] # NoFile => data'[entry[n]] = data[entry[n]],
           stage' \in EarlyStages \cup PublishStages \cup {"done"},
           stage' \in {"input"} \cup InputStages => stage \in {"input"} \cup InputStages,
           stage' \in InputStages => Unchanged(cmd.in, input)',
           stage' \in KeyStages => Unchanged(KeyName[cmd.op], key)',
           stage' = "verify" => VerifyOK',
           stage' = "confirm" => entry[cmd.out] = Temp
    PROVE  Unhindered'
<1>1. stage' \in {"input"} \cup InputStages => InOrder'
  BY StaysInOrder DEF Unhindered
<1>2. self' # NoRun /\ ~cancelled' /\ Temp' = Temp
  BY DEF Unhindered, Temp
<1> QED
  BY <1>1, <1>2 DEF Unhindered

\* The steps on the way to the temporary file.
LEMMA OpeningUnhindered ==
    ASSUME IInv, Unhindered, [Next]_vars, edits' = edits, crashes' = crashes,
           OpenInput \/ ChooseTarget \/ OpenKey \/ LoadKey \/ CreateTemp
    PROVE  Unhindered'
<1> USE DEF InputStages, KeyStages, TempStages, WrittenStages, VerifiedStages
<1>1. \A n \in Names : entry[n] # NoFile => data'[entry[n]] = data[entry[n]]
  BY NamedFilesKept
<1>2. CASE OpenInput
  <2>1. /\ stage = "input" /\ stage' = "target" /\ cmd' = cmd
        /\ entry' = entry /\ stamp' = stamp /\ self' = self
        /\ cancelled' = cancelled /\ input' = Snapshot(entry[cmd.in])
    BY <1>2 DEF OpenInput, Passes, At, directory, files
  <2>2. Unchanged(cmd.in, input)'
    BY <2>1 DEF Snapshot, Unchanged
  <2> QED
    BY <1>1, <2>1, <2>2, StaysUnhindered DEF EarlyStages
<1>3. CASE ChooseTarget
  <2>1. /\ stage = "target" /\ stage' = "key" /\ cmd' = cmd /\ input' = input
        /\ entry' = entry /\ stamp' = stamp /\ self' = self
        /\ cancelled' = cancelled
    BY <1>3 DEF ChooseTarget, Passes, At, directory, files, command
  <2>2. Unchanged(cmd.in, input)'
    BY <2>1 DEF Unhindered, Unchanged
  <2> QED
    BY <1>1, <2>1, <2>2, StaysUnhindered DEF EarlyStages
<1>4. CASE OpenKey
  <2>1. /\ stage = "key" /\ stage' \in {"temp", "load"} /\ cmd' = cmd
        /\ entry' = entry /\ stamp' = stamp /\ self' = self
        /\ cancelled' = cancelled /\ input' = input /\ key' = Snapshot(KeyFile)
    BY <1>4 DEF OpenKey, Passes, At, directory, files
  <2>2. Unchanged(cmd.in, input)' /\ Unchanged(KeyName[cmd.op], key)'
    BY <2>1 DEF Unhindered, Unchanged, Snapshot, KeyFile
  <2> QED
    BY <1>1, <2>1, <2>2, StaysUnhindered DEF EarlyStages
<1>5. CASE LoadKey \/ CreateTemp
  <2>1. /\ stage \in {"load", "temp"} /\ stage' \in {"temp", "stream"}
        /\ cmd' = cmd /\ entry' = entry /\ stamp' = stamp /\ self' = self
        /\ cancelled' = cancelled /\ input' = input /\ key' = key
    BY <1>5 DEF LoadKey, CreateTemp, MakeTemp, Passes, At, directory, files, command
  <2>2. Unchanged(cmd.in, input)' /\ Unchanged(KeyName[cmd.op], key)'
    BY <2>1 DEF Unhindered, Unchanged
  <2> QED
    BY <1>1, <2>1, <2>2, StaysUnhindered DEF EarlyStages
<1> QED
  BY <1>2, <1>3, <1>4, <1>5

\* The stream, the read-back and the re-checks.
LEMMA StreamUnhindered ==
    ASSUME IInv, Unhindered, [Next]_vars, edits' = edits, crashes' = crashes,
           ReadInput \/ ReadKey \/ EndStream \/ Verify \/ RecheckInput \/ RecheckKey
    PROVE  Unhindered'
<1> USE DEF InputStages, KeyStages, TempStages, WrittenStages, VerifiedStages
<1>1. \A n \in Names : entry[n] # NoFile => data'[entry[n]] = data[entry[n]]
  BY NamedFilesKept
<1>2. /\ stage \in {"stream", "verify", "recheck", "keycheck"}
      /\ stage' \in {"stream", "verify", "recheck", "keycheck", "publish"}
      /\ cmd' = cmd /\ entry' = entry /\ stamp' = stamp /\ self' = self
      /\ cancelled' = cancelled /\ input' = input /\ key' = key
  <2>1. CASE ReadInput \/ ReadKey
    BY <2>1, FolderFrame DEF ReadInput, ReadKey, At
  <2>2. CASE EndStream
    BY <2>2 DEF EndStream, Write, At, directory
  <2>3. CASE Verify \/ RecheckInput \/ RecheckKey
    BY <2>3 DEF Verify, ReadBack, RecheckInput, RecheckKey, Passes, At,
                directory, files, command
  <2> QED
    BY <2>1, <2>2, <2>3
<1>3. Unchanged(cmd.in, input)' /\ Unchanged(KeyName[cmd.op], key)'
  BY <1>2 DEF Unhindered, Unchanged
<1>4. stage' = "verify" => VerifyOK'
  <2>1. ASSUME stage' = "verify" PROVE EndStream
    BY <2>1, FolderFrame
       DEF ReadInput, ReadKey, Verify, ReadBack, RecheckInput, RecheckKey,
           Passes, At
  <2>2. Temp \in Inodes
    BY DEF IInv, Unhindered, TypeOK, FolderTypeOK, Temps, Temp, Inodes
  <2>3. ASSUME EndStream PROVE data'[Temp] = digest' /\ Temp' = Temp
    BY <2>2, <2>3 DEF EndStream, Write, IInv, TypeOK, FolderTypeOK, Temp
  <2> QED
    BY <2>1, <2>3 DEF VerifyOK
<1> QED
  BY <1>1, <1>2, <1>3, <1>4, StaysUnhindered DEF EarlyStages, PublishStages

\* The publication.
LEMMA PublishUnhindered ==
    ASSUME IInv, Unhindered, ~Faults, [Next]_vars,
           edits' = edits, crashes' = crashes, Publish
    PROVE  Unhindered'
<1> USE DEF InputStages, KeyStages, TempStages, WrittenStages, VerifiedStages
<1>1. \A n \in Names : entry[n] # NoFile => data'[entry[n]] = data[entry[n]]
  BY NamedFilesKept
<1>2. command' = command
  BY DEF Publish
<1>3. CASE \/ SyncTemp(Temp)
           \/ FinalUnchanged(cmd.replace, cmd.out, input)
           \/ FinalLinks(cmd.replace, input)
  <2>1. /\ stage \in {"publish", "final", "links"}
        /\ stage' \in {"final", "links", "rename"}
        /\ entry' = entry /\ stamp' = stamp /\ self' = self
        /\ cancelled' = cancelled
    BY <1>3 DEF SyncTemp, FinalUnchanged, FinalLinks, At, directory, files
  <2>2. Unchanged(cmd.in, input)' /\ Unchanged(KeyName[cmd.op], key)'
    BY <1>2, <2>1 DEF Unhindered, Unchanged, command
  <2>3. cmd' = cmd
    BY <1>2 DEF command
  <2> QED
    BY <1>1, <2>1, <2>2, <2>3, StaysUnhindered DEF PublishStages
<1>4. CASE Rename(Temp, cmd.out, cmd.replace)
  <2>1. /\ stage' = "confirm" /\ self' = self /\ cancelled' = cancelled
        /\ entry' = [entry EXCEPT ![cmd.out] = Temp] /\ cmd' = cmd
    BY <1>2, <1>4 DEF Rename, command
  <2>2. entry'[cmd.out] = Temp
    BY <2>1, Sight DEF IInv, TypeOK, FolderTypeOK
  <2> QED
    BY <2>1, <2>2 DEF Unhindered, Temp, EarlyStages, PublishStages
<1>5. CASE Confirm(Temp, cmd.out) \/ SyncPublication(Temp, "done")
  <2>1. /\ stage' \in {"sync", "done"} /\ self' = self /\ cancelled' = cancelled
    BY <1>5 DEF Confirm, SyncPublication
  <2> QED
    BY <2>1 DEF Unhindered, EarlyStages, PublishStages
<1> QED
  BY <1>3, <1>4, <1>5, NoRefusal DEF Publish

\* Writeback and refused invocations do not hinder it.
LEMMA EnvironmentUnhindered ==
    ASSUME IInv, Unhindered, ~Faults, [Next]_vars,
           edits' = edits, crashes' = crashes, Environment \/ UNCHANGED vars
    PROVE  Unhindered'
<1>1. ~Death /\ ~User
  BY DEF Death, Kill, PowerLoss, User, UserEdit, UserPut, UserRemove, UserLink,
         UserActs, IInv, TypeOK, FolderTypeOK
<1>2. /\ data' = data /\ stage' = stage /\ entry' = entry /\ stamp' = stamp
      /\ self' = self /\ cancelled' = cancelled /\ command' = command
  <2>1. CASE UNCHANGED vars
    BY <2>1, FolderFrame DEF vars
  <2>2. CASE Environment
    BY <1>1, <2>2
       DEF Environment, Damage, Corrupt, Interrupt, WriteBack, Refuse, directory,
           files, process
  <2> QED
    BY <2>1, <2>2
<1>3. Unchanged(cmd.in, input)' <=> Unchanged(cmd.in, input)
  BY <1>2 DEF Unchanged, command
<1>4. Unchanged(KeyName[cmd.op], key)' <=> Unchanged(KeyName[cmd.op], key)
  BY <1>2 DEF Unchanged, command
<1>5. VerifyOK' <=> VerifyOK
  BY <1>2 DEF VerifyOK, Temp, command
<1>6. cmd' = cmd
  BY <1>2 DEF command
<1> QED
  BY <1>2, <1>3, <1>4, <1>5, <1>6, StaysUnhindered DEF Unhindered

\* Without faults nobody presses Ctrl-C.
LEMMA NoCancel ==
    ASSUME ~Faults
    PROVE  Spec => []~cancelled
<1>1. Init => ~cancelled
  BY DEF Init, FolderInit
<1>2. ASSUME ~cancelled, [Next]_vars PROVE ~cancelled'
  <2>1. CASE UNCHANGED vars
    BY <1>2, <2>1, FolderFrame DEF vars
  <2>2. CASE \E r \in Runs, c \in Commands : Start(r, c)
    BY <1>2, <2>2 DEF Start, Enter
  <2>3. CASE Publish
    BY <1>2, <2>3
       DEF Publish, SyncTemp, FinalUnchanged, FinalLinks, Rename, RenameFails,
           Confirm, ConfirmFails, SyncPublication, SyncPublicationFails, GiveUp
  <2>4. CASE ReadInput \/ ReadKey
    BY <1>2, <2>4, FolderFrame DEF ReadInput, ReadKey
  <2>5. CASE Step /\ ~Publish /\ ~ReadInput /\ ~ReadKey
    BY <1>2, <2>5
       DEF Step, OpenInput, ChooseTarget, OpenKey, LoadKey, CreateTemp, MakeTemp,
           EndStream, Write, Verify, ReadBack, RecheckInput, RecheckKey, Passes,
           Stop, Abort, GiveUp, End, Leave, Gone
  <2>6. CASE Environment
    BY <1>2, <2>6
       DEF Environment, Damage, Corrupt, Death, Kill, PowerLoss, Gone, Interrupt,
           User, UserEdit, UserPut, UserRemove, UserLink, UserActs, WriteBack,
           Refuse, process
  <2> QED
    BY <1>2, <2>1, <2>2, <2>3, <2>4, <2>5, <2>6 DEF Next
<1> QED
  BY <1>1, <1>2, PTL DEF Spec

(***************************************************************************)
(* The safety half of ReadySucceeds: a command that is ready is            *)
(* unhindered; whatever it does then, and whatever writeback and other     *)
(* invocations do, it stays so until it has ended with exit code 0, unless *)
(* the user acts, a crash comes or a call fails.  No check of xor_file or  *)
(* xcha_file trips over the command itself (app.rs:97-175).                *)
(***************************************************************************)
THEOREM ReadyNeverRefused ==
    ASSUME ~Faults
    PROVE  Spec => /\ [](Ready => Unhindered)
                   /\ [][Unhindered /\ edits' = edits /\ crashes' = crashes
                           => Unhindered' \/ result'[self] = "success"]_vars
<1>1. ASSUME IInv, ~cancelled PROVE Ready => Unhindered
  BY <1>1
     DEF Ready, At, Unhindered, EarlyStages, InputStages, KeyStages, TempStages,
         WrittenStages, VerifiedStages
<1>2. ASSUME IInv, [Next]_vars, Unhindered, edits' = edits, crashes' = crashes
      PROVE  Unhindered' \/ result'[self] = "success"
  <2>1. ASSUME NEW r \in Runs, NEW c \in Commands PROVE ~Start(r, c)
    BY <1>2 DEF Start, Enter, Unhindered
  <2>2. CASE End
    <3>1. /\ stage = "done" /\ self \in Runs
          /\ result' = [result EXCEPT ![self] = "success"]
      BY <1>2, <2>2 DEF End, Leave, At, Gone, ExitCode, Unhindered, IInv, TypeOK,
                        FolderTypeOK, EarlyStages, PublishStages
    <3> QED
      BY <1>2, <3>1 DEF IInv, TypeOK, FolderTypeOK
  <2> QED
    BY <1>2, <2>1, <2>2, OpeningUnhindered, StreamUnhindered, PublishUnhindered,
       EnvironmentUnhindered, NoRefusal
       DEF Next, Step
<1> QED
  BY <1>1, <1>2, InvHolds, NoCancel, PTL DEF Spec

\* The rank is that of the stage, and while streaming up to two more.
LEMMA RankIs ==
    ASSUME TypeOK
    PROVE  /\ StepsLeft[stage] \in 0..18 /\ Rank \in Nat
           /\ Unread(input, seen) \in {0, 1} /\ Unread(key, seenKey) \in {0, 1}
           /\ Rank = StepsLeft[stage] + Unread(input, seen) + Unread(key, seenKey)
           /\ stage # "stream" => Rank = StepsLeft[stage]
<1>1. StepsLeft[stage] \in 0..18
  BY DEF StepsLeft, TypeOK, FolderTypeOK, Stages, EarlyStages, PublishStages
<1>2. Unread(input, seen) \in {0, 1} /\ Unread(key, seenKey) \in {0, 1}
  BY DEF Unread
<1>3. stage # "stream" => Unread(input, seen) = 0 /\ Unread(key, seenKey) = 0
  BY DEF Unread
<1>4. Rank = StepsLeft[stage] + Unread(input, seen) + Unread(key, seenKey)
  BY DEF Rank
<1> QED
  BY <1>1, <1>2, <1>3, <1>4
LEMMA RankNext ==
    ASSUME TypeOK'
    PROVE  /\ StepsLeft[stage'] \in 0..18 /\ Rank' \in Nat
           /\ Rank' <= StepsLeft[stage'] + 2
           /\ stage' # "stream" => Rank' = StepsLeft[stage']
<1>1. StepsLeft[stage'] \in 0..18
  BY DEF StepsLeft, TypeOK, FolderTypeOK, Stages, EarlyStages, PublishStages
<1>2. Unread(input, seen)' \in {0, 1} /\ Unread(key, seenKey)' \in {0, 1}
  BY DEF Unread
<1>3. stage' # "stream" => Unread(input, seen)' = 0 /\ Unread(key, seenKey)' = 0
  BY DEF Unread
<1>4. Rank' = StepsLeft[stage'] + Unread(input, seen)' + Unread(key, seenKey)'
  BY DEF Rank, StepsLeft
<1> QED
  BY <1>1, <1>2, <1>3, <1>4

\* A read takes a content from those not yet seen.
LEMMA ReadLowers ==
    ASSUME IInv, IInv', ReadInput \/ ReadKey
    PROVE  Rank' < Rank
<1>1. /\ stage = "stream" /\ stage' = "stream" /\ data' = data
      /\ input' = input /\ key' = key
  BY FolderFrame DEF ReadInput, ReadKey, At
<1>2. Rank' = StepsLeft[stage] + Unread(input, seen)' + Unread(key, seenKey)'
  BY <1>1 DEF Rank, StepsLeft
<1>3. CASE ReadInput
  <2>1. /\ Unread(input, seen) = 1 /\ Unread(input, seen)' = 0
        /\ Unread(key, seenKey)' = Unread(key, seenKey)
    BY <1>1, <1>3 DEF ReadInput, Unread
  <2> QED
    BY <1>2, <2>1, RankIs DEF IInv
<1>4. CASE ReadKey
  <2>1. /\ Unread(key, seenKey) = 1 /\ Unread(key, seenKey)' = 0
        /\ Unread(input, seen)' = Unread(input, seen)
    BY <1>1, <1>4 DEF ReadKey, Unread
  <2> QED
    BY <1>2, <2>1, RankIs DEF IInv
<1> QED
  BY <1>3, <1>4

\* Every other step of the command leads to a stage with fewer steps left.
LEMMA StepLowers ==
    ASSUME IInv, IInv', Step
    PROVE  Rank' < Rank
<1> DEFINE L == StepsLeft
<1>1. CASE ReadInput \/ ReadKey
  BY <1>1, ReadLowers
<1>2. CASE OpenInput \/ ChooseTarget \/ OpenKey \/ LoadKey
  <2>1. \/ stage = "input" /\ stage' = "target"
        \/ stage = "target" /\ stage' = "key"
        \/ stage = "key" /\ stage' \in {"temp", "load"}
        \/ stage = "load" /\ stage' = "temp"
    BY <1>2 DEF OpenInput, ChooseTarget, OpenKey, LoadKey, Passes, At
  <2>2. L[stage'] < L[stage] /\ stage # "stream" /\ stage' # "stream"
    BY <2>1 DEF StepsLeft
  <2> QED
    BY <2>2, RankIs, RankNext DEF IInv
<1>3. CASE CreateTemp
  <2>1. stage = "temp" /\ stage' = "stream"
    BY <1>3 DEF CreateTemp, MakeTemp, At
  <2>2. L[stage] = 14 /\ L[stage'] = 11 /\ stage # "stream"
    BY <2>1 DEF StepsLeft
  <2> QED
    BY <2>2, RankIs, RankNext DEF IInv
<1>4. CASE EndStream \/ Verify \/ RecheckInput \/ RecheckKey
  <2>1. \/ stage = "stream" /\ stage' = "verify"
        \/ stage = "verify" /\ stage' = "recheck"
        \/ stage = "recheck" /\ stage' = "keycheck"
        \/ stage = "keycheck" /\ stage' = "publish"
    BY <1>4 DEF EndStream, Write, Verify, ReadBack, RecheckInput, RecheckKey,
                Passes, At
  <2>2. L[stage'] < L[stage] /\ stage' # "stream"
    BY <2>1 DEF StepsLeft
  <2> QED
    BY <2>2, RankIs, RankNext DEF IInv
<1>5. CASE Publish
  <2>1. \/ stage = "publish" /\ stage' = "final"
        \/ stage = "final" /\ stage' = "links"
        \/ stage = "links" /\ stage' = "rename"
        \/ stage = "rename" /\ stage' \in {"confirm", "leaving"}
        \/ stage = "confirm" /\ stage' \in {"sync", "leaving"}
        \/ stage = "sync" /\ stage' \in {"done", "leaving"}
    BY <1>5
       DEF Publish, SyncTemp, FinalUnchanged, FinalLinks, Rename, RenameFails,
           Confirm, ConfirmFails, SyncPublication, SyncPublicationFails, GiveUp,
           At
  <2>2. L[stage'] < L[stage] /\ stage # "stream" /\ stage' # "stream"
    BY <2>1 DEF StepsLeft
  <2> QED
    BY <2>2, RankIs, RankNext DEF IInv
<1>6. CASE Stop
  <2>1. /\ stage \in EarlyStages \cup {"publish", "final", "links"}
        /\ stage' = "leaving"
    BY <1>6 DEF Stop, CheckFails, CallFails, At, Abort, GiveUp, EarlyStages
  <2>2. L[stage'] < L[stage] /\ stage' # "stream"
    BY <2>1 DEF StepsLeft, EarlyStages
  <2> QED
    BY <2>2, RankIs, RankNext DEF IInv
<1>7. CASE End
  <2>1. stage \in {"leaving", "done"} /\ stage' = "idle"
    BY <1>7 DEF End, Leave, Gone, At
  <2>2. L[stage'] < L[stage] /\ stage' # "stream"
    BY <2>1 DEF StepsLeft
  <2> QED
    BY <2>2, RankIs, RankNext DEF IInv
<1> QED
  BY <1>1, <1>2, <1>3, <1>4, <1>5, <1>6, <1>7 DEF Step

\* Without the user, only a command that begins has more steps to take.
LEMMA OthersKeepRank ==
    ASSUME IInv, IInv', Environment \/ UNCHANGED vars, self' = self
    PROVE  Rank' <= Rank + 2 * (edits' - edits)
<1>1. edits \in Nat /\ Rank \in Nat
  BY RankIs DEF IInv, TypeOK, FolderTypeOK
<1>2. CASE Death
  <2>1. stage = "idle" /\ stage' = "idle" /\ edits' = edits
    BY <1>2 DEF Death, Kill, PowerLoss, Gone, IInv, Running
  <2>2. Rank' = Rank
    BY <2>1, RankIs, RankNext DEF IInv
  <2> QED
    BY <1>1, <2>1, <2>2
<1>3. CASE User
  <2>1. stage' = stage /\ edits' = edits + 1
    BY <1>3 DEF User, UserEdit, UserPut, UserRemove, UserLink, UserActs, process
  <2>2. Rank' <= Rank + 2
    BY <2>1, RankIs, RankNext DEF IInv
  <2> QED
    BY <1>1, <2>1, <2>2
<1>4. CASE (Environment /\ ~Death /\ ~User) \/ UNCHANGED vars
  <2>1. /\ stage' = stage /\ command' = command /\ edits' = edits
        /\ stage = "stream" => data' = data
    <3>1. CASE UNCHANGED vars
      BY <3>1, FolderFrame DEF vars, world
    <3>2. CASE Environment /\ ~Death /\ ~User
      BY <3>2
         DEF Environment, Damage, Corrupt, Interrupt, WriteBack, Refuse, files,
             process, world, At
    <3> QED
      BY <1>4, <3>1, <3>2
  <2>2. /\ Unread(input, seen)' = Unread(input, seen)
        /\ Unread(key, seenKey)' = Unread(key, seenKey)
    BY <2>1 DEF Unread, command
  <2>3. Rank' = Rank
    BY <2>1, <2>2 DEF Rank, StepsLeft
  <2> QED
    BY <1>1, <2>1, <2>3
<1> QED
  BY <1>2, <1>3, <1>4 DEF Environment

(***************************************************************************)
(* The safety half of EveryRunEnds: whatever fails, is interrupted or is   *)
(* changed, every step of a command brings it nearer to its end, and an    *)
(* action of the user can cost it two more reads of a changed file at      *)
(* most.  No check is repeated and nothing is waited for (app.rs:97-175,   *)
(* files.rs:179-216).                                                      *)
(***************************************************************************)
THEOREM EveryRunIsBounded ==
    Spec => /\ [](Rank \in Nat)
            /\ [][/\ Step => Rank' < Rank
                  /\ self' = self => Rank' <= Rank + 2 * (edits' - edits)]_vars
<1>1. IInv => Rank \in Nat
  BY RankIs DEF IInv
<1>2. ASSUME IInv, IInv', [Next]_vars
      PROVE  /\ Step => Rank' < Rank
             /\ self' = self => Rank' <= Rank + 2 * (edits' - edits)
  <2>1. Step => Rank' < Rank
    BY <1>2, StepLowers
  <2>2. CASE Step /\ self' = self
    <3>1. edits' = edits
      <4>1. CASE ReadInput \/ ReadKey
        BY <4>1, FolderFrame DEF ReadInput, ReadKey
      <4>2. CASE Publish
        BY <4>2
           DEF Publish, SyncTemp, FinalUnchanged, FinalLinks, Rename, RenameFails,
               Confirm, ConfirmFails, SyncPublication, SyncPublicationFails,
               GiveUp, world
      <4>3. CASE Step /\ ~Publish /\ ~ReadInput /\ ~ReadKey
        BY <4>3
           DEF Step, OpenInput, ChooseTarget, OpenKey, LoadKey, CreateTemp,
               MakeTemp, EndStream, Write, Verify, ReadBack, RecheckInput,
               RecheckKey, Passes, Stop, Abort, GiveUp, End, Leave, world
      <4> QED
        BY <2>2, <4>1, <4>2, <4>3
    <3> QED
      BY <1>2, <2>1, <2>2, <3>1, RankIs, RankNext DEF IInv, TypeOK, FolderTypeOK
  <2>3. CASE (\E r \in Runs, c \in Commands : Start(r, c)) /\ self' = self
    BY <2>3, RunsAssumption DEF Start, Enter
  <2> QED
    BY <1>2, <2>1, <2>2, <2>3, OthersKeepRank DEF Next
<1> QED
  BY <1>1, <1>2, InvHolds, PTL DEF Spec
=============================================================================
