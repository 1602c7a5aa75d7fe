----------------------------- MODULE KeyPairProofs -----------------------------
(***************************************************************************)
(* The inductive invariant IInv of module KeyPair, and what follows from   *)
(* it for every folder, every set of passwords and metadata and any number *)
(* of invocations, user actions and crashes.                               *)
(***************************************************************************)
EXTENDS KeyPair, TLAPS

\* The initial folder satisfies the invariant.
LEMMA InitEstablishesInv == Init => IInv
<1> SUFFICES ASSUME Init PROVE IInv
  OBVIOUS
<1> USE RunsAssumption, InodesAssumption, TextsAssumption, NamesAssumption
<1>1. PICK g \in Given :
        /\ entry = [n \in Names |-> IF g[n] = Unborn THEN NoFile ELSE n]
        /\ data = [i \in Inodes |-> IF i \in Names THEN g[i] ELSE Unborn]
  BY DEF Init, FolderInit
<1>2. /\ Names \subseteq Inodes
      /\ \A n \in Names : g[n] \in Texts \cup {Unborn}
  BY DEF Inodes
<1>3. TypeOK
  <2>1. entry \in [Names -> Inodes \cup {NoFile}]
    BY <1>1, <1>2
  <2>2. data \in [Inodes -> Contents]
    BY <1>1, <1>2 DEF Contents
  <2>3. /\ stamp \in [Inodes -> Nat]
        /\ report \in [Temps -> Reports]
        /\ result \in [Runs -> Results]
    BY DEF Init, FolderInit, Reports, Results
  <2>4. FolderTypeOK(Stages)
    BY <2>1, <2>2, <2>3 DEF Init, FolderInit, FolderTypeOK, Stages
  <2> QED
    BY <2>4 DEF Init, TypeOK, Contents
<1>4. \A n \in Names : entry[n] # NoFile => entry[n] = n /\ data[n] \in Texts
  BY <1>1, <1>2
<1>5. NamesWhole
  BY <1>4 DEF Init, FolderInit, NamesWhole, Whole
<1>6. Untouched
  BY <1>1 DEF Init, FolderInit, Untouched, Temps, Inodes
<1>7. Recipes
  <2>1. entry[KeyFile] \notin Temps
    BY <1>4 DEF Inodes
  <2> QED
    BY <2>1 DEF Recipes, Temps
<1>8. /\ Running /\ Known /\ MetaKept /\ TempsApart /\ Verified /\ Progress
  BY DEF Init, FolderInit, Running, Known, MetaKept, TempsApart, KeyPending,
         MetaPending, Verified, Progress, Typed, Derived, WithKey, Checked,
         PublishStages
<1> QED
  BY <1>3, <1>5, <1>6, <1>7, <1>8 DEF IInv

-----------------------------------------------------------------------------
(* Frames: what of the invariant a kind of step leaves to prove *)

\* Once a command has nothing in hand, only the folder matters.
LEMMA Afterwards ==
    ASSUME TypeOK', Running', NamesWhole', Untouched', Recipes',
           stage' \notin Typed
    PROVE  IInv'
BY DEF IInv, Known, MetaKept, TempsApart, KeyPending, MetaPending, Verified,
       Progress, Typed, Derived, WithKey, Checked, PublishStages

\* The names stay whole when neither directory nor contents change.
LEMMA NamesKept ==
    ASSUME NamesWhole, entry' = entry, data' = data, flushed \subseteq flushed',
           \A n \in Names : disk'[n] \in {disk[n], entry[n]}
    PROVE  NamesWhole'
BY DEF NamesWhole, Whole

\* And so do the pairs of files.
LEMMA RecipesKept ==
    ASSUME Recipes, entry' = entry, data' = data,
           crashes' = crashes, tampered' = tampered,
           \A n \in Names : disk'[n] \in {disk[n], entry[n]}
    PROVE  Recipes'
BY NamesAssumption DEF Recipes, Absent

\* A step of the command in terms of its variables.
LEMMA PassesFrame ==
    ASSUME NEW next, Passes(next)
    PROVE  /\ stage' = next
           /\ entry' = entry /\ disk' = disk /\ temps' = temps
           /\ data' = data /\ flushed' = flushed /\ stamp' = stamp
           /\ self' = self /\ cancelled' = cancelled
           /\ report' = report /\ result' = result
           /\ late' = late /\ edits' = edits /\ crashes' = crashes
BY DEF Passes, directory, files, verdicts, world

-----------------------------------------------------------------------------
(* The actions of a command, until it has the key's recipe *)

\* A command that begins has nothing in hand, and nothing of it is there yet.
LEMMA StartKeeps ==
    ASSUME IInv, NEW r \in Runs, NEW c \in Commands, Start(r, c)
    PROVE  IInv'
<1>1. /\ self = NoRun /\ self' = r /\ result[r] = "waiting"
      /\ stage' = IF c = "xchakey" THEN "target" ELSE "preflight"
      /\ cmd' = c /\ pw' = pw /\ meta' = meta /\ recipe' = recipe
      /\ tampered' = tampered
      /\ entry' = entry /\ disk' = disk /\ temps' = temps
      /\ data' = data /\ flushed' = flushed /\ stamp' = stamp
      /\ cancelled' = cancelled /\ held' = held
      /\ report' = report /\ result' = result
      /\ late' = late /\ edits' = edits /\ crashes' = crashes
  BY DEF Start, Enter, directory, files, verdicts, world
<1>2. r # NoRun
  BY RunsAssumption
<1>3. TypeOK'
  BY <1>1 DEF IInv, TypeOK, FolderTypeOK, Stages, EarlyStages
<1>4. Running'
  BY <1>1, <1>2 DEF Running
<1>5. Untouched'
  BY <1>1, RunsAssumption DEF IInv, Untouched
<1>6. NamesWhole' /\ Recipes'
  BY <1>1, NamesKept, RecipesKept DEF IInv
<1>7. /\ Known' /\ MetaKept' /\ TempsApart' /\ Verified' /\ Progress'
  BY <1>1 DEF Known, MetaKept, TempsApart, KeyPending, MetaPending, Verified,
              Progress, Typed, Derived, WithKey, Checked, PublishStages
<1> QED
  BY <1>3, <1>4, <1>5, <1>6, <1>7 DEF IInv

\* An early step that leaves the folder alone has nothing written to lose.
LEMMA EarlyStep ==
    ASSUME IInv, TypeOK', self # NoRun, stage \in EarlyStages, Known', MetaKept',
           NEW next \in {"prompt", "target", "openmeta", "readmeta", "derive", "keytemp"},
           Passes(next), cmd' = cmd, tampered' = tampered,
           next \in {"openmeta", "readmeta"} => cmd = "restore",
           next = "prompt" => cmd # "xchakey"
    PROVE  IInv'
<1>1. Running' /\ Untouched'
  BY PassesFrame DEF IInv, Running, Untouched, EarlyStages
<1>2. NamesWhole' /\ Recipes'
  BY PassesFrame, NamesKept, RecipesKept DEF IInv
<1>3. TempsApart' /\ Verified' /\ Progress'
  BY PassesFrame
     DEF TempsApart, KeyPending, MetaPending, Verified, Progress, WithKey,
         Checked, PublishStages
<1> QED
  BY <1>1, <1>2, <1>3 DEF IInv

\* The names are as they should be: the password is asked for.
LEMMA PreflightKeeps == ASSUME IInv, Preflight PROVE IInv'
<1>1. /\ stage = "preflight" /\ self # NoRun /\ Passes("prompt")
      /\ held' = held /\ cmd' = cmd /\ pw' = pw /\ meta' = meta
      /\ recipe' = recipe /\ tampered' = tampered
  BY DEF Preflight, At, command
<1>2. TypeOK'
  BY <1>1, PassesFrame DEF IInv, TypeOK, FolderTypeOK, Stages, EarlyStages
<1>3. cmd # "xchakey"
  BY <1>1 DEF IInv, Running
<1>4. Known' /\ MetaKept'
  BY <1>1, PassesFrame
     DEF Known, MetaKept, Typed, Derived, WithKey, Checked, PublishStages
<1> QED
  BY <1>1, <1>2, <1>3, <1>4, EarlyStep DEF EarlyStages

\* The user types a password.
LEMMA PromptKeeps == ASSUME IInv, NEW w \in Passwords, Prompt(w) PROVE IInv'
<1>1. /\ stage = "prompt" /\ self # NoRun /\ Passes("target")
      /\ held' = held /\ cmd' = cmd /\ pw' = w /\ meta' = meta
      /\ recipe' = recipe /\ tampered' = tampered
  BY DEF Prompt, At
<1>2. TypeOK'
  BY <1>1, PassesFrame DEF IInv, TypeOK, FolderTypeOK, Stages, EarlyStages
<1>3. Known' /\ MetaKept'
  BY <1>1, PassesFrame
     DEF Known, MetaKept, Typed, Derived, WithKey, Checked, PublishStages
<1> QED
  BY <1>1, <1>2, <1>3, EarlyStep DEF EarlyStages

\* keymake makes the metadata of the key to come.
LEMMA TargetKeeps == ASSUME IInv, Target PROVE IInv'
<1> DEFINE next == CASE cmd = "make" -> "derive"
                     [] cmd = "restore" -> "openmeta"
                     [] cmd = "xchakey" -> "keytemp"
<1>1. /\ stage = "target" /\ self # NoRun /\ Passes(next)
      /\ held' = held /\ cmd' = cmd /\ pw' = pw /\ meta' = meta
      /\ recipe' = (IF cmd = "make" THEN MakeMeta(pw, self) ELSE recipe)
      /\ tampered' = tampered
  BY DEF Target, At
<1>2. cmd \in Commands /\ self \in Runs
  BY <1>1 DEF IInv, Running, TypeOK, FolderTypeOK
<1>3. cmd \in {"make", "restore"} => pw \in Passwords
  BY <1>1 DEF IInv, Known, Typed
<1>4. cmd = "make" =>
          /\ MakeMeta(pw, self) \in Texts
          /\ KeyOf(pw, MakeMeta(pw, self)) \in Texts
  BY <1>2, <1>3, KeysAssumption
<1>5. /\ next \in {"openmeta", "derive", "keytemp"}
      /\ next = "openmeta" <=> cmd = "restore"
      /\ next = "derive" <=> cmd = "make"
  BY <1>2 DEF Commands
<1> HIDE DEF next
<1>6. TypeOK'
  BY <1>1, <1>4, <1>5, PassesFrame
     DEF IInv, TypeOK, FolderTypeOK, Stages, EarlyStages, Contents
<1>7. Known'
  BY <1>1, <1>3, <1>4, <1>5, PassesFrame DEF Known, Derived, WithKey, Checked,
     PublishStages
<1>8. MetaKept'
  BY <1>1, <1>5, PassesFrame DEF MetaKept, Derived, WithKey, Checked, PublishStages
<1> QED
  BY <1>1, <1>5, <1>6, <1>7, <1>8, EarlyStep DEF EarlyStages

\* keyrestore opens the metadata as it is.
LEMMA OpenMetaKeeps == ASSUME IInv, OpenMeta PROVE IInv'
<1>1. /\ stage = "openmeta" /\ self # NoRun /\ Passes("readmeta")
      /\ entry[MetaFile] # NoFile
      /\ meta' = Snapshot(entry[MetaFile])
      /\ held' = held \cup {entry[MetaFile]}
      /\ cmd' = cmd /\ pw' = pw /\ recipe' = recipe /\ tampered' = tampered
  BY DEF OpenMeta, At, Absent
<1>2. /\ entry[MetaFile] \in Inodes /\ data[entry[MetaFile]] \in Texts
      /\ data[entry[MetaFile]] \in Contents /\ stamp[entry[MetaFile]] \in Nat
  BY <1>1, NamesAssumption
     DEF IInv, NamesWhole, Whole, TypeOK, FolderTypeOK
<1>3. /\ meta' \in [ino : Inodes, stamp : Nat, text : Contents]
      /\ meta'.ino = entry[MetaFile]
      /\ meta'.stamp = stamp[entry[MetaFile]]
      /\ meta'.text = data[entry[MetaFile]]
  BY <1>1, <1>2 DEF Snapshot
<1>4. TypeOK'
  BY <1>1, <1>2, <1>3, PassesFrame
     DEF IInv, TypeOK, FolderTypeOK, Stages, EarlyStages
<1>5. cmd = "restore"
  BY <1>1 DEF IInv, Running
<1>6. Known'
  BY <1>1, PassesFrame DEF IInv, Known, Typed, Derived, WithKey, Checked, PublishStages
<1>7. MetaKept'
  BY <1>1, <1>2, <1>3, PassesFrame
     DEF MetaKept, Derived, WithKey, Checked, PublishStages
<1> QED
  BY <1>1, <1>4, <1>5, <1>6, <1>7, EarlyStep DEF EarlyStages

\* And reads from the open file whatever it holds by then.
LEMMA ReadMetaKeeps == ASSUME IInv, ReadMeta PROVE IInv'
<1>1. /\ stage = "readmeta" /\ self # NoRun /\ Passes("derive")
      /\ KeyOf(pw, data[meta.ino]) # Reject
      /\ recipe' = data[meta.ino] /\ held' = held
      /\ cmd' = cmd /\ pw' = pw /\ meta' = meta /\ tampered' = tampered
  BY DEF ReadMeta, MetaOK, At
<1>2. cmd = "restore" /\ pw \in Passwords
  BY <1>1 DEF IInv, Running, Known, Typed
<1>3. data[meta.ino] \in Texts
  BY <1>1, <1>2 DEF IInv, MetaKept
<1>4. KeyOf(pw, data[meta.ino]) \in Texts
  BY <1>1, <1>2, <1>3, KeysAssumption
<1>5. TypeOK'
  BY <1>1, <1>3, PassesFrame
     DEF IInv, TypeOK, FolderTypeOK, Stages, EarlyStages, Contents
<1>6. Known'
  BY <1>1, <1>2, <1>3, <1>4, PassesFrame DEF Known, WithKey, Checked, PublishStages
<1>7. MetaKept'
  BY <1>1, <1>2, PassesFrame
     DEF IInv, MetaKept, PublishStages
<1> QED
  BY <1>1, <1>5, <1>6, <1>7, EarlyStep DEF EarlyStages

\* Argon2 changes nothing but the stage.
LEMMA DeriveKeeps == ASSUME IInv, Derive PROVE IInv'
<1>1. /\ stage = "derive" /\ self # NoRun /\ Passes("keytemp")
      /\ held' = held /\ cmd' = cmd /\ pw' = pw /\ meta' = meta
      /\ recipe' = recipe /\ tampered' = tampered
  BY DEF Derive, At, command
<1>2. TypeOK'
  BY <1>1, PassesFrame DEF IInv, TypeOK, FolderTypeOK, Stages, EarlyStages
<1>3. Known'
  BY <1>1, PassesFrame DEF IInv, Known, Typed, Derived, WithKey, Checked, PublishStages
<1>4. MetaKept'
  BY <1>1, PassesFrame DEF IInv, MetaKept, Derived, PublishStages
<1> QED
  BY <1>1, <1>2, <1>3, <1>4, EarlyStep DEF EarlyStages

-----------------------------------------------------------------------------
(* The temporary files *)

\* The temporary files of the running command.
LEMMA OwnTemps ==
    ASSUME IInv, self # NoRun
    PROVE  /\ KeyTemp \in Temps /\ MetaTemp \in Temps /\ KeyTemp # MetaTemp
           /\ KeyTemp \in Inodes /\ MetaTemp \in Inodes
           /\ Current \in {KeyTemp, MetaTemp}
           /\ Current = MetaTemp => cmd = "make"
BY DEF IInv, TypeOK, FolderTypeOK, Temps, Inodes, KeyTemp, MetaTemp, Current

\* A temporary file that does not exist yet has no name.
LEMMA UnbornNameless ==
    ASSUME IInv, NEW t \in Temps, data[t] = Unborn,
           cmd = "restore" => data[meta.ino] \in Texts
    PROVE  Nameless(t)
<1>1. data[t] \notin Texts /\ t # NoFile
  BY TextsAssumption, InodesAssumption DEF Inodes
<1> QED
  BY <1>1 DEF IInv, NamesWhole, Whole, Nameless

(***************************************************************************)
(* Only a temporary file without a name changes: no name, no metadata file *)
(* and no published pair does.                                             *)
(***************************************************************************)
LEMMA TempChanges ==
    ASSUME IInv, self # NoRun, NEW t \in {KeyTemp, MetaTemp}, NEW text \in Contents,
           t = MetaTemp => cmd = "make",
           Nameless(KeyTemp), Nameless(t),
           data' = [data EXCEPT ![t] = text],
           entry' = entry, disk' = disk, flushed' = flushed, stamp' = stamp,
           self' = self, command' = command, tampered' = tampered,
           report' = report, result' = result, crashes' = crashes,
           stage \in Derived \cap EarlyStages, stage' \in WithKey \cap EarlyStages,
           stage' # "expand" => stage \in WithKey /\ (cmd # "xchakey" => Describes(recipe, KeyText)),
           stage' \in Checked => stage \in Checked /\ t = MetaTemp,
           stage' \in {"write", "metaback"} => t = MetaTemp
    PROVE  /\ data' \in [Inodes -> Contents]
           /\ NamesWhole' /\ Untouched' /\ Known' /\ MetaKept'
           /\ TempsApart' /\ Verified' /\ Progress' /\ Recipes'
<1> USE OwnTemps
<1>1. cmd' = cmd /\ pw' = pw /\ meta' = meta /\ recipe' = recipe
  BY DEF command
<1>2. KeyTemp' = KeyTemp /\ MetaTemp' = MetaTemp /\ KeyText' = KeyText
  BY <1>1 DEF KeyTemp, MetaTemp, KeyText
<1>3. t \in Temps /\ t \in Inodes /\ data' \in [Inodes -> Contents]
  BY DEF IInv, TypeOK, FolderTypeOK
<1>4. /\ \A i \in Inodes \cup {NoFile} : i # t => data'[i] = data[i]
      /\ data'[t] = text
  BY <1>3 DEF IInv, TypeOK, FolderTypeOK
<1>5. NamesWhole'
  BY <1>4 DEF IInv, TypeOK, FolderTypeOK, NamesWhole, Whole, Nameless
<1>6. Untouched'
  <2>1. ASSUME NEW r \in Runs, result[r] = "waiting", r # self \/ cmd # "make"
        PROVE  data'[<<r, 2>>] = Unborn
    <3>1. <<r, 2>> # t /\ <<r, 2>> \in Inodes
      BY <2>1 DEF KeyTemp, MetaTemp, Inodes, Temps
    <3> QED
      BY <2>1, <3>1, <1>4 DEF IInv, Untouched
  <2> QED
    BY <1>1, <2>1 DEF IInv, Untouched
<1>7. Known'
  BY <1>1, <1>2 DEF IInv, Known, Typed, Derived, Commands
<1>8. MetaKept'
  <2>1. ASSUME cmd = "restore"
        PROVE  meta.ino \in Inodes /\ meta.ino # t /\ stage' \notin PublishStages
    BY <2>1 DEF IInv, MetaKept, Derived, Nameless, EarlyStages, PublishStages
  <2> QED
    BY <1>1, <1>4, <2>1 DEF IInv, MetaKept, Derived
<1>9. TempsApart'
  <2>1. ASSUME NEW u, Nameless(u) PROVE Nameless(u)'
    BY <1>1, <2>1 DEF Nameless
  <2>2. MetaPending' => t = MetaTemp
    BY DEF MetaPending, EarlyStages, PublishStages
  <2> QED
    BY <1>2, <2>1, <2>2 DEF TempsApart
<1>10. Verified' /\ Progress'
  <2>1. stage' \notin PublishStages
    BY DEF EarlyStages, PublishStages
  <2>2. stage' \in Checked => data[KeyTemp] = KeyText /\ KeyTemp \in flushed
    BY DEF IInv, Verified, KeyPending, WithKey, EarlyStages
  <2> QED
    BY <1>2, <1>4, <2>1, <2>2 DEF Verified, Progress
<1>11. Recipes'
  <2>1. ASSUME NEW r \in Runs, entry[KeyFile] = <<r, 1>>
        PROVE  data'[<<r, 1>>] = data[<<r, 1>>] /\ data'[<<r, 2>>] = data[<<r, 2>>]
    <3>1. entry[KeyFile] # KeyTemp /\ entry[KeyFile] # t
      BY NamesAssumption DEF Nameless
    <3>2. <<r, 1>> # t /\ <<r, 2>> # t
      BY <2>1, <3>1 DEF KeyTemp, MetaTemp
    <3> QED
      BY <1>4, <3>2 DEF Inodes, Temps
  <2>2. data'[entry[MetaFile]] = data[entry[MetaFile]]
    BY <1>4, NamesAssumption DEF IInv, TypeOK, FolderTypeOK, Nameless
  <2> QED
    BY <2>1, <2>2 DEF IInv, Recipes, Absent
<1> QED
  BY <1>3, <1>5, <1>6, <1>7, <1>8, <1>9, <1>10, <1>11

\* The other variables of the folder when a temporary file is written to.
LEMMA WriteFrame ==
    ASSUME NEW t, NEW text, NEW next,
           \/ MakeTemp(t, next) /\ text = Partial
           \/ Write(t, text, next)
           \/ Corrupt(t) /\ text = Torn /\ next = stage
    PROVE  /\ data' = [data EXCEPT ![t] = text] /\ stage' = next
           /\ entry' = entry /\ disk' = disk
           /\ temps' \in {temps, temps \cup {t}}
           /\ flushed' = flushed /\ stamp' = stamp
           /\ self' = self /\ cancelled' = cancelled
           /\ held' \in {held, held \cup {t}}
           /\ report' = report /\ result' = result
           /\ late' = late /\ edits' = edits /\ crashes' = crashes
BY DEF MakeTemp, Write, Corrupt, directory, process, verdicts, world

\* Their types, and what is to be known of the command.
LEMMA WrittenTyped ==
    ASSUME IInv, self # NoRun, NEW t \in {KeyTemp, MetaTemp}, NEW next \in Stages,
           NEW text,
           \/ MakeTemp(t, next) /\ text = Partial
           \/ Write(t, text, next)
           \/ Corrupt(t) /\ text = Torn /\ next = stage,
           data' \in [Inodes -> Contents], command' = command, tampered' = tampered,
           next # "idle", next \notin {"preflight", "prompt", "openmeta", "readmeta", "recheck"},
           next \in {"metatemp", "write", "metaback"} => cmd = "make"
    PROVE  TypeOK' /\ Running'
<1>1. t \in Temps /\ t \in Inodes
  BY OwnTemps
<1>2. cmd' = cmd /\ pw' = pw /\ meta' = meta /\ recipe' = recipe
  BY DEF command
<1>3. /\ stage' = next /\ entry' = entry /\ disk' = disk
      /\ temps' \in {temps, temps \cup {t}} /\ flushed' = flushed
      /\ stamp' = stamp /\ self' = self /\ cancelled' = cancelled
      /\ held' \in {held, held \cup {t}}
      /\ report' = report /\ result' = result
      /\ late' = late /\ edits' = edits /\ crashes' = crashes
  BY WriteFrame
<1>4. TypeOK' /\ Running'
  <2>1. TypeOK'
    BY <1>1, <1>2, <1>3 DEF IInv, TypeOK, FolderTypeOK
  <2> QED
    BY <1>2, <1>3, <2>1 DEF IInv, Running
<1> QED
  BY <1>4

\* The new file for the key is nobody's yet.
LEMMA CreateKeyTempKeeps == ASSUME IInv, CreateKeyTemp PROVE IInv'
<1>1. /\ stage = "keytemp" /\ self # NoRun /\ MakeTemp(KeyTemp, "expand")
      /\ command' = command /\ tampered' = tampered /\ data[KeyTemp] = Unborn
  BY DEF CreateKeyTemp, At, MakeTemp
<1>2. Nameless(KeyTemp)
  BY <1>1, OwnTemps, UnbornNameless DEF IInv, MetaKept, Derived
<1>3. /\ data' = [data EXCEPT ![KeyTemp] = Partial] /\ stage' = "expand"
      /\ entry' = entry /\ disk' = disk /\ flushed' = flushed /\ stamp' = stamp
      /\ self' = self /\ report' = report /\ result' = result /\ crashes' = crashes
  BY <1>1, WriteFrame
<1>4. /\ data' \in [Inodes -> Contents]
      /\ NamesWhole' /\ Untouched' /\ Known' /\ MetaKept'
      /\ TempsApart' /\ Verified' /\ Progress' /\ Recipes'
  BY <1>1, <1>2, <1>3, OwnTemps, TempChanges
     DEF Contents, Derived, WithKey, EarlyStages, Checked, PublishStages
<1>5. TypeOK' /\ Running'
  BY <1>1, <1>4, WrittenTyped DEF Stages, EarlyStages
<1> QED
  BY <1>4, <1>5 DEF IInv

\* The key as bytes, before it is written.
LEMMA KeyTextType ==
    ASSUME IInv, stage \in Derived
    PROVE  KeyText \in Texts /\ KeyText \in Contents
<1>1. self \in Runs /\ cmd \in Commands
  BY DEF IInv, Running, TypeOK, FolderTypeOK, Derived, WithKey, Checked,
         PublishStages
<1> QED
  BY <1>1, KeysAssumption DEF IInv, Known, KeyText, Commands, Contents

\* What keymake writes fits its metadata, what keyrestore writes was compared.
LEMMA ExpandKeeps == ASSUME IInv, Expand PROVE IInv'
<1>1. /\ stage = "expand" /\ self # NoRun
      /\ Write(KeyTemp, KeyText, "readback")
      /\ cmd = "restore" => Describes(recipe, KeyText)
      /\ command' = command /\ tampered' = tampered
  BY DEF Expand, ExpandOK, At
<1>2. Nameless(KeyTemp)
  BY <1>1 DEF IInv, TempsApart, KeyPending, WithKey
<1>3. cmd = "make" => Describes(recipe, KeyText)
  <2>1. ASSUME cmd = "make" PROVE pw \in Passwords /\ recipe = MakeMeta(pw, self) /\ self \in Runs
    BY <1>1, <2>1 DEF IInv, Known, Typed, Derived, WithKey, TypeOK, FolderTypeOK
  <2> QED
    BY <2>1, KeysAssumption DEF KeyText
<1>4. cmd # "xchakey" => Describes(recipe, KeyText)
  BY <1>1, <1>3 DEF IInv, Running, Commands
<1>5. KeyText \in Contents
  BY <1>1, KeyTextType DEF Derived, WithKey
<1>6. /\ data' = [data EXCEPT ![KeyTemp] = KeyText] /\ stage' = "readback"
      /\ entry' = entry /\ disk' = disk /\ flushed' = flushed /\ stamp' = stamp
      /\ self' = self /\ report' = report /\ result' = result /\ crashes' = crashes
  BY <1>1, WriteFrame
<1>7. /\ data' \in [Inodes -> Contents]
      /\ NamesWhole' /\ Untouched' /\ Known' /\ MetaKept'
      /\ TempsApart' /\ Verified' /\ Progress' /\ Recipes'
  BY <1>1, <1>2, <1>4, <1>5, <1>6, OwnTemps, TempChanges
     DEF Derived, WithKey, EarlyStages, Checked, PublishStages
<1>8. TypeOK' /\ Running'
  BY <1>1, <1>7, WrittenTyped DEF Stages, EarlyStages
<1> QED
  BY <1>7, <1>8 DEF IInv

\* The new file for the metadata is nobody's yet.
LEMMA CreateMetaTempKeeps == ASSUME IInv, CreateMetaTemp PROVE IInv'
<1>1. /\ stage = "metatemp" /\ self # NoRun /\ MakeTemp(MetaTemp, "write")
      /\ command' = command /\ tampered' = tampered /\ data[MetaTemp] = Unborn
  BY DEF CreateMetaTemp, At, MakeTemp
<1>2. cmd = "make"
  BY <1>1 DEF IInv, Running
<1>3. Nameless(KeyTemp) /\ Nameless(MetaTemp)
  BY <1>1, <1>2, OwnTemps, UnbornNameless
     DEF IInv, TempsApart, KeyPending, WithKey, Checked
<1>4. Describes(recipe, KeyText)
  BY <1>1, <1>2 DEF IInv, Known, WithKey, Checked
<1>5. /\ data' = [data EXCEPT ![MetaTemp] = Partial] /\ stage' = "write"
      /\ entry' = entry /\ disk' = disk /\ flushed' = flushed /\ stamp' = stamp
      /\ self' = self /\ report' = report /\ result' = result /\ crashes' = crashes
  BY <1>1, WriteFrame
<1>6. /\ data' \in [Inodes -> Contents]
      /\ NamesWhole' /\ Untouched' /\ Known' /\ MetaKept'
      /\ TempsApart' /\ Verified' /\ Progress' /\ Recipes'
  BY <1>1, <1>2, <1>3, <1>4, <1>5, OwnTemps, TempChanges
     DEF Contents, Derived, WithKey, EarlyStages, Checked, PublishStages
<1>7. TypeOK' /\ Running'
  BY <1>1, <1>2, <1>6, WrittenTyped DEF Stages, EarlyStages
<1> QED
  BY <1>6, <1>7 DEF IInv

\* The metadata is written as it was made.
LEMMA WriteMetaKeeps == ASSUME IInv, WriteMeta PROVE IInv'
<1>1. /\ stage = "write" /\ self # NoRun /\ Write(MetaTemp, recipe, "metaback")
      /\ command' = command /\ tampered' = tampered
  BY DEF WriteMeta, At
<1>2. cmd = "make"
  BY <1>1 DEF IInv, Running
<1>3. Nameless(KeyTemp) /\ Nameless(MetaTemp)
  BY <1>1 DEF IInv, TempsApart, KeyPending, MetaPending, WithKey, Checked
<1>4. Describes(recipe, KeyText) /\ recipe \in Contents
  BY <1>1, <1>2 DEF IInv, Known, WithKey, Checked, TypeOK
<1>5. /\ data' = [data EXCEPT ![MetaTemp] = recipe] /\ stage' = "metaback"
      /\ entry' = entry /\ disk' = disk /\ flushed' = flushed /\ stamp' = stamp
      /\ self' = self /\ report' = report /\ result' = result /\ crashes' = crashes
  BY <1>1, WriteFrame
<1>6. /\ data' \in [Inodes -> Contents]
      /\ NamesWhole' /\ Untouched' /\ Known' /\ MetaKept'
      /\ TempsApart' /\ Verified' /\ Progress' /\ Recipes'
  BY <1>1, <1>2, <1>3, <1>4, <1>5, OwnTemps, TempChanges
     DEF Derived, WithKey, EarlyStages, Checked, PublishStages
<1>7. TypeOK' /\ Running'
  BY <1>1, <1>2, <1>6, WrittenTyped DEF Stages, EarlyStages
<1> QED
  BY <1>6, <1>7 DEF IInv

\* Storage that does not return what was written: the read-back is to come.
LEMMA DamageKeeps == ASSUME IInv, Damage PROVE IInv'
<1>1. command' = command /\ tampered' = tampered
  BY DEF Damage
<1>2. PICK t \in {KeyTemp, MetaTemp} :
        /\ self # NoRun /\ Corrupt(t)
        /\ \/ stage = "readback" /\ t = KeyTemp
           \/ stage = "metaback" /\ t = MetaTemp
  BY DEF Damage, At
<1>3. stage = "metaback" => cmd = "make"
  BY DEF IInv, Running
<1>4. Nameless(KeyTemp) /\ Nameless(t)
  BY <1>2 DEF IInv, TempsApart, KeyPending, MetaPending, WithKey, Checked
<1>5. cmd # "xchakey" => Describes(recipe, KeyText)
  BY <1>2 DEF IInv, Known, Running, Commands, WithKey, Checked
<1>6. stage' = stage /\ Torn \in Contents
  BY <1>2 DEF Corrupt, process, Contents
<1>7. /\ data' = [data EXCEPT ![t] = Torn]
      /\ entry' = entry /\ disk' = disk /\ flushed' = flushed /\ stamp' = stamp
      /\ self' = self /\ report' = report /\ result' = result /\ crashes' = crashes
  BY <1>2 DEF Corrupt, directory, process, verdicts, world
<1>8. /\ stage \in Derived \cap EarlyStages /\ stage' \in WithKey \cap EarlyStages
      /\ stage \in WithKey
      /\ stage' \in Checked => stage = "metaback"
      /\ stage' \in {"write", "metaback"} => stage = "metaback"
  BY <1>2, <1>6 DEF Derived, WithKey, EarlyStages, Checked, PublishStages
<1>9. stage = "metaback" => t = MetaTemp
  BY <1>2
<1>10. t = MetaTemp => cmd = "make"
  BY <1>2, <1>3, OwnTemps
<1>11. stage' \in Checked => stage \in Checked
  BY <1>6
<1>12. /\ data' \in [Inodes -> Contents]
       /\ NamesWhole' /\ Untouched' /\ Known' /\ MetaKept'
       /\ TempsApart' /\ Verified' /\ Progress' /\ Recipes'
  BY <1>1, <1>2, <1>4, <1>5, <1>6, <1>7, <1>8, <1>9, <1>10, <1>11, TempChanges
<1>13. TypeOK' /\ Running'
  BY <1>1, <1>2, <1>3, <1>6, <1>12, WrittenTyped DEF Stages, EarlyStages
<1> QED
  BY <1>12, <1>13 DEF IInv

-----------------------------------------------------------------------------
(* The checks: the read-back, the re-check and the calls of Root::publish  *)
(* before the rename                                                       *)

(***************************************************************************)
(* A step of a command that has written its key keeps what it knows and    *)
(* has in hand, if it only goes on to another stage and may find one of    *)
(* its temporary files on the disk, and if what it then claims is true.    *)
(***************************************************************************)
LEMMA QuietStep ==
    ASSUME IInv, self # NoRun, Verified', Progress',
           UNCHANGED <<entry, disk, temps, data, stamp, self, cancelled, held,
                       verdicts, world, command, tampered>>,
           flushed' \in {flushed, flushed \cup {KeyTemp}, flushed \cup {MetaTemp}},
           stage \in WithKey \ {"expand"}, stage' \in WithKey \ {"expand"},
           stage' \in EarlyStages => stage \in EarlyStages,
           stage' = "recheck" => cmd = "restore",
           stage' \in {"metatemp", "write", "metaback"} => cmd = "make",
           stage' \in PublishStages /\ cmd = "restore" =>
               stage \in PublishStages \/ recipe = meta.text,
           stage \in {"confirm", "sync"} => stage' \in {"confirm", "sync"},
           MetaPending' => MetaPending
    PROVE  IInv'
<1> USE NamesAssumption, OwnTemps
<1>1. /\ cmd' = cmd /\ pw' = pw /\ meta' = meta /\ recipe' = recipe
      /\ report' = report /\ result' = result /\ crashes' = crashes
      /\ late' = late /\ edits' = edits
      /\ entry' = entry /\ disk' = disk /\ temps' = temps /\ data' = data
      /\ stamp' = stamp /\ self' = self /\ cancelled' = cancelled
      /\ held' = held /\ tampered' = tampered
  BY DEF command, verdicts, world
<1>2. KeyTemp' = KeyTemp /\ MetaTemp' = MetaTemp /\ KeyText' = KeyText
  BY <1>1 DEF KeyTemp, MetaTemp, KeyText
<1>3. TypeOK' /\ Running'
  <2>1. /\ stage' \in Stages /\ flushed' \in SUBSET Temps
        /\ stage' \notin {"idle", "preflight", "prompt", "openmeta", "readmeta"}
    BY DEF IInv, TypeOK, FolderTypeOK, WithKey, Checked, Stages, EarlyStages, PublishStages
  <2> QED
    BY <1>1, <2>1 DEF IInv, TypeOK, FolderTypeOK, Running
<1>4. NamesWhole' /\ Recipes'
  BY <1>1, NamesKept, RecipesKept DEF IInv
<1>5. Untouched' /\ Known' /\ MetaKept'
  BY <1>1, <1>2 DEF IInv, Untouched, Known, MetaKept, Typed, Derived
<1>6. TempsApart'
  <2>1. ASSUME NEW t, Nameless(t) PROVE Nameless(t)'
    BY <1>1, <2>1 DEF Nameless
  <2>2. Current' = Current
    BY <1>1, <1>2 DEF Current
  <2>3. KeyPending' => KeyPending
    BY <1>2, <2>2 DEF KeyPending
  <2> QED
    BY <1>2, <2>1, <2>3 DEF IInv, TempsApart
<1> QED
  BY <1>3, <1>4, <1>5, <1>6 DEF IInv

\* The first temporary file to be published is the metadata of keymake.
LEMMA FirstCurrent ==
    ASSUME IInv, self # NoRun, stage \in EarlyStages
    PROVE  Current = IF cmd = "make" THEN MetaTemp ELSE KeyTemp
BY DEF IInv, Running, TypeOK, FolderTypeOK, Untouched, Current, MetaTemp

\* The read-back has found the key in its file, and it is on the disk.
LEMMA ReadBackKeyKeeps == ASSUME IInv, ReadBackKey PROVE IInv'
<1>1. /\ stage = "readback" /\ self # NoRun /\ data[KeyTemp] = KeyText
      /\ flushed' = flushed \cup {KeyTemp}
      /\ stage' = CASE cmd = "make" -> "metatemp"
                    [] cmd = "restore" -> "recheck"
                    [] cmd = "xchakey" -> "publish"
      /\ UNCHANGED <<entry, disk, temps, data, stamp, self, cancelled, held,
                     verdicts, world, command, tampered>>
  BY DEF ReadBackKey, ReadBack, At, directory
<1>2. cmd \in Commands
  BY <1>1 DEF IInv, Running
<1>3. \/ stage' = "metatemp" /\ cmd = "make"
      \/ stage' = "recheck" /\ cmd = "restore"
      \/ stage' = "publish" /\ cmd = "xchakey"
  <2>1. CASE cmd = "make"
    BY <1>1, <2>1
  <2>2. CASE cmd = "restore"
    BY <1>1, <2>2
  <2>3. CASE cmd = "xchakey"
    BY <1>1, <2>3
  <2> QED
    BY <1>2, <2>1, <2>2, <2>3 DEF Commands
<1>4. cmd' = cmd /\ KeyTemp' = KeyTemp /\ MetaTemp' = MetaTemp /\ KeyText' = KeyText
  BY <1>1 DEF command, KeyTemp, MetaTemp, KeyText
<1>5. ~MetaPending'
  BY <1>1, <1>3, <1>4, OwnTemps DEF MetaPending, Current, PublishStages
<1>6. Verified' /\ Progress'
  BY <1>1, <1>3, <1>4, <1>5 DEF Verified, Progress, PublishStages
<1> QED
  BY <1>1, <1>3, <1>5, <1>6, QuietStep
     DEF WithKey, Checked, EarlyStages, PublishStages

\* The read-back has found the metadata in its file, and it is on the disk.
LEMMA ReadBackMetaKeeps == ASSUME IInv, ReadBackMeta PROVE IInv'
<1>1. /\ stage = "metaback" /\ self # NoRun /\ data[MetaTemp] = recipe
      /\ flushed' = flushed \cup {MetaTemp} /\ stage' = "publish"
      /\ UNCHANGED <<entry, disk, temps, data, stamp, self, cancelled, held,
                     verdicts, world, command, tampered>>
  BY DEF ReadBackMeta, ReadBack, At, directory
<1>2. cmd = "make" /\ Current = MetaTemp
  BY <1>1, FirstCurrent DEF IInv, Running, EarlyStages
<1>3. /\ cmd' = cmd /\ recipe' = recipe /\ Current' = Current
      /\ KeyTemp' = KeyTemp /\ MetaTemp' = MetaTemp /\ KeyText' = KeyText
  BY <1>1 DEF command, verdicts, KeyTemp, MetaTemp, KeyText, Current
<1>4. data[KeyTemp] = KeyText /\ KeyTemp \in flushed
  BY <1>1 DEF IInv, Verified, KeyPending, WithKey, Checked
<1>5. MetaPending
  BY <1>1 DEF MetaPending
<1>6. Verified' /\ Progress'
  BY <1>1, <1>2, <1>3, <1>4, OwnTemps DEF Verified, Progress
<1> QED
  BY <1>1, <1>2, <1>5, <1>6, QuietStep
     DEF WithKey, Checked, EarlyStages, PublishStages

\* key.meta still as in the snapshot: what was read from it is what it holds.
LEMMA RecheckKeeps == ASSUME IInv, Recheck PROVE IInv'
<1>1. /\ stage = "recheck" /\ self # NoRun /\ stage' = "publish"
      /\ flushed' = flushed
      /\ stamp[meta.ino] = meta.stamp /\ entry[MetaFile] = meta.ino
      /\ UNCHANGED <<entry, disk, temps, data, stamp, self, cancelled, held,
                     verdicts, world, command, tampered>>
  BY DEF Recheck, Unchanged, Passes, At, directory, files
<1>2. cmd = "restore"
  BY <1>1 DEF IInv, Running
<1>3. recipe = meta.text /\ data[meta.ino] = recipe
  BY <1>1, <1>2 DEF IInv, MetaKept, Derived, WithKey, Checked
<1>4. /\ cmd' = cmd /\ recipe' = recipe /\ meta' = meta
      /\ KeyTemp' = KeyTemp /\ MetaTemp' = MetaTemp /\ KeyText' = KeyText
  BY <1>1 DEF command, KeyTemp, MetaTemp, KeyText
<1>5. data[KeyTemp] = KeyText /\ KeyTemp \in flushed
  BY <1>1 DEF IInv, Verified, KeyPending, WithKey, Checked
<1>6. ~MetaPending'
  BY <1>1, <1>2, <1>4, OwnTemps DEF MetaPending, Current, PublishStages
<1>7. Verified' /\ Progress'
  BY <1>1, <1>2, <1>3, <1>4, <1>5, <1>6 DEF Verified, Progress
<1> QED
  BY <1>1, <1>2, <1>3, <1>6, <1>7, QuietStep
     DEF WithKey, Checked, EarlyStages, PublishStages

-----------------------------------------------------------------------------
(* Publication *)

\* The calls of Root::publish that only check or synchronize.
LEMMA CheckingCallKeeps ==
    ASSUME IInv, self # NoRun,
           UNCHANGED <<entry, disk, temps, data, stamp, self, cancelled, held,
                       verdicts, world, command, tampered>>,
           flushed' \in {flushed, flushed \cup {Current}},
           stage \in PublishStages, stage' \in PublishStages,
           stage' \in {"confirm", "sync"} <=> stage \in {"confirm", "sync"}
    PROVE  IInv'
<1>1. /\ cmd' = cmd /\ recipe' = recipe /\ meta' = meta /\ Current' = Current
      /\ KeyTemp' = KeyTemp /\ MetaTemp' = MetaTemp /\ KeyText' = KeyText
  BY DEF command, verdicts, KeyTemp, MetaTemp, KeyText, Current
<1>2. /\ KeyPending' <=> KeyPending
      /\ MetaPending' <=> MetaPending
  BY <1>1 DEF KeyPending, MetaPending, WithKey, Checked, PublishStages
<1>3. Verified' /\ Progress'
  BY <1>1, <1>2 DEF IInv, Verified, Progress, Checked
<1> QED
  BY <1>2, <1>3, OwnTemps, QuietStep DEF WithKey, Checked, EarlyStages, PublishStages

\* What the command knows of the file it is about to publish.
LEMMA ReadyToRename ==
    ASSUME IInv, At("rename")
    PROVE  /\ data[Current] \in Texts /\ Current \in flushed
           /\ Nameless(KeyTemp)
           /\ data[KeyTemp] = KeyText /\ KeyTemp \in flushed
           /\ Current = MetaTemp => data[MetaTemp] = recipe
           /\ cmd # "xchakey" => Describes(recipe, KeyText)
<1>1. /\ KeyPending /\ stage \in Checked /\ stage \in Derived
      /\ stage \in PublishStages /\ stage \in WithKey \ {"expand"}
      /\ Current = MetaTemp => MetaPending
  BY DEF At, KeyPending, MetaPending, Derived, WithKey, Checked, PublishStages
<1>2. data[KeyTemp] = KeyText /\ KeyTemp \in flushed /\ Nameless(KeyTemp)
  BY <1>1 DEF IInv, Verified, TempsApart
<1>3. Current = MetaTemp =>
          data[MetaTemp] = recipe /\ MetaTemp \in flushed /\ recipe \in Texts
  BY <1>1, OwnTemps DEF At, IInv, Verified, Known
<1>4. KeyText \in Texts
  BY <1>1, KeyTextType
<1>5. cmd \in Commands
  BY DEF IInv, Running, At
<1>6. cmd # "xchakey" => Describes(recipe, KeyText)
  BY <1>1, <1>5 DEF IInv, Known, Commands
<1> QED
  BY <1>2, <1>3, <1>4, <1>6, OwnTemps DEF At

\* Where the rename goes.
LEMMA GoalOfCurrent ==
    ASSUME IInv, self # NoRun
    PROVE  /\ Goal \in Names
           /\ Goal = MetaFile <=> Current = MetaTemp
           /\ Goal = KeyFile => Current = KeyTemp /\ cmd \in {"make", "restore"}
           /\ Goal = XchaFile <=> Current = KeyTemp /\ cmd = "xchakey"
BY OwnTemps, NamesAssumption DEF Goal, IInv, Running, Commands

(***************************************************************************)
(* The rename gives a free name to a whole file that is on the disk: the   *)
(* metadata first, and the key only next to the metadata it came from.     *)
(***************************************************************************)
LEMMA RenameKeeps ==
    ASSUME IInv, Rename(Current, Goal, FALSE), UNCHANGED <<command, tampered>>
    PROVE  IInv'
<1> USE NamesAssumption
<1>1. /\ stage = "rename" /\ self # NoRun /\ stage' = "confirm"
      /\ entry[Goal] = NoFile
      /\ entry' = [entry EXCEPT ![Goal] = Current]
      /\ temps' = temps \ {Current} /\ disk' = disk
      /\ data' = data /\ flushed' = flushed /\ stamp' = stamp
      /\ self' = self /\ cancelled' = cancelled /\ held' = held
      /\ report' = report /\ result' = result
      /\ late' = late /\ edits' = edits /\ crashes' = crashes
      /\ cmd' = cmd /\ pw' = pw /\ meta' = meta /\ recipe' = recipe
      /\ tampered' = tampered
  BY DEF Rename, At, files, verdicts, world, command
<1>0. /\ KeyTemp \in Temps /\ MetaTemp \in Temps /\ KeyTemp # MetaTemp
      /\ KeyTemp \in Inodes /\ MetaTemp \in Inodes
      /\ Current \in {KeyTemp, MetaTemp}
      /\ Current = MetaTemp => cmd = "make"
  BY <1>1, OwnTemps
<1>2. /\ data[Current] \in Texts /\ Current \in flushed
      /\ Nameless(KeyTemp)
      /\ data[KeyTemp] = KeyText /\ KeyTemp \in flushed
      /\ Current = MetaTemp => data[MetaTemp] = recipe
      /\ cmd # "xchakey" => Describes(recipe, KeyText)
  BY <1>1, ReadyToRename DEF At
<1>3. /\ Goal \in Names
      /\ Goal = MetaFile <=> Current = MetaTemp
      /\ Goal = KeyFile => Current = KeyTemp /\ cmd \in {"make", "restore"}
      /\ Goal = XchaFile <=> Current = KeyTemp /\ cmd = "xchakey"
  BY <1>1, GoalOfCurrent
<1>4. /\ KeyTemp' = KeyTemp /\ MetaTemp' = MetaTemp /\ KeyText' = KeyText
      /\ Current' = Current
  BY <1>1 DEF KeyTemp, MetaTemp, KeyText, Current
<1>5. /\ entry' \in [Names -> Inodes \cup {NoFile}]
      /\ entry'[Goal] = Current
      /\ \A n \in Names : n # Goal => entry'[n] = entry[n]
  <2>1. entry \in [Names -> Inodes \cup {NoFile}] /\ Current \in Inodes
    BY <1>0, <1>1 DEF IInv, TypeOK, FolderTypeOK
  <2> QED
    BY <1>1, <1>3, <2>1
<1>6. TypeOK' /\ Running'
  <2>1. TypeOK'
    BY <1>0, <1>1, <1>5 DEF IInv, TypeOK, FolderTypeOK, Stages, PublishStages
  <2> QED
    BY <1>1, <2>1 DEF IInv, Running
<1>7. NamesWhole'
  BY <1>0, <1>1, <1>2, <1>3, <1>5 DEF IInv, NamesWhole, Whole
<1>8. Untouched' /\ Known' /\ MetaKept'
  BY <1>1, <1>4
     DEF IInv, Untouched, Known, MetaKept, Typed, Derived, WithKey, Checked,
         PublishStages, EarlyStages
<1>9. TempsApart'
  <2>1. MetaPending' = FALSE /\ (KeyPending' => Current = MetaTemp)
    BY <1>1, <1>4 DEF MetaPending, KeyPending, PublishStages
  <2>2. Current = MetaTemp => Nameless(KeyTemp)'
    BY <1>0, <1>1, <1>2, <1>4, <1>5 DEF Nameless
  <2> QED
    BY <1>4, <2>1, <2>2 DEF TempsApart
<1>10. Verified'
  BY <1>1, <1>2, <1>4 DEF Verified, MetaPending
<1>11. Progress'
  BY <1>0, <1>1, <1>2, <1>3, <1>4, <1>5 DEF IInv, Progress, PublishStages
<1>12. Recipes'
  <2> SUFFICES ASSUME ~tampered, ~Windows PROVE Recipes'
    BY <1>1 DEF Recipes
  <2>1. CASE Goal = KeyFile
    <3>1. /\ entry'[KeyFile] = <<self, 1>> /\ entry'[MetaFile] = entry[MetaFile]
          /\ self \in Runs
      <4>1. self \in Runs
        BY <1>1 DEF IInv, TypeOK, FolderTypeOK
      <4> QED
        BY <1>3, <1>5, <2>1, <4>1 DEF KeyTemp
    <3>2. data[<<self, 2>>] # Unborn => cmd = "make"
      BY <1>1, <3>1 DEF IInv, Running, Untouched
    <3>3. cmd = "make" =>
              /\ entry[MetaFile] = MetaTemp /\ disk[MetaFile] = MetaTemp
              /\ data[MetaTemp] = recipe
      BY <1>1, <1>3, <2>1 DEF IInv, Progress, PublishStages
    <3>4. cmd = "restore" =>
              entry[MetaFile] = meta.ino /\ data[meta.ino] = recipe /\ meta.ino \in Inodes
      <4>1. stage \in PublishStages /\ stage \in Derived
        BY <1>1 DEF Derived, WithKey, Checked, PublishStages
      <4> QED
        BY <1>1, <4>1 DEF IInv, Progress, MetaKept
    <3>5. entry[MetaFile] # NoFile /\ data[entry[MetaFile]] = recipe
      BY <1>0, <1>3, <2>1, <3>3, <3>4, InodesAssumption
    <3>6. Describes(data[entry[MetaFile]], data[<<self, 1>>])
      BY <1>2, <1>3, <2>1, <3>5 DEF KeyTemp
    <3>7. ASSUME NEW r \in Runs, <<self, 1>> = <<r, 1>> PROVE r = self
      BY <3>7
    <3> QED
      BY <1>1, <3>1, <3>2, <3>3, <3>5, <3>6, <3>7 DEF Recipes, Absent, MetaTemp
  <2>2. CASE Goal # KeyFile
    <3>1. entry'[KeyFile] = entry[KeyFile]
      BY <1>5, <2>2
    <3>2. ASSUME NEW r \in Runs, entry[KeyFile] = <<r, 1>>, data[<<r, 2>>] # Unborn \/ crashes = 0
          PROVE  Goal # MetaFile
      <4>1. <<r, 2>> # NoFile
        BY InodesAssumption DEF Inodes, Temps
      <4> QED
        BY <1>1, <3>2, <4>1 DEF IInv, Recipes, Absent
    <3> QED
      BY <1>1, <1>5, <3>1, <3>2 DEF IInv, Recipes, Absent
  <2> QED
    BY <2>1, <2>2
<1> QED
  BY <1>6, <1>7, <1>8, <1>9, <1>10, <1>11, <1>12 DEF IInv

(***************************************************************************)
(* The end of a publication: the directory is on the disk, except on       *)
(* Windows; keymake goes on to its key, with the metadata in place.        *)
(***************************************************************************)
LEMMA SyncPublicationKeeps ==
    ASSUME IInv,
           SyncPublication(Current, IF Current = MetaTemp THEN "publish" ELSE "done"),
           UNCHANGED <<command, tampered>>
    PROVE  IInv'
<1> USE NamesAssumption
<1>1. /\ stage = "sync" /\ self # NoRun
      /\ stage' = (IF Current = MetaTemp THEN "publish" ELSE "done")
      /\ flushed' = flushed \cup {Current}
      /\ disk' = (IF Windows THEN disk ELSE entry)
      /\ report' = [report EXCEPT ![Current] = "published"]
      /\ held' = held \ {Current}
      /\ entry' = entry /\ temps' = temps /\ data' = data /\ stamp' = stamp
      /\ self' = self /\ cancelled' = cancelled /\ result' = result
      /\ late' = late /\ edits' = edits /\ crashes' = crashes
      /\ cmd' = cmd /\ pw' = pw /\ meta' = meta /\ recipe' = recipe
      /\ tampered' = tampered
  BY DEF SyncPublication, At, world, command
<1>2. /\ KeyTemp \in Temps /\ MetaTemp \in Temps /\ KeyTemp # MetaTemp
      /\ Current \in {KeyTemp, MetaTemp}
      /\ Current = MetaTemp => cmd = "make"
  BY <1>1, OwnTemps
<1>3. KeyTemp' = KeyTemp /\ MetaTemp' = MetaTemp /\ KeyText' = KeyText
  BY <1>1 DEF KeyTemp, MetaTemp, KeyText
<1>4. /\ report' \in [Temps -> Reports] /\ report'[Current] = "published"
      /\ \A t \in Temps : t # Current => report'[t] = report[t]
  BY <1>1, <1>2 DEF IInv, TypeOK, FolderTypeOK, Reports
<1>5. TypeOK' /\ Running'
  <2>1. TypeOK'
    BY <1>1, <1>2, <1>4
       DEF IInv, TypeOK, FolderTypeOK, Stages, PublishStages
  <2> QED
    BY <1>1, <2>1 DEF IInv, Running
<1>6. \A n \in Names : disk'[n] \in {disk[n], entry[n]}
  BY <1>1
<1>7. NamesWhole' /\ Recipes'
  BY <1>1, <1>6, NamesKept, RecipesKept DEF IInv
<1>8. Untouched'
  <2>1. ASSUME NEW r \in Runs, r # self PROVE report'[<<r, 2>>] = report[<<r, 2>>]
    <3>1. <<r, 2>> # Current /\ <<r, 2>> \in Temps
      BY <1>2, <2>1 DEF KeyTemp, MetaTemp, Temps
    <3> QED
      BY <1>4, <3>1
  <2>2. stage' \notin EarlyStages
    BY <1>1 DEF EarlyStages
  <2> QED
    BY <1>1, <2>1, <2>2 DEF IInv, Untouched
<1>9. CASE Current = KeyTemp
  BY <1>1, <1>2, <1>5, <1>7, <1>8, <1>9, Afterwards
     DEF Typed, Derived, WithKey, Checked, PublishStages
<1>10. CASE Current = MetaTemp
  <2>1. /\ stage' = "publish" /\ cmd = "make" /\ Current' = KeyTemp'
    BY <1>1, <1>2, <1>3, <1>4, <1>10 DEF Current
  <2>2. KeyPending /\ stage \in Checked
    BY <1>1, <1>10 DEF KeyPending, WithKey, Checked, PublishStages
  <2>3. Known' /\ MetaKept'
    BY <1>1, <1>3, <2>1
       DEF IInv, Known, MetaKept, Typed, Derived, WithKey, Checked, PublishStages
  <2>4. ~MetaPending'
    BY <1>2, <1>3, <2>1 DEF MetaPending
  <2>5. TempsApart'
    BY <1>1, <1>3, <1>6, <2>2, <2>4 DEF IInv, TempsApart, Nameless
  <2>6. Verified'
    BY <1>1, <1>3, <2>2, <2>4 DEF IInv, Verified
  <2>7. Progress'
    BY <1>1, <1>3, <2>1 DEF IInv, Progress, PublishStages
  <2> QED
    BY <1>5, <1>7, <1>8, <2>3, <2>5, <2>6, <2>7 DEF IInv
<1> QED
  BY <1>2, <1>9, <1>10

\* An error return drops temporary files and reports; no file changes.
LEMMA GiveUpKeeps ==
    ASSUME IInv, self # NoRun, NEW kept, NEW rep \in Reports,
           GiveUp(kept), EndAs(Current, rep), UNCHANGED <<command, tampered>>
    PROVE  IInv'
<1>1. /\ stage' = "leaving" /\ temps' = temps \ (Own(self) \ kept)
      /\ entry' = entry /\ disk' = disk /\ data' = data /\ flushed' = flushed
      /\ stamp' = stamp /\ self' = self /\ cancelled' = cancelled
      /\ held' = held /\ result' = result
      /\ late' = late /\ edits' = edits /\ crashes' = crashes
      /\ cmd' = cmd /\ pw' = pw /\ meta' = meta /\ recipe' = recipe
      /\ tampered' = tampered
  BY DEF GiveUp, files, world, command
<1>2. report' \in [Temps -> Reports]
  BY DEF EndAs, IInv, TypeOK, FolderTypeOK, Reports
<1>3. \A r \in Runs : r # self => report'[<<r, 2>>] = report[<<r, 2>>]
  BY OwnTemps DEF EndAs, Temps, KeyTemp, MetaTemp
<1>4. TypeOK' /\ Running'
  <2>1. TypeOK'
    BY <1>1, <1>2 DEF IInv, TypeOK, FolderTypeOK, Stages
  <2> QED
    BY <1>1, <2>1 DEF IInv, Running
<1>5. NamesWhole' /\ Recipes'
  BY <1>1, NamesKept, RecipesKept DEF IInv
<1>6. Untouched'
  BY <1>1, <1>3 DEF IInv, Untouched, EarlyStages
<1> QED
  BY <1>1, <1>4, <1>5, <1>6, Afterwards
     DEF Typed, Derived, WithKey, Checked, PublishStages

\* Every call of Root::publish keeps the invariant.
LEMMA PublishKeeps == ASSUME IInv, Publish PROVE IInv'
<1> USE DEF Publish, Reports
<1>1. CASE \/ SyncTemp(Current)
           \/ FinalUnchanged(FALSE, Goal, NoSnapshot)
           \/ FinalLinks(FALSE, NoSnapshot)
           \/ Confirm(Current, Goal)
  <2>1. /\ self # NoRun /\ flushed' \in {flushed, flushed \cup {Current}}
        /\ UNCHANGED <<entry, disk, temps, data, stamp, self, cancelled, held,
                       verdicts, world, command, tampered>>
    BY <1>1
       DEF SyncTemp, FinalUnchanged, FinalLinks, Confirm, At, directory, files
  <2>2. /\ stage \in PublishStages /\ stage' \in PublishStages
        /\ stage' \in {"confirm", "sync"} <=> stage \in {"confirm", "sync"}
    BY <1>1
       DEF SyncTemp, FinalUnchanged, FinalLinks, Confirm, At, PublishStages
  <2> QED
    BY <2>1, <2>2, CheckingCallKeeps
<1>2. CASE Rename(Current, Goal, FALSE)
  BY <1>2, RenameKeeps
<1>3. CASE RenameFails(Current, Goal, FALSE)
  BY <1>3, GiveUpKeeps DEF RenameFails, At
<1>4. CASE ConfirmFails(Current, Goal)
  BY <1>4, GiveUpKeeps DEF ConfirmFails, At
<1>5. CASE SyncPublication(Current, IF Current = MetaTemp THEN "publish" ELSE "done")
  BY <1>5, SyncPublicationKeeps
<1>6. CASE SyncPublicationFails(Current)
  BY <1>6, GiveUpKeeps DEF SyncPublicationFails, At
<1> QED
  BY <1>1, <1>2, <1>3, <1>4, <1>5, <1>6

\* So does every error before the rename.
LEMMA StopKeeps == ASSUME IInv, Stop PROVE IInv'
BY GiveUpKeeps DEF Stop, Abort, Reports

-----------------------------------------------------------------------------
(* The end of a command and the world around it *)

\* What a process leaves behind that exits or is killed.
LEMMA GoneKeeps ==
    ASSUME IInv, self # NoRun, NEW code \in Results \ {"waiting"}, Gone(code),
           Forget, UNCHANGED <<directory, files, report, edits, tampered>>,
           crashes' \in Nat, crashes' = 0 => crashes = 0
    PROVE  IInv'
<1>1. /\ entry' = entry /\ disk' = disk /\ temps' = temps
      /\ data' = data /\ flushed' = flushed /\ stamp' = stamp
      /\ self' = NoRun /\ stage' = "idle"
      /\ cancelled' = FALSE /\ held' = {} /\ late' = FALSE
      /\ report' = report /\ result' = [result EXCEPT ![self] = code]
      /\ edits' = edits /\ tampered' = tampered
  BY DEF Gone, directory, files
<1>2. /\ cmd' = "none" /\ pw' = NoPassword /\ meta' = NoSnapshot
      /\ recipe' = Unborn
  BY DEF Forget
<1>3. /\ result' \in [Runs -> Results] /\ result'[self] # "waiting"
      /\ \A r \in Runs : r # self => result'[r] = result[r]
  BY <1>1 DEF IInv, TypeOK, FolderTypeOK
<1>4. TypeOK' /\ Running'
  <2>1. TypeOK'
    BY <1>1, <1>2, <1>3 DEF IInv, TypeOK, FolderTypeOK, Stages, Contents
  <2> QED
    BY <1>1, <2>1 DEF Running
<1>5. NamesWhole'
  BY <1>1, NamesKept DEF IInv
<1>6. Recipes'
  BY <1>1, NamesAssumption DEF IInv, Recipes, Absent
<1>7. Untouched'
  BY <1>1, <1>3 DEF IInv, Untouched
<1> QED
  BY <1>1, <1>4, <1>5, <1>6, <1>7, Afterwards
     DEF Typed, Derived, WithKey, Checked, PublishStages

\* The exit of a command.
LEMMA EndKeeps == ASSUME IInv, End PROVE IInv'
<1>1. /\ self # NoRun /\ Gone(ExitCode) /\ Forget /\ crashes' = crashes
      /\ UNCHANGED <<directory, files, report, edits, tampered>>
  BY DEF End, Leave, At
<1>2. ExitCode \in Results \ {"waiting"} /\ crashes \in Nat
  BY DEF ExitCode, Results, IInv, TypeOK, FolderTypeOK
<1> QED
  BY <1>1, <1>2, GoneKeeps

\* A kill leaves the folder as it is.
LEMMA KillKeeps ==
    ASSUME IInv, Kill, Forget, UNCHANGED tampered
    PROVE  IInv'
<1>1. /\ self # NoRun /\ Gone("killed") /\ crashes' = crashes + 1
      /\ UNCHANGED <<directory, files, report, edits, tampered>>
  BY DEF Kill
<1>2. crashes \in Nat /\ "killed" \in Results \ {"waiting"}
  BY DEF Results, IInv, TypeOK, FolderTypeOK
<1> QED
  BY <1>1, <1>2, GoneKeeps

(***************************************************************************)
(* After a power loss the names are those on the disk, and those denote    *)
(* files whose content was on the disk too; key.key is there only if the   *)
(* key.meta it was made with is.                                           *)
(***************************************************************************)
LEMMA PowerLossKeeps ==
    ASSUME IInv, PowerLoss, Forget, UNCHANGED tampered
    PROVE  IInv'
<1>1. /\ entry' = disk /\ disk' = disk
      /\ data' = [i \in Inodes |->
                    IF i \in Temps \ flushed /\ data[i] # Unborn
                    THEN Torn ELSE data[i]]
      /\ result' = [r \in Runs |-> IF r = self THEN "killed" ELSE result[r]]
      /\ self' = NoRun /\ stage' = "idle" /\ cancelled' = FALSE /\ held' = {}
      /\ late' = FALSE /\ crashes' = crashes + 1
      /\ flushed' = flushed /\ stamp' = stamp /\ report' = report
      /\ edits' = edits /\ tampered' = tampered
  BY DEF PowerLoss
<1>2. temps' \in SUBSET Temps
  BY DEF PowerLoss
<1>3. /\ cmd' = "none" /\ pw' = NoPassword /\ meta' = NoSnapshot
      /\ recipe' = Unborn
  BY DEF Forget
<1>4. TypeOK' /\ Running'
  <2>1. data' \in [Inodes -> Contents]
    BY <1>1 DEF IInv, TypeOK, FolderTypeOK, Contents
  <2>2. result' \in [Runs -> Results]
    BY <1>1 DEF IInv, TypeOK, FolderTypeOK, Results
  <2>3. /\ disk \in [Names -> Inodes \cup {NoFile}]
        /\ flushed \in SUBSET Temps /\ stamp \in [Inodes -> Nat]
        /\ report \in [Temps -> Reports] /\ edits \in Nat
        /\ crashes + 1 \in Nat /\ tampered \in BOOLEAN
    BY DEF IInv, TypeOK, FolderTypeOK
  <2>4. FolderTypeOK(Stages)'
    BY <1>1, <1>2, <2>1, <2>2, <2>3 DEF FolderTypeOK, Stages
  <2>5. TypeOK'
    BY <1>1, <1>3, <2>3, <2>4 DEF TypeOK, Contents
  <2> QED
    BY <1>1, <2>5 DEF Running
<1>5. \A n \in Names : disk[n] # NoFile =>
          disk[n] = entry[n] /\ data'[disk[n]] = data[disk[n]]
  BY <1>1 DEF IInv, NamesWhole, Whole, TypeOK, FolderTypeOK
<1>6. NamesWhole'
  BY <1>1, <1>5 DEF IInv, NamesWhole, Whole
<1>7. \A i \in Inodes : data'[i] # Unborn => data[i] # Unborn
  BY <1>1, TextsAssumption
<1>8. Untouched'
  <2>1. ASSUME NEW r \in Runs, result'[r] = "waiting"
        PROVE  data'[<<r, 2>>] = Unborn /\ report'[<<r, 2>>] = "none"
    <3>1. result[r] = "waiting" /\ r # self /\ <<r, 2>> \in Inodes
      BY <1>1, <2>1 DEF Inodes, Temps
    <3> QED
      BY <1>1, <1>7, <3>1 DEF IInv, Untouched
  <2> QED
    BY <2>1 DEF Untouched
<1>9. Recipes'
  <2>0. NoFile \notin Temps /\ \A r \in Runs : <<r, 1>> \in Temps
    BY InodesAssumption DEF Inodes, Temps
  <2> SUFFICES ASSUME ~tampered, ~Windows, disk[KeyFile] # NoFile
               PROVE  Recipes'
    BY <1>1, <2>0 DEF Recipes
  <2>1. entry[KeyFile] = disk[KeyFile]
    BY <1>5, NamesAssumption
  <2>2. ASSUME NEW r \in Runs, disk[KeyFile] = <<r, 1>>, data'[<<r, 2>>] # Unborn
        PROVE  /\ disk[MetaFile] = <<r, 2>> /\ <<r, 2>> # NoFile
               /\ Describes(data'[<<r, 2>>], data'[<<r, 1>>])
    <3>1. <<r, 2>> \in Inodes /\ <<r, 2>> # NoFile
      BY InodesAssumption DEF Inodes, Temps
    <3>2. data[<<r, 2>>] # Unborn
      BY <1>7, <2>2, <3>1
    <3>3. /\ entry[MetaFile] = <<r, 2>> /\ disk[MetaFile] = <<r, 2>>
          /\ Describes(data[<<r, 2>>], data[<<r, 1>>])
      BY <2>1, <2>2, <3>2 DEF IInv, Recipes
    <3>4. data'[<<r, 2>>] = data[<<r, 2>>] /\ data'[<<r, 1>>] = data[<<r, 1>>]
      BY <1>5, <2>2, <3>1, <3>3, NamesAssumption
    <3> QED
      BY <3>1, <3>3, <3>4
  <2>3. crashes' # 0
    BY <1>1 DEF IInv, TypeOK, FolderTypeOK
  <2>4. disk[KeyFile] \in Temps => disk[KeyFile][2] = 1
    BY <2>1 DEF IInv, Recipes
  <2> QED
    BY <1>1, <2>2, <2>3, <2>4 DEF Recipes, Absent
<1> QED
  BY <1>1, <1>4, <1>6, <1>8, <1>9, Afterwards
     DEF Typed, Derived, WithKey, Checked, PublishStages

\* Ctrl-C, a written-back directory entry or a refused invocation.
LEMMA AsideKeeps ==
    ASSUME IInv, TypeOK', UNCHANGED command, tampered' = tampered,
           stage' = stage, self' = self, entry' = entry, data' = data,
           flushed' = flushed, stamp' = stamp, report' = report,
           crashes' = crashes,
           \A n \in Names : disk'[n] \in {disk[n], entry[n]},
           \A r \in Runs : result'[r] = "waiting" => result[r] = "waiting",
           self # NoRun => result'[self] = result[self]
    PROVE  IInv'
<1>1. cmd' = cmd /\ pw' = pw /\ meta' = meta /\ recipe' = recipe
  BY DEF command
<1>2. /\ KeyTemp' = KeyTemp /\ MetaTemp' = MetaTemp /\ KeyText' = KeyText
      /\ Current' = Current
  BY <1>1 DEF KeyTemp, MetaTemp, KeyText, Current
<1>3. NamesWhole' /\ Recipes'
  BY NamesKept, RecipesKept DEF IInv
<1>4. Running' /\ Untouched'
  BY <1>1 DEF IInv, Running, Untouched
<1>5. Known' /\ MetaKept'
  BY <1>1, <1>2 DEF IInv, Known, MetaKept
<1>6. /\ KeyPending' <=> KeyPending
      /\ MetaPending' <=> MetaPending
  BY <1>2 DEF KeyPending, MetaPending
<1>7. TempsApart'
  <2>1. ASSUME NEW t, Nameless(t) PROVE Nameless(t)'
    BY <1>1, <2>1 DEF Nameless
  <2> QED
    BY <1>2, <1>6, <2>1 DEF IInv, TempsApart
<1>8. Verified' /\ Progress'
  BY <1>1, <1>2, <1>6, NamesAssumption DEF IInv, Verified, Progress
<1> QED
  BY <1>3, <1>4, <1>5, <1>7, <1>8 DEF IInv

LEMMA InterruptKeeps ==
    ASSUME IInv, Interrupt, UNCHANGED <<command, tampered>>
    PROVE  IInv'
<1>1. /\ cancelled' = TRUE /\ stage' = stage /\ self' = self /\ held' = held
      /\ entry' = entry /\ disk' = disk /\ temps' = temps
      /\ data' = data /\ flushed' = flushed /\ stamp' = stamp
      /\ report' = report /\ result' = result
      /\ late' = late /\ edits' = edits /\ crashes' = crashes
  BY DEF Interrupt, directory, files, verdicts, world
<1>2. TypeOK'
  BY <1>1 DEF IInv, TypeOK, FolderTypeOK, command
<1> QED
  BY <1>1, <1>2, AsideKeeps

LEMMA WriteBackKeeps ==
    ASSUME IInv, NEW n \in Names, WriteBack(n), UNCHANGED <<command, tampered>>
    PROVE  IInv'
<1>1. /\ cancelled' = cancelled /\ stage' = stage /\ self' = self
      /\ held' = held
      /\ entry' = entry /\ temps' = temps
      /\ disk' = [disk EXCEPT ![n] = entry[n]]
      /\ data' = data /\ flushed' = flushed /\ stamp' = stamp
      /\ report' = report /\ result' = result
      /\ late' = late /\ edits' = edits /\ crashes' = crashes
  BY DEF WriteBack, files, process, verdicts, world
<1>2. /\ disk' \in [Names -> Inodes \cup {NoFile}]
      /\ \A m \in Names : disk'[m] \in {disk[m], entry[m]}
  BY <1>1 DEF IInv, TypeOK, FolderTypeOK
<1>3. TypeOK'
  BY <1>1, <1>2 DEF IInv, TypeOK, FolderTypeOK, command
<1> QED
  BY <1>1, <1>2, <1>3, AsideKeeps

LEMMA RefuseKeeps ==
    ASSUME IInv, NEW r \in Runs, Refuse(r), UNCHANGED <<command, tampered>>
    PROVE  IInv'
<1>1. /\ cancelled' = cancelled /\ stage' = stage /\ self' = self
      /\ held' = held
      /\ entry' = entry /\ disk' = disk /\ temps' = temps
      /\ data' = data /\ flushed' = flushed /\ stamp' = stamp
      /\ report' = report /\ r # self /\ result' = [result EXCEPT ![r] = "error"]
      /\ late' = late /\ edits' = edits /\ crashes' = crashes
  BY DEF Refuse, directory, files, process, world
<1>2. /\ result' \in [Runs -> Results]
      /\ \A s \in Runs : result'[s] = "waiting" => result[s] = "waiting"
      /\ self # NoRun => result'[self] = result[self]
  BY <1>1 DEF IInv, TypeOK, FolderTypeOK, Results
<1>3. TypeOK'
  BY <1>1, <1>2 DEF IInv, TypeOK, FolderTypeOK, command
<1> QED
  BY <1>1, <1>2, <1>3, AsideKeeps

-----------------------------------------------------------------------------
(* The user *)

\* A name the user has given away, to no file, a new one or one with a name.
Reassigned(n) ==
    /\ entry'[n] = disk'[n]
    /\ \/ entry'[n] = NoFile
       \/ entry'[n] \in Spare /\ data'[entry'[n]] \in Texts
       \/ \E m \in Names : entry'[n] = entry[m]

(***************************************************************************)
(* The user may change what a file with a name holds, but never without    *)
(* its metadata, and never a file that has no name yet; and unless the     *)
(* user tampers with it, the pair of files stays as it is.                 *)
(***************************************************************************)
LEMMA UserFrame ==
    ASSUME IInv, UserActs, UNCHANGED command, tampered' = (tampered \/ Tampers),
           entry' \in [Names -> Inodes \cup {NoFile}],
           disk' \in [Names -> Inodes \cup {NoFile}],
           data' \in [Inodes -> Contents],
           stamp' \in [Inodes -> Nat],
           \A i \in Inodes :
               /\ stamp'[i] >= stamp[i]
               /\ data'[i] # data[i] =>
                    /\ data'[i] \in Texts
                    /\ \/ data[i] = Unborn /\ i \notin Temps
                       \/ stamp'[i] > stamp[i] /\ \E n \in Names : entry[n] = i,
           \A n \in Names : (entry'[n] = entry[n] /\ disk'[n] = disk[n]) \/ Reassigned(n)
    PROVE  IInv'
<1> USE NamesAssumption
<1>1. /\ stage' = stage /\ self' = self /\ cancelled' = cancelled
      /\ held' = held /\ temps' = temps /\ flushed' = flushed
      /\ report' = report /\ result' = result /\ crashes' = crashes
      /\ edits' = edits + 1
      /\ late' = (late \/ stage \in {"links", "rename"})
  BY DEF UserActs, process, verdicts
<1>2. cmd' = cmd /\ pw' = pw /\ meta' = meta /\ recipe' = recipe
  BY DEF command
<1>3. /\ KeyTemp' = KeyTemp /\ MetaTemp' = MetaTemp /\ KeyText' = KeyText
      /\ Current' = Current
  BY <1>1, <1>2 DEF KeyTemp, MetaTemp, KeyText, Current
<1>4. TypeOK' /\ Running'
  <2>1. tampered' \in BOOLEAN
    BY DEF IInv, TypeOK, Tampers
  <2>2. TypeOK'
    BY <1>1, <1>2, <2>1 DEF IInv, TypeOK, FolderTypeOK
  <2> QED
    BY <1>1, <1>2, <2>2 DEF IInv, Running
<1>5. \A i \in Inodes : data[i] \in Texts => data'[i] \in Texts
  OBVIOUS
<1>6. \A i \in Inodes \cup {NoFile} : Whole(i) => Whole(i)'
  BY <1>1, <1>5 DEF Whole
<1>7. NamesWhole'
  <2>1. ASSUME NEW n \in Names, Reassigned(n) PROVE Whole(entry[n])'
    <3>1. CASE entry'[n] \in Spare /\ data'[entry'[n]] \in Texts
      BY <1>1, <3>1, InodesAssumption DEF Whole
    <3>2. CASE entry'[n] = NoFile
      BY <3>2 DEF Whole
    <3>3. ASSUME NEW m \in Names, entry'[n] = entry[m] PROVE Whole(entry[n])'
      <4>1. Whole(entry[m]) /\ entry[m] \in Inodes \cup {NoFile}
        BY DEF IInv, NamesWhole, TypeOK, FolderTypeOK
      <4> QED
        BY <1>6, <3>3, <4>1 DEF Whole
    <3> QED
      BY <2>1, <3>1, <3>2, <3>3 DEF Reassigned
  <2>2. ASSUME NEW n \in Names, entry'[n] = entry[n], disk'[n] = disk[n]
        PROVE  /\ Whole(entry[n])' /\ Whole(disk[n])'
               /\ disk'[n] \in {entry'[n], NoFile}
    <3>1. /\ Whole(entry[n]) /\ entry[n] \in Inodes \cup {NoFile}
          /\ Whole(disk[n]) /\ disk[n] \in Inodes \cup {NoFile}
          /\ disk[n] \in {entry[n], NoFile}
      BY DEF IInv, NamesWhole, TypeOK, FolderTypeOK
    <3> QED
      BY <1>6, <2>2, <3>1 DEF Whole
  <2>3. \A n \in Names : Reassigned(n) => entry'[n] = disk'[n]
    BY DEF Reassigned
  <2> QED
    BY <2>1, <2>2, <2>3 DEF NamesWhole, Whole
<1>8. \A t \in Temps : data'[t] # data[t] =>
          data[t] \in Texts /\ \E n \in Names : entry[n] = t
  <2>1. \A t \in Temps : t \in Inodes /\ t # NoFile
    BY InodesAssumption DEF Inodes
  <2> QED
    BY <2>1 DEF IInv, NamesWhole, Whole
<1>9. Untouched'
  <2>1. \A r \in Runs : data[<<r, 2>>] = Unborn => data'[<<r, 2>>] = Unborn
    BY <1>8, TextsAssumption DEF Temps
  <2> QED
    BY <1>1, <1>2, <2>1 DEF IInv, Untouched
<1>10. Known'
  BY <1>1, <1>2, <1>3 DEF IInv, Known
<1>11. MetaKept'
  <2>1. ASSUME meta.ino \in Inodes, meta.stamp \in Nat, data[meta.ino] \in Texts,
               stamp[meta.ino] >= meta.stamp
        PROVE  /\ data'[meta.ino] \in Texts /\ stamp'[meta.ino] >= meta.stamp
               /\ stamp'[meta.ino] = meta.stamp =>
                     stamp[meta.ino] = meta.stamp /\ data'[meta.ino] = data[meta.ino]
    <3>1. stamp[meta.ino] \in Nat /\ stamp'[meta.ino] \in Nat
      BY <2>1 DEF IInv, TypeOK, FolderTypeOK
    <3> QED
      BY <2>1, <3>1, TextsAssumption
  <2> QED
    BY <1>1, <1>2, <2>1 DEF IInv, MetaKept
<1>12. ASSUME NEW t \in Temps, Nameless(t)
       PROVE  Nameless(t)' /\ data'[t] = data[t]
  <2>1. t # NoFile /\ t \notin Spare
    BY InodesAssumption DEF Inodes
  <2>2. data'[t] = data[t]
    BY <1>8, <1>12 DEF Nameless
  <2>3. \A n \in Names : entry'[n] # t /\ disk'[n] # t
    BY <1>12, <2>1 DEF Nameless, Reassigned
  <2> QED
    BY <1>2, <1>12, <2>2, <2>3 DEF Nameless
<1>13. /\ KeyPending' <=> KeyPending
       /\ MetaPending' <=> MetaPending
  BY <1>1, <1>3 DEF KeyPending, MetaPending
<1>14. KeyPending \/ MetaPending => KeyTemp \in Temps /\ MetaTemp \in Temps
  <2>1. KeyPending \/ MetaPending => self # NoRun
    BY DEF KeyPending, MetaPending, IInv, Running, WithKey, Checked, PublishStages
  <2> QED
    BY <2>1, OwnTemps
<1>15. TempsApart'
  BY <1>3, <1>12, <1>13, <1>14 DEF IInv, TempsApart
<1>16. Verified'
  BY <1>1, <1>2, <1>3, <1>12, <1>13, <1>14 DEF IInv, Verified, TempsApart
<1>17. ASSUME ~tampered'
       PROVE  /\ ~tampered
              /\ entry[MetaFile] # NoFile =>
                    /\ entry'[MetaFile] = entry[MetaFile]
                    /\ data'[entry[MetaFile]] = data[entry[MetaFile]]
                    /\ disk'[MetaFile] \in {disk[MetaFile], entry[MetaFile]}
              /\ entry'[KeyFile] \in Temps => entry[KeyFile] = entry'[KeyFile]
              /\ entry[KeyFile] # NoFile =>
                    data'[entry[KeyFile]] = data[entry[KeyFile]]
  BY <1>17 DEF Tampers, Absent, Reassigned
<1>18. Progress'
  <2>1. cmd = "make" /\ stage \in PublishStages => MetaTemp # NoFile
    <3>1. stage \in PublishStages => self # NoRun
      BY DEF IInv, Running, PublishStages
    <3> QED
      BY <3>1, OwnTemps, InodesAssumption
  <2>2. cmd = "restore" /\ stage \in PublishStages => meta.ino # NoFile
    BY InodesAssumption DEF IInv, MetaKept, Derived, WithKey, Checked
  <2> QED
    BY <1>1, <1>2, <1>3, <1>17, <2>1, <2>2 DEF IInv, Progress
<1>19. Recipes'
  <2> SUFFICES ASSUME ~tampered', ~Windows PROVE Recipes'
    BY DEF Recipes
  <2>1. NoFile \notin Temps /\ \A r \in Runs : <<r, 1>> \in Temps /\ <<r, 2>> \in Temps
    BY InodesAssumption DEF Inodes, Temps
  <2>2. \A r \in Runs : data[<<r, 2>>] = Unborn => data'[<<r, 2>>] = Unborn
    BY <1>8, TextsAssumption DEF Temps
  <2> QED
    BY <1>1, <1>17, <2>1, <2>2 DEF IInv, Recipes, Absent
<1> QED
  BY <1>4, <1>7, <1>9, <1>10, <1>11, <1>15, <1>16, <1>18, <1>19 DEF IInv

\* The metadata after a file has gained or lost a name.
LEMMA TouchFrame ==
    ASSUME IInv, NEW i \in Inodes \cup {NoFile}, Touch(i)
    PROVE  /\ stamp' \in [Inodes -> Nat]
           /\ \A j \in Inodes : stamp'[j] >= stamp[j]
BY DEF IInv, TypeOK, FolderTypeOK, Touch

\* The directory after a name has come to denote i.
LEMMA DenoteFrame ==
    ASSUME IInv, NEW n \in Names, NEW i \in Inodes \cup {NoFile}, Denote(n, i)
    PROVE  /\ entry' \in [Names -> Inodes \cup {NoFile}]
           /\ disk' \in [Names -> Inodes \cup {NoFile}]
           /\ entry'[n] = i /\ disk'[n] = i
           /\ \A m \in Names : m # n => entry'[m] = entry[m] /\ disk'[m] = disk[m]
BY DEF IInv, TypeOK, FolderTypeOK, Denote

\* Writing into a file moves its metadata on.
LEMMA UserEditKeeps ==
    ASSUME IInv, NEW n \in Names, NEW t \in UserTexts, UserEdit(n, t),
           UNCHANGED command, tampered' = (tampered \/ Tampers)
    PROVE  IInv'
<1>1. /\ entry[n] # NoFile /\ UserActs
      /\ data' = [data EXCEPT ![entry[n]] = t]
      /\ stamp' = [stamp EXCEPT ![entry[n]] = stamp[entry[n]] + 1]
      /\ entry' = entry /\ disk' = disk
  BY DEF UserEdit
<1>2. t \in Texts /\ t \in Contents
  BY TextsAssumption DEF Contents
<1>3. entry[n] \in Inodes
  BY <1>1 DEF IInv, TypeOK, FolderTypeOK
<1>4. /\ entry' \in [Names -> Inodes \cup {NoFile}]
      /\ disk' \in [Names -> Inodes \cup {NoFile}]
      /\ data' \in [Inodes -> Contents]
      /\ stamp' \in [Inodes -> Nat]
      /\ \A i \in Inodes :
            /\ stamp'[i] >= stamp[i]
            /\ data'[i] # data[i] =>
                  data'[i] \in Texts /\ stamp'[i] > stamp[i] /\ entry[n] = i
  BY <1>1, <1>2, <1>3 DEF IInv, TypeOK, FolderTypeOK
<1> QED
  BY <1>1, <1>4, UserFrame

\* A new file of the user's is whole.
LEMMA UserPutKeeps ==
    ASSUME IInv, NEW n \in Names, NEW i \in Spare, NEW t \in UserTexts,
           UserPut(n, i, t), UNCHANGED command, tampered' = (tampered \/ Tampers)
    PROVE  IInv'
<1>1. /\ data[i] = Unborn /\ data' = [data EXCEPT ![i] = t]
      /\ Denote(n, i) /\ Touch(entry[n]) /\ UserActs
  BY DEF UserPut
<1>2. i \in Inodes /\ i \notin Temps /\ t \in Texts /\ t \in Contents
  BY InodesAssumption, TextsAssumption DEF Inodes, Contents
<1>3. entry[n] \in Inodes \cup {NoFile}
  BY DEF IInv, TypeOK, FolderTypeOK
<1>4. /\ data' \in [Inodes -> Contents] /\ data'[i] \in Texts
      /\ \A j \in Inodes : data'[j] # data[j] =>
            data'[j] \in Texts /\ data[j] = Unborn /\ j \notin Temps
  BY <1>1, <1>2 DEF IInv, TypeOK, FolderTypeOK
<1>5. /\ entry' \in [Names -> Inodes \cup {NoFile}]
      /\ disk' \in [Names -> Inodes \cup {NoFile}]
      /\ entry'[n] = i /\ disk'[n] = i
      /\ \A m \in Names : m # n => entry'[m] = entry[m] /\ disk'[m] = disk[m]
  BY <1>1, <1>2, DenoteFrame
<1>6. Reassigned(n)
  BY <1>4, <1>5 DEF Reassigned
<1>7. stamp' \in [Inodes -> Nat] /\ \A j \in Inodes : stamp'[j] >= stamp[j]
  BY <1>1, <1>3, TouchFrame
<1> QED
  BY <1>1, <1>4, <1>5, <1>6, <1>7, UserFrame

\* A name that is removed, or given to another name's file.
LEMMA UserNamesKeeps ==
    ASSUME IInv, NEW n \in Names, NEW i \in Inodes \cup {NoFile},
           i = NoFile \/ \E m \in Names : i = entry[m],
           NEW j \in Inodes \cup {NoFile},
           Denote(n, i), Touch(j), UserActs, data' = data, UNCHANGED command,
           tampered' = (tampered \/ Tampers)
    PROVE  IInv'
<1>1. data' \in [Inodes -> Contents]
  BY DEF IInv, TypeOK, FolderTypeOK
<1>2. /\ entry' \in [Names -> Inodes \cup {NoFile}]
      /\ disk' \in [Names -> Inodes \cup {NoFile}]
      /\ entry'[n] = i /\ disk'[n] = i
      /\ \A m \in Names : m # n => entry'[m] = entry[m] /\ disk'[m] = disk[m]
  BY DenoteFrame
<1>3. Reassigned(n)
  BY <1>2 DEF Reassigned
<1>4. stamp' \in [Inodes -> Nat] /\ \A k \in Inodes : stamp'[k] >= stamp[k]
  BY TouchFrame
<1> QED
  BY <1>1, <1>2, <1>3, <1>4, UserFrame

\* Whatever the user does in the folder keeps the invariant.
LEMMA UserKeeps == ASSUME IInv, UserWorks PROVE IInv'
<1>0. User /\ UNCHANGED command /\ tampered' = (tampered \/ Tampers)
  BY DEF UserWorks
<1>1. ASSUME NEW n \in Names, NEW t \in UserTexts, UserEdit(n, t) PROVE IInv'
  BY <1>0, <1>1, UserEditKeeps
<1>2. ASSUME NEW n \in Names, NEW i \in Spare, NEW t \in UserTexts,
             UserPut(n, i, t)
      PROVE  IInv'
  BY <1>0, <1>2, UserPutKeeps
<1>3. ASSUME NEW n \in Names, UserRemove(n) PROVE IInv'
  <2>1. entry[n] \in Inodes \cup {NoFile}
    BY DEF IInv, TypeOK, FolderTypeOK
  <2> QED
    BY <1>0, <1>3, <2>1, UserNamesKeeps DEF UserRemove
<1>4. ASSUME NEW n \in Names, NEW m \in Names, UserLink(n, m) PROVE IInv'
  <2>1. entry[n] \in Inodes \cup {NoFile}
    BY DEF IInv, TypeOK, FolderTypeOK
  <2> QED
    BY <1>0, <1>4, <2>1, UserNamesKeeps DEF UserLink
<1> QED
  BY <1>0, <1>1, <1>2, <1>3, <1>4 DEF User

-----------------------------------------------------------------------------
(* The invariant and the theorems *)

\* The folder does not change.
LEMMA StutterFrame ==
    ASSUME UNCHANGED vars
    PROVE  /\ stage' = stage /\ self' = self
           /\ cancelled' = cancelled /\ held' = held
           /\ entry' = entry /\ disk' = disk /\ temps' = temps
           /\ data' = data /\ flushed' = flushed /\ stamp' = stamp
           /\ report' = report /\ result' = result
           /\ late' = late /\ edits' = edits /\ crashes' = crashes
           /\ cmd' = cmd /\ pw' = pw /\ meta' = meta /\ recipe' = recipe
           /\ tampered' = tampered /\ command' = command
BY DEF vars, command, folder, directory, files, process, verdicts, world

\* Every step keeps the invariant.
LEMMA NextKeeps == IInv /\ [Next]_vars => IInv'
<1> SUFFICES ASSUME IInv, [Next]_vars PROVE IInv'
  OBVIOUS
<1>1. CASE UNCHANGED vars
  <2>1. TypeOK'
    BY <1>1, StutterFrame DEF IInv, TypeOK, FolderTypeOK
  <2> QED
    BY <1>1, <2>1, StutterFrame, AsideKeeps
<1>2. ASSUME NEW r \in Runs, NEW c \in Commands, Start(r, c) PROVE IInv'
  BY <1>2, StartKeeps
<1>3. ASSUME NEW w \in Passwords, Prompt(w) PROVE IInv'
  BY <1>3, PromptKeeps
<1>4. CASE Step
  BY <1>4, PreflightKeeps, TargetKeeps, OpenMetaKeeps, ReadMetaKeeps,
     DeriveKeeps, CreateKeyTempKeeps, ExpandKeeps, ReadBackKeyKeeps,
     CreateMetaTempKeeps, WriteMetaKeeps, ReadBackMetaKeeps, RecheckKeeps,
     PublishKeeps, StopKeeps, EndKeeps
     DEF Step
<1>5. CASE Environment
  BY <1>5, DamageKeeps, KillKeeps, PowerLossKeeps, InterruptKeeps, UserKeeps,
     WriteBackKeeps, RefuseKeeps
     DEF Environment, Death
<1> QED
  BY <1>1, <1>2, <1>3, <1>4, <1>5 DEF Next

\* The invariant holds of every reachable state.
LEMMA InvHolds == Spec => []IInv
<1> QED
  BY InitEstablishesInv, NextKeeps, PTL DEF Spec

\* Every variable keeps its type.
THEOREM TypeCorrect == Spec => []TypeOK
<1>1. IInv => TypeOK
  BY DEF IInv
<1> QED
  BY <1>1, InvHolds, PTL

(***************************************************************************)
(* A key.key that keymake has made is never without the key.meta it can be *)
(* made again from, not even after a crash between the two publications or *)
(* a power loss at any moment, unless the user tampers with the pair       *)
(* (keygen.rs:151-155).                                                    *)
(***************************************************************************)
THEOREM RecipeKept == Spec => []KeyHasRecipe
<1>1. IInv => KeyHasRecipe
  <2> SUFFICES ASSUME IInv, MadeTogether(entry[KeyFile]), ~tampered, ~Windows
               PROVE  /\ ~Absent(MetaFile)
                      /\ Describes(data[entry[MetaFile]], data[entry[KeyFile]])
    BY DEF KeyHasRecipe
  <2>1. /\ entry[KeyFile] \in Temps
        /\ data[<<entry[KeyFile][1], 2>>] # Unborn \/ crashes = 0
    BY DEF MadeTogether
  <2>2. entry[KeyFile][2] = 1
    BY <2>1 DEF IInv, Recipes
  <2>3. PICK r \in Runs : entry[KeyFile] = <<r, 1>> /\ entry[KeyFile][1] = r
    BY <2>1, <2>2 DEF Temps
  <2> QED
    BY <2>1, <2>3 DEF IInv, Recipes
<1> QED
  BY <1>1, InvHolds, PTL

(***************************************************************************)
(* What keyrestore publishes is the key that its password and the metadata *)
(* it opened expand to, and it fits the digest recorded there: the         *)
(* re-check makes up for a key.meta that changes while it is in use        *)
(* (keygen.rs:177-183).                                                    *)
(***************************************************************************)
THEOREM RestoredKeyExact == Spec => RestoredExact
<1>1. ASSUME IInv, Publishes, cmd = "restore"
      PROVE  data[KeyTemp] = KeyOf(pw, meta.text) /\ Describes(meta.text, data[KeyTemp])
  <2>1. At("rename")
    BY <1>1 DEF Publishes, At, IInv, Running
  <2>2. data[KeyTemp] = KeyText /\ Describes(recipe, KeyText)
    BY <1>1, <2>1, ReadyToRename
  <2>3. recipe = meta.text
    BY <1>1, <2>1 DEF At, IInv, MetaKept, Derived, WithKey, Checked, PublishStages
  <2> QED
    BY <1>1, <2>2, <2>3 DEF KeyText
<1> QED
  BY <1>1, InvHolds, PTL DEF RestoredExact

(***************************************************************************)
(* Without the user and power losses, only the rename changes the          *)
(* directory, the disk only catches up with it, and no file with a name    *)
(* changes its content.                                                    *)
(***************************************************************************)
LEMMA StepFrame ==
    ASSUME IInv, [Next]_vars, ~User, ~PowerLoss
    PROVE  /\ entry' = entry \/ Rename(Current, Goal, FALSE)
           /\ \A n \in Names : disk'[n] \in {disk[n], entry[n]}
           /\ flushed \subseteq flushed'
           /\ data' = data \/ \E t \in {KeyTemp, MetaTemp} :
                 Nameless(t) /\ t \in Temps /\ \E text : data' = [data EXCEPT ![t] = text]
<1>1. CASE UNCHANGED vars
  BY <1>1, StutterFrame
<1>2. CASE \E r \in Runs, c \in Commands : Start(r, c)
  BY <1>2 DEF Start, Enter, directory, files
<1>3. CASE \E w \in Passwords : Prompt(w)
  BY <1>3 DEF Prompt, Passes, directory, files
<1>4. CASE Kill
  BY <1>4 DEF Kill, directory, files
<1>5. CASE Interrupt \/ \E r \in Runs : Refuse(r)
  BY <1>5 DEF Interrupt, Refuse, directory, files
<1>6. ASSUME NEW m \in Names, WriteBack(m)
      PROVE  /\ entry' = entry /\ data' = data /\ flushed' = flushed
             /\ \A n \in Names : disk'[n] \in {disk[n], entry[n]}
  BY <1>6 DEF WriteBack, files, IInv, TypeOK, FolderTypeOK
<1>7. CASE CreateKeyTemp \/ CreateMetaTemp
  <2>1. PICK t \in {KeyTemp, MetaTemp} :
          /\ self # NoRun /\ data[t] = Unborn
          /\ data' = [data EXCEPT ![t] = Partial]
          /\ entry' = entry /\ disk' = disk /\ flushed' = flushed
          /\ stage = "keytemp" \/ cmd = "make"
    BY <1>7 DEF CreateKeyTemp, CreateMetaTemp, At, MakeTemp, IInv, Running
  <2>2. Nameless(t) /\ t \in Temps
    BY <2>1, OwnTemps, UnbornNameless DEF IInv, MetaKept, Derived
  <2> QED
    BY <2>1, <2>2
<1>8. CASE Expand \/ WriteMeta \/ Damage
  <2>1. PICK t \in {KeyTemp, MetaTemp} :
          /\ self # NoRun /\ \E text : data' = [data EXCEPT ![t] = text]
          /\ entry' = entry /\ disk' = disk /\ flushed' = flushed
          /\ \/ t = KeyTemp /\ stage \in {"expand", "readback"}
             \/ t = MetaTemp /\ stage \in {"write", "metaback"}
    BY <1>8 DEF Expand, WriteMeta, Damage, Corrupt, At, Write, directory
  <2>2. Nameless(t) /\ t \in Temps
    BY <2>1, OwnTemps
       DEF IInv, TempsApart, KeyPending, MetaPending, WithKey
  <2> QED
    BY <2>1, <2>2
<1>9. CASE Preflight \/ Target \/ OpenMeta \/ ReadMeta \/ Derive \/ Recheck
  BY <1>9
     DEF Preflight, Target, OpenMeta, ReadMeta, Derive, Recheck, Passes,
         directory, files
<1>10. CASE ReadBackKey \/ ReadBackMeta
  BY <1>10 DEF ReadBackKey, ReadBackMeta, ReadBack, directory
<1>11. CASE Publish
  BY <1>11
     DEF Publish, SyncTemp, FinalUnchanged, FinalLinks, Rename, RenameFails,
         Confirm, ConfirmFails, SyncPublication, SyncPublicationFails, GiveUp,
         directory, files
<1>12. CASE Stop \/ End
  BY <1>12 DEF Stop, Abort, GiveUp, End, Leave, directory, files
<1> QED
  BY <1>1, <1>2, <1>3, <1>4, <1>5, <1>6, <1>7, <1>8, <1>9, <1>10, <1>11, <1>12
     DEF Next, Step, Environment, Death, UserWorks

\* So what has a name keeps it, with its content, in the folder and on the disk.
LEMMA NamedFilesKept ==
    ASSUME IInv, [Next]_vars, ~User, ~PowerLoss, NEW n \in Names, entry[n] # NoFile
    PROVE  /\ entry'[n] = entry[n]
           /\ data'[entry[n]] = data[entry[n]]
           /\ disk[n] = entry[n] => disk'[n] = disk[n]
<1>1. entry'[n] = entry[n]
  <2>1. CASE Rename(Current, Goal, FALSE)
    BY <2>1 DEF Rename, IInv, TypeOK, FolderTypeOK
  <2> QED
    BY <2>1, StepFrame
<1>2. data'[entry[n]] = data[entry[n]]
  BY StepFrame DEF Nameless, IInv, TypeOK, FolderTypeOK
<1>3. disk'[n] \in {disk[n], entry[n]}
  BY StepFrame
<1> QED
  BY <1>1, <1>2, <1>3

(***************************************************************************)
(* No command ever replaces, removes or writes to a key, a metadata file   *)
(* or any other file that exists (keygen.rs:138-139, files.rs:197).        *)
(***************************************************************************)
THEOREM KeysKept == Spec => KeysNeverReplaced
<1>1. ASSUME IInv, [Next]_vars, edits' = edits, crashes' = crashes
      PROVE  \A n \in Names : ~Absent(n) =>
                 entry'[n] = entry[n] /\ data'[entry[n]] = data[entry[n]]
  <2>1. ~PowerLoss /\ ~User
    BY <1>1 DEF PowerLoss, User, UserEdit, UserPut, UserRemove, UserLink,
                UserActs, IInv, TypeOK, FolderTypeOK
  <2> QED
    BY <1>1, <2>1, NamedFilesKept DEF Absent
<1> QED
  BY <1>1, InvHolds, PTL DEF Spec, KeysNeverReplaced

-----------------------------------------------------------------------------
(* What the exit code 0 of keymake promises *)

\* Both files of the invocation r are on the disk, and they fit each other.
Durable(r) ==
    /\ disk[KeyFile] = <<r, 1>> /\ disk[MetaFile] = <<r, 2>>
    /\ {<<r, 1>>, <<r, 2>>} \subseteq flushed
    /\ Describes(data[<<r, 2>>], data[<<r, 1>>])

\* Without the user: nothing is tampered with, a file that was confirmed is
\* in its place, and keymake ends with its pair on the disk.
LetAlone ==
    /\ ~tampered
    /\ stage = "sync" => entry[Goal] = Current
    /\ self # NoRun /\ cmd # "make" /\ stage # "leaving" => report[MetaTemp] = "none"
    /\ ~Windows => \A r \in Runs :
           Made(r) \/ (r = self /\ stage = "done" /\ cmd = "make") => Durable(r)

PairInv == edits = 0 => LetAlone

\* The two files stay on the disk, whatever commands and crashes come.
LEMMA DurableKept ==
    ASSUME IInv, [Next]_vars, ~User, NEW r \in Runs, Durable(r)
    PROVE  Durable(r)'
<1> USE NamesAssumption
<1>1. /\ <<r, 1>> # NoFile /\ <<r, 2>> # NoFile
      /\ <<r, 1>> \in Inodes /\ <<r, 2>> \in Inodes
  BY InodesAssumption DEF Inodes, Temps
<1>2. entry[KeyFile] = <<r, 1>> /\ entry[MetaFile] = <<r, 2>>
  BY <1>1 DEF Durable, IInv, NamesWhole
<1>3. CASE PowerLoss
  <2>1. /\ disk' = disk /\ flushed' = flushed
        /\ data' = [i \in Inodes |->
                      IF i \in Temps \ flushed /\ data[i] # Unborn
                      THEN Torn ELSE data[i]]
    BY <1>3 DEF PowerLoss
  <2>2. data'[<<r, 1>>] = data[<<r, 1>>] /\ data'[<<r, 2>>] = data[<<r, 2>>]
    BY <1>1, <2>1 DEF Durable
  <2> QED
    BY <2>1, <2>2 DEF Durable
<1>4. CASE ~PowerLoss
  <2>1. /\ data'[<<r, 1>>] = data[<<r, 1>>] /\ disk'[KeyFile] = disk[KeyFile]
        /\ data'[<<r, 2>>] = data[<<r, 2>>] /\ disk'[MetaFile] = disk[MetaFile]
    BY <1>1, <1>2, <1>4, NamedFilesKept DEF Durable
  <2>2. flushed \subseteq flushed'
    BY <1>4, StepFrame
  <2> QED
    BY <2>1, <2>2 DEF Durable
<1> QED
  BY <1>3, <1>4

\* The end of keymake's second publication finds both files in their places.
LEMMA PublishedPair ==
    ASSUME IInv, LetAlone, ~Windows, cmd = "make", Current = KeyTemp,
           SyncPublication(Current, "done")
    PROVE  Durable(self)'
<1> USE NamesAssumption
<1>1. /\ stage = "sync" /\ self # NoRun /\ disk' = entry /\ data' = data
      /\ flushed' = flushed \cup {KeyTemp} /\ self' = self
  BY DEF SyncPublication, At
<1>2. /\ self \in Runs /\ KeyTemp = <<self, 1>> /\ MetaTemp = <<self, 2>>
      /\ KeyTemp # MetaTemp
  BY <1>1, OwnTemps DEF IInv, TypeOK, FolderTypeOK, KeyTemp, MetaTemp
<1>3. Goal = KeyFile /\ entry[KeyFile] = <<self, 1>>
  BY <1>1, <1>2 DEF LetAlone, Goal
<1>4. entry[MetaFile] = <<self, 2>> /\ data[<<self, 2>>] = recipe
  BY <1>1, <1>2 DEF LetAlone, IInv, Progress, PublishStages
<1>5. recipe \in Texts
  BY <1>1 DEF IInv, Known, Derived, WithKey, Checked, PublishStages
<1>6. Describes(data[<<self, 2>>], data[<<self, 1>>])
  BY <1>2, <1>3, <1>4, <1>5, TextsAssumption DEF LetAlone, IInv, Recipes
<1>7. <<self, 2>> \in flushed
  <2>1. <<self, 2>> \in Temps /\ <<self, 2>> # NoFile
    BY <1>1, <1>2, OwnTemps, InodesAssumption
  <2> QED
    BY <1>4, <2>1 DEF IInv, NamesWhole, Whole
<1> QED
  BY <1>1, <1>2, <1>3, <1>4, <1>6, <1>7 DEF Durable

\* A step at which no command ends or has a file published.
LEMMA UneventfulStep ==
    ASSUME IInv, LetAlone, [Next]_vars, ~User, tampered' = tampered,
           self' = self, cmd' = cmd, report' = report,
           \A r \in Runs : result'[r] = "success" => result[r] = "success",
           \/ stage' = stage /\ entry' = entry
           \/ stage # "leaving" /\ stage' \notin {"sync", "done"}
           \/ stage # "leaving" /\ stage' = "sync" /\ entry'[Goal] = Current
    PROVE  LetAlone'
<1>1. /\ KeyTemp' = KeyTemp /\ MetaTemp' = MetaTemp
      /\ Current' = Current /\ Goal' = Goal
  BY DEF KeyTemp, MetaTemp, Current, Goal
<1>2. \A r \in Runs : Durable(r) => Durable(r)'
  BY DurableKept
<1>3. \A r \in Runs :
          Made(r)' \/ (r = self' /\ stage' = "done" /\ cmd' = "make") =>
          Made(r) \/ (r = self /\ stage = "done" /\ cmd = "make")
  BY DEF Made
<1> QED
  BY <1>1, <1>2, <1>3 DEF LetAlone

\* The process is gone: of its pair, what it published is on the disk.
LEMMA GoneLetAlone ==
    ASSUME IInv, LetAlone, [Next]_vars, ~User, tampered' = tampered,
           self' = NoRun, stage' = "idle", report' = report,
           \A r \in Runs : r # self => result'[r] = result[r],
           self # NoRun /\ result'[self] = "success" => stage = "done"
    PROVE  LetAlone'
<1>1. \A r \in Runs : Durable(r) => Durable(r)'
  BY DurableKept
<1>2. ASSUME NEW r \in Runs, Made(r)', ~Windows PROVE Durable(r)
  <2>1. CASE r # self
    BY <1>2, <2>1 DEF LetAlone, Made
  <2>2. CASE r = self
    <3>1. stage = "done" /\ self # NoRun /\ report[MetaTemp] = "published"
      BY <1>2, <2>2, RunsAssumption DEF Made, MetaTemp
    <3>2. cmd = "make"
      BY <3>1 DEF LetAlone
    <3> QED
      BY <1>2, <2>2, <3>1, <3>2 DEF LetAlone
  <2> QED
    BY <2>1, <2>2
<1>3. ~\E r \in Runs : r = self'
  BY RunsAssumption
<1> QED
  BY <1>1, <1>2, <1>3 DEF LetAlone

\* A report on the running command's own temporary files is no exit code.
LEMMA ReportLetAlone ==
    ASSUME IInv, LetAlone, [Next]_vars, ~User, tampered' = tampered,
           self # NoRun, self' = self, cmd' = cmd, result' = result,
           \A r \in Runs : r # self => report'[<<r, 2>>] = report[<<r, 2>>],
           stage' # "sync", stage # "leaving",
           stage' = "leaving" \/ cmd = "make" \/ report'[MetaTemp] = report[MetaTemp],
           stage' = "done" /\ cmd = "make" /\ ~Windows => Durable(self)'
    PROVE  LetAlone'
<1>1. \A r \in Runs : Durable(r) => Durable(r)'
  BY DurableKept
<1>2. \A r \in Runs : Made(r)' => r # self /\ Made(r)
  BY DEF Made, IInv, Running
<1>3. MetaTemp' = MetaTemp
  BY DEF MetaTemp
<1> QED
  BY <1>1, <1>2, <1>3 DEF LetAlone

\* Every step but the user's keeps it.
LEMMA LetAloneKept ==
    ASSUME IInv, LetAlone, [Next]_vars, ~User
    PROVE  LetAlone'
<1>1. CASE UNCHANGED vars
  BY <1>1, StutterFrame, UneventfulStep
<1>2. ASSUME NEW r \in Runs, NEW c \in Commands, Start(r, c) PROVE LetAlone'
  <2>1. /\ self = NoRun /\ self' = r /\ stage' # "sync" /\ stage' # "done"
        /\ report' = report /\ result' = result /\ tampered' = tampered
        /\ result[r] = "waiting"
    BY <1>2 DEF Start, Enter, verdicts
  <2>2. report'[MetaTemp'] = "none"
    BY <2>1, RunsAssumption DEF MetaTemp, IInv, Untouched
  <2>3. \A s \in Runs : Durable(s) => Durable(s)'
    BY DurableKept
  <2>4. \A s \in Runs : Made(s)' => Made(s)
    BY <2>1 DEF Made
  <2> QED
    BY <2>1, <2>2, <2>3, <2>4 DEF LetAlone
<1>3. CASE \/ \E w \in Passwords : Prompt(w)
           \/ Preflight \/ Target \/ OpenMeta \/ ReadMeta \/ Derive \/ Recheck
  <2>1. /\ self' = self /\ cmd' = cmd /\ report' = report /\ result' = result
        /\ tampered' = tampered /\ stage # "leaving"
    BY <1>3 DEF Prompt, Preflight, Target, OpenMeta, ReadMeta, Derive, Recheck,
                Passes, At, verdicts, command
  <2>2. stage' \notin {"sync", "done"}
    <3>1. Target => cmd \in Commands
      BY DEF Target, At, IInv, Running
    <3> QED
      BY <1>3, <3>1 DEF Prompt, Preflight, Target, OpenMeta, ReadMeta, Derive,
                        Recheck, Passes, Commands
  <2> QED
    BY <2>1, <2>2, UneventfulStep
<1>4. CASE CreateKeyTemp \/ Expand \/ CreateMetaTemp \/ WriteMeta \/ ReadBackMeta
  <2>1. /\ self' = self /\ cmd' = cmd /\ report' = report /\ result' = result
        /\ tampered' = tampered /\ stage # "leaving"
        /\ stage' \notin {"sync", "done"}
    BY <1>4 DEF CreateKeyTemp, Expand, CreateMetaTemp, WriteMeta, ReadBackMeta,
                MakeTemp, Write, ReadBack, At, verdicts, command
  <2> QED
    BY <2>1, UneventfulStep
<1>5. CASE ReadBackKey
  <2>1. /\ self' = self /\ cmd' = cmd /\ report' = report /\ result' = result
        /\ tampered' = tampered /\ stage # "leaving" /\ cmd \in Commands
    BY <1>5 DEF ReadBackKey, ReadBack, At, verdicts, command, IInv, Running
  <2>2. stage' \notin {"sync", "done"}
    BY <1>5, <2>1 DEF ReadBackKey, ReadBack, Commands
  <2> QED
    BY <2>1, <2>2, UneventfulStep
<1>6. CASE Publish
  <2>1. tampered' = tampered /\ cmd' = cmd
    BY <1>6 DEF Publish, command
  <2>2. CASE \/ SyncTemp(Current)
             \/ FinalUnchanged(FALSE, Goal, NoSnapshot)
             \/ FinalLinks(FALSE, NoSnapshot)
             \/ Rename(Current, Goal, FALSE)
    <3>1. /\ self' = self /\ report' = report /\ result' = result
          /\ stage # "leaving" /\ stage' \notin {"sync", "done"}
      BY <2>2 DEF SyncTemp, FinalUnchanged, FinalLinks, Rename, At, verdicts
    <3> QED
      BY <2>1, <3>1, UneventfulStep
  <2>3. CASE Confirm(Current, Goal)
    <3>1. /\ self' = self /\ report' = report /\ result' = result
          /\ stage # "leaving" /\ stage' = "sync" /\ entry'[Goal] = Current
      BY <2>3 DEF Confirm, At, verdicts, directory
    <3> QED
      BY <2>1, <3>1, UneventfulStep
  <2>4. CASE SyncPublication(Current, IF Current = MetaTemp THEN "publish" ELSE "done")
    <3>1. /\ self # NoRun /\ self' = self /\ result' = result /\ stage = "sync"
          /\ stage' = (IF Current = MetaTemp THEN "publish" ELSE "done")
          /\ report' = [report EXCEPT ![Current] = "published"]
      BY <2>4 DEF SyncPublication, At
    <3>2. /\ KeyTemp # MetaTemp /\ Current \in {KeyTemp, MetaTemp}
          /\ Current = MetaTemp => cmd = "make"
      BY <3>1, OwnTemps
    <3>3. \A r \in Runs : r # self => report'[<<r, 2>>] = report[<<r, 2>>]
      BY <3>1, <3>2 DEF KeyTemp, MetaTemp, Temps, IInv, TypeOK, FolderTypeOK
    <3>4. cmd = "make" \/ report'[MetaTemp] = report[MetaTemp]
      BY <3>1, <3>2, OwnTemps DEF IInv, TypeOK, FolderTypeOK
    <3>5. stage' = "done" /\ cmd = "make" /\ ~Windows => Durable(self)'
      BY <2>4, <3>1, <3>2, PublishedPair
    <3> QED
      BY <2>1, <3>1, <3>3, <3>4, <3>5, ReportLetAlone
  <2>5. CASE \/ RenameFails(Current, Goal, FALSE)
             \/ ConfirmFails(Current, Goal)
             \/ SyncPublicationFails(Current)
    <3>1. PICK rep, kept : self # NoRun /\ GiveUp(kept) /\ EndAs(Current, rep)
                           /\ stage # "leaving"
      BY <2>5 DEF RenameFails, ConfirmFails, SyncPublicationFails, At
    <3>2. \A r \in Runs : r # self => report'[<<r, 2>>] = report[<<r, 2>>]
      BY <3>1, OwnTemps DEF EndAs, Temps, KeyTemp, MetaTemp
    <3>3. self' = self /\ result' = result /\ stage' = "leaving"
      BY <3>1 DEF GiveUp
    <3> QED
      BY <2>1, <3>1, <3>2, <3>3, ReportLetAlone
  <2> QED
    BY <1>6, <2>2, <2>3, <2>4, <2>5 DEF Publish
<1>7. CASE Stop
  <2>1. /\ self # NoRun /\ GiveUp({}) /\ EndAs(Current, "stopped")
        /\ stage # "leaving" /\ tampered' = tampered /\ cmd' = cmd
    BY <1>7 DEF Stop, Abort, CheckFails, CallFails, At, command, EarlyStages
  <2>2. \A r \in Runs : r # self => report'[<<r, 2>>] = report[<<r, 2>>]
    BY <2>1, OwnTemps DEF EndAs, Temps, KeyTemp, MetaTemp
  <2>3. self' = self /\ result' = result /\ stage' = "leaving"
    BY <2>1 DEF GiveUp
  <2> QED
    BY <2>1, <2>2, <2>3, ReportLetAlone
<1>8. CASE End \/ Death
  <2>1. /\ self' = NoRun /\ stage' = "idle" /\ report' = report
        /\ tampered' = tampered
    BY <1>8 DEF End, Leave, Death, Kill, PowerLoss, Gone
  <2>2. \A r \in Runs : r # self => result'[r] = result[r]
    BY <1>8 DEF End, Leave, Death, Kill, PowerLoss, Gone, IInv, TypeOK, FolderTypeOK
  <2>3. self # NoRun /\ result'[self] = "success" => stage = "done"
    BY <1>8 DEF End, Leave, ExitCode, Death, Kill, PowerLoss, Gone, IInv,
                TypeOK, FolderTypeOK
  <2> QED
    BY <2>1, <2>2, <2>3, GoneLetAlone
<1>9. CASE \/ Damage
           \/ /\ Interrupt \/ (\E n \in Names : WriteBack(n)) \/ (\E r \in Runs : Refuse(r))
              /\ UNCHANGED <<command, tampered>>
  <2>1. /\ self' = self /\ cmd' = cmd /\ report' = report /\ tampered' = tampered
        /\ stage' = stage /\ entry' = entry
    BY <1>9 DEF Damage, Corrupt, Interrupt, WriteBack, Refuse, directory, process,
                verdicts, command
  <2>2. \A r \in Runs : result'[r] = "success" => result[r] = "success"
    BY <1>9 DEF Damage, Corrupt, Interrupt, WriteBack, Refuse, verdicts, IInv,
                TypeOK, FolderTypeOK
  <2> QED
    BY <2>1, <2>2, UneventfulStep
<1> QED
  BY <1>1, <1>2, <1>3, <1>4, <1>5, <1>6, <1>7, <1>8, <1>9
     DEF Next, Step, Environment, UserWorks

\* User actions are counted.
LEMMA UserCounts ==
    ASSUME IInv, [Next]_vars, edits' = 0
    PROVE  ~User /\ edits = 0
<1>1. edits \in Nat
  BY DEF IInv, TypeOK, FolderTypeOK
<1>2. ~User
  BY <1>1 DEF User, UserEdit, UserPut, UserRemove, UserLink, UserActs
<1>3. edits' = edits
  <2>1. CASE UNCHANGED vars
    BY <2>1, StutterFrame
  <2>2. CASE \/ \E r \in Runs, c \in Commands : Start(r, c)
             \/ \E w \in Passwords : Prompt(w)
    BY <2>2 DEF Start, Enter, Prompt, Passes, world
  <2>3. CASE Publish
    BY <2>3 DEF Publish, SyncTemp, FinalUnchanged, FinalLinks, Rename,
                RenameFails, Confirm, ConfirmFails, SyncPublication,
                SyncPublicationFails, GiveUp, world
  <2>4. CASE Step /\ ~Publish
    BY <2>4
       DEF Step, Preflight, Target, OpenMeta, ReadMeta, Derive, CreateKeyTemp,
           Expand, ReadBackKey, CreateMetaTemp, WriteMeta, ReadBackMeta,
           Recheck, Passes, MakeTemp, Write, ReadBack, Stop, Abort, GiveUp,
           End, Leave, world
  <2>5. CASE Environment
    BY <1>2, <2>5
       DEF Environment, Damage, Corrupt, Death, Kill, PowerLoss, UserWorks,
           Interrupt, WriteBack, Refuse, world
  <2> QED
    BY <2>1, <2>2, <2>3, <2>4, <2>5 DEF Next
<1> QED
  BY <1>2, <1>3

(***************************************************************************)
(* A keymake that exits with 0 has both files on the disk, and they fit    *)
(* each other: neither later commands nor kills nor power losses undo it,  *)
(* as long as the user leaves the folder alone (Linux: keygen.rs:153-155,  *)
(* linux.rs:93-100).                                                       *)
(***************************************************************************)
THEOREM SuccessIsPair == Spec => []PairIsDurable
<1>1. Init => PairInv
  BY DEF Init, FolderInit, PairInv, LetAlone, Made
<1>2. IInv /\ PairInv /\ [Next]_vars => PairInv'
  BY UserCounts, LetAloneKept DEF PairInv
<1>3. PairInv => PairIsDurable
  BY DEF PairInv, LetAlone, Durable, PairIsDurable
<1> QED
  BY <1>1, <1>2, <1>3, InvHolds, PTL DEF Spec

-----------------------------------------------------------------------------
(***************************************************************************)
(* KeyPair implements AtomicFolder for every value of the constants: a key *)
(* command replaces at most two names, each of them atomically, and its    *)
(* success is safe.  The accounts of the reports, and the invariant above, *)
(* are what the refinement rests on.                                       *)
(***************************************************************************)

Unreported == EarlyStages \cup PublishStages
Reported == {"unverified", "occurred", "published"}

\* key.key is reported last; a command that succeeds has reported it, and
\* what the folder shows is safe.
Accounts ==
    /\ \A r \in Runs : result[r] = "waiting" /\ r # self => report[<<r, 1>>] = "none"
    /\ self # NoRun /\ stage \in Unreported => report[KeyTemp] = "none"
    /\ stage = "done" => report[KeyTemp] = "published" /\ (~Windows => disk = entry)

-----------------------------------------------------------------------------
(* The kinds of steps *)

\* A step nobody outside the command sees.
Quiet ==
    /\ entry' = entry /\ disk' = disk /\ report' = report /\ self' = self
    /\ result' = result /\ edits' = edits /\ crashes' = crashes
    /\ stage' \in {"confirm", "sync"} <=> stage \in {"confirm", "sync"}
    /\ stage' \in Unreported => stage \in Unreported
    /\ stage' = "done" <=> stage = "done"

\* The command gives up, reporting rep of the file in hand.
GivesUp(rep) ==
    /\ self # NoRun /\ stage \in Unreported
    /\ rep \in Reported <=> stage \in {"confirm", "sync"}
    /\ \E kept : GiveUp(kept)
    /\ EndAs(Current, rep)
    /\ rep \in Reports

LEMMA QuietSteps ==
    ASSUME IInv,
           \/ Preflight \/ Target \/ OpenMeta \/ ReadMeta \/ Derive
           \/ CreateKeyTemp \/ Expand \/ ReadBackKey
           \/ CreateMetaTemp \/ WriteMeta \/ ReadBackMeta \/ Recheck
           \/ SyncTemp(Current)
           \/ FinalUnchanged(FALSE, Goal, NoSnapshot)
           \/ FinalLinks(FALSE, NoSnapshot)
           \/ Confirm(Current, Goal)
           \/ Damage \/ Interrupt
           \/ \E w \in Passwords : Prompt(w)
           \/ UNCHANGED vars
    PROVE  Quiet
<1> USE DEF Quiet, Unreported, EarlyStages, PublishStages, At, directory,
            verdicts, world
<1>1. CASE \/ Preflight \/ OpenMeta \/ ReadMeta \/ Derive \/ Recheck
           \/ \E w \in Passwords : Prompt(w)
  BY <1>1 DEF Preflight, OpenMeta, ReadMeta, Derive, Recheck, Prompt, Passes
<1>2. CASE Target \/ ReadBackKey
  <2>1. cmd \in Commands
    BY <1>2 DEF Target, ReadBackKey, IInv, Running
  <2> QED
    BY <1>2, <2>1 DEF Target, ReadBackKey, Passes, ReadBack, Commands
<1>3. CASE CreateKeyTemp \/ Expand \/ CreateMetaTemp \/ WriteMeta \/ ReadBackMeta
  BY <1>3 DEF CreateKeyTemp, Expand, CreateMetaTemp, WriteMeta, ReadBackMeta,
              MakeTemp, Write, ReadBack
<1>4. CASE \/ SyncTemp(Current)
           \/ FinalUnchanged(FALSE, Goal, NoSnapshot)
           \/ FinalLinks(FALSE, NoSnapshot)
           \/ Confirm(Current, Goal)
  BY <1>4 DEF SyncTemp, FinalUnchanged, FinalLinks, Confirm
<1>5. CASE Damage \/ Interrupt
  BY <1>5 DEF Damage, Corrupt, Interrupt, process
<1>6. CASE UNCHANGED vars
  BY <1>6, StutterFrame
<1> QED
  BY <1>1, <1>2, <1>3, <1>4, <1>5, <1>6

LEMMA GivingUpSteps ==
    ASSUME \/ Stop
           \/ RenameFails(Current, Goal, FALSE)
           \/ ConfirmFails(Current, Goal)
           \/ SyncPublicationFails(Current)
    PROVE  \E rep : GivesUp(rep)
<1> USE DEF GivesUp, Unreported, Reported, Reports, EarlyStages, PublishStages, At
<1>1. CASE Stop
  <2>1. GiveUp({}) /\ EndAs(Current, "stopped") /\ self # NoRun
    BY <1>1 DEF Stop, Abort
  <2>2. stage \in EarlyStages \cup {"publish", "final", "links"}
    BY <1>1 DEF Stop, CheckFails, CallFails
  <2>3. GivesUp("stopped")
    BY <2>1, <2>2
  <2> QED
    BY <2>3
<1>2. CASE RenameFails(Current, Goal, FALSE)
  <2>1. GiveUp({Current}) /\ EndAs(Current, "retained") /\ self # NoRun
        /\ stage = "rename"
    BY <1>2 DEF RenameFails
  <2>2. GivesUp("retained")
    BY <2>1
  <2> QED
    BY <2>2
<1>3. CASE ConfirmFails(Current, Goal)
  <2>1. GiveUp({}) /\ EndAs(Current, "unverified") /\ self # NoRun
        /\ stage = "confirm"
    BY <1>3 DEF ConfirmFails
  <2>2. GivesUp("unverified")
    BY <2>1
  <2> QED
    BY <2>2
<1>4. CASE SyncPublicationFails(Current)
  <2>1. GiveUp({}) /\ EndAs(Current, "occurred") /\ self # NoRun
        /\ stage = "sync"
    BY <1>4 DEF SyncPublicationFails
  <2>2. GivesUp("occurred")
    BY <2>1
  <2> QED
    BY <2>2
<1> QED
  BY <1>1, <1>2, <1>3, <1>4

-----------------------------------------------------------------------------
(* Accounts is invariant *)

\* What giving up leaves behind.
LEMMA GivenUp ==
    ASSUME IInv, Accounts, NEW rep, GivesUp(rep)
    PROVE  /\ stage' = "leaving" /\ self' = self /\ result' = result
           /\ entry' = entry /\ disk' = disk /\ edits' = edits /\ crashes' = crashes
           /\ report[Current] = "none" /\ report'[Current] = rep
           /\ \A t \in Temps : t # Current =>
                 \/ report'[t] = report[t]
                 \/ t[1] = self /\ report[t] = "none" /\ report'[t] = "stopped"
<1>1. PICK kept : GiveUp(kept)
  BY DEF GivesUp
<1>2. self # NoRun /\ stage \in Unreported
  BY DEF GivesUp
<1>3. Current \in Temps /\ report[Current] = "none"
  BY <1>2, OwnTemps DEF Accounts, Current
<1> QED
  BY <1>1, <1>3 DEF GiveUp, GivesUp, EndAs, world

LEMMA InitAccounts == Init => Accounts
<1> SUFFICES ASSUME Init PROVE Accounts
  OBVIOUS
<1>1. self = NoRun /\ stage = "idle" /\ \A t \in Temps : report[t] = "none"
  BY DEF Init, FolderInit
<1> QED
  BY <1>1 DEF Accounts, Temps

\* A step that takes nothing back and reports nothing.
LEMMA SameAccounts ==
    ASSUME IInv, Accounts, report' = report,
           \A r \in Runs : r # self' /\ result'[r] = "waiting" =>
               r # self /\ result[r] = "waiting",
           self' # NoRun /\ stage' \in Unreported =>
               report[<<self', 1>>] = "none",
           stage' = "done" => stage = "done" /\ self' = self /\ (disk = entry => disk' = entry')
    PROVE  Accounts'
BY DEF Accounts, KeyTemp

LEMMA AccountsKept ==
    ASSUME IInv, Accounts, [Next]_vars
    PROVE  Accounts'
<1> USE DEF Unreported, EarlyStages, PublishStages
<1>1. CASE Quiet
  BY <1>1, SameAccounts DEF Quiet, Accounts, KeyTemp
<1>2. ASSUME NEW r \in Runs, NEW c \in Commands, Start(r, c) PROVE Accounts'
  <2>1. /\ self = NoRun /\ result[r] = "waiting" /\ self' = r /\ stage' # "done"
        /\ report' = report /\ result' = result
    BY <1>2 DEF Start, Enter, verdicts
  <2>2. report[<<r, 1>>] = "none"
    BY <2>1, RunsAssumption DEF Accounts
  <2> QED
    BY <2>1, <2>2, SameAccounts, RunsAssumption
<1>3. ASSUME NEW rep, GivesUp(rep) PROVE Accounts'
  <2>1. \A r \in Runs : r # self => /\ <<r, 1>> \in Temps /\ <<r, 1>> # Current
                                    /\ <<r, 1>>[1] # self
    BY DEF Temps, Current, KeyTemp, MetaTemp
  <2> QED
    BY <1>3, <2>1, GivenUp DEF Accounts
<1>4. CASE SyncPublication(Current, IF Current = MetaTemp THEN "publish" ELSE "done")
  <2>1. /\ self # NoRun /\ stage = "sync" /\ self' = self /\ result' = result
        /\ stage' = (IF Current = MetaTemp THEN "publish" ELSE "done")
        /\ disk' = (IF Windows THEN disk ELSE entry) /\ entry' = entry
        /\ report' = [report EXCEPT ![Current] = "published"]
    BY <1>4 DEF SyncPublication, At
  <2>2. /\ KeyTemp # MetaTemp /\ Current \in {KeyTemp, MetaTemp}
        /\ KeyTemp \in Temps /\ report \in [Temps -> Reports]
    BY <2>1, OwnTemps DEF IInv, TypeOK, FolderTypeOK
  <2>3. \A r \in Runs : r # self => <<r, 1>> \in Temps /\ <<r, 1>> # Current
    BY DEF Temps, Current, KeyTemp, MetaTemp
  <2> QED
    BY <2>1, <2>2, <2>3 DEF Accounts, KeyTemp
<1>5. CASE Rename(Current, Goal, FALSE)
  <2>1. /\ stage = "rename" /\ stage' = "confirm" /\ self' = self
        /\ report' = report /\ result' = result /\ self # NoRun
    BY <1>5 DEF Rename, At, verdicts
  <2> QED
    BY <2>1, SameAccounts DEF Accounts, KeyTemp
<1>6. CASE End \/ Death
  <2>1. /\ self' = NoRun /\ stage' = "idle" /\ report' = report
    BY <1>6 DEF End, Leave, Death, Kill, PowerLoss, Gone
  <2>2. \A r \in Runs : result'[r] = "waiting" => r # self /\ result[r] = "waiting"
    BY <1>6 DEF End, Leave, ExitCode, Death, Kill, PowerLoss, Gone, IInv, TypeOK, FolderTypeOK
  <2> QED
    BY <2>1, <2>2, SameAccounts
<1>7. CASE User \/ \E n \in Names : WriteBack(n)
  <2>1. /\ self' = self /\ stage' = stage /\ report' = report /\ result' = result
    BY <1>7 DEF User, UserEdit, UserPut, UserRemove, UserLink, UserActs,
                WriteBack, process, verdicts
  <2>2. disk = entry => disk' = entry'
    BY <1>7 DEF User, UserEdit, UserPut, UserRemove, UserLink, Denote, WriteBack,
                IInv, TypeOK, FolderTypeOK
  <2> QED
    BY <2>1, <2>2, SameAccounts DEF Accounts, KeyTemp
<1>8. CASE \E r \in Runs : Refuse(r)
  <2>1. /\ self' = self /\ stage' = stage /\ report' = report
        /\ entry' = entry /\ disk' = disk
        /\ \A r \in Runs : result'[r] = "waiting" => result[r] = "waiting"
    BY <1>8 DEF Refuse, process, directory, IInv, TypeOK, FolderTypeOK
  <2> QED
    BY <2>1, SameAccounts DEF Accounts, KeyTemp
<1> QED
  BY <1>1, <1>2, <1>3, <1>4, <1>5, <1>6, <1>7, <1>8, QuietSteps, GivingUpSteps
     DEF Next, Step, Publish, Environment, UserWorks

LEMMA AccountsHold == Spec => [](IInv /\ Accounts)
<1>1. Init => IInv /\ Accounts
  BY InitEstablishesInv, InitAccounts
<1>2. (IInv /\ Accounts) /\ [Next]_vars => (IInv /\ Accounts)'
  BY NextKeeps, AccountsKept
<1> QED
  BY <1>1, <1>2, PTL DEF Spec

-----------------------------------------------------------------------------
(* Every step is one of AtomicFolder *)

\* Names hold whole contents or nothing.
ViewsOK == Shown \in Atomic!Views /\ Safe \in Atomic!Views

LEMMA ViewsWhole == IInv => ViewsOK
BY DEF ViewsOK, IInv, NamesWhole, Whole, Shown, Safe, Content, Atomic!Views

LEMMA ViewsWholeNext == IInv' => ViewsOK'
BY ViewsWhole, PTL

\* What is seen of a step that is neither the user's nor a power loss.
LEMMA Seen ==
    ASSUME IInv, [Next]_vars, ~User, ~PowerLoss
    PROVE  /\ entry' = entry => Shown' = Shown
           /\ disk' = disk => Safe' = Safe
           /\ entry' = entry =>
                 Safe' = [n \in Names |-> IF Safe'[n] = Shown[n] THEN Shown[n] ELSE Safe[n]]
<1>1. \A n \in Names : /\ entry[n] # NoFile => data'[entry[n]] = data[entry[n]]
                       /\ disk[n] # NoFile => data'[disk[n]] = data[disk[n]]
  BY StepFrame DEF Nameless, IInv, TypeOK, FolderTypeOK
<1>2. \A n \in Names : /\ Content(entry[n])' = Content(entry[n]) \/ entry'[n] # entry[n]
                       /\ Content(disk[n])' = Content(disk[n]) \/ disk'[n] # disk[n]
                       /\ \/ Content(disk[n])' = Content(disk[n])
                          \/ Content(disk[n])' = Content(entry[n])
  BY <1>1, StepFrame DEF Content
<1> QED
  BY <1>2 DEF Shown, Safe

LEMMA InitRefines == Init => Atomic!Init
<1> SUFFICES ASSUME Init PROVE Atomic!Init
  OBVIOUS
<1>1. Shown \in Atomic!Views
  BY InitEstablishesInv, ViewsWhole DEF ViewsOK
<1>2. Safe = Shown
  BY DEF Init, FolderInit, Safe, Shown
<1>3. Wrote = 0
  BY DEF Init, FolderInit, Wrote
<1> QED
  BY <1>1, <1>2, <1>3 DEF Init, FolderInit, Atomic!Init

\* Steps that count the user's actions and the crashes are neither's.
LEMMA Uncounted ==
    ASSUME IInv, edits' = edits, crashes' = crashes
    PROVE  ~User /\ ~PowerLoss
BY DEF User, UserEdit, UserPut, UserRemove, UserLink, UserActs, PowerLoss, IInv,
       TypeOK, FolderTypeOK

LEMMA QuietRefines ==
    ASSUME IInv, [Next]_vars, Quiet
    PROVE  UNCHANGED Atomic!vars
BY Uncounted, Seen DEF Quiet, Wrote, Written, Atomic!vars

LEMMA StartRefines ==
    ASSUME IInv, Accounts, [Next]_vars, NEW r \in Runs, NEW c \in Commands, Start(r, c)
    PROVE  Atomic!Begin(r)
<1>1. /\ self = NoRun /\ result[r] = "waiting" /\ self' = r
      /\ stage' \notin {"confirm", "sync"}
      /\ entry' = entry /\ disk' = disk /\ report' = report
      /\ result' = result /\ edits' = edits /\ crashes' = crashes
  BY DEF Start, Enter, directory, verdicts, world
<1>2. report[<<r, 1>>] = "none" /\ report[<<r, 2>>] = "none"
  BY <1>1, RunsAssumption DEF Accounts, IInv, Untouched
<1>3. Wrote = 0 /\ Wrote' = 0
  BY <1>1, <1>2, RunsAssumption DEF Wrote, Written
<1> QED
  BY <1>1, <1>3, Uncounted, Seen DEF Atomic!Begin

\* Before the first rename nothing is written, before the second one name.
LEMMA RenameRefines ==
    ASSUME IInv, Accounts, [Next]_vars, Rename(Current, Goal, FALSE)
    PROVE  Atomic!Commit(Goal) /\ Goal \in Names
<1>1. /\ stage = "rename" /\ self # NoRun /\ stage' = "confirm" /\ self' = self
      /\ entry' = [entry EXCEPT ![Goal] = Current] /\ disk' = disk
      /\ data' = data /\ report' = report /\ result' = result
      /\ edits' = edits /\ crashes' = crashes
  BY DEF Rename, At, files, verdicts, world
<1>2. Goal \in Names /\ Current \in Temps /\ Current # NoFile
  BY <1>1, OwnTemps, NamesAssumption, InodesAssumption DEF Goal, Inodes
<1>3. data[Current] \in Texts
  BY <1>1, ReadyToRename DEF At
<1>4. Shown'[Goal] = data[Current]
  BY <1>1, <1>2 DEF Shown, Content, IInv, TypeOK, FolderTypeOK
<1>5. Shown' = [Shown EXCEPT ![Goal] = Shown'[Goal]]
  BY <1>1, <1>2 DEF Shown, Content, IInv, TypeOK, FolderTypeOK
<1>6. Safe' = Safe
  BY <1>1 DEF Safe, Content
<1>7. Written(<<self, 1>>) = 0 /\ Written(<<self, 2>>) \in {0, 1}
  BY <1>1 DEF Accounts, Unreported, PublishStages, KeyTemp, Written
<1>8. Written(<<self, 1>>)' = Written(<<self, 1>>)
      /\ Written(<<self, 2>>)' = Written(<<self, 2>>)
  BY <1>1 DEF Written
<1>9. Wrote < 2 /\ Wrote' = Wrote + 1
  BY <1>1, <1>7, <1>8 DEF Wrote
<1> QED
  BY <1>1, <1>2, <1>3, <1>4, <1>5, <1>6, <1>9 DEF Atomic!Commit

\* The report of the file in hand takes the place of its stage.
LEMMA ReportCounts ==
    ASSUME IInv, self # NoRun, self' = self, report[Current] = "none",
           stage' \notin {"confirm", "sync"},
           report'[Current] \in Reported <=> stage \in {"confirm", "sync"},
           \A t \in Temps : t # Current => Written(t)' = Written(t)
    PROVE  Wrote' = Wrote
<1>1. /\ KeyTemp \in Temps /\ MetaTemp \in Temps /\ KeyTemp # MetaTemp
      /\ Current \in {KeyTemp, MetaTemp}
      /\ KeyTemp = <<self, 1>> /\ MetaTemp = <<self, 2>>
  BY OwnTemps DEF KeyTemp, MetaTemp
<1>2. \A t \in Temps : Written(t) \in {0, 1}
  BY DEF Written
<1>3. Written(Current) = 0
  BY DEF Written
<1>4. report'[Current] \in Reported =>
          Written(<<self, 1>>)' + Written(<<self, 2>>)'
            = Written(<<self, 1>>) + Written(<<self, 2>>) + 1
  BY <1>1, <1>2, <1>3 DEF Written, Reported
<1>5. report'[Current] \notin Reported =>
          Written(<<self, 1>>)' + Written(<<self, 2>>)'
            = Written(<<self, 1>>) + Written(<<self, 2>>)
  BY <1>1, <1>2, <1>3 DEF Written, Reported
<1>6. Wrote' = Written(<<self, 1>>)' + Written(<<self, 2>>)' + 0
  BY DEF Wrote
<1> QED
  BY <1>1, <1>2, <1>4, <1>5, <1>6 DEF Wrote

LEMMA GivingUpRefines ==
    ASSUME IInv, Accounts, [Next]_vars, NEW rep, GivesUp(rep)
    PROVE  UNCHANGED Atomic!vars
<1>1. \A t \in Temps : t # Current => Written(t)' = Written(t)
  BY GivenUp DEF Written
<1>2. Wrote' = Wrote
  BY <1>1, GivenUp, ReportCounts DEF GivesUp
<1> QED
  BY <1>2, GivenUp, Uncounted, Seen DEF Atomic!vars

LEMMA SyncPublicationRefines ==
    ASSUME IInv, Accounts, [Next]_vars,
           SyncPublication(Current, IF Current = MetaTemp THEN "publish" ELSE "done")
    PROVE  Atomic!Settle
<1>1. /\ self # NoRun /\ stage = "sync" /\ self' = self /\ result' = result
      /\ stage' \in {"publish", "done"} /\ entry' = entry
      /\ edits' = edits /\ crashes' = crashes
      /\ report' = [report EXCEPT ![Current] = "published"]
  BY DEF SyncPublication, At, world
<1>2. Current \in Temps /\ report \in [Temps -> Reports]
  BY <1>1, OwnTemps DEF IInv, TypeOK, FolderTypeOK
<1>3. report[Current] = "none"
  BY <1>1 DEF Accounts, Unreported, PublishStages, Current
<1>4. \A t \in Temps : t # Current => Written(t)' = Written(t)
  BY <1>1, <1>2 DEF Written
<1>5. Wrote' = Wrote
  BY <1>1, <1>2, <1>3, <1>4, ReportCounts DEF Reported
<1> QED
  BY <1>1, <1>5, Uncounted, Seen DEF Atomic!Settle

LEMMA EndRefines ==
    ASSUME IInv, Accounts, [Next]_vars, End
    PROVE  Atomic!Succeed \/ Atomic!Fail
<1>1. /\ self # NoRun /\ stage \in {"leaving", "done"} /\ self' = NoRun
      /\ result' = [result EXCEPT ![self] = ExitCode]
      /\ entry' = entry /\ disk' = disk /\ edits' = edits /\ crashes' = crashes
  BY DEF End, Leave, At, Gone, directory
<1>2. Shown' = Shown /\ Safe' = Safe /\ Wrote' = 0
  BY <1>1, Uncounted, Seen DEF Wrote
<1>3. CASE stage = "done"
  <2>1. ExitCode = "success"
    BY <1>3 DEF ExitCode
  <2>2. Written(<<self, 1>>) = 1 /\ Written(<<self, 2>>) \in {0, 1}
    BY <1>3 DEF Accounts, KeyTemp, Written
  <2>3. Wrote > 0
    BY <1>1, <1>3, <2>2 DEF Wrote
  <2>4. ~Windows => Safe = Shown
    BY <1>3 DEF Accounts, Safe, Shown
  <2> QED
    BY <1>1, <1>2, <2>1, <2>3, <2>4 DEF Atomic!Succeed, Atomic!Ends
<1>4. CASE stage # "done"
  <2>1. ExitCode \in {"error", "cancelled", "killed"}
    BY <1>4 DEF ExitCode
  <2> QED
    BY <1>1, <1>2, <2>1 DEF Atomic!Fail, Atomic!Ends
<1> QED
  BY <1>3, <1>4

LEMMA KillRefines ==
    ASSUME IInv, [Next]_vars, Kill, ~PowerLoss
    PROVE  Atomic!Fail
<1>1. /\ self # NoRun /\ self' = NoRun /\ result' = [result EXCEPT ![self] = "killed"]
      /\ entry' = entry /\ disk' = disk /\ edits' = edits
  BY DEF Kill, Gone, directory
<1>2. ~User
  BY <1>1 DEF User, UserEdit, UserPut, UserRemove, UserLink, UserActs, IInv,
              TypeOK, FolderTypeOK
<1>3. Shown' = Shown /\ Safe' = Safe /\ Wrote' = 0
  BY <1>1, <1>2, Seen DEF Wrote
<1> QED
  BY <1>1, <1>3 DEF Atomic!Fail, Atomic!Ends

LEMMA PowerLossRefines ==
    ASSUME IInv, PowerLoss
    PROVE  Atomic!PowerLoss
<1>1. /\ self' = NoRun /\ entry' = disk /\ disk' = disk /\ edits' = edits
      /\ data' = [i \in Inodes |->
                    IF i \in Temps \ flushed /\ data[i] # Unborn THEN Torn ELSE data[i]]
      /\ result' = [r \in Runs |-> IF r = self THEN "killed" ELSE result[r]]
  BY DEF PowerLoss
<1>2. \A n \in Names : disk[n] # NoFile => data'[disk[n]] = data[disk[n]]
  BY <1>1 DEF IInv, TypeOK, FolderTypeOK, NamesWhole, Whole
<1>3. Shown' = Safe /\ Safe' = Safe
  BY <1>1, <1>2 DEF Shown, Safe, Content
<1>4. Wrote' = 0
  BY <1>1 DEF Wrote
<1> QED
  BY <1>1, <1>3, <1>4 DEF Atomic!PowerLoss

LEMMA UserRefines ==
    ASSUME IInv', User
    PROVE  Atomic!User
<1>1. UserActs
  BY DEF User, UserEdit, UserPut, UserRemove, UserLink
<1>2. /\ self' = self /\ stage' = stage /\ report' = report /\ result' = result
      /\ edits' = edits + 1
  BY <1>1 DEF UserActs, process, verdicts
<1>3. Wrote' = Wrote
  BY <1>2 DEF Wrote, Written
<1> QED
  BY <1>2, <1>3, ViewsWholeNext DEF ViewsOK, Atomic!Views, Atomic!User

LEMMA AsideRefines ==
    ASSUME IInv, [Next]_vars
    PROVE  /\ (\E n \in Names : WriteBack(n)) => Atomic!Settle
           /\ \A r \in Runs : Refuse(r) => Atomic!Refuse(r)
<1>1. ASSUME NEW n \in Names, WriteBack(n) PROVE Atomic!Settle
  <2>1. /\ entry' = entry /\ self' = self /\ stage' = stage /\ report' = report
        /\ result' = result /\ edits' = edits /\ crashes' = crashes
    BY <1>1 DEF WriteBack, process, verdicts, world
  <2>2. Wrote' = Wrote
    BY <2>1 DEF Wrote, Written
  <2> QED
    BY <2>1, <2>2, Uncounted, Seen DEF Atomic!Settle
<1>2. ASSUME NEW r \in Runs, Refuse(r) PROVE Atomic!Refuse(r)
  <2>1. /\ self # NoRun /\ r # self /\ result[r] = "waiting"
        /\ result' = [result EXCEPT ![r] = "error"]
        /\ entry' = entry /\ disk' = disk /\ self' = self /\ stage' = stage
        /\ report' = report /\ edits' = edits /\ crashes' = crashes
    BY <1>2 DEF Refuse, directory, process, world
  <2>2. Wrote' = Wrote
    BY <2>1 DEF Wrote, Written
  <2> QED
    BY <2>1, <2>2, Uncounted, Seen DEF Atomic!Refuse
<1> QED
  BY <1>1, <1>2

\* Every step is one of AtomicFolder, or is not seen.
LEMMA StepRefines ==
    ASSUME IInv, Accounts, IInv', [Next]_vars
    PROVE  [Atomic!Next]_(Atomic!vars)
<1> USE DEF Atomic!Next
<1>1. CASE Quiet
  BY <1>1, QuietRefines
<1>2. CASE \E r \in Runs, c \in Commands : Start(r, c)
  BY <1>2, StartRefines
<1>3. CASE \E rep : GivesUp(rep)
  BY <1>3, GivingUpRefines
<1>4. CASE Rename(Current, Goal, FALSE)
  BY <1>4, RenameRefines
<1>5. CASE SyncPublication(Current, IF Current = MetaTemp THEN "publish" ELSE "done")
  BY <1>5, SyncPublicationRefines
<1>6. CASE End \/ Death
  BY <1>6, EndRefines, KillRefines, PowerLossRefines DEF Death
<1>7. CASE User \/ (\E n \in Names : WriteBack(n)) \/ (\E r \in Runs : Refuse(r))
  BY <1>7, UserRefines, AsideRefines
<1> QED
  BY <1>1, <1>2, <1>3, <1>4, <1>5, <1>6, <1>7, QuietSteps, GivingUpSteps
     DEF Next, Step, Publish, Environment, UserWorks

(***************************************************************************)
(* keymake, keyrestore and xcha K are atomic: for every folder, any number *)
(* of invocations, users' actions and crashes, all anybody can see of a    *)
(* command is one or two replacements of a name by a whole content, and    *)
(* success means that they happened and, on Linux, that a power loss keeps *)
(* them (keygen.rs:151-155, files.rs:179-216).                             *)
(***************************************************************************)
THEOREM Refinement == Spec => ImplementsAtomicFolder
<1>1. Init => Atomic!Init
  BY InitRefines
<1>2. IInv /\ Accounts /\ IInv' /\ [Next]_vars => [Atomic!Next]_(Atomic!vars)
  BY StepRefines
<1> QED
  BY <1>1, <1>2, AccountsHold, PTL DEF Spec, ImplementsAtomicFolder, Atomic!Spec

-----------------------------------------------------------------------------
(***************************************************************************)
(* A key command that finds everything in order is never refused, and      *)
(* every command has only so many steps to take.                           *)
(***************************************************************************)

\* What an unhindered keyrestore knows of its recipe and its key.
LEMMA Sight ==
    ASSUME IInv, Unhindered
    PROVE  /\ cmd \in Commands /\ self \in Runs
           /\ cmd = "restore" /\ stage \in Ahead => MetaFits
           /\ cmd = "restore" /\ stage \in {"readmeta"} \cup Derived /\ stage \in Ahead =>
                 entry[MetaFile] = meta.ino /\ stamp[meta.ino] = meta.stamp
           /\ cmd = "restore" /\ stage \in Derived /\ stage \in Ahead =>
                 recipe = data[meta.ino] /\ Describes(recipe, KeyText)
<1>1. cmd \in Commands /\ self \in Runs
  BY DEF IInv, Running, Unhindered, TypeOK, FolderTypeOK
<1>2. cmd = "restore" /\ stage \in Ahead => MetaFits
  BY DEF Unhindered
<1>3. cmd = "restore" /\ stage \in {"readmeta"} \cup Derived /\ stage \in Ahead =>
        entry[MetaFile] = meta.ino /\ stamp[meta.ino] = meta.stamp
  BY DEF Unhindered, Unchanged
<1>4. cmd = "restore" /\ stage \in Derived /\ stage \in Ahead =>
        recipe = data[meta.ino]
  BY <1>3 DEF IInv, MetaKept
<1>5. cmd = "restore" /\ stage \in Derived /\ stage \in Ahead =>
        Describes(recipe, KeyText)
  BY <1>2, <1>3, <1>4 DEF MetaFits, KeyText
<1> QED
  BY <1>1, <1>2, <1>3, <1>4, <1>5

\* Before the temporary files are made, the names are free as NamesOK has it.
LEMMA FreeIsNamesOK ==
    ASSUME IInv, self # NoRun, stage = "target"
    PROVE  NamesFree <=> NamesOK
<1>1. cmd \in Commands
  BY DEF IInv, Running
<1>2. Current = IF cmd = "make" THEN MetaTemp ELSE KeyTemp
  BY FirstCurrent DEF EarlyStages
<1>3. stage \in Ahead
  BY DEF Ahead, Typed
<1>4. KeyTemp # MetaTemp
  BY OwnTemps
<1>5. CASE cmd = "make"
  BY <1>2, <1>3, <1>5 DEF NamesFree, NamesOK, Goal
<1>6. CASE cmd = "restore"
  <2>1. Goal = KeyFile
    BY <1>2, <1>4, <1>6 DEF Goal
  <2> QED
    BY <1>3, <1>6, <2>1 DEF NamesFree, NamesOK
<1>7. CASE cmd = "xchakey"
  <2>1. Goal = XchaFile
    BY <1>2, <1>4, <1>7 DEF Goal
  <2> QED
    BY <1>3, <1>7, <2>1 DEF NamesFree, NamesOK
<1> QED
  BY <1>1, <1>5, <1>6, <1>7 DEF Commands

\* None of its checks fails, before the renames or after them.
LEMMA NoRefusal ==
    ASSUME IInv, Unhindered, ~Faults
    PROVE  /\ ~Stop
           /\ ~RenameFails(Current, Goal, FALSE)
           /\ ~ConfirmFails(Current, Goal)
           /\ ~SyncPublicationFails(Current)
<1> USE DEF Ahead, Typed, Derived, WithKey, Checked, PublishStages
<1>1. ~cancelled /\ stage \in Typed \cup {"done"} /\ self # NoRun
  BY DEF Unhindered
<1>2. ~(At("preflight") /\ ~PreflightOK)
  BY <1>1 DEF At
<1>3. ~(At("target") /\ ~NamesOK)
  BY FreeIsNamesOK DEF At, Unhindered
<1>4. ~(At("openmeta") /\ Absent(MetaFile))
  BY Sight DEF At, MetaFits, IInv, Running
<1>5. ~(At("readmeta") /\ ~MetaOK)
  BY Sight DEF At, MetaFits, MetaOK, IInv, Running
<1>6. ~(At("expand") /\ ~ExpandOK)
  BY <1>1, Sight DEF At, ExpandOK
<1>7. /\ ~(At("readback") /\ data[KeyTemp] # KeyText)
      /\ ~(At("metaback") /\ data[MetaTemp] # recipe)
  BY DEF At, Unhindered
<1>8. ~(At("recheck") /\ ~Unchanged(MetaFile, meta))
  BY DEF At, Unhindered, IInv, Running
<1>9. ~Stop
  BY <1>1, <1>2, <1>3, <1>4, <1>5, <1>6, <1>7, <1>8 DEF Stop, CheckFails, CallFails
<1>10. ~RenameFails(Current, Goal, FALSE)
  BY DEF RenameFails, At, Unhindered, NamesFree, Absent
<1>11. ~ConfirmFails(Current, Goal) /\ ~SyncPublicationFails(Current)
  BY DEF ConfirmFails, SyncPublicationFails, At, Unhindered
<1> QED
  BY <1>9, <1>10, <1>11

\* A step before the rename that changes neither names nor metadata keeps
\* what was to hold.
LEMMA StaysUnhindered ==
    ASSUME IInv, Unhindered, self' = self, cancelled' = cancelled,
           entry' = entry, stamp' = stamp, cmd' = cmd, pw' = pw, report' = report,
           \A n \in Names : entry[n] # NoFile => data'[entry[n]] = data[entry[n]],
           stage \in Ahead, stage' \in Ahead,
           cmd = "restore" /\ stage' \in {"readmeta"} \cup Derived =>
               Unchanged(MetaFile, meta)',
           stage' = "readback" => data'[KeyTemp] = KeyText',
           stage' = "metaback" => data'[MetaTemp] = recipe'
    PROVE  Unhindered'
<1>1. /\ KeyTemp' = KeyTemp /\ MetaTemp' = MetaTemp
      /\ Current' = Current /\ Goal' = Goal
  BY DEF KeyTemp, MetaTemp, Current, Goal
<1>2. NamesFree'
  BY <1>1 DEF Unhindered, NamesFree, Absent
<1>3. cmd = "restore" => MetaFits'
  <2>1. ASSUME cmd = "restore"
        PROVE  MetaFits /\ data'[entry[MetaFile]] = data[entry[MetaFile]]
    BY <2>1, NamesAssumption DEF Unhindered, MetaFits, Absent
  <2> QED
    BY <2>1 DEF MetaFits, Absent
<1>4. stage' \in Typed \cup {"done"} /\ stage' # "confirm"
  BY DEF Ahead
<1> QED
  BY <1>1, <1>2, <1>3, <1>4 DEF Unhindered

\* Nobody acts and nothing crashes: what has a name keeps its content.
LEMMA LeftAlone ==
    ASSUME IInv, [Next]_vars, edits' = edits, crashes' = crashes
    PROVE  /\ ~User /\ ~Kill /\ ~PowerLoss
           /\ \A n \in Names : entry[n] # NoFile => data'[entry[n]] = data[entry[n]]
<1>1. ~User /\ ~Kill /\ ~PowerLoss
  BY DEF Kill, PowerLoss, User, UserEdit, UserPut, UserRemove, UserLink,
         UserActs, IInv, TypeOK, FolderTypeOK
<1> QED
  BY <1>1, NamedFilesKept

\* The steps until the key is read back.
LEMMA GeneratingUnhindered ==
    ASSUME IInv, Unhindered, [Next]_vars, edits' = edits, crashes' = crashes,
           \/ Target \/ OpenMeta \/ ReadMeta \/ Derive
           \/ CreateKeyTemp \/ Expand
    PROVE  Unhindered'
<1> USE DEF Ahead, Typed, Derived, WithKey, Checked
<1>1. \A n \in Names : entry[n] # NoFile => data'[entry[n]] = data[entry[n]]
  BY LeftAlone
<1>2. /\ cmd' = cmd /\ pw' = pw /\ report' = report /\ entry' = entry
      /\ stamp' = stamp /\ self' = self /\ cancelled' = cancelled
      /\ stage \in {"target", "openmeta", "readmeta", "derive", "keytemp", "expand"}
      /\ stage' \in {"openmeta", "readmeta", "derive", "keytemp", "expand", "readback"}
  <2>1. CASE Target
    <3>1. cmd \in Commands
      BY Sight
    <3> QED
      BY <2>1, <3>1, PassesFrame DEF Target, At, Commands
  <2>2. CASE OpenMeta \/ ReadMeta \/ Derive
    BY <2>2, PassesFrame DEF OpenMeta, ReadMeta, Derive, At, command
  <2>3. CASE CreateKeyTemp \/ Expand
    BY <2>3 DEF CreateKeyTemp, Expand, MakeTemp, Write, At, command, directory,
                verdicts
  <2> QED
    BY <2>1, <2>2, <2>3
<1>3. ASSUME cmd = "restore", stage' \in {"readmeta"} \cup Derived
      PROVE  Unchanged(MetaFile, meta)'
  <2>1. CASE OpenMeta
    <3>1. meta' = Snapshot(entry[MetaFile])
      BY <2>1 DEF OpenMeta
    <3> QED
      BY <1>2, <3>1 DEF Snapshot, Unchanged
  <2>2. CASE ~OpenMeta
    <3>1. CASE Target
      <4>1. stage' = "openmeta"
        BY <1>3, <3>1 DEF Target, Passes
      <4> QED
        BY <1>3, <4>1 DEF PublishStages
    <3>2. CASE ~Target
      <4>1. /\ stage \in {"readmeta"} \cup Derived /\ meta' = meta
        BY <2>2, <3>2 DEF ReadMeta, Derive, CreateKeyTemp, Expand, At, command
      <4> QED
        BY <1>2, <1>3, <4>1 DEF Unhindered, Unchanged
    <3> QED
      BY <3>1, <3>2
  <2> QED
    BY <2>1, <2>2
<1>4. ASSUME stage' = "readback" PROVE data'[KeyTemp] = KeyText'
  <2>1. ~Target
    <3>1. ASSUME Target PROVE stage' \in {"derive", "openmeta", "keytemp"}
      <4>1. cmd \in Commands
        BY Sight
      <4> QED
        BY <3>1, <4>1 DEF Target, Passes, Commands
    <3> QED
      BY <1>4, <3>1
  <2>2. Expand
    BY <1>4, <2>1 DEF OpenMeta, ReadMeta, Derive, CreateKeyTemp, MakeTemp, Passes
  <2>3. KeyTemp \in Inodes
    BY OwnTemps DEF Unhindered
  <2>4. /\ data' = [data EXCEPT ![KeyTemp] = KeyText]
        /\ recipe' = recipe
    BY <2>2 DEF Expand, Write, command
  <2>5. KeyText' = KeyText
    BY <1>2, <2>4 DEF KeyText
  <2> QED
    BY <2>3, <2>4, <2>5 DEF IInv, TypeOK, FolderTypeOK
<1>5. stage' # "metaback"
  BY <1>2
<1> QED
  BY <1>1, <1>2, <1>3, <1>4, <1>5, StaysUnhindered

\* The read-backs, the metadata of keymake and the re-check.
LEMMA CheckingUnhindered ==
    ASSUME IInv, Unhindered, [Next]_vars, edits' = edits, crashes' = crashes,
           \/ ReadBackKey \/ CreateMetaTemp \/ WriteMeta \/ ReadBackMeta
           \/ Recheck
    PROVE  Unhindered'
<1> USE DEF Ahead, Typed, Derived, WithKey, Checked, PublishStages
<1>1. \A n \in Names : entry[n] # NoFile => data'[entry[n]] = data[entry[n]]
  BY LeftAlone
<1>2. /\ cmd' = cmd /\ pw' = pw /\ report' = report /\ entry' = entry
      /\ stamp' = stamp /\ self' = self /\ cancelled' = cancelled
      /\ meta' = meta /\ recipe' = recipe
      /\ stage \in {"readback", "metatemp", "write", "metaback", "recheck"}
      /\ stage' \in {"metatemp", "write", "metaback", "recheck", "publish"}
  <2>1. CASE ReadBackKey
    <3>1. cmd \in Commands
      BY Sight
    <3> QED
      BY <2>1, <3>1 DEF ReadBackKey, ReadBack, At, Commands, command, directory,
                        verdicts
  <2>2. CASE CreateMetaTemp \/ WriteMeta \/ ReadBackMeta
    BY <2>2 DEF CreateMetaTemp, WriteMeta, ReadBackMeta, MakeTemp, Write, ReadBack,
                At, command, directory, verdicts
  <2>3. CASE Recheck
    BY <2>3, PassesFrame DEF Recheck, At, command
  <2> QED
    BY <2>1, <2>2, <2>3
<1>3. ASSUME cmd = "restore" PROVE Unchanged(MetaFile, meta)'
  BY <1>2, <1>3 DEF Unhindered, Unchanged
<1>4. ASSUME stage' = "metaback" PROVE data'[MetaTemp] = recipe'
  <2>1. WriteMeta
    <3>1. ASSUME ReadBackKey PROVE stage' \in {"metatemp", "recheck", "publish"}
      <4>1. cmd \in Commands
        BY Sight
      <4> QED
        BY <3>1, <4>1 DEF ReadBackKey, ReadBack, Commands
    <3> QED
      BY <1>4, <3>1 DEF CreateMetaTemp, MakeTemp, ReadBackMeta, ReadBack, Recheck, Passes
  <2>2. MetaTemp \in Inodes
    BY OwnTemps DEF Unhindered
  <2> QED
    BY <1>2, <2>1, <2>2 DEF WriteMeta, Write, IInv, TypeOK, FolderTypeOK
<1>5. stage' # "readback"
  BY <1>2
<1> QED
  BY <1>1, <1>2, <1>3, <1>4, <1>5, StaysUnhindered

\* The publications: after key.meta, the name key.key is still free.
LEMMA PublishUnhindered ==
    ASSUME IInv, Unhindered, ~Faults, [Next]_vars,
           edits' = edits, crashes' = crashes, Publish
    PROVE  Unhindered'
<1> USE DEF Ahead, Typed, Derived, WithKey, Checked, PublishStages
<1>1. \A n \in Names : entry[n] # NoFile => data'[entry[n]] = data[entry[n]]
  BY LeftAlone
<1>2. /\ cmd' = cmd /\ pw' = pw /\ meta' = meta /\ recipe' = recipe
  BY DEF Publish, command
<1>3. self # NoRun
  BY DEF Unhindered
<1>4. CASE \/ SyncTemp(Current) \/ FinalUnchanged(FALSE, Goal, NoSnapshot)
           \/ FinalLinks(FALSE, NoSnapshot)
  <2>1. /\ stage \in {"publish", "final", "links"}
        /\ stage' \in {"final", "links", "rename"}
        /\ entry' = entry /\ stamp' = stamp /\ self' = self
        /\ cancelled' = cancelled /\ report' = report
    BY <1>4 DEF SyncTemp, FinalUnchanged, FinalLinks, At, directory, files,
                verdicts
  <2>2. cmd = "restore" => Unchanged(MetaFile, meta)'
    BY <1>2, <2>1 DEF Unhindered, Unchanged
  <2> QED
    BY <1>1, <1>2, <2>1, <2>2, StaysUnhindered
<1>5. CASE Rename(Current, Goal, FALSE)
  <2>1. /\ stage = "rename" /\ stage' = "confirm" /\ self' = self
        /\ cancelled' = cancelled /\ report' = report
        /\ entry' = [entry EXCEPT ![Goal] = Current]
    BY <1>5 DEF Rename, At, verdicts
  <2>2. Current' = Current /\ Goal' = Goal
    BY <1>2, <2>1 DEF Current, Goal, KeyTemp, MetaTemp
  <2>3. entry'[Goal] = Current
    BY <1>3, <2>1, GoalOfCurrent DEF IInv, TypeOK, FolderTypeOK
  <2>4. cmd = "make" /\ Current = MetaTemp => Absent(KeyFile)'
    <3>1. Current = MetaTemp => Goal # KeyFile
      BY <1>3, GoalOfCurrent, NamesAssumption
    <3> QED
      BY <2>1, <3>1, NamesAssumption
         DEF Unhindered, NamesFree, Absent, IInv, TypeOK, FolderTypeOK
  <2>5. NamesFree'
    BY <1>2, <2>1, <2>2, <2>4 DEF NamesFree, MetaTemp
  <2> QED
    BY <1>2, <2>1, <2>2, <2>3, <2>5 DEF Unhindered
<1>6. CASE Confirm(Current, Goal)
  <2>1. /\ stage = "confirm" /\ stage' = "sync" /\ self' = self
        /\ cancelled' = cancelled /\ report' = report /\ entry' = entry
    BY <1>6 DEF Confirm, At, directory, verdicts
  <2>2. NamesFree'
    BY <1>2, <2>1 DEF Unhindered, NamesFree, Absent, Current, KeyTemp, MetaTemp
  <2> QED
    BY <1>2, <2>1, <2>2 DEF Unhindered
<1>7. CASE SyncPublication(Current, IF Current = MetaTemp THEN "publish" ELSE "done")
  <2>1. /\ stage = "sync" /\ self' = self /\ cancelled' = cancelled
        /\ entry' = entry /\ report' = [report EXCEPT ![Current] = "published"]
        /\ stage' = IF Current = MetaTemp THEN "publish" ELSE "done"
    BY <1>7 DEF SyncPublication, At
  <2>2. KeyTemp' = KeyTemp /\ MetaTemp' = MetaTemp
    BY <2>1 DEF KeyTemp, MetaTemp
  <2>3. Current' = KeyTemp
    BY <1>2, <1>3, <2>1, <2>2, OwnTemps DEF Current, IInv, TypeOK, FolderTypeOK
  <2>4. CASE Current = MetaTemp
    <3>1. cmd = "make" /\ Goal' = KeyFile /\ Absent(KeyFile)'
      BY <1>2, <1>3, <2>1, <2>2, <2>3, <2>4, OwnTemps
         DEF Goal, Unhindered, NamesFree, Absent
    <3>2. NamesFree'
      BY <1>3, <2>2, <2>3, <3>1, OwnTemps DEF NamesFree, Absent
    <3> QED
      BY <1>2, <2>1, <2>4, <3>1, <3>2 DEF Unhindered
  <2>5. CASE Current # MetaTemp
    <3>1. NamesFree'
      BY <1>3, <2>1, <2>2, <2>3, <2>5, OwnTemps DEF NamesFree
    <3> QED
      BY <2>1, <2>5, <3>1 DEF Unhindered
  <2> QED
    BY <2>4, <2>5
<1> QED
  BY <1>4, <1>5, <1>6, <1>7, NoRefusal DEF Publish

\* Writeback and refused invocations do not hinder it.
LEMMA EnvironmentUnhindered ==
    ASSUME IInv, Unhindered, ~Faults, [Next]_vars,
           edits' = edits, crashes' = crashes, Environment \/ UNCHANGED vars
    PROVE  Unhindered'
<1>1. /\ data' = data /\ stage' = stage /\ entry' = entry /\ stamp' = stamp
      /\ self' = self /\ cancelled' = cancelled /\ report' = report
      /\ cmd' = cmd /\ pw' = pw /\ meta' = meta /\ recipe' = recipe
  <2>1. CASE UNCHANGED vars
    BY <2>1, StutterFrame
  <2>2. CASE Environment
    BY <2>2, LeftAlone
       DEF Environment, Damage, Corrupt, Death, UserWorks, Interrupt, WriteBack,
           Refuse, directory, files, process, verdicts, command
  <2> QED
    BY <2>1, <2>2
<1>2. /\ KeyTemp' = KeyTemp /\ MetaTemp' = MetaTemp /\ Current' = Current
      /\ Goal' = Goal /\ KeyText' = KeyText
  BY <1>1 DEF KeyTemp, MetaTemp, Current, Goal, KeyText
<1>3. NamesFree' <=> NamesFree
  BY <1>1, <1>2 DEF NamesFree, Absent
<1>4. MetaFits' <=> MetaFits
  BY <1>1 DEF MetaFits, Absent
<1>5. Unchanged(MetaFile, meta)' <=> Unchanged(MetaFile, meta)
  BY <1>1 DEF Unchanged
<1> QED
  BY <1>1, <1>2, <1>3, <1>4, <1>5 DEF Unhindered

\* Without faults nobody presses Ctrl-C.
LEMMA NoCancel ==
    ASSUME ~Faults
    PROVE  Spec => []~cancelled
<1>1. Init => ~cancelled
  BY DEF Init, FolderInit
<1>2. ASSUME ~cancelled, [Next]_vars PROVE ~cancelled'
  <2>1. CASE UNCHANGED vars
    BY <1>2, <2>1, StutterFrame
  <2>2. CASE (\E r \in Runs, c \in Commands : Start(r, c))
             \/ (\E w \in Passwords : Prompt(w))
    BY <1>2, <2>2 DEF Start, Enter, Prompt, Passes
  <2>3. CASE Publish
    BY <1>2, <2>3
       DEF Publish, SyncTemp, FinalUnchanged, FinalLinks, Rename, RenameFails,
           Confirm, ConfirmFails, SyncPublication, SyncPublicationFails, GiveUp
  <2>4. CASE Step /\ ~Publish
    BY <1>2, <2>4
       DEF Step, Preflight, Target, OpenMeta, ReadMeta, Derive, CreateKeyTemp,
           Expand, ReadBackKey, CreateMetaTemp, WriteMeta, ReadBackMeta, Recheck,
           MakeTemp, Write, ReadBack, Passes, Stop, Abort, GiveUp, End, Leave, Gone
  <2>5. CASE Environment
    BY <1>2, <2>5
       DEF Environment, Damage, Corrupt, Death, Kill, PowerLoss, Gone, Interrupt,
           UserWorks, User, UserEdit, UserPut, UserRemove, UserLink, UserActs,
           WriteBack, Refuse, process
  <2> QED
    BY <1>2, <2>1, <2>2, <2>3, <2>4, <2>5 DEF Next
<1> QED
  BY <1>1, <1>2, PTL DEF Spec

(***************************************************************************)
(* The safety half of RestoreSucceeds, for all three commands: once the    *)
(* password is typed, a command that finds the names free, and for         *)
(* keyrestore a key.meta that describes the key the password expands to,   *)
(* goes on unhindered until it has ended with exit code 0, unless the user *)
(* acts, a crash comes or a call fails (keygen.rs:137-194).  That keymake  *)
(* has published key.meta does not get into the way of key.key.            *)
(***************************************************************************)
THEOREM ReadyNeverRefused ==
    ASSUME ~Faults
    PROVE  Spec => /\ [](\A r \in Runs : Restorable(r) => Promising)
                   /\ [](Promising => Unhindered)
                   /\ [][Unhindered /\ edits' = edits /\ crashes' = crashes
                           => Unhindered' \/ result'[self] = "success"]_vars
<1>1. ASSUME IInv PROVE \A r \in Runs : Restorable(r) => Promising
  BY <1>1, RunsAssumption DEF Restorable, Promising, At, NamesOK, MetaFits
<1>2. ASSUME IInv, ~cancelled PROVE Promising => Unhindered
  <2> SUFFICES ASSUME Promising PROVE Unhindered
    OBVIOUS
  <2>1. /\ stage = "target" /\ self # NoRun /\ NamesOK
        /\ cmd = "restore" => MetaFits
    BY DEF Promising, At
  <2>2. NamesFree
    BY <1>2, <2>1, FreeIsNamesOK
  <2> QED
    BY <1>2, <2>1, <2>2
       DEF Unhindered, Typed, Derived, WithKey, Checked, PublishStages
<1>3. ASSUME IInv, [Next]_vars, Unhindered, edits' = edits, crashes' = crashes
      PROVE  Unhindered' \/ result'[self] = "success"
  <2>1. /\ ~(\E r \in Runs, c \in Commands : Start(r, c))
        /\ ~(\E w \in Passwords : Prompt(w)) /\ ~Preflight
    BY <1>3 DEF Start, Enter, Prompt, Preflight, At, Unhindered, Typed, Derived,
                WithKey, Checked, PublishStages
  <2>2. CASE End
    <3>1. /\ stage = "done" /\ self \in Runs
          /\ result' = [result EXCEPT ![self] = "success"]
      BY <1>3, <2>2, Sight
         DEF End, Leave, At, Gone, ExitCode, Unhindered, Typed, Derived, WithKey,
             Checked, PublishStages
    <3> QED
      BY <1>3, <3>1 DEF IInv, TypeOK, FolderTypeOK
  <2> QED
    BY <1>3, <2>1, <2>2, GeneratingUnhindered, CheckingUnhindered,
       PublishUnhindered, EnvironmentUnhindered, NoRefusal
       DEF Next, Step
<1> QED
  BY <1>1, <1>2, <1>3, InvHolds, NoCancel, PTL DEF Spec

\* The rank is that of the stage, and six more before key.meta is published.
LEMMA RankIs ==
    ASSUME TypeOK
    PROVE  /\ StepsLeft[stage] \in 0..25
           /\ stage \in PublishStages /\ Current = MetaTemp => Rank = StepsLeft[stage] + 6
           /\ ~(stage \in PublishStages /\ Current = MetaTemp) => Rank = StepsLeft[stage]
<1>1. StepsLeft[stage] \in 0..25
  BY DEF StepsLeft, TypeOK, FolderTypeOK, Stages, EarlyStages, PublishStages
<1>2. Rank = StepsLeft[stage]
               + (IF stage \in PublishStages /\ Current = MetaTemp THEN 6 ELSE 0)
  BY DEF Rank
<1> QED
  BY <1>1, <1>2
LEMMA RankNext ==
    ASSUME TypeOK'
    PROVE  /\ StepsLeft[stage'] \in 0..25
           /\ stage' \in PublishStages /\ (Current = MetaTemp)' =>
                 Rank' = StepsLeft[stage'] + 6
           /\ ~(stage' \in PublishStages /\ (Current = MetaTemp)') =>
                 Rank' = StepsLeft[stage']
<1>1. StepsLeft[stage'] \in 0..25
  BY DEF StepsLeft, TypeOK, FolderTypeOK, Stages, EarlyStages, PublishStages
<1>2. Rank' = StepsLeft[stage']
                + (IF stage' \in PublishStages /\ (Current = MetaTemp)' THEN 6 ELSE 0)
  BY DEF Rank, StepsLeft
<1> QED
  BY <1>1, <1>2

\* A step of the command, or a password typed, leads to a lower rank.
LEMMA StepLowers ==
    ASSUME IInv, IInv', Step \/ (\E w \in Passwords : Prompt(w))
    PROVE  Rank' < Rank
<1> DEFINE L == StepsLeft
<1>1. TypeOK /\ TypeOK' /\ (self # NoRun => cmd \in Commands)
  BY DEF IInv, Running
<1>2. CASE \/ Preflight \/ (\E w \in Passwords : Prompt(w)) \/ Target
           \/ OpenMeta \/ ReadMeta \/ Derive \/ CreateKeyTemp \/ Expand
  <2>1. \/ stage = "preflight" /\ stage' = "prompt"
        \/ stage = "prompt" /\ stage' = "target"
        \/ stage = "target" /\ stage' \in {"derive", "openmeta", "keytemp"}
        \/ stage = "openmeta" /\ stage' = "readmeta"
        \/ stage = "readmeta" /\ stage' = "derive"
        \/ stage = "derive" /\ stage' = "keytemp"
        \/ stage = "keytemp" /\ stage' = "expand"
        \/ stage = "expand" /\ stage' = "readback"
    BY <1>1, <1>2
       DEF Preflight, Prompt, Target, OpenMeta, ReadMeta, Derive, CreateKeyTemp,
           MakeTemp, Expand, Write, Passes, At, Commands
  <2>2. L[stage'] < L[stage] /\ stage \notin PublishStages /\ stage' \notin PublishStages
    BY <2>1 DEF StepsLeft, PublishStages
  <2> QED
    BY <1>1, <2>2, RankIs, RankNext
<1>3. CASE ReadBackKey \/ CreateMetaTemp \/ WriteMeta \/ ReadBackMeta \/ Recheck
  <2>1. /\ cmd' = cmd /\ self' = self /\ report' = report /\ self # NoRun
        /\ \/ stage = "readback" /\ stage' \in {"metatemp", "recheck"}
           \/ stage = "readback" /\ stage' = "publish" /\ cmd = "xchakey"
           \/ stage = "metatemp" /\ stage' = "write"
           \/ stage = "write" /\ stage' = "metaback"
           \/ stage = "metaback" /\ stage' = "publish"
           \/ stage = "recheck" /\ stage' = "publish" /\ cmd = "restore"
    BY <1>1, <1>3
       DEF ReadBackKey, CreateMetaTemp, WriteMeta, ReadBackMeta, Recheck, ReadBack,
           MakeTemp, Write, Passes, At, Commands, command, verdicts, IInv, Running
  <2>2. (Current = MetaTemp)' => cmd = "make"
    <3>1. KeyTemp' # MetaTemp'
      BY <2>1, OwnTemps DEF KeyTemp, MetaTemp
    <3> QED
      BY <2>1, <3>1 DEF Current
  <2>3. CASE stage' = "publish"
    <3>1. L[stage'] = 7 /\ L[stage] >= 8 /\ (cmd = "make" => L[stage] >= 14)
          /\ stage \notin PublishStages
      BY <2>1, <2>3 DEF StepsLeft, PublishStages
    <3> QED
      BY <1>1, <2>2, <3>1, RankIs, RankNext
  <2>4. CASE stage' # "publish"
    <3>1. L[stage'] < L[stage] /\ stage \notin PublishStages /\ stage' \notin PublishStages
      BY <2>1, <2>4 DEF StepsLeft, PublishStages
    <3> QED
      BY <1>1, <3>1, RankIs, RankNext
  <2> QED
    BY <2>3, <2>4
<1>4. CASE /\ Publish
           /\ ~SyncPublication(Current, IF Current = MetaTemp THEN "publish" ELSE "done")
  <2>1. \/ /\ report' = report /\ self' = self /\ cmd' = cmd
           /\ \/ stage = "publish" /\ stage' = "final"
              \/ stage = "final" /\ stage' = "links"
              \/ stage = "links" /\ stage' = "rename"
              \/ stage = "rename" /\ stage' = "confirm"
              \/ stage = "confirm" /\ stage' = "sync"
        \/ stage \in {"rename", "confirm", "sync"} /\ stage' = "leaving"
    BY <1>4
       DEF Publish, SyncTemp, FinalUnchanged, FinalLinks, Rename, RenameFails,
           Confirm, ConfirmFails, SyncPublicationFails, GiveUp, At, command,
           verdicts
  <2>2. CASE stage' = "leaving"
    <3>1. L[stage'] = 1 /\ L[stage] > 1 /\ stage' \notin PublishStages
      BY <2>1, <2>2 DEF StepsLeft, PublishStages
    <3> QED
      BY <1>1, <3>1, RankIs, RankNext
  <2>3. CASE stage' # "leaving"
    <3>1. (Current = MetaTemp)' <=> Current = MetaTemp
      BY <2>1, <2>3 DEF Current, KeyTemp, MetaTemp
    <3>2. L[stage'] < L[stage] /\ stage \in PublishStages /\ stage' \in PublishStages
      BY <2>1, <2>3 DEF StepsLeft, PublishStages
    <3> QED
      BY <1>1, <3>1, <3>2, RankIs, RankNext
  <2> QED
    BY <2>2, <2>3
<1>5. CASE SyncPublication(Current, IF Current = MetaTemp THEN "publish" ELSE "done")
           /\ Publish
  <2>1. /\ stage = "sync" /\ self # NoRun /\ self' = self /\ cmd' = cmd
        /\ report' = [report EXCEPT ![Current] = "published"]
        /\ stage' = IF Current = MetaTemp THEN "publish" ELSE "done"
    BY <1>5 DEF SyncPublication, At, Publish, command
  <2>2. CASE Current = MetaTemp
    <3>1. (Current # MetaTemp)'
      BY <1>1, <2>1, <2>2, OwnTemps
         DEF Current, KeyTemp, MetaTemp, TypeOK, FolderTypeOK
    <3>2. L[stage'] = 7 /\ L[stage] = 2 /\ stage \in PublishStages
      BY <2>1, <2>2 DEF StepsLeft, PublishStages
    <3> QED
      BY <1>1, <2>2, <3>1, <3>2, RankIs, RankNext
  <2>3. CASE Current # MetaTemp
    <3>1. L[stage'] = 1 /\ L[stage] = 2 /\ stage' \notin PublishStages
      BY <2>1, <2>3 DEF StepsLeft, PublishStages
    <3> QED
      BY <1>1, <2>3, <3>1, RankIs, RankNext
  <2> QED
    BY <2>2, <2>3
<1>6. CASE Stop \/ End
  <2>1. \/ /\ stage \in EarlyStages \cup {"publish", "final", "links"}
           /\ stage' = "leaving"
        \/ stage \in {"leaving", "done"} /\ stage' = "idle"
    BY <1>6 DEF Stop, CheckFails, CallFails, At, Abort, GiveUp, EarlyStages, End,
                Leave, Gone
  <2>2. L[stage'] < L[stage] /\ stage' \notin PublishStages
    BY <2>1 DEF StepsLeft, EarlyStages, PublishStages
  <2> QED
    BY <1>1, <2>2, RankIs, RankNext
<1> QED
  BY <1>2, <1>3, <1>4, <1>5, <1>6 DEF Step

\* Nothing that happens around a command gives it more to do.
LEMMA OthersKeepRank ==
    ASSUME IInv, IInv', Environment \/ UNCHANGED vars, self' = self
    PROVE  Rank' = Rank
<1>1. CASE Death
  <2>1. stage = "idle" /\ stage' = "idle"
    BY <1>1 DEF Death, Kill, PowerLoss, Gone, IInv, Running
  <2> QED
    BY <2>1, RankIs, RankNext DEF IInv, PublishStages
<1>2. CASE (Environment /\ ~Death) \/ UNCHANGED vars
  <2>1. stage' = stage /\ cmd' = cmd /\ report' = report
    <3>1. CASE UNCHANGED vars
      BY <3>1, StutterFrame
    <3>2. CASE Environment /\ ~Death
      BY <3>2
         DEF Environment, Damage, Corrupt, UserWorks, User, UserEdit, UserPut,
             UserRemove, UserLink, UserActs, Interrupt, WriteBack, Refuse, process,
             verdicts, command
    <3> QED
      BY <1>2, <3>1, <3>2
  <2>2. (Current = MetaTemp)' <=> Current = MetaTemp
    BY <2>1 DEF Current, KeyTemp, MetaTemp
  <2> QED
    BY <2>1, <2>2, RankIs, RankNext DEF IInv
<1> QED
  BY <1>1, <1>2

(***************************************************************************)
(* Every step of a key command brings it nearer to its end, whatever       *)
(* fails, and nothing the world does gives it more to do: a command takes  *)
(* at most 25 steps, and waits for nothing but a password (keygen.rs:137-  *)
(* 194, files.rs:179-216).                                                 *)
(***************************************************************************)
THEOREM EveryCommandIsBounded ==
    Spec => /\ [](Rank \in 0..25)
            /\ [][/\ Step \/ (\E w \in Passwords : Prompt(w)) => Rank' < Rank
                  /\ self' = self => Rank' <= Rank]_vars
<1>1. ASSUME IInv PROVE Rank \in 0..25
  <2>1. stage \in PublishStages => StepsLeft[stage] \in 0..7
    BY DEF StepsLeft, PublishStages
  <2> QED
    BY <1>1, <2>1, RankIs DEF IInv
<1>2. ASSUME IInv, IInv', [Next]_vars
      PROVE  /\ Step \/ (\E w \in Passwords : Prompt(w)) => Rank' < Rank
             /\ self' = self => Rank' <= Rank
  <2>1. Step \/ (\E w \in Passwords : Prompt(w)) => Rank' < Rank
    BY <1>2, StepLowers
  <2>2. Rank \in 0..25 /\ (Rank \in 0..25)'
    <3>1. StepsLeft[stage] \in 0..25 /\ StepsLeft[stage'] \in 0..25
      BY <1>2, RankIs, RankNext DEF IInv
    <3>2. /\ stage \in PublishStages => StepsLeft[stage] \in 0..7
          /\ stage' \in PublishStages => StepsLeft[stage'] \in 0..7
      BY DEF StepsLeft, PublishStages
    <3> QED
      BY <1>2, <3>1, <3>2, RankIs, RankNext DEF IInv
  <2>3. CASE (\E r \in Runs, c \in Commands : Start(r, c)) /\ self' = self
    BY <2>3, RunsAssumption DEF Start, Enter
  <2> QED
    BY <1>2, <2>1, <2>2, <2>3, OthersKeepRank DEF Next
<1> QED
  BY <1>1, <1>2, InvHolds, PTL DEF Spec
=============================================================================
