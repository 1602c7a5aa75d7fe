-------------------------------- MODULE KeyPair --------------------------------
(***************************************************************************)
(* The commands that create keys: keymake and keyrestore (keygen::make and *)
(* keygen::restore with their part of app::run) and xcha K                 *)
(* (keygen::make_xcha).  keymake creates two files that belong together,   *)
(* key.key and the key.meta from which key.key can be made again; two      *)
(* names cannot be published at once, so key.meta is published and         *)
(* synchronized first.                                                     *)
(*                                                                         *)
(* The cryptography is abstract: KeyOf is the key a password and the salt  *)
(* and nonce of a metadata file expand to, Describes says that a metadata  *)
(* file records the digest of a key.                                       *)
(***************************************************************************)
EXTENDS Folder

CONSTANTS
    KeyFile, MetaFile, XchaFile,   \* the names key.key, key.meta and xcha.key
    Passwords,
    NoPassword,
    MakeMeta(_, _),     \* KeyMeta::new of an invocation, with the key's digest
    KeyOf(_, _),        \* derive and expand; Reject if the metadata is invalid
    Describes(_, _),    \* the digest recorded in a metadata file fits a key
    RandomKey(_),       \* the 32 random bytes of an invocation
    Reject

Commands == {"make", "restore", "xchakey"}

ASSUME NamesAssumption ==
    /\ {KeyFile, MetaFile, XchaFile} \subseteq Names
    /\ KeyFile # MetaFile /\ KeyFile # XchaFile /\ MetaFile # XchaFile
ASSUME KeysAssumption ==
    /\ NoPassword \notin Passwords
    /\ Reject \notin Texts
    /\ \A w \in Passwords, r \in Runs :
          /\ MakeMeta(w, r) \in Texts
          /\ Describes(MakeMeta(w, r), KeyOf(w, MakeMeta(w, r)))
          /\ KeyOf(w, MakeMeta(w, r)) # Reject
    /\ \A w \in Passwords, m \in Texts : KeyOf(w, m) \in Texts \cup {Reject}
    /\ \A r \in Runs : RandomKey(r) \in Texts

VARIABLES
    cmd,        \* the command that is running
    pw,         \* the password typed
    meta,       \* keyrestore: the snapshot of the open key.meta
    recipe,     \* the metadata the key is generated from
    tampered    \* the user changed the pair of files by hand (history)

command == <<cmd, pw, meta, recipe>>
vars == <<folder, command, tampered>>

NoSnapshot == [ino |-> NoFile]

EarlyStages == {"preflight", "prompt", "target", "openmeta", "readmeta", "derive",
                "keytemp", "expand", "readback", "metatemp", "write", "metaback",
                "recheck"}
Stages == EarlyStages \cup PublishStages \cup {"idle", "leaving", "done"}

TypeOK ==
    /\ FolderTypeOK(Stages)
    /\ cmd \in Commands \cup {"none"}
    /\ pw \in Passwords \cup {NoPassword}
    /\ meta \in [ino : Inodes, stamp : Nat, text : Contents] \cup {NoSnapshot}
    /\ recipe \in Contents
    /\ tampered \in BOOLEAN

Init ==
    /\ FolderInit
    /\ cmd = "none"
    /\ pw = NoPassword
    /\ meta = NoSnapshot
    /\ recipe = Unborn
    /\ tampered = FALSE

KeyTemp == <<self, 1>>
MetaTemp == <<self, 2>>

Passes(next) ==
    /\ stage' = next
    /\ UNCHANGED <<directory, files, self, cancelled, verdicts, world>>

Start(r, c) ==
    /\ Enter(r)
    /\ stage' = IF c = "xchakey" THEN "target" ELSE "preflight"
    /\ cmd' = c
    /\ UNCHANGED <<pw, meta, recipe, tampered>>

-----------------------------------------------------------------------------
(* Before anything is written *)

Absent(n) == entry[n] = NoFile

\* What the command needs of the three names, before and after the prompt.
NamesOK ==
    CASE cmd = "make" -> Absent(KeyFile) /\ Absent(MetaFile)
      [] cmd = "restore" -> Absent(KeyFile)
      [] cmd = "xchakey" -> Absent(XchaFile)

\* app::run asks for the password only if the names are as they should be.
PreflightOK == NamesOK /\ (cmd = "restore" => ~Absent(MetaFile))

\* Mutant: the password is not asked for.
PreflightUnprompted ==
    /\ At("preflight")
    /\ PreflightOK
    /\ Passes("target")
    /\ UNCHANGED <<held, command, tampered>>

Preflight ==
    /\ At("preflight")
    /\ PreflightOK
    /\ Passes("prompt")
    /\ UNCHANGED <<held, command, tampered>>

\* app::password: prompted, and for keymake confirmed, by the user.
Prompt(w) ==
    /\ At("prompt")
    /\ ~cancelled
    /\ pw' = w
    /\ Passes("target")
    /\ UNCHANGED <<held, cmd, meta, recipe, tampered>>

\* Root::destination again, at the start of make, restore and make_xcha.
Target ==
    /\ At("target")
    /\ NamesOK
    /\ recipe' = IF cmd = "make" THEN MakeMeta(pw, self) ELSE recipe
    /\ Passes(CASE cmd = "make" -> "derive"
                [] cmd = "restore" -> "openmeta"
                [] cmd = "xchakey" -> "keytemp")
    /\ UNCHANGED <<held, cmd, pw, meta, tampered>>

OpenMeta ==
    /\ At("openmeta")
    /\ ~Absent(MetaFile)
    /\ meta' = Snapshot(entry[MetaFile])
    /\ held' = held \cup {entry[MetaFile]}
    /\ Passes("readmeta")
    /\ UNCHANGED <<cmd, pw, recipe, tampered>>

\* The open file is read and parsed; KeyMeta::validate.
MetaOK == KeyOf(pw, data[meta.ino]) # Reject

ReadMeta ==
    /\ At("readmeta")
    /\ MetaOK
    /\ recipe' = data[meta.ino]
    /\ Passes("derive")
    /\ UNCHANGED <<held, cmd, pw, meta, tampered>>

\* derive looks at the flag before and after Argon2.
Derive ==
    /\ At("derive")
    /\ ~cancelled
    /\ Passes("keytemp")
    /\ UNCHANGED <<held, command, tampered>>

-----------------------------------------------------------------------------
(* The temporary files *)

CreateKeyTemp ==
    /\ At("keytemp")
    /\ MakeTemp(KeyTemp, "expand")
    /\ UNCHANGED <<command, tampered>>

KeyText == IF cmd = "xchakey" THEN RandomKey(self) ELSE KeyOf(pw, recipe)

\* Mutant: the restored key is not compared with the recorded digest.
ExpandUnchecked == cmd # "xchakey" => ~cancelled

(***************************************************************************)
(* expand streams the key, looking at the flag; keyrestore then compares   *)
(* its digest with the recorded one.  xcha K writes its 32 bytes at once.  *)
(***************************************************************************)
ExpandOK ==
    /\ cmd # "xchakey" => ~cancelled
    /\ cmd = "restore" => Describes(recipe, KeyText)

Expand ==
    /\ At("expand")
    /\ ExpandOK
    /\ Write(KeyTemp, KeyText, "readback")
    /\ UNCHANGED <<command, tampered>>

ReadBackKey ==
    /\ At("readback")
    /\ ReadBack(KeyTemp, KeyText,
                CASE cmd = "make" -> "metatemp"
                  [] cmd = "restore" -> "recheck"
                  [] cmd = "xchakey" -> "publish")
    /\ UNCHANGED <<command, tampered>>

CreateMetaTemp ==
    /\ At("metatemp")
    /\ MakeTemp(MetaTemp, "write")
    /\ UNCHANGED <<command, tampered>>

WriteMeta ==
    /\ At("write")
    /\ Write(MetaTemp, recipe, "metaback")
    /\ UNCHANGED <<command, tampered>>

ReadBackMeta ==
    /\ At("metaback")
    /\ ReadBack(MetaTemp, recipe, "publish")
    /\ UNCHANGED <<command, tampered>>

\* Mutant: the snapshot is compared with the file under the wrong name.
RecheckWrongName ==
    /\ At("recheck")
    /\ Unchanged(KeyFile, meta)
    /\ Passes("publish")
    /\ UNCHANGED <<held, command, tampered>>

\* keyrestore: key.meta is still the file that was read.
Recheck ==
    /\ At("recheck")
    /\ Unchanged(MetaFile, meta)
    /\ Passes("publish")
    /\ UNCHANGED <<held, command, tampered>>

Damage ==
    /\ \/ At("readback") /\ Corrupt(KeyTemp)
       \/ At("metaback") /\ Corrupt(MetaTemp)
    /\ UNCHANGED <<command, tampered>>

-----------------------------------------------------------------------------
(* Publication: key.meta first, then key.key *)

\* Mutant: key.key is published before key.meta.
CurrentSwapped ==
    IF cmd # "make" \/ report[KeyTemp] = "none" THEN KeyTemp ELSE MetaTemp

Current ==
    IF cmd = "make" /\ report[MetaTemp] = "none" THEN MetaTemp ELSE KeyTemp

Goal ==
    CASE Current = MetaTemp -> MetaFile
      [] Current = KeyTemp /\ cmd = "xchakey" -> XchaFile
      [] OTHER -> KeyFile

Publish ==
    /\ \/ SyncTemp(Current)
       \/ FinalUnchanged(FALSE, Goal, NoSnapshot)
       \/ FinalLinks(FALSE, NoSnapshot)
       \/ Rename(Current, Goal, FALSE)
       \/ RenameFails(Current, Goal, FALSE)
       \/ Confirm(Current, Goal)
       \/ ConfirmFails(Current, Goal)
       \/ SyncPublication(Current, IF Current = MetaTemp THEN "publish" ELSE "done")
       \/ SyncPublicationFails(Current)
    /\ UNCHANGED <<command, tampered>>

-----------------------------------------------------------------------------
(* The end *)

CheckFails ==
    \/ At("preflight") /\ ~PreflightOK
    \/ At("target") /\ ~NamesOK
    \/ At("openmeta") /\ Absent(MetaFile)
    \/ At("readmeta") /\ ~MetaOK
    \/ At("expand") /\ ~ExpandOK
    \/ At("readback") /\ data[KeyTemp] # KeyText
    \/ At("metaback") /\ data[MetaTemp] # recipe
    \/ At("recheck") /\ ~Unchanged(MetaFile, meta)
    \/ /\ stage \in {"prompt", "derive", "readback", "metaback", "publish", "links"}
       /\ cancelled

\* An empty or mistyped password, or any call that fails.
CallFails ==
    /\ Faults
    /\ self # NoRun
    /\ stage \in EarlyStages \cup {"publish", "final", "links"}

Stop ==
    /\ CheckFails \/ CallFails
    /\ Abort(Current)
    /\ UNCHANGED <<command, tampered>>

Forget == cmd' = "none" /\ pw' = NoPassword /\ meta' = NoSnapshot /\ recipe' = Unborn

End == Leave /\ Forget /\ UNCHANGED tampered
Death == (Kill \/ PowerLoss) /\ Forget /\ UNCHANGED tampered

(***************************************************************************)
(* The user may do anything; tampered remembers changes to an existing     *)
(* key.meta, writes into key.key, and links of other output to key.key     *)
(* (README, "Protect your backup metadata from changes").                  *)
(***************************************************************************)
Tampers ==
    \/ ~Absent(MetaFile) /\ entry'[MetaFile] # entry[MetaFile]
    \/ ~Absent(MetaFile) /\ data'[entry[MetaFile]] # data[entry[MetaFile]]
    \/ ~Absent(KeyFile) /\ data'[entry[KeyFile]] # data[entry[KeyFile]]
    \/ entry'[KeyFile] \in Temps /\ entry'[KeyFile] # entry[KeyFile]

UserWorks == User /\ tampered' = (tampered \/ Tampers) /\ UNCHANGED command

Step ==
    \/ Preflight \/ Target \/ OpenMeta \/ ReadMeta \/ Derive
    \/ CreateKeyTemp \/ Expand \/ ReadBackKey
    \/ CreateMetaTemp \/ WriteMeta \/ ReadBackMeta \/ Recheck
    \/ Publish \/ Stop \/ End

Environment ==
    \/ Damage
    \/ Death
    \/ UserWorks
    \/ /\ Interrupt
          \/ (\E n \in Names : WriteBack(n))
          \/ (\E r \in Runs : Refuse(r))
       /\ UNCHANGED <<command, tampered>>

Next ==
    \/ \E r \in Runs, c \in Commands : Start(r, c)
    \/ \E w \in Passwords : Prompt(w)
    \/ Step
    \/ Environment

(***************************************************************************)
(* A command keeps running, except that a prompt waits for its user.       *)
(***************************************************************************)
Spec == Init /\ [][Next]_vars /\ WF_vars(Step)

-----------------------------------------------------------------------------
Publishes == stage = "rename" /\ stage' = "confirm"

(***************************************************************************)
(* A key.key that keymake generated never exists without the key.meta it   *)
(* can be made again from, not even after a crash between the two          *)
(* publications or a power loss at any moment, unless the user tampers     *)
(* with the pair (Linux: keygen.rs:151-155, README "The metadata is        *)
(* published and synchronized before the key").  For a key.key made by     *)
(* keyrestore this holds until a crash: keyrestore does not synchronize    *)
(* the key.meta it read, which a killed keymake may have left unsynced.    *)
(***************************************************************************)
MadeTogether(t) == t \in Temps /\ (data[<<t[1], 2>>] # Unborn \/ crashes = 0)

KeyHasRecipe ==
    MadeTogether(entry[KeyFile]) /\ ~tampered /\ ~Windows =>
        /\ ~Absent(MetaFile)
        /\ Describes(data[entry[MetaFile]], data[entry[KeyFile]])

(***************************************************************************)
(* keyrestore publishes exactly the key that the key.meta it opened        *)
(* describes and that the password expands to (keygen.rs:177-183).         *)
(***************************************************************************)
RestoredExact ==
    [][Publishes /\ cmd = "restore" =>
          /\ data[KeyTemp] = KeyOf(pw, meta.text)
          /\ Describes(meta.text, data[KeyTemp])]_vars

(***************************************************************************)
(* No command replaces, removes or writes to a key or metadata file that   *)
(* exists: without the user, only free names change (keygen.rs:138-139,    *)
(* files.rs:197).                                                          *)
(***************************************************************************)
KeysNeverReplaced ==
    [][edits' = edits /\ crashes' = crashes =>
         \A n \in Names : ~Absent(n) =>
             entry'[n] = entry[n] /\ data'[entry[n]] = data[entry[n]]]_vars

(***************************************************************************)
(* A key command replaces at most two names, each of them atomically;      *)
(* success means that it has, and on Linux that a power loss keeps both    *)
(* (keygen.rs:151-155, Root::publish).                                     *)
(***************************************************************************)
Atomic == INSTANCE AtomicFolder WITH
    Nothing <- Unborn, MaxOutputs <- 2, Durable <- ~Windows,
    shown <- Shown, safe <- Safe, holder <- self, wrote <- Wrote
ImplementsAtomicFolder == Atomic!Spec

Made(r) == result[r] = "success" /\ report[<<r, 2>>] = "published"

(***************************************************************************)
(* A keymake that exits with 0 has both files on the disk, and they fit    *)
(* each other (Linux: keygen.rs:153-155, linux.rs:93-100).                 *)
(***************************************************************************)
PairIsDurable ==
    \A r \in Runs : Made(r) /\ edits = 0 /\ ~Windows =>
        /\ disk[KeyFile] = <<r, 1>> /\ disk[MetaFile] = <<r, 2>>
        /\ {<<r, 1>>, <<r, 2>>} \subseteq flushed
        /\ Describes(data[<<r, 2>>], data[<<r, 1>>])

(***************************************************************************)
(* The way back from a crash: whenever key.meta describes a key that the   *)
(* typed password expands to and key.key is absent, keyrestore succeeds,   *)
(* if nobody interferes with it (README, "saved metadata permits           *)
(* keyrestore").                                                           *)
(***************************************************************************)
Restorable(r) ==
    /\ self = r /\ cmd = "restore" /\ stage = "target"
    /\ Absent(KeyFile) /\ ~Absent(MetaFile)
    /\ LET m == data[entry[MetaFile]] IN
          KeyOf(pw, m) # Reject /\ Describes(m, KeyOf(pw, m))

RestoreSucceeds ==
    \A r \in Runs : Restorable(r) ~> result[r] \in {"success", "killed"}

-----------------------------------------------------------------------------
(***************************************************************************)
(* The inductive invariant behind the theorems of KeyPairProofs.  The      *)
(* stages of a command, by what it has in hand.                            *)
(***************************************************************************)
Checked == {"metatemp", "write", "metaback", "recheck"} \cup PublishStages
WithKey == {"expand", "readback"} \cup Checked
Derived == {"derive", "keytemp"} \cup WithKey
Typed == {"target", "openmeta", "readmeta"} \cup Derived

Running ==
    /\ self = NoRun <=> stage = "idle"
    /\ self # NoRun => cmd \in Commands /\ result[self] = "waiting"
    /\ stage \in {"preflight", "prompt"} => cmd # "xchakey"
    /\ stage \in {"openmeta", "readmeta", "recheck"} => cmd = "restore"
    /\ stage \in {"metatemp", "write", "metaback"} => cmd = "make"

\* Names denote whole files, on the disk too; the disk can only lag behind.
Whole(i) == i # NoFile => data[i] \in Texts /\ (i \in Temps => i \in flushed)
NamesWhole ==
    \A n \in Names : /\ Whole(entry[n]) /\ Whole(disk[n])
                     /\ disk[n] \in {entry[n], NoFile}

\* Only keymake has a second temporary file.
Untouched ==
    \A r \in Runs : result[r] = "waiting" =>
        /\ r # self \/ cmd # "make" => data[<<r, 2>>] = Unborn
        /\ r # self \/ stage \in EarlyStages => report[<<r, 2>>] = "none"

\* The password, the recipe and the key they expand to.
Known ==
    cmd \in {"make", "restore"} =>
        /\ stage \in Typed => pw \in Passwords
        /\ stage \in Derived => recipe \in Texts /\ KeyOf(pw, recipe) \in Texts
        /\ stage \in Derived /\ cmd = "make" => recipe = MakeMeta(pw, self)
        /\ stage \in WithKey \ {"expand"} => Describes(recipe, KeyText)

\* As long as key.meta keeps its metadata, the recipe is its content.
MetaKept ==
    cmd = "restore" /\ stage \in {"readmeta"} \cup Derived =>
        /\ meta.ino \in Inodes /\ meta.stamp \in Nat
        /\ data[meta.ino] \in Texts
        /\ stamp[meta.ino] >= meta.stamp
        /\ stamp[meta.ino] = meta.stamp =>
              /\ data[meta.ino] = meta.text
              /\ stage \in Derived => recipe = meta.text
        /\ stage \in PublishStages => recipe = meta.text

\* A temporary file that is not published has no name and is not key.meta.
Nameless(t) ==
    /\ \A n \in Names : entry[n] # t /\ disk[n] # t
    /\ cmd = "restore" => meta.ino # t

KeyPending ==
    stage \in WithKey /\ (stage \in {"confirm", "sync"} => Current = MetaTemp)
MetaPending ==
    \/ stage \in {"write", "metaback"}
    \/ stage \in PublishStages \ {"confirm", "sync"} /\ Current = MetaTemp

TempsApart ==
    /\ KeyPending => Nameless(KeyTemp)
    /\ MetaPending => Nameless(MetaTemp)

\* What has been read back is what was meant.
Verified ==
    /\ stage \in Checked /\ KeyPending => data[KeyTemp] = KeyText /\ KeyTemp \in flushed
    /\ stage \in PublishStages /\ MetaPending =>
          data[MetaTemp] = recipe /\ MetaTemp \in flushed

(***************************************************************************)
(* How far the pair has got, if the user lets it alone.                    *)
(***************************************************************************)
Progress ==
    ~tampered /\ ~Windows =>
        /\ cmd = "make" /\ stage \in PublishStages =>
              /\ Current = KeyTemp \/ stage \in {"confirm", "sync"} =>
                    entry[MetaFile] = MetaTemp /\ data[MetaTemp] = recipe
              /\ Current = KeyTemp => disk[MetaFile] = MetaTemp
        /\ cmd = "restore" /\ stage \in PublishStages =>
              entry[MetaFile] = meta.ino /\ data[meta.ino] = recipe

\* The pairs that commands have left behind, in reach of a power loss.
Recipes ==
    ~tampered /\ ~Windows =>
        /\ entry[KeyFile] \in Temps => entry[KeyFile][2] = 1
        /\ \A r \in Runs : entry[KeyFile] = <<r, 1>> =>
              /\ data[<<r, 2>>] # Unborn =>
                    entry[MetaFile] = <<r, 2>> /\ disk[MetaFile] = <<r, 2>>
              /\ data[<<r, 2>>] # Unborn \/ crashes = 0 =>
                    /\ ~Absent(MetaFile)
                    /\ Describes(data[entry[MetaFile]], data[<<r, 1>>])

IInv ==
    /\ TypeOK /\ Running /\ NamesWhole /\ Untouched /\ Known /\ MetaKept
    /\ TempsApart /\ Verified /\ Progress /\ Recipes

-----------------------------------------------------------------------------
(***************************************************************************)
(* Why RestoreSucceeds holds, as far as single steps go.  Unhindered: the  *)
(* names are free, key.meta is as keyrestore needs it and the password is  *)
(* typed; no check that is still to come can fail, as long as nobody       *)
(* disturbs the command and no call fails.                                 *)
(***************************************************************************)
Ahead == Typed \ {"confirm", "sync"}

MetaFits ==
    LET m == data[entry[MetaFile]] IN
    ~Absent(MetaFile) /\ KeyOf(pw, m) # Reject /\ Describes(m, KeyOf(pw, m))

\* The password is typed, the names are free and key.meta is there and fits.
Promising ==
    At("target") /\ NamesOK /\ (cmd = "restore" => MetaFits)

NamesFree ==
    /\ stage \in Ahead => Absent(Goal)
    /\ cmd = "make" /\ Current = MetaTemp => Absent(KeyFile)

Unhindered ==
    /\ self # NoRun /\ ~cancelled /\ stage \in Typed \cup {"done"}
    /\ NamesFree
    /\ cmd = "restore" /\ stage \in Ahead =>
          /\ MetaFits
          /\ stage \in {"readmeta"} \cup Derived => Unchanged(MetaFile, meta)
    /\ stage = "readback" => data[KeyTemp] = KeyText
    /\ stage = "metaback" => data[MetaTemp] = recipe
    /\ stage = "confirm" => entry[Goal] = Current

\* The steps from each stage to the end; keymake publishes twice.
StepsLeft ==
    [preflight |-> 25, prompt |-> 24, target |-> 23, openmeta |-> 22,
     readmeta |-> 21, derive |-> 20, keytemp |-> 19, expand |-> 18,
     readback |-> 17, metatemp |-> 16, write |-> 15, metaback |-> 14,
     recheck |-> 8, publish |-> 7, final |-> 6, links |-> 5, rename |-> 4,
     confirm |-> 3, sync |-> 2, done |-> 1, leaving |-> 1, idle |-> 0]
Rank ==
    StepsLeft[stage]
      + (IF stage \in PublishStages /\ Current = MetaTemp THEN 6 ELSE 0)
=============================================================================
