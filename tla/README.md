# xorbox: TLA+ specifications and proofs

xorbox transforms files that lie beside its executable: it applies an XOR pad
(`xor`), encrypts and decrypts authenticated containers (`xcha E`, `xcha D`),
and makes and restores the keys for both (`keymake`, `keyrestore`, `xcha K`).
There is no server and no network. What makes it hard is the folder: an
irreplaceable file is replaced in place while its owner, other copies of the
program, a full disk, Ctrl-C and power failures are all free to act between
any two of its system calls. These modules state what the program promises in
that situation, check it with TLC and prove the main promises with TLAPS.

All source references are to `src/src/` unless another directory is named.

- [1 Inventory](#1-inventory)
- [2 Modules](#2-modules)
- [3 How state and actions correspond to the code](#3-how-state-and-actions-correspond-to-the-code)
- [4 What each run checks](#4-what-each-run-checks)
- [5 Bounds](#5-bounds)
- [6 Fairness](#6-fairness)
- [7 What is proved](#7-what-is-proved)
- [8 What the finding says](#8-what-the-finding-says)
- [9 Abstractions and limits](#9-abstractions-and-limits)
- [10 Plan](#10-plan)

## 1 Inventory

| component | source | state it keeps | operations |
|---|---|---|---|
| folder lock | `files.rs` `Root::lock`, `platform/*.rs` | the file `.xorbox.lock`, the OS lock on it | create or open, count links, try to lock; release by closing |
| folder | `files.rs` `Root`, `Input`; `verify.rs`; `platform/*.rs` | directory, files, the temporary file of the command | open an input with its snapshot, choose a destination, create a temporary file, read back, re-check, publish |
| transform commands | `app.rs` `xor_file`, `xcha_file` | snapshots of input and key, running digest | one pass from the input through the stream to the publication |
| key commands | `keygen.rs`; `app.rs` `run`, `password` | password, metadata, two temporary files | preflight, prompt, derive, expand, publish `key.meta`, publish `key.key` |
| XOR stream | `stream.rs` `xor` | positions in input, key and chunk, the cached key | read a chunk, fill the pad, offer the chunk to the writer, require the end |
| XChaCha container | `stream.rs` `encrypt`, `decrypt` | secretstream state, `saw_short` | header, records, final record; the decoder's checks |
| checked writer | `verify.rs` | digest and count of accepted bytes | write, finish, `read_back` |
| key metadata | `keygen.rs` `KeyMeta` | the JSON of `key.meta` | new, validate, decode |
| hidden prompts, `sha3` | `platform/windows/console.rs`, rpassword on Linux; `app.rs` `private_prompt`, `password`, `run` | hidden line, saved console mode | poll, read an event, edit, restore; ask once or twice; hash and print |
| names, command line | `cli.rs` `parse`; `files.rs` `valid_name`, `reserved`, `xcha_output` | the names opened or created | parse, validate, derive |
| exit and signals | `main.rs` | the flag `CANCELLED` | set by the Ctrl-C handler, polled by `check_cancel`, read once more for the exit code |

**How they interact.** `main` parses the command line, installs the Ctrl-C
handler and calls `app::run`, which takes the folder lock for every command but
`sha3` and keeps it until it returns. A command opens its files through `Root`
(which records a metadata snapshot), runs a function of `stream` or `keygen`
from the open files into a `CheckedWriter` around a temporary file, reads that
file back, compares the snapshots with the files again, and hands the temporary
file to `Root::publish`. The only shared memory is the flag `CANCELLED`; the
shared state that matters is the file system, which the lock protects from
other copies of xorbox and from nobody else.

**What is hard, and what makes each component correct.**

- *Folder lock.* The name and the file behind it are different things: the lock
  is on the file. Correct if at most one invocation is inside, the lock is on
  the file the name denotes, a killed holder blocks nobody, and who asks for it
  has an answer although the holder may stay at a prompt for ever.
- *Folder and transform commands.* Other programs act between any two calls,
  reads are spread over time, and the rename cannot be made conditional on what
  was checked before it. Correct if names denote whole files at any time and
  after any crash; if what is published is the transformation of one content
  under one key; if nothing is replaced that was not checked; if the outcome
  reported is the outcome on the disk; if every command ends, and succeeds when
  nothing stands in its way.
- *Key commands.* Two files belong together and can only be published one by
  one. Correct if a key never exists without the metadata to make it again, if
  a restored key is the recorded one, if keys are never replaced, and if the
  state an interrupted `keymake` leaves behind is one `keyrestore` can use.
- *XOR stream.* Two files advance at different speeds. Correct if byte i meets
  key byte i mod key length.
- *Container.* The storage is not trusted. Correct if only the container that
  was made is accepted, and that one always.
- *Checked writer.* Correct if damage between write and publication is noticed.
- *Prompts.* The console counts UTF-16 units and the user characters; Ctrl-C
  comes as a key, as a signal or as an error of rpassword. Correct if the line
  is the one the user meant, if Ctrl-C ends a prompt at which nobody types, and
  if the shell gets its console mode back on every path (the one call that can
  prevent this is the one that gives it back).
- *Names and command line.* Windows opens a file under many spellings, a name
  may be derived, and case is folded by three different rules: those of ASCII
  in `reserved`, of Unicode in `valid_name`, and of Windows itself. Correct if
  a line means at most one command, and no accepted name is a file of the
  program's own.

`PROJECT.json` lists the components with their modules, and the hazards of the
code with the line where each one bites and the properties that cover it.

## 2 Modules

| module | what it is |
|---|---|
| `Mutex` | abstract: at most one invocation is inside |
| `FolderLock` | `Root::lock` step by step; implements `Mutex` |
| `FolderLockProofs` | theorems about `FolderLock` |
| `AtomicFolder` | abstract: what a command promises the owner of the folder |
| `Folder` | directory, disk, temporary files, read-back, publication, crashes and the user; extended by the commands |
| `Transform` | `Folder` with `xor`, `xcha E`, `xcha D` |
| `TransformProofs` | theorems about `Transform` (and so about `Folder`): exactness, reports and durability, refinement of `AtomicFolder`, no needless refusal, bounded runs |
| `KeyPair` | `Folder` with `keymake`, `keyrestore`, `xcha K` |
| `KeyPairProofs` | theorems about `KeyPair`: the pair of files, refinement of `AtomicFolder`, no needless refusal, bounded runs |
| `XorStream` | byte positions of `stream::xor`, `CheckedWriter` and `read_back` |
| `XorStreamProofs` | theorems about `XorStream` |
| `Container` | `stream::encrypt`, a storage that damages, `stream::decrypt` |
| `ContainerProofs` | theorems about `Container` |
| `Prompt` | the hidden prompts with their console, and `sha3` |
| `PromptProofs` | theorems about `Prompt` |
| `Names` | command line, validation and derivation of names |
| `NamesProofs` | theorems about `Names` |
| `Induction` | induction on numbers and sequences, and what it says of loops; used by the proofs about `Prompt` and `Names` |
| `MCFolderLock`, `MCTransform`, `MCKeyPair`, `MCXorStream`, `MCContainer`, `MCPrompt`, `MCNames` | small instances for TLC |

`Folder` has no specification of its own: it holds the variables, the
operations of `Root` and the environment that both kinds of command share.
`Transform` and `KeyPair` EXTEND it, say when its operations happen, and add
their own variables. The commands rely on the lock through one variable, `self`,
the invocation that is inside; that this is what the lock gives them is
`ImplementsMutex`. `Transform` treats what a stream does to a content as the
operator `Xform`; `XorStream` and `Container` are the insides of that operator.
`Prompt` is the inside of the step `Prompt` of `KeyPair`, and `Names` of the
constants `Commands` and `Protected` of `Transform`: it shows that the commands
that reach the folder have names of the kind those constants assume.

Operators whose comment begins with "Mutant:" are wrong variants of the
operator that follows them. Nothing uses them. `PROJECT.json` lists, for every
property of every run, the variant that breaks it: each property is known to
notice at least one plausible bug.

## 3 How state and actions correspond to the code

`PROJECT.json` maps every definition to its lines. The main correspondences:

**FolderLock.** `entry` is the file the name `.xorbox.lock` denotes, `extra`
the files with a second link, `fd` and `pc` the handle and the program counter
of every invocation, `owner` the kernel's lock table. `Create`,
`AlreadyExists`, `Open`, `CheckLinks`, `TryLock` are the calls of `Root::lock`
in order; `Refused` is any of its error returns; `Finish`, the end of the
command, and `Kill` close the handle. Nothing in the code unlinks the name, and
the README of the program asks the user not to do so while a command runs:
`RemoveName` has that guard, and the mutant `ReleaseAndUnlink` shows what
happens otherwise.

**Folder.** `entry` is the directory as processes see it; `disk` is what a power
loss would leave of it. `WriteBack` moves single entries to the disk in any
order, `SyncPublication` moves all (`fsync` of the directory, Linux). `temps`
are the temporary names present; a file and its random name are one value
`<<invocation, number>>`. `data` is the content of a file, `flushed` the
temporary files whose content is on the disk, `stamp` the metadata that
`Input::unchanged` compares (size, mtime, ctime). `stage` is the program counter
of the running command, `report` the last thing it knows of each temporary file
(`published`; `retained`, `unverified`, `occurred` are the three error messages
of `Root::publish`), `result` the exit code. `Root::publish` is one action for
each call:

| stage | code | action | if it fails |
|---|---|---|---|
| publish | `check_cancel`, `sync_all` | `SyncTemp` | dropped |
| final | `unchanged` (in place) | `FinalUnchanged` | dropped |
| links | `prepare_in_place`, `check_cancel` | `FinalLinks` | dropped |
| rename | `platform::publish` | `Rename` | `RenameFails`: temporary file retained |
| confirm | identity of the target | `Confirm` | `ConfirmFails`: reported as unverified |
| sync | `sync_publication` | `SyncPublication` | `SyncPublicationFails`: reported as occurred |

Windows and Linux share these actions; the constant `Windows` switches the three
differences that matter: links do not change the compared metadata, a directory
cannot be synchronized, and share modes refuse writers while a handle is open.

**Transform.** Every stage is a call of `xor_file` or `xcha_file`. Streaming is
a set of reads: `ReadInput` and `ReadKey` may happen any number of times until
`EndStream`, and `seen` and `seenKey` collect the contents the reads saw. If
each set has one element the output is its transformation, otherwise it is
`Torn`, a content nobody meant (decryption refuses it, since the parts do not
authenticate). `input.text` and `key.text` are ghosts: the content at the time
of the snapshot, which the code does not know and the properties refer to.

**AtomicFolder** is what the owner of the folder is promised. `shown` is what
every name holds, `safe` what it would hold after a power loss; a command
changes one name in one step, from one whole content to another (`Commit`);
`Settle` is the disk catching up; a power loss replaces `shown` by `safe`; a
command that succeeds has written something, and where names can be made
durable it has settled. `Folder` gives the mapping: `Shown` and `Safe` are the
contents behind `entry` and `disk`, `Wrote` counts the names written, from
`report` and `stage`. All other steps of a command (temporary files, reads,
checks) are stuttering steps for the owner: this is what "atomic" means here.
Both `Transform` and `KeyPair` implement it, with one name per command and with
two: checked by TLC and proved.

**KeyPair.** The commands follow `app::run`, `keygen::make`, `restore` and
`make_xcha`. `Current` and `Goal` are the file being published and its name.
The same actions of `Root::publish` run twice in `keymake`. `tampered`
remembers user actions the README of the program excludes.

**XorStream.** A byte is its position, so the output is a sequence of pairs
`<<input byte, key byte>>` and the reference definition is one line
(`Aligned`). `FillPad` is one turn of the inner loop, `Write` one turn of
`write_all`: the file accepts some of the bytes offered and `CheckedWriter` adds
them to digest and count. `file` is what the storage holds, `output` what the
digest is of, `back` what `read_back` has read; `Corrupt` changes one byte of
`file` until then. The lengths of the two files may change at any time after
they were opened.

**Container.** A plaintext byte is its position, a container byte is the record
and offset it belongs to, a length prefix is one unit. `Fill` is one read of
`fill`, of any size; `Filled` is when its loop ends. `Authentic` is the
assumption about dryoc's secretstream: a pull succeeds exactly on the next
record pushed under the same header. `Damage` cuts out or repeats
a part, exchanges two neighbouring parts, or alters a unit; a unit that is not a
length but is read as one has any value except the right one.

**Prompt.** `stage` walks through the calls of `prompt_password` and of its
callers. `queue` holds the key records not yet read, `value` the units the
program has got; `line` and `lines` are ghosts, what the user meant by the keys
in characters. `mode` is the console's input mode, `saved` the guard's copy.
Every call may fail, the guard's own included, whose result the code ignores:
`lost` remembers that this has happened and left the console raw.
`Times` applies a step a number of times, a key as often as its record repeats
it. The two loops of Ctrl-W are `RemoveWhile`: every turn that goes on removes
a unit, so they are over after as many turns as there are units, and a turn
that has nothing to remove changes nothing. Both are functions of the number of
turns, not recursive operators, so that they can be reasoned about. rpassword
(Linux) is one external step that returns a line, an error or `Interrupted`.

**Names.** A name is the sequence of its parts between the dots, since every
rule of the code is about first, last or whole parts. `Parse`, `CheckInput` and
`CheckTarget` are the places where a command can be refused for its words.
`ParseXor` is the loop of the parser, one function value for each turn.
`Lower`, `Upper` and `Fold` are the three rules of case, each a function on
parts: `to_ascii_lowercase` (`Reserved`), `to_uppercase` (`ValidName`), and what
Windows takes for one name (`Denotes`, in the property only).
`Spells` is the reference definition of the command line, independent of the
parser's order of checks: of the arguments of `xor` it says which are options
(`Once`) and that the others are the names, in their order (`Others`).
`Denotes` is what Windows opens under a name.

## 4 What each run checks

| run | module, cfg | question | distinct states |
|---|---|---|---|
| `folder_lock` | `MCFolderLock` | do racing invocations exclude each other, without stale locks, and does each have an answer? | 4.9 thousand |
| `transform_linux` | `MCTransform.cfg` | one command against two user actions, one crash, damage, faults, Ctrl-C: is only exact output published and nothing else touched? | 407 thousand |
| `transform_windows` | `MCTransformWindows.cfg` | is a linked or changed file replaced where link counts do not show in metadata? | 289 thousand |
| `transform_twice` | `MCTransformTwice.cfg` | two commands and a crash: does success survive, does every command end? | 158 thousand |
| `transform_calm` | `MCTransformCalm.cfg` | does a command that should succeed do so? | 2.7 thousand |
| `cancel_code` | `MCCancel.cfg` | is exit code 130 the code of a command that published nothing? (No, see section 8) | |
| `key_pair` | `MCKeyPair.cfg` | one key command against user, faults, crash: key and metadata together, exact, never replaced, and are the messages true? | 133 thousand |
| `key_crash` | `MCKeyCrash.cfg` | two key commands, two crashes: can the key be restored? | 23 thousand |
| `xor_stream` | `MCXorStream.cfg` | does every byte meet its key byte, for all small lengths, and is the file read back the output? | 286 thousand |
| `container` | `MCContainer.cfg` | is exactly the right container accepted? | 208 thousand |
| `prompt` | `MCPrompt.cfg` | is the hidden line what the user meant, the console given back, Ctrl-C heard? | 438 thousand |
| `names` | `MCNames.cfg` | does a line mean one command, and can a name reach the program's own files? | 241 thousand |

The properties, in the order of what they protect:

- `WholeFiles`: no name ever denotes a partial, mixed or damaged file, also
  after a power loss.
- `ImplementsAtomicFolder`: for the owner every command is a few atomic changes
  by somebody alone in the folder; there is no moment in which a name that was
  there is gone, and success means that something was written that stays. It is
  a promise about behaviours, and so more than `WholeFiles`.
- `PublishedExact`: the rename publishes the transformation of the content the
  input had when it was opened under the key as it was when opened.
- `NothingOverwritten`: a new name was free; in place, the replaced file is the
  one opened, with the content transformed and no second name, unless the user
  acted after the last check (`late`; no check can close that window).
- `OnlyTheTarget`, `KeysNeverReplaced`: commands touch nothing else.
- `ReportIsTrue`, `SuccessIsDurable`, `PairIsDurable`: messages and exit code 0
  mean what they say, before and after a crash. `ReportIsTrue` is about each
  temporary file: dropped, retained, or renamed, the last also where the error
  says that the target could not be verified or not be synchronized. It is
  checked for `Transform` and for the two files of `keymake`, where "key.meta
  was saved" is said of a file that was.
- `KeyHasRecipe`, `RestoredExact`, `RestoreSucceeds`: the pair of key files.
- `MutualExclusion`, `HolderLocksTheName`, `ImplementsMutex`: the lock.
  `EveryAttemptEnds`: an invocation that asks for it holds it or is gone after
  its own calls, whatever the holder does.
- `Aligned`, `WholeOutput`, `FittingKeySuffices`, `EveryStreamEnds`: the XOR
  stream.
- `AcceptedIsExact`, `RoundTrip`, `EveryPassEnds`: the container.
- `LineAsTyped`, `ModeRestored`, `CancelEnds`: the prompts. `ModeRestored` says
  what the console is outside `prompt_password`: the shell's, or raw for good
  once the guard has failed to set it back.
- `ParsedAsSpelled`, `NamesAreSafe`, `NameComesBack`: the command line.
- `EveryRunEnds`, `ReadySucceeds`: commands end, and are not refused needlessly.

Deadlock is not an error in any run but `folder_lock`: an invocation runs once,
so a behaviour may end when every invocation has. `folder_lock` lets
invocations start again for ever, and checks deadlock.

## 5 Bounds

- `MaxEdits = 2` user actions: one can make a file change and the second change
  it back or hide the first under another name; each check of the code compares
  one file with one snapshot, so it can be deceived by at most one change before
  and one after it. `MaxCrashes = 1` (2 in `key_crash`, where the second command
  also crashes). The proofs have no such bounds.
- One command in the runs with a busy user, two in those about what one command
  leaves to the next. The lock run has three invocations and three files.
- Contents: a base with at most two layers (`MaxLayers`), enough for an input
  that is plain, encrypted, or transformed twice. Two data names, both key
  names; one file the user may create (`Spare`).
- `MCXorStream`: chunks of 2 bytes, all pairs of lengths 0 to 7: keys shorter
  than, equal to and longer than a chunk, dividing it or not, wrapping in the
  middle and at the end, up to four chunks; one change of a length; pieces of
  one or two bytes; one byte the storage has changed before the read-back.
- `MCContainer`: chunks of 2, overhead 1, inputs of 0 to 4: empty, short last
  chunk, whole chunks; one growth or shrinkage, one damage at any place.
  Length prefixes range from 0 to one more than the largest allowed.
- `MCPrompt`: four key events, each held for one or two repeats: a character of
  two units, a space, another character and an editing key are the shortest
  sequence in which Ctrl-W or Backspace could take half a character, and two
  lines of one or two keys fit as well.
- `MCNames`: up to four arguments (a command has at most three, so every
  excess is seen), names of up to three parts (stem, extension and the `.xcha`
  of the derivation, or a leading dot and two). The limits of sizes are 3 and 5.
- `MaxOutputs` of `AtomicFolder` is 1 for `Transform` and 2 for `KeyPair`.

Nothing is symmetric in these configurations: the names play different roles,
and temporal properties do not allow symmetry sets.

## 6 Fairness

In `FolderLock` only the calls of `Root::lock` are fair, one process at a time:
`try_lock` returns at once, so none of them waits. `Finish` is not: the lock is
held over the whole command, password prompts included (`app.rs:56`, 75, 83),
and a holder may stay there for ever. `EveryAttemptEnds` therefore says that an
attempt leads to the lock or to an error, and not that the lock is ever free.

For the commands: `WF(Step)` of the running command, and nothing for the
environment: a process the operating system schedules keeps executing its own
next call, and every call of a step returns or fails. Files are regular files
(`open_regular` refuses others), so reads do not wait for anybody. There is no
fairness for the user, for crashes, for writeback, for starting a command, and
none for the password prompt: a prompt may wait for ever, which is why no
liveness property is stated about `KeyPair` that contains a prompt
(`RestoreSucceeds` starts after it). The liveness properties need `Step` as a
whole to be fair, not each of its actions: from every state of a command each
step goes forward.

In `Prompt` the program's own steps are fair and the user and rpassword are not:
nobody has to type, and rpassword may sleep for ever. `CancelEnds` is therefore
about a prompt of Windows, which polls every 50 ms, or about an `Interrupted`
that has been returned. It does not rest on failing calls: `Program` is fair as
a whole, and its choice among success and failure is free.

`EveryRunEnds` is about a user who makes no changes (`MaxEdits = 0` in that run)
but with failing calls, Ctrl-C and crashes.

## 7 What is proved

TLAPS proves the following for every value of the constants: any set of
invocations, names, contents, any start folder, any number of user actions,
crashes and faults, both platforms, any chunk size and any lengths, any keys
typed and any command line.

| module | theorem | property |
|---|---|---|
| `FolderLockProofs` | `TypeCorrect`, `Exclusion`, `NoStaleLock` | `TypeOK`, `MutualExclusion`, `HolderLocksTheName` |
| `FolderLockProofs` | `Refinement` | `ImplementsMutex` |
| `FolderLockProofs` | `EveryAttemptIsBounded` | safety half of `EveryAttemptEnds` |
| `TransformProofs` | `TypeCorrect`, `FilesAreWhole` | `TypeOK`, `WholeFiles` |
| `TransformProofs` | `PublicationExact`, `NothingLost`, `TargetsOnly` | `PublishedExact`, `NothingOverwritten`, `OnlyTheTarget` |
| `TransformProofs` | `ReportsTrue`, `Durability` | `ReportIsTrue`, `SuccessIsDurable` |
| `TransformProofs` | `Refinement` | `ImplementsAtomicFolder` |
| `TransformProofs` | `ReadyNeverRefused`, `EveryRunIsBounded` | safety halves of `ReadySucceeds`, `EveryRunEnds` |
| `KeyPairProofs` | `TypeCorrect`, `RecipeKept` | `TypeOK`, `KeyHasRecipe` |
| `KeyPairProofs` | `RestoredKeyExact`, `KeysKept`, `SuccessIsPair` | `RestoredExact`, `KeysNeverReplaced`, `PairIsDurable` |
| `KeyPairProofs` | `Refinement` | `ImplementsAtomicFolder` |
| `KeyPairProofs` | `ReadyNeverRefused`, `EveryCommandIsBounded` | safety half of `RestoreSucceeds`, for all three commands |
| `PromptProofs` | `ConsoleGivenBack`, `LineMeant` | `ModeRestored`, `LineAsTyped` |
| `PromptProofs` | `NeverMalformed` | Enter never meets half a character |
| `PromptProofs` | `CancelHeard` | safety half of `CancelEnds` |
| `NamesProofs` | `LineIsParsed`, `NoNameIsOurs`, `NameLeadsBack` | `ParsedAsSpelled`, `NamesAreSafe`, `NameComesBack` |
| `NamesProofs` | `NamesChecked` | the inductive invariant `NamesInv` |
| `XorStreamProofs` | `TypeCorrect`, `BytesAligned`, `OutputIsWhole` | `TypeOK`, `Aligned`, `WholeOutput` |
| `XorStreamProofs` | `NeverRefusedInVain`, `EveryTurnCounts` | safety halves of `FittingKeySuffices`, `EveryStreamEnds` |
| `ContainerProofs` | `TypeCorrect`, `DecodedText`, `AcceptedExact` | `TypeOK`, `DecodedInOrder`, `AcceptedIsExact` |
| `ContainerProofs` | `NeverRefusedInVain`, `EveryPassIsBounded` | safety halves of `RoundTrip`, `EveryPassEnds` |

So every invariant and every action property of the passing runs is a theorem
(`ReportIsTrue` for `Transform`; for `KeyPair` it is checked only), and so are
the three refinements. `DecodedInOrder`, that what decrypt writes is always a
beginning of what was encrypted, is a theorem and in no run. Of each liveness
property there is the part that single steps decide.

*Assumptions.* Those about the constants, each named in the module that
declares it: names, spare files and temporary files are different things and
`NoFile`, `NoRun` are none of them (`InodesAssumption`, `RunsAssumption`);
the user writes whole contents and the start folder has them
(`TextsAssumption`); commands have the shape `cli.rs` produces
(`CommandsAssumption`, `KeyAssumption`); the three names of keys and metadata
differ and what `keymake` makes fits together (`NamesAssumption`,
`KeysAssumption`); a transformation gives a whole content
or refuses (`XformAssumption`); a chunk has at least a byte, a record more than
its text (`ChunkAssumption`, `SizesAssumption`, `BoundsAssumption`); a key is
held for at least one repeat (`KeysAssumption` of `Prompt`); an argument has a
part, and folding the case of a part has nothing to do with spaces at its end
(`PartsAssumption`); what Windows takes for one of the program's names, or for a
device, differs from it by the case of letters that the code folds as well
(`FoldingAssumption`). TLC evaluates all of them in the runs. The two theorems
`ReadyNeverRefused` have the hypothesis `~Faults`, the switch for failing calls
and Ctrl-C, as `transform_calm` does.

*FolderLock.* The invariant says that every open handle is of the file the name
denotes now (`HandlesAreTheName`) and that the lock table and the program
counters agree (`OwnersHold`). Mutual exclusion alone is not inductive: two
invocations that hold handles of two different files would both succeed in the
next step, and only the first part excludes them. It holds because nobody
removes the name while an invocation has it open.

*Transform.* `PublishedExact` speaks of one step, the rename, but its reasons
lie many steps before. `IInv` carries them from stage to stage:
- `Frozen`: as long as the stamp of an open file is that of the snapshot, the
  file has had the snapshot's content all the time, so every read saw it;
- `DigestIsOutput`: from the end of the stream the digest is that of the
  transformation of what was read, from the read-back on it is the content of
  the temporary file, and that is on the disk;
- `Rechecked`: after the re-checks each of the two sets of contents read has
  one element, the snapshot's;
- `LastChecks`: after the last look at an in-place input, until the user acts;
- `NamesWhole`, with `disk` as well as `entry`: a power loss replaces the one
  by the other, so `WholeFiles` is not inductive without it;
- `TempApart`: the temporary file is under no name and is neither input nor
  key, so that writing to it changes nothing else.

`TransformProofs` has a lemma for every action (what it preserves), a few frame
lemmas for what groups of actions leave alone, `NextKeeps` that joins them, and
the theorems. `TargetsOnly` needs a second invariant, `TargetAllowed`, proved
relative to `IInv`.

*Reports and refinement of Transform.* `Books` joins what a command says with
what has happened: of each temporary file, where it is (nowhere, in the
directory, under a name, on the disk) follows from its report and the stage,
and a report says "published" only when the last synchronization has returned.
`OutLanded` is the part about files that were renamed, whether the command has
said so yet or not: whole, on the disk, and under the target until the user
acts. With it, error messages and success are true (`ReportsTrue`,
`Durability`). For the refinement, `Counted` says that `Wrote` is 0 until the
rename and 1 after it, so that the rename is `Commit` and a successful end
finds one name written; `NamesWhole` of `TransformProofs` gives the whole
contents. Each action of `Next` maps to one abstract action or to none.

*KeyPair.* The theorems about the key commands rest on one inductive invariant,
stated at the end of `KeyPair.tla`. Its parts beyond the types:
- `Known`: the password, the recipe and what they expand to, stage by stage;
  from the expansion on, the recipe describes the key (for `keymake` by the way
  metadata is made, for `keyrestore` because the digest was compared);
- `MetaKept`: as long as the stamp of the open `key.meta` is that of the
  snapshot, its content is, and the recipe read from it; once `Recheck` has
  passed, the recipe is the snapshot's whatever the user does next;
- `TempsApart`, `Verified`: a temporary file that is still to be published has
  no name, on the disk either, is not the `key.meta` in hand, and holds what
  was meant from its read-back on;
- `Progress`: once `keymake` has published `key.meta`, it is in its place, and
  on the disk before `key.key` is renamed; `keyrestore` still finds the file it
  read;
- `Recipes`: of every pair ever made, where a power loss can leave it. The
  disk counts, not only the directory: `KeyHasRecipe` is not inductive without
  `disk[MetaFile]`, because a power loss could take back `key.meta` alone.

`PairIsDurable` needs a second invariant, `LetAlone`, which holds as long as
the user has done nothing: it joins the exit code with the reports on both
files. `StepFrame` says once what every step without the user and power losses
leaves alone, and `KeysKept` and the refinement use it. For the refinement,
`Accounts` says that `key.key` is the last file reported, so that `Wrote` is at
most 1 before each rename and at least 1 at success; `Quiet` and `GivesUp`
gather the actions that the owner of the folder does not see.

*Induction.* What a loop computes for every number of turns needs induction,
and a theorem with a predicate as its parameter is out of the provers' reach. A
theorem about sets is not: `UpTo` says that a set with 0 in it, and with n + 1
whenever with n, has every number, and follows from the fact that < is
well-founded on the naturals. `BySequence` says the same of sequences;
`Recursion` and `SameTurns` say that a loop has a value for every turn and has
it once, which is what a recursive function needs before anything can be proved
of it.

*Prompt.* `GuardKeeps`: while the guard exists it holds the shell's mode, and
before it exists the mode is the shell's. This is inductive because a second
prompt begins only after the first has restored the mode; where that failed,
both are raw, and stay so (`ModeLeft`).

`LineAsTyped` compares what is kept in UTF-16 units with what is meant in
characters. `UnitsOnce` and `UnitsWellFormed` say that units determine the
characters, and `EditMeant` that each editing key does to the units of a line
what it does to its characters. For Ctrl-W this is `RemovedWhile`: the first
loop takes the units of all trailing spaces, the second those of the word
before them, and neither stops inside a pair. `RepeatedMeant` carries it over
the repeats of a held key. The invariant `LineInv` then only has to say what is
on its way: `Coming` compares the line with the units got and the records still
in the queue, where one character may have left two; `LinesKept` joins the
lines with the secret. That the units are always those of a line is also why
`String::from_utf16` never refuses (`NeverMalformed`).

*Names.* `NamesInv` says that a command that reaches the checks is one that
`parse` returns for its line, and that every name in hand has passed them. For
`ParsedAsSpelled` the loop of `xor` is summed up by `Account`: after k
arguments the options are those among them, the names the others in their order
(`Placed`), and nothing has been refused unless one of the first k is wrong.
Where the names stood is determined by the line (`PlacedOnce`), so no line
spells two commands (`OneCommand`), whatever its length. For `NamesAreSafe`,
`DenotesFolded` says that of a valid name Windows drops nothing but case, since
`valid_name` refuses final dots and spaces; `FoldedReserved` and
`FoldedTemporary` that what then is one of our names to Windows is one to
`reserved` too. `ThereAndBack` is `xcha_output` in both
directions, for names with any number of dots.

*XorStream.* `InputPlace` and `KeyPlace` say where the two handles are, up to
multiples of the key length; `PadAligned` says it of the bytes gathered for the
current chunk. All three count from `Before`, the bytes written when the chunk
began, because `output` grows in pieces and the positions do not.
`ReadBackPlace` says that what has been read back is a beginning of the file.
The lemmas about remainders that the step `FillPad` needs are stated first.

*Container.* What decrypt writes depends on all that encrypt has pushed, and a
sum over the records would need induction. Each record therefore carries a
ghost, `from`, where its text begins in the input: `Consecutive` says that it
begins where the one before it ended, `BufferPlace` that the buffer begins where
the last one ended, and `PlainPlace` that what is written ends where the last
opened one ended. `AcceptedIsExact` also needs the number of records:
`UnpackPlace` says that all records so far were full, or that `saw_short` is
set, and so that there are as many as the text has chunks. Damage needs no case
of its own: `Authentic` ties each record that is pulled to one that was pushed.

*The safety half of liveness.* A liveness property that TLC checks has three
reasons: a step is possible, it is taken, and steps lead to the goal. The last
one is proved, in two parts. First, nothing is refused in vain: an invariant
says that no check that is still to come can fail as long as nobody interferes
(`Unhindered` of `Transform` and `KeyPair`, `Untroubled` of `XorStream` and
`Container`). It has to say at every stage what the later checks will look at:
for `xcha D`, that the container is laid out as its records were pushed
(`LaidOut`), that a short record is the last but one or the last
(`ShortIsLast`), and that decryption stands at the beginning of a record
(`AtRecord`). For `keymake`, that the names are free, of which the first
publication takes one and leaves the other (`NamesFree`). Second, every step of
the program lowers a number, `Rank`, that nothing else can raise but what is
named: at most 4 calls for the lock, 18 for a transform command and 2 more for
every action of the user (who may change a file while it is read), 25 for a key
command, 4 times the length and 4 more for `xor` with its read-back, 3 times
the length and 4 more for `encrypt`, 2 more than the container has units for
`decrypt`, and 7 from Ctrl-C in a prompt to the exit code (`CancelHeard`: the
prompt alone may last as long as the user likes). There is thus no retry and no
loop without progress, whatever fails.

*Not proved.* The liveness properties themselves (`EveryAttemptEnds`,
`EveryRunEnds`, `ReadySucceeds`, `RestoreSucceeds`, `FittingKeySuffices`,
`EveryStreamEnds`, `RoundTrip`, `EveryPassEnds`, `CancelEnds`): what the
theorems leave open is that a step is possible in every state of a command,
that is ENABLED, and that fairness takes it; both stay with TLC. Induction is
done for the loops of `Names` and `Prompt`, each with sets of its own; there is
no general theorem about recursive definitions. What the libraries compute is
assumed.

## 8 What the finding says

`cancel_code` is expected to fail. `main` derives the exit code from the flag
`CANCELLED` after the command has returned an error, whatever the error was. If
the rename has succeeded, the final synchronization then fails, and Ctrl-C was
pressed after the last `check_cancel`, the exit code is 130. The program's
documentation says of 130 that it is a cancellation, of a cancellation that it
happens "before publication", and in `src/VERIFICATION.md` that the originals
are unchanged. The error message on the terminal is right; only the code is
not, which matters to a script that runs `xor --in-place` again after 130.

## 9 Abstractions and limits

- **Stamps always differ.** Two changes within one tick of the filesystem clock
  can leave the metadata equal; the code assumes they do not, and so does the
  model.
- **`Root::input` is one step**: opening, shared lock, snapshot and comparison
  with the protected files. So is the preflight of the two names in `app::run`.
- **User actions are on the disk at once**; only the program's own directory
  changes can be lost. This is the harder case for the program.
- **A kill while main returns** and the exit code are one step. That dropping a
  temporary file may itself fail is left out (it leaves the file).
- **A power loss** turns temporary files that were not synchronized into
  `Torn`, keeps any subset of the pending directory entries, and may bring
  back the name of a temporary file that was dropped.
- **An empty input** is read once, to find its end, like any other.
- **`KeyHasRecipe` and `keyrestore`.** For a key made by `keyrestore` the
  property is stated until a crash only. `keyrestore` does not synchronize the
  `key.meta` it has read; if an earlier `keymake` was killed between renaming
  and synchronizing it, a file system that writes directory entries in another
  order can keep the restored key and lose the metadata.
- **Wrong keys** in `Container` are the case of a header or record that is not
  authentic; that a forged record is accepted has negligible probability and is
  excluded by `Authentic`.
- **Prompts.** A character of two UTF-16 units arrives as two records that
  nothing separates, and the console sends no half of one; a process that is
  killed at the prompt leaves the console raw, which no code of its own can
  prevent. The password itself is compared, never stored.
- **A console that cannot be given back.** If the guard's `SetConsoleMode`
  fails the shell stays raw, and the second prompt of `keymake` takes that for
  the shell's mode. The code does nothing about it, and `ModeRestored` claims
  nothing more.
- **Names.** `FoldingAssumption` is about Windows, not about the code: if its
  table of cases took a letter outside ASCII for one of `key`, `meta`, `xcha`,
  `xorbox` or `lock`, `reserved` would let it pass. Short (8.3) names are left
  out. Trimming removes spaces only, and commutes with folding; arguments
  that are not Unicode are left out (they are refused, or are names that equal
  none of the program's own).
- **Cryptography** (Argon2id, ChaCha20, SHA3-512, secretstream, randomness) is
  external: operators with the properties the assumptions state. Equal digests
  mean equal contents.
- **Not modelled**: permissions and ACLs, filesystem kinds, alternate streams
  (failing calls stand for their checks); the JSON form of `key.meta`;
  progress messages; the verification scripts and build files.

## 10 Plan

Order: what loses data first. Steps 1 to 13 are done.

1. `Mutex`, `FolderLock`: the lock everything else relies on; refinement.
2. `Folder`, `Transform`: publication and in-place replacement.
3. `KeyPair`: two publications that belong together.
4. `FolderLockProofs`, `TransformProofs`: type correctness, exclusion,
   exactness, nothing lost.
5. `XorStream` and its proofs; `Container`.
6. `AtomicFolder`: the abstract specification of replacement, checked and
   proved for `Transform` (with `ReportIsTrue` and `SuccessIsDurable`) and for
   `KeyPair`.
7. `Prompt` with the theorem about the console mode.
8. `Names`: parsing, validation and derivation of names.
9. `ContainerProofs`: `DecodedInOrder` and `AcceptedIsExact`.
10. The checked writer, in `XorStream`: partial writes, count, digest and what
    `read_back` makes of them.
11. `KeyPairProofs`: `TypeOK`, `KeyHasRecipe`, `RestoredExact`,
    `KeysNeverReplaced`, `PairIsDurable`.
12. `Induction`; `PromptProofs` and `NamesProofs`: `LineAsTyped`,
    `ParsedAsSpelled`, `NamesAreSafe`, `NameComesBack`.
13. The safety halves of the liveness properties.
14. Alternate data streams on Windows: what `platform/windows.rs` counts before
    it replaces a file.
15. `ReportIsTrue` as a theorem about `KeyPair`: the two reports of `keymake`.
