-------------------------------- MODULE Folder --------------------------------
(***************************************************************************)
(* The folder xorbox works in, and what src/files.rs, src/verify.rs and    *)
(* src/platform do to it: the directory and what of it has reached the     *)
(* disk, the temporary files, the publication of a finished temporary file *)
(* under its final name (Root::publish), and the world around a command:   *)
(* the user at work in the same folder, Ctrl-C, kills, failing calls and   *)
(* power losses.  Transform and KeyPair are the commands that use it.      *)
(*                                                                         *)
(* The folder lock admits one invocation at a time (module FolderLock,     *)
(* which implements Mutex); here it is the variable self.                  *)
(***************************************************************************)
EXTENDS Naturals

CONSTANTS
    Runs,        \* invocations of xorbox; each one runs once
    NoRun,       \* the folder lock is free
    Names,       \* file names of the folder, the temporary names excepted
    Spare,       \* files the user may yet create
    NoFile,      \* a free name
    Texts,       \* whole file contents
    UserTexts,   \* the contents the user writes
    Partial,     \* what a temporary file holds before it is complete
    Torn,        \* bytes nobody meant to write: mixed, damaged or lost
    Unborn,      \* the content of a file that does not exist yet
    Given,       \* the folders to start from: what every name holds, or Unborn
    Windows,     \* platform::windows instead of platform::linux
    Faults,      \* system calls may fail and the user may press Ctrl-C
    MaxEdits,    \* bound on the number of user actions
    MaxCrashes   \* bound on the number of kills and power losses

(***************************************************************************)
(* Files (inodes).  A file present from the start is called like the name  *)
(* it starts with; an invocation creates at most two temporary files, with *)
(* random names nobody else uses.                                          *)
(***************************************************************************)
Temps == Runs \X {1, 2}
Inodes == Names \cup Spare \cup Temps
Contents == Texts \cup {Partial, Torn, Unborn}

ASSUME RunsAssumption == NoRun \notin Runs
ASSUME InodesAssumption ==
    /\ NoFile \notin Inodes
    /\ Names \cap Temps = {} /\ Spare \cap Temps = {} /\ Names \cap Spare = {}
ASSUME TextsAssumption ==
    /\ Partial \notin Texts /\ Torn \notin Texts /\ Unborn \notin Texts
    /\ UserTexts \subseteq Texts
    /\ Given \subseteq [Names -> Texts \cup {Unborn}]
ASSUME SwitchesAssumption ==
    /\ Windows \in BOOLEAN /\ Faults \in BOOLEAN
    /\ MaxEdits \in Nat /\ MaxCrashes \in Nat

VARIABLES
    entry,      \* the directory: the file every name denotes, or NoFile
    disk,       \* the part of the directory a power loss would preserve
    temps,      \* the temporary files that are in the directory
    data,       \* the content of every file
    flushed,    \* the temporary files whose content has reached the disk
    stamp,      \* what of a file's metadata changes with it (mtime, ctime)
    self,       \* the invocation that holds the folder lock, or NoRun
    stage,      \* where it is
    cancelled,  \* its flag CANCELLED, set by the Ctrl-C handler
    held,       \* the files it has open
    report,     \* what the command knows of each of its temporary files
    result,     \* how every invocation ended: its exit code
    late,       \* the user changed something since the last check (history)
    edits,      \* user actions so far
    crashes     \* kills and power losses so far

directory == <<entry, disk, temps>>
files     == <<data, flushed, stamp>>
process   == <<self, stage, cancelled, held>>
verdicts  == <<report, result>>
world     == <<late, edits, crashes>>
folder    == <<directory, files, process, verdicts, world>>

PublishStages == {"publish", "final", "links", "rename", "confirm", "sync"}
Reports == {"none", "stopped", "retained", "unverified", "occurred", "published"}
Results == {"waiting", "success", "error", "cancelled", "killed"}

FolderTypeOK(Stages) ==
    /\ entry \in [Names -> Inodes \cup {NoFile}]
    /\ disk \in [Names -> Inodes \cup {NoFile}]
    /\ temps \in SUBSET Temps
    /\ data \in [Inodes -> Contents]
    /\ flushed \in SUBSET Temps
    /\ stamp \in [Inodes -> Nat]
    /\ self \in Runs \cup {NoRun}
    /\ stage \in Stages
    /\ cancelled \in BOOLEAN
    /\ held \in SUBSET Inodes
    /\ report \in [Temps -> Reports]
    /\ result \in [Runs -> Results]
    /\ late \in BOOLEAN
    /\ edits \in Nat
    /\ crashes \in Nat

\* The folder before the first command: some names exist, with whole contents.
FolderInit ==
    /\ \E g \in Given :
        /\ entry = [n \in Names |-> IF g[n] = Unborn THEN NoFile ELSE n]
        /\ data = [i \in Inodes |-> IF i \in Names THEN g[i] ELSE Unborn]
    /\ disk = entry
    /\ temps = {}
    /\ flushed = {}
    /\ stamp = [i \in Inodes |-> 0]
    /\ self = NoRun
    /\ stage = "idle"
    /\ cancelled = FALSE
    /\ held = {}
    /\ report = [t \in Temps |-> "none"]
    /\ result = [r \in Runs |-> "waiting"]
    /\ late = FALSE
    /\ edits = 0
    /\ crashes = 0

-----------------------------------------------------------------------------
(* The invocation and the folder lock *)

At(s) == self # NoRun /\ stage = s

\* platform::links = 1: n is the only name of the file it denotes.
OneLink(i) == \E n \in Names : \A m \in Names : entry[m] = i <=> m = n

(***************************************************************************)
(* What Root::input remembers of an open file: the file and its metadata.  *)
(* text is a ghost: the content the metadata belongs to.                   *)
(***************************************************************************)
Snapshot(i) == [ino |-> i, stamp |-> stamp[i], text |-> data[i]]

\* Mutant: only the identity of the file is compared, not its metadata.
UnchangedIdentity(n, s) == entry[n] = s.ino

\* Input::unchanged of the input s opened under the name n.
Unchanged(n, s) == stamp[s.ino] = s.stamp /\ entry[n] = s.ino

\* Root::lock has succeeded; the command begins.
Enter(r) ==
    /\ self = NoRun
    /\ result[r] = "waiting"
    /\ self' = r
    /\ UNCHANGED <<directory, files, cancelled, held, verdicts, world>>

\* Root::lock finds the folder in use: the invocation ends with an error.
Refuse(r) ==
    /\ self # NoRun
    /\ r # self
    /\ result[r] = "waiting"
    /\ result' = [result EXCEPT ![r] = "error"]
    /\ UNCHANGED <<directory, files, process, report, world>>

Own(r) == {t \in temps : t[1] = r}

(***************************************************************************)
(* An error return.  The temporary files that are not to be kept are       *)
(* dropped on the way out (NamedTempFile unlinks them).                    *)
(***************************************************************************)
GiveUp(kept) ==
    /\ stage' = "leaving"
    /\ temps' = temps \ (Own(self) \ kept)
    /\ UNCHANGED <<entry, disk, files, self, cancelled, held, result, world>>

\* temp ends as rep; what else the command had in hand is dropped.
EndAs(temp, rep) ==
    report' = [t \in Temps |->
                 IF t = temp THEN rep
                 ELSE IF t[1] = self /\ report[t] = "none" THEN "stopped"
                 ELSE report[t]]

\* An error before the rename.
Abort(temp) ==
    /\ self # NoRun
    /\ GiveUp({})
    /\ EndAs(temp, "stopped")

(***************************************************************************)
(* app::run has returned and dropped the lock; main turns the result into  *)
(* the exit code, looking at the flag only now (main.rs:19-28).            *)
(***************************************************************************)
ExitCode ==
    IF stage = "done" THEN "success"
    ELSE IF cancelled THEN "cancelled" ELSE "error"

Gone(code) ==
    /\ result' = [result EXCEPT ![self] = code]
    /\ self' = NoRun
    /\ stage' = "idle"
    /\ cancelled' = FALSE
    /\ held' = {}
    /\ late' = FALSE

Leave ==
    /\ At("leaving") \/ At("done")
    /\ Gone(ExitCode)
    /\ UNCHANGED <<directory, files, report, edits, crashes>>

-----------------------------------------------------------------------------
(* Temporary files *)

\* Root::temporary: create_new under a random name; nothing is written yet.
MakeTemp(temp, next) ==
    /\ data[temp] = Unborn
    /\ temps' = temps \cup {temp}
    /\ data' = [data EXCEPT ![temp] = Partial]
    /\ held' = held \cup {temp}
    /\ stage' = next
    /\ UNCHANGED <<entry, disk, flushed, stamp, self, cancelled, verdicts, world>>

\* The last byte has gone through the CheckedWriter.
Write(temp, text, next) ==
    /\ data' = [data EXCEPT ![temp] = text]
    /\ stage' = next
    /\ UNCHANGED <<directory, flushed, stamp, self, cancelled, held, verdicts, world>>

\* Mutant: the bytes read back are not compared with the bytes written.
ReadBackUnchecked(temp, text, next) ==
    /\ ~cancelled
    /\ flushed' = flushed \cup {temp}
    /\ stage' = next
    /\ UNCHANGED <<directory, data, stamp, self, cancelled, held, verdicts, world>>

(***************************************************************************)
(* verify::read_back: sync_all, then the whole file is read and its length *)
(* and SHA3-512 compared with those of the bytes written.                  *)
(***************************************************************************)
ReadBack(temp, text, next) ==
    /\ ~cancelled
    /\ data[temp] = text
    /\ flushed' = flushed \cup {temp}
    /\ stage' = next
    /\ UNCHANGED <<directory, data, stamp, self, cancelled, held, verdicts, world>>

\* The storage does not return what was written.
Corrupt(temp) ==
    /\ Faults
    /\ data[temp] # Torn
    /\ data' = [data EXCEPT ![temp] = Torn]
    /\ UNCHANGED <<directory, flushed, stamp, process, verdicts, world>>

-----------------------------------------------------------------------------
(* Root::publish, one action per call it makes *)

\* check_cancel and sync_all of the temporary file.
SyncTemp(temp) ==
    /\ At("publish")
    /\ ~cancelled
    /\ flushed' = flushed \cup {temp}
    /\ stage' = "final"
    /\ UNCHANGED <<directory, data, stamp, self, cancelled, held, verdicts, world>>

\* In place: the input is still the file that was opened, unchanged.
FinalUnchanged(replace, target, s) ==
    /\ At("final")
    /\ replace => Unchanged(target, s)
    /\ stage' = "links"
    /\ UNCHANGED <<directory, files, self, cancelled, held, verdicts, world>>

\* Mutant: the links are not counted again before the commit.
FinalLinksUnchecked(replace, s) ==
    /\ At("links")
    /\ ~cancelled
    /\ stage' = "rename"
    /\ UNCHANGED <<directory, files, self, cancelled, held, verdicts, world>>

\* In place: it has no hard link (prepare_in_place); then check_cancel.
FinalLinks(replace, s) ==
    /\ At("links")
    /\ replace => OneLink(s.ino)
    /\ ~cancelled
    /\ stage' = "rename"
    /\ UNCHANGED <<directory, files, self, cancelled, held, verdicts, world>>

\* Mutant: a plain rename, without RENAME_NOREPLACE.
RenameClobbering(temp, target, replace) ==
    /\ At("rename")
    /\ entry' = [entry EXCEPT ![target] = temp]
    /\ temps' = temps \ {temp}
    /\ stage' = "confirm"
    /\ UNCHANGED <<disk, files, self, cancelled, held, verdicts, world>>

(***************************************************************************)
(* platform::publish: one atomic rename, which refuses an existing target  *)
(* unless the command works in place (RENAME_NOREPLACE).                   *)
(***************************************************************************)
Rename(temp, target, replace) ==
    /\ At("rename")
    /\ replace \/ entry[target] = NoFile
    /\ entry' = [entry EXCEPT ![target] = temp]
    /\ temps' = temps \ {temp}
    /\ stage' = "confirm"
    /\ UNCHANGED <<disk, files, self, cancelled, held, verdicts, world>>

\* Mutant: the completed temporary file is dropped like any other.
RenameFailsDropping(temp, target, replace) ==
    /\ At("rename")
    /\ Faults \/ (~replace /\ entry[target] # NoFile)
    /\ GiveUp({})
    /\ EndAs(temp, "retained")

\* Mutant: the target was removed to make room before the rename failed.
RenameFailsDeleted(temp, target, replace) ==
    /\ At("rename")
    /\ Faults
    /\ entry' = [entry EXCEPT ![target] = NoFile]
    /\ temps' = temps \ (Own(self) \ {temp})
    /\ stage' = "leaving"
    /\ EndAs(temp, "retained")
    /\ UNCHANGED <<disk, files, self, cancelled, held, result, world>>

\* Mutant: an error of the rename is reported like those after it.
RenameFailsUnverified(temp, target, replace) ==
    /\ At("rename")
    /\ Faults \/ (~replace /\ entry[target] # NoFile)
    /\ GiveUp({temp})
    /\ EndAs(temp, "unverified")

\* Mutant: a failed rename is tried again.
RenameFailsRetrying(temp, target, replace) ==
    /\ At("rename")
    /\ stage' = "publish"
    /\ UNCHANGED <<directory, files, self, cancelled, held, verdicts, world>>

\* The completed temporary file is kept on purpose (files.rs:198-204).
RenameFails(temp, target, replace) ==
    /\ At("rename")
    /\ Faults \/ (~replace /\ entry[target] # NoFile)
    /\ GiveUp({temp})
    /\ EndAs(temp, "retained")

\* The target is opened and compared with the temporary file's handle.
Confirm(temp, target) ==
    /\ At("confirm")
    /\ entry[target] = temp
    /\ stage' = "sync"
    /\ UNCHANGED <<directory, files, self, cancelled, held, verdicts, world>>

ConfirmFails(temp, target) ==
    /\ At("confirm")
    /\ Faults \/ entry[target] # temp
    /\ GiveUp({})
    /\ EndAs(temp, "unverified")

\* Mutant: the directory is not synchronized.
SyncFileOnly(temp, next) ==
    /\ At("sync")
    /\ flushed' = flushed \cup {temp}
    /\ stage' = next
    /\ report' = [report EXCEPT ![temp] = "published"]
    /\ held' = held \ {temp}
    /\ UNCHANGED <<directory, data, stamp, self, cancelled, result, world>>

(***************************************************************************)
(* platform::sync_publication: the file, and on Linux the directory.       *)
(* next says how the command goes on.                                      *)
(***************************************************************************)
SyncPublication(temp, next) ==
    /\ At("sync")
    /\ flushed' = flushed \cup {temp}
    /\ disk' = IF Windows THEN disk ELSE entry
    /\ stage' = next
    /\ report' = [report EXCEPT ![temp] = "published"]
    /\ held' = held \ {temp}
    /\ UNCHANGED <<entry, temps, data, stamp, self, cancelled, result, world>>

SyncPublicationFails(temp) ==
    /\ At("sync")
    /\ Faults
    /\ GiveUp({})
    /\ EndAs(temp, "occurred")

-----------------------------------------------------------------------------
(* The world around the command *)

\* The Ctrl-C handler; the command notices when it looks at the flag.
Interrupt ==
    /\ Faults
    /\ self # NoRun
    /\ ~cancelled
    /\ cancelled' = TRUE
    /\ UNCHANGED <<directory, files, self, stage, held, verdicts, world>>

\* The process dies: its lock and handles go, its temporary files stay.
Kill ==
    /\ self # NoRun
    /\ crashes < MaxCrashes
    /\ crashes' = crashes + 1
    /\ Gone("killed")
    /\ UNCHANGED <<directory, files, report, edits>>

\* The kernel writes a directory entry to the disk in its own time.
WriteBack(n) ==
    /\ disk[n] # entry[n]
    /\ disk' = [disk EXCEPT ![n] = entry[n]]
    /\ UNCHANGED <<entry, temps, files, process, verdicts, world>>

(***************************************************************************)
(* The directory falls back to what was on the disk, a temporary file that *)
(* was not synchronized may hold anything, and any temporary name that was *)
(* ever in the directory and is not published may be there again.          *)
(***************************************************************************)
PowerLoss ==
    /\ crashes < MaxCrashes
    /\ crashes' = crashes + 1
    /\ entry' = disk
    /\ \E back \in SUBSET {t \in Temps : /\ data[t] # Unborn
                                         /\ \A n \in Names : disk[n] # t} :
          temps' = back
    /\ data' = [i \in Inodes |->
                  IF i \in Temps \ flushed /\ data[i] # Unborn THEN Torn ELSE data[i]]
    /\ result' = [r \in Runs |-> IF r = self THEN "killed" ELSE result[r]]
    /\ self' = NoRun
    /\ stage' = "idle"
    /\ cancelled' = FALSE
    /\ held' = {}
    /\ late' = FALSE
    /\ UNCHANGED <<disk, flushed, stamp, report, edits>>

(***************************************************************************)
(* The user.  What the user does is on the disk at once.  A user action    *)
(* between the last look at the input and the rename is one the command    *)
(* cannot notice: late remembers it.                                       *)
(***************************************************************************)
UserActs ==
    /\ edits < MaxEdits
    /\ edits' = edits + 1
    /\ late' = (late \/ stage \in {"links", "rename"})
    /\ UNCHANGED <<temps, flushed, process, verdicts, crashes>>

\* Linux updates the ctime of a file that gains or loses a name.
Touch(i) ==
    stamp' = IF i = NoFile \/ Windows THEN stamp
             ELSE [stamp EXCEPT ![i] = @ + 1]

Denote(n, i) ==
    /\ entry' = [entry EXCEPT ![n] = i]
    /\ disk' = [disk EXCEPT ![n] = i]

(***************************************************************************)
(* Writing into an existing file.  Windows refuses it while the command    *)
(* has the file open (share mode without FILE_SHARE_WRITE).                *)
(***************************************************************************)
UserEdit(n, t) ==
    /\ entry[n] # NoFile
    /\ ~(Windows /\ entry[n] \in held)
    /\ data' = [data EXCEPT ![entry[n]] = t]
    /\ stamp' = [stamp EXCEPT ![entry[n]] = @ + 1]
    /\ UserActs
    /\ UNCHANGED <<entry, disk>>

\* Saving a new file under a name, free or not (an editor's atomic save).
UserPut(n, i, t) ==
    /\ data[i] = Unborn
    /\ data' = [data EXCEPT ![i] = t]
    /\ Denote(n, i)
    /\ Touch(entry[n])
    /\ UserActs

UserRemove(n) ==
    /\ entry[n] # NoFile
    /\ Denote(n, NoFile)
    /\ Touch(entry[n])
    /\ UserActs
    /\ UNCHANGED data

UserLink(n, m) ==
    /\ entry[n] # NoFile
    /\ entry[m] = NoFile
    /\ Denote(m, entry[n])
    /\ Touch(entry[n])
    /\ UserActs
    /\ UNCHANGED data

User ==
    \/ \E n \in Names, t \in UserTexts : UserEdit(n, t)
    \/ \E n \in Names, i \in Spare, t \in UserTexts : UserPut(n, i, t)
    \/ \E n \in Names : UserRemove(n)
    \/ \E n, m \in Names : UserLink(n, m)

-----------------------------------------------------------------------------
(* What the commands have in common *)

(***************************************************************************)
(* No name ever shows a half-written, mixed or damaged file, now or after  *)
(* a power loss: what is under a user-visible name is always a whole       *)
(* content (files.rs:179-216, README "complete old file to the complete    *)
(* new file").                                                             *)
(***************************************************************************)
WholeFiles == \A n \in Names : entry[n] # NoFile => data[entry[n]] \in Texts

(***************************************************************************)
(* A command that exits with 0 has its output on the disk: the power loss  *)
(* that follows cannot undo it (Linux: files.rs:213, linux.rs:93-100).     *)
(***************************************************************************)
SuccessIsDurable ==
    \A n \in Names, t \in Temps :
        entry[n] = t /\ result[t[1]] = "success" /\ ~Windows =>
            disk[n] = t /\ t \in flushed

\* By its report, a temporary file has got a name.
Written(t) == IF report[t] \in {"unverified", "occurred", "published"} THEN 1 ELSE 0

(***************************************************************************)
(* What a command says of each file is true, whichever call of publish has *)
(* failed (files.rs:185-214): of one whose publication was not reached     *)
(* nothing is left, neither under a name nor as a temporary file; one      *)
(* reported as retained is there, complete and on the disk; one reported   *)
(* as published, or as replaced with its target not verified or the last   *)
(* synchronization failed, is no temporary file any more, complete and on  *)
(* the disk, and until the command ends it has its name, unless the user   *)
(* has been there.                                                         *)
(***************************************************************************)
ReportIsTrue ==
    \A t \in Temps :
        /\ report[t] = "stopped" =>
              /\ \A n \in Names : entry[n] # t
              /\ crashes = 0 => t \notin temps
        /\ report[t] = "retained" =>
              /\ data[t] \in Texts /\ t \in flushed
              /\ crashes = 0 => t \in temps
        /\ Written(t) = 1 =>
              /\ data[t] \in Texts /\ t \in flushed
              /\ crashes = 0 => t \notin temps
              /\ t[1] = self /\ edits = 0 => \E n \in Names : entry[n] = t

(***************************************************************************)
(* What the owner of the folder sees of all this (module AtomicFolder):    *)
(* what names hold, what they would hold after a power loss, and how many  *)
(* names the running command has written.                                  *)
(***************************************************************************)
Content(i) == IF i = NoFile THEN Unborn ELSE data[i]
Shown == [n \in Names |-> Content(entry[n])]
Safe == [n \in Names |-> Content(disk[n])]

Wrote ==
    IF self = NoRun THEN 0
    ELSE Written(<<self, 1>>) + Written(<<self, 2>>)
           + (IF stage \in {"confirm", "sync"} THEN 1 ELSE 0)
=============================================================================
