------------------------------ MODULE FixFiles ------------------------------
(***************************************************************************)
(* LuaFlipperDownload's two jobs on the disk: Install puts the manifests   *)
(* and Lua files of a downloaded pack into Steam's directories, Apply      *)
(* unpacks a fix over a game and keeps a copy of what the game shipped.    *)
(*                                                                         *)
(* Jobs run one at a time, under the API's lock.  The process can die      *)
(* between any two file system calls, and any of them can fail.            *)
(***************************************************************************)
EXTENDS FixArchive

CONSTANTS
  GameNames,    \* files of a game's folder, ...
  Shipped,      \* ... those the game came with
  PackNames,    \* names a pack installs under
  Fixes,        \* archives of fixes, sequences of entries
  Packs,        \* archives of packs
  Original,     \* what the game shipped under a name
  Cut,          \* the start of a file, and no more
  Absent

ASSUME FilesAssumption ==
  /\ Shipped \subseteq GameNames /\ GameNames \cap PackNames = {}
  /\ Cut # Absent /\ Original \notin {Cut, Absent}
  /\ \A archive \in Fixes \cup Packs : archive \in Seq(ToSet(archive))
  /\ \A fix \in Fixes : \A e \in ToSet(fix) : e.name \in GameNames
  /\ \A pack \in Packs : \A e \in ToSet(pack) : e.name \in PackNames

VARIABLES
  download,    \* the archive in the fixes directory; none, or one cut short, is <<>>
  file,     \* what is under each name
  bak,      \* what is under each name with .sfbak appended
  job,      \* the running job, NoJob if none
  cutCopy   \* history: names whose copy was cut short by a crash or an error

files == <<download, file, bak, job, cutCopy>>

NoJob == [kind |-> "none"]
NewJob(kind, archive) ==
  [kind |-> kind, archive |-> archive, left |-> archive, step |-> "entry",
   applied |-> <<>>, rejected |-> 0, locked |-> 0]

FilesInit ==
  /\ download = <<>>
  /\ file = [n \in GameNames \cup PackNames |-> IF n \in Shipped THEN Original ELSE Absent]
  /\ bak = [n \in GameNames |-> Absent]
  /\ job = NoJob /\ cutCopy = {}

(* Whether Install gets an archive from a source.                          *)
Fetched(source, token, key, reply) ==
  reply = 200 /\ InstallGate(source, token, key, "available") = "fetch"

(* What becomes of an entry before it is written.  "corrupt" stands for    *)
(* implausible and mismatched sizes, bad headers, unknown methods, data    *)
(* that does not inflate and a wrong checksum.                             *)
Verdict(kind, e) ==
  CASE e.shape = "directory"                      -> "skip"
    [] e.shape = "escaping"                       -> "reject"
    [] e.shape = "foreign" /\ kind = "install"    -> "skip"
    [] e.shape = "encrypted" /\ kind = "apply"    -> "lock"
    [] e.shape \in {"encrypted", "corrupt"}       -> "reject"
    [] OTHER                                      -> "write"

Entry  == Head(job.left)
Name   == Entry.name
At(step) == job.kind # "none" /\ job.left # <<>> /\ job.step = step
Ready  == At("entry") /\ Verdict(job.kind, Entry) = "write"
Step(s) == [job EXCEPT !.step = s]
Rejected == [job EXCEPT !.left = Tail(@), !.step = "entry", !.rejected = @ + 1]

(* JsonFixDownload, with a session: an archive that was written whole, or   *)
(* the start of one, which its reply does not tell apart.                  *)
DownloadFix ==
  /\ job = NoJob
  /\ \E a \in Fixes \cup {<<>>} : download' = a
  /\ UNCHANGED <<file, bak, job, cutCopy>>

(* JsonFixApply: the archive is there and readable, which one cut short is *)
(* not, and the game is in one of the libraries.                           *)
StartApply ==
  /\ job = NoJob /\ download # <<>>
  /\ \E acf, dirs \in SUBSET {"root", "other"} :
       GameDir(Libraries("root", <<"other", "root">>), acf, dirs) # <<>>
  /\ job' = NewJob("apply", download)
  /\ UNCHANGED <<download, file, bak, cutCopy>>

StartInstall ==
  /\ job = NoJob
  /\ \E a \in Packs, source \in {"Ryuu", "Luie", "Hubcap", "typo"},
        token \in BOOLEAN, key \in {"none", "typo", "shaped"}, reply \in {200, 401, 404} :
       Fetched(source, token, key, reply) /\ job' = NewJob("install", a)
  /\ UNCHANGED <<download, file, bak, cutCopy>>

(* An entry that is not written.                                           *)
PassOver ==
  /\ At("entry")
  /\ LET v == Verdict(job.kind, Entry)
     IN /\ v # "write"
        /\ job' = [job EXCEPT !.left = Tail(@),
                              !.rejected = IF v = "reject" THEN @ + 1 ELSE @,
                              !.locked   = IF v = "lock" THEN @ + 1 ELSE @]
  /\ UNCHANGED <<download, file, bak, cutCopy>>

NeedsBackup == job.kind = "apply" /\ file[Name] # Absent /\ bak[Name] = Absent

NoBackup ==
  /\ Ready /\ ~NeedsBackup
  /\ job' = Step("write")
  /\ UNCHANGED <<download, file, bak, cutCopy>>

(* Mutant: every apply backs up what it replaces.                          *)
NeedsBackupAlways == job.kind = "apply" /\ file[Name] # Absent
CopyBeginsAlways ==
  /\ Ready /\ NeedsBackupAlways
  /\ bak' = [bak EXCEPT ![Name] = Cut]
  /\ job' = Step("copy")
  /\ UNCHANGED <<download, file, cutCopy>>

(* copy_file creates the copy and fills it; a crash or a full disk leaves  *)
(* it short, and the error is not looked at.                               *)
CopyBegins ==
  /\ Ready /\ NeedsBackup
  /\ bak' = [bak EXCEPT ![Name] = Cut]
  /\ job' = Step("copy")
  /\ UNCHANGED <<download, file, cutCopy>>

CopyEnds ==
  /\ At("copy")
  /\ bak' = [bak EXCEPT ![Name] = file[Name]]
  /\ job' = Step("write")
  /\ UNCHANGED <<download, file, cutCopy>>

CopyFails ==
  /\ At("copy")
  /\ \E left \in {Cut, Absent} : bak' = [bak EXCEPT ![Name] = left]
  /\ cutCopy' = cutCopy \cup {Name}
  /\ job' = Step("write")
  /\ UNCHANGED <<download, file>>

(* WriteAtomic: a temporary file in the same directory is written and      *)
(* flushed, then renamed over the name.  One left by a crash is never read.*)
WriteTemp ==
  /\ At("write")
  /\ job' = Step("publish")
  /\ UNCHANGED <<download, file, bak, cutCopy>>

(* Mutant: a write that failed is passed over in silence.                  *)
WriteFailsUncounted ==
  /\ At("write") \/ At("publish")
  /\ job' = [job EXCEPT !.left = Tail(@), !.step = "entry"]
  /\ UNCHANGED <<download, file, bak, cutCopy>>

(* mkstemp, write, fsync or rename fails; the temporary file is unlinked.  *)
WriteFails ==
  /\ At("write") \/ At("publish")
  /\ job' = Rejected
  /\ UNCHANGED <<download, file, bak, cutCopy>>

Publish ==
  /\ At("publish")
  /\ file' = [file EXCEPT ![Name] = Entry.bytes]
  /\ job' = [job EXCEPT !.left = Tail(@), !.step = "entry",
                        !.applied = Append(@, Entry)]
  /\ UNCHANGED <<download, bak, cutCopy>>

(* The answer: ok if anything was written, or why nothing was.             *)
Finish ==
  /\ job.kind # "none" /\ job.left = <<>>
  /\ job' = NoJob
  /\ UNCHANGED <<download, file, bak, cutCopy>>

ProcessDies ==
  /\ job # NoJob
  /\ cutCopy' = IF At("copy") THEN cutCopy \cup {Name} ELSE cutCopy
  /\ job' = NoJob
  /\ UNCHANGED <<download, file, bak>>

(* Steam verifies the game and puts what it shipped back.                  *)
VerifyGame ==
  /\ job = NoJob
  /\ file' = [n \in DOMAIN file |-> IF n \in Shipped THEN Original ELSE file[n]]
  /\ UNCHANGED <<download, bak, job, cutCopy>>

FilesNext ==
  \/ DownloadFix \/ StartApply \/ StartInstall \/ PassOver \/ NoBackup
  \/ CopyBegins \/ CopyEnds \/ CopyFails
  \/ WriteTemp \/ WriteFails \/ Publish \/ Finish
  \/ ProcessDies \/ VerifyGame

FilesSpec == FilesInit /\ [][FilesNext]_files

-----------------------------------------------------------------------------
Entries  == UNION {ToSet(a) : a \in Fixes \cup Packs}
Contents == {Original, Absent} \cup {e.bytes : e \in Entries}
Steps    == {"entry", "copy", "write", "publish"}

JobOK ==
  /\ job.kind \in {"apply", "install"} /\ job.step \in Steps
  /\ job.archive \in IF job.kind = "apply" THEN Fixes ELSE Packs
  /\ IsSuffix(job.left, job.archive)
  /\ ToSet(job.applied) \subseteq Entries
  /\ job.rejected \in Nat /\ job.locked \in Nat

(* Types, and with them what WriteAtomic is for: a name's file is always a *)
(* whole one, old or new, at every crash and every failed write.           *)
NamesAreWhole ==
  /\ download \in Fixes \cup {<<>>}
  /\ file \in [GameNames \cup PackNames -> Contents]
  /\ bak \in [GameNames -> Contents \cup {Cut}]
  /\ cutCopy \subseteq GameNames
  /\ job # NoJob => JobOK

(* However many fixes are applied, what the game shipped under a name is   *)
(* still there or in the copy beside it, unless that copy was cut short:   *)
(* "applying a second fix cannot overwrite the copy of what the game       *)
(* shipped" (Apply, LuaFlipperDownload.cpp:932).                           *)
ShippedSurvives ==
  \A n \in Shipped \ cutCopy : Original \in {file[n], bak[n]}

(* The stronger form, which does not hold: a file only a fix brought is    *)
(* backed up by the next fix as if the game had shipped it.                *)
BackupIsShipped == \A n \in GameNames \ cutCopy : bak[n] # Absent => n \in Shipped

(* The entries a job is through with, and those of them it passed over.    *)
Through == Len(job.archive) - Len(job.left)
Skipped == {k \in 1 .. Through : Verdict(job.kind, job.archive[k]) = "skip"}
LastOfItsName(i) ==
  \A j \in DOMAIN job.applied : j > i => job.applied[j].name # job.applied[i].name

(* What a job reports is what happened: each name it has applied holds the *)
(* bytes of the last entry with that name, and every entry it is through   *)
(* with was applied, rejected, locked or none of the job's business.       *)
AnswerIsTrue ==
  job # NoJob =>
    /\ Len(job.applied) + job.rejected + job.locked + Cardinality(Skipped) = Through
    /\ \A i \in DOMAIN job.applied :
         LastOfItsName(i) => file[job.applied[i].name] = job.applied[i].bytes

=============================================================================
