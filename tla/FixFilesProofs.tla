--------------------------- MODULE FixFilesProofs ---------------------------
(***************************************************************************)
(* For any fixes, packs and games, and for a process that dies anywhere:   *)
(* what a game shipped is not lost to the fixes applied over it.  And for  *)
(* archives, lists of sources and documents of any length: a download that *)
(* is cut installs nothing, no source is lost or listed twice, and a key   *)
(* is its own depot's.                                                     *)
(*                                                                         *)
(* ShippedSurvives is not inductive.  What makes it so is what the copy of *)
(* a shipped file can be, what it is by the time the file is written, and  *)
(* that a pack writes none of a game's files.                              *)
(***************************************************************************)
EXTENDS FixFiles, FixCases, Induction, FunctionTheorems, FiniteSetTheorems

PackEntries == UNION {ToSet(pack) : pack \in Packs}

Jobs == [kind : {"apply", "install"}, archive : Fixes \cup Packs, left : Seq(Entries),
         step : Steps, applied : Seq(Entries), rejected : Nat, locked : Nat]

JobShaped ==
  job.kind # "none" =>
    /\ job \in Jobs
    /\ job.kind = "install" => job.left \in Seq(PackEntries)
    /\ job.step = "copy" => job.kind = "apply"

DownloadIs == download \in Fixes \cup {<<>>}

NamesFixed ==
  /\ file = [n \in GameNames \cup PackNames |-> file[n]]
  /\ bak = [n \in GameNames |-> bak[n]]

(* The copy of a shipped file is missing or whole, but for one being made, *)
(* whose file is still as it was shipped.                                  *)
CopyIsWhole(n) ==
  IF At("copy") /\ Name = n THEN file[n] = Original ELSE bak[n] \in {Absent, Original}

(* No fix is written over a shipped file that has no copy.                 *)
CopyIsFirst(n) ==
  job.kind = "apply" /\ (At("write") \/ At("publish")) /\ Name = n => bak[n] = Original

CopiesServe ==
  \A n \in Shipped \ cutCopy : CopyIsWhole(n) /\ CopyIsFirst(n)

CopyInv == JobShaped /\ NamesFixed /\ CopiesServe /\ ShippedSurvives
FInv == DownloadIs /\ CopyInv

LEMMA InitFInv == FilesInit => FInv
<1> SUFFICES ASSUME FilesInit PROVE FInv
  OBVIOUS
<1>1. job.kind = "none"
  BY DEF FilesInit, NoJob
<1>2. \A n \in Shipped : file[n] = Original /\ bak[n] = Absent
  BY FilesAssumption DEF FilesInit
<1>3. NamesFixed
  BY DEF FilesInit, NamesFixed
<1> QED
  BY <1>1, <1>2, <1>3
  DEF FInv, CopyInv, DownloadIs, JobShaped, CopiesServe, CopyIsWhole, CopyIsFirst, At,
      ShippedSurvives, FilesInit

(* An installed entry is none of the game's files.                         *)
LEMMA PacksKeepOut ==
  ASSUME FInv, job.kind = "install", job.left # <<>>
  PROVE  Name \notin Shipped
<1>1. job.left \in Seq(PackEntries) /\ job.left # <<>>
  BY DEF FInv, CopyInv, JobShaped
<1>2. Head(job.left) \in PackEntries
  BY <1>1
<1> QED
  BY <1>2, FilesAssumption DEF PackEntries, Name, Entry

(* Moving the job on keeps its shape.                                      *)
LEMMA JobStepsOn ==
  ASSUME FInv, job.kind # "none", NEW s \in Steps, job' = Step(s),
         s = "copy" => job.kind = "apply"
  PROVE  /\ job' \in Jobs /\ JobShaped'
         /\ job'.step = s /\ job'.kind = job.kind /\ job'.left = job.left
<1>1. job \in Jobs
  BY DEF FInv, CopyInv, JobShaped
<1>2. job' \in Jobs /\ job'.step = s /\ job'.kind = job.kind /\ job'.left = job.left
  BY <1>1 DEF Step, Jobs
<1> QED
  BY <1>2 DEF FInv, CopyInv, JobShaped

LEMMA JobIs ==
  ASSUME FInv, job.kind # "none"
  PROVE  job \in Jobs
BY DEF FInv, CopyInv, JobShaped

LEMMA EntryIs ==
  ASSUME FInv, job.kind # "none", job.left # <<>>
  PROVE  job \in Jobs /\ Entry \in Entries /\ Tail(job.left) \in Seq(Entries)
BY JobIs DEF Jobs, Entry

(* One field of a job changed is a job.                                    *)
LEMMA JobChanges ==
  ASSUME NEW j \in Jobs
  PROVE  /\ \A left \in Seq(Entries) : [j EXCEPT !.left = left] \in Jobs
         /\ \A applied \in Seq(Entries) : [j EXCEPT !.applied = applied] \in Jobs
         /\ [j EXCEPT !.step = "entry"] \in Jobs
         /\ \A n \in Nat : [j EXCEPT !.rejected = n] \in Jobs
         /\ \A n \in Nat : [j EXCEPT !.locked = n] \in Jobs
<1>1. \A left \in Seq(Entries) : [j EXCEPT !.left = left] \in Jobs
  BY DEF Jobs
<1>2. \A applied \in Seq(Entries) : [j EXCEPT !.applied = applied] \in Jobs
  BY DEF Jobs
<1>3. [j EXCEPT !.step = "entry"] \in Jobs
  BY DEF Jobs, Steps
<1>4. \A n \in Nat : [j EXCEPT !.rejected = n] \in Jobs
  BY DEF Jobs
<1>5. \A n \in Nat : [j EXCEPT !.locked = n] \in Jobs
  BY DEF Jobs
<1> QED
  BY <1>1, <1>2, <1>3, <1>4, <1>5

(* A rejected or passed over entry is gone, and so is an applied one.      *)
LEMMA JobAdvances ==
  ASSUME FInv, job.kind # "none", job.left # <<>>
  PROVE  /\ \A r, l \in Nat : [job EXCEPT !.left = Tail(@), !.rejected = r, !.locked = l] \in Jobs
         /\ \A r \in Nat : [job EXCEPT !.left = Tail(@), !.step = "entry", !.rejected = r] \in Jobs
         /\ \A done \in Seq(Entries) :
              [job EXCEPT !.left = Tail(@), !.step = "entry", !.applied = done] \in Jobs
<1>1. job \in Jobs /\ Tail(job.left) \in Seq(Entries)
  BY EntryIs
<1>2. [job EXCEPT !.left = Tail(@)] \in Jobs
  BY <1>1, JobChanges
<1>3. \A r \in Nat : [job EXCEPT !.left = Tail(@), !.rejected = r] \in Jobs
  BY <1>2, JobChanges
<1>4. [job EXCEPT !.left = Tail(@), !.step = "entry"] \in Jobs
  BY <1>2, JobChanges
<1> QED
  BY <1>3, <1>4, JobChanges

LEMMA JobMovesOn ==
  ASSUME FInv, job.kind # "none", job.left # <<>>, job' \in Jobs,
         job'.kind = job.kind, job'.left = Tail(job.left), job'.step = "entry"
  PROVE  JobShaped'
BY DEF FInv, CopyInv, JobShaped

LEMMA StartFInv ==
  ASSUME FInv, StartApply \/ StartInstall
  PROVE  CopyInv'
<1>1. UNCHANGED <<file, bak, cutCopy>>
  BY DEF StartApply, StartInstall
<1>2. /\ job'.step = "entry"
      /\ JobShaped'
  <2>1. CASE StartApply
    <3>1. download \in Seq(Entries)
      <4>1. download \in Fixes
        BY <2>1 DEF StartApply, FInv, CopyInv, DownloadIs
      <4>2. download \in Seq(ToSet(download)) /\ ToSet(download) \subseteq Entries
        BY <4>1, FilesAssumption DEF Entries
      <4> QED
        BY <4>2
    <3> QED
      BY <2>1, <3>1 DEF StartApply, NewJob, JobShaped, Jobs, Steps, FInv, CopyInv, DownloadIs
  <2>2. CASE StartInstall
    <3>1. PICK pack \in Packs : job' = NewJob("install", pack)
      BY <2>2 DEF StartInstall
    <3>2. /\ pack \in Seq(ToSet(pack))
          /\ ToSet(pack) \subseteq PackEntries /\ ToSet(pack) \subseteq Entries
      BY FilesAssumption DEF PackEntries, Entries
    <3>3. pack \in Seq(PackEntries) /\ pack \in Seq(Entries)
      BY <3>2
    <3>4. job' \in Jobs /\ job'.step = "entry" /\ job'.left = pack
      BY <3>1, <3>3 DEF NewJob, Jobs, Steps
    <3> QED
      BY <3>3, <3>4 DEF JobShaped
  <2> QED
    BY <2>1, <2>2
<1>3. \A n \in Shipped \ cutCopy : bak[n] \in {Absent, Original}
  BY DEF FInv, CopyInv, CopiesServe, CopyIsWhole, At, StartApply, StartInstall, NoJob
<1> QED
  BY <1>1, <1>2, <1>3 DEF FInv, CopyInv, NamesFixed, CopiesServe, CopyIsWhole, CopyIsFirst, At, ShippedSurvives

LEMMA PassOverFInv ==
  ASSUME FInv, PassOver
  PROVE  CopyInv'
<1>1. /\ job.kind # "none" /\ job.left # <<>> /\ job.step = "entry"
      /\ UNCHANGED <<file, bak, cutCopy>>
  BY DEF PassOver, At
<1>2. /\ job'.step = "entry"
      /\ JobShaped'
  <2>1. /\ job' \in Jobs
        /\ job'.kind = job.kind /\ job'.left = Tail(job.left) /\ job'.step = "entry"
    <3>1. job \in Jobs /\ Tail(job.left) \in Seq(Entries)
      BY <1>1, EntryIs
    <3>2. job' \in Jobs
      <4> DEFINE r == IF Verdict(job.kind, Entry) = "reject" THEN job.rejected + 1 ELSE job.rejected
                 l == IF Verdict(job.kind, Entry) = "lock" THEN job.locked + 1 ELSE job.locked
      <4>1. r \in Nat /\ l \in Nat
        BY <3>1 DEF Jobs
      <4>2. job' = [job EXCEPT !.left = Tail(@), !.rejected = r, !.locked = l]
        BY DEF PassOver
      <4> QED
        BY <1>1, <4>1, <4>2, JobAdvances
    <3>3. job'.kind = job.kind /\ job'.left = Tail(job.left) /\ job'.step = "entry"
      BY <1>1, <3>1 DEF PassOver, Jobs
    <3> QED
      BY <3>2, <3>3
  <2> QED
    BY <1>1, <2>1, JobMovesOn
<1> QED
  BY <1>1, <1>2 DEF FInv, CopyInv, NamesFixed, CopiesServe, CopyIsWhole, CopyIsFirst, At, ShippedSurvives

LEMMA NoBackupFInv ==
  ASSUME FInv, NoBackup
  PROVE  CopyInv'
<1>1. /\ job.kind # "none" /\ job.left # <<>> /\ job.step = "entry"
      /\ UNCHANGED <<file, bak, cutCopy>>
      /\ job' = Step("write")
  BY DEF NoBackup, Ready, At
<1>2. /\ job'.step = "write" /\ job'.kind = job.kind /\ job'.left = job.left
      /\ JobShaped'
  BY <1>1, JobStepsOn DEF Steps
<1>3. ASSUME NEW n \in Shipped \ cutCopy, job.kind = "apply", Name = n
      PROVE  bak[n] = Original
  <2>1. file[n] = Absent \/ bak[n] # Absent
    BY <1>3 DEF NoBackup, NeedsBackup
  <2>2. bak[n] \in {Absent, Original}
    BY <1>1 DEF FInv, CopyInv, CopiesServe, CopyIsWhole, At
  <2> QED
    BY <2>1, <2>2, FilesAssumption DEF FInv, CopyInv, ShippedSurvives
<1> QED
  BY <1>1, <1>2, <1>3
  DEF FInv, CopyInv, NamesFixed, CopiesServe, CopyIsWhole, CopyIsFirst, At, Name, Entry, ShippedSurvives

LEMMA CopyBeginsFInv ==
  ASSUME FInv, CopyBegins
  PROVE  CopyInv'
<1>1. /\ job.kind = "apply" /\ job.left # <<>> /\ job.step = "entry"
      /\ UNCHANGED <<file, cutCopy>>
      /\ job' = Step("copy")
      /\ bak' = [bak EXCEPT ![Name] = Cut]
      /\ bak[Name] = Absent
  BY DEF CopyBegins, Ready, At, NeedsBackup
<1>2. /\ job'.step = "copy" /\ job'.kind = job.kind /\ job'.left = job.left
      /\ JobShaped'
  BY <1>1, JobStepsOn DEF Steps
<1>3. NamesFixed'
  BY <1>1 DEF FInv, CopyInv, NamesFixed
<1>4. \A n \in Shipped \ cutCopy : bak'[n] = IF n = Name THEN Cut ELSE bak[n]
  BY <1>1, FilesAssumption DEF FInv, CopyInv, NamesFixed
<1>5. Name' = Name /\ At("copy")'
  BY <1>1, <1>2 DEF Name, Entry, At
<1>6. CopiesServe'
  BY <1>1, <1>2, <1>4, <1>5, FilesAssumption
  DEF FInv, CopyInv, CopiesServe, CopyIsWhole, CopyIsFirst, ShippedSurvives, At
<1>7. ShippedSurvives'
  BY <1>1, <1>4, FilesAssumption DEF FInv, CopyInv, ShippedSurvives
<1> QED
  BY <1>2, <1>3, <1>6, <1>7 DEF FInv, CopyInv

LEMMA CopyEndsFInv ==
  ASSUME FInv, CopyEnds \/ CopyFails
  PROVE  CopyInv'
<1>1. /\ job.kind = "apply" /\ job.left # <<>> /\ job.step = "copy"
      /\ file' = file
      /\ job' = Step("write")
  BY DEF FInv, CopyInv, JobShaped, CopyEnds, CopyFails, At
<1>2. /\ job'.step = "write" /\ job'.kind = job.kind /\ job'.left = job.left
      /\ Name' = Name
      /\ JobShaped'
  BY <1>1, JobStepsOn DEF Steps, Name, Entry
<1>3. NamesFixed'
  <2>1. \E c : bak' = [bak EXCEPT ![Name] = c]
    BY DEF CopyEnds, CopyFails
  <2> QED
    BY <1>1, <2>1 DEF FInv, CopyInv, NamesFixed
<1>4. ASSUME NEW n \in (Shipped \ cutCopy)'
      PROVE  /\ n \in Shipped \ cutCopy
             /\ bak'[n] = IF n = Name THEN Original ELSE bak[n]
  <2>1. n \in Shipped \ cutCopy /\ n \in GameNames
    BY <1>4, FilesAssumption DEF CopyEnds, CopyFails
  <2>2. CASE n = Name
    <3>1. bak' = [bak EXCEPT ![Name] = file[Name]]
      BY <1>4, <2>2 DEF CopyEnds, CopyFails
    <3>2. file[n] = Original
      BY <1>1, <2>1, <2>2 DEF FInv, CopyInv, CopiesServe, CopyIsWhole, At
    <3> QED
      BY <2>1, <2>2, <3>1, <3>2 DEF FInv, CopyInv, NamesFixed
  <2>3. CASE n # Name
    BY <2>1, <2>3 DEF CopyEnds, CopyFails, FInv, CopyInv, NamesFixed
  <2> QED
    BY <2>1, <2>2, <2>3
<1>5. CopiesServe' /\ ShippedSurvives'
  BY <1>1, <1>2, <1>4
  DEF FInv, CopyInv, CopiesServe, CopyIsWhole, CopyIsFirst, At, ShippedSurvives
<1> QED
  BY <1>2, <1>3, <1>5 DEF FInv, CopyInv

LEMMA WriteFInv ==
  ASSUME FInv, WriteTemp \/ WriteFails
  PROVE  CopyInv'
<1>1. /\ job.kind # "none" /\ job.left # <<>> /\ job.step \in {"write", "publish"}
      /\ UNCHANGED <<file, bak, cutCopy>>
  BY DEF WriteTemp, WriteFails, At
<1>2. CASE WriteTemp
  <2>1. /\ job' = Step("publish") /\ At("write")
    BY <1>2 DEF WriteTemp
  <2>2. /\ job'.step = "publish" /\ job'.kind = job.kind /\ job'.left = job.left
        /\ Name' = Name
        /\ JobShaped'
    BY <1>1, <2>1, JobStepsOn DEF Steps, Name, Entry
  <2> QED
    BY <1>1, <2>1, <2>2
    DEF FInv, CopyInv, NamesFixed, CopiesServe, CopyIsWhole, CopyIsFirst, At, ShippedSurvives
<1>3. CASE WriteFails
  <2>1. /\ job' \in Jobs
        /\ job'.kind = job.kind /\ job'.left = Tail(job.left) /\ job'.step = "entry"
    <3>1. job \in Jobs /\ Tail(job.left) \in Seq(Entries)
      BY <1>1, EntryIs
    <3>2. job' = [job EXCEPT !.left = Tail(@), !.step = "entry", !.rejected = job.rejected + 1]
      BY <1>3 DEF WriteFails, Rejected
    <3>3. job.rejected + 1 \in Nat
      BY <3>1 DEF Jobs
    <3>4. job' \in Jobs
      BY <1>1, <3>2, <3>3, JobAdvances
    <3> QED
      BY <3>1, <3>2, <3>4 DEF Jobs
  <2>2. JobShaped'
    BY <1>1, <2>1, JobMovesOn
  <2> QED
    BY <1>1, <2>1, <2>2
    DEF FInv, CopyInv, NamesFixed, CopiesServe, CopyIsWhole, CopyIsFirst, At, ShippedSurvives
<1> QED
  BY <1>2, <1>3

LEMMA PublishFInv ==
  ASSUME FInv, Publish
  PROVE  CopyInv'
<1>1. /\ job.kind # "none" /\ job.left # <<>> /\ job.step = "publish"
      /\ UNCHANGED <<bak, cutCopy>>
      /\ file' = [file EXCEPT ![Name] = Entry.bytes]
  BY DEF Publish, At
<1>2. /\ job' \in Jobs
      /\ job'.kind = job.kind /\ job'.left = Tail(job.left) /\ job'.step = "entry"
  <2>1. job \in Jobs /\ Entry \in Entries /\ Tail(job.left) \in Seq(Entries)
    BY <1>1, EntryIs
  <2>2. job' = [job EXCEPT !.left = Tail(@), !.step = "entry",
                           !.applied = Append(job.applied, Entry)]
    BY DEF Publish
  <2>3. Append(job.applied, Entry) \in Seq(Entries)
    BY <2>1 DEF Jobs
  <2>4. job' \in Jobs
    BY <1>1, <2>2, <2>3, JobAdvances
  <2> QED
    BY <2>1, <2>2, <2>4 DEF Jobs
<1>3. JobShaped'
  BY <1>1, <1>2, JobMovesOn
<1>4. NamesFixed'
  BY <1>1 DEF FInv, CopyInv, NamesFixed
<1>5. CopiesServe'
  BY <1>1, <1>2 DEF FInv, CopyInv, CopiesServe, CopyIsWhole, CopyIsFirst, At
<1>6. ASSUME NEW n \in Shipped \ cutCopy
      PROVE  Original \in {file'[n], bak[n]}
  <2>1. CASE n = Name
    <3>1. job.kind = "apply"
      BY <1>1, <1>6, <2>1, PacksKeepOut, JobIs DEF Jobs
    <3> QED
      BY <1>1, <1>6, <2>1, <3>1 DEF FInv, CopyInv, CopiesServe, CopyIsFirst, At
  <2>2. CASE n # Name
    BY <1>1, <2>2, FilesAssumption DEF FInv, CopyInv, NamesFixed, ShippedSurvives
  <2> QED
    BY <2>1, <2>2
<1>7. ShippedSurvives'
  BY <1>1, <1>6 DEF ShippedSurvives
<1> QED
  BY <1>3, <1>4, <1>5, <1>7 DEF FInv, CopyInv

(* The job ends, or ends with the process.                                 *)
LEMMA EndFInv ==
  ASSUME FInv, Finish \/ ProcessDies
  PROVE  CopyInv'
<1>1. /\ job' = NoJob /\ UNCHANGED <<file, bak>>
      /\ cutCopy \subseteq cutCopy'
      /\ At("copy") => Name \in cutCopy'
  BY DEF Finish, ProcessDies, At
<1>2. job'.kind = "none"
  BY <1>1 DEF NoJob
<1> QED
  BY <1>1, <1>2
  DEF FInv, CopyInv, JobShaped, NamesFixed, CopiesServe, CopyIsWhole, CopyIsFirst, At, ShippedSurvives

LEMMA VerifyGameFInv ==
  ASSUME FInv, VerifyGame
  PROVE  CopyInv'
<1>1. /\ UNCHANGED <<bak, job, cutCopy>> /\ job.kind = "none"
      /\ file' = [n \in DOMAIN file |-> IF n \in Shipped THEN Original ELSE file[n]]
  BY DEF VerifyGame, NoJob
<1>2. DOMAIN file = GameNames \cup PackNames
  BY DEF FInv, CopyInv, NamesFixed
<1>3. \A n \in Shipped : file'[n] = Original
  BY <1>1, <1>2, FilesAssumption
<1>4. NamesFixed'
  BY <1>1, <1>2 DEF FInv, CopyInv, NamesFixed
<1> QED
  BY <1>1, <1>3, <1>4
  DEF FInv, CopyInv, JobShaped, CopiesServe, CopyIsWhole, CopyIsFirst, At, ShippedSurvives

LEMMA NextFInv == FInv /\ [FilesNext]_files => FInv'
<1> SUFFICES ASSUME FInv, [FilesNext]_files PROVE FInv'
  OBVIOUS
<1>0. DownloadIs'
  <2>1. download' = download \/ download' \in Fixes \cup {<<>>}
    BY DEF FilesNext, DownloadFix, StartApply, StartInstall, PassOver, NoBackup, CopyBegins,
           CopyEnds, CopyFails, WriteTemp, WriteFails, Publish, Finish, ProcessDies, VerifyGame,
           files
  <2> QED
    BY <2>1 DEF FInv, DownloadIs
<1>1. CASE DownloadFix \/ UNCHANGED files
  <2>1. UNCHANGED <<file, bak, job, cutCopy>>
    BY <1>1 DEF DownloadFix, files
  <2> QED
    BY <1>0, <2>1
    DEF FInv, CopyInv, JobShaped, NamesFixed, CopiesServe, CopyIsWhole, CopyIsFirst, At, Name, Entry,
        ShippedSurvives
<1> QED
  BY <1>0, <1>1, StartFInv, PassOverFInv, NoBackupFInv, CopyBeginsFInv, CopyEndsFInv, WriteFInv,
     PublishFInv, EndFInv, VerifyGameFInv
  DEF FilesNext, FInv

(* However many fixes are applied and wherever the process dies, what the  *)
(* game shipped is under its name or in the copy beside it, unless making  *)
(* that copy was cut short.                                                *)
THEOREM ShippedNeverLost == FilesSpec => []ShippedSurvives
<1>1. FInv => ShippedSurvives
  BY DEF FInv, CopyInv
<1> QED
  BY InitFInv, NextFInv, <1>1, PTL DEF FilesSpec
-----------------------------------------------------------------------------

(* What a job answers.  What is left of a job's archive is its end, and an *)
(* entry under way is one to be written: so each entry is counted once,    *)
(* as it is left behind.                                                   *)
LeftIsTheEnd ==
  /\ job.archive \in Seq(Entries) /\ Len(job.left) <= Len(job.archive)
  /\ \A i \in 1 .. Len(job.left) : job.left[i] = job.archive[Through + i]

WritesWhatItShould ==
  job.left # <<>> /\ job.step # "entry" => Verdict(job.kind, Entry) = "write"

AnswerInv ==
  /\ job # NoJob => job \in Jobs /\ LeftIsTheEnd /\ WritesWhatItShould
  /\ AnswerIsTrue

LEMMA ArchivesAreOfEntries ==
  ASSUME NEW archive \in Fixes \cup Packs
  PROVE  archive \in Seq(Entries)
<1>1. archive \in Seq(ToSet(archive)) /\ ToSet(archive) \subseteq Entries
  BY FilesAssumption DEF Entries
<1> QED
  BY <1>1, SeqMonotonic

LEMMA LengthsOfAJob ==
  ASSUME job \in Jobs, LeftIsTheEnd
  PROVE  /\ Len(job.archive) \in Nat /\ Len(job.left) \in Nat /\ Through \in Nat
         /\ Len(job.applied) \in Nat /\ job.rejected \in Nat /\ job.locked \in Nat
         /\ IsFiniteSet(Skipped) /\ Cardinality(Skipped) \in Nat
<1>1. /\ job.archive \in Seq(Entries) /\ job.left \in Seq(Entries) /\ job.applied \in Seq(Entries)
      /\ job.rejected \in Nat /\ job.locked \in Nat
  BY DEF Jobs, LeftIsTheEnd
<1>2. Len(job.archive) \in Nat /\ Len(job.left) \in Nat /\ Len(job.applied) \in Nat
  BY <1>1, LenProperties
<1>3. Through \in Nat
  BY <1>2 DEF LeftIsTheEnd, Through
<1>4. Skipped \in SUBSET (1 .. Through) /\ IsFiniteSet(1 .. Through)
  BY <1>3, FS_Interval DEF Skipped
<1>5. IsFiniteSet(Skipped) /\ Cardinality(Skipped) \in Nat
  BY <1>4, FS_Subset, FS_CardinalityType
<1> QED
  BY <1>1, <1>2, <1>3, <1>5

(* A job begins with all of its archive left and nothing to answer for.    *)
LEMMA StartAnswerInv ==
  ASSUME NEW kind \in {"apply", "install"}, NEW archive \in Fixes \cup Packs,
         job' = NewJob(kind, archive)
  PROVE  AnswerInv'
<1>1. archive \in Seq(Entries) /\ Len(archive) \in Nat
  BY ArchivesAreOfEntries, LenProperties
<1>2. /\ job'.kind = kind /\ job'.archive = archive /\ job'.left = archive /\ job'.step = "entry"
      /\ job'.applied = <<>> /\ job'.rejected = 0 /\ job'.locked = 0
      /\ job' \in Jobs
  <2>1. <<>> \in Seq(Entries)
    BY EmptySeq
  <2> QED
    BY <1>1, <2>1 DEF NewJob, Jobs, Steps
<1>3. Through' = 0 /\ Skipped' = {}
  BY <1>1, <1>2 DEF Through, Skipped
<1>4. LeftIsTheEnd' /\ WritesWhatItShould'
  BY <1>1, <1>2, <1>3 DEF LeftIsTheEnd, WritesWhatItShould
<1>5. AnswerIsTrue'
  <2>1. Cardinality(Skipped') = 0
    BY <1>3, FS_EmptySet
  <2>2. Len(job'.applied) = 0 /\ DOMAIN job'.applied = {}
    BY <1>2
  <2> QED
    BY <1>2, <1>3, <2>1, <2>2 DEF AnswerIsTrue
<1> QED
  BY <1>2, <1>4, <1>5 DEF AnswerInv

(* An entry left behind is one more the job is through with.               *)
LEMMA OneMoreThrough ==
  ASSUME job \in Jobs, LeftIsTheEnd, job.left # <<>>,
         job'.kind = job.kind, job'.archive = job.archive, job'.left = Tail(job.left),
         job'.step = "entry"
  PROVE  /\ LeftIsTheEnd' /\ WritesWhatItShould' /\ Through' = Through + 1
         /\ Cardinality(Skipped') = IF Verdict(job.kind, Entry) = "skip"
                                      THEN Cardinality(Skipped) + 1 ELSE Cardinality(Skipped)
<1>1. /\ job.archive \in Seq(Entries) /\ job.left \in Seq(Entries)
      /\ Len(job.archive) \in Nat /\ Len(job.left) \in Nat \ {0} /\ Through \in Nat
      /\ Len(job.left) <= Len(job.archive)
      /\ Len(job.archive) - Len(job.left) = Through
      /\ IsFiniteSet(Skipped) /\ Cardinality(Skipped) \in Nat
  <2>1. job.left \in Seq(Entries) /\ job.left # <<>>
    BY DEF Jobs
  <2>2. Len(job.left) \in Nat \ {0}
    BY <2>1, EmptySeq
  <2> QED
    BY <2>1, <2>2, LengthsOfAJob DEF LeftIsTheEnd, Through
<1>2. /\ Len(job'.left) = Len(job.left) - 1
      /\ \A i \in 1 .. Len(job.left) - 1 : job'.left[i] = job.left[i + 1]
  BY <1>1, HeadTailProperties
<1>3. Through' = Through + 1
  <2>1. Through' = Len(job'.archive) - Len(job'.left)
    BY DEF Through
  <2>2. Through' = Len(job.archive) - (Len(job.left) - 1)
    BY <1>2, <2>1
  <2>3. \A m, n \in Nat : m - (n - 1) = (m - n) + 1
    OBVIOUS
  <2>4. Len(job.archive) - (Len(job.left) - 1) = (Len(job.archive) - Len(job.left)) + 1
    BY <1>1, <2>3
  <2> QED
    BY <1>1, <2>2, <2>4
<1>4. job.archive[Through + 1] = Entry
  BY <1>1 DEF LeftIsTheEnd, Entry
<1>5. LeftIsTheEnd'
  <2>1. ASSUME NEW i \in 1 .. Len(job'.left)
        PROVE  job'.left[i] = job'.archive[Through' + i]
    <3>1. i + 1 \in 1 .. Len(job.left) /\ job'.left[i] = job.left[i + 1]
      BY <1>1, <1>2
    <3>2. job.left[i + 1] = job.archive[Through + (i + 1)]
      BY <3>1 DEF LeftIsTheEnd
    <3>3. Through + (i + 1) = Through' + i
      BY <1>1, <1>3, <3>1
    <3> QED
      BY <3>1, <3>2, <3>3
  <2> QED
    BY <1>1, <1>2, <2>1 DEF LeftIsTheEnd
<1>6. Skipped' = IF Verdict(job.kind, Entry) = "skip" THEN Skipped \cup {Through + 1} ELSE Skipped
  <2>1. Skipped' = {k \in 1 .. Through + 1 : Verdict(job.kind, job.archive[k]) = "skip"}
    BY <1>3 DEF Skipped
  <2>2. \A k \in 1 .. Through + 1 : k \in 1 .. Through \/ k = Through + 1
    BY <1>1
  <2>3. \A k \in 1 .. Through : k \in 1 .. Through + 1
    BY <1>1
  <2>4. Through + 1 \in 1 .. Through + 1
    BY <1>1
  <2>5. CASE Verdict(job.kind, Entry) = "skip"
    BY <1>4, <2>1, <2>2, <2>3, <2>4, <2>5 DEF Skipped
  <2>6. CASE Verdict(job.kind, Entry) # "skip"
    BY <1>4, <2>1, <2>2, <2>3, <2>4, <2>6 DEF Skipped
  <2> QED
    BY <2>5, <2>6
<1>7. Through + 1 \notin Skipped
  BY <1>1 DEF Skipped
<1> QED
  BY <1>1, <1>3, <1>5, <1>6, <1>7, FS_AddElement DEF WritesWhatItShould

(* One more in one of the counts is one more in their sum.                 *)
LEMMA CountsAddUp ==
  \A a, r, l, k, t \in Nat : a + r + l + k = t =>
    /\ (a + 1) + r + l + k = t + 1 /\ a + (r + 1) + l + k = t + 1
    /\ a + r + (l + 1) + k = t + 1 /\ a + r + l + (k + 1) = t + 1
OBVIOUS

(* Two jobs that differ only in their step have the same to answer for.    *)
LEMMA StepAnswerInv ==
  ASSUME AnswerInv, job # NoJob, NEW s \in Steps, job' = Step(s), UNCHANGED file,
         s # "entry" => Verdict(job.kind, Entry) = "write"
  PROVE  AnswerInv'
<1>1. job \in Jobs /\ LeftIsTheEnd
  BY DEF AnswerInv
<1>2. /\ job' \in Jobs /\ job'.step = s
      /\ job'.kind = job.kind /\ job'.archive = job.archive /\ job'.left = job.left
      /\ job'.applied = job.applied /\ job'.rejected = job.rejected /\ job'.locked = job.locked
  BY <1>1 DEF Step, Jobs
<1>3. Through' = Through /\ Entry' = Entry
  BY <1>2 DEF Through, Entry
<1>4. Skipped' = Skipped
  BY <1>2, <1>3 DEF Skipped
<1>5. \A i : LastOfItsName(i)' = LastOfItsName(i)
  BY <1>2 DEF LastOfItsName
<1>6. AnswerIsTrue'
  BY <1>2, <1>3, <1>4, <1>5 DEF AnswerInv, AnswerIsTrue
<1>7. LeftIsTheEnd' /\ WritesWhatItShould'
  BY <1>1, <1>2, <1>3 DEF LeftIsTheEnd, WritesWhatItShould
<1> QED
  BY <1>2, <1>6, <1>7 DEF AnswerInv

(* An entry counted as rejected, as locked or as skipped.                  *)
LEMMA LeaveBehind ==
  ASSUME AnswerInv, job # NoJob, job.left # <<>>, UNCHANGED file,
         job' \in Jobs, job'.kind = job.kind, job'.archive = job.archive,
         job'.left = Tail(job.left), job'.step = "entry", job'.applied = job.applied,
         \/ /\ Verdict(job.kind, Entry) = "skip"
            /\ job'.rejected = job.rejected /\ job'.locked = job.locked
         \/ /\ Verdict(job.kind, Entry) # "skip"
            /\ \/ job'.rejected = job.rejected + 1 /\ job'.locked = job.locked
               \/ job'.rejected = job.rejected /\ job'.locked = job.locked + 1
  PROVE  AnswerInv'
<1>1. job \in Jobs /\ LeftIsTheEnd
  BY DEF AnswerInv
<1>2. /\ LeftIsTheEnd' /\ WritesWhatItShould' /\ Through' = Through + 1
      /\ Cardinality(Skipped') = IF Verdict(job.kind, Entry) = "skip"
                                   THEN Cardinality(Skipped) + 1 ELSE Cardinality(Skipped)
  BY <1>1, OneMoreThrough
<1>3. /\ Through \in Nat /\ Len(job.applied) \in Nat /\ job.rejected \in Nat /\ job.locked \in Nat
      /\ Cardinality(Skipped) \in Nat
  BY <1>1, LengthsOfAJob
<1>4. Len(job.applied) + job.rejected + job.locked + Cardinality(Skipped) = Through
  BY DEF AnswerInv, AnswerIsTrue
<1>5. Len(job'.applied) + job'.rejected + job'.locked + Cardinality(Skipped') = Through'
  <2> DEFINE a == Len(job.applied)
             r == job.rejected
             l == job.locked
             k == Cardinality(Skipped)
  <2> HIDE DEF a, r, l, k
  <2>1. a \in Nat /\ r \in Nat /\ l \in Nat /\ k \in Nat /\ Through \in Nat
    BY <1>3 DEF a, r, l, k
  <2>2. a + r + l + k = Through
    BY <1>4 DEF a, r, l, k
  <2>3. /\ a + (r + 1) + l + k = Through + 1 /\ a + r + (l + 1) + k = Through + 1
        /\ a + r + l + (k + 1) = Through + 1
    BY <2>1, <2>2, CountsAddUp
  <2> QED
    BY <1>2, <2>3 DEF a, r, l, k
<1>6. \A i : LastOfItsName(i)' = LastOfItsName(i)
  BY DEF LastOfItsName
<1>7. \A i \in DOMAIN job'.applied :
        LastOfItsName(i)' => file'[job'.applied[i].name] = job'.applied[i].bytes
  BY <1>6 DEF AnswerInv, AnswerIsTrue
<1>8. AnswerIsTrue'
  BY <1>5, <1>7 DEF AnswerIsTrue
<1> QED
  BY <1>2, <1>8 DEF AnswerInv

LEMMA PassOverAnswerInv ==
  ASSUME AnswerInv, PassOver
  PROVE  AnswerInv'
<1>1. /\ job # NoJob /\ job.kind # "none" /\ job.left # <<>> /\ job.step = "entry"
      /\ UNCHANGED file /\ Verdict(job.kind, Entry) # "write"
  BY DEF PassOver, At, NoJob
<1>2. job \in Jobs
  BY <1>1 DEF AnswerInv
<1> DEFINE v == Verdict(job.kind, Entry)
           r == IF v = "reject" THEN job.rejected + 1 ELSE job.rejected
           l == IF v = "lock" THEN job.locked + 1 ELSE job.locked
<1>3. job.rejected \in Nat /\ job.locked \in Nat /\ Tail(job.left) \in Seq(Entries)
  BY <1>1, <1>2, HeadTailProperties DEF Jobs
<1>4. r \in Nat /\ l \in Nat
  BY <1>3
<1>5. job' = [job EXCEPT !.left = Tail(@), !.rejected = r, !.locked = l]
  BY DEF PassOver
<1>6. v \in {"skip", "reject", "lock"}
  BY <1>1 DEF Verdict
<1>7. \/ v = "skip" /\ r = job.rejected /\ l = job.locked
      \/ v # "skip" /\ (\/ r = job.rejected + 1 /\ l = job.locked
                        \/ r = job.rejected /\ l = job.locked + 1)
  BY <1>6
<1> HIDE DEF r, l, v
<1>8. /\ job' \in Jobs /\ job'.kind = job.kind /\ job'.archive = job.archive
      /\ job'.left = Tail(job.left) /\ job'.step = "entry" /\ job'.applied = job.applied
      /\ job'.rejected = r /\ job'.locked = l
  BY <1>1, <1>2, <1>3, <1>4, <1>5 DEF Jobs
<1> QED
  BY <1>1, <1>7, <1>8, LeaveBehind DEF v

LEMMA WriteFailsAnswerInv ==
  ASSUME AnswerInv, WriteFails
  PROVE  AnswerInv'
<1>1. /\ job # NoJob /\ job.kind # "none" /\ job.left # <<>> /\ job.step # "entry"
      /\ UNCHANGED file /\ job' = Rejected
  BY DEF WriteFails, At, NoJob
<1>2. job \in Jobs /\ Verdict(job.kind, Entry) # "skip"
  BY <1>1 DEF AnswerInv, WritesWhatItShould
<1>3. job.rejected \in Nat /\ Tail(job.left) \in Seq(Entries)
  BY <1>1, <1>2, HeadTailProperties DEF Jobs
<1> DEFINE r == job.rejected + 1
<1>4. r \in Nat /\ job' = [job EXCEPT !.left = Tail(@), !.step = "entry", !.rejected = r]
  BY <1>1, <1>3 DEF Rejected
<1> HIDE DEF r
<1>5. /\ job' \in Jobs /\ job'.kind = job.kind /\ job'.archive = job.archive
      /\ job'.left = Tail(job.left) /\ job'.step = "entry" /\ job'.applied = job.applied
      /\ job'.rejected = r /\ job'.locked = job.locked
  BY <1>1, <1>2, <1>3, <1>4 DEF Jobs, Steps
<1> QED
  BY <1>1, <1>2, <1>5, LeaveBehind DEF r

(* An entry written: it is the last of its name, and the others of that    *)
(* name are not.                                                           *)
LEMMA PublishAnswerInv ==
  ASSUME AnswerInv, NamesFixed, Publish
  PROVE  AnswerInv'
<1>1. /\ job # NoJob /\ job.kind # "none" /\ job.left # <<>> /\ job.step # "entry"
      /\ file' = [file EXCEPT ![Name] = Entry.bytes]
      /\ job' = [job EXCEPT !.left = Tail(@), !.step = "entry", !.applied = Append(@, Entry)]
  BY DEF Publish, At, NoJob
<1>2. job \in Jobs /\ LeftIsTheEnd /\ Verdict(job.kind, Entry) # "skip"
  BY <1>1 DEF AnswerInv, WritesWhatItShould
<1>3. /\ job.applied \in Seq(Entries) /\ Len(job.applied) \in Nat
      /\ DOMAIN job.applied = 1 .. Len(job.applied)
      /\ Entry \in Entries /\ Tail(job.left) \in Seq(Entries)
  BY <1>1, <1>2, HeadTailProperties, LenProperties DEF Jobs, Entry
<1> DEFINE done == Append(job.applied, Entry)
<1>4. /\ done \in Seq(Entries) /\ Len(done) = Len(job.applied) + 1
      /\ DOMAIN done = 1 .. Len(job.applied) + 1
      /\ \A i \in 1 .. Len(job.applied) : done[i] = job.applied[i]
      /\ done[Len(job.applied) + 1] = Entry
  BY <1>3, AppendProperties, LenProperties
<1> HIDE DEF done
<1>5. /\ job' \in Jobs /\ job'.kind = job.kind /\ job'.archive = job.archive
      /\ job'.left = Tail(job.left) /\ job'.step = "entry" /\ job'.applied = done
      /\ job'.rejected = job.rejected /\ job'.locked = job.locked
  BY <1>1, <1>2, <1>3, <1>4 DEF Jobs, Steps, done
<1>6. /\ LeftIsTheEnd' /\ WritesWhatItShould' /\ Through' = Through + 1
      /\ Cardinality(Skipped') = Cardinality(Skipped)
  BY <1>1, <1>2, <1>5, OneMoreThrough
<1>7. Len(job'.applied) + job'.rejected + job'.locked + Cardinality(Skipped') = Through'
  <2>1. /\ Through \in Nat /\ job.rejected \in Nat /\ job.locked \in Nat
        /\ Cardinality(Skipped) \in Nat
    BY <1>2, LengthsOfAJob
  <2>2. Len(job.applied) + job.rejected + job.locked + Cardinality(Skipped) = Through
    BY <1>1 DEF AnswerInv, AnswerIsTrue
  <2>3. (Len(job.applied) + 1) + job.rejected + job.locked + Cardinality(Skipped) = Through + 1
    <3> DEFINE a == Len(job.applied)
               r == job.rejected
               l == job.locked
               k == Cardinality(Skipped)
    <3> HIDE DEF a, r, l, k
    <3>1. a \in Nat /\ r \in Nat /\ l \in Nat /\ k \in Nat /\ Through \in Nat /\ a + r + l + k = Through
      BY <1>3, <2>1, <2>2 DEF a, r, l, k
    <3>2. (a + 1) + r + l + k = Through + 1
      BY <3>1, CountsAddUp
    <3> QED
      BY <3>2 DEF a, r, l, k
  <2> QED
    BY <1>4, <1>5, <1>6, <2>3
<1>8. Name \in DOMAIN file
  <2>1. Entry.name \in GameNames \cup PackNames
    BY <1>3, FilesAssumption DEF Entries
  <2> QED
    BY <2>1 DEF NamesFixed, Name
<1>9. ASSUME NEW i \in DOMAIN done, LastOfItsName(i)'
      PROVE  file'[done[i].name] = done[i].bytes
  <2>1. CASE i = Len(job.applied) + 1
    BY <1>1, <1>4, <1>8, <2>1 DEF Name
  <2>2. CASE i \in 1 .. Len(job.applied)
    <3>1. \A j \in DOMAIN done : j > i => done[j].name # done[i].name
      BY <1>5, <1>9 DEF LastOfItsName
    <3>2. done[i] = job.applied[i] /\ job.applied[i].name # Name
      BY <1>3, <1>4, <2>2, <3>1 DEF Name
    <3>3. LastOfItsName(i)
      BY <1>3, <1>4, <2>2, <3>1 DEF LastOfItsName
    <3>4. file[job.applied[i].name] = job.applied[i].bytes
      BY <1>1, <1>3, <2>2, <3>3 DEF AnswerInv, AnswerIsTrue
    <3> QED
      BY <1>1, <3>2, <3>4
  <2> QED
    BY <1>3, <1>4, <2>1, <2>2
<1>10. AnswerIsTrue'
  BY <1>5, <1>7, <1>9 DEF AnswerIsTrue
<1> QED
  BY <1>5, <1>6, <1>10 DEF AnswerInv

LEMMA NextAnswerInv ==
  ASSUME AnswerInv, FInv, [FilesNext]_files
  PROVE  AnswerInv'
<1>1. CASE DownloadFix \/ UNCHANGED files
  BY <1>1 DEF DownloadFix, files, AnswerInv, AnswerIsTrue, LastOfItsName, LeftIsTheEnd,
              WritesWhatItShould, Through, Skipped, Entry
<1>2. CASE StartApply
  <2>1. download \in Fixes
    BY <1>2 DEF StartApply, FInv, DownloadIs
  <2> QED
    BY <1>2, <2>1, StartAnswerInv DEF StartApply
<1>3. CASE StartInstall
  BY <1>3, StartAnswerInv DEF StartInstall
<1>4. CASE NoBackup \/ CopyBegins \/ CopyEnds \/ CopyFails \/ WriteTemp
  <2>1. job # NoJob /\ UNCHANGED file
    BY <1>4 DEF NoBackup, CopyBegins, CopyEnds, CopyFails, WriteTemp, Ready, At, NoJob
  <2>2. \E s \in {"copy", "write", "publish"} : job' = Step(s)
    BY <1>4 DEF NoBackup, CopyBegins, CopyEnds, CopyFails, WriteTemp
  <2>3. Verdict(job.kind, Entry) = "write"
    BY <1>4, <2>1
    DEF AnswerInv, WritesWhatItShould, NoBackup, CopyBegins, CopyEnds, CopyFails, WriteTemp, Ready, At
  <2> QED
    BY <2>1, <2>2, <2>3, StepAnswerInv DEF Steps
<1>5. CASE Finish \/ ProcessDies \/ VerifyGame
  <2>1. job' = NoJob
    BY <1>5 DEF Finish, ProcessDies, VerifyGame
  <2> QED
    BY <2>1 DEF AnswerInv, AnswerIsTrue
<1>6. NamesFixed
  BY DEF FInv, CopyInv
<1> QED
  BY <1>1, <1>2, <1>3, <1>4, <1>5, <1>6, PassOverAnswerInv, WriteFailsAnswerInv, PublishAnswerInv
  DEF FilesNext

(* For any archives, and whatever fails: a job that answers has counted    *)
(* every entry once, and each name it says it has applied holds the bytes  *)
(* of the last entry of that name.                                         *)
THEOREM AnswersAreTrue == FilesSpec => []AnswerIsTrue
<1>1. FilesInit => AnswerInv
  <2>1. FilesInit => job = NoJob
    BY DEF FilesInit
  <2> QED
    BY <2>1 DEF AnswerInv, AnswerIsTrue
<1>2. AnswerInv => AnswerIsTrue
  BY DEF AnswerInv
<1> QED
  BY InitFInv, NextFInv, <1>1, <1>2, NextAnswerInv, PTL DEF FilesSpec

-----------------------------------------------------------------------------
(* FixCases: archives, orders of sources and documents of keys, each of    *)
(* any length.                                                             *)

(* What an archive holds.                                                  *)
Cells ==
  {Data} \cup {Local(n) : n \in Nat} \cup {Listed(off, n) : off, n \in Nat}
    \cup {End(count, off, comment) : count, off, comment \in Nat}

(* Where everything is in an archive, starts[k] cells after the file k.    *)
Laid(z, stored, comment, starts) ==
  LET n == Len(stored)
      d == starts[n]
  IN /\ z \in Seq(Cells) /\ Len(z) = d + n + 1 + comment
     /\ starts \in [0 .. n -> Nat] /\ starts[0] = 0
     /\ \A k \in 1 .. n : starts[k] = starts[k - 1] + 1 + Len(stored[k]) /\ starts[k] <= d
     /\ \A k \in 1 .. n : z[starts[k - 1] + 1] = Local(Len(stored[k]))
     /\ \A k \in 1 .. n : \A j \in 1 .. Len(stored[k]) : z[starts[k - 1] + 1 + j] = stored[k][j]
     /\ \A x \in 1 .. d : \E k \in 1 .. n :
          x = starts[k - 1] + 1 \/ \E j \in 1 .. Len(stored[k]) : x = starts[k - 1] + 1 + j
     /\ \A k \in 1 .. n : z[d + k] = Listed(starts[k - 1], Len(stored[k]))
     /\ z[d + n + 1] = End(n, d, comment)
     /\ \A x \in 1 .. comment : z[d + n + 1 + x] = Data

(* What an archive is made of.                                             *)
LEMMA CellsAre ==
  /\ Data \in Cells /\ \A n \in Nat : Local(n) \in Cells
  /\ \A off, n \in Nat : Listed(off, n) \in Cells
  /\ \A count, off, comment \in Nat : End(count, off, comment) \in Cells
BY DEF Cells

(* A file behind its header.                                               *)
LEMMA HeaderThenFile ==
  ASSUME NEW body \in Seq(Cells)
  PROVE  LET both == <<Local(Len(body))>> \o body
         IN /\ both \in Seq(Cells) /\ Len(both) = 1 + Len(body)
            /\ both[1] = Local(Len(body)) /\ \A j \in 1 .. Len(body) : both[1 + j] = body[j]
<1> DEFINE head == Local(Len(body))
<1>1. head \in Cells /\ Len(body) \in Nat
  BY CellsAre
<1> HIDE DEF head
<1>2. <<head>> \in Seq(Cells) /\ Len(<<head>>) = 1 /\ <<head>>[1] = head
  BY <1>1
<1>3. /\ <<head>> \o body \in Seq(Cells) /\ Len(<<head>> \o body) = Len(<<head>>) + Len(body)
      /\ \A i \in 1 .. Len(<<head>>) : (<<head>> \o body)[i] = <<head>>[i]
      /\ \A i \in 1 .. Len(body) : (<<head>> \o body)[Len(<<head>>) + i] = body[i]
  BY <1>2, TwoParts
<1> QED
  BY <1>2, <1>3 DEF head

(* Pack lays an archive out so.                                            *)
LEMMA PackIsLaid ==
  ASSUME NEW stored \in Seq(Seq(Cells)), NEW comment \in Nat
  PROVE  \E starts : Laid(Pack(stored, comment), stored, comment, starts)
<1> DEFINE n == Len(stored)
           locals == [i \in 1 .. n |-> <<Local(Len(stored[i]))>> \o stored[i]]
           Is(f) == f = [i \in 1 .. n + 1 |-> IF i = 1 THEN 0 ELSE f[i - 1] + 1 + Len(stored[i - 1])]
           start == CHOOSE f : Is(f)
           dir == [i \in 1 .. n |-> Listed(start[i], Len(stored[i]))]
           end == End(n, start[n + 1], comment)
           rest == [i \in 1 .. comment |-> Data]
           size(k) == Len(stored[k])
<1>1. Pack(stored, comment) = FlattenSeq(locals) \o dir \o <<end>> \o rest
  BY DEF Pack
<1>2. n \in Nat /\ \A k \in 1 .. n : stored[k] \in Seq(Cells) /\ size(k) \in Nat
  OBVIOUS
<1>3. ASSUME NEW k \in 1 .. n
      PROVE  /\ locals[k] \in Seq(Cells) /\ Len(locals[k]) = 1 + size(k)
             /\ locals[k][1] = Local(size(k)) /\ \A j \in 1 .. size(k) : locals[k][1 + j] = stored[k][j]
  <2>1. locals[k] = <<Local(Len(stored[k]))>> \o stored[k]
    OBVIOUS
  <2> HIDE DEF locals
  <2> QED
    BY <1>2, <2>1, HeaderThenFile
<1>4. locals \in Seq(Seq(Cells)) /\ Len(locals) = n
  <2>1. locals = [k \in 1 .. n |-> locals[k]]
    OBVIOUS
  <2> HIDE DEF locals, n
  <2>2. \A k \in 1 .. n : locals[k] \in Seq(Cells)
    BY <1>3
  <2>3. locals \in [1 .. n -> Seq(Cells)]
    BY <2>1, <2>2
  <2> QED
    BY <1>2, <2>3
<1> DEFINE joined == FlattenSeq(locals)
<1>5. joined \in Seq(Cells) /\ \E starts : Follow(locals, joined, starts)
  BY <1>4, FlattenJoins
<1>6. PICK starts : Follow(locals, joined, starts)
  BY <1>5
<1> HIDE DEF joined
<1>7. n = Len(stored) /\ \A k \in 1 .. n : size(k) = Len(stored[k])
  OBVIOUS
<1> DEFINE d == starts[n]
<1>8. /\ starts \in [0 .. n -> Nat] /\ starts[0] = 0 /\ Len(joined) = d
      /\ \A k \in 1 .. n : starts[k] = starts[k - 1] + (1 + size(k)) /\ starts[k] <= d
      /\ \A k \in 1 .. n : \A j \in 1 .. 1 + size(k) : joined[starts[k - 1] + j] = locals[k][j]
      /\ \A x \in 1 .. d : \E k \in 1 .. n : \E j \in 1 .. 1 + size(k) : x = starts[k - 1] + j
  <2> HIDE DEF locals, n, size
  <2> QED
    BY <1>3, <1>4, <1>6, SMTT(30) DEF Follow
<1> HIDE DEF n, size, locals
<1>9. \A i \in 1 .. n + 1 : start[i] = starts[i - 1]
  <2> DEFINE g == [i \in 1 .. n + 1 |-> starts[i - 1]]
  <2>1. Is(g)
    <3>1. ASSUME NEW i \in 1 .. n + 1
          PROVE  g[i] = IF i = 1 THEN 0 ELSE g[i - 1] + 1 + Len(stored[i - 1])
      <4>1. CASE i = 1
        BY <1>8, <4>1
      <4>2. CASE i # 1
        <5> DEFINE k == i - 1
        <5>1. k \in 1 .. n /\ k \in 1 .. n + 1 /\ k - 1 \in 0 .. n /\ i \in 1 .. n + 1
          BY <1>2, <4>2
        <5>2. g[i] = starts[k] /\ g[k] = starts[k - 1]
          BY <5>1
        <5>3. starts[k] = starts[k - 1] + (1 + size(k)) /\ starts[k - 1] \in Nat /\ size(k) \in Nat
          BY <1>2, <1>8, <5>1
        <5> HIDE DEF g, k
        <5>4. starts[k] = starts[k - 1] + 1 + size(k)
          <6>1. \A v, w \in Nat : v + (1 + w) = v + 1 + w
            OBVIOUS
          <6> QED
            BY <5>3, <6>1
        <5>5. g[i] = g[k] + 1 + size(k)
          BY <5>2, <5>4
        <5> QED
          BY <4>2, <5>1, <5>5 DEF size, k
      <4> QED
        BY <4>1, <4>2
    <3>2. g = [i \in 1 .. n + 1 |-> g[i]]
      OBVIOUS
    <3> HIDE DEF g
    <3> QED
      BY <3>1, <3>2
  <2> HIDE DEF g
  <2>2. Is(start)
    <3> HIDE DEF Is
    <3> QED
      BY <2>1
  <2>3. \A i \in 1 .. n + 1 : start[i] = IF i = 1 THEN 0 ELSE start[i - 1] + 1 + Len(stored[i - 1])
    <3> HIDE DEF start
    <3> QED
      BY <2>2
  <2> HIDE DEF start, Is
  <2> DEFINE Same == {i \in 0 .. n : start[i + 1] = starts[i]}
  <2>4. 0 \in Same
    <3>1. 1 \in 1 .. n + 1 /\ 0 \in 0 .. n
      BY <1>2
    <3> QED
      BY <1>8, <2>3, <3>1
  <2>5. ASSUME NEW i \in 0 .. n - 1, i \in Same PROVE i + 1 \in Same
    <3>1. (i + 1) + 1 \in 1 .. n + 1 /\ (i + 1) + 1 # 1 /\ ((i + 1) + 1) - 1 = i + 1
          /\ i + 1 \in 1 .. n /\ i + 1 \in 0 .. n /\ (i + 1) - 1 = i /\ i \in 0 .. n
      BY <1>2
    <3> DEFINE k == i + 1
    <3>2. start[k + 1] = start[k] + 1 + size(k)
      BY <2>3, <3>1 DEF size
    <3>3. starts[k] = starts[i] + (1 + size(k)) /\ starts[i] \in Nat /\ size(k) \in Nat
      BY <1>2, <1>8, <3>1
    <3>4. start[k] = starts[i]
      BY <2>5
    <3> HIDE DEF k
    <3>6. starts[k] = starts[i] + 1 + size(k)
      <4>1. \A v, w \in Nat : v + (1 + w) = v + 1 + w
        OBVIOUS
      <4> QED
        BY <3>3, <4>1
    <3>5. start[k + 1] = starts[k]
      BY <3>2, <3>4, <3>6
    <3> QED
      BY <3>1, <3>5 DEF k
  <2> HIDE DEF Same
  <2>6. \A i \in 0 .. n : i \in Same
    BY <1>2, <2>4, <2>5, Upward
  <2>7. ASSUME NEW i \in 1 .. n + 1 PROVE start[i] = starts[i - 1]
    <3>1. i - 1 \in 0 .. n /\ (i - 1) + 1 = i
      BY <1>2
    <3>2. i - 1 \in Same
      BY <2>6, <3>1
    <3> QED
      BY <3>1, <3>2 DEF Same
  <2> QED
    BY <2>7
<1>10. d \in Nat /\ n + 1 \in 1 .. n + 1 /\ start[n + 1] = d
  <2>1. n \in 0 .. n /\ n + 1 \in 1 .. n + 1 /\ (n + 1) - 1 = n
    BY <1>2
  <2> HIDE DEF start
  <2> QED
    BY <1>8, <1>9, <2>1
<1> HIDE DEF start
<1>11. dir \in Seq(Cells) /\ Len(dir) = n /\ \A k \in 1 .. n : dir[k] = Listed(starts[k - 1], size(k))
  <2>1. ASSUME NEW k \in 1 .. n PROVE dir[k] = Listed(starts[k - 1], size(k)) /\ dir[k] \in Cells
    <3>1. k \in 1 .. n + 1 /\ k - 1 \in 0 .. n
      BY <1>2
    <3>2. start[k] = starts[k - 1] /\ starts[k - 1] \in Nat /\ size(k) \in Nat
      BY <1>2, <1>8, <1>9, <3>1
    <3>3. dir[k] = Listed(starts[k - 1], size(k))
      BY <3>2 DEF size
    <3> QED
      BY <3>2, <3>3, CellsAre
  <2>2. dir = [k \in 1 .. n |-> dir[k]]
    OBVIOUS
  <2> HIDE DEF dir
  <2>3. \A k \in 1 .. n : dir[k] \in Cells
    BY <2>1
  <2>4. dir \in [1 .. n -> Cells]
    BY <2>2, <2>3
  <2> QED
    BY <1>2, <2>1, <2>4
<1>12. end = End(n, d, comment) /\ end \in Cells
  BY <1>2, <1>10, CellsAre
<1>13. rest \in Seq(Cells) /\ Len(rest) = comment /\ \A x \in 1 .. comment : rest[x] = Data
  BY CellsAre
<1> HIDE DEF dir, end, rest
<1>14. <<end>> \in Seq(Cells) /\ Len(<<end>>) = 1 /\ <<end>>[1] = end
  BY <1>12
<1> DEFINE two == joined \o dir
           three == two \o <<end>>
           z == three \o rest
<1>15. /\ two \in Seq(Cells) /\ Len(two) = d + n /\ \A i \in 1 .. d : two[i] = joined[i]
       /\ \A i \in 1 .. n : two[d + i] = dir[i]
  <2>0. joined \in Seq(Cells) /\ dir \in Seq(Cells)
    BY <1>5, <1>11
  <2>1. /\ two \in Seq(Cells) /\ Len(two) = Len(joined) + Len(dir)
        /\ \A i \in 1 .. Len(joined) : two[i] = joined[i]
        /\ \A i \in 1 .. Len(dir) : two[Len(joined) + i] = dir[i]
    BY <2>0, TwoParts
  <2> HIDE DEF two
  <2> QED
    BY <1>8, <1>11, <2>1
<1> HIDE DEF two
<1>16. /\ three \in Seq(Cells) /\ Len(three) = d + n + 1 /\ \A i \in 1 .. d + n : three[i] = two[i]
       /\ three[d + n + 1] = end
  <2>1. /\ three \in Seq(Cells) /\ Len(three) = Len(two) + Len(<<end>>)
        /\ \A i \in 1 .. Len(two) : three[i] = two[i]
        /\ \A i \in 1 .. Len(<<end>>) : three[Len(two) + i] = <<end>>[i]
    BY <1>14, <1>15, TwoParts
  <2> HIDE DEF three
  <2> QED
    BY <1>14, <1>15, <2>1
<1> HIDE DEF three
<1>17. /\ z \in Seq(Cells) /\ Len(z) = d + n + 1 + comment
       /\ \A i \in 1 .. d + n + 1 : z[i] = three[i]
       /\ \A x \in 1 .. comment : z[d + n + 1 + x] = Data
  <2>1. /\ z \in Seq(Cells) /\ Len(z) = Len(three) + Len(rest)
        /\ \A i \in 1 .. Len(three) : z[i] = three[i]
        /\ \A i \in 1 .. Len(rest) : z[Len(three) + i] = rest[i]
    <3>1. three \in Seq(Cells) /\ rest \in Seq(Cells)
      BY <1>13, <1>16
    <3> QED
      BY <3>1, TwoParts
  <2> HIDE DEF z
  <2> QED
    BY <1>13, <1>16, <2>1
<1> HIDE DEF z
<1>18. /\ \A i \in 1 .. d : z[i] = joined[i]
       /\ \A i \in 1 .. n : z[d + i] = dir[i]
       /\ z[d + n + 1] = end
  <2> HIDE DEF d
  <2>1. \A i \in 1 .. d : i \in 1 .. d + n /\ i \in 1 .. d + n + 1
    BY <1>2, <1>10
  <2>2. \A i \in 1 .. n : d + i \in 1 .. d + n /\ d + i \in 1 .. d + n + 1
    BY <1>2, <1>10
  <2>3. d + n + 1 \in 1 .. d + n + 1
    BY <1>2, <1>10
  <2> QED
    BY <1>15, <1>16, <1>17, <2>1, <2>2, <2>3
<1>19. ASSUME NEW k \in 1 .. n
       PROVE  /\ starts[k] = starts[k - 1] + 1 + size(k) /\ starts[k] <= d
              /\ z[starts[k - 1] + 1] = Local(size(k))
              /\ \A j \in 1 .. size(k) : z[starts[k - 1] + 1 + j] = stored[k][j]
  <2> DEFINE s == starts[k - 1]
  <2>1. s \in Nat /\ size(k) \in Nat /\ starts[k] = s + (1 + size(k)) /\ starts[k] <= d
    <3>1. k - 1 \in 0 .. n
      BY <1>2
    <3> QED
      BY <1>2, <1>8, <3>1
  <2>2. \A j \in 1 .. 1 + size(k) : joined[s + j] = locals[k][j]
    BY <1>8
  <2> HIDE DEF s, d
  <2>3. \A j \in 1 .. 1 + size(k) : s + j \in 1 .. d
    BY <1>10, <2>1
  <2>4. \A j \in 1 .. 1 + size(k) : z[s + j] = locals[k][j]
    BY <1>18, <2>2, <2>3
  <2>5. 1 \in 1 .. 1 + size(k) /\ \A j \in 1 .. size(k) : 1 + j \in 1 .. 1 + size(k) /\ s + (1 + j) = s + 1 + j
    BY <2>1
  <2>6. z[s + 1] = Local(size(k)) /\ \A j \in 1 .. size(k) : z[s + 1 + j] = stored[k][j]
    BY <1>3, <2>4, <2>5
  <2>7. \A v, w \in Nat : v + (1 + w) = v + 1 + w
    OBVIOUS
  <2>8. starts[k] = s + 1 + size(k) /\ starts[k] <= d
    BY <2>1, <2>7, Zenon
  <2> QED
    BY <2>6, <2>8, Zenon DEF s
<1>20. ASSUME NEW x \in 1 .. d
       PROVE  \E k \in 1 .. n : x = starts[k - 1] + 1 \/ \E j \in 1 .. size(k) : x = starts[k - 1] + 1 + j
  <2>1. PICK k \in 1 .. n : \E j \in 1 .. 1 + size(k) : x = starts[k - 1] + j
    BY <1>8
  <2>2. PICK j \in 1 .. 1 + size(k) : x = starts[k - 1] + j
    BY <2>1
  <2>3. starts[k - 1] \in Nat /\ size(k) \in Nat
    <3>1. k - 1 \in 0 .. n
      BY <1>2
    <3> QED
      BY <1>2, <1>8, <3>1
  <2>4. j = 1 \/ (j - 1 \in 1 .. size(k) /\ x = starts[k - 1] + 1 + (j - 1))
    BY <2>2, <2>3
  <2> QED
    BY <2>2, <2>4
<1>21. \A k \in 1 .. n : z[d + k] = Listed(starts[k - 1], size(k))
  <2> HIDE DEF d
  <2> QED
    BY <1>11, <1>18
<1>22. Laid(z, stored, comment, starts)
  <2>1. /\ z \in Seq(Cells) /\ Len(z) = d + n + 1 + comment
        /\ starts \in [0 .. n -> Nat] /\ starts[0] = 0
        /\ z[d + n + 1] = End(n, d, comment)
        /\ \A x \in 1 .. comment : z[d + n + 1 + x] = Data
    BY <1>8, <1>12, <1>17, <1>18
  <2> HIDE DEF d
  <2>2. /\ \A k \in 1 .. n : starts[k] = starts[k - 1] + 1 + size(k) /\ starts[k] <= d
        /\ \A k \in 1 .. n : z[starts[k - 1] + 1] = Local(size(k))
        /\ \A k \in 1 .. n : \A j \in 1 .. size(k) : z[starts[k - 1] + 1 + j] = stored[k][j]
    BY <1>19
  <2>3. /\ \A x \in 1 .. d : \E k \in 1 .. n :
             x = starts[k - 1] + 1 \/ \E j \in 1 .. size(k) : x = starts[k - 1] + 1 + j
        /\ \A k \in 1 .. n : z[d + k] = Listed(starts[k - 1], size(k))
    BY <1>20, <1>21
  <2> QED
    BY <2>1, <2>2, <2>3 DEF Laid, d, n, size
<1> QED
  BY <1>1, <1>22 DEF z, three, two, joined

(* Which kind of cell is which.                                            *)
LEMMA CellKinds ==
  /\ Data.t = "data" /\ \A n : Local(n).t = "local"
  /\ \A off, n : Listed(off, n).t = "cd" /\ Listed(off, n).local = off /\ Listed(off, n).size = n
  /\ \A count, off, comment :
       LET end == End(count, off, comment)
       IN end.t = "eocd" /\ end.count = count /\ end.off = off /\ end.comment = comment
BY DEF Data, Local, Listed, End

(* What an end record says are numbers.                                    *)
LEMMA EndCells ==
  ASSUME NEW cell \in Cells, cell.t = "eocd"
  PROVE  cell.count \in Nat /\ cell.off \in Nat /\ cell.comment \in Nat
<1>1. cell \in {End(count, off, comment) : count, off, comment \in Nat}
  BY CellKinds DEF Cells
<1>2. PICK count \in Nat, off \in Nat, comment \in Nat : cell = End(count, off, comment)
  BY <1>1
<1> QED
  BY <1>2, CellKinds

(* FindEocd finds an end record that fits, and the last that does.         *)
LEMMA FoundFits ==
  ASSUME NEW z \in Seq(Cells)
  PROVE  /\ FindEocd(z) # 0 => /\ FindEocd(z) \in 1 .. Len(z) /\ z[FindEocd(z)].t = "eocd"
                               /\ FindEocd(z) + z[FindEocd(z)].comment = Len(z)
         /\ \A i \in 1 .. Len(z) :
              z[i].t = "eocd" /\ i + z[i].comment = Len(z) => FindEocd(z) # 0 /\ i <= FindEocd(z)
<1> DEFINE fit == {i \in EndRecords(z) : i + z[i].comment = Len(z)}
           last == CHOOSE i \in fit : \A k \in fit : k <= i
<1>1. FindEocd(z) = IF fit = {} THEN 0 ELSE last
  BY DEF FindEocd
<1>2. DOMAIN z = 1 .. Len(z) /\ Len(z) \in Nat
  OBVIOUS
<1>3. \A i : i \in fit <=> i \in 1 .. Len(z) /\ z[i].t = "eocd" /\ i + z[i].comment = Len(z)
  BY <1>2 DEF EndRecords
<1> HIDE DEF fit
<1>4. ASSUME fit # {} PROVE last \in fit /\ \A k \in fit : k <= last
  <2>1. fit \in SUBSET (0 .. Len(z))
    BY <1>2, <1>3
  <2>2. \E i \in fit : \A k \in fit : k <= i
    BY <1>2, <1>4, <2>1, LargestExists
  <2> QED
    BY <2>2
<1> HIDE DEF last
<1> QED
  BY <1>1, <1>3, <1>4

(* Behind the files' cells, the one end record is the archive's own.       *)
LEMMA EndBehindFiles ==
  ASSUME NEW stored \in Seq(Seq(Cells)), NEW comment \in Nat, NEW z, NEW starts,
         Laid(z, stored, comment, starts),
         NEW x \in starts[Len(stored)] + 1 .. Len(z), z[x].t = "eocd"
  PROVE  x = starts[Len(stored)] + Len(stored) + 1
<1> DEFINE n == Len(stored)
           d == starts[n]
<1>1. n \in Nat /\ d \in Nat
  <2>1. n \in Nat /\ n \in 0 .. n
    OBVIOUS
  <2>2. starts \in [0 .. n -> Nat]
    BY DEF Laid
  <2> HIDE DEF n
  <2> QED
    BY <2>1, <2>2
<1>2. /\ Len(z) = d + n + 1 + comment /\ \A k \in 1 .. n : z[d + k].t # "eocd"
      /\ \A y \in 1 .. comment : z[d + n + 1 + y].t # "eocd"
  <2>1. /\ Len(z) = d + n + 1 + comment
        /\ \A k \in 1 .. n : z[d + k] = Listed(starts[k - 1], Len(stored[k]))
        /\ \A y \in 1 .. comment : z[d + n + 1 + y] = Data
    BY DEF Laid
  <2> HIDE DEF n, d
  <2> QED
    BY <2>1, CellKinds
<1>3. x \in d + 1 .. Len(z)
  OBVIOUS
<1> HIDE DEF n, d
<1>4. x - d \notin 1 .. n
  <2>1. d + (x - d) = x
    BY <1>1, <1>3
  <2> QED
    BY <1>2, <2>1
<1>5. x - (d + n + 1) \notin 1 .. comment
  <2>1. d + n + 1 + (x - (d + n + 1)) = x
    BY <1>1, <1>3
  <2> QED
    BY <1>2, <2>1
<1>6. x = d + n + 1
  <2>1. x \in Int /\ x >= d + 1 /\ x <= d + n + 1 + comment
    BY <1>1, <1>2, <1>3
  <2> QED
    BY <1>1, <1>4, <1>5, <2>1
<1> QED
  BY <1>6 DEF n, d

(* A whole archive lists its files, each where its data is.                *)
THEOREM WholeArchivesAreRead ==
  ASSUME NEW stored \in Seq(Seq(Cells)), stored # <<>>, NEW comment \in Nat
  PROVE  LET whole  == Pack(stored, comment)
             listed == ReadCentralDirectory(whole)
         IN /\ listed \in Seq(Cells) /\ Len(listed) = Len(stored)
            /\ \A i \in 1 .. Len(stored) :
                 LET at == EntryData(whole, listed[i])
                 IN /\ at # 0 /\ listed[i].size = Len(stored[i])
                    /\ \A j \in 1 .. Len(stored[i]) : whole[at + j] = stored[i][j]
<1> DEFINE z == Pack(stored, comment)
           n == Len(stored)
           size(k) == Len(stored[k])
           es == ReadCentralDirectory(z)
<1>1. PICK starts : Laid(z, stored, comment, starts)
  BY PackIsLaid
<1> DEFINE d == starts[n]
           e == d + n + 1
<1>2. n \in Nat \ {0} /\ \A k \in 1 .. n : size(k) \in Nat
  BY EmptySeq
<1> HIDE DEF z
<1>3. /\ z \in Seq(Cells) /\ Len(z) = d + n + 1 + comment
      /\ starts \in [0 .. n -> Nat] /\ starts[0] = 0
      /\ \A k \in 1 .. n : starts[k] = starts[k - 1] + 1 + size(k) /\ starts[k] <= d
      /\ \A k \in 1 .. n : z[starts[k - 1] + 1] = Local(size(k))
      /\ \A k \in 1 .. n : \A j \in 1 .. size(k) : z[starts[k - 1] + 1 + j] = stored[k][j]
      /\ \A k \in 1 .. n : z[d + k] = Listed(starts[k - 1], size(k))
      /\ z[d + n + 1] = End(n, d, comment)
  BY <1>1 DEF Laid
<1>4. \A x \in d + 1 .. Len(z) : z[x].t = "eocd" => x = e
  BY <1>1, EndBehindFiles
<1> HIDE DEF n, size
<1>5. d \in Nat
  BY <1>2, <1>3
<1> HIDE DEF d
<1>6. FindEocd(z) = e
  <2>1. e \in 1 .. Len(z) /\ z[e].t = "eocd" /\ z[e].comment = comment /\ e + comment = Len(z)
    BY <1>2, <1>3, <1>5, CellKinds
  <2> HIDE DEF e
  <2>2. FindEocd(z) # 0 /\ e <= FindEocd(z)
    BY <1>3, <2>1, FoundFits
  <2>3. FindEocd(z) \in 1 .. Len(z) /\ z[FindEocd(z)].t = "eocd"
    BY <1>3, <2>2, FoundFits
  <2>4. FindEocd(z) \in d + 1 .. Len(z)
    BY <1>2, <1>5, <2>1, <2>2, <2>3 DEF e
  <2> QED
    BY <1>4, <2>3, <2>4
<1>7. es = SubSeq(z, d + 1, d + n)
  <2>1. e # 0 /\ z[e].off = d /\ z[e].count = n
    BY <1>2, <1>3, <1>5, CellKinds
  <2>2. d + n <= Len(z)
    BY <1>2, <1>3, <1>5
  <2>3. \A i \in 1 .. n : z[d + i].t = "cd"
    BY <1>3, CellKinds
  <2> HIDE DEF e
  <2> QED
    BY <1>6, <2>1, <2>2, <2>3 DEF ReadCentralDirectory
<1>8. es \in Seq(Cells) /\ Len(es) = n /\ \A i \in 1 .. n : es[i] = Listed(starts[i - 1], size(i))
  <2>1. d + 1 \in 1 .. Len(z) + 1 /\ d + n \in d .. Len(z)
    BY <1>2, <1>3, <1>5
  <2> DEFINE part == SubSeq(z, d + 1, d + n)
  <2>2. part \in Seq(Cells)
    BY <1>2, <1>3, <1>5, <2>1
  <2>3. Len(part) = n
    BY <1>2, <1>3, <1>5, <2>1
  <2>4. \A i \in 1 .. n : part[i] = z[d + i]
    BY <1>2, <1>3, <1>5, <2>1
  <2> HIDE DEF es
  <2> QED
    BY <1>3, <1>7, <2>2, <2>3, <2>4
<1> HIDE DEF es
<1>9. ASSUME NEW i \in 1 .. n
      PROVE  /\ EntryData(z, es[i]) = starts[i - 1] + 1 /\ starts[i - 1] + 1 # 0 /\ es[i].size = size(i)
             /\ \A j \in 1 .. size(i) : z[starts[i - 1] + 1 + j] = stored[i][j]
  <2> DEFINE s == starts[i - 1]
  <2>1. s \in Nat /\ size(i) \in Nat /\ s + 1 + size(i) <= d
    <3>1. i - 1 \in 0 .. n
      BY <1>2
    <3> QED
      BY <1>2, <1>3, <3>1
  <2>2. es[i].local = s /\ es[i].size = size(i)
    BY <1>8, CellKinds
  <2>3. z[s + 1].t = "local" /\ \A j \in 1 .. size(i) : z[s + 1 + j] = stored[i][j]
    BY <1>3, CellKinds
  <2> HIDE DEF s
  <2>4. s + 1 <= Len(z) /\ s + 1 + size(i) <= Len(z) /\ s + 1 # 0
    <3>1. Len(z) = d + n + 1 + comment
      BY <1>3
    <3>2. s \in Nat /\ size(i) \in Nat /\ s + 1 + size(i) <= d
      BY <2>1
    <3>3. s + 1 <= d + n + 1 + comment /\ s + 1 + size(i) <= d + n + 1 + comment /\ s + 1 # 0
      BY <1>2, <1>5, <3>2
    <3> QED
      BY <3>1, <3>3
  <2>5. EntryData(z, es[i]) = s + 1
    BY <2>2, <2>3, <2>4 DEF EntryData
  <2> QED
    BY <2>2, <2>3, <2>4, <2>5 DEF s
<1> QED
  BY <1>8, <1>9 DEF z, n, size, es

(* What is stored looks like no directory at its beginning, and a record   *)
(* in it that lists something says that its directory begins at 2.         *)
Harmless(body) ==
  /\ \A p \in DOMAIN body : p <= 2 => body[p].t # "cd"
  /\ \A p \in DOMAIN body : body[p].t = "eocd" /\ body[p].count # 0 => p > 1 /\ body[p].off = 2

(* A cut archive of such files lists nothing.                              *)
THEOREM CutArchivesAreRefused ==
  ASSUME NEW stored \in Seq(Seq(Cells)), \A k \in 1 .. Len(stored) : Harmless(stored[k]),
         NEW comment \in Nat, NEW m \in 0 .. Len(Pack(stored, comment)) - 1
  PROVE  ReadCentralDirectory(SubSeq(Pack(stored, comment), 1, m)) = <<>>
<1> DEFINE z == Pack(stored, comment)
           cut == SubSeq(z, 1, m)
           n == Len(stored)
           size(k) == Len(stored[k])
           e == FindEocd(cut)
<1>1. PICK starts : Laid(z, stored, comment, starts)
  BY PackIsLaid
<1> DEFINE d == starts[n]
<1>0. m \in 0 .. Len(z) - 1
  OBVIOUS
<1>2. n \in Nat /\ \A k \in 1 .. n : size(k) \in Nat /\ DOMAIN stored[k] = 1 .. size(k)
  OBVIOUS
<1> HIDE DEF z
<1>3. /\ z \in Seq(Cells) /\ Len(z) = d + n + 1 + comment
      /\ starts \in [0 .. n -> Nat]
      /\ \A k \in 1 .. n : z[starts[k - 1] + 1] = Local(size(k))
      /\ \A k \in 1 .. n : \A j \in 1 .. size(k) : z[starts[k - 1] + 1 + j] = stored[k][j]
      /\ \A x \in 1 .. d : \E k \in 1 .. n :
           x = starts[k - 1] + 1 \/ \E j \in 1 .. size(k) : x = starts[k - 1] + 1 + j
      /\ z[d + n + 1] = End(n, d, comment)
  BY <1>1 DEF Laid
<1>4. \A x \in d + 1 .. Len(z) : z[x].t = "eocd" => x = d + n + 1
  BY <1>1, EndBehindFiles
<1>5. \A k \in 1 .. n : Harmless(stored[k])
  OBVIOUS
<1>6. cut \in Seq(Cells) /\ Len(cut) = m /\ \A i \in 1 .. m : cut[i] = z[i]
  BY <1>0, <1>3
<1> HIDE DEF n, size, cut
<1>7. d \in Nat /\ \A k \in 1 .. n : starts[k - 1] \in Nat
  <2>1. n \in 0 .. n /\ \A k \in 1 .. n : k - 1 \in 0 .. n
    BY <1>2
  <2> QED
    BY <1>3, <2>1
<1> HIDE DEF d, e
<1> SUFFICES ASSUME ReadCentralDirectory(cut) # <<>> PROVE FALSE
  BY DEF z, cut
<1>8. /\ e # 0 /\ cut[e].off + cut[e].count <= Len(cut)
      /\ \A i \in 1 .. cut[e].count : cut[cut[e].off + i].t = "cd"
      /\ SubSeq(cut, cut[e].off + 1, cut[e].off + cut[e].count) # <<>>
  BY DEF ReadCentralDirectory, e
<1>9. e \in 1 .. m /\ cut[e].t = "eocd" /\ e + cut[e].comment = m
  BY <1>6, <1>8, FoundFits DEF e
<1>10. /\ cut[e] = z[e] /\ cut[e] \in Cells
       /\ cut[e].count \in Nat /\ cut[e].off \in Nat /\ cut[e].comment \in Nat
  <2>1. cut[e] = z[e] /\ cut[e] \in Cells
    BY <1>6, <1>9
  <2> QED
    BY <1>9, <2>1, EndCells
(* The record is in a file: the archive's own fits the whole only.         *)
<1>11. e \in 1 .. d
  <2>1. CASE e \in d + 1 .. Len(z)
    <3>1. e = d + n + 1
      BY <1>4, <1>9, <1>10, <2>1
    <3>2. cut[e].comment = comment
      BY <1>3, <1>10, <3>1, CellKinds
    <3>3. e + comment = m /\ Len(z) = e + comment
      BY <1>3, <1>9, <3>1, <3>2
    <3> QED
      BY <1>0, <3>3
  <2>2. e \in Nat /\ e <= Len(z) /\ e # 0 /\ Len(z) \in Nat
    BY <1>0, <1>3, <1>9
  <2> QED
    BY <1>7, <2>1, <2>2
<1>12. PICK k \in 1 .. n : e = starts[k - 1] + 1 \/ \E j \in 1 .. size(k) : e = starts[k - 1] + 1 + j
  BY <1>3, <1>11
<1>13. e # starts[k - 1] + 1
  <2>1. Local(size(k)).t = "local"
    BY CellKinds
  <2> QED
    BY <1>3, <1>9, <1>10, <2>1
<1>14. PICK j \in 1 .. size(k) : e = starts[k - 1] + 1 + j
  BY <1>12, <1>13
<1>15. cut[e] = stored[k][j] /\ j \in DOMAIN stored[k]
  BY <1>2, <1>3, <1>10, <1>14
<1>16. cut[e].count # 0
  <2> DEFINE off == cut[e].off
  <2>1. SubSeq(cut, off + 1, off + 0) = <<>>
    <3>1. cut \in Seq(Cells) /\ off \in Nat
      BY <1>6, <1>10
    <3> HIDE DEF off
    <3> QED
      BY <3>1
  <2>2. off + 0 = off
    BY <1>10
  <2> QED
    BY <1>8, <2>1, <2>2
<1>17. j > 1 /\ cut[e].off = 2
  BY <1>5, <1>9, <1>15, <1>16 DEF Harmless
(* So its directory would begin where no file has one.                     *)
<1>18. 3 \in 1 .. m /\ z[3].t = "cd"
  <2>1. 1 \in 1 .. cut[e].count /\ 2 + cut[e].count <= m
    BY <1>6, <1>8, <1>10, <1>16, <1>17
  <2>2. cut[2 + 1].t = "cd" /\ 2 + 1 = 3
    BY <1>8, <1>17, <2>1
  <2>3. 3 \in 1 .. m
    BY <1>0, <1>10, <2>1
  <2> QED
    BY <1>6, <2>2, <2>3
<1>19. 3 \in 1 .. d
  BY <1>2, <1>7, <1>11, <1>14, <1>17, SMTT(30)
<1>20. PICK f \in 1 .. n : 3 = starts[f - 1] + 1 \/ \E p \in 1 .. size(f) : 3 = starts[f - 1] + 1 + p
  BY <1>3, <1>19
<1>21. 3 # starts[f - 1] + 1
  <2>1. Local(size(f)).t = "local"
    BY CellKinds
  <2> QED
    BY <1>3, <1>18, <2>1
<1>22. PICK p \in 1 .. size(f) : 3 = starts[f - 1] + 1 + p
  BY <1>20, <1>21
<1>23. z[3] = stored[f][p] /\ p \in DOMAIN stored[f] /\ p <= 2
  <2>1. z[3] = stored[f][p] /\ p \in DOMAIN stored[f]
    BY <1>2, <1>3, <1>22
  <2>2. starts[f - 1] \in Nat /\ p \in Nat
    BY <1>2, <1>7
  <2> DEFINE s == starts[f - 1]
  <2>3. s \in Nat /\ 3 = s + 1 + p
    BY <1>22, <2>2
  <2> HIDE DEF s
  <2>4. p <= 2
    BY <2>2, <2>3
  <2> QED
    BY <2>1, <2>4
<1> QED
  BY <1>5, <1>18, <1>23 DEF Harmless

(* An archive of one file of plain data, stored in another, is harmless.   *)
LEMMA NestedIsHarmless ==
  ASSUME NEW comment \in Nat
  PROVE  Pack(<<Plain>>, comment) \in Seq(Cells) /\ Harmless(Pack(<<Plain>>, comment))
<1> DEFINE stored == <<Plain>>
           z == Pack(stored, comment)
<1>1. Plain = <<Data>> /\ Data \in Cells
  BY CellsAre DEF Plain
<1>2. Plain \in Seq(Cells) /\ Len(Plain) = 1 /\ Plain[1] = Data
  BY <1>1
<1>3. stored \in Seq(Seq(Cells)) /\ Len(stored) = 1 /\ stored[1] = Plain
  BY <1>2
<1> HIDE DEF stored
<1>4. PICK starts : Laid(z, stored, comment, starts)
  BY <1>3, PackIsLaid
<1> HIDE DEF z
<1>5. /\ z \in Seq(Cells) /\ starts[0] = 0 /\ starts[1] = starts[1 - 1] + 1 + 1
      /\ Len(z) = starts[1] + 1 + 1 + comment
      /\ z[starts[1 - 1] + 1] = Local(1) /\ z[starts[1 - 1] + 1 + 1] = Data
      /\ z[starts[1] + 1] = Listed(starts[1 - 1], 1) /\ z[starts[1] + 1 + 1] = End(1, starts[1], comment)
      /\ \A x \in 1 .. comment : z[starts[1] + 1 + 1 + x] = Data
  <2>1. 1 \in 1 .. 1
    OBVIOUS
  <2> QED
    BY <1>2, <1>3, <1>4, <2>1, ZenonT(30) DEF Laid
<1>6. /\ starts[1] = 2 /\ Len(z) = 4 + comment /\ z[1] = Local(1) /\ z[2] = Data
      /\ z[3] = Listed(0, 1) /\ z[4] = End(1, 2, comment) /\ \A x \in 1 .. comment : z[4 + x] = Data
  <2>1. 1 - 1 = 0 /\ starts[1] = 2
    BY <1>5
  <2>2. starts[1] + 1 + 1 = 4 /\ starts[1] + 1 = 3 /\ starts[1 - 1] + 1 = 1 /\ starts[1 - 1] + 1 + 1 = 2
        /\ starts[1 - 1] = 0
    BY <1>5, <2>1
  <2>3. Len(z) = 4 + comment
    BY <1>5, <2>2
  <2> QED
    BY <1>5, <2>1, <2>2, <2>3
<1>7. DOMAIN z = 1 .. 4 + comment
  BY <1>5, <1>6
<1>8. \A p \in 5 .. 4 + comment : z[p] = Data
  <2> TAKE p \in 5 .. 4 + comment
  <2>1. p - 4 \in 1 .. comment /\ 4 + (p - 4) = p
    OBVIOUS
  <2> QED
    BY <1>6, <2>1
<1>9. ASSUME NEW p \in DOMAIN z
      PROVE  p \in {1, 2, 3, 4} \/ p \in 5 .. 4 + comment
  BY <1>7
<1>10. \A p \in DOMAIN z : p <= 2 => z[p].t # "cd"
  <2> TAKE p \in DOMAIN z
  <2>1. p <= 2 => p \in {1, 2}
    BY <1>9
  <2>2. z[1].t = "local" /\ z[2].t = "data"
    BY <1>6, CellKinds
  <2> QED
    BY <2>1, <2>2
<1>11. \A p \in DOMAIN z : z[p].t = "eocd" => p = 4
  <2> TAKE p \in DOMAIN z
  <2>1. z[1].t = "local" /\ z[2].t = "data" /\ z[3].t = "cd" /\ \A q \in 5 .. 4 + comment : z[q].t = "data"
    BY <1>6, <1>8, CellKinds
  <2> QED
    BY <1>9, <2>1
<1>12. z[4].off = 2
  BY <1>6, CellKinds
<1>13. Harmless(z)
  BY <1>10, <1>11, <1>12 DEF Harmless
<1> QED
  BY <1>5, <1>13 DEF z, stored

(* So is an empty one.                                                     *)
LEMMA EmptyIsHarmless ==
  Pack(<<>>, 0) \in Seq(Cells) /\ Harmless(Pack(<<>>, 0))
<1> DEFINE stored == <<>>
           z == Pack(stored, 0)
<1>1. stored \in Seq(Seq(Cells)) /\ Len(stored) = 0
  OBVIOUS
<1> HIDE DEF stored
<1>2. PICK starts : Laid(z, stored, 0, starts)
  <2>1. 0 \in Nat
    OBVIOUS
  <2> QED
    BY <1>1, <2>1, PackIsLaid
<1> HIDE DEF z
<1>3. z \in Seq(Cells) /\ starts[0] = 0 /\ Len(z) = starts[0] + 0 + 1 + 0 /\ z[starts[0] + 0 + 1] = End(0, starts[0], 0)
  BY <1>1, <1>2 DEF Laid
<1>4. DOMAIN z = 1 .. 1 /\ z[1] = End(0, 0, 0)
  BY <1>3
<1>5. \A p \in DOMAIN z : z[p].t = "eocd" /\ z[p].count = 0
  BY <1>4, CellKinds
<1>6. Harmless(z)
  BY <1>5 DEF Harmless
<1> QED
  BY <1>3, <1>6 DEF z, stored

(* And so is whatever FixCases stores.                                     *)
LEMMA BodiesAreHarmless ==
  \A body \in Bodies : body \in Seq(Cells) /\ Harmless(body)
<1>1. Data \in Cells /\ Data.t = "data"
  BY CellsAre, CellKinds
<1>2. Plain \in Seq(Cells) /\ Harmless(Plain)
  <2>1. Plain = <<Data>>
    BY DEF Plain
  <2>2. DOMAIN <<Data>> = 1 .. 1 /\ <<Data>>[1] = Data
    OBVIOUS
  <2>3. <<Data>> \in Seq(Cells)
    BY <1>1
  <2>4. \A p \in DOMAIN <<Data>> : <<Data>>[p].t = "data"
    BY <1>1, <2>2
  <2> QED
    BY <2>1, <2>3, <2>4 DEF Harmless
<1>3. <<Data, Data>> \in Seq(Cells) /\ Harmless(<<Data, Data>>)
  <2>1. DOMAIN <<Data, Data>> = {1, 2} /\ <<Data, Data>>[1] = Data /\ <<Data, Data>>[2] = Data
    OBVIOUS
  <2>2. \A p \in DOMAIN <<Data, Data>> : <<Data, Data>>[p].t = "data"
    BY <1>1, <2>1
  <2> QED
    BY <1>1, <2>2 DEF Harmless
<1>4. 0 \in Nat /\ 1 \in Nat
  OBVIOUS
<1>5. Bodies = {Plain, <<Data, Data>>, Pack(<<Plain>>, 0), Pack(<<>>, 0), Pack(<<Plain>>, 1)}
  BY DEF Bodies, Nested
<1>6. Nested = Pack(<<Plain>>, 0)
  BY DEF Nested
<1> QED
  BY <1>2, <1>3, <1>4, <1>5, NestedIsHarmless, EmptyIsHarmless

(* CutInstallsNothing, for each archive of FixCases.                       *)
LEMMA ArchivesInstallWholeOnly ==
  ASSUME given.of = "archive", given.z \in Archives
  PROVE  CutInstallsNothing
<1> DEFINE z == given.z
           es == ReadCentralDirectory(z)
<1>1. PICK stored \in {<<b>> : b \in Bodies} \cup {<<b, d>> : b, d \in Bodies}, comment \in 0 .. 2 :
        z = Pack(stored, comment)
  BY DEF Archives
<1>2. comment \in Nat
  OBVIOUS
<1>3. /\ stored \in Seq(Seq(Cells)) /\ stored # <<>> /\ Len(stored) \in 1 .. 2
      /\ \A k \in 1 .. Len(stored) : Harmless(stored[k])
  <2>1. CASE stored \in {<<b>> : b \in Bodies}
    <3>1. PICK b \in Bodies : stored = <<b>>
      BY <2>1
    <3>2. b \in Seq(Cells) /\ Harmless(b)
      BY BodiesAreHarmless
    <3>3. <<b>> \in Seq(Seq(Cells)) /\ Len(<<b>>) = 1 /\ <<b>>[1] = b /\ <<b>> # <<>>
      BY <3>2
    <3> QED
      BY <3>1, <3>2, <3>3
  <2>2. CASE stored \in {<<b, d>> : b, d \in Bodies}
    <3>1. PICK b \in Bodies, d \in Bodies : stored = <<b, d>>
      BY <2>2
    <3>2. b \in Seq(Cells) /\ Harmless(b) /\ d \in Seq(Cells) /\ Harmless(d)
      BY BodiesAreHarmless
    <3>3. <<b, d>> \in Seq(Seq(Cells)) /\ Len(<<b, d>>) = 2 /\ <<b, d>>[1] = b /\ <<b, d>>[2] = d /\ <<b, d>> # <<>>
      BY <3>2
    <3>4. 1 .. 2 = {1, 2}
      OBVIOUS
    <3> QED
      BY <3>1, <3>2, <3>3, <3>4
  <2> QED
    BY <2>1, <2>2
<1> HIDE DEF z
<1>4. \A m \in 0 .. Len(z) - 1 : ReadCentralDirectory(SubSeq(z, 1, m)) = <<>>
  BY <1>1, <1>2, <1>3, CutArchivesAreRefused
<1>5. es \in Seq(Cells) /\ Len(es) = Len(stored) /\ \A i \in 1 .. Len(stored) : EntryData(z, es[i]) # 0
  BY <1>1, <1>2, <1>3, WholeArchivesAreRead
<1> HIDE DEF es
<1>6. es # <<>> /\ \A i \in DOMAIN es : EntryData(z, es[i]) # 0
  <2>1. DOMAIN es = 1 .. Len(es)
    BY <1>5
  <2>2. Len(es) # 0
    BY <1>3, <1>5
  <2> QED
    BY <1>5, <2>1, <2>2
<1> QED
  BY <1>4, <1>6 DEF CutInstallsNothing, z, es

(* The order in which the names listed so far stand: each known one once,  *)
(* and behind those listed before it.                                      *)
IsOrderOf(order, names, n, builtIn) ==
  /\ order \in Seq(ToSet(builtIn))
  /\ \A k \in 1 .. n : names[k] \in ToSet(builtIn) => \E a \in DOMAIN order : order[a] = names[k]
  /\ \A a \in DOMAIN order : \E k \in 1 .. n : names[k] = order[a]
  /\ \A a, b \in DOMAIN order :
       a < b => \E k \in 1 .. n : names[k] = order[a] /\ \A m \in 1 .. k : names[m] # order[b]

(* One more name keeps it so.                                              *)
LEMMA OrderGrows ==
  ASSUME NEW T, NEW names \in Seq(T), NEW builtIn, NEW n \in 1 .. Len(names),
         NEW before, IsOrderOf(before, names, n - 1, builtIn)
  PROVE  IsOrderOf(IF Known(builtIn, names[n]) /\ names[n] \notin ToSet(before)
                     THEN Append(before, names[n]) ELSE before, names, n, builtIn)
<1> DEFINE B == ToSet(builtIn)
<1>1. /\ before \in Seq(B)
      /\ \A k \in 1 .. n - 1 : names[k] \in B => \E a \in DOMAIN before : before[a] = names[k]
      /\ \A a \in DOMAIN before : \E k \in 1 .. n - 1 : names[k] = before[a]
      /\ \A a, b \in DOMAIN before :
           a < b => \E k \in 1 .. n - 1 : names[k] = before[a] /\ \A m \in 1 .. k : names[m] # before[b]
  BY DEF IsOrderOf
<1>2. ToSet(before) = {before[a] : a \in DOMAIN before}
  BY DEF ToSet
<1>3. \A k \in 1 .. n - 1 : k \in 1 .. n
  OBVIOUS
<1>4. \A k \in 1 .. n : k \in 1 .. n - 1 \/ k = n
  OBVIOUS
<1>5. DOMAIN before = 1 .. Len(before) /\ Len(before) \in Nat
  BY <1>1
<1>6. Known(builtIn, names[n]) <=> names[n] \in B
  BY DEF Known
<1> HIDE DEF B
<1>7. CASE ~ (Known(builtIn, names[n]) /\ names[n] \notin ToSet(before))
  <2>1. names[n] \in B => \E a \in DOMAIN before : before[a] = names[n]
    BY <1>2, <1>6, <1>7
  <2>2. IsOrderOf(before, names, n, builtIn)
    BY <1>1, <1>3, <1>4, <2>1 DEF IsOrderOf, B
  <2> QED
    BY <1>7, <2>2
<1>8. CASE Known(builtIn, names[n]) /\ names[n] \notin ToSet(before)
  <2> DEFINE more == Append(before, names[n])
             last == Len(before) + 1
  <2>1. names[n] \in B
    BY <1>6, <1>8
  <2>2. /\ more \in Seq(B) /\ DOMAIN more = 1 .. last /\ more[last] = names[n]
        /\ \A a \in 1 .. Len(before) : more[a] = before[a]
    BY <1>1, <2>1
  <2>3. last \in DOMAIN more /\ \A a \in DOMAIN before : a \in DOMAIN more /\ a < last
    BY <1>5, <2>2
  <2>4. \A a \in DOMAIN more : a \in DOMAIN before \/ a = last
    BY <1>5, <2>2
  <2> HIDE DEF more, last
  <2>5. \A a \in DOMAIN before : more[a] = before[a]
    BY <1>5, <2>2
  <2>6. \A k \in 1 .. n - 1 : names[k] # names[n]
    BY <1>1, <1>2, <1>8, <2>1
  <2>7. ASSUME NEW k \in 1 .. n, names[k] \in B PROVE \E a \in DOMAIN more : more[a] = names[k]
    <3>1. CASE k = n
      BY <2>2, <2>3, <3>1
    <3>2. CASE k \in 1 .. n - 1
      <4>1. PICK a \in DOMAIN before : before[a] = names[k]
        BY <1>1, <2>7, <3>2
      <4> QED
        BY <2>3, <2>5, <4>1
    <3> QED
      BY <1>4, <3>1, <3>2
  <2>8. ASSUME NEW a \in DOMAIN more PROVE \E k \in 1 .. n : names[k] = more[a]
    BY <1>1, <1>3, <2>2, <2>4, <2>5
  <2>9. ASSUME NEW a \in DOMAIN more, NEW b \in DOMAIN more, a < b
        PROVE  \E k \in 1 .. n : names[k] = more[a] /\ \A m \in 1 .. k : names[m] # more[b]
    <3>1. a \in DOMAIN before
      BY <1>5, <2>2, <2>9 DEF last
    <3>2. CASE b \in DOMAIN before
      <4>1. more[a] = before[a] /\ more[b] = before[b]
        BY <2>5, <3>1, <3>2
      <4>2. PICK k \in 1 .. n - 1 : names[k] = before[a] /\ \A m \in 1 .. k : names[m] # before[b]
        BY <1>1, <2>9, <3>1, <3>2
      <4> QED
        BY <1>3, <4>1, <4>2
    <3>3. CASE b = last
      <4>1. PICK k \in 1 .. n - 1 : names[k] = before[a]
        BY <1>1, <3>1
      <4>2. \A m \in 1 .. k : m \in 1 .. n - 1
        OBVIOUS
      <4> QED
        BY <1>3, <2>2, <2>5, <2>6, <3>1, <3>3, <4>1, <4>2
    <3> QED
      BY <2>4, <3>2, <3>3
  <2>10. IsOrderOf(more, names, n, builtIn)
    BY <2>2, <2>7, <2>8, <2>9 DEF IsOrderOf, B
  <2> QED
    BY <1>8, <2>10 DEF more
<1> QED
  BY <1>7, <1>8

(* EffectiveOrder is such an order of all the names.                       *)
LEMMA OrderIsOf ==
  ASSUME NEW T, NEW configured \in Seq(T), NEW builtIn \in Seq(T)
  PROVE  IsOrderOf(EffectiveOrder(configured, builtIn), configured \o builtIn,
                   Len(configured \o builtIn), builtIn)
<1> DEFINE names == configured \o builtIn
           B     == ToSet(builtIn)
           last  == Len(names)
           grown(i, before) ==
             IF Known(builtIn, names[i]) /\ names[i] \notin ToSet(before)
               THEN Append(before, names[i]) ELSE before
           Is(f) == f = [i \in 0 .. last |-> IF i = 0 THEN <<>> ELSE grown(i, f[i - 1])]
           order == CHOOSE f : Is(f)
           step  == [q \in (1 .. last) \X Seq(B) |-> grown(q[1], q[2])]
<1>1. names \in Seq(T) /\ last \in Nat
  OBVIOUS
<1>2. EffectiveOrder(configured, builtIn) = order[last]
  BY DEF EffectiveOrder
<1>3. last = Len(names)
  OBVIOUS
<1> HIDE DEF names, last
<1>4. step \in [(1 .. last) \X Seq(B) -> Seq(B)]
  <2>1. ASSUME NEW q \in (1 .. last) \X Seq(B) PROVE grown(q[1], q[2]) \in Seq(B)
    <3>1. q[2] \in Seq(B)
      OBVIOUS
    <3>2. Known(builtIn, names[q[1]]) => names[q[1]] \in B
      BY DEF Known
    <3> HIDE DEF B
    <3> QED
      BY <3>1, <3>2
  <2> HIDE DEF grown
  <2> QED
    BY <2>1
<1>5. \A i \in 1 .. last, v \in Seq(B) : step[<<i, v>>] = grown(i, v)
  <2> HIDE DEF grown
  <2> QED
    OBVIOUS
<1> HIDE DEF step
<1>6. PICK run : IsRun(run, Seq(B), <<>>, last, step)
  <2>1. <<>> \in Seq(B)
    OBVIOUS
  <2> HIDE DEF B
  <2> QED
    BY <1>1, <1>4, <2>1, RunExists
<1>7. run \in [0 .. last -> Seq(B)] /\ run[0] = <<>> /\ \A i \in 1 .. last : run[i] = step[<<i, run[i - 1]>>]
  BY <1>6 DEF IsRun
<1>8. ASSUME NEW i \in 1 .. last
      PROVE  i \in 0 .. last /\ i # 0 /\ i - 1 \in 0 .. last /\ run[i] = grown(i, run[i - 1])
  <2>1. i \in 0 .. last /\ i # 0 /\ i - 1 \in 0 .. last
    BY <1>1
  <2>2. run[i - 1] \in Seq(B)
    BY <1>7, <2>1
  <2> HIDE DEF B, grown
  <2> QED
    BY <1>5, <1>7, <2>1, <2>2
<1>9. Is(run)
  <2>1. ASSUME NEW i \in 0 .. last PROVE run[i] = IF i = 0 THEN <<>> ELSE grown(i, run[i - 1])
    <3>1. i = 0 \/ i \in 1 .. last
      BY <1>1
    <3> HIDE DEF grown
    <3> QED
      BY <1>7, <1>8, <3>1
  <2>2. run = [i \in 0 .. last |-> run[i]]
    BY <1>7
  <2> HIDE DEF grown
  <2> QED
    BY <2>1, <2>2
<1>10. Is(order)
  <2> HIDE DEF Is
  <2> QED
    BY <1>9
<1>11. ASSUME NEW i \in 0 .. last PROVE order[i] = IF i = 0 THEN <<>> ELSE grown(i, order[i - 1])
  <2> HIDE DEF order, grown
  <2> QED
    BY <1>10
<1> HIDE DEF order, Is
<1> DEFINE Good == {i \in 0 .. last : IsOrderOf(order[i], names, i, builtIn)}
<1>12. 0 \in Good
  <2>1. order[0] = <<>> /\ 0 \in 0 .. last
    <3> HIDE DEF grown
    <3> QED
      BY <1>1, <1>11
  <2>2. IsOrderOf(<<>>, names, 0, builtIn)
    BY DEF IsOrderOf
  <2> QED
    BY <2>1, <2>2
<1>13. ASSUME NEW i \in 0 .. last - 1, i \in Good PROVE i + 1 \in Good
  <2> DEFINE j == i + 1
  <2>1. j \in 1 .. Len(names) /\ j \in 0 .. last /\ j # 0 /\ j - 1 = i
    BY <1>1, <1>3
  <2> HIDE DEF j, grown
  <2>2. order[j] = grown(j, order[i])
    BY <1>11, <2>1
  <2>3. IsOrderOf(order[i], names, j - 1, builtIn)
    BY <1>13, <2>1
  <2>4. IsOrderOf(grown(j, order[i]), names, j, builtIn)
    BY <1>1, <2>1, <2>3, OrderGrows DEF grown
  <2> QED
    BY <2>1, <2>2, <2>4 DEF j
<1> HIDE DEF Good
<1>14. last \in Good
  <2>1. \A i \in 0 .. last : i \in Good
    BY <1>1, <1>12, <1>13, Upward
  <2> QED
    BY <1>1, <2>1
<1> QED
  BY <1>2, <1>3, <1>14 DEF Good, names

(* Two sequences without repetitions of the same elements are as long.     *)
LEMMA SameElementsSameLength ==
  ASSUME NEW T, NEW s \in Seq(T), NEW r \in Seq(T), ToSet(s) = ToSet(r),
         \A i, k \in DOMAIN s : i # k => s[i] # s[k], \A i, k \in DOMAIN r : i # k => r[i] # r[k]
  PROVE  Len(s) = Len(r)
<1> DEFINE S == ToSet(s)
<1>1. ASSUME NEW q \in Seq(T), ToSet(q) = S, \A i, k \in DOMAIN q : i # k => q[i] # q[k]
      PROVE  Cardinality(S) = Len(q)
  <2>1. DOMAIN q = 1 .. Len(q) /\ Len(q) \in Nat /\ q \in [1 .. Len(q) -> S]
        /\ \A e \in S : \E i \in DOMAIN q : q[i] = e
    <3>1. DOMAIN q = 1 .. Len(q) /\ Len(q) \in Nat /\ q = [i \in 1 .. Len(q) |-> q[i]]
      OBVIOUS
    <3>2. S = {q[i] : i \in DOMAIN q}
      BY <1>1 DEF ToSet
    <3> HIDE DEF S
    <3> QED
      BY <3>1, <3>2
  <2> HIDE DEF S
  <2>2. q \in Bijection(1 .. Len(q), S)
    BY <1>1, <2>1, Fun_IsBij
  <2>3. ExistsBijection(1 .. Len(q), S)
    BY <2>2 DEF ExistsBijection
  <2> QED
    BY <2>1, <2>3, FS_CountingElements
<1> QED
  BY <1>1

(* Whatever is configured, the order lists every built-in source once, and *)
(* first those named first.                                                *)
THEOREM OrderKeepsAll ==
  ASSUME NEW T, NEW configured \in Seq(T), NEW builtIn \in Seq(T),
         \A i, k \in DOMAIN builtIn : i # k => builtIn[i] # builtIn[k]
  PROVE  LET o == EffectiveOrder(configured, builtIn)
             names == configured \o builtIn
         IN /\ o \in Seq(ToSet(builtIn)) /\ Len(o) = Len(builtIn) /\ ToSet(o) = ToSet(builtIn)
            /\ \A i, k \in DOMAIN o : i # k => o[i] # o[k]
            /\ \A k \in DOMAIN names, i, j \in DOMAIN o :
                 o[i] = names[k] /\ (\A m \in 1 .. k : names[m] # o[j]) => i < j
<1> DEFINE o == EffectiveOrder(configured, builtIn)
           names == configured \o builtIn
           B == ToSet(builtIn)
<1>1. names \in Seq(T) /\ DOMAIN names = 1 .. Len(names) /\ Len(names) \in Nat
  OBVIOUS
<1>2. IsOrderOf(o, names, Len(names), builtIn)
  BY OrderIsOf
<1>3. B = {builtIn[i] : i \in DOMAIN builtIn} /\ ToSet(o) = {o[i] : i \in DOMAIN o}
  BY DEF ToSet
<1>4. \A s \in B : \E k \in 1 .. Len(names) : names[k] = s
  <2> TAKE s \in B
  <2>1. PICK i \in DOMAIN builtIn : builtIn[i] = s
    BY <1>3
  <2>2. names[Len(configured) + i] = s /\ Len(configured) + i \in 1 .. Len(names)
    BY <2>1
  <2> QED
    BY <2>2
<1> HIDE DEF o, names, B
<1>5. /\ o \in Seq(B)
      /\ \A k \in 1 .. Len(names) : names[k] \in B => \E a \in DOMAIN o : o[a] = names[k]
      /\ \A a, b \in DOMAIN o :
           a < b => \E k \in 1 .. Len(names) : names[k] = o[a] /\ \A m \in 1 .. k : names[m] # o[b]
  BY <1>2 DEF IsOrderOf, B
<1>6. DOMAIN o = 1 .. Len(o) /\ Len(o) \in Nat
  BY <1>5
<1>7. ToSet(o) = B
  <2>1. ASSUME NEW s \in B PROVE s \in ToSet(o)
    <3>1. PICK k \in 1 .. Len(names) : names[k] = s
      BY <1>4
    <3>2. PICK a \in DOMAIN o : o[a] = names[k]
      BY <1>5, <3>1
    <3> QED
      BY <1>3, <3>1, <3>2
  <2>2. ASSUME NEW s \in ToSet(o) PROVE s \in B
    BY <1>3, <1>5, <1>6
  <2> QED
    BY <2>1, <2>2
<1>8. ASSUME NEW a \in DOMAIN o, NEW b \in DOMAIN o, a < b PROVE o[a] # o[b]
  <2>1. PICK k \in 1 .. Len(names) : names[k] = o[a] /\ \A m \in 1 .. k : names[m] # o[b]
    BY <1>5, <1>8
  <2>2. k \in 1 .. k
    OBVIOUS
  <2> QED
    BY <2>1, <2>2
<1>9. \A i, k \in DOMAIN o : i # k => o[i] # o[k]
  <2> TAKE i \in DOMAIN o, k \in DOMAIN o
  <2>1. i \in Nat /\ k \in Nat
    BY <1>6
  <2>2. i = k \/ i < k \/ k < i
    BY <2>1
  <2> QED
    BY <1>8, <2>2
<1>10. \A i \in DOMAIN builtIn : builtIn[i] \in T
  OBVIOUS
<1>11. o \in Seq(T)
  <2>1. \A i \in 1 .. Len(o) : o[i] \in T
    BY <1>3, <1>5, <1>6, <1>10
  <2>2. o = [i \in 1 .. Len(o) |-> o[i]]
    BY <1>5
  <2> QED
    BY <1>6, <2>1, <2>2
<1>12. Len(o) = Len(builtIn)
  BY <1>7, <1>9, <1>11, SameElementsSameLength DEF B
<1>13. ASSUME NEW k \in DOMAIN names, NEW i \in DOMAIN o, NEW j \in DOMAIN o,
              o[i] = names[k], \A m \in 1 .. k : names[m] # o[j]
       PROVE  i < j
  <2>1. i \in Nat /\ j \in Nat /\ k \in 1 .. Len(names) /\ k \in 1 .. k
    BY <1>1, <1>6
  <2>2. i # j
    BY <1>13, <2>1
  <2>3. CASE j < i
    <3>1. PICK n \in 1 .. Len(names) : names[n] = o[j] /\ \A m \in 1 .. n : names[m] # o[i]
      BY <1>5, <2>3
    <3>2. n \notin 1 .. k
      BY <1>13, <3>1
    <3>3. k \in 1 .. n
      BY <2>1, <3>2
    <3> QED
      BY <1>13, <3>1, <3>3
  <2> QED
    BY <2>1, <2>2, <2>3
<1> QED
  BY <1>5, <1>7, <1>9, <1>12, <1>13 DEF o, names, B

(* What the cases configure: sources, and a name that is none.             *)
SourceOrTypo == {"Ryuu", "Sushi", "Luie", "Hubcap", "typo"}

(* The sources, and what else a user may have named.                       *)
LEMMA SourcesAreFour ==
  /\ SourceNames \in Seq(SourceOrTypo) /\ Len(SourceNames) = 4
  /\ ToSet(SourceNames) = {"Ryuu", "Sushi", "Luie", "Hubcap"}
  /\ \A i, k \in DOMAIN SourceNames : i # k => SourceNames[i] # SourceNames[k]
<1>1. SourceNames = <<"Ryuu", "Sushi", "Luie", "Hubcap">>
  BY DEF SourceNames
<1>2. /\ SourceNames \in Seq(SourceOrTypo) /\ Len(SourceNames) = 4 /\ DOMAIN SourceNames = 1 .. 4
      /\ SourceNames[1] = "Ryuu" /\ SourceNames[2] = "Sushi" /\ SourceNames[3] = "Luie"
      /\ SourceNames[4] = "Hubcap"
  <2>1. Len(SourceNames) = 4 /\ DOMAIN SourceNames = 1 .. 4
    BY <1>1
  <2>2. SourceNames[1] = "Ryuu" /\ SourceNames[2] = "Sushi" /\ SourceNames[3] = "Luie" /\ SourceNames[4] = "Hubcap"
    BY <1>1
  <2>3. <<"Ryuu", "Sushi", "Luie", "Hubcap">> \in Seq(SourceOrTypo)
    BY DEF SourceOrTypo
  <2> QED
    BY <1>1, <2>1, <2>2, <2>3
<1>3. 1 .. 4 = {1, 2, 3, 4}
  OBVIOUS
<1>4. ToSet(SourceNames) = {"Ryuu", "Sushi", "Luie", "Hubcap"}
  BY <1>2, <1>3 DEF ToSet
<1>5. \A i, k \in DOMAIN SourceNames : i # k => SourceNames[i] # SourceNames[k]
  BY <1>2, <1>3
<1> QED
  BY <1>2, <1>4, <1>5

(* OrderKeepsEverySource, for any list a user may configure.               *)
LEMMA SourcesKeepTheirOrder ==
  ASSUME given.of = "order", given.configured \in Seq(SourceOrTypo)
  PROVE  OrderKeepsEverySource
<1> DEFINE c == given.configured
           top == EffectiveOrder(c, SourceNames)
           place(s) == CHOOSE i \in DOMAIN top : top[i] = s
           listed == c \o SourceNames
           N == ToSet(SourceNames)
<1>0. /\ c \in Seq(SourceOrTypo) /\ SourceNames \in Seq(SourceOrTypo)
      /\ SourceOrTypo = N \cup {"typo"}
  BY SourcesAreFour DEF SourceOrTypo
<1>1. /\ Len(top) = Len(SourceNames) /\ ToSet(top) = ToSet(SourceNames)
      /\ \A i, k \in DOMAIN top : i # k => top[i] # top[k]
      /\ \A k \in DOMAIN listed, i, j \in DOMAIN top :
           top[i] = listed[k] /\ (\A m \in 1 .. k : listed[m] # top[j]) => i < j
  <2>1. \A i, k \in DOMAIN SourceNames : i # k => SourceNames[i] # SourceNames[k]
    BY SourcesAreFour
  <2> HIDE DEF c
  <2> QED
    <3>2. Len(top) = Len(SourceNames) /\ ToSet(top) = N
      BY <1>0, <2>1, OrderKeepsAll
    <3>3. \A i, k \in DOMAIN top : i # k => top[i] # top[k]
      BY <1>0, <2>1, OrderKeepsAll
    <3>4. \A k \in DOMAIN listed, i, j \in DOMAIN top :
           top[i] = listed[k] /\ (\A m \in 1 .. k : listed[m] # top[j]) => i < j
      BY <1>0, <2>1, OrderKeepsAll
    <3> QED
      BY <3>2, <3>3, <3>4
<1>2. /\ DOMAIN c = 1 .. Len(c) /\ Len(c) \in Nat
      /\ \A k \in 1 .. Len(c) : listed[k] = c[k] /\ k \in DOMAIN listed
      /\ \A k \in 1 .. Len(c) : c[k] \in N \cup {"typo"}
  BY <1>0
<1>3. ToSet(c) = {c[k] : k \in DOMAIN c} /\ ToSet(top) = {top[i] : i \in DOMAIN top}
  BY DEF ToSet
<1> HIDE DEF top, listed, N
<1>4. ASSUME NEW s \in ToSet(SourceNames)
      PROVE  place(s) \in DOMAIN top /\ top[place(s)] = s
  <2>1. \E i \in DOMAIN top : top[i] = s
    BY <1>1, <1>3
  <2> QED
    BY <2>1
<1> HIDE DEF place
<1>5. ASSUME NEW k \in DOMAIN c, NEW r \in ToSet(SourceNames), c[k] \in ToSet(SourceNames),
             \A m \in 1 .. k : c[m] # r
      PROVE  place(c[k]) < place(r)
  <2>1. k \in DOMAIN listed /\ listed[k] = c[k] /\ \A m \in 1 .. k : listed[m] = c[m]
    BY <1>2
  <2>2. \A m \in 1 .. k : listed[m] # top[place(r)]
    BY <1>4, <1>5, <2>1
  <2> QED
    BY <1>1, <1>4, <1>5, <2>1, <2>2
<1>6. ASSUME NEW s \in ToSet(c) \ {"typo"}, NEW r \in N \ ToSet(c) PROVE place(s) < place(r)
  <2>1. PICK k \in DOMAIN c : c[k] = s
    BY <1>3
  <2>2. c[k] \in N /\ \A m \in 1 .. k : m \in DOMAIN c /\ c[m] # r
    BY <1>2, <1>3, <1>6, <2>1
  <2> QED
    BY <1>5, <2>1, <2>2 DEF N
<1>7. ASSUME NEW i \in DOMAIN c, NEW k \in DOMAIN c, i < k, {c[i], c[k]} \cap {"typo"} = {},
             c[k] # c[i], \A m \in 1 .. k - 1 : c[m] # c[k]
      PROVE  place(c[i]) < place(c[k])
  <2>1. c[i] \in N /\ c[k] \in N
    BY <1>2, <1>7
  <2>2. i \in Nat /\ k \in Nat
    BY <1>2
  <2>3. \A m \in 1 .. i : m \in 1 .. k - 1
    BY <1>7, <2>2
  <2> QED
    BY <1>5, <1>7, <2>1, <2>3 DEF N
<1> QED
  BY <1>1, <1>6, <1>7 DEF OrderKeepsEverySource, top, place, N

(* ProbeAgreesWithInstall, as widely.                                      *)
LEMMA SourcesAreProbed ==
  ASSUME given.of = "order", given.configured \in Seq(SourceOrTypo)
  PROVE  ProbeAgreesWithInstall
<1> DEFINE c == given.configured
           keys == {"none", "typo", "shaped"}
           probes == {"available", "unavailable", "unlisted", "unknown"}
           hubs == {"available", "unavailable", "unknown", "bad key"}
           gates == {"needs sign-in", "needs key", "bad key"}
<1>1. ToSet(EffectiveOrder(c, SourceNames)) = {"Ryuu", "Sushi", "Luie", "Hubcap"}
  <2>1. \A i, k \in DOMAIN SourceNames : i # k => SourceNames[i] # SourceNames[k]
    BY SourcesAreFour
  <2> HIDE DEF c
  <2>2. c \in Seq(SourceOrTypo) /\ SourceNames \in Seq(SourceOrTypo)
    BY SourcesAreFour DEF c
  <2>3. ToSet(EffectiveOrder(c, SourceNames)) = ToSet(SourceNames)
    BY <2>1, <2>2, OrderKeepsAll
  <2> QED
    BY <2>3, SourcesAreFour
<1>2. ASSUME NEW name \in {"Ryuu", "Sushi", "Luie", "Hubcap"}, NEW token \in BOOLEAN, NEW key \in keys,
             NEW probe \in probes, NEW hub \in hubs
      PROVE  LET status == ProbeStatus(name, probe, token, key, hub)
                 gate   == InstallGate(name, token, key, hub)
             IN gate # "unknown source" /\ (status \in gates \/ gate \in gates => status = gate)
  <2>1. CASE name \in {"Ryuu", "Sushi"}
    BY <2>1 DEF ProbeStatus, InstallGate, SourceKind
  <2>2. CASE name = "Luie"
    BY <2>2 DEF ProbeStatus, InstallGate, SourceKind
  <2>3. CASE name = "Hubcap"
    BY <2>3 DEF ProbeStatus, InstallGate, SourceKind
  <2> QED
    BY <2>1, <2>2, <2>3
<1> QED
  BY <1>1, <1>2 DEF ProbeAgreesWithInstall

(* What stands right before where a search starts is found at once.        *)
LEMMA BeforeIsNext ==
  ASSUME NEW text, NEW found \in Nat \ {0}, NEW wanted, text[found].t = wanted
  PROVE  Before(text, found + 1, wanted) = found
<1> DEFINE is == {k \in 1 .. (found + 1) - 1 : text[k].t = wanted}
           last == CHOOSE k \in is : \A j \in is : j <= k
<1>1. found \in is /\ \A k \in is : k \in Nat /\ k <= found
  OBVIOUS
<1>2. is # {}
  BY <1>1
<1> HIDE DEF is
<1>3. last \in is /\ \A k \in is : k <= last
  BY <1>1
<1> HIDE DEF last
<1>4. last = found
  BY <1>1, <1>3
<1> QED
  BY <1>2, <1>4 DEF Before, is, last

(* Whatever blocks a document has, the depots with a key are those whose   *)
(* block holds one.                                                        *)
THEOREM KeysAreTheirBlocks ==
  ASSUME NEW n \in Nat, NEW kinds \in [1 .. n -> {"key", "keyless", "bare"}]
  PROVE  ConfigDepotKeys(FlattenSeq([i \in 1 .. n |-> Block(i, kinds[i])]))
           = {i \in 1 .. n : kinds[i] = "key"}
<1> DEFINE Tokens == {[t |-> "id", id |-> i] : i \in 1 .. n} \cup {[t |-> "brace"], [t |-> "key"]}
           blocks == [i \in 1 .. n |-> Block(i, kinds[i])]
           doc == FlattenSeq(blocks)
<1>1. ASSUME NEW i \in 1 .. n
      PROVE  /\ Block(i, kinds[i]) \in Seq(Tokens) /\ Len(Block(i, kinds[i])) \in 1 .. 3
             /\ Block(i, kinds[i])[1] = [t |-> "id", id |-> i]
             /\ Len(Block(i, kinds[i])) >= 2 => Block(i, kinds[i])[2] = [t |-> "brace"]
             /\ Len(Block(i, kinds[i])) >= 3 => Block(i, kinds[i])[3] = [t |-> "key"]
             /\ Len(Block(i, kinds[i])) = 3 <=> kinds[i] = "key"
  <2>1. [t |-> "id", id |-> i] \in Tokens /\ [t |-> "brace"] \in Tokens /\ [t |-> "key"] \in Tokens
    OBVIOUS
  <2> DEFINE id == [t |-> "id", id |-> i]
             brace == [t |-> "brace"]
             key == [t |-> "key"]
  <2>2. Block(i, kinds[i]) = CASE kinds[i] = "key"    -> <<id, brace, key>>
                               [] kinds[i] = "keyless" -> <<id, brace>>
                               [] kinds[i] = "bare"    -> <<id>>
    BY DEF Block
  <2> HIDE DEF Tokens, id, brace, key
  <2> DEFINE long == Len(Block(i, kinds[i]))
  <2>3. CASE kinds[i] = "key"
    <3>1. Block(i, kinds[i]) = <<id, brace, key>>
      BY <2>2, <2>3
    <3>2. long = 3
      BY <3>1
    <3>3. Block(i, kinds[i])[1] = id /\ Block(i, kinds[i])[2] = brace /\ Block(i, kinds[i])[3] = key
      BY <3>1
    <3>4. Block(i, kinds[i]) \in Seq(Tokens)
      BY <2>1, <3>1 DEF id, brace, key
    <3> HIDE DEF long
    <3>5. long \in 1 .. 3 /\ (long = 3 <=> kinds[i] = "key")
      BY <2>3, <3>2
    <3> QED
      BY <3>3, <3>4, <3>5 DEF long, id, brace, key
  <2>4. CASE kinds[i] = "keyless"
    <3>1. Block(i, kinds[i]) = <<id, brace>>
      BY <2>2, <2>4
    <3>2. long = 2
      BY <3>1
    <3>3. Block(i, kinds[i])[1] = id /\ Block(i, kinds[i])[2] = brace
      BY <3>1
    <3>4. Block(i, kinds[i]) \in Seq(Tokens)
      BY <2>1, <3>1 DEF id, brace
    <3> HIDE DEF long
    <3>5. long \in 1 .. 3 /\ ~ (long >= 3) /\ (long = 3 <=> kinds[i] = "key")
      BY <2>4, <3>2
    <3> QED
      BY <3>3, <3>4, <3>5 DEF long, id, brace
  <2>5. CASE kinds[i] = "bare"
    <3>1. Block(i, kinds[i]) = <<id>>
      BY <2>2, <2>5
    <3>2. long = 1
      BY <3>1
    <3>3. Block(i, kinds[i])[1] = id
      BY <3>1
    <3>4. Block(i, kinds[i]) \in Seq(Tokens)
      BY <2>1, <3>1 DEF id
    <3> HIDE DEF long
    <3>5. long \in 1 .. 3 /\ ~ (long >= 2) /\ ~ (long >= 3) /\ (long = 3 <=> kinds[i] = "key")
      BY <2>5, <3>2
    <3> QED
      BY <3>3, <3>4, <3>5 DEF long, id
  <2> QED
    BY <2>3, <2>4, <2>5
<1>2. /\ blocks \in Seq(Seq(Tokens)) /\ Len(blocks) = n
      /\ \A i \in 1 .. n : blocks[i] = Block(i, kinds[i])
  <2>1. \A i \in 1 .. n : Block(i, kinds[i]) \in Seq(Tokens)
    BY <1>1
  <2> HIDE DEF Tokens
  <2>2. blocks \in [1 .. n -> Seq(Tokens)] /\ \A i \in 1 .. n : blocks[i] = Block(i, kinds[i])
    BY <2>1
  <2> HIDE DEF blocks
  <2> QED
    BY <2>2
<1> HIDE DEF blocks, Tokens
<1>3. PICK starts : Follow(blocks, doc, starts)
  BY <1>2, FlattenJoins
<1>4. doc \in Seq(Tokens)
  BY <1>2, FlattenJoins
<1> HIDE DEF doc
<1> DEFINE size(i) == Len(blocks[i])
<1>5. ASSUME NEW i \in 1 .. n
      PROVE  /\ size(i) \in 1 .. 3 /\ blocks[i][1] = [t |-> "id", id |-> i]
             /\ size(i) >= 2 => blocks[i][2] = [t |-> "brace"]
             /\ size(i) >= 3 => blocks[i][3] = [t |-> "key"]
             /\ size(i) = 3 <=> kinds[i] = "key"
  BY <1>1, <1>2
<1>6. /\ \A i \in 1 .. n : starts[i - 1] \in Nat /\ starts[i - 1] + size(i) <= Len(doc)
      /\ \A i \in 1 .. n : \A j \in 1 .. size(i) : doc[starts[i - 1] + j] = blocks[i][j]
      /\ \A at \in 1 .. Len(doc) : \E i \in 1 .. n : \E j \in 1 .. size(i) : at = starts[i - 1] + j
  <2>1. \A i \in 1 .. n : i - 1 \in 0 .. n
    OBVIOUS
  <2> QED
    BY <1>2, <1>3, <2>1 DEF Follow
<1> HIDE DEF size
<1>7. DOMAIN doc = 1 .. Len(doc) /\ Len(doc) \in Nat
  BY <1>4
<1> DEFINE owner(i) == Before(doc, Before(doc, i, "brace"), "id")
           keys == {i \in DOMAIN doc : doc[i].t = "key"}
<1>71. \A i : i \in keys <=> i \in 1 .. Len(doc) /\ doc[i].t = "key"
  BY <1>7
<1>10. ConfigDepotKeys(doc) = {doc[owner(i)].id : i \in {k \in keys : owner(k) # 0}}
  BY DEF ConfigDepotKeys
<1> HIDE DEF keys, owner
(* A key's brace and its id stand right before it.                         *)
<1>8. ASSUME NEW i \in 1 .. n, kinds[i] = "key"
      PROVE  /\ starts[i - 1] + 3 \in keys /\ owner(starts[i - 1] + 3) = starts[i - 1] + 1
             /\ doc[starts[i - 1] + 1] = [t |-> "id", id |-> i]
  <2> DEFINE s == starts[i - 1]
  <2>1. s \in Nat /\ s + 3 <= Len(doc) /\ size(i) = 3
    BY <1>5, <1>6, <1>8
  <2>2. /\ doc[s + 1] = [t |-> "id", id |-> i] /\ doc[s + 2] = [t |-> "brace"]
        /\ doc[s + 3] = [t |-> "key"]
    <3>1. 1 \in 1 .. size(i) /\ 2 \in 1 .. size(i) /\ 3 \in 1 .. size(i)
      BY <2>1
    <3>2. /\ doc[s + 1] = blocks[i][1] /\ doc[s + 2] = blocks[i][2] /\ doc[s + 3] = blocks[i][3]
      BY <1>6, <3>1
    <3> QED
      BY <1>5, <2>1, <3>2
  <2> HIDE DEF s
  <2>3. doc[s + 1].t = "id" /\ doc[s + 2].t = "brace" /\ doc[s + 3].t = "key"
    BY <2>2
  <2>4. Before(doc, s + 3, "brace") = s + 2
    <3>1. s + 2 \in Nat \ {0} /\ s + 3 = (s + 2) + 1
      BY <2>1
    <3>2. Before(doc, (s + 2) + 1, "brace") = s + 2
      BY <2>3, <3>1, BeforeIsNext
    <3> QED
      BY <3>1, <3>2
  <2>5. Before(doc, s + 2, "id") = s + 1
    <3>1. s + 1 \in Nat \ {0} /\ s + 2 = (s + 1) + 1
      BY <2>1
    <3>2. Before(doc, (s + 1) + 1, "id") = s + 1
      BY <2>3, <3>1, BeforeIsNext
    <3> QED
      BY <3>1, <3>2
  <2>6. s + 3 \in keys
    BY <1>71, <1>7, <2>1, <2>3
  <2> QED
    BY <2>2, <2>4, <2>5, <2>6 DEF s, owner
<1>9. ASSUME NEW at \in keys
      PROVE  \E i \in 1 .. n : kinds[i] = "key" /\ at = starts[i - 1] + 3
  <2>1. PICK i \in 1 .. n : \E j \in 1 .. size(i) : at = starts[i - 1] + j
    <3>1. at \in 1 .. Len(doc)
      BY <1>71
    <3> QED
      BY <1>6, <3>1
  <2> PICK j \in 1 .. size(i) : at = starts[i - 1] + j
    BY <2>1
  <2>2. doc[at] = blocks[i][j] /\ blocks[i][j].t = "key"
    <3>1. doc[at] = blocks[i][j]
      BY <1>6, <2>1
    <3>2. doc[at].t = "key"
      BY <1>71
    <3> QED
      BY <3>1, <3>2
  <2>3. j = 3
    <3>1. size(i) \in 1 .. 3
      BY <1>5
    <3>2. j \in {1, 2, 3} /\ j <= size(i) /\ size(i) \in Nat
      BY <3>1
    <3>5. blocks[i][1] = [t |-> "id", id |-> i]
      BY <1>5
    <3>3. blocks[i][1].t = "id"
      BY <3>5
    <3>6. j = 2 => blocks[i][2] = [t |-> "brace"]
      BY <1>5, <3>1, <3>2
    <3>4. j = 2 => blocks[i][2].t = "brace"
      BY <3>6
    <3> QED
      BY <2>2, <3>2, <3>3, <3>4
  <2>4. size(i) = 3
    <3>1. size(i) \in 1 .. 3
      BY <1>5
    <3> QED
      BY <2>3, <3>1
  <2> QED
    BY <1>5, <2>1, <2>3, <2>4
<1>11. ASSUME NEW i \in 1 .. n, kinds[i] = "key" PROVE i \in ConfigDepotKeys(doc)
  <2> DEFINE at == starts[i - 1] + 3
  <2>1. at \in keys /\ owner(at) = starts[i - 1] + 1 /\ doc[owner(at)] = [t |-> "id", id |-> i]
    BY <1>8, <1>11
  <2>2. owner(at) # 0
    BY <1>6, <2>1
  <2> HIDE DEF at
  <2>3. doc[owner(at)].id = i
    BY <2>1
  <2> QED
    BY <1>10, <2>1, <2>2, <2>3
<1>12. ASSUME NEW d \in ConfigDepotKeys(doc) PROVE d \in {i \in 1 .. n : kinds[i] = "key"}
  <2>1. PICK at \in keys : d = doc[owner(at)].id
    BY <1>10
  <2>2. PICK i \in 1 .. n : kinds[i] = "key" /\ at = starts[i - 1] + 3
    BY <1>9
  <2>3. doc[owner(at)] = [t |-> "id", id |-> i]
    BY <1>8, <2>2
  <2>4. d = i
    BY <2>1, <2>3
  <2> QED
    BY <2>2, <2>4
<1> QED
  BY <1>11, <1>12 DEF doc, blocks

(* A case is what it is given from the start.                              *)
CasesSpec == CasesInit /\ [][UNCHANGED given]_given

(* ArchivesHold of each case: nothing is installed of a cut archive and    *)
(* all of a whole one, every source keeps its place whatever is            *)
(* configured, the probe and the download agree, and a key counts for its  *)
(* own depot (LuaFlipperDownload.cpp).                                     *)
THEOREM ArchivesAndOrders == CasesSpec => []ArchivesHold
<1>1. CasesInit => ArchivesHold
  <2>1. ASSUME NEW z \in Archives, given = [of |-> "archive", z |-> z] PROVE ArchivesHold
    <3>1. given.of = "archive" /\ given.z \in Archives /\ given.of # "order" /\ given.of # "vdf"
      BY <2>1
    <3> QED
      BY <3>1, ArchivesInstallWholeOnly
      DEF ArchivesHold, OrderKeepsEverySource, ProbeAgreesWithInstall, KeysFoundAreTheOwners
  <2>2. ASSUME NEW c \in Orders, given = [of |-> "order", configured |-> c] PROVE ArchivesHold
    <3>1. given.of = "order" /\ given.configured = c /\ given.of # "archive" /\ given.of # "vdf"
      BY <2>2
    <3>2. c \in Seq(SourceOrTypo)
      <4>1. PICK m \in 0 .. 3 : c \in [1 .. m -> {"Sushi", "Luie", "typo"}]
        BY DEF Orders, SeqOf
      <4>2. c \in [1 .. m -> SourceOrTypo] /\ m \in Nat
        BY <4>1 DEF SourceOrTypo
      <4> QED
        BY <4>2
    <3> QED
      BY <3>1, <3>2, SourcesKeepTheirOrder, SourcesAreProbed
      DEF ArchivesHold, CutInstallsNothing, KeysFoundAreTheOwners
  <2>3. ASSUME NEW kinds \in [1 .. 3 -> {"key", "keyless", "bare"}], given = [of |-> "vdf", kinds |-> kinds]
        PROVE  ArchivesHold
    <3>1. given.of = "vdf" /\ given.kinds = kinds /\ given.of # "archive" /\ given.of # "order"
      BY <2>3
    <3>2. ConfigDepotKeys(FlattenSeq([i \in 1 .. 3 |-> Block(i, kinds[i])])) = {i \in 1 .. 3 : kinds[i] = "key"}
      <4>1. 3 \in Nat
        OBVIOUS
      <4> QED
        BY <4>1, KeysAreTheirBlocks
    <3> QED
      BY <3>1, <3>2 DEF ArchivesHold, CutInstallsNothing, OrderKeepsEverySource,
         ProbeAgreesWithInstall, KeysFoundAreTheOwners
  <2> QED
    BY <2>1, <2>2, <2>3 DEF CasesInit
<1>2. CasesInit /\ [UNCHANGED given]_given => CasesInit'
  BY DEF CasesInit
<1> QED
  BY <1>1, <1>2, PTL DEF CasesSpec
=============================================================================
