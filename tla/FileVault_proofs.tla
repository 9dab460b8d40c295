-------------------------- MODULE FileVault_proofs --------------------------
(***************************************************************************)
(* Proofs about FileVault, for any number of uploads, requests and faults. *)
(***************************************************************************)
EXTENDS FileVault, TLAPS

USE DEF Goto, Move, Begin, End, Raise, Handle, Judge, Fault, stored, exported, locals, sync,
  history, Actors

(* An actor about to write, commit, unlink or check has a file.            *)
HasFile ==
  \A a \in Actors :
    pc[a] \in {"write", "commit", "unlink", "uncommit", "check", "hash", "read"}
      \/ op[a] \in {"upload", "get"}
    => file[a] \in Files

(* Only the event loop uploads, only threads delete.                       *)
Places ==
  /\ pc[Loop] \notin {"unlink", "uncommit"}
  /\ \A t \in Threads : pc[t] \notin {"write", "commit"}

(* Until the upload of a file commits, nobody else has heard of the file.  *)
Known ==
  \A a \in Actors : file[a] \in Files =>
    IF pc[a] \in {"write", "commit"} THEN row[file[a]] = "none" ELSE row[file[a]] # "none"

(* What a commit is about to promise holds already: the uploaded file is   *)
(* written, the deleted one is gone.                                       *)
Prepared ==
  /\ pc[Loop] = "commit" => vault[file[Loop]] \in {"whole", "damaged"}
  /\ \A t \in Threads : pc[t] = "uncommit" => vault[file[t]] = "absent"

(* A negative verdict is part of an answer, or of a check that goes on to  *)
(* the export.                                                             *)
Verdict ==
  \A a \in Actors : got[a] = "failed" =>
    /\ file[a] \in Files
    /\ pc[a] \notin {"idle", "write", "commit", "unlink", "uncommit", "query"}
    /\ op[a] = "verify" \/ pc[a] = "answer"

(* No snapshot and no list of work names a file without a row.             *)
OnlyStored ==
  \A f \in Files : row[f] = "none" =>
    /\ f \notin export /\ f \notin zip.files
    /\ \A a \in Actors : f \notin snap[a] /\ f \notin todo[a]

IInv ==
  /\ TypeOK
  /\ HasFile
  /\ Places
  /\ Known
  /\ Prepared
  /\ Verdict
  /\ ActiveHasFile
  /\ DeletedIsGone
  /\ ServedIsUploaded
  /\ NoFalseAlarm
  /\ OnlyStored

(* Every action keeps the types. *)
LEMMA TypeStep ==
  ASSUME TypeOK, HasFile, [Next]_vars
  PROVE  TypeOK'
<1> USE DEF TypeOK, HasFile
<1>1. ASSUME Start PROVE TypeOK'
  BY <1>1 DEF Start
<1>2. ASSUME PeriodicSync PROVE TypeOK'
  BY <1>2 DEF PeriodicSync
<1>3. ASSUME RejectUpload PROVE TypeOK'
  BY <1>3 DEF RejectUpload
<1>4. ASSUME NEW f \in Files, Upload(f) PROVE TypeOK'
  BY <1>4 DEF Upload
<1>5. ASSUME NEW t \in Threads, ListFiles(t) PROVE TypeOK'
  BY <1>5 DEF ListFiles
<1>6. ASSUME NEW t \in Threads, NEW f \in Files, GetFile(t, f) PROVE TypeOK'
  BY <1>6 DEF GetFile
<1>7. ASSUME NEW t \in Threads, NEW f \in Files, DownloadFile(t, f) PROVE TypeOK'
  BY <1>7 DEF DownloadFile
<1>8. ASSUME NEW t \in Threads, NEW f \in Files, VerifyIntegrity(t, f) PROVE TypeOK'
  BY <1>8 DEF VerifyIntegrity
<1>9. ASSUME NEW t \in Threads, NEW f \in Files, DeleteFile(t, f) PROVE TypeOK'
  BY <1>9 DEF DeleteFile
<1>10. ASSUME WriteFile PROVE TypeOK'
  BY <1>10 DEF WriteFile
<1>11. ASSUME CommitUpload PROVE TypeOK'
  BY <1>11 DEF CommitUpload
<1>12. ASSUME WriteFails PROVE TypeOK'
  BY <1>12 DEF WriteFails
<1>13. ASSUME CommitUploadFails PROVE TypeOK'
  BY <1>13 DEF CommitUploadFails
<1>14. ASSUME NEW t \in Threads, Unlink(t) PROVE TypeOK'
  BY <1>14 DEF Unlink
<1>15. ASSUME NEW t \in Threads, CommitDelete(t) PROVE TypeOK'
  BY <1>15 DEF CommitDelete
<1>16. ASSUME NEW t \in Threads, CommitDeleteFails(t) PROVE TypeOK'
  BY <1>16 DEF CommitDeleteFails
<1>17. ASSUME NEW a \in Actors, QueryList(a) PROVE TypeOK'
  BY <1>17 DEF QueryList, Active
<1>18. ASSUME NEW a \in Actors, IsFile(a) PROVE TypeOK'
  BY <1>18 DEF IsFile
<1>19. ASSUME NEW a \in Actors, CompareHash(a) PROVE TypeOK'
  BY <1>19 DEF CompareHash
<1>20. ASSUME NEW a \in Actors, Decrypt(a) PROVE TypeOK'
  BY <1>20 DEF Decrypt
<1>21. ASSUME NEW a \in Actors, Vanished(a) PROVE TypeOK'
  BY <1>21 DEF Vanished
<1>22. ASSUME NEW a \in Actors, Snapshot(a) PROVE TypeOK'
  BY <1>22 DEF Snapshot, Active
<1>23. ASSUME NEW a \in Actors, Glob(a) PROVE TypeOK'
  BY <1>23 DEF Glob
<1>24. ASSUME NEW a \in Actors, Prune(a) PROVE TypeOK'
  BY <1>24 DEF Prune
<1>25. ASSUME NEW a \in Actors, CopyCheck(a) PROVE TypeOK'
  BY <1>25 DEF CopyCheck
<1>26. ASSUME NEW a \in Actors, Copy(a) PROVE TypeOK'
  BY <1>26 DEF Copy, Earliest
<1>27. ASSUME NEW a \in Actors, CopyStat(a) PROVE TypeOK'
  BY <1>27 DEF CopyStat
<1>28. ASSUME NEW a \in Actors, CopyVanished(a) PROVE TypeOK'
  BY <1>28 DEF CopyVanished
<1>29. ASSUME NEW a \in Actors, OpenManifest(a) PROVE TypeOK'
  BY <1>29 DEF OpenManifest, Opened
<1>30. ASSUME NEW a \in Actors, WriteManifest(a) PROVE TypeOK'
  BY <1>30 DEF WriteManifest, Written, Mixed, Listed, Active
<1>31. ASSUME NEW a \in Actors, OpenZip(a) PROVE TypeOK'
  BY <1>31 DEF OpenZip, Opened
<1>32. ASSUME NEW a \in Actors, WriteZip(a) PROVE TypeOK'
  BY <1>32 DEF WriteZip, Written, Mixed, AfterSync
<1>33. ASSUME NEW a \in Actors, ZipVanished(a) PROVE TypeOK'
  BY <1>33 DEF ZipVanished, Mixed
<1>34. ASSUME NEW a \in Actors, QueryFails(a) PROVE TypeOK'
  BY <1>34 DEF QueryFails
<1>35. ASSUME NEW a \in Actors, Answer(a) PROVE TypeOK'
  BY <1>35 DEF Answer
<1>36. ASSUME Crash PROVE TypeOK'
  BY <1>36 DEF Crash
<1>37. ASSUME NEW f \in Files, Damage(f) PROVE TypeOK'
  BY <1>37 DEF Damage
<1>38. CASE UNCHANGED vars
  BY <1>38 DEF vars
<1> QED
  BY <1>1, <1>2, <1>3, <1>4, <1>5, <1>6, <1>7, <1>8, <1>9, <1>10, <1>11, <1>12, <1>13,
     <1>14, <1>15, <1>16, <1>17, <1>18, <1>19, <1>20, <1>21, <1>22, <1>23, <1>24, <1>25,
     <1>26, <1>27, <1>28, <1>29, <1>30, <1>31, <1>32, <1>33, <1>34, <1>35, <1>36, <1>37,
     <1>38
  DEF Next, Step, Sync, Check, Store, Remove, Client, Failure

(* Each position belongs to the event loop or to the threads. *)
LEMMA PlacesStep ==
  ASSUME TypeOK, Places, [Next]_vars
  PROVE  Places'
<1> USE DEF TypeOK, Places
<1>1. ASSUME Start \/ PeriodicSync \/ Client PROVE Places'
  BY <1>1, LoopAssumption DEF Start, PeriodicSync, Client, RejectUpload, Upload, Fresh,
    ListFiles, GetFile, DownloadFile, VerifyIntegrity, DeleteFile
<1>2. ASSUME Store \/ WriteFails \/ CommitUploadFails PROVE Places'
  BY <1>2, LoopAssumption DEF Store, WriteFile, CommitUpload, WriteFails, CommitUploadFails
<1>3. ASSUME NEW t \in Threads, Remove(t) \/ CommitDeleteFails(t) PROVE Places'
  BY <1>3, LoopAssumption DEF Remove, Unlink, CommitDelete, CommitDeleteFails
<1>4. ASSUME NEW a \in Actors, Check(a) \/ QueryList(a) PROVE Places'
  BY <1>4, LoopAssumption DEF Check, IsFile, CompareHash, Decrypt, Vanished, QueryList,
    Active
<1>5. ASSUME NEW a \in Actors, Answer(a) \/ QueryFails(a) PROVE Places'
  BY <1>5, LoopAssumption DEF Answer, QueryFails
<1>6. ASSUME NEW a \in Actors, Sync(a) PROVE Places'
  BY <1>6, LoopAssumption DEF Sync, Snapshot, Glob, Prune, CopyCheck, Copy, CopyStat,
    CopyVanished, OpenManifest, WriteManifest, OpenZip, WriteZip, ZipVanished, AfterSync
<1>7. ASSUME Crash \/ \E f \in Files : Damage(f) PROVE Places'
  BY <1>7, LoopAssumption DEF Crash, Damage
<1>8. ASSUME UNCHANGED vars PROVE Places'
  BY <1>8, LoopAssumption DEF vars
<1> QED
  BY <1>1, <1>2, <1>3, <1>4, <1>5, <1>6, <1>7, <1>8 DEF Next, Step, Failure

(* An operation on a file keeps it until it ends. *)
LEMMA HasFileStep ==
  ASSUME TypeOK, HasFile, [Next]_vars
  PROVE  HasFile'
<1> USE DEF TypeOK, HasFile
<1>1. ASSUME Start \/ PeriodicSync \/ Client PROVE HasFile'
  BY <1>1, LoopAssumption, FilesAssumption DEF Start, PeriodicSync, Client, RejectUpload,
    Upload, Fresh, ListFiles, GetFile, DownloadFile, VerifyIntegrity, DeleteFile
<1>2. ASSUME Store \/ WriteFails \/ CommitUploadFails PROVE HasFile'
  BY <1>2, LoopAssumption, FilesAssumption DEF Store, WriteFile, CommitUpload, WriteFails,
    CommitUploadFails
<1>3. ASSUME NEW t \in Threads, Remove(t) \/ CommitDeleteFails(t) PROVE HasFile'
  BY <1>3, LoopAssumption, FilesAssumption DEF Remove, Unlink, CommitDelete,
    CommitDeleteFails
<1>4. ASSUME NEW a \in Actors, Check(a) \/ QueryList(a) PROVE HasFile'
  BY <1>4, LoopAssumption, FilesAssumption DEF Check, IsFile, CompareHash, Decrypt,
    Vanished, QueryList, Active
<1>5. ASSUME NEW a \in Actors, Answer(a) \/ QueryFails(a) PROVE HasFile'
  BY <1>5, LoopAssumption, FilesAssumption DEF Answer, QueryFails
<1>6. ASSUME NEW a \in Actors, Sync(a) PROVE HasFile'
  BY <1>6, LoopAssumption, FilesAssumption DEF Sync, Snapshot, Glob, Prune, CopyCheck,
    Copy, CopyStat, CopyVanished, OpenManifest, WriteManifest, OpenZip, WriteZip,
    ZipVanished, AfterSync
<1>7. ASSUME Crash \/ \E f \in Files : Damage(f) PROVE HasFile'
  BY <1>7, LoopAssumption, FilesAssumption DEF Crash, Damage
<1>8. ASSUME UNCHANGED vars PROVE HasFile'
  BY <1>8, LoopAssumption, FilesAssumption DEF vars
<1> QED
  BY <1>1, <1>2, <1>3, <1>4, <1>5, <1>6, <1>7, <1>8 DEF Next, Step, Failure

(* A row appears when its upload commits and never goes away. *)
LEMMA KnownStep ==
  ASSUME TypeOK, HasFile, Places, Known, [Next]_vars
  PROVE  Known'
<1> USE DEF TypeOK, HasFile, Places, Known
<1>1. ASSUME Start \/ PeriodicSync \/ Client PROVE Known'
  BY <1>1, LoopAssumption, FilesAssumption DEF Start, PeriodicSync, Client, RejectUpload,
    Upload, Fresh, ListFiles, GetFile, DownloadFile, VerifyIntegrity, DeleteFile
<1>2. ASSUME Store \/ WriteFails \/ CommitUploadFails PROVE Known'
  <2>1. /\ Loop \in Actors /\ pc[Loop] \in {"write", "commit"}
        /\ file[Loop] \in Files /\ row[file[Loop]] = "none"
    BY <1>2 DEF Store, WriteFile, CommitUpload, WriteFails, CommitUploadFails
  <2>2. \A a \in Actors : a # Loop =>
          /\ pc[a] \notin {"write", "commit"}
          /\ file[a] \in Files => row[file[a]] # "none" /\ file[a] # file[Loop]
    BY <2>1, LoopAssumption
  <2>3. \A a \in Actors : a # Loop => pc'[a] = pc[a] /\ file'[a] = file[a]
    BY <1>2 DEF Store, WriteFile, CommitUpload, WriteFails, CommitUploadFails
  <2>4. \A f \in Files : f # file[Loop] => row'[f] = row[f]
    BY <1>2 DEF Store, WriteFile, CommitUpload, WriteFails, CommitUploadFails
  <2>5. file'[Loop] \in Files =>
          IF pc'[Loop] \in {"write", "commit"} THEN row'[file'[Loop]] = "none"
                                               ELSE row'[file'[Loop]] # "none"
    BY <1>2, <2>1, FilesAssumption DEF Store, WriteFile, CommitUpload, WriteFails,
      CommitUploadFails
  <2> QED
    BY <2>2, <2>3, <2>4, <2>5
<1>3. ASSUME NEW t \in Threads, Remove(t) \/ CommitDeleteFails(t) PROVE Known'
  <2>1. /\ t \in Actors /\ pc[t] \in {"unlink", "uncommit"}
        /\ file[t] \in Files /\ row[file[t]] # "none"
    BY <1>3 DEF Remove, Unlink, CommitDelete, CommitDeleteFails
  <2>2. \A f \in Files : row'[f] = "none" <=> row[f] = "none"
    BY <1>3, <2>1 DEF Remove, Unlink, CommitDelete, CommitDeleteFails
  <2>3. \A a \in Actors : a # t => pc'[a] = pc[a] /\ file'[a] = file[a]
    BY <1>3 DEF Remove, Unlink, CommitDelete, CommitDeleteFails
  <2>4. pc'[t] \notin {"write", "commit"} /\ file'[t] \in {0, file[t]}
    BY <1>3, <2>1 DEF Remove, Unlink, CommitDelete, CommitDeleteFails
  <2> QED
    BY <2>1, <2>2, <2>3, <2>4, FilesAssumption
<1>4. ASSUME NEW a \in Actors, Check(a) \/ QueryList(a) PROVE Known'
  BY <1>4, LoopAssumption, FilesAssumption DEF Check, IsFile, CompareHash, Decrypt,
    Vanished, QueryList, Active
<1>5. ASSUME NEW a \in Actors, Answer(a) \/ QueryFails(a) PROVE Known'
  BY <1>5, LoopAssumption, FilesAssumption DEF Answer, QueryFails
<1>6. ASSUME NEW a \in Actors, Sync(a) PROVE Known'
  BY <1>6, LoopAssumption, FilesAssumption DEF Sync, Snapshot, Glob, Prune, CopyCheck,
    Copy, CopyStat, CopyVanished, OpenManifest, WriteManifest, OpenZip, WriteZip,
    ZipVanished, AfterSync
<1>7. ASSUME Crash \/ \E f \in Files : Damage(f) PROVE Known'
  BY <1>7, LoopAssumption, FilesAssumption DEF Crash, Damage
<1>8. ASSUME UNCHANGED vars PROVE Known'
  BY <1>8, LoopAssumption, FilesAssumption DEF vars
<1> QED
  BY <1>1, <1>2, <1>3, <1>4, <1>5, <1>6, <1>7, <1>8 DEF Next, Step, Failure

(* Between a file operation and its commit nobody undoes the former. *)
LEMMA PreparedStep ==
  ASSUME TypeOK, HasFile, Places, Known, Prepared, DeletedIsGone, [Next]_vars
  PROVE  Prepared'
<1> USE DEF TypeOK, HasFile, Places, Known, Prepared, DeletedIsGone
<1>1. ASSUME Start \/ PeriodicSync \/ Client PROVE Prepared'
  BY <1>1, LoopAssumption, FilesAssumption DEF Start, PeriodicSync, Client, RejectUpload,
    Upload, Fresh, ListFiles, GetFile, DownloadFile, VerifyIntegrity, DeleteFile
<1>2. ASSUME Store \/ WriteFails \/ CommitUploadFails PROVE Prepared'
  <2>1. /\ Loop \in Actors /\ pc[Loop] \in {"write", "commit"}
        /\ file[Loop] \in Files /\ row[file[Loop]] = "none"
    BY <1>2 DEF Store, WriteFile, CommitUpload, WriteFails, CommitUploadFails
  <2>2. \A t \in Threads : pc[t] = "uncommit" => file[t] \in Files /\ file[t] # file[Loop]
    BY <2>1, LoopAssumption
  <2>3. \A t \in Threads : pc'[t] = pc[t] /\ file'[t] = file[t]
    BY <1>2, LoopAssumption DEF Store, WriteFile, CommitUpload, WriteFails,
      CommitUploadFails
  <2>4. \A f \in Files : f # file[Loop] => vault'[f] = vault[f]
    BY <1>2 DEF Store, WriteFile, CommitUpload, WriteFails, CommitUploadFails
  <2>5. pc'[Loop] = "commit" => vault'[file'[Loop]] \in {"whole", "damaged"}
    BY <1>2, <2>1 DEF Store, WriteFile, CommitUpload, WriteFails, CommitUploadFails
  <2> QED
    BY <2>2, <2>3, <2>4, <2>5
<1>3. ASSUME NEW t \in Threads, Remove(t) \/ CommitDeleteFails(t) PROVE Prepared'
  <2>1. /\ t \in Actors /\ pc[t] \in {"unlink", "uncommit"}
        /\ file[t] \in Files /\ row[file[t]] # "none"
    BY <1>3 DEF Remove, Unlink, CommitDelete, CommitDeleteFails
  <2>2. \A f \in Files : f # file[t] => vault'[f] = vault[f]
    BY <1>3 DEF Remove, Unlink, CommitDelete, CommitDeleteFails
  <2>3. vault'[file[t]] = vault[file[t]] \/ vault'[file[t]] = "absent"
    BY <1>3, <2>1 DEF Remove, Unlink, CommitDelete, CommitDeleteFails
  <2>4. \A a \in Actors : a # t => pc'[a] = pc[a] /\ file'[a] = file[a]
    BY <1>3 DEF Remove, Unlink, CommitDelete, CommitDeleteFails
  <2>5. pc'[t] = "uncommit" => vault'[file'[t]] = "absent"
    BY <1>3, <2>1 DEF Remove, Unlink, CommitDelete, CommitDeleteFails
  <2>6. pc[Loop] = "commit" => file[Loop] \in Files /\ file[Loop] # file[t]
    BY <2>1
  <2> QED
    BY <2>2, <2>3, <2>4, <2>5, <2>6, LoopAssumption
<1>4. ASSUME NEW a \in Actors, Check(a) \/ QueryList(a) PROVE Prepared'
  BY <1>4, LoopAssumption, FilesAssumption DEF Check, IsFile, CompareHash, Decrypt,
    Vanished, QueryList, Active
<1>5. ASSUME NEW a \in Actors, Answer(a) \/ QueryFails(a) PROVE Prepared'
  BY <1>5, LoopAssumption, FilesAssumption DEF Answer, QueryFails
<1>6. ASSUME NEW a \in Actors, Sync(a) PROVE Prepared'
  BY <1>6, LoopAssumption, FilesAssumption DEF Sync, Snapshot, Glob, Prune, CopyCheck,
    Copy, CopyStat, CopyVanished, OpenManifest, WriteManifest, OpenZip, WriteZip,
    ZipVanished, AfterSync
<1>7. ASSUME Crash \/ \E f \in Files : Damage(f) PROVE Prepared'
  <2>1. CASE Crash
    BY <2>1 DEF Crash
  <2>2. ASSUME NEW f \in Files, Damage(f) PROVE Prepared'
    BY <2>2 DEF Damage
  <2> QED
    BY <1>7, <2>1, <2>2
<1>8. ASSUME UNCHANGED vars PROVE Prepared'
  BY <1>8, LoopAssumption, FilesAssumption DEF vars
<1> QED
  BY <1>1, <1>2, <1>3, <1>4, <1>5, <1>6, <1>7, <1>8 DEF Next, Step, Failure

(* Verdicts are made about a file and given with the answer. *)
LEMMA VerdictStep ==
  ASSUME TypeOK, HasFile, Places, Verdict, [Next]_vars
  PROVE  Verdict'
<1> USE DEF TypeOK, HasFile, Places, Verdict
<1>1. ASSUME Start \/ PeriodicSync \/ Client PROVE Verdict'
  BY <1>1, LoopAssumption, FilesAssumption DEF Start, PeriodicSync, Client, RejectUpload,
    Upload, Fresh, ListFiles, GetFile, DownloadFile, VerifyIntegrity, DeleteFile
<1>2. ASSUME Store \/ WriteFails \/ CommitUploadFails PROVE Verdict'
  BY <1>2, LoopAssumption, FilesAssumption DEF Store, WriteFile, CommitUpload, WriteFails,
    CommitUploadFails
<1>3. ASSUME NEW t \in Threads, Remove(t) \/ CommitDeleteFails(t) PROVE Verdict'
  BY <1>3, LoopAssumption, FilesAssumption DEF Remove, Unlink, CommitDelete,
    CommitDeleteFails
<1>4. ASSUME NEW a \in Actors, Check(a) \/ QueryList(a) PROVE Verdict'
  BY <1>4, LoopAssumption, FilesAssumption DEF Check, IsFile, CompareHash, Decrypt,
    Vanished, QueryList, Active
<1>5. ASSUME NEW a \in Actors, Answer(a) \/ QueryFails(a) PROVE Verdict'
  BY <1>5, LoopAssumption, FilesAssumption DEF Answer, QueryFails
<1>6. ASSUME NEW a \in Actors, Sync(a) PROVE Verdict'
  BY <1>6, LoopAssumption, FilesAssumption DEF Sync, Snapshot, Glob, Prune, CopyCheck,
    Copy, CopyStat, CopyVanished, OpenManifest, WriteManifest, OpenZip, WriteZip,
    ZipVanished, AfterSync
<1>7. ASSUME Crash \/ \E f \in Files : Damage(f) PROVE Verdict'
  BY <1>7, LoopAssumption, FilesAssumption DEF Crash, Damage
<1>8. ASSUME UNCHANGED vars PROVE Verdict'
  BY <1>8, LoopAssumption, FilesAssumption DEF vars
<1> QED
  BY <1>1, <1>2, <1>3, <1>4, <1>5, <1>6, <1>7, <1>8 DEF Next, Step, Failure

(* A deletion that unlinked its file goes on until its row is marked or it *)
(* is cut short, and what was cut short is remembered.                     *)
Settles ==
  /\ cut \subseteq cut'
  /\ \A f \in Files : Deleting(f) => Deleting(f)' \/ row'[f] = "deleted" \/ f \in cut'

(* Every step settles deletions or leaves them under way. *)
LEMMA DeletionSettles ==
  ASSUME TypeOK, HasFile, Places, [Next]_vars
  PROVE  Settles
<1> DEFINE Goes(t) == pc'[t] = "uncommit" /\ file'[t] = file[t]
<1>1. cut \subseteq cut'
  <2>1. ASSUME Start \/ PeriodicSync \/ Client PROVE cut \subseteq cut'
    BY <2>1 DEF Start, PeriodicSync, Client, RejectUpload, Upload, Fresh, ListFiles,
      GetFile, DownloadFile, VerifyIntegrity, DeleteFile
  <2>2. ASSUME Store \/ WriteFails \/ CommitUploadFails PROVE cut \subseteq cut'
    BY <2>2 DEF Store, WriteFile, CommitUpload, WriteFails, CommitUploadFails
  <2>3. ASSUME NEW u \in Threads, Remove(u) \/ CommitDeleteFails(u) PROVE cut \subseteq cut'
    BY <2>3 DEF Remove, Unlink, CommitDelete, CommitDeleteFails
  <2>4. ASSUME NEW b \in Actors, Check(b) \/ QueryList(b) PROVE cut \subseteq cut'
    BY <2>4 DEF Check, IsFile, CompareHash, Decrypt, Vanished, QueryList, Active
  <2>5. ASSUME NEW b \in Actors, Answer(b) \/ QueryFails(b) PROVE cut \subseteq cut'
    BY <2>5 DEF Answer, QueryFails
  <2>6. ASSUME NEW b \in Actors, Sync(b) PROVE cut \subseteq cut'
    BY <2>6 DEF Sync, Snapshot, Glob, Prune, CopyCheck, Copy, CopyStat, CopyVanished,
      OpenManifest, WriteManifest, OpenZip, WriteZip, ZipVanished, AfterSync
  <2>7. ASSUME Crash \/ \E g \in Files : Damage(g) PROVE cut \subseteq cut'
    BY <2>7 DEF Crash, Damage
  <2>8. ASSUME UNCHANGED vars PROVE cut \subseteq cut'
    BY <2>8 DEF vars
  <2> QED
    BY <2>1, <2>2, <2>3, <2>4, <2>5, <2>6, <2>7, <2>8 DEF Next, Step, Failure
<1>2. ASSUME NEW t \in Threads, pc[t] = "uncommit"
      PROVE  Goes(t) \/ row'[file[t]] = "deleted" \/ file[t] \in cut'
  <2> USE <1>2 DEF TypeOK, HasFile, Places
  <2>1. ASSUME Start \/ PeriodicSync \/ Client
        PROVE  Goes(t) \/ row'[file[t]] = "deleted" \/ file[t] \in cut'
    BY <2>1, LoopAssumption DEF Start, PeriodicSync, Client, RejectUpload, Upload, Fresh,
      ListFiles, GetFile, DownloadFile, VerifyIntegrity, DeleteFile
  <2>2. ASSUME Store \/ WriteFails \/ CommitUploadFails
        PROVE  Goes(t) \/ row'[file[t]] = "deleted" \/ file[t] \in cut'
    BY <2>2, LoopAssumption DEF Store, WriteFile, CommitUpload, WriteFails,
      CommitUploadFails
  <2>3. ASSUME NEW u \in Threads, Remove(u) \/ CommitDeleteFails(u)
        PROVE  Goes(t) \/ row'[file[t]] = "deleted" \/ file[t] \in cut'
    BY <2>3, LoopAssumption DEF Remove, Unlink, CommitDelete, CommitDeleteFails
  <2>4. ASSUME NEW b \in Actors, Check(b) \/ QueryList(b)
        PROVE  Goes(t) \/ row'[file[t]] = "deleted" \/ file[t] \in cut'
    BY <2>4, LoopAssumption DEF Check, IsFile, CompareHash, Decrypt, Vanished, QueryList,
      Active
  <2>5. ASSUME NEW b \in Actors, Answer(b) \/ QueryFails(b)
        PROVE  Goes(t) \/ row'[file[t]] = "deleted" \/ file[t] \in cut'
    BY <2>5, LoopAssumption DEF Answer, QueryFails
  <2>6. ASSUME NEW b \in Actors, Sync(b)
        PROVE  Goes(t) \/ row'[file[t]] = "deleted" \/ file[t] \in cut'
    BY <2>6, LoopAssumption DEF Sync, Snapshot, Glob, Prune, CopyCheck, Copy, CopyStat,
      CopyVanished, OpenManifest, WriteManifest, OpenZip, WriteZip, ZipVanished, AfterSync
  <2>7. ASSUME Crash \/ \E g \in Files : Damage(g)
        PROVE  Goes(t) \/ row'[file[t]] = "deleted" \/ file[t] \in cut'
    BY <2>7, LoopAssumption DEF Crash, Damage
  <2>8. ASSUME UNCHANGED vars PROVE Goes(t) \/ row'[file[t]] = "deleted" \/ file[t] \in cut'
    BY <2>8, LoopAssumption DEF vars
  <2> QED
    BY <2>1, <2>2, <2>3, <2>4, <2>5, <2>6, <2>7, <2>8 DEF Next, Step, Failure
<1> QED
  BY <1>1, <1>2 DEF Settles, Deleting

(* Nothing writes the file of a deleted row again. *)
LEMMA DeletedIsGoneStep ==
  ASSUME TypeOK, HasFile, Places, Known, Prepared, DeletedIsGone, [Next]_vars
  PROVE  DeletedIsGone'
<1> USE DEF TypeOK, HasFile, Places, Known, Prepared, DeletedIsGone
<1>1. ASSUME Start \/ PeriodicSync \/ Client PROVE DeletedIsGone'
  BY <1>1, LoopAssumption DEF Start, PeriodicSync, Client, RejectUpload, Upload, Fresh,
    ListFiles, GetFile, DownloadFile, VerifyIntegrity, DeleteFile
<1>2. ASSUME Store \/ WriteFails \/ CommitUploadFails PROVE DeletedIsGone'
  BY <1>2, LoopAssumption DEF Store, WriteFile, CommitUpload, WriteFails, CommitUploadFails
<1>3. ASSUME NEW t \in Threads, Remove(t) \/ CommitDeleteFails(t) PROVE DeletedIsGone'
  BY <1>3, LoopAssumption DEF Remove, Unlink, CommitDelete, CommitDeleteFails
<1>4. ASSUME NEW a \in Actors, Check(a) \/ QueryList(a) PROVE DeletedIsGone'
  BY <1>4, LoopAssumption DEF Check, IsFile, CompareHash, Decrypt, Vanished, QueryList,
    Active
<1>5. ASSUME NEW a \in Actors, Answer(a) \/ QueryFails(a) PROVE DeletedIsGone'
  BY <1>5, LoopAssumption DEF Answer, QueryFails
<1>6. ASSUME NEW a \in Actors, Sync(a) PROVE DeletedIsGone'
  BY <1>6, LoopAssumption DEF Sync, Snapshot, Glob, Prune, CopyCheck, Copy, CopyStat,
    CopyVanished, OpenManifest, WriteManifest, OpenZip, WriteZip, ZipVanished, AfterSync
<1>7. ASSUME Crash \/ \E f \in Files : Damage(f) PROVE DeletedIsGone'
  BY <1>7, LoopAssumption DEF Crash, Damage
<1>8. ASSUME UNCHANGED vars PROVE DeletedIsGone'
  BY <1>8, LoopAssumption DEF vars
<1> QED
  BY <1>1, <1>2, <1>3, <1>4, <1>5, <1>6, <1>7, <1>8 DEF Next, Step, Failure

(* An active row keeps its file until a deletion takes it. *)
LEMMA ActiveHasFileStep ==
  ASSUME TypeOK, HasFile, Places, Known, Prepared, DeletedIsGone, ActiveHasFile, Settles, [Next]_vars
  PROVE  ActiveHasFile'
<1> USE DEF TypeOK, HasFile, Places, Known, Prepared, DeletedIsGone, ActiveHasFile, Settles
<1>1. ASSUME Start \/ PeriodicSync \/ Client PROVE ActiveHasFile'
  BY <1>1, LoopAssumption DEF Start, PeriodicSync, Client, RejectUpload, Upload, Fresh,
    ListFiles, GetFile, DownloadFile, VerifyIntegrity, DeleteFile
<1>2. ASSUME Store \/ WriteFails \/ CommitUploadFails PROVE ActiveHasFile'
  BY <1>2, LoopAssumption DEF Store, WriteFile, CommitUpload, WriteFails, CommitUploadFails
<1>3. ASSUME NEW t \in Threads, Remove(t) \/ CommitDeleteFails(t) PROVE ActiveHasFile'
  <2>1. /\ t \in Actors /\ pc[t] \in {"unlink", "uncommit"}
        /\ file[t] \in Files /\ row[file[t]] # "none"
    BY <1>3 DEF Remove, Unlink, CommitDelete, CommitDeleteFails
  <2>2. \A f \in Files : f # file[t] => row'[f] = row[f] /\ vault'[f] = vault[f]
    BY <1>3, <2>1 DEF Remove, Unlink, CommitDelete, CommitDeleteFails
  <2>3. ASSUME NEW f \in Files, row'[f] = "active", f = file[t]
        PROVE  vault'[f] = "absent" /\ (Deleting(f)' \/ f \in cut')
    BY <1>3, <2>1, <2>3 DEF Remove, Unlink, CommitDelete, CommitDeleteFails, Deleting
  <2>4. ASSUME NEW f \in Files, row'[f] = "active", f # file[t]
        PROVE  \/ vault'[f] \in {"whole", "damaged"}
               \/ vault'[f] = "absent" /\ (f \in cut' \/ Deleting(f)')
    <3>1. row[f] = "active" /\ vault'[f] = vault[f]
      BY <2>2, <2>4
    <3>2. CASE vault[f] \in {"whole", "damaged"}
      BY <3>1, <3>2
    <3>3. CASE vault[f] = "absent" /\ (f \in cut \/ Deleting(f))
      BY <2>4, <3>1, <3>3
    <3> QED
      BY <3>1, <3>2, <3>3
  <2> QED
    BY <2>3, <2>4
<1>4. ASSUME NEW a \in Actors, Check(a) \/ QueryList(a) PROVE ActiveHasFile'
  BY <1>4, LoopAssumption DEF Check, IsFile, CompareHash, Decrypt, Vanished, QueryList,
    Active
<1>5. ASSUME NEW a \in Actors, Answer(a) \/ QueryFails(a) PROVE ActiveHasFile'
  BY <1>5, LoopAssumption DEF Answer, QueryFails
<1>6. ASSUME NEW a \in Actors, Sync(a) PROVE ActiveHasFile'
  BY <1>6, LoopAssumption DEF Sync, Snapshot, Glob, Prune, CopyCheck, Copy, CopyStat,
    CopyVanished, OpenManifest, WriteManifest, OpenZip, WriteZip, ZipVanished, AfterSync
<1>7. ASSUME Crash \/ \E f \in Files : Damage(f) PROVE ActiveHasFile'
  BY <1>7, LoopAssumption DEF Crash, Damage
<1>8. ASSUME UNCHANGED vars PROVE ActiveHasFile'
  BY <1>8, LoopAssumption DEF vars
<1> QED
  BY <1>1, <1>2, <1>3, <1>4, <1>5, <1>6, <1>7, <1>8 DEF Next, Step, Failure

(* Only Decrypt gives a download its content. *)
LEMMA ServedStep ==
  ASSUME TypeOK, ServedIsUploaded, [Next]_vars
  PROVE  ServedIsUploaded'
<1> USE DEF TypeOK, ServedIsUploaded
<1>1. ASSUME Start \/ PeriodicSync \/ Client PROVE ServedIsUploaded'
  BY <1>1 DEF Start, PeriodicSync, Client, RejectUpload, Upload, Fresh, ListFiles, GetFile,
    DownloadFile, VerifyIntegrity, DeleteFile
<1>2. ASSUME Store \/ WriteFails \/ CommitUploadFails PROVE ServedIsUploaded'
  BY <1>2 DEF Store, WriteFile, CommitUpload, WriteFails, CommitUploadFails
<1>3. ASSUME NEW t \in Threads, Remove(t) \/ CommitDeleteFails(t) PROVE ServedIsUploaded'
  BY <1>3 DEF Remove, Unlink, CommitDelete, CommitDeleteFails
<1>4. ASSUME NEW a \in Actors, Check(a) \/ QueryList(a) PROVE ServedIsUploaded'
  BY <1>4 DEF Check, IsFile, CompareHash, Decrypt, Vanished, QueryList, Active
<1>5. ASSUME NEW a \in Actors, Answer(a) \/ QueryFails(a) PROVE ServedIsUploaded'
  BY <1>5 DEF Answer, QueryFails
<1>6. ASSUME NEW a \in Actors, Sync(a) PROVE ServedIsUploaded'
  BY <1>6 DEF Sync, Snapshot, Glob, Prune, CopyCheck, Copy, CopyStat, CopyVanished,
    OpenManifest, WriteManifest, OpenZip, WriteZip, ZipVanished, AfterSync
<1>7. ASSUME Crash \/ \E f \in Files : Damage(f) PROVE ServedIsUploaded'
  BY <1>7 DEF Crash, Damage
<1>8. ASSUME UNCHANGED vars PROVE ServedIsUploaded'
  BY <1>8 DEF vars
<1> QED
  BY <1>1, <1>2, <1>3, <1>4, <1>5, <1>6, <1>7, <1>8 DEF Next, Step, Failure

(* Work is taken from the active rows, and rows stay. *)
LEMMA OnlyStoredStep ==
  ASSUME TypeOK, HasFile, Places, Known, OnlyStored, [Next]_vars
  PROVE  OnlyStored'
<1> USE DEF TypeOK, HasFile, Places, Known, OnlyStored
<1>1. ASSUME Start \/ PeriodicSync \/ Client PROVE OnlyStored'
  BY <1>1 DEF Start, PeriodicSync, Client, RejectUpload, Upload, Fresh, ListFiles, GetFile,
    DownloadFile, VerifyIntegrity, DeleteFile
<1>2. ASSUME Store \/ WriteFails \/ CommitUploadFails PROVE OnlyStored'
  BY <1>2 DEF Store, WriteFile, CommitUpload, WriteFails, CommitUploadFails
<1>3. ASSUME NEW t \in Threads, Remove(t) \/ CommitDeleteFails(t) PROVE OnlyStored'
  BY <1>3 DEF Remove, Unlink, CommitDelete, CommitDeleteFails
<1>4. ASSUME NEW a \in Actors, Check(a) \/ QueryList(a) PROVE OnlyStored'
  BY <1>4 DEF Check, IsFile, CompareHash, Decrypt, Vanished, QueryList, Active
<1>5. ASSUME NEW a \in Actors, Answer(a) \/ QueryFails(a) PROVE OnlyStored'
  BY <1>5 DEF Answer, QueryFails
<1>6. ASSUME NEW a \in Actors, Sync(a) PROVE OnlyStored'
  BY <1>6 DEF Sync, Snapshot, Glob, Prune, CopyCheck, Copy, CopyStat, CopyVanished,
    OpenManifest, WriteManifest, OpenZip, WriteZip, ZipVanished, AfterSync, Active,
    Earliest, Opened, Written, Mixed
<1>7. ASSUME Crash \/ \E f \in Files : Damage(f) PROVE OnlyStored'
  BY <1>7 DEF Crash, Damage
<1>8. ASSUME UNCHANGED vars PROVE OnlyStored'
  BY <1>8 DEF vars
<1> QED
  BY <1>1, <1>2, <1>3, <1>4, <1>5, <1>6, <1>7, <1>8 DEF Next, Step, Failure

(* What may explain a negative verdict about a file. *)
Excused(f) ==
  \/ vault[f] = "damaged"
  \/ row[f] = "deleted" \/ f \in cut \/ Deleting(f)

(* An explanation stays one, or becomes another. *)
LEMMA ExcusedKept ==
  ASSUME TypeOK, HasFile, Places, Known, Settles, [Next]_vars,
         NEW f \in Files, row[f] # "none", Excused(f)
  PROVE  Excused(f)'
<1> USE DEF TypeOK, HasFile, Places, Known
<1>1. row[f] = "deleted" => row'[f] = "deleted"
  <2>1. ASSUME Start \/ PeriodicSync \/ Client
        PROVE  row[f] = "deleted" => row'[f] = "deleted"
    BY <2>1, LoopAssumption DEF Start, PeriodicSync, Client, RejectUpload, Upload, Fresh,
      ListFiles, GetFile, DownloadFile, VerifyIntegrity, DeleteFile
  <2>2. ASSUME Store \/ WriteFails \/ CommitUploadFails
        PROVE  row[f] = "deleted" => row'[f] = "deleted"
    BY <2>2, LoopAssumption DEF Store, WriteFile, CommitUpload, WriteFails,
      CommitUploadFails
  <2>3. ASSUME NEW u \in Threads, Remove(u) \/ CommitDeleteFails(u)
        PROVE  row[f] = "deleted" => row'[f] = "deleted"
    BY <2>3, LoopAssumption DEF Remove, Unlink, CommitDelete, CommitDeleteFails
  <2>4. ASSUME NEW b \in Actors, Check(b) \/ QueryList(b)
        PROVE  row[f] = "deleted" => row'[f] = "deleted"
    BY <2>4, LoopAssumption DEF Check, IsFile, CompareHash, Decrypt, Vanished, QueryList,
      Active
  <2>5. ASSUME NEW b \in Actors, Answer(b) \/ QueryFails(b)
        PROVE  row[f] = "deleted" => row'[f] = "deleted"
    BY <2>5, LoopAssumption DEF Answer, QueryFails
  <2>6. ASSUME NEW b \in Actors, Sync(b) PROVE row[f] = "deleted" => row'[f] = "deleted"
    BY <2>6, LoopAssumption DEF Sync, Snapshot, Glob, Prune, CopyCheck, Copy, CopyStat,
      CopyVanished, OpenManifest, WriteManifest, OpenZip, WriteZip, ZipVanished, AfterSync
  <2>7. ASSUME Crash \/ \E g \in Files : Damage(g)
        PROVE  row[f] = "deleted" => row'[f] = "deleted"
    BY <2>7, LoopAssumption DEF Crash, Damage
  <2>8. ASSUME UNCHANGED vars PROVE row[f] = "deleted" => row'[f] = "deleted"
    BY <2>8, LoopAssumption DEF vars
  <2> QED
    BY <2>1, <2>2, <2>3, <2>4, <2>5, <2>6, <2>7, <2>8 DEF Next, Step, Failure
<1>2. vault[f] = "damaged" => vault'[f] = "damaged" \/ Deleting(f)'
  <2>1. ASSUME Start \/ PeriodicSync \/ Client
        PROVE  vault[f] = "damaged" => vault'[f] = "damaged" \/ Deleting(f)'
    BY <2>1, LoopAssumption DEF Start, PeriodicSync, Client, RejectUpload, Upload, Fresh,
      ListFiles, GetFile, DownloadFile, VerifyIntegrity, DeleteFile
  <2>2. ASSUME Store \/ WriteFails \/ CommitUploadFails
        PROVE  vault[f] = "damaged" => vault'[f] = "damaged" \/ Deleting(f)'
    BY <2>2, LoopAssumption DEF Store, WriteFile, CommitUpload, WriteFails,
      CommitUploadFails
  <2>3. ASSUME NEW u \in Threads, Remove(u) \/ CommitDeleteFails(u)
        PROVE  vault[f] = "damaged" => vault'[f] = "damaged" \/ Deleting(f)'
    BY <2>3, LoopAssumption DEF Remove, Unlink, CommitDelete, CommitDeleteFails, Deleting
  <2>4. ASSUME NEW b \in Actors, Check(b) \/ QueryList(b)
        PROVE  vault[f] = "damaged" => vault'[f] = "damaged" \/ Deleting(f)'
    BY <2>4, LoopAssumption DEF Check, IsFile, CompareHash, Decrypt, Vanished, QueryList,
      Active
  <2>5. ASSUME NEW b \in Actors, Answer(b) \/ QueryFails(b)
        PROVE  vault[f] = "damaged" => vault'[f] = "damaged" \/ Deleting(f)'
    BY <2>5, LoopAssumption DEF Answer, QueryFails
  <2>6. ASSUME NEW b \in Actors, Sync(b)
        PROVE  vault[f] = "damaged" => vault'[f] = "damaged" \/ Deleting(f)'
    BY <2>6, LoopAssumption DEF Sync, Snapshot, Glob, Prune, CopyCheck, Copy, CopyStat,
      CopyVanished, OpenManifest, WriteManifest, OpenZip, WriteZip, ZipVanished, AfterSync
  <2>7. ASSUME Crash \/ \E g \in Files : Damage(g)
        PROVE  vault[f] = "damaged" => vault'[f] = "damaged" \/ Deleting(f)'
    BY <2>7, LoopAssumption DEF Crash, Damage
  <2>8. ASSUME UNCHANGED vars
        PROVE  vault[f] = "damaged" => vault'[f] = "damaged" \/ Deleting(f)'
    BY <2>8, LoopAssumption DEF vars
  <2> QED
    BY <2>1, <2>2, <2>3, <2>4, <2>5, <2>6, <2>7, <2>8 DEF Next, Step, Failure
<1> QED
  BY <1>1, <1>2 DEF Excused, Settles

(* A negative verdict is an older one about the same file, or is made of a *)
(* file that is damaged or missing.                                        *)
LEMMA VerdictMade ==
  ASSUME TypeOK, HasFile, Places, Known, Verdict, ActiveHasFile, DeletedIsGone, [Next]_vars,
         NEW a \in Actors, got'[a] = "failed"
  PROVE  /\ file'[a] = file[a] /\ file[a] \in Files /\ row[file[a]] # "none"
         /\ got[a] = "failed" \/ Excused(file[a])
<1> USE DEF TypeOK, HasFile, Places, Known, Verdict
<1> DEFINE Same == /\ file'[a] = file[a] /\ file[a] \in Files /\ row[file[a]] # "none"
                   /\ got[a] = "failed"
<1>1. ASSUME Check(a), got[a] # "failed"
      PROVE  /\ file'[a] = file[a] /\ file[a] \in Files /\ row[file[a]] # "none"
             /\ vault[file[a]] # "whole"
  BY <1>1, FilesAssumption DEF Check, IsFile, CompareHash, Decrypt, Vanished
<1>2. ASSUME NEW f \in Files, row[f] # "none", vault[f] # "whole" PROVE Excused(f)
  BY <1>2 DEF Excused, ActiveHasFile
<1>3. Same \/ (Check(a) /\ got[a] # "failed")
  <2>1. ASSUME Start \/ PeriodicSync \/ Client PROVE Same \/ (Check(a) /\ got[a] # "failed")
    BY <2>1, LoopAssumption, FilesAssumption DEF Start, PeriodicSync, Client, RejectUpload,
      Upload, Fresh, ListFiles, GetFile, DownloadFile, VerifyIntegrity, DeleteFile
  <2>2. ASSUME Store \/ WriteFails \/ CommitUploadFails
        PROVE  Same \/ (Check(a) /\ got[a] # "failed")
    BY <2>2, LoopAssumption, FilesAssumption DEF Store, WriteFile, CommitUpload,
      WriteFails, CommitUploadFails
  <2>3. ASSUME NEW u \in Threads, Remove(u) \/ CommitDeleteFails(u)
        PROVE  Same \/ (Check(a) /\ got[a] # "failed")
    BY <2>3, LoopAssumption, FilesAssumption DEF Remove, Unlink, CommitDelete,
      CommitDeleteFails
  <2>4. ASSUME NEW b \in Actors, Check(b) \/ QueryList(b)
        PROVE  Same \/ (Check(a) /\ got[a] # "failed")
    BY <2>4, LoopAssumption, FilesAssumption DEF Check, IsFile, CompareHash, Decrypt,
      Vanished, QueryList, Active
  <2>5. ASSUME NEW b \in Actors, Answer(b) \/ QueryFails(b)
        PROVE  Same \/ (Check(a) /\ got[a] # "failed")
    BY <2>5, LoopAssumption, FilesAssumption DEF Answer, QueryFails
  <2>6. ASSUME NEW b \in Actors, Sync(b) PROVE Same \/ (Check(a) /\ got[a] # "failed")
    BY <2>6, LoopAssumption, FilesAssumption DEF Sync, Snapshot, Glob, Prune, CopyCheck,
      Copy, CopyStat, CopyVanished, OpenManifest, WriteManifest, OpenZip, WriteZip,
      ZipVanished, AfterSync
  <2>7. ASSUME Crash \/ \E g \in Files : Damage(g)
        PROVE  Same \/ (Check(a) /\ got[a] # "failed")
    BY <2>7, LoopAssumption, FilesAssumption DEF Crash, Damage
  <2>8. ASSUME UNCHANGED vars PROVE Same \/ (Check(a) /\ got[a] # "failed")
    BY <2>8, LoopAssumption, FilesAssumption DEF vars
  <2> QED
    BY <2>1, <2>2, <2>3, <2>4, <2>5, <2>6, <2>7, <2>8 DEF Next, Step, Failure
<1> QED
  BY <1>1, <1>2, <1>3

(* No step makes a verdict false. *)
LEMMA NoFalseAlarmStep ==
  ASSUME TypeOK, HasFile, Places, Known, Verdict, ActiveHasFile, DeletedIsGone, NoFalseAlarm,
         Settles, [Next]_vars
  PROVE  NoFalseAlarm'
<1> SUFFICES ASSUME NEW a \in Actors, got'[a] = "failed", NEW f, f = file[a]
             PROVE  file'[a] = f /\ Excused(f)'
  BY DEF NoFalseAlarm, Excused
<1>1. file'[a] = f /\ f \in Files /\ row[f] # "none" /\ (got[a] = "failed" \/ Excused(f))
  BY VerdictMade
<1>2. Excused(f)
  BY <1>1 DEF NoFalseAlarm, Excused
<1> QED
  BY <1>1, <1>2, ExcusedKept

----------------------------------------------------------------------------

(* The service starts with an empty table and an empty vault. *)
LEMMA InitIInv == Init => IInv
  BY LoopAssumption, FilesAssumption DEF Init, IInv, TypeOK, HasFile, Places, Known,
    Prepared,
    Verdict, ActiveHasFile, DeletedIsGone, ServedIsUploaded, NoFalseAlarm, OnlyStored,
    Written

(* The types, the discipline of the actors and the agreement of table,     *)
(* vault, verdicts and lists of work hold in every state.                  *)
THEOREM Invariance == Spec => []IInv
<1>1. ASSUME IInv, [Next]_vars PROVE IInv'
  <2> USE <1>1 DEF IInv
  <2>1. TypeOK' /\ HasFile' /\ Places' /\ Known' /\ Prepared' /\ Verdict'
    BY TypeStep, HasFileStep, PlacesStep, KnownStep, PreparedStep, VerdictStep
  <2>2. Settles
    BY DeletionSettles
  <2>3. ActiveHasFile' /\ DeletedIsGone' /\ ServedIsUploaded' /\ NoFalseAlarm' /\ OnlyStored'
    BY <2>2, ActiveHasFileStep, DeletedIsGoneStep, ServedStep, NoFalseAlarmStep,
      OnlyStoredStep
  <2> QED
    BY <2>1, <2>3
<1> QED
  BY InitIInv, <1>1, PTL DEF Spec

(* TypeOK: the types hold in every state. *)
THEOREM TypeCorrect == Spec => []TypeOK
<1>1. IInv => TypeOK
  BY DEF IInv
<1> QED
  BY Invariance, <1>1, PTL

(* ActiveHasFile: an active row has its file, but while it is being        *)
(* deleted or when that was cut short.                                     *)
THEOREM ActiveFile == Spec => []ActiveHasFile
<1>1. IInv => ActiveHasFile
  BY DEF IInv
<1> QED
  BY Invariance, <1>1, PTL

(* DeletedIsGone: the content of a deleted file never comes back. *)
THEOREM DeletedGone == Spec => []DeletedIsGone
<1>1. IInv => DeletedIsGone
  BY DEF IInv
<1> QED
  BY Invariance, <1>1, PTL

(* ServedIsUploaded: no download answers with anything but the upload. *)
THEOREM ServedUploaded == Spec => []ServedIsUploaded
<1>1. IInv => ServedIsUploaded
  BY DEF IInv
<1> QED
  BY Invariance, <1>1, PTL

(* NoFalseAlarm: a negative verdict has a cause other than the order of    *)
(* the requests.                                                           *)
THEOREM AlarmJustified == Spec => []NoFalseAlarm
<1>1. IInv => NoFalseAlarm
  BY DEF IInv
<1> QED
  BY Invariance, <1>1, PTL

(* OnlyStoredExported: what was never committed is never exported. *)
THEOREM ExportedStored == Spec => []OnlyStoredExported
<1>1. IInv => OnlyStoredExported
  BY DEF IInv, OnlyStored, OnlyStoredExported
<1> QED
  BY Invariance, <1>1, PTL

----------------------------------------------------------------------------
(* The refinement of FileStore. *)

(* The mapped values of content and answer.                                *)
Content == [f \in Files |-> IF row[f] = "none" THEN "absent" ELSE vault[f]]
Says(g) == IF g = "passed" THEN "intact" ELSE IF g = "plaintext" THEN "served" ELSE "damaged"
Word(g, f) == IF g = "none" THEN [says |-> "nothing", about |-> 0]
              ELSE [says |-> Says(g), about |-> f]
Told == [a \in Actors |-> Word(got[a], file[a])]

(* Whoever has a verdict, good or bad, has it for a file and is past the   *)
(* checks; a download that goes on to its second read passed the first.    *)
Learned ==
  \A a \in Actors :
    /\ got[a] # "none" =>
         /\ file[a] \in Files
         /\ pc[a] \notin {"idle", "write", "commit", "unlink", "uncommit", "query", "check",
                          "hash"}
         /\ op[a] \in {"verify", "download"} \/ pc[a] = "answer"
    /\ pc[a] = "read" => got[a] = "passed" /\ op[a] = "download"

LEMMA LearnedStep ==
  ASSUME TypeOK, HasFile, Places, Learned, [Next]_vars
  PROVE  Learned'
<1> USE DEF TypeOK, HasFile, Places, Learned
<1>1. ASSUME Start \/ PeriodicSync \/ Client PROVE Learned'
  BY <1>1, LoopAssumption, FilesAssumption DEF Start, PeriodicSync, Client, RejectUpload,
    Upload, Fresh, ListFiles, GetFile, DownloadFile, VerifyIntegrity, DeleteFile
<1>2. ASSUME Store \/ WriteFails \/ CommitUploadFails PROVE Learned'
  BY <1>2, LoopAssumption, FilesAssumption DEF Store, WriteFile, CommitUpload, WriteFails,
    CommitUploadFails
<1>3. ASSUME NEW t \in Threads, Remove(t) \/ CommitDeleteFails(t) PROVE Learned'
  BY <1>3, LoopAssumption, FilesAssumption DEF Remove, Unlink, CommitDelete,
    CommitDeleteFails
<1>4. ASSUME NEW a \in Actors, Check(a) \/ QueryList(a) PROVE Learned'
  BY <1>4, LoopAssumption, FilesAssumption DEF Check, IsFile, CompareHash, Decrypt,
    Vanished, QueryList, Active
<1>5. ASSUME NEW a \in Actors, Answer(a) \/ QueryFails(a) PROVE Learned'
  BY <1>5, LoopAssumption, FilesAssumption DEF Answer, QueryFails
<1>6. ASSUME NEW a \in Actors, Sync(a) PROVE Learned'
  BY <1>6, LoopAssumption, FilesAssumption DEF Sync, Snapshot, Glob, Prune, CopyCheck,
    Copy, CopyStat, CopyVanished, OpenManifest, WriteManifest, OpenZip, WriteZip,
    ZipVanished, AfterSync
<1>7. ASSUME Crash \/ \E f \in Files : Damage(f) PROVE Learned'
  BY <1>7, LoopAssumption, FilesAssumption DEF Crash, Damage
<1>8. ASSUME UNCHANGED vars PROVE Learned'
  BY <1>8, LoopAssumption, FilesAssumption DEF vars
<1> QED
  BY <1>1, <1>2, <1>3, <1>4, <1>5, <1>6, <1>7, <1>8 DEF Next, Step, Failure

(* What nobody was told depends on no file. *)
LEMMA ToldStays ==
  ASSUME TypeOK, UNCHANGED got, \A a \in Actors : got[a] # "none" => file'[a] = file[a]
  PROVE  UNCHANGED Told
<1>1. \A a \in Actors : Word(got'[a], file'[a]) = Word(got[a], file[a])
  BY DEF Word
<1> QED
  BY <1>1 DEF Told

(* The vault of a file without a row is nobody's business. *)
LEMMA ContentStays ==
  ASSUME TypeOK, UNCHANGED row, \A f \in Files : row[f] # "none" => vault'[f] = vault[f]
  PROVE  UNCHANGED Content
BY DEF Content

(* One actor is told something else. *)
LEMMA ToldChanges ==
  ASSUME NEW a \in Actors,
         \A b \in Actors \ {a} : got'[b] = got[b] /\ file'[b] = file[b]
  PROVE  Told' = [Told EXCEPT ![a] = Word(got'[a], file'[a])]
<1>1. \A b \in Actors : Word(got'[b], file'[b]) = IF b = a THEN Word(got'[a], file'[a])
                                                  ELSE Word(got[b], file[b])
  OBVIOUS
<1> QED
  BY <1>1 DEF Told

(* A request that ends, and changes neither table, vault nor export.       *)
LEMMA EndForgets ==
  ASSUME TypeOK, NEW a \in Actors, got' = [got EXCEPT ![a] = "none"],
         file' = [file EXCEPT ![a] = 0], UNCHANGED <<row, Content, export>>
  PROVE  Abstract!Forget({a})
<1>1. /\ got'[a] = "none" /\ file'[a] = 0
      /\ \A b \in Actors \ {a} : got'[b] = got[b] /\ file'[b] = file[b]
  BY DEF TypeOK
<1>2. Told' = [Told EXCEPT ![a] = Word(got'[a], file'[a])]
  BY <1>1, ToldChanges
<1> QED
  BY <1>1, <1>2 DEF Abstract!Forget, Abstract!Nothing, Told, Word, Says, Content

(* The event loop's own steps: a file gets its row with its content, and   *)
(* nothing is seen of an upload before that or of one that fails.          *)
LEMMA UploadStores ==
  ASSUME IInv, Learned, Store \/ WriteFails \/ CommitUploadFails
  PROVE  UNCHANGED Abstract!vars \/ \E f \in Files : Abstract!Store(f)
<1> USE DEF IInv, TypeOK
<1> PICK f \in Files : f = file[Loop]
  BY DEF HasFile, Store, WriteFile, CommitUpload, WriteFails, CommitUploadFails
<1>1. row[f] = "none" /\ got[Loop] = "none"
  BY DEF Known, Learned, Store, WriteFile, CommitUpload, WriteFails, CommitUploadFails
<1>2. UNCHANGED Told /\ UNCHANGED export
  <2>1. UNCHANGED got /\ \A a \in Actors : got[a] # "none" => file'[a] = file[a]
    BY <1>1 DEF Store, WriteFile, CommitUpload, WriteFails, CommitUploadFails
  <2> QED
    BY <2>1, ToldStays DEF Store, WriteFile, CommitUpload, WriteFails, CommitUploadFails
<1>3. CASE UNCHANGED row
  <2>1. UNCHANGED Content
    BY <1>1, <1>3, ContentStays
      DEF Store, WriteFile, CommitUpload, WriteFails, CommitUploadFails
  <2> QED
    BY <1>2, <1>3, <2>1 DEF Abstract!vars, Told, Content, Word, Says
<1>4. CASE row' # row
  <2>1. row' = [row EXCEPT ![f] = "active"] /\ UNCHANGED vault /\ vault[f] \in {"whole", "damaged"}
    BY <1>1, <1>4 DEF Prepared, Store, WriteFile, CommitUpload, WriteFails, CommitUploadFails
  <2>2. Content' = [Content EXCEPT ![f] = vault[f]]
    BY <2>1 DEF Content
  <2> HIDE DEF IInv, TypeOK
  <2> QED
    BY <1>1, <1>2, <2>1, <2>2 DEF Abstract!Store, Told, Content, Word, Says
<1> QED
  BY <1>3, <1>4

(* A deletion takes the content, then marks the row. *)
LEMMA DeletionMarks ==
  ASSUME IInv, Learned, NEW t \in Threads, Remove(t) \/ CommitDeleteFails(t)
  PROVE  UNCHANGED Abstract!vars \/ \E f \in Files : Abstract!Unlink(f) \/ Abstract!Mark(f)
<1> USE DEF IInv, TypeOK
<1> PICK f \in Files : f = file[t]
  BY DEF HasFile, Remove, Unlink, CommitDelete, CommitDeleteFails
<1>1. row[f] # "none" /\ got[t] = "none"
  BY DEF Known, Learned, Remove, Unlink, CommitDelete, CommitDeleteFails
<1>2. UNCHANGED Told /\ UNCHANGED export
  <2>1. UNCHANGED got /\ \A a \in Actors : got[a] # "none" => file'[a] = file[a]
    BY <1>1 DEF Remove, Unlink, CommitDelete, CommitDeleteFails
  <2> QED
    BY <2>1, ToldStays DEF Remove, Unlink, CommitDelete, CommitDeleteFails
<1>3. CASE Unlink(t)
  <2>1. Content' = [Content EXCEPT ![f] = "absent"]
    BY <1>1, <1>3 DEF Unlink, Content
  <2> QED
    BY <1>1, <1>2, <1>3, <2>1 DEF Unlink, Abstract!Unlink, Told, Content, Word, Says
<1>4. CASE CommitDelete(t) \/ CommitDeleteFails(t)
  <2>1. /\ row' = row \/ row' = [row EXCEPT ![f] = "deleted"]
        /\ UNCHANGED vault /\ vault[f] = "absent"
    BY <1>4 DEF CommitDelete, CommitDeleteFails, Prepared
  <2>2. UNCHANGED Content /\ Content[f] = "absent"
    BY <1>1, <2>1 DEF Content
  <2>3. CASE row[f] = "active" /\ row' = [row EXCEPT ![f] = "deleted"]
    BY <1>2, <2>2, <2>3 DEF Abstract!Mark, Told, Content, Word, Says
  <2>4. CASE UNCHANGED row
    BY <1>2, <2>2, <2>4 DEF Abstract!vars, Told, Content, Word, Says
  <2> QED
    BY <1>1, <2>1, <2>3, <2>4
<1> QED
  BY <1>3, <1>4 DEF Remove

(* A verdict is true when it is found, a download's content when it is     *)
(* read, and whoever finds no file says nothing.                           *)
LEMMA CheckJudges ==
  ASSUME IInv, Learned, NEW a \in Actors, Check(a)
  PROVE  \/ UNCHANGED Abstract!vars
         \/ Abstract!Forget({a})
         \/ \E f \in Files : Abstract!Judge(a, f) \/ Abstract!Serve(a, f)
<1> USE DEF IInv, TypeOK
<1>1. CASE Vanished(a)
  BY <1>1, EndForgets DEF Vanished, Content
<1>2. CASE IsFile(a) /\ UNCHANGED locals
  BY <1>2 DEF IsFile, Abstract!vars
<1>3. CASE (IsFile(a) /\ got' # got) \/ CompareHash(a) \/ Decrypt(a)
  <2> PICK f \in Files : f = file[a]
    BY <1>3 DEF HasFile, IsFile, CompareHash, Decrypt
  <2>1. row[f] # "none" /\ Content[f] = vault[f]
    BY <1>3 DEF Known, IsFile, CompareHash, Decrypt, Content
  <2>2. /\ UNCHANGED <<row, vault, Content, export, file>>
        /\ \A b \in Actors \ {a} : got'[b] = got[b] /\ file'[b] = file[b]
        /\ got'[a] = "passed" \/ got'[a] = "plaintext" => vault[f] = "whole"
        /\ got'[a] = "failed" => vault[f] # "whole"
        /\ got'[a] \in {"passed", "plaintext", "failed"}
    BY <1>3 DEF IsFile, CompareHash, Decrypt, Content
  <2>3. Told' = [Told EXCEPT ![a] = Word(got'[a], f)]
    BY <2>2, ToldChanges
  <2>4. \/ got[a] = "none" /\ got'[a] # "plaintext"
        \/ got[a] = "passed" /\ got'[a] # "passed"
    <3>1. CASE IsFile(a) \/ CompareHash(a)
      BY <1>3, <3>1 DEF Learned, IsFile, CompareHash
    <3>2. CASE Decrypt(a)
      BY <3>2 DEF Learned, Decrypt
    <3> QED
      BY <1>3, <3>1, <3>2
  <2>5. Told[a] = IF got[a] = "none" THEN [says |-> "nothing", about |-> 0]
                  ELSE [says |-> "intact", about |-> f]
    BY <2>4 DEF Told, Word, Says
  <2>6. CASE got'[a] = "plaintext"
    <3>1. Word(got'[a], f) = [says |-> "served", about |-> f]
      BY <2>6 DEF Word, Says
    <3> HIDE DEF IInv, TypeOK
    <3> QED
      BY <2>1, <2>2, <2>3, <2>4, <2>5, <2>6, <3>1
        DEF Abstract!Serve, Abstract!Told, Content, Told, Word, Says
  <2>7. CASE got'[a] # "plaintext"
    <3>1. Word(got'[a], f) =
            [says |-> IF vault[f] = "whole" THEN "intact" ELSE "damaged", about |-> f]
      BY <2>2, <2>7 DEF Word, Says
    <3> HIDE DEF IInv, TypeOK
    <3> QED
      BY <2>1, <2>2, <2>3, <2>4, <2>5, <2>7, <3>1
        DEF Abstract!Judge, Abstract!Told, Abstract!Nothing, Content, Told, Word, Says
  <2> QED
    BY <2>6, <2>7
<1> QED
  BY <1>1, <1>2, <1>3 DEF Check, IsFile

LEMMA StoreInit == Init => Abstract!Init
BY DEF Init, Abstract!Init, Abstract!Nothing

(* The export copies active files only; a synchronisation that fails on a  *)
(* concurrent one ends its request.                                        *)
LEMMA SyncCopies ==
  ASSUME IInv, NEW a \in Actors, Sync(a)
  PROVE  \/ UNCHANGED Abstract!vars
         \/ Abstract!Forget({a})
         \/ \E f \in Files : Abstract!Copy(f) \/ Abstract!Uncopy(f)
<1>1. CASE CopyVanished(a) \/ ZipVanished(a)
  BY <1>1, EndForgets DEF IInv, CopyVanished, ZipVanished, Content
<1> USE DEF IInv, TypeOK
<1>2. CASE \/ Snapshot(a) \/ Glob(a) \/ CopyCheck(a) \/ CopyStat(a)
           \/ OpenManifest(a) \/ WriteManifest(a) \/ OpenZip(a) \/ WriteZip(a)
  BY <1>2 DEF Snapshot, Glob, CopyCheck, CopyStat, OpenManifest, WriteManifest, OpenZip,
    WriteZip, Abstract!vars
<1>3. CASE Prune(a)
  <2>1. UNCHANGED <<row, vault, got, file>>
    BY <1>3 DEF Prune
  <2>2. CASE UNCHANGED export
    BY <2>1, <2>2 DEF Abstract!vars
  <2>3. CASE \E f \in Files : export' = export \ {f}
    BY <2>1, <2>3 DEF Abstract!Uncopy
  <2> QED
    BY <1>3, <2>2, <2>3 DEF Prune
<1>4. CASE Copy(a)
  <2>1. PICK f \in Files : /\ f \in todo[a] /\ vault[f] # "absent"
                           /\ export' = export \cup {f}
                           /\ UNCHANGED <<row, vault, got, file>>
    BY <1>4 DEF Copy, Earliest
  <2>2. row[f] = "active"
    BY <2>1 DEF OnlyStored, DeletedIsGone
  <2> QED
    BY <2>1, <2>2 DEF Abstract!Copy
<1> QED
  BY <1>1, <1>2, <1>3, <1>4 DEF Sync

(* The disk, and the end of everything that runs.                          *)
LEMMA FaultsForget ==
  ASSUME IInv, Learned, Crash \/ \E f \in Files : Damage(f)
  PROVE  \/ UNCHANGED Abstract!vars
         \/ Abstract!Forget(Actors)
         \/ \E f \in Files : Abstract!Damage(f)
<1> USE DEF IInv, TypeOK
<1>1. CASE Crash
  <2>1. UNCHANGED Content
    <3>1. \A f \in Files : row[f] # "none" => vault'[f] = vault[f]
      BY <1>1 DEF Crash, Known, HasFile
    <3> QED
      BY <1>1, <3>1, ContentStays DEF Crash
  <2>2. Told' = [a \in Actors |-> [says |-> "nothing", about |-> 0]]
    BY <1>1 DEF Crash, Told, Word
  <2> QED
    BY <1>1, <2>1, <2>2 DEF Crash, Abstract!Forget, Abstract!Nothing, Content, Told, Word, Says
<1>2. ASSUME NEW f \in Files, Damage(f)
      PROVE  UNCHANGED Abstract!vars \/ Abstract!Damage(f)
  <2>1. CASE row[f] = "none"
    BY <1>2, <2>1 DEF Damage, Abstract!vars
  <2>2. CASE row[f] # "none"
    BY <1>2, <2>2 DEF Damage, Abstract!Damage
  <2> QED
    BY <2>1, <2>2
<1> QED
  BY <1>1, <1>2

(* Every step of the service is a step of FileStore or none. *)
LEMMA StoreStep ==
  ASSUME IInv, Learned, [Next]_vars
  PROVE  [Abstract!Next]_(Abstract!vars)
<1>1. ASSUME Start \/ PeriodicSync \/ Client \/ \E a \in Actors : QueryList(a)
      PROVE  UNCHANGED Abstract!vars
  <2>1. UNCHANGED <<row, vault, export, got>>
    BY <1>1 DEF Start, PeriodicSync, Client, RejectUpload, Upload, ListFiles, GetFile,
      DownloadFile, VerifyIntegrity, DeleteFile, QueryList
  <2>2. \A a \in Actors : got[a] # "none" => file'[a] = file[a]
    BY <1>1 DEF IInv, TypeOK, Learned, Start, PeriodicSync, Client, RejectUpload, Upload,
      ListFiles, GetFile, DownloadFile, VerifyIntegrity, DeleteFile, QueryList
  <2>3. UNCHANGED Told
    BY <2>1, <2>2, ToldStays DEF IInv
  <2> QED
    BY <2>1, <2>3 DEF Abstract!vars, Told, Word, Says
<1>2. ASSUME NEW a \in Actors, Answer(a) \/ QueryFails(a) PROVE Abstract!Forget({a})
  BY <1>2, EndForgets DEF IInv, Answer, QueryFails, Content
<1>3. CASE UNCHANGED vars
  BY <1>3 DEF vars, Abstract!vars
<1>4. CASE Store \/ WriteFails \/ CommitUploadFails
  BY <1>4, UploadStores DEF Abstract!Next
<1>5. CASE \E t \in Threads : Remove(t) \/ CommitDeleteFails(t)
  BY <1>5, DeletionMarks DEF Abstract!Next
<1>6. CASE \E a \in Actors : Answer(a) \/ QueryFails(a)
  BY <1>2, <1>6 DEF Abstract!Next
<1>7. CASE \E a \in Actors : Check(a)
  BY <1>7, CheckJudges DEF Abstract!Next
<1>8. CASE \E a \in Actors : Sync(a)
  BY <1>8, SyncCopies DEF Abstract!Next
<1>9. CASE Crash \/ \E f \in Files : Damage(f)
  BY <1>9, FaultsForget DEF Abstract!Next
<1> QED
  BY <1>1, <1>3, <1>4, <1>5, <1>6, <1>7, <1>8, <1>9 DEF Next, Step, Failure

(* StoreSpec: file-service, with its threads, its event loop, lost commits,*)
(* disk faults and restarts, implements FileStore.                         *)
THEOREM ImplementsStore == Spec => StoreSpec
<1>1. Init => Learned
  BY DEF Init, Learned
<1>2. IInv /\ Learned /\ [Next]_vars => Learned'
  BY LearnedStep DEF IInv
<1>3. IInv /\ Learned /\ [Next]_vars => [Abstract!Next]_(Abstract!vars)
  BY StoreStep
<1> QED
  BY Invariance, StoreInit, <1>1, <1>2, <1>3, PTL DEF Spec, StoreSpec, Abstract!Spec
=============================================================================
