----------------------------- MODULE FileVault -----------------------------
(***************************************************************************)
(* backend/file-service/main.py: the table secure_files, the vault         *)
(* directory and the live export of it, under uploads, views, downloads,   *)
(* integrity checks, deletions, the periodic export task, lost commits,    *)
(* disk faults and restarts.                                               *)
(*                                                                         *)
(* upload_file and the periodic task run on the event loop and do not wait *)
(* once they have their input: Loop is one actor, with one operation at a  *)
(* time.  Every other handler runs in a thread of its own.  A file stands  *)
(* for one upload: its row, and the name and content nobody else has.      *)
(***************************************************************************)
EXTENDS Naturals, FiniteSets

CONSTANTS
  Files,       \* uploads, in the order they are made
  Threads,     \* requests outside the event loop
  Loop,        \* the event loop
  MaxFaults    \* bound: crashes, failed writes and commits, disk faults

ASSUME FilesAssumption == Files \subseteq Nat \ {0}
ASSUME LoopAssumption == Loop \notin Threads

VARIABLES
  row,         \* secure_files.status; "none" without a row
  vault,       \* the encrypted file: absent, part of it, whole, or damaged
  export,      \* the files in the directory export/vault
  manifest,    \* manifest.csv: its state, the active files it lists
  zip,         \* the archive: its state, the files it holds
  service,     \* the process: down, starting, up
  pc, op,      \* per actor: position, operation
  file,        \* per actor: the file the operation is about, or 0
  got,         \* per actor: the verdict or the content it has for it
  snap, todo,  \* per actor: sync_live_export's active_records; what is left
  cut,         \* history: files whose deletion ended between unlink and commit
  faults       \* what MaxFaults bounds

stored == <<row, vault>>
exported == <<export, manifest, zip>>
locals == <<op, file, got>>
sync == <<snap, todo>>
history == <<cut, faults>>
vars == <<stored, exported, service, pc, locals, sync, history>>

Opened == [state |-> "open", files |-> {}]
Mixed == [state |-> "mixed", files |-> {}]
Written(S) == [state |-> "written", files |-> S]

Actors == Threads \cup {Loop}
Active == {f \in Files : row[f] = "active"}
Fault == faults < MaxFaults /\ faults' = faults + 1 /\ UNCHANGED cut

Init ==
  /\ row = [f \in Files |-> "none"]
  /\ vault = [f \in Files |-> "absent"]
  /\ export = {} /\ manifest = Written({}) /\ zip = Written({})
  /\ service = "down"
  /\ pc = [a \in Actors |-> "idle"]
  /\ op = [a \in Actors |-> "none"]
  /\ file = [a \in Actors |-> 0]
  /\ got = [a \in Actors |-> "none"]
  /\ snap = [a \in Actors |-> {}]
  /\ todo = [a \in Actors |-> {}]
  /\ cut = {} /\ faults = 0

Goto(a, q) == pc' = [pc EXCEPT ![a] = q]
Move(a, p, q) == pc[a] = p /\ Goto(a, q)

Begin(a, o, f, p) ==
  /\ pc[a] = "idle"
  /\ Goto(a, p)
  /\ op' = [op EXCEPT ![a] = o]
  /\ file' = [file EXCEPT ![a] = f]
  /\ UNCHANGED <<stored, exported, got, sync, history>>

(* The request or the task ends, with an answer or an exception; an        *)
(* exception of the first synchronisation ends the process.                *)
End(a, up) ==
  /\ Goto(a, "idle")
  /\ op' = [op EXCEPT ![a] = "none"]
  /\ file' = [file EXCEPT ![a] = 0]
  /\ got' = [got EXCEPT ![a] = "none"]
  /\ snap' = [snap EXCEPT ![a] = {}]
  /\ todo' = [todo EXCEPT ![a] = {}]
  /\ service' = IF op[a] = "startup" THEN up ELSE service

Raise(a) == End(a, "down")

Answer(a) ==
  /\ pc[a] = "answer"
  /\ End(a, "up")
  /\ UNCHANGED <<stored, exported, history>>

----------------------------------------------------------------------------
(* lifespan, the periodic task and upload_file: the event loop. *)

Start ==
  /\ service = "down"
  /\ service' = "starting"
  /\ Begin(Loop, "startup", 0, "snapshot")

PeriodicSync ==
  /\ service = "up"
  /\ Begin(Loop, "periodic", 0, "snapshot")
  /\ UNCHANGED service

(* An upload whose validation fails still rebuilds the archive. *)
RejectUpload ==
  /\ service = "up"
  /\ Begin(Loop, "reject", 0, "zip")
  /\ UNCHANGED service

Fresh(f) == row[f] = "none" /\ vault[f] = "absent"

(* Mutant: the row is committed before the file is written. *)
Upload_RowFirst(f) ==
  /\ service = "up" /\ pc[Loop] = "idle"
  /\ Fresh(f) /\ \A g \in Files : g < f => ~Fresh(g)
  /\ Goto(Loop, "write")
  /\ op' = [op EXCEPT ![Loop] = "upload"]
  /\ file' = [file EXCEPT ![Loop] = f]
  /\ row' = [row EXCEPT ![f] = "active"]
  /\ UNCHANGED <<vault, exported, service, got, sync, history>>

Upload(f) ==
  /\ service = "up"
  /\ Fresh(f) /\ \A g \in Files : g < f => ~Fresh(g)
  /\ Begin(Loop, "upload", f, "write")
  /\ UNCHANGED service

WriteFile ==
  /\ Move(Loop, "write", "commit")
  /\ vault' = [vault EXCEPT ![file[Loop]] = "whole"]
  /\ UNCHANGED <<row, exported, service, locals, sync, history>>

(* Mutant: the exception of a full disk is caught and forgotten. *)
WriteFails_Ignored ==
  /\ Move(Loop, "write", "commit")
  /\ Fault
  /\ vault' = [vault EXCEPT ![file[Loop]] = "part"]
  /\ UNCHANGED <<row, exported, service, locals, sync>>

WriteFails ==
  /\ pc[Loop] = "write"
  /\ Fault
  /\ \E c \in {"absent", "part"} : vault' = [vault EXCEPT ![file[Loop]] = c]
  /\ Raise(Loop)
  /\ UNCHANGED <<row, exported>>

CommitUpload ==
  /\ Move(Loop, "commit", "snapshot")
  /\ row' = [row EXCEPT ![file[Loop]] = "active"]
  /\ UNCHANGED <<vault, exported, service, locals, sync, history>>

(* The commit raises: before the database applied it, or after. *)
CommitUploadFails ==
  /\ pc[Loop] = "commit"
  /\ Fault
  /\ \E s \in {"none", "active"} : row' = [row EXCEPT ![file[Loop]] = s]
  /\ Raise(Loop)
  /\ UNCHANGED <<vault, exported>>

----------------------------------------------------------------------------
(* The handlers in threads.  Each starts from a row that is active and its *)
(* user may see; the others end with 404 or 403 and change nothing.        *)

Handle(t, o, f, p) ==
  /\ service = "up"
  /\ row[f] = "active"
  /\ Begin(t, o, f, p)
  /\ UNCHANGED service

GetFile(t, f) == Handle(t, "get", f, "snapshot")
DownloadFile(t, f) == Handle(t, "download", f, "check")
VerifyIntegrity(t, f) == Handle(t, "verify", f, "check")
DeleteFile(t, f) == Handle(t, "delete", f, "unlink")

ListFiles(t) ==
  /\ service = "up"
  /\ Begin(t, "list", 0, "snapshot")
  /\ UNCHANGED service

(* list_files asks for its rows after the synchronisation; the response of *)
(* each is computed by itself, so that one of them stands for all.         *)
QueryList(t) ==
  /\ pc[t] = "query"
  /\ \/ \E f \in Active : file' = [file EXCEPT ![t] = f] /\ Goto(t, "check")
     \/ Active = {} /\ Goto(t, "answer") /\ UNCHANGED file
  /\ UNCHANGED <<stored, exported, service, op, got, sync, history>>

(* Mutant: the row is marked and the file left to a later clean-up. *)
Unlink_Later(t) ==
  /\ Move(t, "unlink", "uncommit")
  /\ UNCHANGED <<stored, exported, service, locals, sync, history>>

Unlink(t) ==
  /\ Move(t, "unlink", "uncommit")
  /\ vault' = [vault EXCEPT ![file[t]] = "absent"]
  /\ UNCHANGED <<row, exported, service, locals, sync, history>>

(* Mutant: a status the queries do not know. *)
CommitDelete_Removed(t) ==
  /\ Move(t, "uncommit", "snapshot")
  /\ row' = [row EXCEPT ![file[t]] = "removed"]
  /\ UNCHANGED <<vault, exported, service, locals, sync, history>>

CommitDelete(t) ==
  /\ Move(t, "uncommit", "snapshot")
  /\ row' = [row EXCEPT ![file[t]] = "deleted"]
  /\ UNCHANGED <<vault, exported, service, locals, sync, history>>

CommitDeleteFails(t) ==
  /\ pc[t] = "uncommit"
  /\ faults < MaxFaults /\ faults' = faults + 1
  /\ \E s \in {row[file[t]], "deleted"} : row' = [row EXCEPT ![file[t]] = s]
  /\ cut' = cut \cup {file[t]}
  /\ Raise(t)
  /\ UNCHANGED <<vault, exported>>

----------------------------------------------------------------------------
(* verify_encrypted_hash and the download. *)

(* Where a verdict leads: a download goes on or ends with 409, an explicit *)
(* check goes on to the export, a response is complete.                    *)
Judge(a, verdict) ==
  /\ got' = [got EXCEPT ![a] = verdict]
  /\ Goto(a, IF op[a] = "verify" THEN "snapshot"
             ELSE IF op[a] = "download" /\ verdict = "passed" THEN "read" ELSE "answer")
  /\ UNCHANGED <<stored, exported, service, op, file, sync, history>>

IsFile(a) ==
  /\ pc[a] = "check"
  /\ \/ vault[file[a]] = "absent" /\ Judge(a, "failed")
     \/ /\ vault[file[a]] # "absent"
        /\ Goto(a, "hash")
        /\ UNCHANGED <<stored, exported, service, locals, sync, history>>

CompareHash(a) ==
  /\ pc[a] = "hash"
  /\ vault[file[a]] # "absent"
  /\ Judge(a, IF vault[file[a]] = "whole" THEN "passed" ELSE "failed")

(* Mutant: the content is not checked again after decryption. *)
Decrypt_Trusting(a) ==
  /\ Move(a, "read", "snapshot")
  /\ vault[file[a]] # "absent"
  /\ got' = [got EXCEPT ![a] = IF vault[file[a]] = "whole" THEN "plaintext" ELSE "garbage"]
  /\ UNCHANGED <<stored, exported, service, op, file, sync, history>>

(* The second read, decryption and the comparison with plaintext_sha256. *)
Decrypt(a) ==
  /\ pc[a] = "read"
  /\ vault[file[a]] # "absent"
  /\ \/ /\ vault[file[a]] = "whole"
        /\ got' = [got EXCEPT ![a] = "plaintext"]
        /\ Goto(a, "snapshot")
     \/ /\ vault[file[a]] # "whole"
        /\ got' = [got EXCEPT ![a] = "failed"]
        /\ Goto(a, "answer")
  /\ UNCHANGED <<stored, exported, service, op, file, sync, history>>

(* The file was there for is_file and is not any more: 500. *)
Vanished(a) ==
  /\ pc[a] \in {"hash", "read"}
  /\ vault[file[a]] = "absent"
  /\ Raise(a)
  /\ UNCHANGED <<stored, exported, history>>

----------------------------------------------------------------------------
(* sync_live_export and write_live_zip, run by any actor at any time. *)

(* Mutant: the export follows the vault directory and not the table. *)
Snapshot_Vault(a) ==
  /\ Move(a, "snapshot", "glob")
  /\ snap' = [snap EXCEPT ![a] = {f \in Files : vault[f] # "absent"}]
  /\ UNCHANGED <<stored, exported, service, locals, todo, history>>

Snapshot(a) ==
  /\ Move(a, "snapshot", "glob")
  /\ snap' = [snap EXCEPT ![a] = Active]
  /\ UNCHANGED <<stored, exported, service, locals, todo, history>>

(* Mutant: files that lost their row are left in the export. *)
Glob_KeepsAll(a) ==
  /\ Move(a, "glob", "prune")
  /\ todo' = [todo EXCEPT ![a] = {}]
  /\ UNCHANGED <<stored, exported, service, locals, snap, history>>

Glob(a) ==
  /\ Move(a, "glob", "prune")
  /\ todo' = [todo EXCEPT ![a] = export \ snap[a]]
  /\ UNCHANGED <<stored, exported, service, locals, snap, history>>

Prune(a) ==
  /\ pc[a] = "prune"
  /\ \/ \E f \in todo[a] : /\ export' = export \ {f}
                           /\ todo' = [todo EXCEPT ![a] = @ \ {f}]
                           /\ UNCHANGED pc
     \/ /\ todo[a] = {}
        /\ todo' = [todo EXCEPT ![a] = snap[a]]
        /\ Goto(a, "copy")
        /\ UNCHANGED export
  /\ UNCHANGED <<stored, manifest, zip, service, locals, snap, history>>

Earliest(a) == {f \in todo[a] : \A g \in todo[a] : f <= g}

(* source.is_file(), for the next record in the order of the ids. *)
CopyCheck(a) ==
  /\ pc[a] = "copy"
  /\ \E f \in Earliest(a) :
       \/ vault[f] # "absent" /\ Goto(a, "copying") /\ UNCHANGED todo
       \/ vault[f] = "absent" /\ todo' = [todo EXCEPT ![a] = @ \ {f}] /\ UNCHANGED pc
  /\ UNCHANGED <<stored, exported, service, locals, snap, history>>

(* copy2 opens its source, then the copy; what is open can be read and     *)
(* written to the end whatever is unlinked meanwhile.                      *)
Copy(a) ==
  /\ Move(a, "copying", "copied")
  /\ \E f \in Earliest(a) :
       /\ vault[f] # "absent"
       /\ export' = export \cup {f}
  /\ UNCHANGED <<stored, manifest, zip, service, locals, sync, history>>

(* Can copy2 give the copy the times of its source?  It names them both.   *)
BothThere(a) == \E f \in Earliest(a) \cap export : vault[f] # "absent"

CopyStat(a) ==
  /\ Move(a, "copied", "copy")
  /\ BothThere(a)
  /\ todo' = [todo EXCEPT ![a] = @ \ Earliest(a)]
  /\ UNCHANGED <<stored, exported, service, locals, snap, history>>

(* The source was deleted after is_file and before copy2 ended, or an      *)
(* older synchronisation removed the copy meanwhile.                       *)
CopyVanished(a) ==
  /\ \/ pc[a] = "copying" /\ \E f \in Earliest(a) : vault[f] = "absent"
     \/ pc[a] = "copied" /\ ~BothThere(a)
  /\ Raise(a)
  /\ UNCHANGED <<stored, exported, history>>

(* Mutant: with all copies in place the lists are taken to be right too. *)
OpenManifest_Shortcut(a) ==
  /\ pc[a] = "copy" /\ todo[a] = {}
  /\ \/ export = snap[a] /\ Goto(a, "answer") /\ UNCHANGED manifest
     \/ export # snap[a] /\ Goto(a, "listing") /\ manifest' = Opened
  /\ UNCHANGED <<stored, export, zip, service, locals, sync, history>>

(* All is copied: the manifest is truncated, then its rows are queried. *)
OpenManifest(a) ==
  /\ Move(a, "copy", "listing") /\ todo[a] = {}
  /\ manifest' = Opened
  /\ UNCHANGED <<stored, export, zip, service, locals, sync, history>>

(* The rows of the second query, as the session knows them: a record it    *)
(* already holds keeps the status it was loaded with.                      *)
Listed(a) == Active \cup snap[a] \cup (IF op[a] = "delete" THEN {} ELSE {file[a]} \ {0})

(* A writer that was not alone may leave rows of both, or older ones. *)
WriteManifest(a) ==
  /\ Move(a, "listing", "zip")
  /\ \/ manifest' = Written(Listed(a))
     \/ manifest # Opened /\ manifest' = Mixed
  /\ snap' = [snap EXCEPT ![a] = {}]
  /\ UNCHANGED <<stored, export, zip, service, locals, todo, history>>

(* The archive is truncated and the copies for it are listed. *)
OpenZip(a) ==
  /\ Move(a, "zip", "zipping")
  /\ zip' = Opened
  /\ todo' = [todo EXCEPT ![a] = export]
  /\ UNCHANGED <<stored, export, manifest, service, locals, snap, history>>

(* Where the synchronisation returns to. *)
AfterSync(o) ==
  IF o \in {"get", "upload"} THEN "check" ELSE IF o = "list" THEN "query" ELSE "answer"

WriteZip(a) ==
  /\ pc[a] = "zipping"
  /\ \/ zip' = Written(todo[a])
     \/ zip # Opened /\ zip' = Mixed
  /\ Goto(a, AfterSync(op[a]))
  /\ todo' = [todo EXCEPT ![a] = {}]
  /\ UNCHANGED <<stored, export, manifest, service, locals, snap, history>>

(* A copy was removed after glob and before archive.write reached it. *)
ZipVanished(a) ==
  /\ pc[a] = "zipping"
  /\ todo[a] \ export # {}
  /\ zip' = Mixed
  /\ Raise(a)
  /\ UNCHANGED <<stored, export, manifest, history>>

(* The query of the records fails, before or while the manifest is open. *)
QueryFails(a) ==
  /\ pc[a] \in {"snapshot", "listing", "query"}
  /\ Fault
  /\ Raise(a)
  /\ UNCHANGED <<stored, exported>>

----------------------------------------------------------------------------
(* Faults of the environment. *)

(* The process dies: the file being written may be there in part, and the  *)
(* deletions that unlinked a file are never committed.                     *)
Crash ==
  /\ service # "down"
  /\ faults < MaxFaults /\ faults' = faults + 1
  /\ service' = "down"
  /\ vault' \in IF pc[Loop] = "write"
                THEN {[vault EXCEPT ![file[Loop]] = c] : c \in {"absent", "part"}}
                ELSE {vault}
  /\ cut' = cut \cup {file[t] : t \in {u \in Threads : pc[u] = "uncommit"}}
  /\ pc' = [a \in Actors |-> "idle"]
  /\ op' = [a \in Actors |-> "none"]
  /\ file' = [a \in Actors |-> 0]
  /\ got' = [a \in Actors |-> "none"]
  /\ snap' = [a \in Actors |-> {}]
  /\ todo' = [a \in Actors |-> {}]
  /\ UNCHANGED <<row, exported>>

(* The disk changes a stored file. *)
Damage(f) ==
  /\ vault[f] = "whole"
  /\ Fault
  /\ vault' = [vault EXCEPT ![f] = "damaged"]
  /\ UNCHANGED <<row, exported, service, pc, locals, sync>>

----------------------------------------------------------------------------

Sync(a) ==
  \/ Snapshot(a) \/ Glob(a) \/ Prune(a) \/ CopyCheck(a) \/ Copy(a) \/ CopyStat(a)
  \/ OpenManifest(a) \/ WriteManifest(a) \/ OpenZip(a) \/ WriteZip(a)
  \/ CopyVanished(a) \/ ZipVanished(a)

Check(a) == IsFile(a) \/ CompareHash(a) \/ Decrypt(a) \/ Vanished(a)

Step(a) == Sync(a) \/ Check(a) \/ QueryList(a) \/ Answer(a)

Store == WriteFile \/ CommitUpload
Remove(t) == Unlink(t) \/ CommitDelete(t)

Client ==
  \/ RejectUpload
  \/ \E f \in Files : Upload(f)
  \/ \E t \in Threads : ListFiles(t)
  \/ \E t \in Threads, f \in Files :
       GetFile(t, f) \/ DownloadFile(t, f) \/ VerifyIntegrity(t, f) \/ DeleteFile(t, f)

Failure ==
  \/ WriteFails \/ CommitUploadFails \/ Crash
  \/ \E t \in Threads : CommitDeleteFails(t)
  \/ \E a \in Actors : QueryFails(a)
  \/ \E f \in Files : Damage(f)

Next ==
  \/ Start \/ PeriodicSync \/ Store \/ Client \/ Failure
  \/ \E a \in Actors : Step(a)
  \/ \E t \in Threads : Remove(t)

(* The event loop and the threads run, and the timer of the periodic task  *)
(* fires when the loop is free again and again.  Nothing obliges a user, a *)
(* fault, or the operator who starts the container.                        *)
Fairness ==
  /\ SF_vars(PeriodicSync) /\ WF_vars(Store)
  /\ \A a \in Actors : WF_vars(Step(a))
  /\ \A t \in Threads : WF_vars(Remove(t))

Spec == Init /\ [][Next]_vars
FairSpec == Spec /\ Fairness

----------------------------------------------------------------------------
(* Properties. *)

Deleting(f) == \E t \in Threads : file[t] = f /\ pc[t] = "uncommit"

(* Every variable keeps the shape its column, directory or local has.      *)
TypeOK ==
  /\ row \in [Files -> {"none", "active", "deleted"}]
  /\ vault \in [Files -> {"absent", "part", "whole", "damaged"}]
  /\ export \in SUBSET Files
  /\ manifest \in [state : {"open", "mixed", "written"}, files : SUBSET Files]
  /\ zip \in [state : {"open", "mixed", "written"}, files : SUBSET Files]
  /\ service \in {"down", "starting", "up"}
  /\ pc \in [Actors -> {"idle", "write", "commit", "unlink", "uncommit", "query", "check",
                        "hash", "read", "snapshot", "glob", "prune", "copy", "copying",
                        "copied", "listing", "zip", "zipping", "answer"}]
  /\ op \in [Actors -> {"none", "startup", "periodic", "reject", "upload", "get", "list",
                        "download", "verify", "delete"}]
  /\ file \in [Actors -> Files \cup {0}]
  /\ got \in [Actors -> {"none", "passed", "failed", "plaintext", "garbage"}]
  /\ snap \in [Actors -> SUBSET Files]
  /\ todo \in [Actors -> SUBSET Files]
  /\ cut \in SUBSET Files
  /\ faults \in Nat

(* An active row has a complete file, changed at most by the disk: the     *)
(* upload writes before it commits.  The file is missing only during a     *)
(* deletion, and for good only when one ended between unlink and commit.   *)
ActiveHasFile ==
  \A f \in Files : row[f] = "active" =>
    \/ vault[f] \in {"whole", "damaged"}
    \/ vault[f] = "absent" /\ (f \in cut \/ Deleting(f))

(* Once a row is deleted its content is gone from the vault and nothing    *)
(* that was still running brings it back.                                  *)
DeletedIsGone == \A f \in Files : row[f] = "deleted" => vault[f] = "absent"

(* What a download answers with is what was uploaded, whatever happens to  *)
(* the file between the check of its hash and the read of its content.     *)
ServedIsUploaded ==
  \A a \in Actors : op[a] = "download" /\ pc[a] \notin {"check", "hash", "read"} =>
    got[a] \in {"plaintext", "failed"}

(* A response calls a file damaged only if the disk changed it or someone  *)
(* deleted it: no order of the other handlers' steps makes a file look     *)
(* damaged that is not.                                                    *)
NoFalseAlarm ==
  \A a \in Actors : got[a] = "failed" =>
    \/ vault[file[a]] = "damaged"
    \/ row[file[a]] = "deleted" \/ file[a] \in cut \/ Deleting(file[a])

(* Under all its interleavings the service implements FileStore: the       *)
(* content a row stands for is the file in the vault, the copies are the   *)
(* export directory, and an answer is the verdict an actor has for its     *)
(* file, or the content it read.                                           *)
Abstract == INSTANCE FileStore WITH
  row <- row,
  content <- [f \in Files |-> IF row[f] = "none" THEN "absent" ELSE vault[f]],
  copies <- export,
  answer <- [a \in Actors |->
    IF got[a] = "none" THEN [says |-> "nothing", about |-> 0]
    ELSE [says |-> IF got[a] = "passed" THEN "intact"
                   ELSE IF got[a] = "plaintext" THEN "served" ELSE "damaged",
          about |-> file[a]]],
  Askers <- Actors
StoreSpec == Abstract!Spec

(* An upload that was never committed is never exported, although its file *)
(* may stay in the vault for ever.                                         *)
OnlyStoredExported ==
  \A f \in Files : row[f] = "none" =>
    f \notin export /\ f \notin zip.files

(* The export holds the active files, and others neither. *)
Exported ==
  /\ export \subseteq Active
  /\ \A f \in Active : vault[f] # "absent" => f \in export

(* As long as the service stays up, the export directory comes to hold the *)
(* stored files and only them, whatever synchronisations ran at once, from *)
(* whatever snapshots, and failed on each other: the periodic task repairs *)
(* it.                                                                     *)
ExportConverges == <>[](service = "up") => <>[]Exported

(* When in the end only the periodic task runs, the archive and the        *)
(* manifest become right again and again (they are rewritten in place).    *)
Quiet ==
  /\ service = "up"
  /\ op[Loop] \in {"none", "periodic"}
  /\ \A t \in Threads : pc[t] = "idle"
ListsConverge == <>[]Quiet => []<>(zip = Written(export)) /\ []<>(manifest = Written(Active))
=============================================================================
