----------------------------- MODULE ReportJobs -----------------------------
(***************************************************************************)
(* Report jobs: the report-service, which stores a job and publishes a     *)
(* message for it, the RabbitMQ queue, and the worker-service, which takes *)
(* one message at a time, writes the report file and updates the job.      *)
(*                                                                         *)
(* There is one worker (docker-compose names its container), it handles    *)
(* one message at a time (prefetch_count=1) and acknowledges it in a       *)
(* finally block, whatever happened.  A message whose channel is lost      *)
(* before the acknowledgement is delivered again.  The publisher asks for  *)
(* no confirmation, so that its messages can be lost and an error it sees  *)
(* can come after the message was queued.  Either process may crash, and   *)
(* any statement to the database may fail.  A download checks the row of a *)
(* job and then sends its file, which a second run may meanwhile rewrite.  *)
(***************************************************************************)
EXTENDS Naturals

CONSTANTS
  Jobs,        \* the jobs administrators may ask for, one request each
  MaxFaults    \* bound: crashes, lost channels, broker and database errors

ASSUME JobsAssumption == Jobs # {}

VARIABLES
  status, result, error,   \* the table jobs: status, is result_path set, error_message
  file,                    \* the report file: absent, unusable or with its data
  sending,                 \* the download of a job: none, of a whole or of a rewritten file
  req,                     \* the POST request that creates the job
  msg,                     \* its message
  again,                   \* jobs whose message was put back into the queue
  wpc, wjob,               \* the worker: where it is, the job it works on
  loaded,                  \* the row as process_report_job first read it
  unmarked,                \* history: jobs whose failure could not be written
  faults                   \* what MaxFaults bounds

table == <<status, result, error>>
worker == <<wpc, wjob, loaded>>
reports == <<file, sending>>
vars == <<table, reports, req, msg, again, worker, unmarked, faults>>

AnyJob == CHOOSE j \in Jobs : TRUE

Init ==
  /\ status = [j \in Jobs |-> "none"]
  /\ result = [j \in Jobs |-> FALSE]
  /\ error = [j \in Jobs |-> "none"]
  /\ file = [j \in Jobs |-> "absent"]
  /\ sending = [j \in Jobs |-> "none"]
  /\ req = [j \in Jobs |-> "none"]
  /\ msg = [j \in Jobs |-> "none"]
  /\ again = {}
  /\ wpc = "idle"
  /\ wjob = AnyJob
  /\ loaded = [status |-> "none", error |-> "none"]
  /\ unmarked = {}
  /\ faults = 0

Fault == faults < MaxFaults /\ faults' = faults + 1

----------------------------------------------------------------------------
(* The report-service: queue_report_job. *)

CreateJob(j) ==
  /\ req[j] = "none"
  /\ status' = [status EXCEPT ![j] = "pending"]
  /\ req' = [req EXCEPT ![j] = "publish"]
  /\ UNCHANGED <<result, error, reports, msg, again, worker, unmarked, faults>>

Publish(j) ==
  /\ req[j] = "publish"
  /\ msg' = [msg EXCEPT ![j] = "ready"]
  /\ req' = [req EXCEPT ![j] = "accepted"]
  /\ UNCHANGED <<table, reports, again, worker, unmarked, faults>>

(* basic_publish returned, but the broker never stored the message. *)
PublishLost(j) ==
  /\ req[j] = "publish"
  /\ Fault
  /\ msg' = [msg EXCEPT ![j] = "lost"]
  /\ req' = [req EXCEPT ![j] = "accepted"]
  /\ UNCHANGED <<table, reports, again, worker, unmarked>>

(* An AMQPError: before the message left, or after the broker had it. *)
PublishFails(j) ==
  /\ req[j] = "publish"
  /\ Fault
  /\ \E m \in {"none", "ready"} : msg' = [msg EXCEPT ![j] = m]
  /\ req' = [req EXCEPT ![j] = "mark"]
  /\ UNCHANGED <<table, reports, again, worker, unmarked>>

(* mark_job_failed does not look at what became of the job meanwhile. *)
MarkJobFailed(j) ==
  /\ req[j] = "mark"
  /\ status' = [status EXCEPT ![j] = "failed"]
  /\ error' = [error EXCEPT ![j] = "queue"]
  /\ req' = [req EXCEPT ![j] = "refused"]
  /\ UNCHANGED <<result, reports, msg, again, worker, unmarked, faults>>

(* A database error: at db.refresh of the new job, or before or after the  *)
(* commit of mark_job_failed.                                              *)
RequestFails(j) ==
  /\ req[j] \in {"publish", "mark"}
  /\ Fault
  /\ \/ UNCHANGED <<status, error>>
     \/ /\ req[j] = "mark"
        /\ status' = [status EXCEPT ![j] = "failed"]
        /\ error' = [error EXCEPT ![j] = "queue"]
  /\ req' = [req EXCEPT ![j] = "broken"]
  /\ UNCHANGED <<result, reports, msg, again, worker, unmarked>>

(* download_report: the job is completed, has a path, and the file exists. *)
CheckDownload(j) ==
  /\ sending[j] = "none"
  /\ status[j] = "completed" /\ result[j] /\ file[j] # "absent"
  /\ sending' = [sending EXCEPT ![j] = "whole"]
  /\ UNCHANGED <<table, file, req, msg, again, worker, unmarked, faults>>

(* FileResponse has read and sent the last of the file. *)
SendReport(j) ==
  /\ sending[j] # "none"
  /\ sending' = [sending EXCEPT ![j] = "none"]
  /\ UNCHANGED <<table, file, req, msg, again, worker, unmarked, faults>>

ReportServiceCrash ==
  /\ \E j \in Jobs : req[j] \in {"publish", "mark"} \/ sending[j] # "none"
  /\ Fault
  /\ req' = [j \in Jobs |-> IF req[j] \in {"publish", "mark"} THEN "broken" ELSE req[j]]
  /\ sending' = [j \in Jobs |-> "none"]
  /\ UNCHANGED <<table, file, msg, again, worker, unmarked>>

----------------------------------------------------------------------------
(* The worker-service. *)

(* Mutant: automatic acknowledgement. *)
Deliver_AutoAck(j) ==
  /\ wpc = "idle"
  /\ msg[j] = "ready"
  /\ msg' = [msg EXCEPT ![j] = "acked"]
  /\ wpc' = "load"
  /\ wjob' = j
  /\ UNCHANGED <<table, reports, req, again, loaded, unmarked, faults>>

Deliver(j) ==
  /\ wpc = "idle"
  /\ msg[j] = "ready"
  /\ msg' = [msg EXCEPT ![j] = "unacked"]
  /\ wpc' = "load"
  /\ wjob' = j
  /\ UNCHANGED <<table, reports, req, again, loaded, unmarked, faults>>

(* process_report_job reads the row without a lock ... *)
LoadJob ==
  /\ wpc = "load"
  /\ loaded' = [status |-> status[wjob], error |-> error[wjob]]
  /\ wpc' = "start"
  /\ UNCHANGED <<table, reports, req, msg, again, wjob, unmarked, faults>>

(* ... and SQLAlchemy writes the columns that differ from what was read. *)
Started(f, was, is) == [f EXCEPT ![wjob] = IF was # is THEN is ELSE @]
(* Mutant: the error message of an earlier run is not cleared. *)
StartJob_KeepsError ==
  /\ wpc = "start"
  /\ status' = Started(status, loaded.status, "processing")
  /\ wpc' = "write"
  /\ UNCHANGED <<result, error, reports, req, msg, again, wjob, loaded, unmarked, faults>>
(* Mutant: the status is written with the result, not before the run. *)
StartJob_NotCommitted ==
  /\ wpc = "start"
  /\ wpc' = "write"
  /\ UNCHANGED <<table, reports, req, msg, again, wjob, loaded, unmarked, faults>>
StartJob ==
  /\ wpc = "start"
  /\ status' = Started(status, loaded.status, "processing")
  /\ error' = Started(error, loaded.error, "none")
  /\ wpc' = "write"
  /\ UNCHANGED <<result, reports, req, msg, again, wjob, loaded, unmarked, faults>>

(* Mutant: handle_message does not mark the job. *)
StartFails_Unmarked ==
  /\ wpc \in {"load", "start", "write"}
  /\ Fault
  /\ wpc' = "ack"
  /\ UNCHANGED <<table, reports, req, msg, again, wjob, loaded, unmarked>>

(* A database error before the commit of "processing" or after it, when    *)
(* job.requested_by is read again: neither is inside the inner try.        *)
StartFails ==
  /\ wpc \in {"load", "start", "write"}
  /\ Fault
  /\ wpc' = "outer"
  /\ UNCHANGED <<table, reports, req, msg, again, wjob, loaded, unmarked>>

(* write_text empties the file under whoever is reading it. *)
Rewrite ==
  /\ file' = [file EXCEPT ![wjob] = "unusable"]
  /\ sending' = [sending EXCEPT ![wjob] = IF @ = "none" THEN @ ELSE "torn"]

(* The query is done, and the file is opened ... *)
OpenReport ==
  /\ wpc = "write"
  /\ Rewrite
  /\ wpc' = "fill"
  /\ UNCHANGED <<table, req, msg, again, wjob, loaded, unmarked, faults>>

(* ... and filled. *)
WriteReport ==
  /\ wpc = "fill"
  /\ file' = [file EXCEPT ![wjob] = "data"]
  /\ wpc' = "commit"
  /\ UNCHANGED <<table, sending, req, msg, again, wjob, loaded, unmarked, faults>>

(* safe_rows swallows a failed query: the file says the data is missing,   *)
(* and the transaction is aborted, so that the next statement fails too.   *)
WriteWithoutRows ==
  /\ wpc = "write"
  /\ Fault
  /\ Rewrite
  /\ wpc' = "aborted"
  /\ UNCHANGED <<table, req, msg, again, wjob, loaded, unmarked>>

(* The file cannot be opened, or only a part of it be written. *)
WriteFails ==
  /\ wpc \in {"write", "fill"}
  /\ Fault
  /\ wpc' = "inner"
  /\ UNCHANGED <<table, reports, req, msg, again, wjob, loaded, unmarked>>

CommitJob ==
  /\ wpc = "commit"
  /\ status' = [status EXCEPT ![wjob] = "completed"]
  /\ result' = [result EXCEPT ![wjob] = TRUE]
  /\ wpc' = "ack"
  /\ UNCHANGED <<error, reports, req, msg, again, wjob, loaded, unmarked, faults>>

CommitAborted ==
  /\ wpc = "aborted"
  /\ wpc' = "inner"
  /\ UNCHANGED <<table, reports, req, msg, again, wjob, loaded, unmarked, faults>>

CommitFails ==
  /\ wpc = "commit"
  /\ Fault
  /\ wpc' = "inner"
  /\ UNCHANGED <<table, reports, req, msg, again, wjob, loaded, unmarked>>

(* The commit is done, but reading job.requested_by for the audit event    *)
(* fails inside the same try.                                              *)
ReloadFails ==
  /\ wpc = "commit"
  /\ Fault
  /\ status' = [status EXCEPT ![wjob] = "completed"]
  /\ result' = [result EXCEPT ![wjob] = TRUE]
  /\ wpc' = "inner"
  /\ UNCHANGED <<error, reports, req, msg, again, wjob, loaded, unmarked>>

(* Mutant: a status outside ALLOWED_JOB_STATUSES. *)
SetJobFailed_Error ==
  /\ wpc \in {"inner", "outer"}
  /\ status' = [status EXCEPT ![wjob] = "error"]
  /\ error' = [error EXCEPT ![wjob] = "generation"]
  /\ wpc' = IF wpc = "inner" THEN "outer" ELSE "ack"
  /\ UNCHANGED <<result, reports, req, msg, again, wjob, loaded, unmarked, faults>>

(* set_job_failed, in process_report_job and again in handle_message. *)
SetJobFailed ==
  /\ wpc \in {"inner", "outer"}
  /\ status' = [status EXCEPT ![wjob] = "failed"]
  /\ error' = [error EXCEPT ![wjob] = "generation"]
  /\ wpc' = IF wpc = "inner" THEN "outer" ELSE "ack"
  /\ UNCHANGED <<result, reports, req, msg, again, wjob, loaded, unmarked, faults>>

SetJobFails ==
  /\ wpc \in {"inner", "outer"}
  /\ Fault
  /\ wpc' = IF wpc = "inner" THEN "outer" ELSE "ack"
  /\ unmarked' = IF wpc = "outer" /\ status[wjob] # "failed"
                 THEN unmarked \cup {wjob} ELSE unmarked
  /\ UNCHANGED <<table, reports, req, msg, again, wjob, loaded>>

(* Mutant: the acknowledgement is not in a finally block. *)
Ack_OnlyCompleted ==
  /\ wpc = "ack" /\ status[wjob] = "completed"
  /\ msg' = IF msg[wjob] = "unacked" THEN [msg EXCEPT ![wjob] = "acked"] ELSE msg
  /\ wpc' = "idle"
  /\ UNCHANGED <<table, reports, req, again, wjob, loaded, unmarked, faults>>

(* basic_ack; on a channel that is gone it raises and main reconnects. *)
Ack ==
  /\ wpc = "ack"
  /\ msg' = IF msg[wjob] = "unacked" THEN [msg EXCEPT ![wjob] = "acked"] ELSE msg
  /\ wpc' = "idle"
  /\ UNCHANGED <<table, reports, req, again, wjob, loaded, unmarked, faults>>

Requeue ==
  /\ msg' = [j \in Jobs |-> IF msg[j] = "unacked" THEN "ready" ELSE msg[j]]
  /\ again' = again \cup {j \in Jobs : msg[j] = "unacked"}

(* The broker closes the channel, for a missed heartbeat or a restart. *)
LoseChannel ==
  /\ \E j \in Jobs : msg[j] = "unacked"
  /\ Fault
  /\ Requeue
  /\ UNCHANGED <<table, reports, req, worker, unmarked>>

(* A worker killed while it fills the file leaves it as far as it got. *)
WorkerCrash ==
  /\ wpc # "down"
  /\ Fault
  /\ Requeue
  /\ wpc' = "down"
  /\ UNCHANGED <<table, reports, req, wjob, loaded, unmarked>>

(* By hand: docker-compose states no restart policy. *)
WorkerStart ==
  /\ wpc = "down"
  /\ wpc' = "idle"
  /\ UNCHANGED <<table, reports, req, msg, again, wjob, loaded, unmarked, faults>>

----------------------------------------------------------------------------

Request(j) == Publish(j) \/ MarkJobFailed(j)

WorkerStep ==
  \/ LoadJob \/ StartJob \/ OpenReport \/ WriteReport \/ CommitJob \/ CommitAborted
  \/ SetJobFailed \/ Ack
  \/ \E j \in Jobs : Deliver(j)

Failure ==
  \/ StartFails \/ WriteWithoutRows \/ WriteFails \/ CommitFails \/ ReloadFails
  \/ SetJobFails \/ LoseChannel \/ WorkerCrash \/ ReportServiceCrash
  \/ \E j \in Jobs : PublishLost(j) \/ PublishFails(j) \/ RequestFails(j)

Next ==
  \/ WorkerStep \/ WorkerStart \/ Failure
  \/ \E j \in Jobs : CreateJob(j) \/ Request(j) \/ CheckDownload(j) \/ SendReport(j)

(* A running request and a running worker take their next step, and the    *)
(* broker delivers every message of the queue in its turn.  Nobody must    *)
(* ask for a report, download it or start the worker again.                *)
Fairness ==
  /\ \A j \in Jobs : WF_vars(Request(j)) /\ SF_vars(Deliver(j))
  /\ WF_vars(WorkerStep)

Spec == Init /\ [][Next]_vars
FairSpec == Spec /\ Fairness

----------------------------------------------------------------------------
(* Properties. *)

Decided(j) == status[j] \in {"completed", "failed"}

(* Every column, message and local variable has a value of its kind. *)
TypeOK ==
  /\ status \in [Jobs -> {"none", "pending", "processing", "completed", "failed"}]
  /\ result \in [Jobs -> BOOLEAN]
  /\ error \in [Jobs -> {"none", "queue", "generation"}]
  /\ file \in [Jobs -> {"absent", "unusable", "data"}]
  /\ sending \in [Jobs -> {"none", "whole", "torn"}]
  /\ req \in [Jobs -> {"none", "publish", "accepted", "mark", "refused", "broken"}]
  /\ msg \in [Jobs -> {"none", "ready", "unacked", "acked", "lost"}]
  /\ again \in SUBSET Jobs
  /\ wpc \in {"idle", "load", "start", "write", "fill", "commit", "aborted", "inner",
              "outer", "ack", "down"}
  /\ wjob \in Jobs
  /\ loaded \in [status : {"none", "pending", "processing", "completed", "failed"},
                 error : {"none", "queue", "generation"}]
  /\ unmarked \in SUBSET Jobs
  /\ faults \in Nat

(* A download that passed the checks of download_report reads a whole      *)
(* report, written from rows that could be read, however late it sends its *)
(* last byte: the worker rewrites the file under it only when the message  *)
(* of the job was put back into the queue.  No download starts meanwhile,  *)
(* nor after a crash or an error left half a file: a job shown as          *)
(* completed has a path and a whole report there.                          *)
DownloadServesReport ==
  \A j \in Jobs :
    /\ sending[j] = "whole" => file[j] = "data"
    /\ sending[j] = "torn" => j \in again
    /\ status[j] = "completed" => result[j] /\ file[j] = "data"

(* A completed job shows an error message only when its request failed at  *)
(* publishing though the message had been queued: a run that starts clears *)
(* what an earlier one left.                                               *)
CompletedErrorOnlyIfRefused ==
  \A j \in Jobs : status[j] = "completed" /\ error[j] # "none" => req[j] \in {"refused", "broken"}

(* A job that is neither completed nor failed is still somebody's to end:  *)
(* its request or its message is on the way.  The exceptions are a message *)
(* the broker lost, a request that died between its commit and its message *)
(* and a failure the database would not record.                            *)
NoJobForgotten ==
  \A j \in Jobs : status[j] \in {"pending", "processing"} =>
    \/ req[j] \in {"publish", "mark"}
    \/ msg[j] \in {"ready", "unacked"}
    \/ msg[j] = "lost"
    \/ msg[j] = "none" /\ req[j] = "broken"
    \/ j \in unmarked

(* Once its message is acknowledged, nothing changes a decided job any     *)
(* more, except a request that is still about to mark it failed.           *)
AckedIsFinal ==
  [][\A j \in Jobs : msg[j] = "acked" /\ Decided(j) /\ req[j] # "mark" =>
       status'[j] = status[j]]_vars

(* The services implement the board: the report of a job is the file       *)
(* behind a completed row with a path, a job is in hand while the worker   *)
(* has its message, and settled when that is acknowledged.  A download in  *)
(* flight is not on the board: DownloadServesReport is about it.           *)
Board == INSTANCE JobBoard WITH
  status <- status,
  report <- [j \in Jobs |-> IF status[j] = "completed" /\ result[j] THEN file[j] ELSE "absent"],
  reply <- [j \in Jobs |-> CASE req[j] \in {"none", "publish", "mark"} -> "open"
                            [] req[j] = "accepted" -> "accepted"
                            [] OTHER -> "refused"],
  inHand <- IF wpc \in {"idle", "down"} THEN {} ELSE {wjob},
  settled <- {j \in Jobs : msg[j] = "acked"},
  excused <- unmarked
BoardSpec == Board!Spec

(* Every queued job is decided and acknowledged, through failures and      *)
(* redeliveries, unless the worker is down or the failure could not be     *)
(* recorded: one bad job neither loops for ever nor holds up the others.   *)
QueuedJobEnds ==
  \A j \in Jobs :
    msg[j] = "ready" ~> \/ msg[j] = "acked" /\ (Decided(j) \/ j \in unmarked)
                        \/ wpc = "down"

(* docs/PART_6_REPORTS_RABBITMQ_WORKER.md:73: "Updates job status from     *)
(* `pending` to `processing`."  process_report_job does not look at the    *)
(* status: a redelivered message starts a completed job once more.         *)
StartsPendingJobs ==
  [][\A j \in Jobs : status[j] # "processing" /\ status'[j] = "processing" =>
       status[j] = "pending"]_vars

(* docs/PART_6_5_FRONTEND_REPORTS.md:33: "The worker consumes the RabbitMQ *)
(* message, processes the job, and marks it completed or failed."  When    *)
(* the failure cannot be written, the message is acknowledged all the same.*)
ConsumedIsDecided == \A j \in Jobs : msg[j] = "acked" => Decided(j)
=============================================================================
