-------------------------- MODULE ReportJobs_proofs --------------------------
(***************************************************************************)
(* Proofs about ReportJobs for any set of jobs and any number of faults.   *)
(***************************************************************************)
EXTENDS ReportJobs, TLAPS

Working == wpc \notin {"idle", "down"}

(* The worker's message is out or back in the queue; it alone has one that *)
(* is out.                                                                 *)
OneMessage ==
  /\ Working => msg[wjob] \in {"ready", "unacked"}
  /\ \A j \in Jobs : msg[j] = "unacked" => Working /\ wjob = j

(* How far the request that creates a job has come, seen from its row and  *)
(* its message.                                                            *)
RequestProgress ==
  /\ \A j \in Jobs : status[j] = "none" <=> req[j] = "none"
  /\ \A j \in Jobs : req[j] \in {"none", "publish"} => msg[j] = "none"
  /\ \A j \in Jobs : req[j] = "accepted" => msg[j] # "none"
  /\ \A j \in Jobs : req[j] # "accepted" => msg[j] # "lost"
  /\ \A j \in Jobs : req[j] = "refused" /\ msg[j] = "none" => status[j] = "failed"

(* An acknowledged job was decided, and so is one about to be.             *)
AckedDecided ==
  /\ \A j \in Jobs : msg[j] = "acked" => Decided(j) \/ j \in unmarked
  /\ wpc = "ack" => Decided(wjob) \/ wjob \in unmarked

(* While the worker rewrites the file, the job is not shown as completed.  *)
NotShownWhileWritten ==
  /\ wpc = "start" /\ loaded.status = "processing" => status[wjob] # "completed"
  /\ wpc \in {"write", "fill", "aborted"} => status[wjob] # "completed"
  /\ wpc = "commit" => file[wjob] = "data"

(* An error message on the job that the worker is about to complete came   *)
(* from its request, after the worker had read the row.                    *)
ErrorFromRequest ==
  \/ wpc = "start" /\ loaded.error # "none"
  \/ wpc \notin {"start", "write", "fill", "commit", "aborted"}
  \/ error[wjob] = "none"
  \/ req[wjob] \in {"refused", "broken"}

(* A job with a result is only worked on again when its message was put    *)
(* back: what was delivered once is not ready once more by itself.  And    *)
(* only such a job is being downloaded.                                    *)
SecondRun ==
  /\ \A j \in Jobs : msg[j] \in {"none", "ready"} /\ result[j] => j \in again
  /\ Working /\ msg[wjob] = "ready" => wjob \in again
  /\ wpc \in {"load", "start", "write", "fill", "aborted"} /\ result[wjob] => wjob \in again
  /\ \A j \in Jobs : sending[j] # "none" => result[j]

IInv ==
  /\ TypeOK
  /\ OneMessage
  /\ RequestProgress
  /\ AckedDecided
  /\ NotShownWhileWritten
  /\ SecondRun
  /\ DownloadServesReport
  /\ ErrorFromRequest
  /\ CompletedErrorOnlyIfRefused

(* Every action of either service keeps the types. *)
LEMMA TypeStep ==
  ASSUME TypeOK, [Next]_vars
  PROVE  TypeOK'
<1> USE DEF TypeOK, table, reports, worker
<1>1. ASSUME NEW j \in Jobs, CreateJob(j) PROVE TypeOK'
  BY <1>1 DEF CreateJob
<1>2. ASSUME NEW j \in Jobs, Publish(j) PROVE TypeOK'
  BY <1>2 DEF Publish
<1>3. ASSUME NEW j \in Jobs, PublishLost(j) PROVE TypeOK'
  BY <1>3 DEF PublishLost, Fault
<1>4. ASSUME NEW j \in Jobs, PublishFails(j) PROVE TypeOK'
  BY <1>4 DEF PublishFails, Fault
<1>5. ASSUME NEW j \in Jobs, MarkJobFailed(j) PROVE TypeOK'
  BY <1>5 DEF MarkJobFailed
<1>6. ASSUME NEW j \in Jobs, RequestFails(j) PROVE TypeOK'
  BY <1>6 DEF RequestFails, Fault
<1>7. ASSUME ReportServiceCrash PROVE TypeOK'
  BY <1>7 DEF ReportServiceCrash, Fault
<1>8. ASSUME NEW j \in Jobs, Deliver(j) PROVE TypeOK'
  BY <1>8 DEF Deliver
<1>9. ASSUME LoadJob PROVE TypeOK'
  BY <1>9 DEF LoadJob
<1>10. ASSUME StartJob PROVE TypeOK'
  BY <1>10 DEF StartJob, Started
<1>11. ASSUME StartFails PROVE TypeOK'
  BY <1>11 DEF StartFails, Fault
<1>12. ASSUME WriteReport PROVE TypeOK'
  BY <1>12 DEF WriteReport
<1>13. ASSUME WriteWithoutRows PROVE TypeOK'
  BY <1>13 DEF WriteWithoutRows, Rewrite, Fault
<1>14. ASSUME WriteFails PROVE TypeOK'
  BY <1>14 DEF WriteFails, Fault
<1>15. ASSUME CommitJob PROVE TypeOK'
  BY <1>15 DEF CommitJob
<1>16. ASSUME CommitAborted PROVE TypeOK'
  BY <1>16 DEF CommitAborted
<1>17. ASSUME CommitFails PROVE TypeOK'
  BY <1>17 DEF CommitFails, Fault
<1>18. ASSUME ReloadFails PROVE TypeOK'
  BY <1>18 DEF ReloadFails, Fault
<1>19. ASSUME SetJobFailed PROVE TypeOK'
  BY <1>19 DEF SetJobFailed
<1>20. ASSUME SetJobFails PROVE TypeOK'
  BY <1>20 DEF SetJobFails, Fault
<1>21. ASSUME Ack PROVE TypeOK'
  BY <1>21 DEF Ack
<1>22. ASSUME LoseChannel PROVE TypeOK'
  BY <1>22 DEF LoseChannel, Requeue, Fault
<1>23. ASSUME WorkerCrash PROVE TypeOK'
  BY <1>23 DEF WorkerCrash, Requeue, Fault
<1>24. ASSUME WorkerStart PROVE TypeOK'
  BY <1>24 DEF WorkerStart
<1>25. ASSUME OpenReport PROVE TypeOK'
  BY <1>25 DEF OpenReport, Rewrite
<1>26. ASSUME NEW j \in Jobs, CheckDownload(j) PROVE TypeOK'
  BY <1>26 DEF CheckDownload
<1>27. ASSUME NEW j \in Jobs, SendReport(j) PROVE TypeOK'
  BY <1>27 DEF SendReport
<1>28. CASE UNCHANGED vars
  BY <1>28 DEF vars
<1> QED
  BY <1>1, <1>2, <1>3, <1>4, <1>5, <1>6, <1>7, <1>8, <1>9, <1>10, <1>11, <1>12, <1>13, <1>14, <1>15, <1>16, <1>17, <1>18, <1>19, <1>20, <1>21, <1>22, <1>23, <1>24, <1>25, <1>26, <1>27, <1>28
  DEF Next, WorkerStep, Failure, Request

(* prefetch_count=1: delivery, loss and acknowledgement of one message.   *)
LEMMA OneMessageStep ==
  ASSUME TypeOK, OneMessage, RequestProgress, [Next]_vars
  PROVE  OneMessage'
<1> USE DEF TypeOK, OneMessage, Working, RequestProgress, table, reports, worker
<1>1. ASSUME NEW j \in Jobs, CreateJob(j) PROVE OneMessage'
  BY <1>1 DEF CreateJob
<1>2. ASSUME NEW j \in Jobs, Publish(j) PROVE OneMessage'
  BY <1>2 DEF Publish
<1>3. ASSUME NEW j \in Jobs, PublishLost(j) PROVE OneMessage'
  BY <1>3 DEF PublishLost, Fault
<1>4. ASSUME NEW j \in Jobs, PublishFails(j) PROVE OneMessage'
  BY <1>4 DEF PublishFails, Fault
<1>5. ASSUME NEW j \in Jobs, MarkJobFailed(j) PROVE OneMessage'
  BY <1>5 DEF MarkJobFailed
<1>6. ASSUME NEW j \in Jobs, RequestFails(j) PROVE OneMessage'
  BY <1>6 DEF RequestFails, Fault
<1>7. ASSUME ReportServiceCrash PROVE OneMessage'
  BY <1>7 DEF ReportServiceCrash, Fault
<1>8. ASSUME NEW j \in Jobs, Deliver(j) PROVE OneMessage'
  BY <1>8 DEF Deliver
<1>9. ASSUME LoadJob PROVE OneMessage'
  BY <1>9 DEF LoadJob
<1>10. ASSUME StartJob PROVE OneMessage'
  BY <1>10 DEF StartJob, Started
<1>11. ASSUME StartFails PROVE OneMessage'
  BY <1>11 DEF StartFails, Fault
<1>12. ASSUME WriteReport PROVE OneMessage'
  BY <1>12 DEF WriteReport
<1>13. ASSUME WriteWithoutRows PROVE OneMessage'
  BY <1>13 DEF WriteWithoutRows, Rewrite, Fault
<1>14. ASSUME WriteFails PROVE OneMessage'
  BY <1>14 DEF WriteFails, Fault
<1>15. ASSUME CommitJob PROVE OneMessage'
  BY <1>15 DEF CommitJob
<1>16. ASSUME CommitAborted PROVE OneMessage'
  BY <1>16 DEF CommitAborted
<1>17. ASSUME CommitFails PROVE OneMessage'
  BY <1>17 DEF CommitFails, Fault
<1>18. ASSUME ReloadFails PROVE OneMessage'
  BY <1>18 DEF ReloadFails, Fault
<1>19. ASSUME SetJobFailed PROVE OneMessage'
  BY <1>19 DEF SetJobFailed
<1>20. ASSUME SetJobFails PROVE OneMessage'
  BY <1>20 DEF SetJobFails, Fault
<1>21. ASSUME Ack PROVE OneMessage'
  BY <1>21 DEF Ack
<1>22. ASSUME LoseChannel PROVE OneMessage'
  BY <1>22 DEF LoseChannel, Requeue, Fault
<1>23. ASSUME WorkerCrash PROVE OneMessage'
  BY <1>23 DEF WorkerCrash, Requeue, Fault
<1>24. ASSUME WorkerStart PROVE OneMessage'
  BY <1>24 DEF WorkerStart
<1>25. ASSUME OpenReport PROVE OneMessage'
  BY <1>25 DEF OpenReport, Rewrite
<1>26. ASSUME NEW j \in Jobs, CheckDownload(j) PROVE OneMessage'
  BY <1>26 DEF CheckDownload
<1>27. ASSUME NEW j \in Jobs, SendReport(j) PROVE OneMessage'
  BY <1>27 DEF SendReport
<1>28. CASE UNCHANGED vars
  BY <1>28 DEF vars
<1> QED
  BY <1>1, <1>2, <1>3, <1>4, <1>5, <1>6, <1>7, <1>8, <1>9, <1>10, <1>11, <1>12, <1>13, <1>14, <1>15, <1>16, <1>17, <1>18, <1>19, <1>20, <1>21, <1>22, <1>23, <1>24, <1>25, <1>26, <1>27, <1>28
  DEF Next, WorkerStep, Failure, Request

(* The request and the worker write the same row in any order.            *)
LEMMA RequestProgressStep ==
  ASSUME TypeOK, OneMessage, RequestProgress, [Next]_vars
  PROVE  RequestProgress'
<1> USE DEF TypeOK, OneMessage, Working, RequestProgress, table, reports, worker
<1>1. ASSUME NEW j \in Jobs, CreateJob(j) PROVE RequestProgress'
  BY <1>1 DEF CreateJob
<1>2. ASSUME NEW j \in Jobs, Publish(j) PROVE RequestProgress'
  BY <1>2 DEF Publish
<1>3. ASSUME NEW j \in Jobs, PublishLost(j) PROVE RequestProgress'
  BY <1>3 DEF PublishLost, Fault
<1>4. ASSUME NEW j \in Jobs, PublishFails(j) PROVE RequestProgress'
  BY <1>4 DEF PublishFails, Fault
<1>5. ASSUME NEW j \in Jobs, MarkJobFailed(j) PROVE RequestProgress'
  BY <1>5 DEF MarkJobFailed
<1>6. ASSUME NEW j \in Jobs, RequestFails(j) PROVE RequestProgress'
  BY <1>6 DEF RequestFails, Fault
<1>7. ASSUME ReportServiceCrash PROVE RequestProgress'
  BY <1>7 DEF ReportServiceCrash, Fault
<1>8. ASSUME NEW j \in Jobs, Deliver(j) PROVE RequestProgress'
  BY <1>8 DEF Deliver
<1>9. ASSUME LoadJob PROVE RequestProgress'
  BY <1>9 DEF LoadJob
<1>10. ASSUME StartJob PROVE RequestProgress'
  BY <1>10 DEF StartJob, Started
<1>11. ASSUME StartFails PROVE RequestProgress'
  BY <1>11 DEF StartFails, Fault
<1>12. ASSUME WriteReport PROVE RequestProgress'
  BY <1>12 DEF WriteReport
<1>13. ASSUME WriteWithoutRows PROVE RequestProgress'
  BY <1>13 DEF WriteWithoutRows, Rewrite, Fault
<1>14. ASSUME WriteFails PROVE RequestProgress'
  BY <1>14 DEF WriteFails, Fault
<1>15. ASSUME CommitJob PROVE RequestProgress'
  BY <1>15 DEF CommitJob
<1>16. ASSUME CommitAborted PROVE RequestProgress'
  BY <1>16 DEF CommitAborted
<1>17. ASSUME CommitFails PROVE RequestProgress'
  BY <1>17 DEF CommitFails, Fault
<1>18. ASSUME ReloadFails PROVE RequestProgress'
  BY <1>18 DEF ReloadFails, Fault
<1>19. ASSUME SetJobFailed PROVE RequestProgress'
  BY <1>19 DEF SetJobFailed
<1>20. ASSUME SetJobFails PROVE RequestProgress'
  BY <1>20 DEF SetJobFails, Fault
<1>21. ASSUME Ack PROVE RequestProgress'
  BY <1>21 DEF Ack
<1>22. ASSUME LoseChannel PROVE RequestProgress'
  BY <1>22 DEF LoseChannel, Requeue, Fault
<1>23. ASSUME WorkerCrash PROVE RequestProgress'
  BY <1>23 DEF WorkerCrash, Requeue, Fault
<1>24. ASSUME WorkerStart PROVE RequestProgress'
  BY <1>24 DEF WorkerStart
<1>25. ASSUME OpenReport PROVE RequestProgress'
  BY <1>25 DEF OpenReport, Rewrite
<1>26. ASSUME NEW j \in Jobs, CheckDownload(j) PROVE RequestProgress'
  BY <1>26 DEF CheckDownload
<1>27. ASSUME NEW j \in Jobs, SendReport(j) PROVE RequestProgress'
  BY <1>27 DEF SendReport
<1>28. CASE UNCHANGED vars
  BY <1>28 DEF vars
<1> QED
  BY <1>1, <1>2, <1>3, <1>4, <1>5, <1>6, <1>7, <1>8, <1>9, <1>10, <1>11, <1>12, <1>13, <1>14, <1>15, <1>16, <1>17, <1>18, <1>19, <1>20, <1>21, <1>22, <1>23, <1>24, <1>25, <1>26, <1>27, <1>28
  DEF Next, WorkerStep, Failure, Request

(* Every path of the worker to its acknowledgement decides the job.       *)
LEMMA AckedDecidedStep ==
  ASSUME TypeOK, OneMessage, RequestProgress, AckedDecided, [Next]_vars
  PROVE  AckedDecided'
<1> USE DEF TypeOK, OneMessage, Working, RequestProgress, AckedDecided, Decided, table, reports, worker
<1>1. ASSUME NEW j \in Jobs, CreateJob(j) PROVE AckedDecided'
  BY <1>1 DEF CreateJob
<1>2. ASSUME NEW j \in Jobs, Publish(j) PROVE AckedDecided'
  BY <1>2 DEF Publish
<1>3. ASSUME NEW j \in Jobs, PublishLost(j) PROVE AckedDecided'
  BY <1>3 DEF PublishLost, Fault
<1>4. ASSUME NEW j \in Jobs, PublishFails(j) PROVE AckedDecided'
  BY <1>4 DEF PublishFails, Fault
<1>5. ASSUME NEW j \in Jobs, MarkJobFailed(j) PROVE AckedDecided'
  BY <1>5 DEF MarkJobFailed
<1>6. ASSUME NEW j \in Jobs, RequestFails(j) PROVE AckedDecided'
  BY <1>6 DEF RequestFails, Fault
<1>7. ASSUME ReportServiceCrash PROVE AckedDecided'
  BY <1>7 DEF ReportServiceCrash, Fault
<1>8. ASSUME NEW j \in Jobs, Deliver(j) PROVE AckedDecided'
  BY <1>8 DEF Deliver
<1>9. ASSUME LoadJob PROVE AckedDecided'
  BY <1>9 DEF LoadJob
<1>10. ASSUME StartJob PROVE AckedDecided'
  BY <1>10 DEF StartJob, Started
<1>11. ASSUME StartFails PROVE AckedDecided'
  BY <1>11 DEF StartFails, Fault
<1>12. ASSUME WriteReport PROVE AckedDecided'
  BY <1>12 DEF WriteReport
<1>13. ASSUME WriteWithoutRows PROVE AckedDecided'
  BY <1>13 DEF WriteWithoutRows, Rewrite, Fault
<1>14. ASSUME WriteFails PROVE AckedDecided'
  BY <1>14 DEF WriteFails, Fault
<1>15. ASSUME CommitJob PROVE AckedDecided'
  BY <1>15 DEF CommitJob
<1>16. ASSUME CommitAborted PROVE AckedDecided'
  BY <1>16 DEF CommitAborted
<1>17. ASSUME CommitFails PROVE AckedDecided'
  BY <1>17 DEF CommitFails, Fault
<1>18. ASSUME ReloadFails PROVE AckedDecided'
  BY <1>18 DEF ReloadFails, Fault
<1>19. ASSUME SetJobFailed PROVE AckedDecided'
  BY <1>19 DEF SetJobFailed
<1>20. ASSUME SetJobFails PROVE AckedDecided'
  BY <1>20 DEF SetJobFails, Fault
<1>21. ASSUME Ack PROVE AckedDecided'
  BY <1>21 DEF Ack
<1>22. ASSUME LoseChannel PROVE AckedDecided'
  BY <1>22 DEF LoseChannel, Requeue, Fault
<1>23. ASSUME WorkerCrash PROVE AckedDecided'
  BY <1>23 DEF WorkerCrash, Requeue, Fault
<1>24. ASSUME WorkerStart PROVE AckedDecided'
  BY <1>24 DEF WorkerStart
<1>25. ASSUME OpenReport PROVE AckedDecided'
  BY <1>25 DEF OpenReport, Rewrite
<1>26. ASSUME NEW j \in Jobs, CheckDownload(j) PROVE AckedDecided'
  BY <1>26 DEF CheckDownload
<1>27. ASSUME NEW j \in Jobs, SendReport(j) PROVE AckedDecided'
  BY <1>27 DEF SendReport
<1>28. CASE UNCHANGED vars
  BY <1>28 DEF vars
<1> QED
  BY <1>1, <1>2, <1>3, <1>4, <1>5, <1>6, <1>7, <1>8, <1>9, <1>10, <1>11, <1>12, <1>13, <1>14, <1>15, <1>16, <1>17, <1>18, <1>19, <1>20, <1>21, <1>22, <1>23, <1>24, <1>25, <1>26, <1>27, <1>28
  DEF Next, WorkerStep, Failure, Request

(* A run of a job that has a result follows a redelivery, and downloads    *)
(* find the result.                                                        *)
LEMMA SecondRunStep ==
  ASSUME TypeOK, OneMessage, RequestProgress, SecondRun, [Next]_vars
  PROVE  SecondRun'
<1> USE DEF TypeOK, OneMessage, Working, RequestProgress, SecondRun, table, reports, worker
<1>1. ASSUME NEW j \in Jobs, CreateJob(j) PROVE SecondRun'
  BY <1>1 DEF CreateJob
<1>2. ASSUME NEW j \in Jobs, Publish(j) PROVE SecondRun'
  BY <1>2 DEF Publish
<1>3. ASSUME NEW j \in Jobs, PublishLost(j) PROVE SecondRun'
  BY <1>3 DEF PublishLost, Fault
<1>4. ASSUME NEW j \in Jobs, PublishFails(j) PROVE SecondRun'
  BY <1>4 DEF PublishFails, Fault
<1>5. ASSUME NEW j \in Jobs, MarkJobFailed(j) PROVE SecondRun'
  BY <1>5 DEF MarkJobFailed
<1>6. ASSUME NEW j \in Jobs, RequestFails(j) PROVE SecondRun'
  BY <1>6 DEF RequestFails, Fault
<1>7. ASSUME ReportServiceCrash PROVE SecondRun'
  BY <1>7 DEF ReportServiceCrash, Fault
<1>8. ASSUME NEW j \in Jobs, Deliver(j) PROVE SecondRun'
  BY <1>8 DEF Deliver
<1>9. ASSUME LoadJob PROVE SecondRun'
  BY <1>9 DEF LoadJob
<1>10. ASSUME StartJob PROVE SecondRun'
  BY <1>10 DEF StartJob, Started
<1>11. ASSUME StartFails PROVE SecondRun'
  BY <1>11 DEF StartFails, Fault
<1>12. ASSUME WriteReport PROVE SecondRun'
  BY <1>12 DEF WriteReport
<1>13. ASSUME WriteWithoutRows PROVE SecondRun'
  BY <1>13 DEF WriteWithoutRows, Rewrite, Fault
<1>14. ASSUME WriteFails PROVE SecondRun'
  BY <1>14 DEF WriteFails, Fault
<1>15. ASSUME CommitJob PROVE SecondRun'
  BY <1>15 DEF CommitJob
<1>16. ASSUME CommitAborted PROVE SecondRun'
  BY <1>16 DEF CommitAborted
<1>17. ASSUME CommitFails PROVE SecondRun'
  BY <1>17 DEF CommitFails, Fault
<1>18. ASSUME ReloadFails PROVE SecondRun'
  BY <1>18 DEF ReloadFails, Fault
<1>19. ASSUME SetJobFailed PROVE SecondRun'
  BY <1>19 DEF SetJobFailed
<1>20. ASSUME SetJobFails PROVE SecondRun'
  BY <1>20 DEF SetJobFails, Fault
<1>21. ASSUME Ack PROVE SecondRun'
  BY <1>21 DEF Ack
<1>22. ASSUME LoseChannel PROVE SecondRun'
  BY <1>22 DEF LoseChannel, Requeue, Fault
<1>23. ASSUME WorkerCrash PROVE SecondRun'
  BY <1>23 DEF WorkerCrash, Requeue, Fault
<1>24. ASSUME WorkerStart PROVE SecondRun'
  BY <1>24 DEF WorkerStart
<1>25. ASSUME OpenReport PROVE SecondRun'
  BY <1>25 DEF OpenReport, Rewrite
<1>26. ASSUME NEW j \in Jobs, CheckDownload(j) PROVE SecondRun'
  BY <1>26 DEF CheckDownload
<1>27. ASSUME NEW j \in Jobs, SendReport(j) PROVE SecondRun'
  BY <1>27 DEF SendReport
<1>28. CASE UNCHANGED vars
  BY <1>28 DEF vars
<1> QED
  BY <1>1, <1>2, <1>3, <1>4, <1>5, <1>6, <1>7, <1>8, <1>9, <1>10, <1>11, <1>12, <1>13, <1>14, <1>15, <1>16, <1>17, <1>18, <1>19, <1>20, <1>21, <1>22, <1>23, <1>24, <1>25, <1>26, <1>27, <1>28
  DEF Next, WorkerStep, Failure, Request

(* The file of a completed job is never the one being written, and the one *)
(* that is being sent only after a redelivery.                             *)
LEMMA ShownStep ==
  ASSUME TypeOK, OneMessage, RequestProgress, NotShownWhileWritten, SecondRun,
         DownloadServesReport, [Next]_vars
  PROVE  (NotShownWhileWritten /\ DownloadServesReport)'
<1> USE DEF TypeOK, OneMessage, Working, RequestProgress, NotShownWhileWritten, SecondRun,
    DownloadServesReport, table, reports, worker
<1>1. ASSUME NEW j \in Jobs, CreateJob(j) PROVE (NotShownWhileWritten /\ DownloadServesReport)'
  BY <1>1 DEF CreateJob
<1>2. ASSUME NEW j \in Jobs, Publish(j) PROVE (NotShownWhileWritten /\ DownloadServesReport)'
  BY <1>2 DEF Publish
<1>3. ASSUME NEW j \in Jobs, PublishLost(j) PROVE (NotShownWhileWritten /\ DownloadServesReport)'
  BY <1>3 DEF PublishLost, Fault
<1>4. ASSUME NEW j \in Jobs, PublishFails(j) PROVE (NotShownWhileWritten /\ DownloadServesReport)'
  BY <1>4 DEF PublishFails, Fault
<1>5. ASSUME NEW j \in Jobs, MarkJobFailed(j) PROVE (NotShownWhileWritten /\ DownloadServesReport)'
  BY <1>5 DEF MarkJobFailed
<1>6. ASSUME NEW j \in Jobs, RequestFails(j) PROVE (NotShownWhileWritten /\ DownloadServesReport)'
  BY <1>6 DEF RequestFails, Fault
<1>7. ASSUME ReportServiceCrash PROVE (NotShownWhileWritten /\ DownloadServesReport)'
  BY <1>7 DEF ReportServiceCrash, Fault
<1>8. ASSUME NEW j \in Jobs, Deliver(j) PROVE (NotShownWhileWritten /\ DownloadServesReport)'
  BY <1>8 DEF Deliver
<1>9. ASSUME LoadJob PROVE (NotShownWhileWritten /\ DownloadServesReport)'
  BY <1>9 DEF LoadJob
<1>10. ASSUME StartJob PROVE (NotShownWhileWritten /\ DownloadServesReport)'
  BY <1>10 DEF StartJob, Started
<1>11. ASSUME StartFails PROVE (NotShownWhileWritten /\ DownloadServesReport)'
  BY <1>11 DEF StartFails, Fault
<1>12. ASSUME WriteReport PROVE (NotShownWhileWritten /\ DownloadServesReport)'
  BY <1>12 DEF WriteReport
<1>13. ASSUME WriteWithoutRows PROVE (NotShownWhileWritten /\ DownloadServesReport)'
  BY <1>13 DEF WriteWithoutRows, Rewrite, Fault
<1>14. ASSUME WriteFails PROVE (NotShownWhileWritten /\ DownloadServesReport)'
  BY <1>14 DEF WriteFails, Fault
<1>15. ASSUME CommitJob PROVE (NotShownWhileWritten /\ DownloadServesReport)'
  BY <1>15 DEF CommitJob
<1>16. ASSUME CommitAborted PROVE (NotShownWhileWritten /\ DownloadServesReport)'
  BY <1>16 DEF CommitAborted
<1>17. ASSUME CommitFails PROVE (NotShownWhileWritten /\ DownloadServesReport)'
  BY <1>17 DEF CommitFails, Fault
<1>18. ASSUME ReloadFails PROVE (NotShownWhileWritten /\ DownloadServesReport)'
  BY <1>18 DEF ReloadFails, Fault
<1>19. ASSUME SetJobFailed PROVE (NotShownWhileWritten /\ DownloadServesReport)'
  BY <1>19 DEF SetJobFailed
<1>20. ASSUME SetJobFails PROVE (NotShownWhileWritten /\ DownloadServesReport)'
  BY <1>20 DEF SetJobFails, Fault
<1>21. ASSUME Ack PROVE (NotShownWhileWritten /\ DownloadServesReport)'
  BY <1>21 DEF Ack
<1>22. ASSUME LoseChannel PROVE (NotShownWhileWritten /\ DownloadServesReport)'
  BY <1>22 DEF LoseChannel, Requeue, Fault
<1>23. ASSUME WorkerCrash PROVE (NotShownWhileWritten /\ DownloadServesReport)'
  BY <1>23 DEF WorkerCrash, Requeue, Fault
<1>24. ASSUME WorkerStart PROVE (NotShownWhileWritten /\ DownloadServesReport)'
  BY <1>24 DEF WorkerStart
<1>25. ASSUME OpenReport PROVE (NotShownWhileWritten /\ DownloadServesReport)'
  BY <1>25 DEF OpenReport, Rewrite
<1>26. ASSUME NEW j \in Jobs, CheckDownload(j) PROVE (NotShownWhileWritten /\ DownloadServesReport)'
  BY <1>26 DEF CheckDownload
<1>27. ASSUME NEW j \in Jobs, SendReport(j) PROVE (NotShownWhileWritten /\ DownloadServesReport)'
  BY <1>27 DEF SendReport
<1>28. CASE UNCHANGED vars
  BY <1>28 DEF vars
<1> QED
  BY <1>1, <1>2, <1>3, <1>4, <1>5, <1>6, <1>7, <1>8, <1>9, <1>10, <1>11, <1>12, <1>13, <1>14, <1>15, <1>16, <1>17, <1>18, <1>19, <1>20, <1>21, <1>22, <1>23, <1>24, <1>25, <1>26, <1>27, <1>28
  DEF Next, WorkerStep, Failure, Request

(* An error message survives to completion only behind the worker's back. *)
LEMMA ErrorStep ==
  ASSUME TypeOK, OneMessage, RequestProgress, ErrorFromRequest, CompletedErrorOnlyIfRefused, [Next]_vars
  PROVE  (ErrorFromRequest /\ CompletedErrorOnlyIfRefused)'
<1> USE DEF TypeOK, OneMessage, Working, RequestProgress, ErrorFromRequest, CompletedErrorOnlyIfRefused, table, reports, worker
<1>1. ASSUME NEW j \in Jobs, CreateJob(j) PROVE (ErrorFromRequest /\ CompletedErrorOnlyIfRefused)'
  BY <1>1 DEF CreateJob
<1>2. ASSUME NEW j \in Jobs, Publish(j) PROVE (ErrorFromRequest /\ CompletedErrorOnlyIfRefused)'
  BY <1>2 DEF Publish
<1>3. ASSUME NEW j \in Jobs, PublishLost(j) PROVE (ErrorFromRequest /\ CompletedErrorOnlyIfRefused)'
  BY <1>3 DEF PublishLost, Fault
<1>4. ASSUME NEW j \in Jobs, PublishFails(j) PROVE (ErrorFromRequest /\ CompletedErrorOnlyIfRefused)'
  BY <1>4 DEF PublishFails, Fault
<1>5. ASSUME NEW j \in Jobs, MarkJobFailed(j) PROVE (ErrorFromRequest /\ CompletedErrorOnlyIfRefused)'
  BY <1>5 DEF MarkJobFailed
<1>6. ASSUME NEW j \in Jobs, RequestFails(j) PROVE (ErrorFromRequest /\ CompletedErrorOnlyIfRefused)'
  BY <1>6 DEF RequestFails, Fault
<1>7. ASSUME ReportServiceCrash PROVE (ErrorFromRequest /\ CompletedErrorOnlyIfRefused)'
  BY <1>7 DEF ReportServiceCrash, Fault
<1>8. ASSUME NEW j \in Jobs, Deliver(j) PROVE (ErrorFromRequest /\ CompletedErrorOnlyIfRefused)'
  BY <1>8 DEF Deliver
<1>9. ASSUME LoadJob PROVE (ErrorFromRequest /\ CompletedErrorOnlyIfRefused)'
  BY <1>9 DEF LoadJob
<1>10. ASSUME StartJob PROVE (ErrorFromRequest /\ CompletedErrorOnlyIfRefused)'
  BY <1>10 DEF StartJob, Started
<1>11. ASSUME StartFails PROVE (ErrorFromRequest /\ CompletedErrorOnlyIfRefused)'
  BY <1>11 DEF StartFails, Fault
<1>12. ASSUME WriteReport PROVE (ErrorFromRequest /\ CompletedErrorOnlyIfRefused)'
  BY <1>12 DEF WriteReport
<1>13. ASSUME WriteWithoutRows PROVE (ErrorFromRequest /\ CompletedErrorOnlyIfRefused)'
  BY <1>13 DEF WriteWithoutRows, Rewrite, Fault
<1>14. ASSUME WriteFails PROVE (ErrorFromRequest /\ CompletedErrorOnlyIfRefused)'
  BY <1>14 DEF WriteFails, Fault
<1>15. ASSUME CommitJob PROVE (ErrorFromRequest /\ CompletedErrorOnlyIfRefused)'
  BY <1>15 DEF CommitJob
<1>16. ASSUME CommitAborted PROVE (ErrorFromRequest /\ CompletedErrorOnlyIfRefused)'
  BY <1>16 DEF CommitAborted
<1>17. ASSUME CommitFails PROVE (ErrorFromRequest /\ CompletedErrorOnlyIfRefused)'
  BY <1>17 DEF CommitFails, Fault
<1>18. ASSUME ReloadFails PROVE (ErrorFromRequest /\ CompletedErrorOnlyIfRefused)'
  BY <1>18 DEF ReloadFails, Fault
<1>19. ASSUME SetJobFailed PROVE (ErrorFromRequest /\ CompletedErrorOnlyIfRefused)'
  BY <1>19 DEF SetJobFailed
<1>20. ASSUME SetJobFails PROVE (ErrorFromRequest /\ CompletedErrorOnlyIfRefused)'
  BY <1>20 DEF SetJobFails, Fault
<1>21. ASSUME Ack PROVE (ErrorFromRequest /\ CompletedErrorOnlyIfRefused)'
  BY <1>21 DEF Ack
<1>22. ASSUME LoseChannel PROVE (ErrorFromRequest /\ CompletedErrorOnlyIfRefused)'
  BY <1>22 DEF LoseChannel, Requeue, Fault
<1>23. ASSUME WorkerCrash PROVE (ErrorFromRequest /\ CompletedErrorOnlyIfRefused)'
  BY <1>23 DEF WorkerCrash, Requeue, Fault
<1>24. ASSUME WorkerStart PROVE (ErrorFromRequest /\ CompletedErrorOnlyIfRefused)'
  BY <1>24 DEF WorkerStart
<1>25. ASSUME OpenReport PROVE (ErrorFromRequest /\ CompletedErrorOnlyIfRefused)'
  BY <1>25 DEF OpenReport, Rewrite
<1>26. ASSUME NEW j \in Jobs, CheckDownload(j) PROVE (ErrorFromRequest /\ CompletedErrorOnlyIfRefused)'
  BY <1>26 DEF CheckDownload
<1>27. ASSUME NEW j \in Jobs, SendReport(j) PROVE (ErrorFromRequest /\ CompletedErrorOnlyIfRefused)'
  BY <1>27 DEF SendReport
<1>28. CASE UNCHANGED vars
  BY <1>28 DEF vars
<1> QED
  BY <1>1, <1>2, <1>3, <1>4, <1>5, <1>6, <1>7, <1>8, <1>9, <1>10, <1>11, <1>12, <1>13, <1>14, <1>15, <1>16, <1>17, <1>18, <1>19, <1>20, <1>21, <1>22, <1>23, <1>24, <1>25, <1>26, <1>27, <1>28
  DEF Next, WorkerStep, Failure, Request

(* The tables, the queue and the worker start empty. *)
LEMMA IInvInit == Init => IInv
<1>1. AnyJob \in Jobs
  BY JobsAssumption, Zenon DEF AnyJob
<1> QED
  BY <1>1 DEF Init, IInv, TypeOK, OneMessage, Working, RequestProgress, AckedDecided, Decided,
    NotShownWhileWritten, SecondRun, DownloadServesReport, ErrorFromRequest,
    CompletedErrorOnlyIfRefused

(* The conjunction is inductive. *)
LEMMA IInvStep == IInv /\ [Next]_vars => IInv'
  BY TypeStep, OneMessageStep, RequestProgressStep, AckedDecidedStep, SecondRunStep,
    ShownStep, ErrorStep
  DEF IInv

(* What is true of the row, the request, the message and the worker of a   *)
(* job together, at every moment.                                          *)
THEOREM Invariance == Spec => []IInv
<1> QED
  BY IInvInit, IInvStep, PTL DEF Spec

(* TypeOK, for any number of jobs and faults.                              *)
THEOREM TypeCorrect == Spec => []TypeOK
<1>1. IInv => TypeOK
  BY DEF IInv
<1> QED
  BY Invariance, <1>1, PTL

(* DownloadServesReport: a download reads a whole report, written from     *)
(* rows that were read, whatever crashed while it was sent; only after a   *)
(* redelivery may the file be rewritten under it.                          *)
THEOREM DownloadsServed == Spec => []DownloadServesReport
<1>1. IInv => DownloadServesReport
  BY DEF IInv
<1> QED
  BY Invariance, <1>1, PTL

(* CompletedErrorOnlyIfRefused: only mark_job_failed racing the worker can *)
(* leave an error message on a completed job.                              *)
THEOREM CompletedError == Spec => []CompletedErrorOnlyIfRefused
<1>1. IInv => CompletedErrorOnlyIfRefused
  BY DEF IInv
<1> QED
  BY Invariance, <1>1, PTL

(* NoJobForgotten: an undecided job always has a request or a message that *)
(* will decide it, but for the losses the property names.                  *)
THEOREM NoneForgotten == Spec => []NoJobForgotten
<1>1. ASSUME IInv PROVE NoJobForgotten
  <2> SUFFICES ASSUME NEW j \in Jobs, status[j] \in {"pending", "processing"},
                      req[j] \notin {"publish", "mark"},
                      msg[j] \notin {"ready", "unacked", "lost"},
                      ~(msg[j] = "none" /\ req[j] = "broken")
               PROVE  j \in unmarked
    BY DEF NoJobForgotten
  <2>1. ~Decided(j) /\ status[j] # "none"
    BY DEF Decided
  <2>2. CASE msg[j] = "acked"
    BY <1>1, <2>1, <2>2 DEF IInv, AckedDecided
  <2>3. CASE msg[j] = "none"
    BY <1>1, <2>1, <2>3 DEF IInv, TypeOK, RequestProgress
  <2> QED
    BY <1>1, <2>2, <2>3 DEF IInv, TypeOK
<1> QED
  BY Invariance, <1>1, PTL

(* AckedIsFinal: the worker, and a redelivery, never touch a job again     *)
(* once its message is acknowledged.                                       *)
THEOREM AckedStays == Spec => AckedIsFinal
<1> DEFINE Final == \A j \in Jobs :
      msg[j] = "acked" /\ Decided(j) /\ req[j] # "mark" => status'[j] = status[j]
<1>1. ASSUME IInv, [Next]_vars PROVE [Final]_vars
  <2> SUFFICES ASSUME status' # status PROVE Final
    OBVIOUS
  <2>1. \/ \E j \in Jobs : CreateJob(j) \/ MarkJobFailed(j) \/ RequestFails(j)
        \/ StartJob \/ CommitJob \/ ReloadFails \/ SetJobFailed
    BY <1>1 DEF Next, WorkerStep, Failure, Request, vars, table, Publish, PublishLost,
      PublishFails, ReportServiceCrash, Deliver, LoadJob, StartFails, OpenReport,
      WriteReport, CheckDownload, SendReport, WriteWithoutRows, WriteFails, CommitAborted, CommitFails, SetJobFails, Ack,
      LoseChannel, WorkerCrash, WorkerStart
  <2>2. CASE \E j \in Jobs : CreateJob(j) \/ MarkJobFailed(j) \/ RequestFails(j)
    BY <1>1, <2>2 DEF CreateJob, MarkJobFailed, RequestFails, IInv, TypeOK, RequestProgress,
      Decided
  <2>3. CASE StartJob \/ CommitJob \/ ReloadFails \/ SetJobFailed
    <3>1. Working
      BY <2>3 DEF StartJob, CommitJob, ReloadFails, SetJobFailed, Working
    <3>2. msg[wjob] # "acked"
      BY <1>1, <3>1 DEF IInv, OneMessage
    <3>3. \A j \in Jobs : j # wjob => status'[j] = status[j]
      BY <1>1, <2>3 DEF StartJob, Started, CommitJob, ReloadFails, SetJobFailed, IInv, TypeOK
    <3> QED
      BY <3>2, <3>3
  <2> QED
    BY <2>1, <2>2, <2>3
<1> QED
  BY Invariance, <1>1, PTL DEF Spec, AckedIsFinal

----------------------------------------------------------------------------
(* The refinement of JobBoard. *)

(* The mapped values of report, reply, inHand and settled. *)
Sent == [j \in Jobs |-> IF status[j] = "completed" /\ result[j] THEN file[j] ELSE "absent"]
Reply == [j \in Jobs |-> CASE req[j] \in {"none", "publish", "mark"} -> "open"
                          [] req[j] = "accepted" -> "accepted"
                          [] OTHER -> "refused"]
Held == IF wpc \in {"idle", "down"} THEN {} ELSE {wjob}
Acked == {j \in Jobs : msg[j] = "acked"}

(* What is sent follows from the status alone: a step that moves one row   *)
(* moves what is sent with it.                                             *)
LEMMA SentByStatus ==
  ASSUME IInv, IInv'
  PROVE  /\ Sent = [j \in Jobs |-> IF status[j] = "completed" THEN "data" ELSE "absent"]
         /\ Sent' = [j \in Jobs |-> IF status'[j] = "completed" THEN "data" ELSE "absent"]
BY DEF IInv, TypeOK, DownloadServesReport, Sent

LEMMA SentMoves ==
  ASSUME IInv, IInv', NEW j \in Jobs, NEW s, status' = [status EXCEPT ![j] = s]
  PROVE  Sent' = [Sent EXCEPT ![j] = IF s = "completed" THEN "data" ELSE "absent"]
BY SentByStatus DEF IInv, TypeOK

LEMMA SentWithdrawn ==
  ASSUME IInv, IInv', NEW j \in Jobs,
         \E s \in {"pending", "processing", "failed"} : status' = [status EXCEPT ![j] = s]
  PROVE  Sent' = [Sent EXCEPT ![j] = "absent"]
BY SentByStatus DEF IInv, TypeOK

LEMMA SentStays ==
  ASSUME IInv, IInv', UNCHANGED status
  PROVE  UNCHANGED Sent
BY SentByStatus

LEMMA BoardInit == Init => Board!Init
BY DEF Init, Board!Init

(* Every step of the services, the broker and the worker is a step of the  *)
(* board or none.                                                          *)
LEMMA BoardStep ==
  ASSUME IInv, IInv', [Next]_vars
  PROVE  [Board!Next]_(Board!vars)
<1> DEFINE Same == UNCHANGED <<status, Sent, Reply, Held, Acked, unmarked>>
<1> PICK w \in Jobs : w = wjob
  BY DEF IInv, TypeOK
<1>a. Same => UNCHANGED Board!vars
  BY DEF Board!vars, Sent, Reply, Held, Acked
<1> HIDE DEF Same
<1>1. ASSUME NEW j \in Jobs, CreateJob(j) PROVE Board!Ask(j)
  <2>1. Sent' = [Sent EXCEPT ![j] = "absent"]
    BY <1>1, SentWithdrawn DEF CreateJob
  <2> QED
    BY <1>1, <2>1 DEF CreateJob, worker, Board!Ask, Board!Become, IInv, TypeOK, RequestProgress,
      Sent
<1>2. ASSUME NEW j \in Jobs, Publish(j) \/ PublishLost(j) PROVE Board!Accept(j)
  <2>1. UNCHANGED Sent
    BY <1>2, SentStays DEF Publish, PublishLost, table
  <2>2. /\ req[j] = "publish" /\ status[j] # "none" /\ msg[j] = "none"
        /\ req' = [req EXCEPT ![j] = "accepted"]
        /\ \E m \in {"ready", "lost"} : msg' = [msg EXCEPT ![j] = m]
        /\ UNCHANGED <<status, wpc, wjob, unmarked>>
    BY <1>2 DEF Publish, PublishLost, table, worker, IInv, RequestProgress
  <2>3. UNCHANGED Acked
    BY <2>2 DEF Acked, IInv, TypeOK
  <2>4. Reply' = [Reply EXCEPT ![j] = "accepted"] /\ Reply[j] = "open"
    <3>1. ASSUME NEW k \in Jobs
          PROVE  Reply'[k] = IF k = j THEN "accepted" ELSE Reply[k]
      BY <2>2 DEF Reply, IInv, TypeOK
    <3>2. Reply[j] = "open"
      BY <2>2 DEF Reply
    <3>3. /\ Reply = [k \in Jobs |-> Reply[k]]
          /\ Reply' = [k \in Jobs |-> Reply'[k]]
      BY DEF Reply
    <3> QED
      BY <3>1, <3>2, <3>3
  <2> QED
    BY <2>1, <2>2, <2>3, <2>4 DEF Board!Accept, Sent, Acked, Reply
<1>3. ASSUME NEW j \in Jobs, MarkJobFailed(j) PROVE Board!Refuse(j)
  <2>1. Sent' = [Sent EXCEPT ![j] = "absent"]
    BY <1>3, SentWithdrawn DEF MarkJobFailed
  <2> QED
    BY <1>3, <2>1 DEF MarkJobFailed, worker, Board!Refuse, Board!Become, IInv, TypeOK, Sent
<1>4. ASSUME NEW j \in Jobs, RequestFails(j) PROVE Board!Refuse(j) \/ Board!Abort({j})
  <2>1. CASE UNCHANGED <<status, error>>
    <3>1. UNCHANGED Sent
      BY <2>1, SentStays
    <3> QED
      BY <1>4, <2>1, <3>1 DEF RequestFails, worker, Board!Abort, IInv, TypeOK, Sent
  <2>2. CASE status' = [status EXCEPT ![j] = "failed"]
    <3>1. Sent' = [Sent EXCEPT ![j] = "absent"]
      BY <2>2, SentWithdrawn
    <3> QED
      BY <1>4, <2>2, <3>1 DEF RequestFails, worker, Board!Refuse, Board!Become, IInv, TypeOK, Sent
  <2> QED
    BY <1>4, <2>1, <2>2 DEF RequestFails
<1>5. ASSUME ReportServiceCrash
      PROVE  \E S \in SUBSET Jobs : Board!Abort(S)
  <2> PICK S \in SUBSET Jobs : S = {j \in Jobs : req[j] \in {"publish", "mark"}}
    OBVIOUS
  <2>1. UNCHANGED Sent
    BY <1>5, SentStays DEF ReportServiceCrash, table
  <2>2. Board!Abort(S)
    BY <1>5, <2>1 DEF ReportServiceCrash, table, worker, Board!Abort, IInv, TypeOK, Sent
  <2> QED
    BY <2>2
<1>6. ASSUME NEW j \in Jobs, Deliver(j) PROVE Board!Take(j)
  <2>1. UNCHANGED Sent
    BY <1>6, SentStays DEF Deliver, table
  <2> QED
    BY <1>6, <2>1 DEF Deliver, table, Board!Take, IInv, TypeOK, RequestProgress, Sent
<1>7. ASSUME CommitJob \/ ReloadFails \/ SetJobFailed \/ StartJob
      PROVE  Same \/ (w \in Held /\ Board!Work(w))
  <2>1. PICK s \in {"processing", "completed", "failed"} :
          status' = [status EXCEPT ![w] = s] \/ UNCHANGED status
    BY <1>7 DEF CommitJob, ReloadFails, SetJobFailed, StartJob, Started, IInv, TypeOK
  <2>2. /\ UNCHANGED <<req, msg, unmarked, wjob>>
        /\ wpc \notin {"idle", "down"} /\ wpc' \notin {"idle", "down"}
    BY <1>7 DEF CommitJob, ReloadFails, SetJobFailed, StartJob
  <2>3. UNCHANGED <<Reply, Held, Acked, unmarked>> /\ w \in Held
    BY <2>2 DEF Reply, Held, Acked
  <2>4. CASE status' = [status EXCEPT ![w] = s]
    <3>1. Sent' = [Sent EXCEPT ![w] = IF s = "completed" THEN "data" ELSE "absent"]
      BY <2>4, SentMoves
    <3> QED
      BY <2>3, <2>4, <3>1 DEF Board!Work, Board!Become, Sent, Reply, Held, Acked
  <2>5. CASE UNCHANGED status
    BY <2>3, <2>5, SentStays DEF Same
  <2> QED
    BY <2>1, <2>4, <2>5
<1>8. ASSUME SetJobFails PROVE Same \/ (w \in Held /\ Board!Excuse(w))
  <2>1. UNCHANGED Sent
    BY <1>8, SentStays DEF SetJobFails, table
  <2> QED
    BY <1>8, <2>1 DEF SetJobFails, table, Same, Board!Excuse, Sent, Reply, Held, Acked
<1>9. ASSUME Ack PROVE w \in Held /\ (Board!Settle(w) \/ Board!PutBack)
  <2>1. UNCHANGED Sent
    BY <1>9, SentStays DEF Ack, table
  <2>2. CASE msg[wjob] = "unacked"
    BY <1>9, <2>1, <2>2 DEF Ack, table, Board!Settle, Board!Decided, IInv, TypeOK, AckedDecided,
      Decided, Sent, Held
  <2>3. CASE msg[wjob] # "unacked"
    BY <1>9, <2>1, <2>3 DEF Ack, table, Board!PutBack, Sent, Held
  <2> QED
    BY <2>2, <2>3
<1>10. ASSUME WorkerCrash PROVE Board!PutBack
  <2>1. UNCHANGED Sent
    BY <1>10, SentStays DEF WorkerCrash, table
  <2>2. UNCHANGED Acked
    BY <1>10 DEF WorkerCrash, Requeue, Acked, IInv, TypeOK
  <2> QED
    BY <1>10, <2>1, <2>2 DEF WorkerCrash, table, Board!PutBack, Sent, Acked
<1>11. ASSUME LoseChannel PROVE Same
  <2>1. UNCHANGED Sent
    BY <1>11, SentStays DEF LoseChannel, table
  <2>2. UNCHANGED Acked
    BY <1>11 DEF LoseChannel, Requeue, Acked, IInv, TypeOK
  <2> QED
    BY <1>11, <2>1, <2>2 DEF LoseChannel, table, worker, Same, Reply, Held
<1>12. ASSUME \E j \in Jobs : PublishFails(j) PROVE Same
  <2>1. UNCHANGED Sent
    BY <1>12, SentStays DEF PublishFails, table
  <2> QED
    BY <1>12, <2>1 DEF PublishFails, table, worker, Same, Reply, Held, Acked, IInv, TypeOK,
      RequestProgress
<1>13. ASSUME \/ LoadJob \/ StartFails \/ OpenReport \/ WriteReport \/ WriteWithoutRows \/ WriteFails
              \/ CommitAborted \/ CommitFails \/ WorkerStart \/ UNCHANGED vars
              \/ \E j \in Jobs : CheckDownload(j) \/ SendReport(j)
       PROVE  Same
  <2>1. UNCHANGED <<status, req, msg, unmarked>> /\ UNCHANGED Held
    BY <1>13 DEF LoadJob, StartFails, OpenReport, WriteReport, WriteWithoutRows, WriteFails,
      CommitAborted, CommitFails, WorkerStart, CheckDownload, SendReport, vars, table, worker, Held
  <2> QED
    BY <2>1, SentStays DEF Same, Reply, Acked
<1>14. CASE \E j \in Jobs : CreateJob(j) \/ Request(j) \/ PublishLost(j) \/ PublishFails(j)
                              \/ RequestFails(j) \/ Deliver(j)
  BY <1>a, <1>1, <1>2, <1>3, <1>4, <1>6, <1>12, <1>14 DEF Request, Board!Next
<1>15. CASE ReportServiceCrash
  BY <1>5, <1>15 DEF Board!Next
<1>16. CASE \/ StartJob \/ CommitJob \/ ReloadFails \/ SetJobFailed \/ SetJobFails \/ Ack
  <2>1. UNCHANGED Board!vars \/ \E j \in Held : Board!Work(j) \/ Board!Excuse(j)
                                                \/ Board!Settle(j) \/ Board!PutBack
    BY <1>a, <1>7, <1>8, <1>9, <1>16
  <2> QED
    BY <2>1 DEF Held, Board!Next
<1> QED
  BY <1>a, <1>10, <1>11, <1>13, <1>14, <1>15, <1>16 DEF Next, WorkerStep, Failure, Board!Next

(* BoardSpec: the services, the queue and the worker implement JobBoard,   *)
(* whatever is lost, fails, crashes or is delivered twice.                 *)
THEOREM ImplementsBoard == Spec => BoardSpec
<1> QED
  BY Invariance, BoardInit, BoardStep, PTL DEF Spec, BoardSpec, Board!Spec
=============================================================================
