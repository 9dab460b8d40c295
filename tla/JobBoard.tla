------------------------------ MODULE JobBoard ------------------------------
(***************************************************************************)
(* What SecureOps promises about reports, with no queue, messages, files   *)
(* or processes in it.  Jobs are worked on one at a time.  A job that is   *)
(* completed has its report in the same step and is never shown half       *)
(* written; it may be worked on more than once, but when it is settled     *)
(* only its own request, if that has not been answered yet, can still      *)
(* change it.  ReportJobs is the detailed specification that implements    *)
(* this one.                                                               *)
(***************************************************************************)
CONSTANT Jobs      \* the jobs administrators may ask for

VARIABLES
  status,   \* status of each job, "none" before it is asked for
  report,   \* the report a download that starts would find: nothing or its data
  reply,    \* the answer to the request that creates the job
  inHand,   \* the job that is worked on: one or none
  settled,  \* jobs that will not be worked on again
  excused   \* jobs whose failure could not be recorded

vars == <<status, report, reply, inHand, settled, excused>>

Init ==
  /\ status = [j \in Jobs |-> "none"]
  /\ report = [j \in Jobs |-> "absent"]
  /\ reply = [j \in Jobs |-> "open"]
  /\ inHand = {} /\ settled = {} /\ excused = {}

Decided(j) == status[j] \in {"completed", "failed"}

(* The status, and with it what a download would find.                     *)
Become(j, s) ==
  /\ status' = [status EXCEPT ![j] = s]
  /\ report' = [report EXCEPT ![j] = IF s = "completed" THEN "data" ELSE "absent"]

Ask(j) ==
  /\ status[j] = "none" /\ Become(j, "pending")
  /\ UNCHANGED <<reply, inHand, settled, excused>>

Accept(j) ==
  /\ reply[j] = "open" /\ status[j] # "none"
  /\ reply' = [reply EXCEPT ![j] = "accepted"]
  /\ UNCHANGED <<status, report, inHand, settled, excused>>

(* The request is refused and its job marked, or some requests end with    *)
(* an error and leave their jobs as they are.                              *)
Refuse(j) ==
  /\ reply[j] = "open" /\ Become(j, "failed")
  /\ reply' = [reply EXCEPT ![j] = "refused"]
  /\ UNCHANGED <<inHand, settled, excused>>
Abort(S) ==
  /\ \A j \in S : reply[j] = "open"
  /\ reply' = [j \in Jobs |-> IF j \in S THEN "refused" ELSE reply[j]]
  /\ UNCHANGED <<status, report, inHand, settled, excused>>

Take(j) ==
  /\ inHand = {} /\ status[j] # "none" /\ j \notin settled
  /\ inHand' = {j}
  /\ UNCHANGED <<status, report, reply, settled, excused>>

Work(j) ==
  /\ \E s \in {"processing", "completed", "failed"} : Become(j, s)
  /\ UNCHANGED <<reply, inHand, settled, excused>>

Excuse(j) ==
  /\ status[j] # "failed"
  /\ excused' = excused \cup {j}
  /\ UNCHANGED <<status, report, reply, inHand, settled>>

Settle(j) ==
  /\ Decided(j) \/ j \in excused
  /\ inHand' = {} /\ settled' = settled \cup {j}
  /\ UNCHANGED <<status, report, reply, excused>>

(* Somebody will have to take the job again.                               *)
PutBack ==
  /\ inHand' = {}
  /\ UNCHANGED <<status, report, reply, settled, excused>>

Next ==
  \/ \E j \in Jobs : Ask(j) \/ Accept(j) \/ Refuse(j) \/ Take(j)
  \/ \E S \in SUBSET Jobs : Abort(S)
  \/ \E j \in inHand : Work(j) \/ Excuse(j) \/ Settle(j)
  \/ PutBack

Spec == Init /\ [][Next]_vars
=============================================================================
