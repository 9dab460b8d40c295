--------------------------- MODULE SimulationLab ---------------------------
(***************************************************************************)
(* The Attack Simulation page and the runs of simulation-service behind    *)
(* it.  A run is committed as running and ended by a background task; the  *)
(* page starts one scenario, or all of them one after the other, polls the *)
(* history while it shows a running run, and clears it.  Functions of a    *)
(* page that was left go on, but all they change is the table, as another  *)
(* administrator may.                                                      *)
(***************************************************************************)
EXTENDS Naturals, FiniteSets

CONSTANTS Last,      \* SCENARIOS are numbered 1..Last, in the order of Run All
          Attempts,  \* how often waitForRunCompletion asks: 20
          MaxRuns,   \* bound on the runs that are ever committed
          Runners,   \* slots for handleRunSimulation and handleRunAllScenarios
          Fetches    \* slots for fetchHistory

ASSUME LastAssumption == Last \in Nat \ {0}
ASSUME AttemptsAssumption == Attempts \in Nat \ {0}
ASSUME MaxRunsAssumption == MaxRuns \in Nat

VARIABLES
  runs, last,            \* the table of runs, and its last id
  runningId, isRunningAll, results, history, loadingHistory,
  timer,                 \* the pause of the effect on history is running
  missed,                \* a history was asked for and not shown since
  runners, fetches,      \* functions waiting for an answer
  clear                  \* handleClearHistory

server == <<runs, last>>
shown == <<history, timer, missed>>
page == <<runningId, isRunningAll, results, shown, loadingHistory>>
vars == <<server, page, runners, fetches, clear>>

Ids == 1..MaxRuns
Scenarios == 1..Last
Ended == {"protected", "vulnerable"}
History == [Ids -> {"none", "running"} \cup Ended]
Shown == [Ids -> {"none", "running", "ended"}]
NoHistory == [i \in Ids |-> "none"]
NoResults == [s \in Scenarios |-> "none"]
NotRunning == [kind |-> "none", stage |-> "none", scenario |-> 0,
               id |-> 0, attempt |-> 0, read |-> NoHistory]
NotFetching == [stage |-> "none", read |-> NoHistory]

TypeOK ==
  /\ runs \in History /\ last \in 0..MaxRuns
  /\ runningId \in 0..Last /\ isRunningAll \in BOOLEAN
  /\ results \in [Scenarios -> {"none", "success", "failed"}]
  /\ history \in Shown /\ loadingHistory \in BOOLEAN
  /\ timer \in BOOLEAN /\ missed \in BOOLEAN
  /\ runners \in [Runners -> [kind : {"none", "one", "all"},
       stage : {"none", "post", "started", "pause", "asked", "read", "last asked", "last read"},
       scenario : 0..Last, id : 0..MaxRuns, attempt : 0..Attempts, read : History]]
  /\ fetches \in [Fetches -> [stage : {"none", "asked", "read"}, read : Shown]]
  /\ clear \in {"none", "sent", "served", "left"}

-----------------------------------------------------------------------------
(* The page *)

\* Of a history the page needs which runs there are, and which are pending.
Pending(h) == [i \in Ids |-> IF h[i] \in Ended THEN "ended" ELSE h[i]]

\* setHistory, and the effect that waits 1.5 s while a run is pending.
SetHistory(h) ==
  /\ history' = h /\ missed' = FALSE
  /\ timer' = \E i \in Ids : h[i] = "running"

\* fetchHistory is called, in the first free slot, and not awaited.
FetchHistory ==
  \E f \in Fetches :
    /\ fetches[f] = NotFetching
    /\ f = CHOOSE g \in Fetches : fetches[g] = NotFetching
    /\ fetches' = [fetches EXCEPT ![f].stage = "asked"]
    /\ loadingHistory' = TRUE

\* The page is left and opened again; its first effect loads the history.
Remount ==
  /\ runningId' = 0 /\ isRunningAll' = FALSE /\ results' = NoResults
  /\ history' = NoHistory /\ timer' = FALSE /\ missed' = FALSE
  /\ runners' = [w \in Runners |-> NotRunning]
  /\ clear' = IF clear \in {"sent", "left"} THEN "left" ELSE "none"
  /\ \E f \in Fetches :
       fetches' = [g \in Fetches |-> IF g = f THEN [NotFetching EXCEPT !.stage = "asked"]
                                              ELSE NotFetching]
  /\ loadingHistory' = TRUE
  /\ UNCHANGED server

RefreshLogs ==
  /\ ~loadingHistory /\ FetchHistory
  /\ UNCHANGED <<server, runningId, isRunningAll, results, shown, runners, clear>>

ResetLab ==
  /\ results' = NoResults
  /\ UNCHANGED <<server, runningId, isRunningAll, shown, loadingHistory, runners, fetches, clear>>

\* The effect polls: its pause is over.
Poll ==
  /\ timer /\ timer' = FALSE /\ FetchHistory
  /\ UNCHANGED <<server, runningId, isRunningAll, results, history, missed, runners, clear>>

FetchShown(f) ==
  /\ fetches[f].stage = "read"
  /\ SetHistory(fetches[f].read) /\ loadingHistory' = FALSE
  /\ fetches' = [fetches EXCEPT ![f] = NotFetching]
  /\ UNCHANGED <<server, runningId, isRunningAll, results, runners, clear>>

\* The error is only logged: a poll that fails is the last one.
FetchFails(f) ==
  /\ fetches[f].stage # "none"
  /\ missed' = TRUE /\ loadingHistory' = FALSE
  /\ fetches' = [fetches EXCEPT ![f] = NotFetching]
  /\ UNCHANGED <<server, runningId, isRunningAll, results, history, timer, runners, clear>>

ClearHistory ==
  /\ clear \in {"none", "left"} /\ runningId = 0 /\ ~isRunningAll /\ history # NoHistory
  /\ clear' = "sent"
  /\ UNCHANGED <<server, page, runners, fetches>>

HistoryCleared ==
  /\ clear = "served" /\ clear' = "none"
  /\ SetHistory(NoHistory) /\ results' = NoResults
  /\ UNCHANGED <<server, runningId, isRunningAll, loadingHistory, runners, fetches>>

ClearFails ==
  /\ clear \in {"sent", "served"} /\ clear' = "none"
  /\ UNCHANGED <<server, page, runners, fetches>>

-----------------------------------------------------------------------------
(* Running scenarios *)

Start(w, kind, s) ==
  /\ runners[w] = NotRunning /\ w = CHOOSE v \in Runners : runners[v] = NotRunning
  /\ runners' = [runners EXCEPT ![w] =
       [NotRunning EXCEPT !.kind = kind, !.stage = "post", !.scenario = s]]
  /\ runningId' = s

CanRun_AllOnly == ~isRunningAll

\* The button of a scenario is disabled while any scenario runs.
CanRun == runningId = 0

RunSimulation(w, s) ==
  /\ CanRun /\ Start(w, "one", s)
  /\ UNCHANGED <<server, isRunningAll, results, shown, loadingHistory, fetches, clear>>

RunAllScenarios(w) ==
  /\ ~isRunningAll /\ CanRun /\ Start(w, "all", 1)
  /\ isRunningAll' = TRUE /\ results' = NoResults
  /\ UNCHANGED <<server, shown, loadingHistory, fetches, clear>>

\* The finally of both functions.
Finish(w) ==
  /\ runners' = [runners EXCEPT ![w] = NotRunning]
  /\ runningId' = 0 /\ isRunningAll' = FALSE /\ FetchHistory

NextScenario_OneMore(w, r, loading) ==
  /\ results' = [results EXCEPT ![runners[w].scenario] = r]
  /\ LET s == runners[w].scenario + 1
     IN  IF runners[w].kind = "one" \/ s > Last + 1
           THEN Finish(w)
           ELSE /\ runners' = [runners EXCEPT ![w] =
                     [NotRunning EXCEPT !.kind = "all", !.stage = "post", !.scenario = s]]
                /\ runningId' = s /\ loadingHistory' = loading
                /\ UNCHANGED <<isRunningAll, fetches>>

\* A single run is over when it has been started; Run All goes on with the
\* next scenario.
NextScenario(w, r, loading) ==
  /\ results' = [results EXCEPT ![runners[w].scenario] = r]
  /\ LET s == runners[w].scenario + 1
     IN  IF runners[w].kind = "one" \/ s > Last
           THEN Finish(w)
           ELSE /\ runners' = [runners EXCEPT ![w] =
                     [NotRunning EXCEPT !.kind = "all", !.stage = "post", !.scenario = s]]
                /\ runningId' = s /\ loadingHistory' = loading
                /\ UNCHANGED <<isRunningAll, fetches>>

Started(w) ==
  /\ runners[w].stage = "started"
  /\ IF runners[w].kind = "one"
       THEN NextScenario(w, "success", loadingHistory)
       ELSE /\ runners' = [runners EXCEPT ![w].stage = "pause"]
            /\ UNCHANGED <<runningId, isRunningAll, results, fetches, loadingHistory>>
  /\ UNCHANGED <<server, shown, clear>>

\* The request fails, or one of the polls for the run does.
RunFails(w) ==
  /\ runners[w].stage \in {"post", "started", "asked", "read"}
  /\ NextScenario(w, "failed", loadingHistory)
  /\ UNCHANGED <<server, shown, clear>>

\* waitForRunCompletion: a second is over, the history is asked for.
Wait(w) ==
  /\ runners[w].stage = "pause"
  /\ runners' = [runners EXCEPT ![w].stage = "asked", ![w].attempt = @ + 1]
  /\ UNCHANGED <<server, page, fetches, clear>>

Verdict_Started(run) == "success"

\* completedRun?.mitigated !== false
Verdict(run) == IF run = "vulnerable" THEN "failed" ELSE "success"

Completed(w) ==
  /\ runners[w].stage = "read"
  /\ LET run == runners[w].read[runners[w].id]
     IN  run \in Ended /\ NextScenario(w, Verdict(run), loadingHistory)
  /\ SetHistory(Pending(runners[w].read))
  /\ UNCHANGED <<server, clear>>

NotCompleted_Forever(w) ==
  /\ runners[w].stage = "read" /\ runners[w].read[runners[w].id] \notin Ended
  /\ runners' = [runners EXCEPT ![w].stage = "pause", ![w].attempt = 0, ![w].read = NoHistory]
  /\ UNCHANGED <<server, page, fetches, clear>>

\* The run is still running, or has been deleted: after the last attempt the
\* history is loaded once more.
NotCompleted(w) ==
  /\ runners[w].stage = "read" /\ runners[w].read[runners[w].id] \notin Ended
  /\ runners' = [runners EXCEPT ![w].read = NoHistory,
                   ![w].stage = IF runners[w].attempt < Attempts THEN "pause" ELSE "last asked"]
  /\ loadingHistory' = (loadingHistory \/ runners[w].attempt = Attempts)
  /\ UNCHANGED <<server, runningId, isRunningAll, results, shown, fetches, clear>>

\* That load catches its own error; no run was completed.
GiveUp(w) ==
  /\ runners[w].stage \in {"last asked", "last read"}
  /\ NextScenario(w, Verdict("none"), FALSE)
  /\ \/ runners[w].stage = "last read" /\ SetHistory(Pending(runners[w].read))
     \/ missed' = TRUE /\ UNCHANGED <<history, timer>>
  /\ UNCHANGED <<server, clear>>

-----------------------------------------------------------------------------
(* simulation-service *)

CommitRun ==
  /\ last < MaxRuns /\ last' = last + 1
  /\ runs' = [runs EXCEPT ![last'] = "running"]

ServeRun(w) ==
  /\ runners[w].stage = "post"
  /\ CommitRun
  /\ runners' = [runners EXCEPT ![w].stage = "started", ![w].id = last']
  /\ UNCHANGED <<page, fetches, clear>>

\* Another administrator starts a run; or the scenario is unknown, which the
\* service finds out after the commit: that run never ends.
OtherRun == CommitRun /\ UNCHANGED <<page, runners, fetches, clear>>

\* The background task ends its run, if that is still there.  It never does
\* when a probe raises or the service restarts.
UpdateRun(i, result) ==
  /\ runs[i] = "running" /\ runs' = [runs EXCEPT ![i] = result]
  /\ UNCHANGED <<last, page, runners, fetches, clear>>

ServeClear ==
  /\ clear \in {"sent", "left"}
  /\ clear' = IF clear = "sent" THEN "served" ELSE "none"
  /\ runs' = NoHistory
  /\ UNCHANGED <<last, page, runners, fetches>>

ServeHistory ==
  \/ \E f \in Fetches :
       /\ fetches[f].stage = "asked"
       /\ fetches' = [fetches EXCEPT ![f] = [stage |-> "read", read |-> Pending(runs)]]
       /\ UNCHANGED <<server, page, runners, clear>>
  \/ \E w \in Runners :
       /\ runners[w].stage \in {"asked", "last asked"}
       /\ runners' = [runners EXCEPT ![w].read = runs,
            ![w].stage = IF @ = "asked" THEN "read" ELSE "last read"]
       /\ UNCHANGED <<server, page, fetches, clear>>

-----------------------------------------------------------------------------
Init ==
  /\ runs = NoHistory /\ last = 0
  /\ runningId = 0 /\ isRunningAll = FALSE /\ results = NoResults
  /\ history = NoHistory /\ timer = FALSE /\ missed = FALSE
  /\ runners = [w \in Runners |-> NotRunning]
  /\ \E f \in Fetches :
       fetches = [g \in Fetches |-> IF g = f THEN [NotFetching EXCEPT !.stage = "asked"]
                                             ELSE NotFetching]
  /\ loadingHistory = TRUE
  /\ clear = "none"

Fetched(f) == FetchShown(f) \/ FetchFails(f)
Receive(w) ==
  Started(w) \/ RunFails(w) \/ Wait(w) \/ Completed(w) \/ NotCompleted(w) \/ GiveUp(w)

Next ==
  \/ Remount \/ RefreshLogs \/ ResetLab \/ Poll
  \/ ClearHistory \/ HistoryCleared \/ ClearFails
  \/ OtherRun \/ ServeClear \/ ServeHistory
  \/ \E f \in Fetches : Fetched(f)
  \/ \E i \in Ids, result \in Ended : UpdateRun(i, result)
  \/ \E w \in Runners :
       \/ RunAllScenarios(w) \/ ServeRun(w) \/ Receive(w)
       \/ \E s \in Scenarios : RunSimulation(w, s)

Spec == Init /\ [][Next]_vars

\* Requests end and pauses are over; nothing is assumed of the background
\* tasks, of the service or of users.  (Strong fairness of runners makes up for
\* the bound on Fetches: in the code a function never waits for a slot.)
Fairness ==
  /\ WF_vars(Poll)
  /\ \A f \in Fetches : WF_vars(Fetched(f))
  /\ SF_vars(\E w \in Runners : Receive(w))
FairSpec == Spec /\ Fairness

-----------------------------------------------------------------------------
(* Properties *)

\* At most one function of the page runs scenarios; runningId is the one it
\* is at, and isRunningAll says whether more follow.
OneRunner ==
  LET busy == {w \in Runners : runners[w] # NotRunning}
  IN  /\ \A v, w \in busy : v = w
      /\ busy = {} <=> runningId = 0
      /\ \A w \in busy : runningId = runners[w].scenario
      /\ isRunningAll <=> \E w \in busy : runners[w].kind = "all"

\* Run All calls a scenario validated although its own run has been found
\* vulnerable by then only after it has asked for the last time.
VerdictOfOwnRun ==
  [][\A w \in Runners :
       LET run == runners[w]
       IN  run.kind = "all" /\ results' # results /\ runners'[w] # run
             /\ results'[run.scenario] = "success" /\ runs[run.id] = "vulnerable"
           => run.attempt = Attempts]_vars

\* Run All ends, whatever becomes of its runs; and a run that has ended or
\* was deleted is shown as running no more from some time on, in spite of
\* answers that come late, unless a request for the history failed.
LabSettles ==
  /\ isRunningAll ~> ~isRunningAll
  /\ \A i \in Ids : (i <= last /\ runs[i] # "running") ~> [](history[i] # "running" \/ missed)

=============================================================================
