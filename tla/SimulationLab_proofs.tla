----------------------- MODULE SimulationLab_proofs -----------------------
(***************************************************************************)
(* Proofs about SimulationLab, for any number of scenarios, runs, attempts *)
(* and functions under way.                                                *)
(***************************************************************************)
EXTENDS SimulationLab, TLAPS

USE DEF Scenarios, Ids

Stages == {"none", "post", "started", "pause", "asked", "read", "last asked", "last read"}
Runner == [kind : {"none", "one", "all"}, stage : Stages, scenario : 0..Last,
           id : 0..MaxRuns, attempt : 0..Attempts, read : History]

(* A function that runs scenarios: which one, and how often it asked.      *)
Fit(k) ==
  /\ k \in Runner
  /\ k = NotRunning \/ (k.kind \in {"one", "all"} /\ k.stage # "none" /\ k.scenario \in Scenarios)
  /\ k.stage \in {"none", "post", "started"} => k.attempt = 0
  /\ k.stage = "pause" => k.attempt < Attempts
  /\ k.stage \in {"last asked", "last read"} => k.attempt = Attempts

(* What it knows of its run: the id, and how it ended if it was not deleted. *)
Linked(k, rs, l) ==
  /\ k.stage \notin {"none", "post"} => k.id \in 1..l
  /\ k.stage = "read" /\ k.read[k.id] \in Ended => rs[k.id] \in {k.read[k.id], "none"}

FitAll(ks) == ks \in [Runners -> Runner] /\ \A w \in Runners : Fit(ks[w])
LinkedAll(ks, rs, l) == \A w \in Runners : Linked(ks[w], rs, l)

Running(ks) == {w \in Runners : ks[w] # NotRunning}
Lone(ks, id, all) ==
  /\ \A v, w \in Running(ks) : v = w
  /\ Running(ks) = {} <=> id = 0
  /\ \A w \in Running(ks) : id = ks[w].scenario
  /\ all <=> \E w \in Running(ks) : ks[w].kind = "all"

ServerTyped == runs \in History /\ last \in 0..MaxRuns
PageTyped ==
  /\ runningId \in 0..Last /\ isRunningAll \in BOOLEAN
  /\ results \in [Scenarios -> {"none", "success", "failed"}]
  /\ loadingHistory \in BOOLEAN
ShownTyped == history \in Shown /\ timer \in BOOLEAN /\ missed \in BOOLEAN
FetchesTyped == fetches \in [Fetches -> [stage : {"none", "asked", "read"}, read : Shown]]
ClearTyped == clear \in {"none", "sent", "served", "left"}
Typed == ServerTyped /\ PageTyped /\ ShownTyped /\ FetchesTyped /\ ClearTyped

Inv ==
  /\ Typed
  /\ FitAll(runners)
  /\ LinkedAll(runners, runs, last)
  /\ Lone(runners, runningId, isRunningAll)

-----------------------------------------------------------------------------
(* Values *)

(* Histories of the service and of the page.                               *)
LEMMA Histories ==
  /\ NoHistory \in History /\ NoHistory \in Shown
  /\ \A h \in History : Pending(h) \in Shown
BY DEF NoHistory, History, Shown, Pending, Ended

(* A function that is not running.                                         *)
LEMMA NotRunningIs ==
  /\ Fit(NotRunning) /\ NotRunning.stage = "none" /\ NotRunning.kind = "none"
  /\ \A rs, l : Linked(NotRunning, rs, l)
BY Histories, LastAssumption, AttemptsAssumption, MaxRunsAssumption
DEF NotRunning, Fit, Runner, Stages, Linked

(* A function that begins a scenario.                                      *)
Beginning(kind, s) == [NotRunning EXCEPT !.kind = kind, !.stage = "post", !.scenario = s]

LEMMA BeginningIs ==
  ASSUME NEW kind \in {"one", "all"}, NEW s \in Scenarios
  PROVE  LET k == Beginning(kind, s)
         IN  /\ Fit(k) /\ k # NotRunning /\ k.kind = kind /\ k.scenario = s
             /\ \A rs, l : Linked(k, rs, l)
<1> DEFINE k == Beginning(kind, s)
<1>1. NotRunning \in Runner /\ NotRunning.attempt = 0 /\ NotRunning.kind = "none"
  BY NotRunningIs DEF Fit, NotRunning
<1>2. s \in 0..Last
  BY LastAssumption
<1>3. k \in Runner /\ k.kind = kind /\ k.stage = "post" /\ k.scenario = s /\ k.attempt = 0
  BY <1>1, <1>2 DEF Beginning, Runner, Stages
<1> HIDE DEF k
<1>4. k # NotRunning
  BY <1>1, <1>3
<1>5. Fit(k) /\ \A rs, l : Linked(k, rs, l)
  BY <1>3 DEF Fit, Linked
<1> QED
  BY <1>3, <1>4, <1>5 DEF k

(* A function that goes on is still running.                               *)
LEMMA StillFit ==
  ASSUME NEW r, Fit(r), r # NotRunning,
         NEW k \in Runner, k.kind = r.kind, k.scenario = r.scenario, k.stage # "none",
         k.stage \in {"post", "started"} => k.attempt = 0,
         k.stage = "pause" => k.attempt < Attempts,
         k.stage \in {"last asked", "last read"} => k.attempt = Attempts
  PROVE  Fit(k) /\ k # NotRunning
BY NotRunningIs DEF Fit

(* What is shown changes to a history, or the page was told of none.       *)
LEMMA Showing ==
  ASSUME NEW h \in Shown, SetHistory(h)
  PROVE  ShownTyped'
BY DEF SetHistory, ShownTyped

(* A history is asked for.                                                 *)
LEMMA Fetching ==
  ASSUME FetchesTyped, FetchHistory
  PROVE  FetchesTyped' /\ loadingHistory' = TRUE
BY DEF FetchHistory, FetchesTyped

-----------------------------------------------------------------------------
(* Functions *)

(* One function goes on with its scenario.                                 *)
LEMMA GoesOn ==
  ASSUME FitAll(runners), Lone(runners, runningId, isRunningAll),
         NEW w \in Runners, runners[w] # NotRunning,
         NEW k, Fit(k), k # NotRunning,
         k.kind = runners[w].kind, k.scenario = runners[w].scenario,
         runners' = [runners EXCEPT ![w] = k]
  PROVE  FitAll(runners') /\ Lone(runners', runningId, isRunningAll)
<1>1. runners' \in [Runners -> Runner] /\ \A v \in Runners : Fit(runners'[v])
  BY DEF FitAll, Fit
<1>2. Running(runners') = Running(runners)
  BY DEF FitAll, Running
<1>3. runners'[w] = k /\ \A v \in Runners : v # w => runners'[v] = runners[v]
  BY DEF FitAll
<1>4. \A v \in Runners : runners'[v].kind = runners[v].kind
                           /\ runners'[v].scenario = runners[v].scenario
  BY <1>3
<1> QED
  BY <1>1, <1>2, <1>4 DEF FitAll, Lone, Running

(* One function begins a scenario when no other is under way.              *)
LEMMA Begins ==
  ASSUME FitAll(runners), NEW w \in Runners, \A v \in Running(runners) : v = w,
         NEW kind \in {"one", "all"}, NEW s \in Scenarios,
         runners' = [runners EXCEPT ![w] = Beginning(kind, s)],
         NEW all, all \in BOOLEAN, all = (kind = "all")
  PROVE  FitAll(runners') /\ Lone(runners', s, all)
<1>1. Fit(Beginning(kind, s)) /\ Beginning(kind, s) # NotRunning
        /\ Beginning(kind, s).kind = kind /\ Beginning(kind, s).scenario = s
  BY BeginningIs
<1>2. runners' \in [Runners -> Runner] /\ \A v \in Runners : Fit(runners'[v])
  BY <1>1 DEF FitAll, Fit
<1>3. runners'[w] = Beginning(kind, s) /\ \A v \in Runners : v # w => runners'[v] = NotRunning
  BY DEF FitAll, Running
<1>4. Running(runners') = {w}
  BY <1>1, <1>3 DEF Running
<1>5. s # 0
  BY LastAssumption
<1> QED
  BY <1>1, <1>2, <1>3, <1>4, <1>5 DEF FitAll, Lone

(* The only function ends.                                                 *)
LEMMA Ends ==
  ASSUME FitAll(runners), NEW w \in Runners, \A v \in Running(runners) : v = w,
         runners' = [runners EXCEPT ![w] = NotRunning]
  PROVE  FitAll(runners') /\ Lone(runners', 0, FALSE)
<1>1. runners' \in [Runners -> Runner] /\ \A v \in Runners : Fit(runners'[v])
  BY NotRunningIs DEF FitAll, Fit
<1>2. Running(runners') = {}
  BY DEF FitAll, Running
<1> QED
  BY <1>1, <1>2 DEF FitAll, Lone

(* The others keep what they know when one function changes.               *)
LEMMA OneLinked ==
  ASSUME FitAll(runners), LinkedAll(runners, runs, last), NEW w \in Runners, NEW k,
         Linked(k, runs, last), runners' = [runners EXCEPT ![w] = k]
  PROVE  LinkedAll(runners', runs, last)
BY DEF FitAll, LinkedAll

(* The next scenario of Run All, or the end.                               *)
LEMMA NextStep ==
  ASSUME Inv, NEW w \in Runners, runners[w] # NotRunning,
         NEW r \in {"success", "failed"}, NEW loading \in BOOLEAN,
         NextScenario(w, r, loading), UNCHANGED <<server, clear>>, ShownTyped'
  PROVE  Inv'
<1>1. /\ \A v \in Running(runners) : v = w
      /\ runningId = runners[w].scenario /\ runningId \in Scenarios
      /\ isRunningAll <=> runners[w].kind = "all"
      /\ runners[w].kind \in {"one", "all"} /\ runners[w].scenario \in Scenarios
  BY DEF Inv, FitAll, Fit, Lone, Running
<1>2. results' \in [Scenarios -> {"none", "success", "failed"}]
  BY <1>1 DEF Inv, Typed, PageTyped, NextScenario
<1> DEFINE s == runners[w].scenario + 1
<1>3. CASE runners[w].kind = "one" \/ s > Last
  <2>1. runners' = [runners EXCEPT ![w] = NotRunning] /\ runningId' = 0 /\ isRunningAll' = FALSE
          /\ FetchHistory
    BY <1>3 DEF NextScenario, Finish
  <2>2. FitAll(runners') /\ Lone(runners', 0, FALSE)
    BY <1>1, <2>1, Ends DEF Inv
  <2>3. LinkedAll(runners', runs, last)
    BY <2>1, NotRunningIs, OneLinked DEF Inv
  <2>4. FetchesTyped' /\ loadingHistory' = TRUE
    BY <2>1, Fetching DEF Inv, Typed
  <2>5. PageTyped'
    <3>1. 0 \in 0..Last
      BY LastAssumption
    <3> QED
      BY <1>2, <2>1, <2>4, <3>1 DEF PageTyped
  <2>6. Typed'
    BY <2>4, <2>5 DEF Inv, Typed, ServerTyped, ClearTyped, server
  <2> QED
    BY <2>1, <2>2, <2>3, <2>6 DEF Inv, server
<1>4. CASE ~(runners[w].kind = "one" \/ s > Last)
  <2>1. runners' = [runners EXCEPT ![w] = Beginning("all", s)] /\ runningId' = s
          /\ loadingHistory' = loading /\ UNCHANGED <<isRunningAll, fetches>>
    BY <1>4 DEF NextScenario, Beginning
  <2>2. s \in Scenarios
    BY <1>1, <1>4, LastAssumption
  <2>3. isRunningAll = TRUE
    BY <1>1, <1>4 DEF Inv, Typed, PageTyped
  <2> HIDE DEF s
  <2>4. FitAll(runners') /\ Lone(runners', s, TRUE)
    BY <1>1, <2>1, <2>2, Begins DEF Inv
  <2>5. LinkedAll(runners', runs, last)
    BY <2>1, <2>2, BeginningIs, OneLinked DEF Inv
  <2>6. Typed'
    BY <1>2, <2>1, <2>2 DEF Inv, Typed, ServerTyped, PageTyped, FetchesTyped, ClearTyped, server
  <2> QED
    BY <2>1, <2>3, <2>4, <2>5, <2>6 DEF Inv, server
<1> QED
  BY <1>3, <1>4

(* A function goes on with its scenario, and knows its run.                *)
LEMMA GoOnStep ==
  ASSUME Inv, NEW w \in Runners, runners[w] # NotRunning, NEW k, Fit(k), k # NotRunning,
         k.kind = runners[w].kind, k.scenario = runners[w].scenario,
         Linked(k, runs, last),
         runners' = [runners EXCEPT ![w] = k],
         UNCHANGED <<server, runningId, isRunningAll>>, Typed'
  PROVE  Inv'
<1>1. FitAll(runners') /\ Lone(runners', runningId, isRunningAll)
  BY GoesOn DEF Inv
<1>2. LinkedAll(runners', runs, last)
  BY OneLinked DEF Inv
<1> QED
  BY <1>1, <1>2 DEF Inv, server

(* Functions that do not change stay fit.                                  *)
LEMMA SameRunners ==
  ASSUME Inv, UNCHANGED <<server, runners, runningId, isRunningAll>>, Typed'
  PROVE  Inv'
BY DEF Inv, server

(* The page is opened, for the first time or again.                        *)
LEMMA Mounted ==
  ASSUME runners' = [w \in Runners |-> NotRunning], runningId' = 0, isRunningAll' = FALSE
  PROVE  /\ FitAll(runners') /\ Lone(runners', runningId', isRunningAll')
         /\ \A rs, l : LinkedAll(runners', rs, l)
<1>1. \A w \in Runners : runners'[w] = NotRunning
  OBVIOUS
<1>2. runners' \in [Runners -> Runner]
  BY NotRunningIs DEF Fit
<1>3. Running(runners') = {}
  BY <1>1 DEF Running
<1> QED
  BY <1>1, <1>2, <1>3, NotRunningIs DEF FitAll, Lone, LinkedAll

-----------------------------------------------------------------------------
(* The actions *)

(* The page, apart from running scenarios.                                 *)
LEMMA PageStep ==
  ASSUME Inv,
         \/ Remount \/ RefreshLogs \/ ResetLab \/ Poll
         \/ ClearHistory \/ HistoryCleared \/ ClearFails
         \/ \E f \in Fetches : Fetched(f)
  PROVE  Inv'
<1>0. Typed
  BY DEF Inv
<1> USE DEF Typed, ServerTyped, PageTyped, ClearTyped, server, shown
<1>1. ASSUME Remount PROVE Inv'
  <2>1. FitAll(runners') /\ Lone(runners', runningId', isRunningAll')
          /\ LinkedAll(runners', runs', last')
    BY <1>1, Mounted DEF Remount
  <2>2. FetchesTyped'
    BY <1>1, Histories DEF Remount, NotFetching, FetchesTyped
  <2>3. ShownTyped'
    BY <1>1, Histories DEF Remount, ShownTyped
  <2>4. PageTyped'
    <3>1. /\ runningId' = 0 /\ isRunningAll' = FALSE /\ results' = NoResults
          /\ loadingHistory' = TRUE
      BY <1>1 DEF Remount
    <3>2. NoResults \in [Scenarios -> {"none", "success", "failed"}] /\ 0 \in 0..Last
      BY LastAssumption DEF NoResults
    <3> QED
      BY <3>1, <3>2
  <2>5. ServerTyped' /\ ClearTyped'
    BY <1>0, <1>1 DEF Remount
  <2> QED
    BY <2>1, <2>2, <2>3, <2>4, <2>5 DEF Inv
<1>2. ASSUME RefreshLogs PROVE Inv'
  BY <1>0, <1>2, Fetching, SameRunners DEF RefreshLogs, ShownTyped
<1>3. ASSUME ResetLab PROVE Inv'
  <2>1. results' \in [Scenarios -> {"none", "success", "failed"}]
    BY <1>3 DEF ResetLab, NoResults
  <2> QED
    BY <1>0, <1>3, <2>1, SameRunners DEF ResetLab, ShownTyped, FetchesTyped
<1>4. ASSUME Poll PROVE Inv'
  BY <1>0, <1>4, Fetching, SameRunners DEF Poll, ShownTyped
<1>5. ASSUME ClearHistory PROVE Inv'
  BY <1>0, <1>5, SameRunners DEF ClearHistory, page, ShownTyped, FetchesTyped
<1>6. ASSUME HistoryCleared PROVE Inv'
  <2>1. results' \in [Scenarios -> {"none", "success", "failed"}]
    BY <1>6 DEF HistoryCleared, NoResults
  <2>2. ShownTyped'
    BY <1>6, Histories, Showing DEF HistoryCleared
  <2> QED
    BY <1>0, <1>6, <2>1, <2>2, SameRunners DEF HistoryCleared, FetchesTyped
<1>7. ASSUME ClearFails PROVE Inv'
  BY <1>0, <1>7, SameRunners DEF ClearFails, page, ShownTyped, FetchesTyped
<1>8. ASSUME NEW f \in Fetches, Fetched(f) PROVE Inv'
  <2>1. NotFetching \in [stage : {"none", "asked", "read"}, read : Shown]
    BY Histories DEF NotFetching
  <2>2. fetches' = [fetches EXCEPT ![f] = NotFetching]
    BY <1>8 DEF Fetched, FetchShown, FetchFails
  <2>3. FetchesTyped'
    BY <1>0, <2>1, <2>2 DEF FetchesTyped
  <2>4. ShownTyped'
    <3>1. CASE FetchShown(f)
      <4>1. fetches[f].read \in Shown
        BY <1>0 DEF FetchesTyped
      <4> QED
        BY <3>1, <4>1, Showing DEF FetchShown
    <3>2. CASE FetchFails(f)
      BY <1>0, <3>2 DEF FetchFails, ShownTyped
    <3> QED
      BY <1>8, <3>1, <3>2 DEF Fetched
  <2> QED
    BY <1>0, <1>8, <2>3, <2>4, SameRunners DEF Fetched, FetchShown, FetchFails
<1> QED
  BY <1>1, <1>2, <1>3, <1>4, <1>5, <1>6, <1>7, <1>8

(* Running scenarios.                                                      *)
LEMMA RunStep ==
  ASSUME Inv, NEW w \in Runners,
         RunAllScenarios(w) \/ (\E s \in Scenarios : RunSimulation(w, s)) \/ Receive(w)
  PROVE  Inv'
<1>0. Typed /\ Fit(runners[w]) /\ Linked(runners[w], runs, last)
  BY DEF Inv, FitAll, LinkedAll
<1> USE DEF Typed, ServerTyped, PageTyped, ClearTyped, server, shown
<1>1. ASSUME NEW kind \in {"one", "all"}, NEW s \in Scenarios, CanRun, Start(w, kind, s)
      PROVE  FitAll(runners') /\ Lone(runners', s, kind = "all")
               /\ LinkedAll(runners', runs, last)
  <2>1. runners' = [runners EXCEPT ![w] = Beginning(kind, s)]
    BY <1>1 DEF Start, Beginning
  <2>2. Running(runners) = {}
    BY <1>1 DEF CanRun, Inv, Lone
  <2>3. FitAll(runners') /\ Lone(runners', s, kind = "all")
    BY <2>1, <2>2, Begins DEF Inv
  <2>4. LinkedAll(runners', runs, last)
    BY <2>1, BeginningIs, OneLinked DEF Inv
  <2> QED
    BY <2>3, <2>4
<1>2. ASSUME RunAllScenarios(w) PROVE Inv'
  <2>1. /\ CanRun /\ Start(w, "all", 1) /\ runningId' = 1 /\ isRunningAll' = TRUE
        /\ results' = NoResults
        /\ UNCHANGED <<server, shown, loadingHistory, fetches, clear>>
    BY <1>2 DEF RunAllScenarios, Start
  <2>2. FitAll(runners') /\ Lone(runners', 1, TRUE) /\ LinkedAll(runners', runs, last)
    <3>1. 1 \in Scenarios
      BY LastAssumption
    <3>2. FitAll(runners') /\ Lone(runners', 1, "all" = "all") /\ LinkedAll(runners', runs, last)
      BY <1>1, <2>1, <3>1
    <3>3. ("all" = "all") = TRUE
      OBVIOUS
    <3> QED
      BY <3>2, <3>3
  <2>3. PageTyped'
    BY <1>0, <2>1, LastAssumption DEF NoResults
  <2>4. Typed'
    BY <1>0, <2>1, <2>3 DEF ShownTyped, FetchesTyped
  <2> QED
    BY <2>1, <2>2, <2>4 DEF Inv
<1>3. ASSUME NEW s \in Scenarios, RunSimulation(w, s) PROVE Inv'
  <2>1. /\ CanRun /\ Start(w, "one", s) /\ runningId' = s
        /\ UNCHANGED <<server, isRunningAll, results, shown, loadingHistory, fetches, clear>>
    BY <1>3 DEF RunSimulation, Start
  <2>2. FitAll(runners') /\ Lone(runners', s, FALSE) /\ LinkedAll(runners', runs, last)
    BY <1>1, <2>1
  <2>3. isRunningAll = FALSE
    BY <1>0, <2>1 DEF CanRun, Inv, Lone
  <2>4. Typed'
    BY <1>0, <2>1 DEF ShownTyped, FetchesTyped
  <2> QED
    BY <2>1, <2>2, <2>3, <2>4 DEF Inv
<1>4. ASSUME Receive(w) PROVE runners[w] # NotRunning
  BY <1>4, NotRunningIs DEF Receive, Started, RunFails, Wait, Completed, NotCompleted, GiveUp
<1>5. ASSUME Started(w) PROVE Inv'
  <2>1. runners[w] # NotRunning
    BY <1>4, <1>5 DEF Receive
  <2>2. CASE runners[w].kind = "one"
    BY <1>0, <1>5, <2>1, <2>2, NextStep DEF Started, ShownTyped
  <2>3. CASE runners[w].kind # "one"
    <3> DEFINE k == [runners[w] EXCEPT !.stage = "pause"]
    <3>0. /\ k \in Runner /\ k.stage = "pause" /\ k.attempt = 0
          /\ k.kind = runners[w].kind /\ k.scenario = runners[w].scenario
          /\ k.id = runners[w].id
      BY <1>0, <1>5 DEF Started, Fit, Runner, Stages
    <3> HIDE DEF k
    <3>1. Linked(k, runs, last) /\ k.attempt < Attempts
      BY <1>0, <1>5, <3>0, AttemptsAssumption DEF Started, Linked
    <3>4. Fit(k) /\ k # NotRunning
      BY <1>0, <2>1, <3>0, <3>1, StillFit
    <3> USE DEF k
    <3>2. runners' = [runners EXCEPT ![w] = k]
      BY <1>5, <2>3 DEF Started, Inv, FitAll
    <3>3. Typed'
      BY <1>0, <1>5, <2>3 DEF Started, ShownTyped, FetchesTyped
    <3> HIDE DEF k
    <3> QED
      BY <1>5, <2>1, <2>3, <3>0, <3>1, <3>2, <3>3, <3>4, GoOnStep DEF Started
  <2> QED
    BY <2>2, <2>3
<1>6. ASSUME RunFails(w) PROVE Inv'
  BY <1>0, <1>4, <1>6, NextStep DEF Receive, RunFails, ShownTyped
<1>7. ASSUME Wait(w) PROVE Inv'
  <2> DEFINE k == [runners[w] EXCEPT !.stage = "asked", !.attempt = runners[w].attempt + 1]
  <2>1. runners[w] # NotRunning
    BY <1>4, <1>7 DEF Receive
  <2>2. runners[w].stage = "pause" /\ runners[w].attempt < Attempts /\ runners[w].attempt \in Nat
    BY <1>0, <1>7 DEF Wait, Fit, Runner
  <2>3. /\ k \in Runner /\ k.stage = "asked"
        /\ k.kind = runners[w].kind /\ k.scenario = runners[w].scenario
        /\ k.id = runners[w].id
    <3>1. runners[w].attempt + 1 \in 0..Attempts
      BY <2>2, AttemptsAssumption
    <3> QED
      BY <1>0, <2>2, <3>1 DEF Fit, Runner, Stages
  <2> HIDE DEF k
  <2>6. Fit(k) /\ k # NotRunning /\ Linked(k, runs, last)
    BY <1>0, <2>1, <2>2, <2>3, StillFit DEF Linked
  <2> USE DEF k
  <2>4. runners' = [runners EXCEPT ![w] = k]
    BY <1>7 DEF Wait, Inv, FitAll
  <2>5. Typed'
    BY <1>0, <1>7 DEF Wait, page, ShownTyped, FetchesTyped
  <2> HIDE DEF k
  <2> QED
    BY <1>7, <2>1, <2>3, <2>4, <2>5, <2>6, GoOnStep DEF Wait, page
<1>8. ASSUME Completed(w) PROVE Inv'
  <2>1. runners[w].read \in History
    BY <1>0 DEF Fit, Runner
  <2>2. ShownTyped'
    BY <1>8, <2>1, Histories, Showing DEF Completed
  <2>3. Verdict(runners[w].read[runners[w].id]) \in {"success", "failed"}
    BY DEF Verdict
  <2> QED
    BY <1>0, <1>4, <1>8, <2>2, <2>3, NextStep DEF Receive, Completed
<1>9. ASSUME NotCompleted(w) PROVE Inv'
  <2> DEFINE k == [runners[w] EXCEPT !.read = NoHistory,
                     !.stage = IF runners[w].attempt < Attempts THEN "pause" ELSE "last asked"]
  <2>1. runners[w] # NotRunning
    BY <1>4, <1>9 DEF Receive
  <2>2. runners[w].stage = "read" /\ runners[w].attempt \in 0..Attempts
    BY <1>0, <1>9 DEF NotCompleted, Fit, Runner
  <2>3. /\ k \in Runner /\ k.attempt = runners[w].attempt
        /\ k.kind = runners[w].kind /\ k.scenario = runners[w].scenario
        /\ k.id = runners[w].id
        /\ k.stage = IF runners[w].attempt < Attempts THEN "pause" ELSE "last asked"
    BY <1>0, <2>2, Histories DEF Fit, Runner, Stages
  <2> HIDE DEF k
  <2>6. Fit(k) /\ k # NotRunning /\ Linked(k, runs, last)
    <3>0. \A a \in 0..Attempts : a < Attempts \/ a = Attempts
      BY AttemptsAssumption
    <3>1. k.stage = "last asked" => k.attempt = Attempts
      BY <2>2, <2>3, <3>0
    <3>2. k.stage = "pause" => k.attempt < Attempts
      BY <2>3
    <3>3. Linked(k, runs, last)
      BY <1>0, <2>2, <2>3 DEF Linked
    <3> QED
      BY <1>0, <2>1, <2>3, <3>1, <3>2, <3>3, StillFit
  <2> USE DEF k
  <2>4. runners' = [runners EXCEPT ![w] = k]
    BY <1>9 DEF NotCompleted, Inv, FitAll
  <2>5. Typed'
    BY <1>0, <1>9 DEF NotCompleted, ShownTyped, FetchesTyped
  <2> HIDE DEF k
  <2> QED
    BY <1>9, <2>1, <2>3, <2>4, <2>5, <2>6, GoOnStep DEF NotCompleted
<1>10. ASSUME GiveUp(w) PROVE Inv'
  <2>1. runners[w].read \in History
    BY <1>0 DEF Fit, Runner
  <2>2. ShownTyped'
    <3>1. CASE SetHistory(Pending(runners[w].read))
      BY <2>1, <3>1, Histories, Showing
    <3>2. CASE missed' = TRUE /\ UNCHANGED <<history, timer>>
      BY <1>0, <3>2 DEF ShownTyped
    <3> QED
      BY <1>10, <3>1, <3>2 DEF GiveUp
  <2>3. Verdict("none") \in {"success", "failed"}
    BY DEF Verdict
  <2> QED
    BY <1>0, <1>4, <1>10, <2>2, <2>3, NextStep DEF Receive, GiveUp
<1> QED
  BY <1>2, <1>3, <1>5, <1>6, <1>7, <1>8, <1>9, <1>10 DEF Receive

(* The service: what is known of a run stays true.                         *)
LEMMA ServiceStep ==
  ASSUME Inv,
         \/ OtherRun \/ ServeClear \/ ServeHistory
         \/ \E i \in Ids, result \in Ended : UpdateRun(i, result)
         \/ \E w \in Runners : ServeRun(w)
  PROVE  Inv'
<1>0. Typed /\ FitAll(runners) /\ \A w \in Runners : Linked(runners[w], runs, last)
  BY DEF Inv, LinkedAll
<1> USE DEF Typed, ServerTyped, PageTyped, ClearTyped
<1>1. ASSUME CommitRun
      PROVE  /\ ServerTyped' /\ last' = last + 1 /\ last' \in 1..last'
             /\ \A w \in Runners : Linked(runners[w], runs', last')
  <2>1. last' = last + 1 /\ last' \in Ids /\ runs' = [runs EXCEPT ![last'] = "running"]
          /\ last \in Nat
    BY <1>0, <1>1, MaxRunsAssumption DEF CommitRun
  <2>2. ServerTyped'
    BY <1>0, <2>1 DEF History, Ended
  <2>4. last' \in 1..last'
    BY <2>1, MaxRunsAssumption
  <2>3. ASSUME NEW w \in Runners PROVE Linked(runners[w], runs', last')
    <3>1. runners[w].id \in 1..last => runners[w].id \in 1..last' /\ runners[w].id # last'
      BY <2>1
    <3>2. runners[w].id # last' => runs'[runners[w].id] = runs[runners[w].id]
      BY <1>0, <2>1 DEF History
    <3> QED
      BY <1>0, <3>1, <3>2 DEF Linked
  <2> QED
    BY <2>1, <2>2, <2>3, <2>4
<1>2. ASSUME OtherRun PROVE Inv'
  <2>1. CommitRun /\ UNCHANGED <<page, runners, fetches, clear>>
    BY <1>2 DEF OtherRun
  <2>2. Typed'
    BY <1>0, <1>1, <2>1 DEF page, shown, ShownTyped, FetchesTyped
  <2> QED
    BY <1>1, <2>1, <2>2 DEF Inv, LinkedAll, page
<1>3. ASSUME ServeClear PROVE Inv'
  <2>1. runs' = NoHistory /\ last' = last /\ UNCHANGED <<page, runners, fetches>>
    BY <1>3 DEF ServeClear
  <2>2. clear' \in {"served", "none"}
    BY <1>3 DEF ServeClear
  <2>3. Typed'
    BY <1>0, <2>1, <2>2, Histories DEF page, shown, ShownTyped, FetchesTyped
  <2>4. ASSUME NEW w \in Runners PROVE Linked(runners[w], runs', last)
    <3>1. runners[w].id \in 1..last => runs'[runners[w].id] = "none"
      BY <1>0, <2>1, MaxRunsAssumption DEF NoHistory
    <3> QED
      BY <1>0, <3>1 DEF Linked
  <2> QED
    BY <2>1, <2>3, <2>4 DEF Inv, LinkedAll, page
<1>4. ASSUME NEW i \in Ids, NEW result \in Ended, UpdateRun(i, result) PROVE Inv'
  <2>1. /\ runs[i] = "running" /\ runs' = [runs EXCEPT ![i] = result]
        /\ UNCHANGED <<last, page, runners, fetches, clear>>
    BY <1>4 DEF UpdateRun
  <2>2. Typed'
    BY <1>0, <2>1 DEF page, shown, ShownTyped, FetchesTyped, History
  <2>3. ASSUME NEW w \in Runners PROVE Linked(runners[w], runs', last)
    <3>1. runs[runners[w].id] # "running" => runs'[runners[w].id] = runs[runners[w].id]
      BY <1>0, <2>1 DEF History
    <3>2. runners[w].read[runners[w].id] \in Ended
            => runners[w].read[runners[w].id] # "running"
      BY DEF Ended
    <3> QED
      BY <1>0, <3>1, <3>2 DEF Linked
  <2> QED
    BY <2>1, <2>2, <2>3 DEF Inv, LinkedAll, page
<1>5. ASSUME NEW w \in Runners, ServeRun(w) PROVE Inv'
  <2> DEFINE k == [runners[w] EXCEPT !.stage = "started", !.id = last']
  <2>1. CommitRun /\ runners[w].stage = "post" /\ UNCHANGED <<page, fetches, clear>>
    BY <1>5 DEF ServeRun
  <2>2. runners' = [runners EXCEPT ![w] = k]
    BY <1>0, <1>5 DEF ServeRun, FitAll
  <2>3. Fit(runners[w]) /\ runners[w] # NotRunning /\ last' \in 0..MaxRuns
    BY <1>0, <1>1, <2>1, NotRunningIs DEF FitAll
  <2>4. /\ k \in Runner /\ k.stage = "started" /\ k.id = last' /\ k.attempt = 0
        /\ k.kind = runners[w].kind /\ k.scenario = runners[w].scenario
    BY <2>1, <2>3 DEF Fit, Runner, Stages
  <2> HIDE DEF k
  <2>5. Fit(k) /\ k # NotRunning /\ Linked(k, runs', last')
    BY <1>1, <2>1, <2>3, <2>4, StillFit DEF Linked
  <2>6. FitAll(runners') /\ Lone(runners', runningId, isRunningAll)
    BY <2>2, <2>3, <2>4, <2>5, GoesOn DEF Inv
  <2>7. LinkedAll(runners', runs', last')
    BY <1>0, <1>1, <2>1, <2>2, <2>5 DEF LinkedAll, FitAll
  <2>8. Typed'
    BY <1>0, <1>1, <2>1 DEF page, shown, ShownTyped, FetchesTyped
  <2> QED
    BY <2>1, <2>6, <2>7, <2>8 DEF Inv, page
<1>6. ASSUME NEW f \in Fetches,
             fetches' = [fetches EXCEPT ![f] = [stage |-> "read", read |-> Pending(runs)]],
             UNCHANGED <<server, page, runners, clear>>
      PROVE  Inv'
  <2>1. FetchesTyped'
    BY <1>0, <1>6, Histories DEF FetchesTyped
  <2> QED
    BY <1>0, <1>6, <2>1, SameRunners DEF server, page, shown, ShownTyped
<1>7. ASSUME NEW w \in Runners,
             runners[w].stage \in {"asked", "last asked"},
             runners' = [runners EXCEPT ![w].read = runs,
               ![w].stage = IF @ = "asked" THEN "read" ELSE "last read"],
             UNCHANGED <<server, page, fetches, clear>>
      PROVE  Inv'
  <2> DEFINE k == [runners[w] EXCEPT !.read = runs,
                     !.stage = IF runners[w].stage = "asked" THEN "read" ELSE "last read"]
  <2>1. runners' = [runners EXCEPT ![w] = k]
    BY <1>0, <1>7 DEF FitAll
  <2>2. Fit(runners[w]) /\ runners[w] # NotRunning /\ Linked(runners[w], runs, last)
    BY <1>0, <1>7, NotRunningIs DEF FitAll
  <2>3. /\ k \in Runner /\ k.read = runs /\ k.id = runners[w].id
        /\ k.attempt = runners[w].attempt
        /\ k.kind = runners[w].kind /\ k.scenario = runners[w].scenario
        /\ k.stage = IF runners[w].stage = "asked" THEN "read" ELSE "last read"
    BY <1>0, <2>2 DEF Fit, Runner, Stages
  <2> HIDE DEF k
  <2>4. Fit(k) /\ k # NotRunning
    <3>1. k.stage = "last read" => k.attempt = Attempts
      BY <1>7, <2>2, <2>3 DEF Fit
    <3> QED
      BY <2>2, <2>3, <3>1, StillFit
  <2>5. Linked(k, runs, last)
    BY <1>7, <2>2, <2>3 DEF Linked
  <2>6. Typed'
    BY <1>0, <1>7 DEF server, page, shown, ShownTyped, FetchesTyped
  <2> QED
    BY <1>7, <2>1, <2>2, <2>3, <2>4, <2>5, <2>6, GoOnStep DEF page
<1> QED
  BY <1>2, <1>3, <1>4, <1>5, <1>6, <1>7 DEF ServeHistory

-----------------------------------------------------------------------------
(* Nothing runs when the page is opened.                                   *)
LEMMA InvInit == Init => Inv
<1> SUFFICES ASSUME Init PROVE Inv
  OBVIOUS
<1>1. runners = [w \in Runners |-> NotRunning] /\ runningId = 0 /\ isRunningAll = FALSE
        /\ runs = NoHistory /\ last = 0 /\ results = NoResults /\ history = NoHistory
        /\ timer = FALSE /\ missed = FALSE /\ loadingHistory = TRUE /\ clear = "none"
  BY DEF Init
<1>2. \A w \in Runners : runners[w] = NotRunning
  BY <1>1
<1>3. Running(runners) = {}
  BY <1>2 DEF Running
<1>4. runners \in [Runners -> Runner]
  BY <1>1, NotRunningIs DEF Fit
<1>5. FitAll(runners) /\ Lone(runners, runningId, isRunningAll) /\ LinkedAll(runners, runs, last)
  BY <1>1, <1>2, <1>3, <1>4, NotRunningIs DEF FitAll, Lone, LinkedAll
<1>6. NoResults \in [Scenarios -> {"none", "success", "failed"}] /\ 0 \in 0..Last /\ 0 \in 0..MaxRuns
  BY LastAssumption, MaxRunsAssumption DEF NoResults
<1>7. ServerTyped /\ PageTyped /\ ShownTyped /\ ClearTyped
  BY <1>1, <1>6, Histories DEF ServerTyped, PageTyped, ShownTyped, ClearTyped
<1>8. FetchesTyped
  BY Histories DEF Init, NotFetching, FetchesTyped
<1> QED
  BY <1>5, <1>7, <1>8 DEF Inv, Typed

(* The invariant holds in every state.                                     *)
THEOREM Invariance == Spec => []Inv
<1>1. Inv /\ [Next]_vars => Inv'
  <2> SUFFICES ASSUME Inv, [Next]_vars PROVE Inv'
    OBVIOUS
  <2>1. CASE UNCHANGED vars
    <3>1. Typed'
      BY <2>1 DEF vars, server, page, shown, Inv, Typed, ServerTyped, PageTyped, ShownTyped,
        FetchesTyped, ClearTyped
    <3> QED
      BY <2>1, <3>1, SameRunners DEF vars, server, page
  <2>2. CASE Next
    BY <2>2, PageStep, RunStep, ServiceStep DEF Next
  <2> QED
    BY <2>1, <2>2
<1> QED
  BY InvInit, <1>1, PTL DEF Spec

(* Every variable keeps its type.                                          *)
THEOREM TypeCorrect == Spec => []TypeOK
<1>1. Inv => TypeOK
  BY DEF Inv, Typed, ServerTyped, PageTyped, ShownTyped, FetchesTyped, ClearTyped, FitAll,
    Runner, Stages, TypeOK
<1> QED
  BY Invariance, <1>1, PTL

(* One function runs scenarios, and the page knows at which one it is.     *)
THEOREM RunsAlone == Spec => []OneRunner
<1>1. Inv => OneRunner
  BY DEF Inv, Lone, Running, OneRunner
<1> QED
  BY Invariance, <1>1, PTL

(* The verdict of a scenario is about the run that it started: a run found *)
(* vulnerable counts as validated only when Run All gave up waiting.       *)
THEOREM VerdictsOwn == Spec => VerdictOfOwnRun
<1>1. ASSUME Inv, [Next]_vars, NEW w \in Runners, runners[w].kind = "all",
             results' # results, runners'[w] # runners[w],
             results'[runners[w].scenario] = "success", runs[runners[w].id] = "vulnerable"
      PROVE  runners[w].attempt = Attempts
  <2>1. Fit(runners[w]) /\ Linked(runners[w], runs, last) /\ runners[w] # NotRunning
          /\ runners[w].scenario \in Scenarios
    BY <1>1, NotRunningIs DEF Inv, FitAll, LinkedAll, Fit
  <2>2. results' # NoResults
    BY <1>1, <2>1 DEF NoResults
  <2>3. PICK v \in Runners : Started(v) \/ RunFails(v) \/ Completed(v) \/ GiveUp(v)
    BY <1>1, <2>2 DEF Next, vars, page, Receive, Remount, RefreshLogs, ResetLab, Poll,
      ClearHistory, HistoryCleared, ClearFails, OtherRun, ServeClear, ServeHistory, Fetched,
      FetchShown, FetchFails, UpdateRun, RunAllScenarios, ServeRun, RunSimulation, Wait,
      NotCompleted
  <2>4. runners[v] # NotRunning
    BY <2>3, NotRunningIs DEF Started, RunFails, Completed, GiveUp
  <2>5. v = w
    BY <1>1, <2>1, <2>4 DEF Inv, Lone, Running
  <2>6. results \in [Scenarios -> {"none", "success", "failed"}]
    BY <1>1 DEF Inv, Typed, PageTyped
  <2>7. ~Started(w)
    BY <1>1 DEF Started
  <2>8. ~RunFails(w)
    BY <1>1, <2>1, <2>6 DEF RunFails, NextScenario
  <2>9. ~Completed(w)
    <3> SUFFICES ASSUME Completed(w) PROVE FALSE
      OBVIOUS
    <3> DEFINE run == runners[w].read[runners[w].id]
    <3>1. runners[w].stage = "read" /\ run \in Ended /\ results' = [results EXCEPT ![runners[w].scenario] = Verdict(run)]
      BY DEF Completed, NextScenario
    <3>2. Verdict(run) = "success"
      BY <1>1, <2>1, <2>6, <3>1
    <3>3. run = "protected"
      BY <3>1, <3>2 DEF Verdict, Ended
    <3>4. runs[runners[w].id] \in {"protected", "none"}
      BY <2>1, <3>1, <3>3 DEF Linked
    <3> QED
      BY <1>1, <3>4
  <2>10. GiveUp(w)
    BY <2>3, <2>5, <2>7, <2>8, <2>9
  <2> QED
    BY <2>1, <2>10 DEF GiveUp, Fit
<1>2. Inv /\ [Next]_vars => [\A w \in Runners :
        LET run == runners[w]
        IN  run.kind = "all" /\ results' # results /\ runners'[w] # run
              /\ results'[run.scenario] = "success" /\ runs[run.id] = "vulnerable"
            => run.attempt = Attempts]_vars
  BY <1>1
<1> QED
  BY Invariance, <1>2, PTL DEF Spec, VerdictOfOwnRun

-----------------------------------------------------------------------------
(* Going forward: why Run All ends once its requests and pauses do *)

(* Where a function is within one attempt.                                 *)
Order(k) ==
  CASE k.stage \in {"post", "asked"} -> 1
    [] k.stage \in {"started", "read"} -> 2
    [] k.stage \in {"pause", "last asked"} -> 3
    [] OTHER -> 4

(* A later scenario, a later attempt, or a later stage; there are finitely *)
(* many of each.                                                           *)
Before(k, l) ==
  \/ k.scenario < l.scenario
  \/ k.scenario = l.scenario /\ k.attempt < l.attempt
  \/ k.scenario = l.scenario /\ k.attempt = l.attempt /\ Order(k) < Order(l)

(* A function only goes forward, or it ends and the page is told.          *)
Forward(w) ==
  \/ Before(runners[w], runners'[w]) /\ runners'[w].kind = runners[w].kind
  \/ runners'[w] = NotRunning /\ runningId' = 0 /\ ~isRunningAll'

GoesForward ==
  [][\A w \in Runners :
       runners[w] # NotRunning /\ runners'[w] # runners[w] => Forward(w)]_vars

(* A later stage of the same attempt is forward.                           *)
LEMMA LaterStage ==
  ASSUME NEW k, NEW l, l.scenario = k.scenario, l.attempt = k.attempt,
         \/ Order(k) = 1 /\ Order(l) = 2
         \/ Order(k) = 2 /\ Order(l) = 3
         \/ Order(k) = 3 /\ Order(l) = 4
  PROVE  Before(k, l)
BY DEF Before

(* The next scenario is a later one.                                       *)
LEMMA NextForward ==
  ASSUME Inv, NEW w \in Runners, runners[w] # NotRunning, NEW r, NEW loading,
         NextScenario(w, r, loading)
  PROVE  Forward(w)
<1> DEFINE s == runners[w].scenario + 1
<1>1. /\ runners \in [Runners -> Runner] /\ runners[w].kind \in {"one", "all"}
      /\ runners[w].scenario \in Nat
  <2>1. runners \in [Runners -> Runner] /\ runners[w].kind \in {"one", "all"}
          /\ runners[w].scenario \in Scenarios
    BY DEF Inv, FitAll, Fit
  <2> QED
    BY <2>1, LastAssumption
<1>2. CASE runners[w].kind = "one" \/ s > Last
  BY <1>1, <1>2 DEF NextScenario, Finish, Forward
<1>3. CASE ~(runners[w].kind = "one" \/ s > Last)
  <2>1. runners' = [runners EXCEPT ![w] = Beginning("all", s)]
    BY <1>3 DEF NextScenario, Beginning
  <2>2. Beginning("all", s).scenario = s /\ Beginning("all", s).kind = "all"
    BY DEF Beginning, NotRunning
  <2>3. runners'[w] = Beginning("all", s) /\ runners[w].scenario < s /\ runners[w].kind = "all"
    BY <1>1, <1>3, <2>1
  <2> QED
    BY <2>2, <2>3 DEF Forward, Before
<1> QED
  BY <1>2, <1>3

(* An answer, or the end of a pause, takes its function forward.           *)
LEMMA ReceiveForward ==
  ASSUME Inv, NEW w \in Runners, Receive(w)
  PROVE  Forward(w)
<1>1. Fit(runners[w]) /\ runners[w] \in Runner /\ runners \in [Runners -> Runner]
  BY DEF Inv, FitAll, Fit
<1>2. runners[w] # NotRunning
  BY NotRunningIs DEF Receive, Started, RunFails, Wait, Completed, NotCompleted, GiveUp
<1>3. CASE Started(w) /\ runners[w].kind # "one"
  <2>1. runners[w].stage = "started" /\ runners' = [runners EXCEPT ![w].stage = "pause"]
    BY <1>3 DEF Started
  <2>2. runners'[w] = [runners[w] EXCEPT !.stage = "pause"]
    BY <1>1, <2>1
  <2>3. /\ runners'[w].stage = "pause" /\ runners'[w].kind = runners[w].kind
        /\ runners'[w].scenario = runners[w].scenario
        /\ runners'[w].attempt = runners[w].attempt
    BY <1>1, <2>2 DEF Runner
  <2>4. Order(runners[w]) = 2 /\ Order(runners'[w]) = 3
    BY <2>1, <2>3 DEF Order
  <2> QED
    BY <2>3, <2>4, LaterStage DEF Forward
<1>4. CASE Wait(w)
  <2>1. runners'[w] = [runners[w] EXCEPT !.stage = "asked", !.attempt = runners[w].attempt + 1]
    BY <1>1, <1>4 DEF Wait
  <2>2. /\ runners'[w].kind = runners[w].kind
        /\ runners'[w].scenario = runners[w].scenario
        /\ runners'[w].attempt = runners[w].attempt + 1
    BY <1>1, <2>1 DEF Runner
  <2>3. runners[w].attempt \in Nat
    BY <1>1, AttemptsAssumption DEF Runner
  <2> QED
    BY <2>2, <2>3 DEF Forward, Before
<1>5. CASE NotCompleted(w)
  <2>1. runners[w].stage = "read" /\ runners'[w] = [runners[w] EXCEPT !.read = NoHistory,
          !.stage = IF runners[w].attempt < Attempts THEN "pause" ELSE "last asked"]
    BY <1>1, <1>5 DEF NotCompleted
  <2>2. /\ runners'[w].kind = runners[w].kind
        /\ runners'[w].scenario = runners[w].scenario
        /\ runners'[w].attempt = runners[w].attempt
        /\ runners'[w].stage \in {"pause", "last asked"}
    BY <1>1, <2>1 DEF Runner
  <2>3. Order(runners[w]) = 2 /\ Order(runners'[w]) = 3
    BY <2>1, <2>2 DEF Order
  <2>4. Before(runners[w], runners'[w])
    BY <2>2, <2>3, LaterStage
  <2> QED
    BY <2>2, <2>4 DEF Forward
<1>6. CASE \/ Started(w) /\ runners[w].kind = "one"
           \/ RunFails(w) \/ Completed(w) \/ GiveUp(w)
  <2>1. \E r, loading : NextScenario(w, r, loading)
    BY <1>6 DEF Started, RunFails, Completed, GiveUp
  <2> QED
    BY <1>2, <2>1, NextForward
<1> QED
  BY <1>3, <1>4, <1>5, <1>6 DEF Receive

(* So does an answer of the service.                                       *)
LEMMA ServeForward ==
  ASSUME Inv, NEW w \in Runners,
         \/ ServeRun(w)
         \/ /\ runners[w].stage \in {"asked", "last asked"}
            /\ runners' = [runners EXCEPT ![w].read = runs,
                 ![w].stage = IF @ = "asked" THEN "read" ELSE "last read"]
  PROVE  Forward(w)
<1>1. runners[w] \in Runner /\ runners \in [Runners -> Runner]
  BY DEF Inv, FitAll
<1> SUFFICES /\ runners'[w].kind = runners[w].kind
             /\ runners'[w].scenario = runners[w].scenario
             /\ runners'[w].attempt = runners[w].attempt
             /\ \/ Order(runners[w]) = 1 /\ Order(runners'[w]) = 2
                \/ Order(runners[w]) = 3 /\ Order(runners'[w]) = 4
  BY LaterStage DEF Forward
<1>2. CASE ServeRun(w)
  <2>1. runners[w].stage = "post"
          /\ runners'[w] = [runners[w] EXCEPT !.stage = "started", !.id = last']
    BY <1>1, <1>2 DEF ServeRun
  <2>2. /\ runners'[w].kind = runners[w].kind
        /\ runners'[w].scenario = runners[w].scenario
        /\ runners'[w].attempt = runners[w].attempt
        /\ runners'[w].stage = "started"
    BY <1>1, <2>1 DEF Runner
  <2>3. Order(runners[w]) = 1 /\ Order(runners'[w]) = 2
    BY <2>1, <2>2 DEF Order
  <2> QED
    BY <2>2, <2>3
<1>3. CASE /\ runners[w].stage \in {"asked", "last asked"}
           /\ runners' = [runners EXCEPT ![w].read = runs,
                ![w].stage = IF @ = "asked" THEN "read" ELSE "last read"]
  <2>1. runners'[w] = [runners[w] EXCEPT !.read = runs,
          !.stage = IF runners[w].stage = "asked" THEN "read" ELSE "last read"]
    BY <1>1, <1>3
  <2>2. /\ runners'[w].kind = runners[w].kind
        /\ runners'[w].scenario = runners[w].scenario
        /\ runners'[w].attempt = runners[w].attempt
        /\ runners'[w].stage = IF runners[w].stage = "asked" THEN "read" ELSE "last read"
    BY <1>1, <2>1 DEF Runner
  <2>3. CASE runners[w].stage = "asked"
    <3>1. runners'[w].stage = "read"
      BY <2>2, <2>3
    <3>2. Order(runners[w]) = 1 /\ Order(runners'[w]) = 2
      BY <2>3, <3>1 DEF Order
    <3> QED
      BY <2>2, <3>2
  <2>4. CASE runners[w].stage = "last asked"
    <3>1. runners'[w].stage = "last read"
      BY <2>2, <2>4
    <3>2. Order(runners[w]) = 3 /\ Order(runners'[w]) = 4
      BY <2>4, <3>1 DEF Order
    <3> QED
      BY <2>2, <3>2
  <2> QED
    BY <1>3, <2>3, <2>4
<1> QED
  BY <1>2, <1>3

(* The safety half of LabSettles: a function that runs scenarios never     *)
(* goes back.  Each of its steps takes it to a later scenario, attempt or  *)
(* stage, of which there are Last, Attempts and four, or ends it, and then *)
(* runningId and isRunningAll are reset in the same step; so Run All lasts *)
(* no longer than its requests and pauses do.                              *)
THEOREM RunsGoForward == Spec => GoesForward
<1>1. ASSUME Inv, [Next]_vars, NEW w \in Runners, runners[w] # NotRunning,
             runners'[w] # runners[w]
      PROVE  Forward(w)
  <2>0. runners \in [Runners -> Runner]
    BY <1>1 DEF Inv, FitAll
  <2>1. CASE Remount
    BY <2>1 DEF Remount, Forward
  <2>2. CASE \E v \in Runners : Receive(v)
    <3>1. PICK v \in Runners : Receive(v)
      BY <2>2
    <3>2. v = w
      BY <1>1, <2>0, <3>1 DEF Receive, Started, RunFails, Wait, Completed, NotCompleted, GiveUp,
        NextScenario, Finish
    <3> QED
      BY <1>1, <3>1, <3>2, ReceiveForward
  <2>3. CASE \E v \in Runners : ServeRun(v)
    <3>1. PICK v \in Runners : ServeRun(v)
      BY <2>3
    <3>2. v = w
      BY <1>1, <2>0, <3>1 DEF ServeRun
    <3> QED
      BY <1>1, <3>1, <3>2, ServeForward
  <2>4. CASE ServeHistory
    <3>1. PICK v \in Runners :
            /\ runners[v].stage \in {"asked", "last asked"}
            /\ runners' = [runners EXCEPT ![v].read = runs,
                 ![v].stage = IF @ = "asked" THEN "read" ELSE "last read"]
      BY <1>1, <2>4 DEF ServeHistory
    <3>2. v = w
      BY <1>1, <2>0, <3>1
    <3> QED
      BY <1>1, <3>1, <3>2, ServeForward
  <2>5. CASE \E v \in Runners : \/ RunAllScenarios(v)
                                \/ \E s \in Scenarios : RunSimulation(v, s)
    <3>1. PICK v \in Runners : runners[v] = NotRunning /\ \E k : runners' = [runners EXCEPT ![v] = k]
      BY <2>5 DEF RunAllScenarios, RunSimulation, Start
    <3> QED
      BY <1>1, <2>0, <3>1
  <2>6. runners' # runners
    BY <1>1
  <2> QED
    BY <1>1, <2>1, <2>2, <2>3, <2>4, <2>5, <2>6 DEF Next, vars, RefreshLogs, ResetLab, Poll,
      ClearHistory, HistoryCleared, ClearFails, OtherRun, ServeClear, Fetched, FetchShown,
      FetchFails, UpdateRun
<1>2. Inv /\ [Next]_vars =>
        [\A w \in Runners :
           runners[w] # NotRunning /\ runners'[w] # runners[w] => Forward(w)]_vars
  BY <1>1
<1> QED
  BY Invariance, <1>2, PTL DEF Spec, GoesForward

=============================================================================
