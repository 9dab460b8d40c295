---------------------- MODULE ListPagesCurrent_proofs ----------------------
(***************************************************************************)
(* Proof that a list page which has come to rest is up to date, for any    *)
(* rows, filters and number of requests.                                   *)
(***************************************************************************)
EXTENDS ListPages_proofs

(* What is reported as successful was carried out. *)
ToldDone == told \subseteq done

(* The page is up to date, and so are its memoised buttons. *)
Memo == \E act \in page.actions : act.memo
Current ==
  /\ list.filter = filter /\ told \subseteq list.seen
  /\ Memo => rowsFilter = filter

(* A function that will bring the page up to date. *)
Due(c) ==
  /\ calls[c].stage \in {"asked", "read"} /\ calls[c].filter = filter
  /\ calls[c].stage = "read" => told \subseteq calls[c].seen

(* The only function under way: it loads, or the page is up to date and an *)
(* action goes on.                                                         *)
Sole(c) ==
  /\ calls[c].stage # "free" /\ \A d \in Calls \ {c} : calls[d] = Free
  /\ \/ calls[c].stage = "expel"
     \/ Due(c)
     \/ Current /\ calls[c].stage \in {"sent", "served"} /\ calls[c].filter = filter
     \/ Current /\ calls[c].stage = "wait"
          /\ (calls[c].act.after = "leave" \/ calls[c].filter = filter)

(* The loads that the effects of a new page sent, one or several. *)
Firsts ==
  /\ told = {}
  /\ \A c \in Calls : \/ calls[c] = Free
                      \/ calls[c].act = Load /\ (calls[c].stage = "expel" \/ Due(c))
  /\ Current \/ \E c \in Calls : calls[c].stage # "free"

Resting == Alone /\ Current
Progress == Firsts \/ Resting \/ \E c \in Calls : Sole(c)
Watched == open /\ patient /\ ~timer
Quiet == Watched => Progress

-----------------------------------------------------------------------------
(* A free slot, and a load. *)
LEMMA FreeIs ==
  /\ Free.stage = "free" /\ Free.act = Load
  /\ \A f : [Free EXCEPT !.stage = "wait", !.filter = f].stage = "wait"
              /\ [Free EXCEPT !.stage = "wait", !.filter = f].filter = f
  /\ \A a : [Free EXCEPT !.act = a, !.stage = "wait"].stage = "wait"
              /\ [Free EXCEPT !.act = a, !.stage = "wait"].act = a
BY DEF Free

LEMMA AskingIs ==
  \A act, row, f : /\ Asking(act, row, f).stage = "asked" /\ Asking(act, row, f).filter = f
                   /\ Asking(act, row, f).act = act
BY DEF Asking

(* When nothing is under way the page is up to date. *)
LEMMA RestIsCurrent ==
  ASSUME Quiet, Watched, Alone
  PROVE  Current
BY FreeIs DEF Quiet, Progress, Firsts, Resting, Sole, Alone, NoCalls

(* What is known of a function under way. *)
LEMMA UnderWay ==
  ASSUME Quiet, Watched, NEW c \in Calls, calls[c].stage # "free"
  PROVE  Sole(c) \/ (Firsts /\ calls[c].act = Load /\ (calls[c].stage = "expel" \/ Due(c)))
BY FreeIs DEF Quiet, Progress, Firsts, Resting, Sole, Alone, NoCalls

(* A page that is closed is not watched. *)
LEMMA ClosedQuiet ==
  ASSUME Close
  PROVE  Quiet' /\ ToldDone'
BY DEF Close, Fresh, Quiet, Watched, ToldDone

(* A load that starts alone will bring the page up to date. *)
LEMMA LoadQuiet ==
  ASSUME Typed, NEW c \in Calls, NEW f, StartLoad(c, Load, None, f), filter' = f,
         patient' => \A d \in Calls \ {c} : calls[d] = Free
  PROVE  Quiet'
<1>1. calls'[c] = Asking(Load, None, f) /\ \A d \in Calls \ {c} : calls'[d] = calls[d]
  BY DEF StartLoad, Typed, GoodCalls
<1>2. patient' => Sole(c)'
  BY <1>1, AskingIs DEF Sole, Due
<1> QED
  BY <1>2 DEF Quiet, Watched, Progress

(* Nothing is under way but one function. *)
LEMMA OnlyOne ==
  ASSUME Alone
  PROVE  \A d \in Calls : calls[d] = Free
BY DEF Alone, NoCalls

-----------------------------------------------------------------------------
(* Every action keeps the reported rows among those carried out. *)
LEMMA ToldStep ==
  ASSUME Typed, RowsServed, ToldDone, [Next]_vars
  PROVE  ToldDone'
<1> USE DEF ToldDone, shown
<1>1. CASE Open
  BY <1>1 DEF Open, Fresh
<1>2. ASSUME Close PROVE ToldDone'
  BY <1>2, ClosedQuiet
<1>3. ASSUME NEW c \in Calls, Show(c) \/ LoadFails(c) \/ Expelled(c) \/ Wake(c) PROVE ToldDone'
  BY <1>2, <1>3 DEF Show, LoadFails, Expelled, Wake
<1>4. ASSUME NEW c \in Calls, Answered(c) PROVE ToldDone'
  <2>1. calls[c].stage = "served" /\ calls[c].row \in Rows
    BY <1>4 DEF Answered, Typed, GoodCalls, Good
  <2>2. calls[c].row # None
    BY <2>1, NoneAssumption
  <2>3. calls[c].act.after # "nothing" => calls[c].row \in done
    BY <2>1, <2>2 DEF RowsServed, Served
  <2>4. \/ told' = told
        \/ told' = told \cup {calls[c].row} /\ calls[c].act.after # "nothing"
    BY <1>4 DEF Answered
  <2>5. done' = done
    BY <1>4 DEF Answered
  <2> QED
    BY <2>3, <2>4, <2>5
<1>5. CASE \/ Leave
           \/ \E f \in Filters : SetFilter(f)
           \/ \E c \in Calls :
                \/ Refresh(c) \/ TimerFires(c) \/ Serve(c) \/ ReadList(c) \/ Expel(c) \/ ActionFails(c)
                \/ \E act \in Actions, r \in Rows : Act(c, act, r)
  BY <1>2, <1>5 DEF Leave, SetFilter, Refresh, TimerFires, Serve, ReadList, Expel, ActionFails, Act
<1>6. CASE UNCHANGED vars
  BY <1>6 DEF vars
<1> QED
  BY <1>1, <1>3, <1>4, <1>5, <1>6 DEF Next, Receive

(* Every action keeps a watched page on its way. *)
LEMMA QuietStep ==
  ASSUME Typed, ToldDone, Quiet, [Next]_vars
  PROVE  Quiet'
<1>0. calls \in [Calls -> Call]
  BY DEF Typed, GoodCalls
<1> USE DEF shown
<1>1. ASSUME Open PROVE Quiet'
  <2>1. CASE page.loads = "later"
    BY <1>1, <2>1 DEF Open, Quiet, Watched
  <2>2. CASE page.loads # "later"
    <3>1. PICK S \in SUBSET Calls :
            /\ Cardinality(S) \in 1..EffectRuns
            /\ Fresh([c \in Calls |-> IF c \in S THEN Asking(Load, None, Default) ELSE Free])
      BY <1>1, <2>2 DEF Open, FirstLoads
    <3>2. S # {}
      BY <3>1, FS_EmptySet, EffectRunsAssumption
    <3>3. /\ calls' = [c \in Calls |-> IF c \in S THEN Asking(Load, None, Default) ELSE Free]
          /\ told' = {} /\ filter' = Default
      BY <3>1 DEF Fresh
    <3>4. \A c \in Calls : \/ calls'[c] = Free
                           \/ calls'[c].act = Load /\ Due(c)'
      BY <3>3, AskingIs DEF Due
    <3>5. PICK c \in Calls : c \in S
      BY <3>2
    <3>6. calls'[c].stage # "free"
      BY <3>3, <3>5, AskingIs
    <3> QED
      BY <3>3, <3>4, <3>6 DEF Quiet, Progress, Firsts
  <2> QED
    BY <2>1, <2>2
<1>2. ASSUME Leave PROVE Quiet'
  BY <1>2, ClosedQuiet DEF Leave
<1>3. ASSUME NEW f \in Filters, SetFilter(f) PROVE Quiet'
  <2>1. CASE page.loads = "later"
    BY <1>3, <2>1 DEF SetFilter, Quiet, Watched
  <2>2. CASE page.loads # "later"
    <3>1. PICK c \in Calls : Idle(calls, c) /\ StartLoad(c, Load, None, f)
      BY <1>3, <2>2 DEF SetFilter
    <3>2. patient' = Alone /\ filter' = f
      BY <1>3, <2>2 DEF SetFilter
    <3> QED
      BY <3>1, <3>2, LoadQuiet, OnlyOne
  <2> QED
    BY <2>1, <2>2
<1>4. ASSUME NEW c \in Calls, Refresh(c) PROVE Quiet'
  BY <1>4, LoadQuiet, OnlyOne DEF Refresh
<1>5. ASSUME NEW c \in Calls, TimerFires(c) PROVE Quiet'
  BY <1>5, LoadQuiet, OnlyOne DEF TimerFires
<1>6. ASSUME NEW c \in Calls, Serve(c) PROVE Quiet'
  <2> SUFFICES ASSUME Watched PROVE Sole(c)'
    BY <1>6 DEF Quiet, Watched, Progress, Serve
  <2>1. Sole(c)
    BY <1>6, UnderWay DEF Serve, Due
  <2>2. Current /\ calls[c].filter = filter
    BY <1>6, <2>1 DEF Serve, Sole, Due
  <2>3. /\ calls'[c].stage = "served" /\ calls'[c].filter = calls[c].filter
        /\ \A d \in Calls \ {c} : calls'[d] = calls[d]
    BY <1>0, <1>6 DEF Serve, Call
  <2>4. Current' /\ filter' = filter
    BY <1>6, <2>2 DEF Serve, Current, Memo
  <2> QED
    BY <2>1, <2>2, <2>3, <2>4 DEF Sole
<1>7. ASSUME NEW c \in Calls, ReadList(c) PROVE Quiet'
  <2> SUFFICES ASSUME Watched PROVE Progress'
    BY <1>7 DEF Quiet, Watched, ReadList
  <2>1. /\ calls'[c].stage = "read" /\ calls'[c].filter = calls[c].filter
        /\ calls'[c].seen = done /\ calls'[c].act = calls[c].act
        /\ \A d \in Calls \ {c} : calls'[d] = calls[d]
        /\ filter' = filter /\ told' = told
    BY <1>0, <1>7 DEF ReadList, Call
  <2>2. Due(c)
    BY <1>7, UnderWay DEF ReadList, Sole, Due
  <2>3. Due(c)'
    BY <2>1, <2>2 DEF Due, ToldDone
  <2>4. CASE Sole(c)
    BY <2>1, <2>3, <2>4 DEF Sole, Progress
  <2>5. CASE Firsts /\ calls[c].act = Load
    <3>1. \A d \in Calls \ {c} : Due(d)' <=> Due(d)
      BY <2>1 DEF Due
    <3> QED
      BY <2>1, <2>3, <2>5, <3>1 DEF Firsts, Progress
  <2> QED
    BY <1>7, <2>4, <2>5, UnderWay DEF ReadList
<1>8. ASSUME NEW c \in Calls, Expel(c) PROVE Quiet'
  <2> SUFFICES ASSUME Watched PROVE Progress'
    BY <1>8 DEF Quiet, Watched, Expel
  <2>1. /\ calls'[c].stage = "expel" /\ calls'[c].act = calls[c].act
        /\ \A d \in Calls \ {c} : calls'[d] = calls[d]
        /\ filter' = filter /\ told' = told
    BY <1>0, <1>8 DEF Expel, Call
  <2>2. CASE Sole(c)
    BY <2>1, <2>2 DEF Sole, Progress
  <2>3. CASE Firsts /\ calls[c].act = Load
    <3>1. \A d \in Calls \ {c} : Due(d)' <=> Due(d)
      BY <2>1 DEF Due
    <3> QED
      BY <2>1, <2>3, <3>1 DEF Firsts, Progress
  <2> QED
    BY <1>8, <2>2, <2>3, UnderWay DEF Expel
<1>9. ASSUME NEW c \in Calls, Show(c) PROVE Quiet'
  <2>1. CASE calls[c].act.after = "reload and leave"
    BY <1>9, <2>1, ClosedQuiet DEF Show
  <2>2. CASE calls[c].act.after # "reload and leave"
    <3> SUFFICES ASSUME Watched PROVE Progress'
      BY <1>9, <2>2 DEF Quiet, Watched, Show
    <3>1. /\ list' = [filter |-> calls[c].filter, seen |-> calls[c].seen]
          /\ rowsFilter' = (IF Memo THEN filter ELSE Default)
          /\ filter' = filter /\ told' = told /\ page' = page
      BY <1>9, <2>2 DEF Show, MemoMade, Memo
    <3>2. calls' = [calls EXCEPT ![c] =
                     IF calls[c].act.after = "reload twice"
                       THEN [Free EXCEPT !.stage = "wait", !.filter = calls[c].filter] ELSE Free]
      BY <1>9, <2>2 DEF Show, End
    <3>3. Due(c)
      BY <1>9, UnderWay DEF Show, Sole, Due
    <3>4. Current'
      BY <1>9, <3>1, <3>3 DEF Current, Due, Memo, Show
    <3>5. \A d \in Calls \ {c} : calls'[d] = calls[d]
      BY <1>0, <3>2
    <3>6. CASE Sole(c)
      <4>1. CASE calls[c].act.after = "reload twice"
        <5>1. calls'[c].stage = "wait" /\ calls'[c].filter = filter
          BY <1>0, <3>2, <3>3, <4>1, FreeIs DEF Due
        <5> QED
          BY <3>1, <3>4, <3>5, <3>6, <5>1 DEF Sole, Progress
      <4>2. CASE calls[c].act.after # "reload twice"
        <5>1. calls'[c] = Free
          BY <1>0, <3>2, <4>2
        <5>2. \A d \in Calls : calls'[d] = Free
          BY <3>5, <3>6, <5>1 DEF Sole
        <5>3. calls' = NoCalls
          BY <1>0, <3>2, <5>2 DEF NoCalls
        <5> QED
          BY <3>4, <5>3 DEF Progress, Resting, Alone, NoCalls
      <4> QED
        BY <4>1, <4>2
    <3>7. CASE Firsts /\ calls[c].act = Load
      <4>1. calls'[c] = Free
        BY <1>0, <3>2, <3>7, LoadIs
      <4>2. \A d \in Calls \ {c} : Due(d)' <=> Due(d)
        BY <3>1, <3>5 DEF Due
      <4> QED
        BY <3>1, <3>4, <3>5, <3>7, <4>1, <4>2 DEF Firsts, Progress
    <3> QED
      BY <1>9, <3>6, <3>7, UnderWay DEF Show
  <2> QED
    BY <2>1, <2>2
<1>10. ASSUME NEW c \in Calls, LoadFails(c) PROVE Quiet'
  BY <1>10, ClosedQuiet DEF LoadFails, Quiet, Watched
<1>11. ASSUME NEW c \in Calls, Answered(c) PROVE Quiet'
  <2> SUFFICES ASSUME Watched PROVE Progress'
    BY <1>11 DEF Quiet, Watched, Answered
  <2>1. Sole(c) /\ Current /\ calls[c].filter = filter
    BY <1>11, UnderWay DEF Answered, Sole, Due
  <2>2. filter' = filter /\ page' = page
    BY <1>11 DEF Answered
  <2>3. CASE calls[c].act.after \in {"reload", "reload twice", "reload and leave"}
    <3>1. StartLoad(c, calls[c].act, calls[c].row, calls[c].filter)
      BY <1>11, <2>3 DEF Answered
    <3>2. calls'[c] = Asking(calls[c].act, calls[c].row, calls[c].filter)
            /\ \A d \in Calls \ {c} : calls'[d] = calls[d]
      BY <1>0, <3>1 DEF StartLoad
    <3>3. Sole(c)'
      BY <2>1, <2>2, <3>2, AskingIs DEF Sole, Due
    <3> QED
      BY <3>3 DEF Progress
  <2>4. CASE calls[c].act.after \notin {"reload", "reload twice", "reload and leave"}
    <3>1. calls' = [calls EXCEPT ![c] =
            IF calls[c].act.after = "leave"
              THEN [Free EXCEPT !.act = calls[c].act, !.stage = "wait"] ELSE Free]
      BY <1>11, <2>4 DEF Answered
    <3>2. rowsFilter' = (IF Memo THEN filter ELSE Default) \/ rowsFilter' = rowsFilter
      BY <1>11, <2>4 DEF Answered, MemoMade, RowsMade, Memo
    <3>3. \/ list' = list /\ told' = told
          \/ list' = [list EXCEPT !.seen = list.seen \cup {calls[c].row}]
               /\ told' = told \cup {calls[c].row}
      BY <1>11, <2>4 DEF Answered
    <3>4. list'.filter = list.filter /\ told' \subseteq list'.seen
      BY <2>1, <3>3 DEF Current, Typed, TypeOK
    <3>5. Current'
      BY <2>1, <2>2, <3>2, <3>4 DEF Current, Memo
    <3>6. \A d \in Calls \ {c} : calls'[d] = Free
      BY <1>0, <2>1, <3>1 DEF Sole
    <3>7. CASE calls[c].act.after = "leave"
      <4>1. calls'[c].stage = "wait" /\ calls'[c].act.after = "leave"
        BY <1>0, <3>1, <3>7, FreeIs
      <4> QED
        BY <3>5, <3>6, <4>1 DEF Sole, Progress
    <3>8. CASE calls[c].act.after # "leave"
      <4>1. calls'[c] = Free
        BY <1>0, <3>1, <3>8
      <4>2. calls' = NoCalls
        BY <1>0, <3>1, <3>6, <4>1 DEF NoCalls
      <4> QED
        BY <3>5, <4>2 DEF Progress, Resting, Alone, NoCalls
    <3> QED
      BY <3>7, <3>8
  <2> QED
    BY <2>3, <2>4
<1>12. ASSUME NEW c \in Calls, ActionFails(c) PROVE Quiet'
  <2> SUFFICES ASSUME Watched PROVE Progress'
    BY <1>12 DEF Quiet, Watched, ActionFails
  <2>1. Sole(c) /\ Current
    BY <1>12, UnderWay DEF ActionFails, Sole, Due
  <2>2. calls' = [calls EXCEPT ![c] = Free]
    BY <1>12 DEF ActionFails
  <2>3. calls' = NoCalls
    BY <1>0, <2>1, <2>2 DEF Sole, NoCalls
  <2>4. Current'
    BY <1>12, <2>1 DEF ActionFails, Current, Memo, RowsMade, MemoMade
  <2> QED
    BY <2>3, <2>4 DEF Progress, Resting, Alone, NoCalls
<1>13. ASSUME NEW c \in Calls, Expelled(c) PROVE Quiet'
  BY <1>13, ClosedQuiet DEF Expelled
<1>14. ASSUME NEW c \in Calls, Wake(c) PROVE Quiet'
  <2>1. CASE calls[c].act.after = "leave"
    BY <1>14, <2>1, ClosedQuiet DEF Wake
  <2>2. CASE calls[c].act.after # "leave"
    <3>1. StartLoad(c, Load, None, calls[c].filter)
            /\ patient' = (patient /\ calls = [NoCalls EXCEPT ![c] = calls[c]])
            /\ UNCHANGED <<open, filter, timer>>
      BY <1>14, <2>2 DEF Wake
    <3> SUFFICES ASSUME Watched' PROVE Progress'
      BY DEF Quiet
    <3>2. Watched /\ calls = [NoCalls EXCEPT ![c] = calls[c]]
      BY <3>1, patient \in BOOLEAN DEF Watched, Typed, TypeOK
    <3>3. Sole(c) /\ calls[c].filter = filter
      BY <1>14, <2>2, <3>2, UnderWay DEF Wake, Sole, Due
    <3>4. Quiet'
      BY <3>1, <3>3, LoadQuiet DEF Sole
    <3> QED
      BY <3>4 DEF Quiet
  <2> QED
    BY <2>1, <2>2
<1>15. ASSUME NEW c \in Calls, NEW act \in Actions, NEW r \in Rows, Act(c, act, r) PROVE Quiet'
  <2> SUFFICES ASSUME Watched' PROVE Sole(c)'
    BY DEF Quiet, Progress
  <2>1. Watched /\ Alone
    BY <1>15 DEF Act, Watched
  <2>2. Current
    BY <2>1, RestIsCurrent
  <2>3. (IF act.memo THEN rowsFilter ELSE filter) = filter
    BY <1>15, <2>2 DEF Act, Current, Memo
  <2>4. calls' = [calls EXCEPT ![c] =
                   [act |-> act, stage |-> "sent", row |-> r, seen |-> {}, filter |-> filter]]
    BY <1>15, <2>3 DEF Act
  <2>5. calls'[c].stage = "sent" /\ calls'[c].filter = filter
          /\ \A d \in Calls \ {c} : calls'[d] = Free
    BY <1>0, <2>1, <2>4, OnlyOne
  <2>6. Current' /\ filter' = filter
    BY <1>15, <2>2 DEF Act, Current, Memo, RowsMade, MemoMade
  <2> QED
    BY <2>5, <2>6 DEF Sole
<1>16. CASE UNCHANGED vars
  BY <1>16 DEF vars, Quiet, Watched, Progress, Firsts, Resting, Sole, Due, Current, Memo, Alone,
    NoCalls
<1> QED
  BY <1>1, <1>2, <1>3, <1>4, <1>5, <1>6, <1>7, <1>8, <1>9, <1>10, <1>11, <1>12, <1>13, <1>14, <1>15, <1>16
  DEF Next, Receive

-----------------------------------------------------------------------------
(* A page at rest shows the list of its filter, with every action it has   *)
(* reported, unless its last load overlapped with something or failed.     *)
THEOREM QuietPagesCurrent == Spec => []QuietPageIsCurrent
<1>1. Init => ToldDone /\ Quiet
  BY DEF Init, ToldDone, Quiet, Watched
<1>2. Inv /\ ToldDone /\ Quiet /\ [Next]_vars => ToldDone' /\ Quiet'
  BY ToldStep, QuietStep DEF Inv
<1>3. Inv /\ Quiet => QuietPageIsCurrent
  BY RestIsCurrent DEF QuietPageIsCurrent, Watched, Current
<1> QED
  BY Invariance, <1>1, <1>2, <1>3, PTL DEF Spec

=============================================================================
