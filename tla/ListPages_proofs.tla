------------------------- MODULE ListPages_proofs -------------------------
(***************************************************************************)
(* Proofs about ListPages, for any rows, filters and number of requests.   *)
(***************************************************************************)
EXTENDS ListPages, FiniteSetTheorems, TLAPS

(* What the proofs need to know of an action. *)
Kind(act) ==
  /\ act.slot \in Slots
  /\ act.after \in {"nothing", "reload", "reload twice", "update", "leave", "reload and leave"}
  /\ act.after = "leave" => act.slot = "row"

(* Every action is of that kind. *)
LEMMA ActionsAre == \A act \in Actions : Kind(act)
<1> USE DEF Kind, Slots, Action
<1>1. Kind(Approve) /\ Kind(Reject) /\ Kind(CreateUser) /\ Kind(DeleteUser) /\ Kind(Generate)
        /\ Kind(Download)
  BY DEF Approve, Reject, CreateUser, DeleteUser, Generate, Download
<1>2. Kind(SaveProduct) /\ Kind(DeleteProduct) /\ Kind(Upload) /\ Kind(Verify) /\ Kind(RemoveFile)
        /\ Kind(DeleteLog)
  BY DEF SaveProduct, DeleteProduct, Upload, Verify, RemoveFile, DeleteLog
<1>3. Kind(DismissAlert) /\ Kind(DeleteRisk) /\ Kind(RequestProduct) /\ Kind(QuickReport)
        /\ Kind(SaveTelegram)
  BY DEF DismissAlert, DeleteRisk, RequestProduct, QuickReport, SaveTelegram
<1> QED
  BY <1>1, <1>2, <1>3 DEF Actions

(* A load is not one of them. *)
LEMMA LoadIs == Load.slot = "none" /\ Load.after = "nothing" /\ Load \notin Actions
BY ActionsAre DEF Load, Action, Kind, Slots

(* A page offers actions only. *)
LEMMA PagesOffer == \A p \in Pages : p.actions \subseteq Actions
BY DEF Pages, Page, Actions, Orders, Users, Reports, Products, SecureFileVault, MyFiles, MyOrders,
  UserProducts, AuditLogs, SecurityCenter, UserDashboard, AdminDashboard, Settings

(* A waiting function; one whose request is out has an action and a row.   *)
Good(k) ==
  /\ k \in Call
  /\ k.stage \in {"sent", "served"} => k.act \in Actions /\ k.row \in Rows

GoodCalls == calls \in [Calls -> Call] /\ \A c \in Calls : Good(calls[c])

Typed == TypeOK /\ GoodCalls

(* A function that does not wait, and one that loads a list, are good. *)
LEMMA FreeGood == Good(Free) /\ NoCalls \in [Calls -> Call] /\ \A c \in Calls : Good(NoCalls[c])
BY DEF Good, Free, Call, Stages, NoCalls

LEMMA AskingGood ==
  \A act \in Actions \cup {Load}, row \in Rows \cup {None}, f \in Filters \cup {None} :
    Good(Asking(act, row, f))
BY DEF Good, Asking, Call, Stages

(* Replacing one function by a good one keeps all good. *)
LEMMA Replaced ==
  ASSUME GoodCalls, NEW c \in Calls, NEW k, Good(k), calls' = [calls EXCEPT ![c] = k]
  PROVE  GoodCalls'
<1>1. calls' \in [Calls -> Call]
  BY DEF GoodCalls, Good
<1>2. ASSUME NEW d \in Calls PROVE Good(calls'[d])
  BY DEF GoodCalls
<1> QED
  BY <1>1, <1>2 DEF GoodCalls

(* The page of the next state is typed when it is closed. *)
LEMMA Closed == ASSUME Typed, Close PROVE Typed'
BY FreeGood, DefaultAssumption
DEF Close, Fresh, Typed, TypeOK, GoodCalls, NoSlots, NoList, Slots

(* The initial state has the types of the variables. *)
LEMMA TypedInit == Init => Typed
<1> SUFFICES ASSUME Init PROVE Typed
  OBVIOUS
<1>1. GoodCalls
  BY FreeGood DEF Init, GoodCalls
<1>2. slots \in [Slots -> Rows \cup {None}]
  BY DEF Init, NoSlots
<1>3. list \in [filter : Filters \cup {None}, seen : SUBSET Rows]
  BY DEF Init, NoList
<1>4. /\ page \in Pages /\ open \in BOOLEAN
      /\ filter \in Filters /\ rowsFilter \in Filters
      /\ timer \in BOOLEAN /\ isLoading \in BOOLEAN
      /\ done \subseteq Rows /\ told \subseteq Rows /\ patient \in BOOLEAN
  BY DefaultAssumption DEF Init
<1> QED
  BY <1>1, <1>2, <1>3, <1>4 DEF Typed, TypeOK, GoodCalls

(* Every action keeps the types. *)
LEMMA TypedStep ==
  ASSUME Typed, [Next]_vars
  PROVE  Typed'
<1> USE DefaultAssumption DEF Typed, TypeOK, shown, GoodCalls, Alone
<1>1. ASSUME Open PROVE Typed'
  <2>1. ASSUME NEW S \in SUBSET Calls,
               calls' = [d \in Calls |-> IF d \in S THEN Asking(Load, None, Default) ELSE Free]
        PROVE  GoodCalls'
    BY <2>1, FreeGood, AskingGood, DefaultAssumption DEF GoodCalls, Good
  <2>2. GoodCalls'
    BY <1>1, <2>1, FreeGood DEF Open, Fresh, FirstLoads, GoodCalls
  <2> QED
    <3>1. PICK cs : Fresh(cs)
      BY <1>1 DEF Open
    <3>2. slots' \in [Slots -> Rows \cup {None}]
            /\ list' \in [filter : Filters \cup {None}, seen : SUBSET Rows]
      BY <3>1 DEF Fresh, NoSlots, NoList
    <3>3. /\ filter' \in Filters /\ rowsFilter' \in Filters /\ page' = page
          /\ done' \subseteq Rows /\ told' \subseteq Rows /\ patient' \in BOOLEAN
      BY <3>1 DEF Fresh
    <3>4. open' \in BOOLEAN /\ timer' \in BOOLEAN /\ isLoading' \in BOOLEAN
      BY <1>1 DEF Open
    <3> QED
      BY <2>2, <3>2, <3>3, <3>4
<1>2. ASSUME Leave PROVE Typed'
  BY <1>2, Closed DEF Leave
<1>3. ASSUME NEW f \in Filters, SetFilter(f) PROVE Typed'
  <2>1. GoodCalls'
    BY <1>3, AskingGood, Replaced DEF SetFilter, StartLoad, GoodCalls
  <2> QED
    BY <1>3, <2>1 DEF SetFilter, StartLoad
<1>4. ASSUME NEW c \in Calls, Refresh(c) PROVE Typed'
  <2>1. GoodCalls'
    BY <1>4, AskingGood, Replaced DEF Refresh, StartLoad
  <2> QED
    BY <1>4, <2>1 DEF Refresh, StartLoad
<1>5. ASSUME NEW c \in Calls, TimerFires(c) PROVE Typed'
  <2>1. GoodCalls'
    BY <1>5, AskingGood, Replaced DEF TimerFires, StartLoad
  <2> QED
    BY <1>5, <2>1 DEF TimerFires, StartLoad
<1>6. ASSUME NEW c \in Calls, Serve(c) PROVE Typed'
  <2>1. GoodCalls' /\ calls[c].row \in Rows
    BY <1>6 DEF Serve, GoodCalls, Good, Call, Stages
  <2> QED
    BY <1>6, <2>1 DEF Serve
<1>7. ASSUME NEW c \in Calls, ReadList(c) PROVE Typed'
  <2>1. Good([calls[c] EXCEPT !.stage = "read", !.seen = done])
    BY DEF Good, Call, Stages
  <2>2. GoodCalls'
    BY <1>7, <2>1, Replaced DEF ReadList
  <2> QED
    BY <1>7, <2>2 DEF ReadList
<1>8. ASSUME NEW c \in Calls, Expel(c) PROVE Typed'
  <2>1. GoodCalls'
    BY <1>8 DEF Expel, GoodCalls, Good, Call, Stages
  <2> QED
    BY <1>8, <2>1 DEF Expel
<1>9. ASSUME NEW c \in Calls, Show(c) PROVE Typed'
  <2>1. CASE calls[c].act.after = "reload and leave"
    BY <1>9, <2>1, Closed DEF Show
  <2>2. CASE calls[c].act.after # "reload and leave"
    <3>1. Good([Free EXCEPT !.stage = "wait", !.filter = calls[c].filter])
      BY DEF Good, GoodCalls, Free, Call, Stages
    <3>2. GoodCalls'
      BY <1>9, <2>2, <3>1, FreeGood, Replaced DEF Show, End
    <3>3. list' \in [filter : Filters \cup {None}, seen : SUBSET Rows]
      <4>1. calls[c].filter \in Filters \cup {None} /\ calls[c].seen \in SUBSET Rows
        BY calls[c] \in Call DEF Call
      <4>2. list' = [filter |-> calls[c].filter, seen |-> calls[c].seen] \/ list' = list
        BY <1>9, <2>2 DEF Show
      <4> QED
        BY <4>1, <4>2
    <3> QED
      BY <1>9, <2>2, <3>2, <3>3 DEF Show, End, Released, MemoMade, RowsMade
  <2> QED
    BY <2>1, <2>2
<1>10. ASSUME NEW c \in Calls, LoadFails(c) PROVE Typed'
  <2>1. CASE calls[c].act.after = "reload and leave"
    BY <1>10, <2>1, Closed DEF LoadFails
  <2>2. CASE calls[c].act.after # "reload and leave"
    <3>1. Good([Free EXCEPT !.stage = "wait", !.filter = calls[c].filter])
      BY DEF Good, GoodCalls, Free, Call, Stages
    <3>2. GoodCalls'
      BY <1>10, <2>2, <3>1, FreeGood, Replaced DEF LoadFails, End
    <3>3. list' \in [filter : Filters \cup {None}, seen : SUBSET Rows]
      <4>1. calls[c].filter \in Filters \cup {None} /\ calls[c].seen \in SUBSET Rows
        BY calls[c] \in Call DEF Call
      <4>2. list' = [filter |-> calls[c].filter, seen |-> calls[c].seen] \/ list' = list
        BY <1>10, <2>2 DEF LoadFails
      <4> QED
        BY <4>1, <4>2
    <3> QED
      BY <1>10, <2>2, <3>2, <3>3 DEF LoadFails, End, Released, MemoMade, RowsMade
  <2> QED
    BY <2>1, <2>2
<1>11. ASSUME NEW c \in Calls, Answered(c) PROVE Typed'
  <2>1. calls[c].act \in Actions /\ calls[c].row \in Rows /\ calls[c].filter \in Filters \cup {None}
    BY <1>11 DEF Answered, GoodCalls, Good, Call
  <2>2. Good(Asking(calls[c].act, calls[c].row, calls[c].filter))
    BY <2>1, AskingGood
  <2>3. Good([Free EXCEPT !.act = calls[c].act, !.stage = "wait"])
    BY <2>1 DEF Good, Free, Call, Stages
  <2>4. GoodCalls'
    BY <1>11, <2>2, <2>3, FreeGood, Replaced DEF Answered, StartLoad
  <2>5. list' \in [filter : Filters \cup {None}, seen : SUBSET Rows]
    BY <1>11, <2>1 DEF Answered
  <2> QED
    BY <1>11, <2>1, <2>4, <2>5 DEF Answered, StartLoad, Released, MemoMade, RowsMade
<1>12. ASSUME NEW c \in Calls, ActionFails(c) PROVE Typed'
  <2>1. GoodCalls'
    BY <1>12, FreeGood, Replaced DEF ActionFails
  <2> QED
    BY <1>12, <2>1 DEF ActionFails, Released, MemoMade, RowsMade
<1>13. ASSUME NEW c \in Calls, Expelled(c) PROVE Typed'
  BY <1>13, Closed DEF Expelled
<1>14. ASSUME NEW c \in Calls, Wake(c) PROVE Typed'
  <2>1. CASE calls[c].act.after = "leave"
    BY <1>14, <2>1, Closed DEF Wake
  <2>2. CASE calls[c].act.after # "leave"
    <3>1. Good(Asking(Load, None, calls[c].filter))
      BY AskingGood DEF GoodCalls, Call
    <3>2. GoodCalls'
      BY <1>14, <2>2, <3>1, Replaced DEF Wake, StartLoad
    <3> QED
      BY <1>14, <2>2, <3>2 DEF Wake, StartLoad
  <2> QED
    BY <2>1, <2>2
<1>15. ASSUME NEW c \in Calls, NEW act \in Actions, NEW r \in Rows, Act(c, act, r) PROVE Typed'
  <2> DEFINE k == [act |-> act, stage |-> "sent", row |-> r, seen |-> {},
                   filter |-> IF act.memo THEN rowsFilter ELSE filter]
  <2>1. Good(k)
    BY DEF Good, Call, Stages
  <2>2. GoodCalls'
    BY <1>15, <2>1, Replaced DEF Act
  <2> QED
    BY <1>15, <2>2, PagesOffer, ActionsAre DEF Act, Kind, MemoMade, RowsMade
<1>16. CASE UNCHANGED vars
  BY <1>16 DEF vars
<1> QED
  BY <1>1, <1>2, <1>3, <1>4, <1>5, <1>6, <1>7, <1>8, <1>9, <1>10, <1>11, <1>12, <1>13, <1>14, <1>15, <1>16
  DEF Next, Receive

(* A function of a form, from the click to its end. *)
Form(c) == calls[c].act.slot = "form" /\ calls[c].stage # "wait"

OneForm ==
  /\ \A c \in Calls : Form(c) => slots["form"] # None
  /\ slots["form"] # None => \E c \in Calls : Form(c)
  /\ \A c, d \in Calls : Form(c) /\ Form(d) => c = d

(* What replacing one function leaves alone. *)
Only(c) == \A d \in Calls \ {c} : calls'[d] = calls[d]

(* Every step but opening and closing touches one function.  It goes on,   *)
(* begins, or ends with its slot empty.                                    *)
Step(c) ==
  /\ Only(c)
  /\ \/ /\ calls'[c].act = calls[c].act /\ calls'[c].row = calls[c].row
        /\ calls[c].stage # "wait" /\ calls'[c].stage # "wait"
        /\ slots' = slots
     \/ /\ calls[c].act.slot = "none" \/ calls[c].stage = "wait"
        /\ calls'[c].act.slot = "none" \/ calls'[c].stage = "wait"
        /\ slots' = slots
     \/ /\ calls[c] = Free /\ calls'[c].stage = "sent"
        /\ calls'[c].act \in Actions /\ calls'[c].row \in Rows
        /\ ~Disabled(calls'[c].act, calls'[c].row)
        /\ slots' = [slots EXCEPT ![calls'[c].act.slot] = calls'[c].row]
     \/ /\ calls[c].act \in Actions /\ calls[c].stage # "wait"
        /\ calls'[c].act.slot = "none" \/ calls'[c].stage = "wait"
        /\ slots' = [slots EXCEPT ![calls[c].act.slot] = None]

(* The steps that open or close the page, and those of one function. *)
LEMMA Steps ==
  ASSUME Typed, [Next]_vars
  PROVE  \/ Open \/ Close
         \/ \E c \in Calls : Step(c)
         \/ calls' = calls /\ slots' = slots
<1> USE NoneAssumption, LoadIs
  DEF Typed, TypeOK, GoodCalls, Free, Asking, Idle
<1> DEFINE Goal == \/ Open \/ Close
                   \/ \E c \in Calls : Step(c)
                   \/ calls' = calls /\ slots' = slots
<1>1. ASSUME Open PROVE Goal
  BY <1>1 DEF Open
<1>2. ASSUME Leave PROVE Goal
  BY <1>2 DEF Leave
<1>3. ASSUME NEW f \in Filters, SetFilter(f) PROVE Goal
  <2>1. ASSUME NEW c \in Calls, Idle(calls, c), StartLoad(c, Load, None, f), UNCHANGED slots
        PROVE  Step(c)
    BY <2>1 DEF StartLoad, Step, Only
  <2> QED
    BY <1>3, <2>1 DEF SetFilter
<1>4. ASSUME NEW c \in Calls, Refresh(c) PROVE Goal
  <2>1. Step(c)
    BY <1>4 DEF Refresh, StartLoad, Step, Only
  <2> QED
    BY <2>1
<1>5. ASSUME NEW c \in Calls, TimerFires(c) PROVE Goal
  <2>1. Step(c)
    BY <1>5 DEF TimerFires, StartLoad, Step, Only
  <2> QED
    BY <2>1
<1>6. ASSUME NEW c \in Calls, Serve(c) PROVE Goal
  <2>1. Step(c)
    BY <1>6 DEF Serve, Step, Only
  <2> QED
    BY <2>1
<1>7. ASSUME NEW c \in Calls, ReadList(c) PROVE Goal
  <2>1. Step(c)
    BY <1>7 DEF ReadList, Step, Only
  <2> QED
    BY <2>1
<1>8. ASSUME NEW c \in Calls, Expel(c) PROVE Goal
  <2>1. Step(c)
    BY <1>8 DEF Expel, Step, Only
  <2> QED
    BY <2>1
<1>9. ASSUME NEW c \in Calls, Show(c) PROVE Goal
  <2>1. CASE calls[c].act.after = "reload and leave"
    BY <1>9, <2>1 DEF Show
  <2>2. CASE calls[c].act.after # "reload and leave"
    <3>1. calls'[c].act = Load /\ Only(c)
      <4>1. calls' = [calls EXCEPT ![c] =
                       IF calls[c].act.after = "reload twice"
                         THEN [Free EXCEPT !.stage = "wait", !.filter = calls[c].filter] ELSE Free]
        BY <1>9, <2>2 DEF Show, End
      <4>2. Only(c)
        BY <4>1 DEF Only
      <4>3. Free.act = Load /\ [Free EXCEPT !.stage = "wait", !.filter = calls[c].filter].act = Load
        BY DEF Free
      <4> HIDE DEF Free
      <4> QED
        BY <4>1, <4>2, <4>3
    <3>2. slots' = Released(calls[c].act) /\ calls[c].stage # "wait"
      BY <1>9, <2>2 DEF Show, End
    <3>3. calls[c].act \in Actions \cup {Load}
      BY calls[c] \in Call DEF Call
    <3>4. CASE calls[c].act = Load
      BY <3>1, <3>2, <3>4 DEF Released, Step
    <3>5. CASE calls[c].act \in Actions
      <4>1. calls[c].act.slot # "none"
        BY <3>5, ActionsAre DEF Kind, Slots
      <4> QED
        BY <3>1, <3>2, <3>5, <4>1 DEF Released, Step
    <3> QED
      BY <3>3, <3>4, <3>5
  <2> QED
    BY <2>1, <2>2
<1>10. ASSUME NEW c \in Calls, LoadFails(c) PROVE Goal
  <2>1. CASE calls[c].act.after = "reload and leave"
    BY <1>10, <2>1 DEF LoadFails
  <2>2. CASE calls[c].act.after # "reload and leave"
    <3>1. calls'[c].act = Load /\ Only(c)
      <4>1. calls' = [calls EXCEPT ![c] =
                       IF calls[c].act.after = "reload twice"
                         THEN [Free EXCEPT !.stage = "wait", !.filter = calls[c].filter] ELSE Free]
        BY <1>10, <2>2 DEF LoadFails, End
      <4>2. Only(c)
        BY <4>1 DEF Only
      <4>3. Free.act = Load /\ [Free EXCEPT !.stage = "wait", !.filter = calls[c].filter].act = Load
        BY DEF Free
      <4> HIDE DEF Free
      <4> QED
        BY <4>1, <4>2, <4>3
    <3>2. slots' = Released(calls[c].act) /\ calls[c].stage # "wait"
      BY <1>10, <2>2 DEF LoadFails, End
    <3>3. calls[c].act \in Actions \cup {Load}
      BY calls[c] \in Call DEF Call
    <3>4. CASE calls[c].act = Load
      BY <3>1, <3>2, <3>4 DEF Released, Step
    <3>5. CASE calls[c].act \in Actions
      <4>1. calls[c].act.slot # "none"
        BY <3>5, ActionsAre DEF Kind, Slots
      <4> QED
        BY <3>1, <3>2, <3>5, <4>1 DEF Released, Step
    <3> QED
      BY <3>3, <3>4, <3>5
  <2> QED
    BY <2>1, <2>2
<1>11. ASSUME NEW c \in Calls, Answered(c) PROVE Goal
  <2>1. calls[c].act \in Actions /\ calls[c].act.slot \in Slots
    BY <1>11, ActionsAre DEF Answered, Good, Kind
  <2>2. Step(c)
    <3>1. Only(c) /\ calls[c].stage = "served"
      BY <1>11 DEF Answered, StartLoad, Only
    <3>2. CASE calls[c].act.after \in {"reload", "reload twice", "reload and leave"}
      <4>1. calls' = [calls EXCEPT ![c] = Asking(calls[c].act, calls[c].row, calls[c].filter)]
              /\ slots' = slots
        BY <1>11, <3>2 DEF Answered, StartLoad
      <4> QED
        BY <3>1, <4>1 DEF Step
    <3>3. CASE calls[c].act.after \notin {"reload", "reload twice", "reload and leave"}
      <4>1. slots' = Released(calls[c].act)
        BY <1>11, <3>3 DEF Answered
      <4>2. calls'[c].act.slot = "none" \/ calls'[c].stage = "wait"
        <5>1. calls' = [calls EXCEPT ![c] =
                IF calls[c].act.after = "leave"
                  THEN [Free EXCEPT !.act = calls[c].act, !.stage = "wait"] ELSE Free]
          BY <1>11, <3>3 DEF Answered
        <5> QED
          BY <5>1
      <4> QED
        BY <2>1, <3>1, <4>1, <4>2 DEF Released, Step, Slots
    <3> QED
      BY <3>2, <3>3
  <2> QED
    BY <2>2
<1>12. ASSUME NEW c \in Calls, ActionFails(c) PROVE Goal
  <2>1. calls[c].act \in Actions /\ calls[c].act.slot \in Slots
    BY <1>12, ActionsAre DEF ActionFails, Good, Kind
  <2>2. Step(c)
    BY <1>12, <2>1 DEF ActionFails, Released, Step, Only, Slots
  <2> QED
    BY <2>2
<1>13. ASSUME NEW c \in Calls, Expelled(c) PROVE Goal
  BY <1>13 DEF Expelled
<1>14. ASSUME NEW c \in Calls, Wake(c) PROVE Goal
  <2>1. CASE calls[c].act.after = "leave"
    BY <1>14, <2>1 DEF Wake
  <2>2. CASE calls[c].act.after # "leave"
    <3>1. Step(c)
      BY <1>14, <2>2 DEF Wake, StartLoad, Step, Only
    <3> QED
      BY <3>1
  <2> QED
    BY <2>1, <2>2
<1>15. ASSUME NEW c \in Calls, NEW act \in Actions, NEW r \in Rows, Act(c, act, r) PROVE Goal
  <2>1. Step(c)
    BY <1>15 DEF Act, Step, Only
  <2> QED
    BY <2>1
<1>16. CASE UNCHANGED vars
  BY <1>16 DEF vars, shown
<1> QED
  BY <1>1, <1>2, <1>3, <1>4, <1>5, <1>6, <1>7, <1>8, <1>9, <1>10, <1>11, <1>12, <1>13, <1>14, <1>15, <1>16
  DEF Next, Receive

(* A page that is being opened or closed has no action under way. *)
LEMMA NoneUnderWay ==
  ASSUME Typed, Open \/ Close
  PROVE  slots' = NoSlots /\ \A c \in Calls : calls'[c].act = Load
<1>1. CASE Close
  BY <1>1 DEF Close, Fresh, NoCalls, Free
<1>2. CASE Open
  <2>1. PICK cs \in {NoCalls} \cup FirstLoads : Fresh(cs)
    BY <1>2 DEF Open
  <2>2. \A c \in Calls : cs[c].act = Load
    BY DEF FirstLoads, NoCalls, Free, Asking
  <2> QED
    BY <2>1, <2>2 DEF Fresh
<1> QED
  BY <1>1, <1>2

(* The flag of a form keeps saying whether a function of it is under way. *)
LEMMA FormStep == ASSUME Typed, Typed', OneForm, [Next]_vars PROVE OneForm'
<1> USE NoneAssumption, LoadIs
<1>1. CASE Open \/ Close
  BY <1>1, NoneUnderWay DEF OneForm, Form, NoSlots, Slots
<1>2. ASSUME NEW c \in Calls, Step(c) PROVE OneForm'
  <2>1. \A d \in Calls \ {c} : Form(d)' <=> Form(d)
    BY <1>2 DEF Step, Only, Form
  <2>2. slots \in [Slots -> Rows \cup {None}] /\ Slots = {"row", "check", "form"}
    BY DEF Typed, TypeOK, Slots
  <2>3. CASE /\ calls'[c].act = calls[c].act /\ calls[c].stage # "wait"
             /\ calls'[c].stage # "wait" /\ slots' = slots
    BY <2>1, <2>3 DEF OneForm, Form
  <2>4. CASE /\ calls[c].act.slot = "none" \/ calls[c].stage = "wait"
             /\ calls'[c].act.slot = "none" \/ calls'[c].stage = "wait"
             /\ slots' = slots
    BY <2>1, <2>4 DEF OneForm, Form
  <2>5. CASE /\ calls[c] = Free /\ calls'[c].stage = "sent"
             /\ calls'[c].act \in Actions /\ calls'[c].row \in Rows
             /\ ~Disabled(calls'[c].act, calls'[c].row)
             /\ slots' = [slots EXCEPT ![calls'[c].act.slot] = calls'[c].row]
    <3>1. calls'[c].act.slot \in Slots /\ calls[c].act = Load
      <4>1. Kind(calls'[c].act)
        BY <2>5, ActionsAre
      <4>2. Free.act = Load
        BY DEF Free
      <4> QED
        BY <2>5, <4>1, <4>2 DEF Kind
    <3>2. CASE calls'[c].act.slot = "form"
      BY <2>1, <2>2, <2>5, <3>1, <3>2 DEF OneForm, Form, Disabled
    <3>3. CASE calls'[c].act.slot # "form"
      BY <2>1, <2>2, <2>5, <3>1, <3>3 DEF OneForm, Form
    <3> QED
      BY <3>2, <3>3
  <2>6. CASE /\ calls[c].act \in Actions /\ calls[c].stage # "wait"
             /\ calls'[c].act.slot = "none" \/ calls'[c].stage = "wait"
             /\ slots' = [slots EXCEPT ![calls[c].act.slot] = None]
    <3>1. calls[c].act.slot \in Slots
      BY <2>6, ActionsAre DEF Kind
    <3>2. CASE calls[c].act.slot = "form"
      BY <2>1, <2>2, <2>6, <3>1, <3>2 DEF OneForm, Form
    <3>3. CASE calls[c].act.slot # "form"
      BY <2>1, <2>2, <2>6, <3>1, <3>3 DEF OneForm, Form
    <3> QED
      BY <3>2, <3>3
  <2> QED
    BY <1>2, <2>3, <2>4, <2>5, <2>6 DEF Step
<1>3. CASE calls' = calls /\ slots' = slots
  BY <1>3 DEF OneForm, Form
<1> QED
  BY <1>1, <1>2, <1>3, Steps

(* A row stays disabled only while an action on it is under way. *)
LEMMA RowStep == ASSUME Typed, Typed', DisabledRowBusy, [Next]_vars PROVE DisabledRowBusy'
<1> USE NoneAssumption, LoadIs
<1>1. CASE Open \/ Close
  BY <1>1, NoneUnderWay DEF DisabledRowBusy, NoSlots, Slots
<1>2. ASSUME NEW c \in Calls, Step(c) PROVE DisabledRowBusy'
  <2>1. slots \in [Slots -> Rows \cup {None}] /\ Slots = {"row", "check", "form"}
    BY DEF Typed, TypeOK, Slots
  <2> SUFFICES ASSUME NEW s \in {"row", "check"}, NEW r \in Rows, slots'[s] = r
               PROVE  \E d \in Calls : /\ calls'[d].act.slot = s /\ calls'[d].row = r
                                       /\ calls'[d].stage # "wait"
    BY DEF DisabledRowBusy
  <2>2. CASE slots[s] = r /\ slots' = slots
    <3>1. PICK d \in Calls : calls[d].act.slot = s /\ calls[d].row = r /\ calls[d].stage # "wait"
      BY <2>2 DEF DisabledRowBusy
    <3>2. CASE d = c
      <4>1. calls'[c].act = calls[c].act /\ calls'[c].row = calls[c].row /\ calls'[c].stage # "wait"
        <5>1. calls[c].act.slot = s /\ calls[c].act.slot # "none" /\ slots[calls[c].act.slot] # None
          BY <2>2, <3>1, <3>2
        <5>2. calls[c] # Free
          BY <5>1 DEF Free
        <5>3. slots' # [slots EXCEPT ![calls[c].act.slot] = None]
          BY <2>1, <2>2, <5>1
        <5> QED
          BY <1>2, <3>1, <3>2, <5>1, <5>2, <5>3 DEF Step
      <4> QED
        BY <3>1, <3>2, <4>1
    <3>3. CASE d # c
      BY <1>2, <3>1, <3>3 DEF Step, Only
    <3> QED
      BY <3>2, <3>3
  <2>3. CASE /\ calls[c] = Free /\ calls'[c].stage = "sent"
             /\ calls'[c].act \in Actions /\ calls'[c].row \in Rows
             /\ slots' = [slots EXCEPT ![calls'[c].act.slot] = calls'[c].row]
    <3>1. CASE calls'[c].act.slot = s
      BY <2>1, <2>3, <3>1
    <3>2. CASE calls'[c].act.slot # s
      <4>1. slots[s] = r
        BY <2>1, <2>3, <3>2
      <4>2. PICK d \in Calls : calls[d].act.slot = s /\ calls[d].row = r /\ calls[d].stage # "wait"
        BY <4>1 DEF DisabledRowBusy
      <4>3. d # c
        BY <2>3, <4>2 DEF Free
      <4> QED
        BY <1>2, <4>2, <4>3 DEF Step, Only
    <3> QED
      BY <3>1, <3>2
  <2>4. CASE /\ calls[c].act \in Actions
             /\ slots' = [slots EXCEPT ![calls[c].act.slot] = None]
    <3>1. calls[c].act.slot # s /\ slots[s] = r
      BY <2>1, <2>4
    <3>2. PICK d \in Calls : calls[d].act.slot = s /\ calls[d].row = r /\ calls[d].stage # "wait"
      BY <3>1 DEF DisabledRowBusy
    <3> QED
      BY <1>2, <3>1, <3>2 DEF Step, Only
  <2> QED
    BY <1>2, <2>2, <2>3, <2>4 DEF Step
<1>3. CASE calls' = calls /\ slots' = slots
  BY <1>3 DEF DisabledRowBusy
<1> QED
  BY <1>1, <1>2, <1>3, Steps

(* A spinner keeps its load. *)
LEMMA SpinnerStep ==
  ASSUME Typed, SpinnerHasLoad, [Next]_vars
  PROVE  SpinnerHasLoad'
<1> USE DEF SpinnerHasLoad, GoodCalls, Typed
<1>1. ASSUME Open PROVE SpinnerHasLoad'
  <2>1. CASE page.loads = "later"
    BY <1>1, <2>1 DEF Open
  <2>2. CASE page.loads # "later"
    <3>1. PICK cs \in FirstLoads : Fresh(cs)
      BY <1>1, <2>2 DEF Open
    <3>2. PICK S \in SUBSET Calls :
             /\ Cardinality(S) \in 1..EffectRuns
             /\ cs = [c \in Calls |-> IF c \in S THEN Asking(Load, None, Default) ELSE Free]
      BY <3>1 DEF FirstLoads
    <3>3. PICK c \in Calls : c \in S
      <4>1. Cardinality({}) = 0
        BY FS_EmptySet
      <4>2. S # {}
        BY <3>2, <4>1
      <4> QED
        BY <4>2
    <3>4. calls'[c].stage = "asked"
      BY <3>1, <3>2, <3>3 DEF Fresh, Asking
    <3> QED
      BY <3>4
  <2> QED
    BY <2>1, <2>2
<1>2. ASSUME Leave PROVE SpinnerHasLoad'
  BY <1>2 DEF Leave, Close
<1>3. ASSUME NEW f \in Filters, SetFilter(f) PROVE SpinnerHasLoad'
  <2>1. CASE page.loads = "later"
    BY <1>3, <2>1 DEF SetFilter
  <2>2. CASE page.loads # "later"
    <3>1. PICK c \in Calls : StartLoad(c, Load, None, f)
      BY <1>3, <2>2 DEF SetFilter
    <3>2. calls'[c].stage = "asked"
      BY <3>1 DEF StartLoad, Asking
    <3> QED
      BY <3>2
  <2> QED
    BY <2>1, <2>2
<1>4. ASSUME NEW c \in Calls, Refresh(c) PROVE SpinnerHasLoad'
  <2>1. calls'[c].stage = "asked"
    BY <1>4 DEF Refresh, StartLoad, Asking
  <2> QED
    BY <2>1
<1>5. ASSUME NEW c \in Calls, TimerFires(c) PROVE SpinnerHasLoad'
  <2>1. calls'[c].stage = "asked"
    BY <1>5 DEF TimerFires, StartLoad, Asking
  <2> QED
    BY <2>1
<1>6. ASSUME NEW c \in Calls, Serve(c) PROVE SpinnerHasLoad'
  <2>1. \A d \in Calls \ {c} : calls'[d] = calls[d]
    BY <1>6 DEF Serve
  <2>2. calls[c].stage \in {"asked", "read", "expel"} => calls'[c].stage \in {"asked", "read", "expel"}
    BY <1>6 DEF Serve, Idle, Free
  <2>3. open' = open /\ isLoading' = isLoading /\ timer' = timer
    BY <1>6 DEF Serve
  <2> QED
    BY <2>1, <2>2, <2>3
<1>7. ASSUME NEW c \in Calls, ReadList(c) PROVE SpinnerHasLoad'
  <2>1. \A d \in Calls \ {c} : calls'[d] = calls[d]
    BY <1>7 DEF ReadList
  <2>2. calls[c].stage \in {"asked", "read", "expel"} => calls'[c].stage \in {"asked", "read", "expel"}
    BY <1>7 DEF ReadList, Idle, Free
  <2>3. open' = open /\ isLoading' = isLoading /\ timer' = timer
    BY <1>7 DEF ReadList
  <2> QED
    BY <2>1, <2>2, <2>3
<1>8. ASSUME NEW c \in Calls, Expel(c) PROVE SpinnerHasLoad'
  <2>1. \A d \in Calls \ {c} : calls'[d] = calls[d]
    BY <1>8 DEF Expel
  <2>2. calls[c].stage \in {"asked", "read", "expel"} => calls'[c].stage \in {"asked", "read", "expel"}
    BY <1>8 DEF Expel, Idle, Free
  <2>3. open' = open /\ isLoading' = isLoading /\ timer' = timer
    BY <1>8 DEF Expel
  <2> QED
    BY <2>1, <2>2, <2>3
<1>9. ASSUME NEW c \in Calls, Show(c) PROVE SpinnerHasLoad'
  BY <1>9 DEF Show, Close
<1>10. ASSUME NEW c \in Calls, LoadFails(c) PROVE SpinnerHasLoad'
  BY <1>10 DEF LoadFails, Close
<1>11. ASSUME NEW c \in Calls, Answered(c) PROVE SpinnerHasLoad'
  <2>1. CASE calls[c].act.after \in {"reload", "reload twice", "reload and leave"}
    <3>1. StartLoad(c, calls[c].act, calls[c].row, calls[c].filter)
      BY <1>11, <2>1 DEF Answered
    <3>2. calls'[c].stage = "asked"
      BY <3>1 DEF StartLoad, Asking
    <3> QED
      BY <3>2
  <2>2. CASE calls[c].act.after \notin {"reload", "reload twice", "reload and leave"}
    <3>1. \A d \in Calls \ {c} : calls'[d] = calls[d]
      BY <1>11, <2>2 DEF Answered
    <3>2. calls[c].stage = "served" /\ open' = open /\ isLoading' = isLoading /\ timer' = timer
      BY <1>11, <2>2 DEF Answered
    <3> QED
      BY <3>1, <3>2
  <2> QED
    BY <2>1, <2>2
<1>12. ASSUME NEW c \in Calls, ActionFails(c) PROVE SpinnerHasLoad'
  <2>1. \A d \in Calls \ {c} : calls'[d] = calls[d]
    BY <1>12 DEF ActionFails
  <2>2. calls[c].stage \in {"asked", "read", "expel"} => calls'[c].stage \in {"asked", "read", "expel"}
    BY <1>12 DEF ActionFails, Idle, Free
  <2>3. open' = open /\ isLoading' = isLoading /\ timer' = timer
    BY <1>12 DEF ActionFails
  <2> QED
    BY <2>1, <2>2, <2>3
<1>13. ASSUME NEW c \in Calls, Expelled(c) PROVE SpinnerHasLoad'
  BY <1>13 DEF Expelled, Close
<1>14. ASSUME NEW c \in Calls, Wake(c) PROVE SpinnerHasLoad'
  <2>1. CASE calls[c].act.after = "leave"
    BY <1>14, <2>1 DEF Wake, Close
  <2>2. CASE calls[c].act.after # "leave"
    <3>1. calls'[c].stage = "asked"
      BY <1>14, <2>2 DEF Wake, StartLoad, Asking
    <3> QED
      BY <3>1
  <2> QED
    BY <2>1, <2>2
<1>15. ASSUME NEW c \in Calls, NEW act \in Actions, NEW r \in Rows, Act(c, act, r) PROVE SpinnerHasLoad'
  <2>1. \A d \in Calls \ {c} : calls'[d] = calls[d]
    BY <1>15 DEF Act
  <2>2. calls[c].stage \in {"asked", "read", "expel"} => calls'[c].stage \in {"asked", "read", "expel"}
    BY <1>15 DEF Act, Idle, Free
  <2>3. open' = open /\ isLoading' = isLoading /\ timer' = timer
    BY <1>15 DEF Act
  <2> QED
    BY <2>1, <2>2, <2>3
<1>16. CASE UNCHANGED vars
  BY <1>16 DEF vars, shown
<1> QED
  BY <1>1, <1>2, <1>3, <1>4, <1>5, <1>6, <1>7, <1>8, <1>9, <1>10, <1>11, <1>12, <1>13, <1>14, <1>15, <1>16
  DEF Next, Receive

(* The row of an action: carried out when its request has been served or  *)
(* its list is asked for, and part of that list once the list was read.    *)
Served(k, rows) ==
  /\ k.stage = "asked" => k.row \in rows
  /\ k.stage = "served" /\ k.act.after # "nothing" => k.row \in rows
  /\ k.stage = "read" => k.row \in k.seen

RowsServed == \A c \in Calls : calls[c].row # None => Served(calls[c], done)

(* Replacing one function by one that is served keeps all served while the *)
(* rows carried out only grow.                                             *)
LEMMA ReplacedServed ==
  ASSUME RowsServed, done \subseteq done', NEW c \in Calls,
         \A d \in Calls \ {c} : calls'[d] = calls[d],
         calls'[c].row # None => Served(calls'[c], done')
  PROVE  RowsServed'
BY DEF RowsServed, Served

(* A page that is closed has no row under way. *)
LEMMA CloseServed == ASSUME Close PROVE RowsServed'
BY DEF Close, Fresh, NoCalls, Free, RowsServed

(* Every action keeps the rows served. *)
LEMMA RowsStep ==
  ASSUME Typed, RowsServed, [Next]_vars
  PROVE  RowsServed'
<1> USE DEF RowsServed, GoodCalls, Typed
<1>1. ASSUME Open PROVE RowsServed'
  <2>1. PICK cs \in {NoCalls} \cup FirstLoads : Fresh(cs)
    BY <1>1 DEF Open
  <2>2. \A c \in Calls : cs[c].row = None
    BY DEF FirstLoads, NoCalls, Free, Asking
  <2> QED
    BY <2>1, <2>2 DEF Fresh
<1>2. ASSUME Leave PROVE RowsServed'
  BY <1>2, CloseServed DEF Leave
<1>3. ASSUME NEW f \in Filters, SetFilter(f) PROVE RowsServed'
  <2>1. CASE page.loads = "later"
    BY <1>3, <2>1 DEF SetFilter, Served
  <2>2. CASE page.loads # "later"
    <3>1. PICK c \in Calls : StartLoad(c, Load, None, f)
      BY <1>3, <2>2 DEF SetFilter
    <3>2. calls'[c].row = None /\ \A d \in Calls \ {c} : calls'[d] = calls[d]
      BY <3>1 DEF StartLoad, Asking
    <3>3. done' = done
      BY <1>3 DEF SetFilter
    <3> QED
      BY <3>2, <3>3, ReplacedServed
  <2> QED
    BY <2>1, <2>2
<1>4. ASSUME NEW c \in Calls, Refresh(c) PROVE RowsServed'
  <2>1. calls'[c].row = None /\ \A d \in Calls \ {c} : calls'[d] = calls[d]
    BY <1>4 DEF Refresh, StartLoad, Asking
  <2>2. done' = done
    BY <1>4 DEF Refresh
  <2> QED
    BY <2>1, <2>2, ReplacedServed
<1>5. ASSUME NEW c \in Calls, TimerFires(c) PROVE RowsServed'
  <2>1. calls'[c].row = None /\ \A d \in Calls \ {c} : calls'[d] = calls[d]
    BY <1>5 DEF TimerFires, StartLoad, Asking
  <2>2. done' = done
    BY <1>5 DEF TimerFires
  <2> QED
    BY <2>1, <2>2, ReplacedServed
<1>6. ASSUME NEW c \in Calls, Serve(c) PROVE RowsServed'
  <2>1. done \subseteq done' /\ \A d \in Calls \ {c} : calls'[d] = calls[d]
    BY <1>6 DEF Serve
  <2>2. calls'[c].stage = "served"
    BY <1>6 DEF Serve, Call
  <2>3. calls'[c].row # None => Served(calls'[c], done')
    BY <1>6, <2>2 DEF Serve, Served, Call
  <2> QED
    BY <2>1, <2>3, ReplacedServed
<1>7. ASSUME NEW c \in Calls, ReadList(c) PROVE RowsServed'
  <2>1. done \subseteq done' /\ \A d \in Calls \ {c} : calls'[d] = calls[d]
    BY <1>7 DEF ReadList
  <2>2. calls'[c].stage = "read"
    BY <1>7 DEF ReadList, Call
  <2>3. calls'[c].row # None => Served(calls'[c], done')
    BY <1>7, <2>2 DEF ReadList, Served, Call
  <2> QED
    BY <2>1, <2>3, ReplacedServed
<1>8. ASSUME NEW c \in Calls, Expel(c) PROVE RowsServed'
  <2>1. done \subseteq done' /\ \A d \in Calls \ {c} : calls'[d] = calls[d]
    BY <1>8 DEF Expel
  <2>2. calls'[c].stage = "expel"
    BY <1>8 DEF Expel, Call
  <2>3. calls'[c].row # None => Served(calls'[c], done')
    BY <1>8, <2>2 DEF Expel, Served, Call
  <2> QED
    BY <2>1, <2>3, ReplacedServed
<1>9. ASSUME NEW c \in Calls, Show(c) PROVE RowsServed'
  <2>1. CASE calls[c].act.after = "reload and leave"
    BY <1>9, <2>1, CloseServed DEF Show
  <2>2. CASE calls[c].act.after # "reload and leave"
    <3>1. calls' = [calls EXCEPT ![c] =
                     IF calls[c].act.after = "reload twice"
                       THEN [Free EXCEPT !.stage = "wait", !.filter = calls[c].filter] ELSE Free]
      BY <1>9, <2>2 DEF Show, End
    <3>2. Free.row = None /\ [Free EXCEPT !.stage = "wait", !.filter = calls[c].filter].row = None
      BY DEF Free
    <3>3. calls'[c].row = None /\ \A d \in Calls \ {c} : calls'[d] = calls[d]
      BY <3>1, <3>2
    <3>4. done' = done
      BY <1>9, <2>2 DEF Show
    <3> QED
      BY <3>3, <3>4, ReplacedServed
  <2> QED
    BY <2>1, <2>2
<1>10. ASSUME NEW c \in Calls, LoadFails(c) PROVE RowsServed'
  <2>1. CASE calls[c].act.after = "reload and leave"
    BY <1>10, <2>1, CloseServed DEF LoadFails
  <2>2. CASE calls[c].act.after # "reload and leave"
    <3>1. calls' = [calls EXCEPT ![c] =
                     IF calls[c].act.after = "reload twice"
                       THEN [Free EXCEPT !.stage = "wait", !.filter = calls[c].filter] ELSE Free]
      BY <1>10, <2>2 DEF LoadFails, End
    <3>2. Free.row = None /\ [Free EXCEPT !.stage = "wait", !.filter = calls[c].filter].row = None
      BY DEF Free
    <3>3. calls'[c].row = None /\ \A d \in Calls \ {c} : calls'[d] = calls[d]
      BY <3>1, <3>2
    <3>4. done' = done
      BY <1>10, <2>2 DEF LoadFails
    <3> QED
      BY <3>3, <3>4, ReplacedServed
  <2> QED
    BY <2>1, <2>2
<1>11. ASSUME NEW c \in Calls, Answered(c) PROVE RowsServed'
  <2>1. calls[c].stage = "served" /\ done' = done
    BY <1>11 DEF Answered
  <2>2. CASE calls[c].act.after \in {"reload", "reload twice", "reload and leave"}
    <3>1. StartLoad(c, calls[c].act, calls[c].row, calls[c].filter)
      BY <1>11, <2>2 DEF Answered
    <3>2. calls'[c] = Asking(calls[c].act, calls[c].row, calls[c].filter)
            /\ \A d \in Calls \ {c} : calls'[d] = calls[d]
      BY <3>1 DEF StartLoad
    <3>3. calls[c].row # None => calls[c].row \in done
      BY <2>1, <2>2 DEF Served
    <3>4. calls'[c].row # None => Served(calls'[c], done')
      BY <2>1, <3>2, <3>3 DEF Served, Asking
    <3> QED
      BY <2>1, <3>2, <3>4, ReplacedServed
  <2>3. CASE calls[c].act.after \notin {"reload", "reload twice", "reload and leave"}
    <3>1. calls' = [calls EXCEPT ![c] =
            IF calls[c].act.after = "leave"
              THEN [Free EXCEPT !.act = calls[c].act, !.stage = "wait"] ELSE Free]
      BY <1>11, <2>3 DEF Answered
    <3>2. Free.row = None /\ [Free EXCEPT !.act = calls[c].act, !.stage = "wait"].row = None
      BY DEF Free
    <3>3. calls'[c].row = None /\ \A d \in Calls \ {c} : calls'[d] = calls[d]
      BY <3>1, <3>2
    <3> QED
      BY <2>1, <3>3, ReplacedServed
  <2> QED
    BY <2>2, <2>3
<1>12. ASSUME NEW c \in Calls, ActionFails(c) PROVE RowsServed'
  <2>1. calls'[c].row = None /\ \A d \in Calls \ {c} : calls'[d] = calls[d]
    BY <1>12 DEF ActionFails, Free
  <2>2. done' = done
    BY <1>12 DEF ActionFails
  <2> QED
    BY <2>1, <2>2, ReplacedServed
<1>13. ASSUME NEW c \in Calls, Expelled(c) PROVE RowsServed'
  BY <1>13, CloseServed DEF Expelled
<1>14. ASSUME NEW c \in Calls, Wake(c) PROVE RowsServed'
  <2>1. CASE calls[c].act.after = "leave"
    BY <1>14, <2>1, CloseServed DEF Wake
  <2>2. CASE calls[c].act.after # "leave"
    <3>1. calls'[c].row = None /\ \A d \in Calls \ {c} : calls'[d] = calls[d]
      BY <1>14, <2>2 DEF Wake, StartLoad, Asking
    <3>2. done' = done
      BY <1>14, <2>2 DEF Wake
    <3> QED
      BY <3>1, <3>2, ReplacedServed
  <2> QED
    BY <2>1, <2>2
<1>15. ASSUME NEW c \in Calls, NEW act \in Actions, NEW r \in Rows, Act(c, act, r) PROVE RowsServed'
  <2>1. done \subseteq done' /\ \A d \in Calls \ {c} : calls'[d] = calls[d]
    BY <1>15 DEF Act
  <2>2. calls'[c].stage = "sent"
    BY <1>15 DEF Act, Call
  <2>3. calls'[c].row # None => Served(calls'[c], done')
    BY <1>15, <2>2 DEF Act, Served, Call
  <2> QED
    BY <2>1, <2>3, ReplacedServed
<1>16. CASE UNCHANGED vars
  BY <1>16 DEF vars, Served
<1> QED
  BY <1>1, <1>2, <1>3, <1>4, <1>5, <1>6, <1>7, <1>8, <1>9, <1>10, <1>11, <1>12, <1>13, <1>14, <1>15, <1>16
  DEF Next, Receive

(* The inductive invariant. *)
Inv == Typed /\ OneForm /\ DisabledRowBusy /\ SpinnerHasLoad /\ RowsServed

(* It holds in every state. *)
THEOREM Invariance == Spec => []Inv
<1>1. Init => Inv
  <2> SUFFICES ASSUME Init PROVE Inv
    OBVIOUS
  <2>1. Typed
    BY TypedInit
  <2>2. \A c \in Calls : calls[c] = Free
    BY DEF Init, NoCalls
  <2>3. \A s \in Slots : slots[s] = None
    BY DEF Init, NoSlots
  <2>4. OneForm /\ DisabledRowBusy
    BY <2>2, <2>3, LoadIs, NoneAssumption DEF OneForm, Form, DisabledRowBusy, Free, Slots
  <2>5. SpinnerHasLoad /\ RowsServed
    BY <2>2 DEF Init, SpinnerHasLoad, RowsServed, Free
  <2> QED
    BY <2>1, <2>4, <2>5 DEF Inv
<1>2. Inv /\ [Next]_vars => Inv'
  BY TypedStep, FormStep, RowStep, SpinnerStep, RowsStep DEF Inv
<1> QED
  BY <1>1, <1>2, PTL DEF Spec

(* Every variable keeps its type. *)
THEOREM TypeCorrect == Spec => []TypeOK
<1>1. Inv => TypeOK
  BY DEF Inv, Typed
<1> QED
  BY Invariance, <1>1, PTL

(* A form is disabled exactly while its one function is under way: a form   *)
(* is never submitted twice.                                               *)
THEOREM FormsOnce == Spec => []FormOnce
<1>1. Inv => FormOnce
  BY DEF Inv, OneForm, Form, FormOnce
<1> QED
  BY Invariance, <1>1, PTL

(* No row is left disabled by actions that share a slot.                   *)
THEOREM RowsBusy == Spec => []DisabledRowBusy
<1>1. Inv => DisabledRowBusy
  BY DEF Inv
<1> QED
  BY Invariance, <1>1, PTL

(* No spinner is left behind by loads that end in any order.               *)
THEOREM SpinnersLoad == Spec => []SpinnerHasLoad
<1>1. Inv => SpinnerHasLoad
  BY DEF Inv
<1> QED
  BY Invariance, <1>1, PTL

(* The list an action loads shows that action.                             *)
THEOREM ActionsRead == Spec => ReadYourAction
<1>1. ASSUME Inv, NEW c \in Calls, calls[c].row # None, Show(c), open'
      PROVE  calls[c].row \in list'.seen
  <2>1. calls[c].row \in calls[c].seen
    BY <1>1 DEF Inv, RowsServed, Served, Show
  <2>2. calls[c].act.after # "reload and leave"
    BY <1>1 DEF Show, Close
  <2>3. list' = [filter |-> calls[c].filter, seen |-> calls[c].seen]
    BY <1>1, <2>2 DEF Show
  <2> QED
    BY <2>1, <2>3
<1>2. Inv => [\A c \in Calls :
        calls[c].row # None /\ Show(c) /\ open' => calls[c].row \in list'.seen]_vars
  BY <1>1
<1> QED
  BY Invariance, <1>2, PTL DEF ReadYourAction

=============================================================================
