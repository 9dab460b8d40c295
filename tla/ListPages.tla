----------------------------- MODULE ListPages -----------------------------
(***************************************************************************)
(* The pages of the SecureOps frontend that show a list from a service:    *)
(* they load it when they are opened, when its filter changes, on demand   *)
(* and after an action on a row.  No request is ever cancelled, answers    *)
(* come in any order, and a function that waits for one goes on with the   *)
(* filter of the render that created it.  The pages differ in when they    *)
(* load, in what disables their buttons and in what follows an action:     *)
(* each is a record, and one of them is open.  What a function of a page   *)
(* that was left still does is not part of this module.                    *)
(***************************************************************************)
EXTENDS Naturals, FiniteSets

CONSTANTS Rows,        \* what actions are about
          Filters,     \* filters a service may be asked for
          Default,     \* the filter of a page when it is opened
          Calls,       \* slots for functions waiting for an answer
          EffectRuns,  \* how often React may run the effects of a new page:
                       \* once, or twice under the StrictMode of the dev server
          None

ASSUME NoneAssumption == None \notin Rows \cup Filters
ASSUME DefaultAssumption == Default \in Filters
ASSUME EffectRunsAssumption == EffectRuns \in Nat

-----------------------------------------------------------------------------
(* Actions: the slot that disables their button ("row" and "check" hold one *)
(* id, "form" is a flag), what their button is part of (a form, the list, or *)
(* a table that is not shown while the list is loaded), whether useMemo     *)
(* keeps the button with the filter of an earlier render, what follows      *)
(* success, and whether 'Invalid or expired token.' logs the user out.      *)

Action(slot, in, memo, after, expels) ==
  [slot |-> slot, in |-> in, memo |-> memo, after |-> after, expels |-> expels]

Approve        == Action("row", "table", TRUE, "reload", TRUE)
Reject         == Action("row", "list", FALSE, "reload", TRUE)
CreateUser     == Action("form", "form", FALSE, "reload", TRUE)
DeleteUser     == Action("row", "table", TRUE, "reload", TRUE)
Generate       == Action("form", "form", FALSE, "reload twice", TRUE)
Download       == Action("row", "table", TRUE, "nothing", TRUE)
SaveProduct    == Action("form", "form", FALSE, "reload", FALSE)
DeleteProduct  == Action("row", "table", FALSE, "reload", FALSE)
Upload         == Action("form", "form", FALSE, "reload", TRUE)
Verify         == Action("check", "table", TRUE, "reload", TRUE)
RemoveFile     == Action("row", "table", TRUE, "reload", TRUE)
DeleteLog      == Action("row", "table", TRUE, "update", FALSE)
DismissAlert   == Action("check", "list", FALSE, "reload", FALSE)
DeleteRisk     == Action("row", "list", FALSE, "reload", FALSE)
RequestProduct == Action("row", "table", FALSE, "leave", TRUE)
QuickReport    == Action("form", "form", FALSE, "reload and leave", FALSE)
SaveTelegram   == Action("form", "list", FALSE, "update", FALSE)

Actions == {Approve, Reject, CreateUser, DeleteUser, Generate, Download,
            SaveProduct, DeleteProduct, Upload, Verify, RemoveFile, DeleteLog,
            DismissAlert, DeleteRisk, RequestProduct, QuickReport, SaveTelegram}

(* Pages: whether a change of the filter loads the list now, after a pause  *)
(* or never, whether there is a refresh button, and whether a load that is  *)
(* refused for its token logs the user out.                                 *)

Page(loads, refresh, expels, actions) ==
  [loads |-> loads, refresh |-> refresh, expels |-> expels, actions |-> actions]

Orders          == Page("now", TRUE, TRUE, {Approve, Reject})
Users           == Page("once", FALSE, TRUE, {CreateUser, DeleteUser})
Reports         == Page("now", TRUE, TRUE, {Generate, Download})
Products        == Page("later", FALSE, TRUE, {SaveProduct, DeleteProduct})
SecureFileVault == Page("once", TRUE, TRUE, {Upload, Verify, RemoveFile})
MyFiles         == Page("once", TRUE, TRUE, {Upload, Verify, RemoveFile})
MyOrders        == Page("once", TRUE, TRUE, {})
UserProducts    == Page("later", FALSE, TRUE, {RequestProduct})
AuditLogs       == Page("now", TRUE, FALSE, {DeleteLog})
SecurityCenter  == Page("now", TRUE, FALSE, {DismissAlert, DeleteRisk})
UserDashboard   == Page("once", TRUE, TRUE, {})
AdminDashboard  == Page("once", TRUE, FALSE, {QuickReport})
Settings        == Page("once", FALSE, FALSE, {SaveTelegram})

Pages == {Orders, Users, Reports, Products, SecureFileVault, MyFiles, MyOrders,
          UserProducts, AuditLogs, SecurityCenter, UserDashboard,
          AdminDashboard, Settings}

-----------------------------------------------------------------------------
VARIABLES
  page, open,    \* the page, and whether it is shown
  filter,        \* the filter that is selected
  rowsFilter,    \* the filter the memoised buttons of the table were made with
  timer,         \* the pause before a load is running
  isLoading,
  slots,         \* what actionOrderId, verifyingId, isSubmitting... hold
  list,          \* the list that is shown: its filter, and the actions it shows
  calls,         \* functions waiting for an answer
  done,          \* rows whose action was carried out since the page was opened
  told,          \* rows whose action the page has reported as successful
  patient        \* since the last load that started alone, no other load and
                 \* no action began during a request, and no load failed

shown == <<list, rowsFilter>>
vars == <<page, open, filter, rowsFilter, timer, isLoading, slots, list, calls,
          done, told, patient>>

Slots == {"row", "check", "form"}
Load == Action("none", "form", FALSE, "nothing", FALSE)
Free == [act |-> Load, stage |-> "free", row |-> None, filter |-> None, seen |-> {}]
Stages == {"free", "sent", "served", "asked", "read", "expel", "wait"}
Call == [act : Actions \cup {Load}, stage : Stages, row : Rows \cup {None},
         filter : Filters \cup {None}, seen : SUBSET Rows]
NoCalls == [c \in Calls |-> Free]
NoSlots == [s \in Slots |-> None]
NoList == [filter |-> None, seen |-> {}]

TypeOK ==
  /\ page \in Pages /\ open \in BOOLEAN
  /\ filter \in Filters /\ rowsFilter \in Filters
  /\ timer \in BOOLEAN /\ isLoading \in BOOLEAN
  /\ slots \in [Slots -> Rows \cup {None}]
  /\ list \in [filter : Filters \cup {None}, seen : SUBSET Rows]
  /\ calls \in [Calls -> Call]
  /\ done \subseteq Rows /\ told \subseteq Rows /\ patient \in BOOLEAN

-----------------------------------------------------------------------------
\* useMemo makes the buttons of the table again, with the filter of now.
MemoMade == rowsFilter' = IF \E act \in page.actions : act.memo THEN filter ELSE Default
RowsMade ==
  IF \E s \in {"row", "check"} : slots'[s] # slots[s] THEN MemoMade ELSE UNCHANGED rowsFilter

Idle(cs, c) == cs[c] = Free /\ c = CHOOSE d \in Calls : cs[d] = Free

\* loadOrders, loadUsers, ... called with the filter of the caller's render.
Asking(act, row, f) ==
  [act |-> act, stage |-> "asked", row |-> row, filter |-> f, seen |-> {}]
StartLoad(c, act, row, f) ==
  calls' = [calls EXCEPT ![c] = Asking(act, row, f)] /\ isLoading' = TRUE

Fresh_NoFilter(cs) ==
  /\ filter' = None /\ rowsFilter' = Default
  /\ slots' = NoSlots /\ list' = NoList
  /\ calls' = cs /\ done' = {} /\ told' = {} /\ patient' = TRUE
  /\ UNCHANGED page

\* A page starts with no list, and its first effect loads it.
Fresh(cs) ==
  /\ filter' = Default /\ rowsFilter' = Default
  /\ slots' = NoSlots /\ list' = NoList
  /\ calls' = cs /\ done' = {} /\ told' = {} /\ patient' = TRUE
  /\ UNCHANGED page

FirstLoads ==
  {[c \in Calls |-> IF c \in S THEN Asking(Load, None, Default) ELSE Free] :
     S \in {T \in SUBSET Calls : Cardinality(T) \in 1..EffectRuns}}

Open ==
  /\ ~open /\ open' = TRUE
  /\ isLoading' = TRUE
  /\ IF page.loads = "later" THEN timer' = TRUE /\ Fresh(NoCalls)
                             ELSE timer' = FALSE /\ \E cs \in FirstLoads : Fresh(cs)

Close ==
  /\ open' = FALSE /\ timer' = FALSE /\ isLoading' = FALSE
  /\ Fresh(NoCalls)

Leave == open /\ Close

-----------------------------------------------------------------------------
(* What the user does *)

Alone == calls = NoCalls

SetFilter_OldFilter(f) ==
  /\ open /\ page.loads # "once" /\ f # filter
  /\ filter' = f
  /\ IF page.loads = "later"
       THEN timer' = TRUE /\ UNCHANGED <<calls, isLoading, patient>>
       ELSE /\ \E c \in Calls : Idle(calls, c) /\ StartLoad(c, Load, None, filter)
            /\ patient' = Alone /\ UNCHANGED timer
  /\ UNCHANGED <<page, open, slots, shown, done, told>>

\* The effect on the filter loads the list, or starts the pause again.
SetFilter(f) ==
  /\ open /\ page.loads # "once" /\ f # filter
  /\ filter' = f
  /\ IF page.loads = "later"
       THEN timer' = TRUE /\ UNCHANGED <<calls, isLoading, patient>>
       ELSE /\ \E c \in Calls : Idle(calls, c) /\ StartLoad(c, Load, None, f)
            /\ patient' = Alone /\ UNCHANGED timer
  /\ UNCHANGED <<page, open, slots, shown, done, told>>

Refresh(c) ==
  /\ open /\ page.refresh /\ ~isLoading /\ Idle(calls, c)
  /\ StartLoad(c, Load, None, filter)
  /\ patient' = Alone
  /\ UNCHANGED <<page, open, filter, timer, slots, shown, done, told>>

Disabled_RowsOnly(act, r) ==
  act.slot # "form" /\ slots[act.slot] = r

\* A row is disabled while the slot names it, a form while its flag is set.
Disabled(act, r) ==
  IF act.slot = "form" THEN slots["form"] # None ELSE slots[act.slot] = r

\* A row whose action the list shows is not acted on again: orders are pending
\* no more, files are gone.  For forms and checks it bounds their number.
Act(c, act, r) ==
  /\ open /\ act \in page.actions /\ Idle(calls, c)
  /\ ~Disabled(act, r) /\ r \notin list.seen
  /\ act.in # "form" => list # NoList
  /\ act.in = "table" => ~isLoading
  /\ calls' = [calls EXCEPT ![c] =
        [act |-> act, stage |-> "sent", row |-> r, seen |-> {},
         filter |-> IF act.memo THEN rowsFilter ELSE filter]]
  /\ slots' = [slots EXCEPT ![act.slot] = r] /\ RowsMade
  /\ patient' = (patient /\ Alone /\ ~timer)
  /\ UNCHANGED <<page, open, filter, timer, isLoading, list, done, told>>

-----------------------------------------------------------------------------
(* Timers *)

\* The pause after typing is over.
TimerFires(c) ==
  /\ open /\ timer /\ Idle(calls, c)
  /\ timer' = FALSE
  /\ StartLoad(c, Load, None, filter)
  /\ patient' = Alone
  /\ UNCHANGED <<page, open, filter, slots, shown, done, told>>

\* The second load after a report, or the way to the user's orders.
Wake(c) ==
  /\ calls[c].stage = "wait"
  /\ IF calls[c].act.after = "leave"
       THEN Close
       ELSE /\ StartLoad(c, Load, None, calls[c].filter)
            /\ patient' = (patient /\ calls = [NoCalls EXCEPT ![c] = calls[c]])
            /\ UNCHANGED <<page, open, filter, timer, slots, shown, done, told>>

-----------------------------------------------------------------------------
(* The services *)

Serve(c) ==
  /\ calls[c].stage = "sent"
  /\ calls' = [calls EXCEPT ![c].stage = "served"]
  /\ done' = IF calls[c].act.after = "nothing" THEN done ELSE done \cup {calls[c].row}
  /\ UNCHANGED <<page, open, filter, timer, isLoading, slots, shown, told, patient>>

ReadList(c) ==
  /\ calls[c].stage = "asked"
  /\ calls' = [calls EXCEPT ![c].stage = "read", ![c].seen = done]
  /\ UNCHANGED <<page, open, filter, timer, isLoading, slots, shown, done, told, patient>>

-----------------------------------------------------------------------------
(* Answers *)

Released_Never(act) ==
  slots

\* The finally of an action: its slot is empty, whoever holds it by now.
Released(act) ==
  IF act.slot = "none" THEN slots ELSE [slots EXCEPT ![act.slot] = None]

\* The function ends, a report waits for its second load.
End(c) ==
  /\ slots' = Released(calls[c].act)
  /\ calls' = [calls EXCEPT ![c] =
        IF calls[c].act.after = "reload twice"
          THEN [Free EXCEPT !.stage = "wait", !.filter = calls[c].filter] ELSE Free]

\* setOrders, setFiles, ...; then the action that asked for the list goes on.
Show(c) ==
  /\ calls[c].stage = "read"
  /\ IF calls[c].act.after = "reload and leave"
       THEN Close
       ELSE /\ list' = [filter |-> calls[c].filter, seen |-> calls[c].seen]
            /\ isLoading' = FALSE
            /\ End(c) /\ MemoMade
            /\ UNCHANGED <<page, open, filter, timer, done, told, patient>>

LoadFails_StillLoading(c) ==
  /\ calls[c].stage \in {"asked", "read"}
  /\ IF calls[c].act.after = "reload and leave"
       THEN Close
       ELSE /\ UNCHANGED isLoading /\ patient' = FALSE /\ UNCHANGED list
            /\ End(c) /\ RowsMade
            /\ UNCHANGED <<page, open, filter, timer, done, told>>

\* A load catches its own error: the action that asked for it goes on.
LoadFails(c) ==
  /\ calls[c].stage \in {"asked", "read"}
  /\ IF calls[c].act.after = "reload and leave"
       THEN Close
       ELSE /\ isLoading' = FALSE /\ patient' = FALSE /\ UNCHANGED list
            /\ End(c) /\ RowsMade
            /\ UNCHANGED <<page, open, filter, timer, done, told>>

Answered_NotAwaited(c) ==
  /\ calls[c].stage \in {"sent", "served"}
  /\ LET act == calls[c].act
         reloads == act.after \in {"reload", "reload twice", "reload and leave"}
     IN  /\ IF reloads
              THEN StartLoad(c, act, calls[c].row, calls[c].filter) /\ UNCHANGED slots
              ELSE /\ calls' = [calls EXCEPT ![c] =
                        IF act.after = "leave" THEN [Free EXCEPT !.act = act, !.stage = "wait"] ELSE Free]
                   /\ slots' = Released(act)
                   /\ UNCHANGED isLoading
         /\ list' = IF act.after = "update" THEN [list EXCEPT !.seen = @ \cup {calls[c].row}] ELSE list
         /\ IF act.after = "update" THEN MemoMade ELSE RowsMade
         /\ told' = IF reloads \/ act.after = "update" THEN told \cup {calls[c].row} ELSE told
  /\ UNCHANGED <<page, open, filter, timer, done, patient>>

Answered(c) ==
  /\ calls[c].stage = "served"
  /\ LET act == calls[c].act
         reloads == act.after \in {"reload", "reload twice", "reload and leave"}
     IN  /\ IF reloads
              THEN StartLoad(c, act, calls[c].row, calls[c].filter) /\ UNCHANGED slots
              ELSE /\ calls' = [calls EXCEPT ![c] =
                        IF act.after = "leave" THEN [Free EXCEPT !.act = act, !.stage = "wait"] ELSE Free]
                   /\ slots' = Released(act)
                   /\ UNCHANGED isLoading
         /\ list' = IF act.after = "update" THEN [list EXCEPT !.seen = @ \cup {calls[c].row}] ELSE list
         /\ IF act.after = "update" THEN MemoMade ELSE RowsMade
         /\ told' = IF reloads \/ act.after = "update" THEN told \cup {calls[c].row} ELSE told
  /\ UNCHANGED <<page, open, filter, timer, done, patient>>

ActionFails_KeepsSlot(c) ==
  /\ calls[c].stage \in {"sent", "served"}
  /\ UNCHANGED <<slots, shown>>
  /\ calls' = [calls EXCEPT ![c] = Free]
  /\ UNCHANGED <<page, open, filter, timer, isLoading, done, told, patient>>

\* The request is refused or lost, or its answer is.
ActionFails(c) ==
  /\ calls[c].stage \in {"sent", "served"}
  /\ slots' = Released(calls[c].act) /\ UNCHANGED list /\ RowsMade
  /\ calls' = [calls EXCEPT ![c] = Free]
  /\ UNCHANGED <<page, open, filter, timer, isLoading, done, told, patient>>

\* 'Invalid or expired token.': logoutUser is awaited before anything else.
Expel(c) ==
  /\ \/ calls[c].stage = "asked" /\ page.expels
     \/ calls[c].stage = "sent" /\ calls[c].act.expels
  /\ calls' = [calls EXCEPT ![c].stage = "expel"]
  /\ UNCHANGED <<page, open, filter, timer, isLoading, slots, shown, done, told, patient>>

\* Nobody is logged in any more: ProtectedRoute takes the page away.
Expelled(c) ==
  /\ calls[c].stage = "expel"
  /\ Close

-----------------------------------------------------------------------------
Init ==
  /\ page \in Pages /\ open = FALSE
  /\ filter = Default /\ rowsFilter = Default
  /\ timer = FALSE /\ isLoading = FALSE
  /\ slots = NoSlots /\ list = NoList
  /\ calls = NoCalls /\ done = {} /\ told = {} /\ patient = TRUE

Receive(c) ==
  Show(c) \/ LoadFails(c) \/ Answered(c) \/ ActionFails(c) \/ Expelled(c) \/ Wake(c)

Next ==
  \/ Open \/ Leave
  \/ \E f \in Filters : SetFilter(f)
  \/ \E c \in Calls :
       \/ Refresh(c) \/ TimerFires(c) \/ Serve(c) \/ ReadList(c) \/ Expel(c) \/ Receive(c)
       \/ \E act \in Actions, r \in Rows : Act(c, act, r)

Spec == Init /\ [][Next]_vars

\* A request ends, and so does a pause that a function waits for.  The pause
\* after typing is not fair: every keystroke starts it again.
Fairness == \A c \in Calls : WF_vars(Receive(c))
FairSpec == Spec /\ Fairness

-----------------------------------------------------------------------------
(* Properties *)

\* Of the functions that belong to forms at most one is under way, from the
\* click to the end of the list it loads, exactly while the form is disabled.
FormOnce ==
  LET own == {c \in Calls : calls[c].act.slot = "form" /\ calls[c].stage # "wait"}
  IN  (slots["form"] # None <=> own # {}) /\ \A c, d \in own : c = d

\* A row is disabled only while an action on that row is under way, although
\* all actions of a page share one slot and each empties it when it ends.
DisabledRowBusy ==
  \A s \in {"row", "check"}, r \in Rows :
    slots[s] = r => \E c \in Calls : /\ calls[c].act.slot = s /\ calls[c].row = r
                                      /\ calls[c].stage # "wait"

\* A page that shows a spinner is waiting for a load, or for the pause before
\* one, whichever of several loads ends first.
SpinnerHasLoad ==
  open /\ isLoading =>
    timer \/ \E c \in Calls : calls[c].stage \in {"asked", "read", "expel"}

\* When nothing is under way after loads and actions that did not overlap, the
\* page shows the list of the filter that is selected, with every action it
\* has reported, whatever happened before the last load that was alone.
QuietPageIsCurrent ==
  open /\ Alone /\ ~timer /\ patient => list.filter = filter /\ told \subseteq list.seen

\* The list an action loads when it has succeeded shows that action, also when
\* another load ended, or another row was acted on, meanwhile.
ReadYourAction ==
  [][\A c \in Calls :
       calls[c].row # None /\ Show(c) /\ open' => calls[c].row \in list'.seen]_vars

\* A spinner ends unless the user goes on typing, and a disabled button is
\* enabled again, whether requests succeed or fail.
PageResponds ==
  /\ (isLoading /\ ~timer) ~> (~isLoading \/ timer)
  /\ \A s \in Slots : slots[s] # None ~> slots[s] = None

=============================================================================
