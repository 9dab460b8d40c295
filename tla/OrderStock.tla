----------------------------- MODULE OrderStock -----------------------------
(***************************************************************************)
(* Order approval and stock: the order-service, the inventory-service, the *)
(* HTTP call between them and the row locks of the PostgreSQL database     *)
(* that both use.                                                          *)
(*                                                                         *)
(* An approve request (an Approver) locks the order row, calls the         *)
(* inventory while it holds that lock, waits for at most five seconds and  *)
(* then commits "approved" or closes its session.  The inventory runs the  *)
(* call in a thread of its own, which goes on after the caller has given   *)
(* up.  A reject request (a Rejecter) reads the order without a lock; its  *)
(* UPDATE waits for the row lock.  A StockAdmin is a request that sets the *)
(* quantity of a product or deletes it, again read first and written       *)
(* later.  Either service may crash, and any statement or commit of a      *)
(* request may fail: the database rolls back what it had not committed and *)
(* drops its locks.                                                        *)
(*                                                                         *)
(* Carts are already aggregated per product, as deduct_product_stock       *)
(* aggregates the lines of the request before it looks at any row.         *)
(***************************************************************************)
EXTENDS Integers

CONSTANTS
  Orders, Products,
  Approvers, Rejecters, StockAdmins,   \* request slots
  Carts,          \* carts a user may submit
  Quantities,     \* quantities an administrator may write
  MaxFaults,      \* bound: timeouts, connections, database errors, crashes
  MaxEdits        \* bound: new products, stock updates, deletions

ASSUME CartsAssumption ==
  Carts \subseteq {c \in [Products -> Nat] : \E p \in Products : c[p] > 0}
ASSUME QuantitiesAssumption == Quantities \subseteq Nat

VARIABLES
  status, cart,             \* the tables orders and order_items
  row, stock,               \* the table products
  apc, aord,                \* approve requests: where they are, their order
  hpc, want, held, seen,    \* their deduct-stock handlers at the inventory
  rpc, rord,                \* reject requests
  spc, sprod, sread, sqty,  \* stock requests: product, quantity read, to write
  deducted, unrecorded,     \* history: deductions, calls no approval can record
  faults, edits             \* what MaxFaults and MaxEdits bound

orderTables == <<status, cart>>
productTable == <<row, stock>>
approveVars == <<apc, aord>>
handlerVars == <<hpc, want, held, seen>>
rejectVars == <<rpc, rord>>
stockVars == <<spc, sprod, sread, sqty>>
history == <<deducted, unrecorded>>
bounds == <<faults, edits>>
vars == <<orderTables, productTable, approveVars, handlerVars, rejectVars,
          stockVars, history, bounds>>

EmptyCart == [p \in Products |-> 0]

(* An approver holds the row lock of its order from the SELECT ... FOR     *)
(* UPDATE to the end of its transaction.                                   *)
HoldsOrder(r, o) ==
  aord[r] = o /\ apc[r] \in {"call", "waiting", "commit", "closing"}
(* Mutant: get_order instead of get_order_for_update. *)
OrderFree_NoForUpdate(o) == TRUE
OrderFree(o) == \A r \in Approvers : ~HoldsOrder(r, o)

(* Mutant: the deduction's SELECT without FOR UPDATE. *)
RowFree_NoForUpdate(p) == TRUE
RowFree(p) == \A r \in Approvers : p \notin held[r]

Needs(r) == {p \in Products : cart[aord[r]][p] > 0}

(* A call that took the cart, or still may, for the approval to record;    *)
(* and how many calls of each order no approval can record any more, once  *)
(* those of the requests in S have come to nothing.                        *)
Unsettled(r) == apc[r] = "commit" \/ (apc[r] = "waiting" /\ hpc[r] # "failed")
Forgetting(S) == [o \in Orders |->
  unrecorded[o] + IF \E r \in S : aord[r] = o /\ Unsettled(r) THEN 1 ELSE 0]

Fault == faults < MaxFaults /\ faults' = faults + 1

Init ==
  /\ status = [o \in Orders |-> "none"]
  /\ cart = [o \in Orders |-> EmptyCart]
  /\ row \in [Products -> {"none", "live"}]
  /\ stock \in [Products -> Quantities \cup {0}]
  /\ \A p \in Products : row[p] = "none" => stock[p] = 0
  /\ apc = [r \in Approvers |-> "idle"]
  /\ aord \in [Approvers -> Orders]
  /\ hpc = [r \in Approvers |-> "idle"]
  /\ want = [r \in Approvers |-> {}]
  /\ held = [r \in Approvers |-> {}]
  /\ seen = [r \in Approvers |-> EmptyCart]
  /\ rpc = [j \in Rejecters |-> "idle"]
  /\ rord \in [Rejecters -> Orders]
  /\ spc = [a \in StockAdmins |-> "idle"]
  /\ sprod \in [StockAdmins -> Products]
  /\ sread = [a \in StockAdmins |-> 0]
  /\ sqty = [a \in StockAdmins |-> 0]
  /\ deducted = [o \in Orders |-> 0]
  /\ unrecorded = [o \in Orders |-> 0]
  /\ faults = 0
  /\ edits = 0

----------------------------------------------------------------------------
(* The order-service. *)

CreateOrder(o, c) ==
  /\ status[o] = "none"
  /\ status' = [status EXCEPT ![o] = "pending"]
  /\ cart' = [cart EXCEPT ![o] = c]
  /\ UNCHANGED <<productTable, approveVars, handlerVars, rejectVars,
                 stockVars, history, bounds>>

BeginApprove(r, o) ==
  /\ apc[r] = "idle" /\ hpc[r] = "idle"
  /\ status[o] # "none"
  /\ apc' = [apc EXCEPT ![r] = "lock"]
  /\ aord' = [aord EXCEPT ![r] = o]
  /\ UNCHANGED <<orderTables, productTable, handlerVars, rejectVars,
                 stockVars, history, bounds>>

(* get_order_for_update returns the row as it is once the lock is granted; *)
(* an order already decided goes no further.                               *)
LockOrder(r) ==
  /\ apc[r] = "lock"
  /\ OrderFree(aord[r])
  /\ apc' = [apc EXCEPT ![r] = IF status[aord[r]] = "pending" THEN "call" ELSE "closing"]
  /\ UNCHANGED <<orderTables, productTable, aord, handlerVars, rejectVars,
                 stockVars, history, bounds>>

SendDeduct(r) ==
  /\ apc[r] = "call"
  /\ apc' = [apc EXCEPT ![r] = "waiting"]
  /\ hpc' = [hpc EXCEPT ![r] = "sent"]
  /\ UNCHANGED <<orderTables, productTable, aord, want, held, seen, rejectVars,
                 stockVars, history, bounds>>

(* The request never reaches the inventory: the connection is refused, or  *)
(* the items of the order cannot be read.                                  *)
ConnectFails(r) ==
  /\ apc[r] = "call"
  /\ Fault
  /\ apc' = [apc EXCEPT ![r] = "closing"]
  /\ UNCHANGED <<orderTables, productTable, aord, handlerVars, rejectVars,
                 stockVars, history, edits>>

ReceiveOk(r) ==
  /\ apc[r] = "waiting" /\ hpc[r] = "ok"
  /\ apc' = [apc EXCEPT ![r] = "commit"]
  /\ hpc' = [hpc EXCEPT ![r] = "idle"]
  /\ UNCHANGED <<orderTables, productTable, aord, want, held, seen, rejectVars,
                 stockVars, history, bounds>>

(* Mutant: the status code of the answer is ignored. *)
ReceiveFailure_Ignored(r) ==
  /\ apc[r] = "waiting" /\ hpc[r] = "failed"
  /\ apc' = [apc EXCEPT ![r] = "commit"]
  /\ hpc' = [hpc EXCEPT ![r] = "idle"]
  /\ UNCHANGED <<orderTables, productTable, aord, want, held, seen, rejectVars,
                 stockVars, history, bounds>>

ReceiveFailure(r) ==
  /\ apc[r] = "waiting" /\ hpc[r] = "failed"
  /\ apc' = [apc EXCEPT ![r] = "closing"]
  /\ hpc' = [hpc EXCEPT ![r] = "idle"]
  /\ UNCHANGED <<orderTables, productTable, aord, want, held, seen, rejectVars,
                 stockVars, history, bounds>>

(* timeout=5: the caller gives up, the handler does not.  A caller that    *)
(* loses its database connection while it waits ends like this too: its    *)
(* lock is gone and its commit can only fail.                              *)
Timeout(r) ==
  /\ apc[r] = "waiting" /\ hpc[r] # "lost"
  /\ Fault
  /\ apc' = [apc EXCEPT ![r] = "closing"]
  /\ unrecorded' = Forgetting({r})
  /\ UNCHANGED <<orderTables, productTable, aord, handlerVars, rejectVars,
                 stockVars, deducted, edits>>

(* The inventory died while the caller waited. *)
ConnectionReset(r) ==
  /\ apc[r] = "waiting" /\ hpc[r] = "lost"
  /\ apc' = [apc EXCEPT ![r] = "closing"]
  /\ hpc' = [hpc EXCEPT ![r] = "idle"]
  /\ unrecorded' = Forgetting({r})
  /\ UNCHANGED <<orderTables, productTable, aord, want, held, seen, rejectVars,
                 stockVars, deducted, bounds>>

(* Mutants: a status the table does not know; no commit. *)
CommitApproval_Completed(r) ==
  /\ apc[r] = "commit"
  /\ status' = [status EXCEPT ![aord[r]] = "completed"]
  /\ apc' = [apc EXCEPT ![r] = "idle"]
  /\ UNCHANGED <<cart, productTable, aord, handlerVars, rejectVars, stockVars,
                 history, bounds>>
CommitApproval_NotCommitted(r) ==
  /\ apc[r] = "commit"
  /\ apc' = [apc EXCEPT ![r] = "idle"]
  /\ UNCHANGED <<orderTables, productTable, aord, handlerVars, rejectVars, stockVars,
                 history, bounds>>

(* order.status = "approved"; db.commit(), which also drops the row lock. *)
CommitApproval(r) ==
  /\ apc[r] = "commit"
  /\ status' = [status EXCEPT ![aord[r]] = "approved"]
  /\ apc' = [apc EXCEPT ![r] = "idle"]
  /\ UNCHANGED <<cart, productTable, aord, handlerVars, rejectVars, stockVars,
                 history, bounds>>

(* The row cannot be locked, or db.commit raises and the transaction ends: *)
(* the order stays pending, whatever the inventory did for it.  (An error  *)
(* after the commit, at db.refresh, leaves the tables as CommitApproval.)  *)
ApproveFails(r) ==
  /\ apc[r] \in {"lock", "commit"}
  /\ Fault
  /\ apc' = [apc EXCEPT ![r] = "idle"]
  /\ unrecorded' = Forgetting({r})
  /\ UNCHANGED <<orderTables, productTable, aord, handlerVars, rejectVars,
                 stockVars, deducted, edits>>

(* An early return or an exception ends in get_db's close: rollback. *)
CloseSession(r) ==
  /\ apc[r] = "closing"
  /\ apc' = [apc EXCEPT ![r] = "idle"]
  /\ UNCHANGED <<orderTables, productTable, aord, handlerVars, rejectVars,
                 stockVars, history, bounds>>

(* reject_order uses get_order: no lock and no look at the status. *)
ReadForReject(j, o) ==
  /\ rpc[j] = "idle"
  /\ status[o] # "none"
  /\ rpc' = [rpc EXCEPT ![j] = "write"]
  /\ rord' = [rord EXCEPT ![j] = o]
  /\ UNCHANGED <<orderTables, productTable, approveVars, handlerVars,
                 stockVars, history, bounds>>

(* Its UPDATE waits while an approver holds the row. *)
WriteReject(j) ==
  /\ rpc[j] = "write"
  /\ OrderFree(rord[j])
  /\ status' = [status EXCEPT ![rord[j]] = "rejected"]
  /\ rpc' = [rpc EXCEPT ![j] = "idle"]
  /\ UNCHANGED <<cart, productTable, approveVars, handlerVars, rord, stockVars,
                 history, bounds>>

RejectFails(j) ==
  /\ rpc[j] = "write"
  /\ Fault
  /\ rpc' = [rpc EXCEPT ![j] = "idle"]
  /\ UNCHANGED <<orderTables, productTable, approveVars, handlerVars, rord,
                 stockVars, history, edits>>

OrderServiceCrash ==
  /\ \/ \E r \in Approvers : apc[r] # "idle"
     \/ \E j \in Rejecters : rpc[j] # "idle"
  /\ Fault
  /\ apc' = [r \in Approvers |-> "idle"]
  /\ rpc' = [j \in Rejecters |-> "idle"]
  /\ unrecorded' = Forgetting(Approvers)
  /\ UNCHANGED <<orderTables, productTable, aord, handlerVars, rord, stockVars,
                 deducted, edits>>

----------------------------------------------------------------------------
(* The inventory-service: POST /products/internal/deduct-stock. *)

(* The SELECT ... FOR UPDATE sees the rows that exist when it starts. *)
HandlerBegin(r) ==
  /\ hpc[r] = "sent"
  /\ hpc' = [hpc EXCEPT ![r] = "locking"]
  /\ want' = [want EXCEPT ![r] = {p \in Needs(r) : row[p] = "live"}]
  /\ UNCHANGED <<orderTables, productTable, approveVars, held, seen, rejectVars,
                 stockVars, history, bounds>>

(* It locks them one at a time, in no stated order (there is no ORDER BY), *)
(* and returns each as it is when its lock is granted.                     *)
LockRow(r, p) ==
  /\ p \in want[r]
  /\ row[p] = "live"
  /\ RowFree(p)
  /\ want' = [want EXCEPT ![r] = @ \ {p}]
  /\ held' = [held EXCEPT ![r] = @ \cup {p}]
  /\ seen' = [seen EXCEPT ![r][p] = stock[p]]
  /\ UNCHANGED <<orderTables, productTable, approveVars, hpc, rejectVars,
                 stockVars, history, bounds>>

(* A row deleted meanwhile is left out of the result. *)
SkipRow(r, p) ==
  /\ p \in want[r]
  /\ row[p] = "gone"
  /\ want' = [want EXCEPT ![r] = @ \ {p}]
  /\ UNCHANGED <<orderTables, productTable, approveVars, hpc, held, seen,
                 rejectVars, stockVars, history, bounds>>

(* Mutants: the quantities are not compared; missing products are ignored. *)
Fulfillable_NoQuantity(r) == Needs(r) \subseteq held[r]
Fulfillable_MissingIgnored(r) == \A p \in held[r] : seen[r][p] >= cart[aord[r]][p]
Fulfillable(r) == \A p \in Needs(r) : p \in held[r] /\ seen[r][p] >= cart[aord[r]][p]

(* Mutant: the session, and with it the row locks, outlives the exception. *)
RefuseDeduct_KeepsLocks(r) ==
  /\ hpc[r] = "locking" /\ want[r] = {}
  /\ ~Fulfillable(r)
  /\ hpc' = [hpc EXCEPT ![r] = "failed"]
  /\ UNCHANGED <<orderTables, productTable, approveVars, want, held, seen,
                 rejectVars, stockVars, history, bounds>>

(* 404 or 400: the exception closes the session, which drops the locks. *)
RefuseDeduct(r) ==
  /\ hpc[r] = "locking" /\ want[r] = {}
  /\ ~Fulfillable(r)
  /\ hpc' = [hpc EXCEPT ![r] = "failed"]
  /\ held' = [held EXCEPT ![r] = {}]
  /\ seen' = [seen EXCEPT ![r] = EmptyCart]
  /\ UNCHANGED <<orderTables, productTable, approveVars, want, rejectVars,
                 stockVars, history, bounds>>

(* The UPDATEs write the quantity computed from the row that was read. *)
CommitDeduct(r) ==
  /\ hpc[r] = "locking" /\ want[r] = {}
  /\ Fulfillable(r)
  /\ stock' = [p \in Products |->
                 IF p \in Needs(r) THEN seen[r][p] - cart[aord[r]][p] ELSE stock[p]]
  /\ hpc' = [hpc EXCEPT ![r] = "committed"]
  /\ held' = [held EXCEPT ![r] = {}]
  /\ seen' = [seen EXCEPT ![r] = EmptyCart]
  /\ deducted' = [deducted EXCEPT ![aord[r]] = @ + 1]
  /\ UNCHANGED <<orderTables, row, approveVars, want, rejectVars, stockVars,
                 unrecorded, bounds>>

RefreshDeducted(r) ==
  /\ hpc[r] = "committed"
  /\ \A p \in Needs(r) : row[p] = "live"
  /\ hpc' = [hpc EXCEPT ![r] = "ok"]
  /\ UNCHANGED <<orderTables, productTable, approveVars, want, held, seen,
                 rejectVars, stockVars, history, bounds>>

(* db.refresh after the commit raises when a product was deleted since or  *)
(* the database fails (then perhaps db.commit itself did, its work done):  *)
(* the caller is told of a failure though the stock is taken.              *)
RefreshFails(r) ==
  /\ hpc[r] = "committed"
  /\ \/ (\E p \in Needs(r) : row[p] # "live") /\ UNCHANGED faults
     \/ Fault
  /\ hpc' = [hpc EXCEPT ![r] = "failed"]
  /\ unrecorded' = Forgetting({r})
  /\ UNCHANGED <<orderTables, productTable, approveVars, want, held, seen,
                 rejectVars, stockVars, deducted, edits>>

(* A statement fails, or the commit and with it every UPDATE. *)
HandlerFails(r) ==
  /\ hpc[r] \in {"sent", "locking"}
  /\ Fault
  /\ hpc' = [hpc EXCEPT ![r] = "failed"]
  /\ want' = [want EXCEPT ![r] = {}]
  /\ held' = [held EXCEPT ![r] = {}]
  /\ seen' = [seen EXCEPT ![r] = EmptyCart]
  /\ UNCHANGED <<orderTables, productTable, approveVars, rejectVars, stockVars,
                 history, edits>>

(* An answer nobody waits for. *)
DropReply(r) ==
  /\ apc[r] # "waiting" /\ hpc[r] \in {"ok", "failed", "lost"}
  /\ hpc' = [hpc EXCEPT ![r] = "idle"]
  /\ UNCHANGED <<orderTables, productTable, approveVars, want, held, seen,
                 rejectVars, stockVars, history, bounds>>

(* PostgreSQL aborts one transaction of a set that waits on itself. *)
Deadlocked(D) ==
  \A d \in D : want[d] # {} /\ \A p \in want[d] : \E x \in D : p \in held[x]
DeadlockVictim(r) ==
  /\ \E D \in SUBSET Approvers : r \in D /\ Deadlocked(D)
  /\ hpc' = [hpc EXCEPT ![r] = "failed"]
  /\ want' = [want EXCEPT ![r] = {}]
  /\ held' = [held EXCEPT ![r] = {}]
  /\ seen' = [seen EXCEPT ![r] = EmptyCart]
  /\ UNCHANGED <<orderTables, productTable, approveVars, rejectVars,
                 stockVars, history, bounds>>

CreateProduct(p, q) ==
  /\ row[p] = "none"
  /\ edits < MaxEdits
  /\ edits' = edits + 1
  /\ row' = [row EXCEPT ![p] = "live"]
  /\ stock' = [stock EXCEPT ![p] = q]
  /\ UNCHANGED <<orderTables, approveVars, handlerVars, rejectVars, stockVars,
                 history, faults>>

(* update_product_stock: get_product without a lock, then the UPDATE. *)
ReadForStock(a, p, q) ==
  /\ spc[a] = "idle" /\ row[p] = "live"
  /\ edits < MaxEdits
  /\ edits' = edits + 1
  /\ spc' = [spc EXCEPT ![a] = "set"]
  /\ sprod' = [sprod EXCEPT ![a] = p]
  /\ sread' = [sread EXCEPT ![a] = stock[p]]
  /\ sqty' = [sqty EXCEPT ![a] = q]
  /\ UNCHANGED <<orderTables, productTable, approveVars, handlerVars, rejectVars,
                 history, faults>>

(* SQLAlchemy sends no UPDATE for a value equal to the one it read, and an *)
(* UPDATE of a row deleted since matches nothing (StaleDataError).         *)
WriteStock(a) ==
  /\ spc[a] = "set"
  /\ sqty[a] = sread[a] \/ RowFree(sprod[a])
  /\ stock' = IF sqty[a] # sread[a] /\ row[sprod[a]] = "live"
              THEN [stock EXCEPT ![sprod[a]] = sqty[a]] ELSE stock
  /\ spc' = [spc EXCEPT ![a] = "idle"]
  /\ UNCHANGED <<orderTables, row, approveVars, handlerVars, rejectVars, sprod,
                 sread, sqty, history, bounds>>

(* delete_product *)
ReadForDelete(a, p) ==
  /\ spc[a] = "idle" /\ row[p] = "live"
  /\ edits < MaxEdits
  /\ edits' = edits + 1
  /\ spc' = [spc EXCEPT ![a] = "delete"]
  /\ sprod' = [sprod EXCEPT ![a] = p]
  /\ UNCHANGED <<orderTables, productTable, approveVars, handlerVars, rejectVars,
                 sread, sqty, history, faults>>

WriteDelete(a) ==
  /\ spc[a] = "delete"
  /\ RowFree(sprod[a])
  /\ row' = [row EXCEPT ![sprod[a]] = "gone"]
  /\ spc' = [spc EXCEPT ![a] = "idle"]
  /\ UNCHANGED <<orderTables, stock, approveVars, handlerVars, rejectVars, sprod,
                 sread, sqty, history, bounds>>

(* Its UPDATE or DELETE fails. *)
StockFails(a) ==
  /\ spc[a] # "idle"
  /\ Fault
  /\ spc' = [spc EXCEPT ![a] = "idle"]
  /\ UNCHANGED <<orderTables, productTable, approveVars, handlerVars, rejectVars,
                 sprod, sread, sqty, history, edits>>

InventoryCrash ==
  /\ \/ \E r \in Approvers : hpc[r] \in {"sent", "locking", "committed"}
     \/ \E a \in StockAdmins : spc[a] # "idle"
  /\ Fault
  /\ hpc' = [r \in Approvers |->
               IF hpc[r] \in {"sent", "locking", "committed"} THEN "lost" ELSE hpc[r]]
  /\ want' = [r \in Approvers |-> {}]
  /\ held' = [r \in Approvers |-> {}]
  /\ seen' = [r \in Approvers |-> EmptyCart]
  /\ spc' = [a \in StockAdmins |-> "idle"]
  /\ UNCHANGED <<orderTables, productTable, approveVars, rejectVars, sprod,
                 sread, sqty, history, edits>>

----------------------------------------------------------------------------

Approver(r) ==
  \/ LockOrder(r) \/ SendDeduct(r) \/ ReceiveOk(r) \/ ReceiveFailure(r)
  \/ ConnectionReset(r) \/ CommitApproval(r) \/ CloseSession(r)

Handler(r) ==
  \/ HandlerBegin(r) \/ RefuseDeduct(r) \/ CommitDeduct(r) \/ RefreshDeducted(r)
  \/ RefreshFails(r) \/ DropReply(r) \/ DeadlockVictim(r)
  \/ \E p \in Products : LockRow(r, p) \/ SkipRow(r, p)

StockAdmin(a) == WriteStock(a) \/ WriteDelete(a)

Client ==
  \/ \E o \in Orders, c \in Carts : CreateOrder(o, c)
  \/ \E r \in Approvers, o \in Orders : BeginApprove(r, o)
  \/ \E j \in Rejecters, o \in Orders : ReadForReject(j, o)
  \/ \E p \in Products, q \in Quantities : CreateProduct(p, q)
  \/ \E a \in StockAdmins, p \in Products :
       ReadForDelete(a, p) \/ \E q \in Quantities : ReadForStock(a, p, q)

Failure ==
  \/ OrderServiceCrash \/ InventoryCrash
  \/ \E r \in Approvers :
       ConnectFails(r) \/ Timeout(r) \/ ApproveFails(r) \/ HandlerFails(r)
  \/ \E j \in Rejecters : RejectFails(j)
  \/ \E a \in StockAdmins : StockFails(a)

Next ==
  \/ Client \/ Failure
  \/ \E r \in Approvers : Approver(r) \/ Handler(r)
  \/ \E j \in Rejecters : WriteReject(j)
  \/ \E a \in StockAdmins : StockAdmin(a)

(* A running request takes its next step; PostgreSQL queues the waiters of *)
(* a row, so one that waits for a lock released again and again gets it.   *)
(* Nothing obliges a user, an administrator or a fault.                    *)
Fairness ==
  /\ \A r \in Approvers : WF_vars(Approver(r)) /\ SF_vars(LockOrder(r))
  /\ \A r \in Approvers : WF_vars(Handler(r)) /\ \A p \in Products : SF_vars(LockRow(r, p))
  /\ \A j \in Rejecters : SF_vars(WriteReject(j))

Spec == Init /\ [][Next]_vars
FairSpec == Spec /\ Fairness

----------------------------------------------------------------------------
(* Properties. *)

(* Every variable keeps the shape its table column or local variable has;  *)
(* a quantity may be any integer as far as the type is concerned.          *)
TypeOK ==
  /\ status \in [Orders -> {"none", "pending", "approved", "rejected"}]
  /\ cart \in [Orders -> [Products -> Nat]]
  /\ row \in [Products -> {"none", "live", "gone"}]
  /\ stock \in [Products -> Int]
  /\ apc \in [Approvers -> {"idle", "lock", "call", "waiting", "commit", "closing"}]
  /\ aord \in [Approvers -> Orders]
  /\ hpc \in [Approvers -> {"idle", "sent", "locking", "committed", "ok", "failed", "lost"}]
  /\ want \in [Approvers -> SUBSET Products]
  /\ held \in [Approvers -> SUBSET Products]
  /\ seen \in [Approvers -> [Products -> Int]]
  /\ rpc \in [Rejecters -> {"idle", "write"}]
  /\ rord \in [Rejecters -> Orders]
  /\ spc \in [StockAdmins -> {"idle", "set", "delete"}]
  /\ sprod \in [StockAdmins -> Products]
  /\ sread \in [StockAdmins -> Int]
  /\ sqty \in [StockAdmins -> Int]
  /\ deducted \in [Orders -> Nat]
  /\ unrecorded \in [Orders -> Nat]
  /\ faults \in Nat
  /\ edits \in Nat

(* Concurrent approvals of orders for the same product, stock updates and  *)
(* deductions that outlive their caller never take more than there is:     *)
(* deduct_product_stock checks and writes under the same row locks.        *)
StockNeverNegative == \A p \in Products : stock[p] >= 0

(* An approved order's cart was taken from the stock, whatever timed out,  *)
(* crashed or was deleted on the way to its approval.                      *)
ApprovedWasDeducted ==
  \A o \in Orders : status[o] = "approved" => deducted[o] >= 1

(* However many approve and reject requests race, an order costs its cart  *)
(* once, and once more at most for each call whose outcome its approval    *)
(* could not record: its caller gave up, crashed, was told of a failure    *)
(* after the stock was taken, or could not commit.  One loss never costs   *)
(* two carts: the caller holds the order row across the call.              *)
DeductedOncePerLoss == \A o \in Orders : deducted[o] <= 1 + unrecorded[o]

(* A pending order nobody is approving has cost no stock, but for calls    *)
(* that no approval could record, each at most one cart.                   *)
PendingUntouched ==
  \A o \in Orders :
    status[o] = "pending" /\ OrderFree(o) => deducted[o] <= unrecorded[o]

(* A deduction takes the whole cart of one order: every line of it or none,*)
(* and nothing an administrator wrote meanwhile is overwritten by it.      *)
DeductionWhole ==
  [][deducted' # deducted =>
       \E o \in Orders :
         /\ deducted' = [deducted EXCEPT ![o] = @ + 1]
         /\ stock' = [p \in Products |-> stock[p] - cart[o][p]]]_vars

(* An approval that read "pending" can never turn a rejected order into an *)
(* approved one: the lock is held from the read to the write.              *)
RejectedIsFinal ==
  [][\A o \in Orders : status[o] = "rejected" => status'[o] = "rejected"]_vars

(* Every order request ends: an approver waits neither for a row lock nor  *)
(* for an answer for ever, and a deduction, its caller gone or not,        *)
(* finishes and drops its row locks, even when handlers wait on each other.*)
RequestsEnd ==
  /\ \A r \in Approvers : apc[r] # "idle" ~> apc[r] = "idle"
  /\ \A r \in Approvers : hpc[r] # "idle" ~> hpc[r] = "idle"
  /\ \A j \in Rejecters : rpc[j] # "idle" ~> rpc[j] = "idle"

(* Who can take a step at once: the guards of Approver and Handler.        *)
ApproverCanStep(r) ==
  \/ apc[r] \in {"call", "commit", "closing"}
  \/ apc[r] = "lock" /\ OrderFree(aord[r])
  \/ apc[r] = "waiting" /\ hpc[r] \in {"ok", "failed", "lost"}
HandlerCanStep(r) ==
  \/ hpc[r] \in {"sent", "committed"}
  \/ hpc[r] = "locking" /\ want[r] = {}
  \/ \E p \in want[r] : row[p] = "gone" \/ (row[p] = "live" /\ RowFree(p))
  \/ \E D \in SUBSET Approvers : r \in D /\ Deadlocked(D)

Running == {r \in Approvers : hpc[r] \in {"sent", "locking", "committed"}}
Proceeds(r) == ApproverCanStep(r) \/ r \in Running
HolderProceeds(o) == \E x \in Approvers : HoldsOrder(x, o) /\ Proceeds(x)

(* Nobody waits for himself: while deductions run, one of them can take a  *)
(* step, and whoever waits for an order or a product waits for a running   *)
(* deduction or for a request that can take a step.  Order locks, the call *)
(* between the services and row locks never close a circle that PostgreSQL *)
(* does not see and break.                                                 *)
NoStandstill ==
  /\ Running # {} => \E x \in Running : HandlerCanStep(x)
  /\ \A r \in Approvers :
       apc[r] # "idle" => Proceeds(r) \/ (apc[r] = "lock" /\ HolderProceeds(aord[r]))
  /\ \A j \in Rejecters :
       rpc[j] # "idle" => OrderFree(rord[j]) \/ HolderProceeds(rord[j])
  /\ \A a \in StockAdmins :
       spc[a] # "idle" => RowFree(sprod[a]) \/ \E x \in Running : sprod[a] \in held[x]

(* The services implement the ledger, whose variables are the committed    *)
(* columns of their tables and two histories.                              *)
Ledger == INSTANCE StockLedger WITH
  Orders <- Orders, Products <- Products, Carts <- Carts, Quantities <- Quantities,
  status <- status, cart <- cart, row <- row, stock <- stock,
  deducted <- deducted, unrecorded <- unrecorded
LedgerSpec == Ledger!Spec

(* docs/PART_4_6_STOCK_DEDUCTION.md:12: "Already approved orders do not    *)
(* deduct stock again."  A deduction whose caller timed out may still      *)
(* commit after a second approval succeeded.                               *)
ApprovedNotDeductedAgain ==
  [][\A o \in Orders : status[o] = "approved" => deducted'[o] = deducted[o]]_vars
=============================================================================
