-------------------------- MODULE OrderStock_proofs --------------------------
(***************************************************************************)
(* Proofs about OrderStock for any sets of orders, products and requests,  *)
(* any carts and any bounds on faults and edits.                           *)
(***************************************************************************)
EXTENDS OrderStock, FiniteSets, FiniteSetTheorems, TLAPS

(* Row locks: only a locking handler holds or waits for rows, no row has   *)
(* two holders, and a held row is still as the handler read it.            *)
RowLocks ==
  /\ \A r \in Approvers : hpc[r] # "locking" => held[r] = {} /\ want[r] = {}
  /\ \A r \in Approvers : want[r] \cap held[r] = {}
  /\ \A r, x \in Approvers : r # x => held[r] \cap held[x] = {}
  /\ \A r \in Approvers : \A p \in held[r] :
       row[p] = "live" /\ seen[r][p] = stock[p]

(* Order locks: one holder per order, and between its SELECT ... FOR       *)
(* UPDATE and its COMMIT the order is still the pending one it read.       *)
OrderLocks ==
  /\ \A r, x \in Approvers : \A o \in Orders :
       HoldsOrder(r, o) /\ HoldsOrder(x, o) => r = x
  /\ \A r \in Approvers :
       apc[r] \in {"call", "waiting", "commit"} => status[aord[r]] = "pending"

(* Requests are for orders that exist, and no call is left over when a     *)
(* request starts.                                                         *)
Requests ==
  /\ \A r \in Approvers : apc[r] # "idle" \/ hpc[r] # "idle" => status[aord[r]] # "none"
  /\ \A j \in Rejecters : rpc[j] # "idle" => status[rord[j]] # "none"
  /\ \A r \in Approvers : apc[r] \in {"lock", "call", "commit"} => hpc[r] = "idle"
  /\ \A r \in Approvers : apc[r] = "waiting" => hpc[r] # "idle"

(* A request whose deduction is done and not yet recorded. *)
Deducted(r) ==
  \/ apc[r] = "commit"
  \/ apc[r] = "waiting" /\ hpc[r] \in {"committed", "ok"}

(* The same, or one that may be done: the inventory died before it said.   *)
Credited(r) == Deducted(r) \/ (apc[r] = "waiting" /\ hpc[r] = "lost")

(* What the history says of the present.  A deduction that is done and not *)
(* yet recorded is counted.  The calls nobody waits for and that may still *)
(* deduct are paid for: with those done, they are no more than the calls   *)
(* the order lost, and one if it is decided or its approval has a          *)
(* deduction to record.                                                    *)
Unplaced == \A o \in Orders : status[o] = "none" => deducted[o] = 0
Counted == \A r \in Approvers : Deducted(r) => deducted[aord[r]] > 0

DecidedOrder(o) == status[o] \in {"approved", "rejected"}
Orphans(o) ==
  {r \in Approvers : aord[r] = o /\ apc[r] # "waiting" /\ hpc[r] \in {"sent", "locking"}}
Credit(o) ==
  IF DecidedOrder(o) \/ \E r \in Approvers : aord[r] = o /\ Credited(r) THEN 1 ELSE 0
Balance(o) ==
  /\ IsFiniteSet(Orphans(o))
  /\ deducted[o] + Cardinality(Orphans(o)) <= unrecorded[o] + Credit(o)
Balanced == \A o \in Orders : Balance(o)

Accounts ==
  /\ Unplaced
  /\ Counted
  /\ ApprovedWasDeducted
  /\ Balanced

(* What StockAdmins write are quantities, and what they read existed. *)
Writes ==
  /\ \A a \in StockAdmins : spc[a] = "set" => sqty[a] \in Quantities
  /\ \A a \in StockAdmins : spc[a] # "idle" => row[sprod[a]] # "none"
  /\ \A p \in Products : stock[p] >= 0

IInv ==
  /\ TypeOK
  /\ RowLocks
  /\ OrderLocks
  /\ Requests
  /\ Accounts
  /\ Writes

(* Every table starts empty and every request idle, within their types. *)
LEMMA TypeInit == Init => TypeOK
<1>2. SUFFICES ASSUME Init PROVE TypeOK
  OBVIOUS
<1>3. stock \in [Products -> Int]
  <2>1. Quantities \cup {0} \subseteq Int
    BY QuantitiesAssumption
  <2>2. stock \in [Products -> Quantities \cup {0}]
    BY <1>2 DEF Init
  <2> QED
    BY <2>1, <2>2
<1> QED
  BY <1>2, <1>3 DEF Init, TypeOK, EmptyCart

(* Every step of either service and of the users keeps the types. *)
LEMMA TypeStep == TypeOK /\ [Next]_vars => TypeOK'
<1> SUFFICES ASSUME TypeOK, [Next]_vars PROVE TypeOK'
  OBVIOUS
<1> USE CartsAssumption, QuantitiesAssumption DEF TypeOK, Fault, Forgetting, orderTables, productTable, approveVars,
  handlerVars, rejectVars, stockVars, history, bounds, EmptyCart
<1>1. ASSUME NEW o \in Orders, NEW c \in Carts, CreateOrder(o, c) PROVE TypeOK'
  BY <1>1 DEF CreateOrder
<1>2. ASSUME NEW r \in Approvers, NEW o \in Orders, BeginApprove(r, o) PROVE TypeOK'
  BY <1>2 DEF BeginApprove
<1>3. ASSUME NEW r \in Approvers, LockOrder(r) PROVE TypeOK'
  BY <1>3 DEF LockOrder
<1>4. ASSUME NEW r \in Approvers, SendDeduct(r) PROVE TypeOK'
  BY <1>4 DEF SendDeduct
<1>5. ASSUME NEW r \in Approvers, ConnectFails(r) PROVE TypeOK'
  BY <1>5 DEF ConnectFails
<1>6. ASSUME NEW r \in Approvers, ReceiveOk(r) PROVE TypeOK'
  BY <1>6 DEF ReceiveOk
<1>7. ASSUME NEW r \in Approvers, ReceiveFailure(r) PROVE TypeOK'
  BY <1>7 DEF ReceiveFailure
<1>8. ASSUME NEW r \in Approvers, Timeout(r) PROVE TypeOK'
  BY <1>8 DEF Timeout
<1>9. ASSUME NEW r \in Approvers, ConnectionReset(r) PROVE TypeOK'
  BY <1>9 DEF ConnectionReset
<1>10. ASSUME NEW r \in Approvers, CommitApproval(r) PROVE TypeOK'
  BY <1>10 DEF CommitApproval
<1>11. ASSUME NEW r \in Approvers, CloseSession(r) PROVE TypeOK'
  BY <1>11 DEF CloseSession
<1>12. ASSUME NEW j \in Rejecters, NEW o \in Orders, ReadForReject(j, o) PROVE TypeOK'
  BY <1>12 DEF ReadForReject
<1>13. ASSUME NEW j \in Rejecters, WriteReject(j) PROVE TypeOK'
  BY <1>13 DEF WriteReject
<1>14. ASSUME OrderServiceCrash PROVE TypeOK'
  BY <1>14 DEF OrderServiceCrash
<1>15. ASSUME NEW r \in Approvers, HandlerBegin(r) PROVE TypeOK'
  BY <1>15 DEF HandlerBegin, Needs
<1>16. ASSUME NEW r \in Approvers, NEW p \in Products, LockRow(r, p) PROVE TypeOK'
  BY <1>16 DEF LockRow
<1>17. ASSUME NEW r \in Approvers, NEW p \in Products, SkipRow(r, p) PROVE TypeOK'
  BY <1>17 DEF SkipRow
<1>18. ASSUME NEW r \in Approvers, RefuseDeduct(r) PROVE TypeOK'
  BY <1>18 DEF RefuseDeduct
<1>19. ASSUME NEW r \in Approvers, CommitDeduct(r) PROVE TypeOK'
  BY <1>19 DEF CommitDeduct
<1>20. ASSUME NEW r \in Approvers, RefreshDeducted(r) PROVE TypeOK'
  BY <1>20 DEF RefreshDeducted
<1>21. ASSUME NEW r \in Approvers, DropReply(r) PROVE TypeOK'
  BY <1>21 DEF DropReply
<1>22. ASSUME NEW r \in Approvers, DeadlockVictim(r) PROVE TypeOK'
  BY <1>22 DEF DeadlockVictim
<1>23. ASSUME NEW p \in Products, NEW q \in Quantities, CreateProduct(p, q) PROVE TypeOK'
  BY <1>23 DEF CreateProduct
<1>24. ASSUME NEW a \in StockAdmins, NEW p \in Products, NEW q \in Quantities, ReadForStock(a, p, q) PROVE TypeOK'
  BY <1>24 DEF ReadForStock
<1>25. ASSUME NEW a \in StockAdmins, WriteStock(a) PROVE TypeOK'
  BY <1>25 DEF WriteStock
<1>26. ASSUME NEW a \in StockAdmins, NEW p \in Products, ReadForDelete(a, p) PROVE TypeOK'
  BY <1>26 DEF ReadForDelete
<1>27. ASSUME NEW a \in StockAdmins, WriteDelete(a) PROVE TypeOK'
  BY <1>27 DEF WriteDelete
<1>28. ASSUME InventoryCrash PROVE TypeOK'
  BY <1>28 DEF InventoryCrash
<1>29. ASSUME NEW r \in Approvers, ApproveFails(r) PROVE TypeOK'
  BY <1>29 DEF ApproveFails
<1>30. ASSUME NEW j \in Rejecters, RejectFails(j) PROVE TypeOK'
  BY <1>30 DEF RejectFails
<1>31. ASSUME NEW r \in Approvers, HandlerFails(r) PROVE TypeOK'
  BY <1>31 DEF HandlerFails
<1>32. ASSUME NEW r \in Approvers, RefreshFails(r) PROVE TypeOK'
  BY <1>32 DEF RefreshFails
<1>33. ASSUME NEW a \in StockAdmins, StockFails(a) PROVE TypeOK'
  BY <1>33 DEF StockFails
<1>34. CASE UNCHANGED vars
  BY <1>34 DEF vars
<1> QED
  BY <1>1, <1>2, <1>3, <1>4, <1>5, <1>6, <1>7, <1>8, <1>9, <1>10, <1>11, <1>12, <1>13, <1>14, <1>15, <1>16, <1>17, <1>18, <1>19, <1>20, <1>21, <1>22, <1>23, <1>24, <1>25, <1>26, <1>27, <1>28, <1>29, <1>30, <1>31, <1>32, <1>33, <1>34
  DEF Next, Client, Failure, Approver, Handler, StockAdmin

(* At most one inventory handler holds a product row, in every step. *)
LEMMA RowLocksStep == TypeOK /\ RowLocks /\ Requests /\ [Next]_vars => RowLocks'
<1> SUFFICES ASSUME TypeOK, RowLocks, Requests, [Next]_vars PROVE RowLocks'
  OBVIOUS
<1> USE DEF TypeOK, RowLocks, EmptyCart, orderTables, productTable, approveVars,
  handlerVars, rejectVars, stockVars, history, bounds
<1>1. ASSUME NEW o \in Orders, NEW c \in Carts, CreateOrder(o, c) PROVE RowLocks'
  BY <1>1 DEF CreateOrder
<1>2. ASSUME NEW r \in Approvers, NEW o \in Orders, BeginApprove(r, o) PROVE RowLocks'
  BY <1>2 DEF BeginApprove
<1>3. ASSUME NEW r \in Approvers, LockOrder(r) PROVE RowLocks'
  BY <1>3 DEF LockOrder
<1>4. ASSUME NEW r \in Approvers, SendDeduct(r) PROVE RowLocks'
  BY <1>4 DEF SendDeduct, Requests
<1>5. ASSUME NEW r \in Approvers, ConnectFails(r) PROVE RowLocks'
  BY <1>5 DEF ConnectFails
<1>6. ASSUME NEW r \in Approvers, ReceiveOk(r) PROVE RowLocks'
  BY <1>6 DEF ReceiveOk
<1>7. ASSUME NEW r \in Approvers, ReceiveFailure(r) PROVE RowLocks'
  BY <1>7 DEF ReceiveFailure
<1>8. ASSUME NEW r \in Approvers, Timeout(r) PROVE RowLocks'
  BY <1>8 DEF Timeout
<1>9. ASSUME NEW r \in Approvers, ConnectionReset(r) PROVE RowLocks'
  BY <1>9 DEF ConnectionReset
<1>10. ASSUME NEW r \in Approvers, CommitApproval(r) PROVE RowLocks'
  BY <1>10 DEF CommitApproval
<1>11. ASSUME NEW r \in Approvers, CloseSession(r) PROVE RowLocks'
  BY <1>11 DEF CloseSession
<1>12. ASSUME NEW j \in Rejecters, NEW o \in Orders, ReadForReject(j, o) PROVE RowLocks'
  BY <1>12 DEF ReadForReject
<1>13. ASSUME NEW j \in Rejecters, WriteReject(j) PROVE RowLocks'
  BY <1>13 DEF WriteReject
<1>14. ASSUME OrderServiceCrash PROVE RowLocks'
  BY <1>14 DEF OrderServiceCrash
<1>15. ASSUME NEW r \in Approvers, HandlerBegin(r) PROVE RowLocks'
  <2>1. held[r] = {}
    BY <1>15 DEF HandlerBegin
  <2>2. want' \in [Approvers -> SUBSET Products] /\ \A x \in Approvers : x # r => want'[x] = want[x]
    BY <1>15 DEF HandlerBegin, Needs
  <2> QED
    BY <1>15, <2>1, <2>2 DEF HandlerBegin
<1>16. ASSUME NEW r \in Approvers, NEW p \in Products, LockRow(r, p) PROVE RowLocks'
  BY <1>16 DEF LockRow, RowFree
<1>17. ASSUME NEW r \in Approvers, NEW p \in Products, SkipRow(r, p) PROVE RowLocks'
  BY <1>17 DEF SkipRow
<1>18. ASSUME NEW r \in Approvers, RefuseDeduct(r) PROVE RowLocks'
  BY <1>18 DEF RefuseDeduct
<1>19. ASSUME NEW r \in Approvers, CommitDeduct(r) PROVE RowLocks'
  BY <1>19 DEF CommitDeduct, Needs, Fulfillable
<1>20. ASSUME NEW r \in Approvers, RefreshDeducted(r) PROVE RowLocks'
  BY <1>20 DEF RefreshDeducted
<1>21. ASSUME NEW r \in Approvers, DropReply(r) PROVE RowLocks'
  BY <1>21 DEF DropReply
<1>22. ASSUME NEW r \in Approvers, DeadlockVictim(r) PROVE RowLocks'
  BY <1>22 DEF DeadlockVictim, Deadlocked
<1>23. ASSUME NEW p \in Products, NEW q \in Quantities, CreateProduct(p, q) PROVE RowLocks'
  BY <1>23 DEF CreateProduct
<1>24. ASSUME NEW a \in StockAdmins, NEW p \in Products, NEW q \in Quantities, ReadForStock(a, p, q) PROVE RowLocks'
  BY <1>24 DEF ReadForStock
<1>25. ASSUME NEW a \in StockAdmins, WriteStock(a) PROVE RowLocks'
  BY <1>25 DEF WriteStock, RowFree
<1>26. ASSUME NEW a \in StockAdmins, NEW p \in Products, ReadForDelete(a, p) PROVE RowLocks'
  BY <1>26 DEF ReadForDelete
<1>27. ASSUME NEW a \in StockAdmins, WriteDelete(a) PROVE RowLocks'
  BY <1>27 DEF WriteDelete, RowFree
<1>28. ASSUME InventoryCrash PROVE RowLocks'
  BY <1>28 DEF InventoryCrash
<1>29. ASSUME NEW r \in Approvers, ApproveFails(r) PROVE RowLocks'
  BY <1>29 DEF ApproveFails
<1>30. ASSUME NEW j \in Rejecters, RejectFails(j) PROVE RowLocks'
  BY <1>30 DEF RejectFails
<1>31. ASSUME NEW r \in Approvers, HandlerFails(r) PROVE RowLocks'
  BY <1>31 DEF HandlerFails
<1>32. ASSUME NEW r \in Approvers, RefreshFails(r) PROVE RowLocks'
  BY <1>32 DEF RefreshFails
<1>33. ASSUME NEW a \in StockAdmins, StockFails(a) PROVE RowLocks'
  BY <1>33 DEF StockFails
<1>34. CASE UNCHANGED vars
  BY <1>34 DEF vars
<1> QED
  BY <1>1, <1>2, <1>3, <1>4, <1>5, <1>6, <1>7, <1>8, <1>9, <1>10, <1>11, <1>12, <1>13, <1>14, <1>15, <1>16, <1>17, <1>18, <1>19, <1>20, <1>21, <1>22, <1>23, <1>24, <1>25, <1>26, <1>27, <1>28, <1>29, <1>30, <1>31, <1>32, <1>33, <1>34
  DEF Next, Client, Failure, Approver, Handler, StockAdmin

(* At most one approver holds an order row, in every step. *)
LEMMA OrderLocksStep == TypeOK /\ RowLocks /\ OrderLocks /\ Requests /\ [Next]_vars => OrderLocks'
<1> SUFFICES ASSUME TypeOK, RowLocks, OrderLocks, Requests, [Next]_vars PROVE OrderLocks'
  OBVIOUS
<1> USE DEF TypeOK, OrderLocks, HoldsOrder, orderTables, productTable, approveVars,
  handlerVars, rejectVars, stockVars, history, bounds
<1>1. ASSUME NEW o \in Orders, NEW c \in Carts, CreateOrder(o, c) PROVE OrderLocks'
  BY <1>1 DEF CreateOrder, Requests
<1>2. ASSUME NEW r \in Approvers, NEW o \in Orders, BeginApprove(r, o) PROVE OrderLocks'
  BY <1>2 DEF BeginApprove, Requests
<1>3. ASSUME NEW r \in Approvers, LockOrder(r) PROVE OrderLocks'
  BY <1>3 DEF LockOrder, OrderFree
<1>4. ASSUME NEW r \in Approvers, SendDeduct(r) PROVE OrderLocks'
  BY <1>4 DEF SendDeduct
<1>5. ASSUME NEW r \in Approvers, ConnectFails(r) PROVE OrderLocks'
  BY <1>5 DEF ConnectFails
<1>6. ASSUME NEW r \in Approvers, ReceiveOk(r) PROVE OrderLocks'
  BY <1>6 DEF ReceiveOk
<1>7. ASSUME NEW r \in Approvers, ReceiveFailure(r) PROVE OrderLocks'
  BY <1>7 DEF ReceiveFailure
<1>8. ASSUME NEW r \in Approvers, Timeout(r) PROVE OrderLocks'
  BY <1>8 DEF Timeout
<1>9. ASSUME NEW r \in Approvers, ConnectionReset(r) PROVE OrderLocks'
  BY <1>9 DEF ConnectionReset
<1>10. ASSUME NEW r \in Approvers, CommitApproval(r) PROVE OrderLocks'
  BY <1>10 DEF CommitApproval
<1>11. ASSUME NEW r \in Approvers, CloseSession(r) PROVE OrderLocks'
  BY <1>11 DEF CloseSession
<1>12. ASSUME NEW j \in Rejecters, NEW o \in Orders, ReadForReject(j, o) PROVE OrderLocks'
  BY <1>12 DEF ReadForReject
<1>13. ASSUME NEW j \in Rejecters, WriteReject(j) PROVE OrderLocks'
  BY <1>13 DEF WriteReject, OrderFree
<1>14. ASSUME OrderServiceCrash PROVE OrderLocks'
  BY <1>14 DEF OrderServiceCrash
<1>15. ASSUME NEW r \in Approvers, HandlerBegin(r) PROVE OrderLocks'
  BY <1>15 DEF HandlerBegin
<1>16. ASSUME NEW r \in Approvers, NEW p \in Products, LockRow(r, p) PROVE OrderLocks'
  BY <1>16 DEF LockRow
<1>17. ASSUME NEW r \in Approvers, NEW p \in Products, SkipRow(r, p) PROVE OrderLocks'
  BY <1>17 DEF SkipRow
<1>18. ASSUME NEW r \in Approvers, RefuseDeduct(r) PROVE OrderLocks'
  BY <1>18 DEF RefuseDeduct
<1>19. ASSUME NEW r \in Approvers, CommitDeduct(r) PROVE OrderLocks'
  BY <1>19 DEF CommitDeduct
<1>20. ASSUME NEW r \in Approvers, RefreshDeducted(r) PROVE OrderLocks'
  BY <1>20 DEF RefreshDeducted
<1>21. ASSUME NEW r \in Approvers, DropReply(r) PROVE OrderLocks'
  BY <1>21 DEF DropReply
<1>22. ASSUME NEW r \in Approvers, DeadlockVictim(r) PROVE OrderLocks'
  BY <1>22 DEF DeadlockVictim, Deadlocked
<1>23. ASSUME NEW p \in Products, NEW q \in Quantities, CreateProduct(p, q) PROVE OrderLocks'
  BY <1>23 DEF CreateProduct
<1>24. ASSUME NEW a \in StockAdmins, NEW p \in Products, NEW q \in Quantities, ReadForStock(a, p, q) PROVE OrderLocks'
  BY <1>24 DEF ReadForStock
<1>25. ASSUME NEW a \in StockAdmins, WriteStock(a) PROVE OrderLocks'
  BY <1>25 DEF WriteStock
<1>26. ASSUME NEW a \in StockAdmins, NEW p \in Products, ReadForDelete(a, p) PROVE OrderLocks'
  BY <1>26 DEF ReadForDelete
<1>27. ASSUME NEW a \in StockAdmins, WriteDelete(a) PROVE OrderLocks'
  BY <1>27 DEF WriteDelete
<1>28. ASSUME InventoryCrash PROVE OrderLocks'
  BY <1>28 DEF InventoryCrash
<1>29. ASSUME NEW r \in Approvers, ApproveFails(r) PROVE OrderLocks'
  BY <1>29 DEF ApproveFails
<1>30. ASSUME NEW j \in Rejecters, RejectFails(j) PROVE OrderLocks'
  BY <1>30 DEF RejectFails
<1>31. ASSUME NEW r \in Approvers, HandlerFails(r) PROVE OrderLocks'
  BY <1>31 DEF HandlerFails
<1>32. ASSUME NEW r \in Approvers, RefreshFails(r) PROVE OrderLocks'
  BY <1>32 DEF RefreshFails
<1>33. ASSUME NEW a \in StockAdmins, StockFails(a) PROVE OrderLocks'
  BY <1>33 DEF StockFails
<1>34. CASE UNCHANGED vars
  BY <1>34 DEF vars
<1> QED
  BY <1>1, <1>2, <1>3, <1>4, <1>5, <1>6, <1>7, <1>8, <1>9, <1>10, <1>11, <1>12, <1>13, <1>14, <1>15, <1>16, <1>17, <1>18, <1>19, <1>20, <1>21, <1>22, <1>23, <1>24, <1>25, <1>26, <1>27, <1>28, <1>29, <1>30, <1>31, <1>32, <1>33, <1>34
  DEF Next, Client, Failure, Approver, Handler, StockAdmin

(* An approver and its handler always agree on the stage of the call. *)
LEMMA RequestsStep == TypeOK /\ RowLocks /\ OrderLocks /\ Requests /\ [Next]_vars => Requests'
<1> SUFFICES ASSUME TypeOK, RowLocks, OrderLocks, Requests, [Next]_vars PROVE Requests'
  OBVIOUS
<1> USE DEF TypeOK, Requests, orderTables, productTable, approveVars,
  handlerVars, rejectVars, stockVars, history, bounds
<1>1. ASSUME NEW o \in Orders, NEW c \in Carts, CreateOrder(o, c) PROVE Requests'
  BY <1>1 DEF CreateOrder
<1>2. ASSUME NEW r \in Approvers, NEW o \in Orders, BeginApprove(r, o) PROVE Requests'
  BY <1>2 DEF BeginApprove
<1>3. ASSUME NEW r \in Approvers, LockOrder(r) PROVE Requests'
  BY <1>3 DEF LockOrder
<1>4. ASSUME NEW r \in Approvers, SendDeduct(r) PROVE Requests'
  BY <1>4 DEF SendDeduct
<1>5. ASSUME NEW r \in Approvers, ConnectFails(r) PROVE Requests'
  BY <1>5 DEF ConnectFails
<1>6. ASSUME NEW r \in Approvers, ReceiveOk(r) PROVE Requests'
  BY <1>6 DEF ReceiveOk
<1>7. ASSUME NEW r \in Approvers, ReceiveFailure(r) PROVE Requests'
  BY <1>7 DEF ReceiveFailure
<1>8. ASSUME NEW r \in Approvers, Timeout(r) PROVE Requests'
  BY <1>8 DEF Timeout
<1>9. ASSUME NEW r \in Approvers, ConnectionReset(r) PROVE Requests'
  BY <1>9 DEF ConnectionReset
<1>10. ASSUME NEW r \in Approvers, CommitApproval(r) PROVE Requests'
  BY <1>10 DEF CommitApproval
<1>11. ASSUME NEW r \in Approvers, CloseSession(r) PROVE Requests'
  BY <1>11 DEF CloseSession
<1>12. ASSUME NEW j \in Rejecters, NEW o \in Orders, ReadForReject(j, o) PROVE Requests'
  BY <1>12 DEF ReadForReject
<1>13. ASSUME NEW j \in Rejecters, WriteReject(j) PROVE Requests'
  BY <1>13 DEF WriteReject
<1>14. ASSUME OrderServiceCrash PROVE Requests'
  BY <1>14 DEF OrderServiceCrash
<1>15. ASSUME NEW r \in Approvers, HandlerBegin(r) PROVE Requests'
  BY <1>15 DEF HandlerBegin
<1>16. ASSUME NEW r \in Approvers, NEW p \in Products, LockRow(r, p) PROVE Requests'
  BY <1>16 DEF LockRow, RowLocks
<1>17. ASSUME NEW r \in Approvers, NEW p \in Products, SkipRow(r, p) PROVE Requests'
  BY <1>17 DEF SkipRow, RowLocks
<1>18. ASSUME NEW r \in Approvers, RefuseDeduct(r) PROVE Requests'
  BY <1>18 DEF RefuseDeduct
<1>19. ASSUME NEW r \in Approvers, CommitDeduct(r) PROVE Requests'
  BY <1>19 DEF CommitDeduct
<1>20. ASSUME NEW r \in Approvers, RefreshDeducted(r) PROVE Requests'
  BY <1>20 DEF RefreshDeducted
<1>21. ASSUME NEW r \in Approvers, DropReply(r) PROVE Requests'
  BY <1>21 DEF DropReply
<1>22. ASSUME NEW r \in Approvers, DeadlockVictim(r) PROVE Requests'
  <2>1. want[r] # {}
    BY <1>22 DEF DeadlockVictim, Deadlocked
  <2>2. hpc[r] = "locking"
    BY <2>1 DEF RowLocks
  <2> QED
    BY <1>22, <2>2 DEF DeadlockVictim
<1>23. ASSUME NEW p \in Products, NEW q \in Quantities, CreateProduct(p, q) PROVE Requests'
  BY <1>23 DEF CreateProduct
<1>24. ASSUME NEW a \in StockAdmins, NEW p \in Products, NEW q \in Quantities, ReadForStock(a, p, q) PROVE Requests'
  BY <1>24 DEF ReadForStock
<1>25. ASSUME NEW a \in StockAdmins, WriteStock(a) PROVE Requests'
  BY <1>25 DEF WriteStock
<1>26. ASSUME NEW a \in StockAdmins, NEW p \in Products, ReadForDelete(a, p) PROVE Requests'
  BY <1>26 DEF ReadForDelete
<1>27. ASSUME NEW a \in StockAdmins, WriteDelete(a) PROVE Requests'
  BY <1>27 DEF WriteDelete
<1>28. ASSUME InventoryCrash PROVE Requests'
  BY <1>28 DEF InventoryCrash
<1>29. ASSUME NEW r \in Approvers, ApproveFails(r) PROVE Requests'
  BY <1>29 DEF ApproveFails
<1>30. ASSUME NEW j \in Rejecters, RejectFails(j) PROVE Requests'
  BY <1>30 DEF RejectFails
<1>31. ASSUME NEW r \in Approvers, HandlerFails(r) PROVE Requests'
  BY <1>31 DEF HandlerFails
<1>32. ASSUME NEW r \in Approvers, RefreshFails(r) PROVE Requests'
  BY <1>32 DEF RefreshFails
<1>33. ASSUME NEW a \in StockAdmins, StockFails(a) PROVE Requests'
  BY <1>33 DEF StockFails
<1>34. CASE UNCHANGED vars
  BY <1>34 DEF vars
<1> QED
  BY <1>1, <1>2, <1>3, <1>4, <1>5, <1>6, <1>7, <1>8, <1>9, <1>10, <1>11, <1>12, <1>13, <1>14, <1>15, <1>16, <1>17, <1>18, <1>19, <1>20, <1>21, <1>22, <1>23, <1>24, <1>25, <1>26, <1>27, <1>28, <1>29, <1>30, <1>31, <1>32, <1>33, <1>34
  DEF Next, Client, Failure, Approver, Handler, StockAdmin

(* What a handler or stock request is about to write stays what it read. *)
LEMMA WritesStep == TypeOK /\ RowLocks /\ Writes /\ [Next]_vars => Writes'
<1> SUFFICES ASSUME TypeOK, RowLocks, Writes, [Next]_vars PROVE Writes'
  OBVIOUS
<1> USE DEF TypeOK, Writes, orderTables, productTable, approveVars,
  handlerVars, rejectVars, stockVars, history, bounds
<1> USE QuantitiesAssumption
<1>1. ASSUME NEW o \in Orders, NEW c \in Carts, CreateOrder(o, c) PROVE Writes'
  BY <1>1 DEF CreateOrder
<1>2. ASSUME NEW r \in Approvers, NEW o \in Orders, BeginApprove(r, o) PROVE Writes'
  BY <1>2 DEF BeginApprove
<1>3. ASSUME NEW r \in Approvers, LockOrder(r) PROVE Writes'
  BY <1>3 DEF LockOrder
<1>4. ASSUME NEW r \in Approvers, SendDeduct(r) PROVE Writes'
  BY <1>4 DEF SendDeduct
<1>5. ASSUME NEW r \in Approvers, ConnectFails(r) PROVE Writes'
  BY <1>5 DEF ConnectFails
<1>6. ASSUME NEW r \in Approvers, ReceiveOk(r) PROVE Writes'
  BY <1>6 DEF ReceiveOk
<1>7. ASSUME NEW r \in Approvers, ReceiveFailure(r) PROVE Writes'
  BY <1>7 DEF ReceiveFailure
<1>8. ASSUME NEW r \in Approvers, Timeout(r) PROVE Writes'
  BY <1>8 DEF Timeout
<1>9. ASSUME NEW r \in Approvers, ConnectionReset(r) PROVE Writes'
  BY <1>9 DEF ConnectionReset
<1>10. ASSUME NEW r \in Approvers, CommitApproval(r) PROVE Writes'
  BY <1>10 DEF CommitApproval
<1>11. ASSUME NEW r \in Approvers, CloseSession(r) PROVE Writes'
  BY <1>11 DEF CloseSession
<1>12. ASSUME NEW j \in Rejecters, NEW o \in Orders, ReadForReject(j, o) PROVE Writes'
  BY <1>12 DEF ReadForReject
<1>13. ASSUME NEW j \in Rejecters, WriteReject(j) PROVE Writes'
  BY <1>13 DEF WriteReject
<1>14. ASSUME OrderServiceCrash PROVE Writes'
  BY <1>14 DEF OrderServiceCrash
<1>15. ASSUME NEW r \in Approvers, HandlerBegin(r) PROVE Writes'
  BY <1>15 DEF HandlerBegin
<1>16. ASSUME NEW r \in Approvers, NEW p \in Products, LockRow(r, p) PROVE Writes'
  BY <1>16 DEF LockRow, RowLocks
<1>17. ASSUME NEW r \in Approvers, NEW p \in Products, SkipRow(r, p) PROVE Writes'
  BY <1>17 DEF SkipRow
<1>18. ASSUME NEW r \in Approvers, RefuseDeduct(r) PROVE Writes'
  BY <1>18 DEF RefuseDeduct
<1>19. ASSUME NEW r \in Approvers, CommitDeduct(r) PROVE Writes'
  BY <1>19 DEF CommitDeduct, Needs, Fulfillable, RowLocks
<1>20. ASSUME NEW r \in Approvers, RefreshDeducted(r) PROVE Writes'
  BY <1>20 DEF RefreshDeducted
<1>21. ASSUME NEW r \in Approvers, DropReply(r) PROVE Writes'
  BY <1>21 DEF DropReply
<1>22. ASSUME NEW r \in Approvers, DeadlockVictim(r) PROVE Writes'
  BY <1>22 DEF DeadlockVictim
<1>23. ASSUME NEW p \in Products, NEW q \in Quantities, CreateProduct(p, q) PROVE Writes'
  BY <1>23 DEF CreateProduct
<1>24. ASSUME NEW a \in StockAdmins, NEW p \in Products, NEW q \in Quantities, ReadForStock(a, p, q) PROVE Writes'
  BY <1>24 DEF ReadForStock
<1>25. ASSUME NEW a \in StockAdmins, WriteStock(a) PROVE Writes'
  BY <1>25 DEF WriteStock
<1>26. ASSUME NEW a \in StockAdmins, NEW p \in Products, ReadForDelete(a, p) PROVE Writes'
  BY <1>26 DEF ReadForDelete
<1>27. ASSUME NEW a \in StockAdmins, WriteDelete(a) PROVE Writes'
  BY <1>27 DEF WriteDelete
<1>28. ASSUME InventoryCrash PROVE Writes'
  BY <1>28 DEF InventoryCrash
<1>29. ASSUME NEW r \in Approvers, ApproveFails(r) PROVE Writes'
  BY <1>29 DEF ApproveFails
<1>30. ASSUME NEW j \in Rejecters, RejectFails(j) PROVE Writes'
  BY <1>30 DEF RejectFails
<1>31. ASSUME NEW r \in Approvers, HandlerFails(r) PROVE Writes'
  BY <1>31 DEF HandlerFails
<1>32. ASSUME NEW r \in Approvers, RefreshFails(r) PROVE Writes'
  BY <1>32 DEF RefreshFails
<1>33. ASSUME NEW a \in StockAdmins, StockFails(a) PROVE Writes'
  BY <1>33 DEF StockFails
<1>34. CASE UNCHANGED vars
  BY <1>34 DEF vars
<1> QED
  BY <1>1, <1>2, <1>3, <1>4, <1>5, <1>6, <1>7, <1>8, <1>9, <1>10, <1>11, <1>12, <1>13, <1>14, <1>15, <1>16, <1>17, <1>18, <1>19, <1>20, <1>21, <1>22, <1>23, <1>24, <1>25, <1>26, <1>27, <1>28, <1>29, <1>30, <1>31, <1>32, <1>33, <1>34
  DEF Next, Client, Failure, Approver, Handler, StockAdmin

(* No step loses the deduction of an approved order, of a request that has *)
(* one to record, or invents one for an order not placed yet.              *)
Entries == Unplaced /\ Counted /\ ApprovedWasDeducted
LEMMA EntriesStep == IInv /\ [Next]_vars => Entries'
<1> SUFFICES ASSUME IInv, [Next]_vars PROVE Entries'
  OBVIOUS
<1> USE DEF IInv, TypeOK, Requests, Accounts, Entries, Unplaced, Counted, ApprovedWasDeducted,
  Deducted, orderTables, productTable, approveVars, handlerVars, rejectVars, stockVars,
  history, bounds
<1>1. ASSUME NEW o \in Orders, NEW c \in Carts, CreateOrder(o, c) PROVE Entries'
  BY <1>1 DEF CreateOrder
<1>2. ASSUME NEW r \in Approvers, NEW o \in Orders, BeginApprove(r, o) PROVE Entries'
  BY <1>2 DEF BeginApprove
<1>3. ASSUME NEW r \in Approvers, LockOrder(r) PROVE Entries'
  BY <1>3 DEF LockOrder
<1>4. ASSUME NEW r \in Approvers, SendDeduct(r) PROVE Entries'
  BY <1>4 DEF SendDeduct
<1>5. ASSUME NEW r \in Approvers, ConnectFails(r) PROVE Entries'
  BY <1>5 DEF ConnectFails
<1>6. ASSUME NEW r \in Approvers, ReceiveOk(r) PROVE Entries'
  BY <1>6 DEF ReceiveOk
<1>7. ASSUME NEW r \in Approvers, ReceiveFailure(r) PROVE Entries'
  BY <1>7 DEF ReceiveFailure
<1>8. ASSUME NEW r \in Approvers, Timeout(r) PROVE Entries'
  BY <1>8 DEF Timeout
<1>9. ASSUME NEW r \in Approvers, ConnectionReset(r) PROVE Entries'
  BY <1>9 DEF ConnectionReset
<1>10. ASSUME NEW r \in Approvers, CommitApproval(r) PROVE Entries'
  BY <1>10 DEF CommitApproval
<1>11. ASSUME NEW r \in Approvers, ApproveFails(r) PROVE Entries'
  BY <1>11 DEF ApproveFails
<1>12. ASSUME NEW r \in Approvers, CloseSession(r) PROVE Entries'
  BY <1>12 DEF CloseSession
<1>13. ASSUME NEW j \in Rejecters, NEW o \in Orders, ReadForReject(j, o) PROVE Entries'
  BY <1>13 DEF ReadForReject
<1>14. ASSUME NEW j \in Rejecters, WriteReject(j) PROVE Entries'
  BY <1>14 DEF WriteReject
<1>15. ASSUME NEW j \in Rejecters, RejectFails(j) PROVE Entries'
  BY <1>15 DEF RejectFails
<1>16. ASSUME OrderServiceCrash PROVE Entries'
  BY <1>16 DEF OrderServiceCrash
<1>17. ASSUME NEW r \in Approvers, HandlerBegin(r) PROVE Entries'
  BY <1>17 DEF HandlerBegin
<1>18. ASSUME NEW r \in Approvers, NEW p \in Products, LockRow(r, p) PROVE Entries'
  BY <1>18 DEF LockRow
<1>19. ASSUME NEW r \in Approvers, NEW p \in Products, SkipRow(r, p) PROVE Entries'
  BY <1>19 DEF SkipRow
<1>20. ASSUME NEW r \in Approvers, RefuseDeduct(r) PROVE Entries'
  BY <1>20 DEF RefuseDeduct
<1>21. ASSUME NEW r \in Approvers, CommitDeduct(r) PROVE Entries'
  BY <1>21 DEF CommitDeduct
<1>22. ASSUME NEW r \in Approvers, RefreshDeducted(r) PROVE Entries'
  BY <1>22 DEF RefreshDeducted
<1>23. ASSUME NEW r \in Approvers, RefreshFails(r) PROVE Entries'
  BY <1>23 DEF RefreshFails
<1>24. ASSUME NEW r \in Approvers, HandlerFails(r) PROVE Entries'
  BY <1>24 DEF HandlerFails
<1>25. ASSUME NEW r \in Approvers, DropReply(r) PROVE Entries'
  BY <1>25 DEF DropReply
<1>26. ASSUME NEW r \in Approvers, DeadlockVictim(r) PROVE Entries'
  <2>1. want[r] # {}
    BY <1>26 DEF DeadlockVictim, Deadlocked
  <2>2. hpc[r] = "locking"
    BY <2>1 DEF RowLocks
  <2> QED
    BY <1>26, <2>2 DEF DeadlockVictim
<1>27. ASSUME NEW p \in Products, NEW q \in Quantities, CreateProduct(p, q) PROVE Entries'
  BY <1>27 DEF CreateProduct
<1>28. ASSUME NEW a \in StockAdmins, NEW p \in Products, NEW q \in Quantities, ReadForStock(a, p, q) PROVE Entries'
  BY <1>28 DEF ReadForStock
<1>29. ASSUME NEW a \in StockAdmins, WriteStock(a) PROVE Entries'
  BY <1>29 DEF WriteStock
<1>30. ASSUME NEW a \in StockAdmins, NEW p \in Products, ReadForDelete(a, p) PROVE Entries'
  BY <1>30 DEF ReadForDelete
<1>31. ASSUME NEW a \in StockAdmins, WriteDelete(a) PROVE Entries'
  BY <1>31 DEF WriteDelete
<1>32. ASSUME NEW a \in StockAdmins, StockFails(a) PROVE Entries'
  BY <1>32 DEF StockFails
<1>33. ASSUME InventoryCrash PROVE Entries'
  BY <1>33 DEF InventoryCrash
<1>34. CASE UNCHANGED vars
  BY <1>34 DEF vars
<1> QED
  BY <1>1, <1>2, <1>3, <1>4, <1>5, <1>6, <1>7, <1>8, <1>9, <1>10, <1>11, <1>12, <1>13, <1>14,
    <1>15, <1>16, <1>17, <1>18, <1>19, <1>20, <1>21, <1>22, <1>23, <1>24, <1>25, <1>26, <1>27,
    <1>28, <1>29, <1>30, <1>31, <1>32, <1>33, <1>34
  DEF Next, Client, Failure, Approver, Handler, StockAdmin

(* What a step may do to an order without touching its balance: no call of *)
(* it loses its caller, and what was to its credit stays there.            *)
Kept(o) ==
  /\ deducted'[o] = deducted[o] /\ unrecorded'[o] = unrecorded[o]
  /\ \A x \in Approvers :
       aord'[x] = o /\ apc'[x] # "waiting" /\ hpc'[x] \in {"sent", "locking"} =>
         aord[x] = o /\ apc[x] # "waiting" /\ hpc[x] \in {"sent", "locking"}
  /\ DecidedOrder(o) => DecidedOrder(o)'
  /\ \A x \in Approvers :
       aord[x] = o /\ Credited(x) => (aord'[x] = o /\ Credited(x)') \/ DecidedOrder(o)'

(* A credit is one or nothing, and it stays while its reason does.         *)
LEMMA CreditKept ==
  ASSUME NEW o \in Orders,
         DecidedOrder(o) => DecidedOrder(o)',
         \A x \in Approvers :
           aord[x] = o /\ Credited(x) => (aord'[x] = o /\ Credited(x)') \/ DecidedOrder(o)'
  PROVE  Credit(o) \in {0, 1} /\ Credit(o)' \in {0, 1} /\ Credit(o) <= Credit(o)'
<1>1. Credit(o) \in {0, 1} /\ Credit(o)' \in {0, 1}
  BY DEF Credit
<1>2. Credit(o) = 1 => Credit(o)' = 1
  BY DEF Credit
<1> QED
  BY <1>1, <1>2

(* Fewer calls without a caller and no less credit keep the balance.       *)
LEMMA KeptBalance ==
  ASSUME TypeOK, TypeOK', NEW o \in Orders, Balance(o), Kept(o)
  PROVE  Balance(o)'
<1>1. Orphans(o)' \subseteq Orphans(o)
  BY DEF Kept, Orphans
<1>2. /\ IsFiniteSet(Orphans(o)') /\ Cardinality(Orphans(o)') <= Cardinality(Orphans(o))
      /\ Cardinality(Orphans(o)) \in Nat /\ Cardinality(Orphans(o)') \in Nat
  BY <1>1, FS_Subset, FS_CardinalityType DEF Balance
<1>3. Credit(o) \in {0, 1} /\ Credit(o)' \in {0, 1} /\ Credit(o) <= Credit(o)'
  BY CreditKept DEF Kept
<1> QED
  BY <1>2, <1>3 DEF Balance, Kept, TypeOK

(* One more lost call pays for the credit it had, or for one more call     *)
(* without a caller.                                                       *)
LEMMA PaidBalance ==
  ASSUME TypeOK, TypeOK', NEW o \in Orders, Balance(o), NEW h,
         deducted'[o] = deducted[o], unrecorded'[o] = unrecorded[o] + 1,
         \/ Orphans(o)' \subseteq Orphans(o)
         \/ Orphans(o)' \subseteq Orphans(o) \cup {h} /\ Credit(o) <= Credit(o)'
  PROVE  Balance(o)'
<1>1. Credit(o) \in {0, 1} /\ Credit(o)' \in {0, 1}
  BY DEF Credit
<1>2. Cardinality(Orphans(o)) \in Nat
  BY FS_CardinalityType DEF Balance
<1>3. CASE Orphans(o)' \subseteq Orphans(o)
  <2>1. /\ IsFiniteSet(Orphans(o)') /\ Cardinality(Orphans(o)') <= Cardinality(Orphans(o))
        /\ Cardinality(Orphans(o)') \in Nat
    BY <1>3, FS_Subset, FS_CardinalityType DEF Balance
  <2> QED
    BY <1>1, <1>2, <2>1 DEF Balance, TypeOK
<1>4. CASE Orphans(o)' \subseteq Orphans(o) \cup {h} /\ Credit(o) <= Credit(o)'
  <2>1. /\ IsFiniteSet(Orphans(o) \cup {h})
        /\ Cardinality(Orphans(o) \cup {h}) <= Cardinality(Orphans(o)) + 1
        /\ Cardinality(Orphans(o) \cup {h}) \in Nat
    <3>1. IsFiniteSet(Orphans(o))
      BY DEF Balance
    <3>2. /\ IsFiniteSet(Orphans(o) \cup {h})
          /\ Cardinality(Orphans(o) \cup {h}) =
               IF h \in Orphans(o) THEN Cardinality(Orphans(o)) ELSE Cardinality(Orphans(o)) + 1
      BY <3>1, FS_AddElement
    <3> QED
      BY <1>2, <3>2
  <2>2. /\ IsFiniteSet(Orphans(o)')
        /\ Cardinality(Orphans(o)') <= Cardinality(Orphans(o) \cup {h})
        /\ Cardinality(Orphans(o)') \in Nat
    BY <1>4, <2>1, FS_Subset, FS_CardinalityType
  <2> QED
    BY <1>1, <1>2, <1>4, <2>1, <2>2 DEF Balance, TypeOK
<1> QED
  BY <1>3, <1>4

(* A request that stops waiting for its call, or cannot record what it did,*)
(* costs its order a lost call, unless the call had failed.                *)
LEMMA LossBalance ==
  ASSUME IInv, TypeOK', NEW o \in Orders, NEW S \in SUBSET Approvers,
         deducted' = deducted, status' = status, aord' = aord,
         unrecorded' = Forgetting(S),
         \A x \in Approvers \ S : apc'[x] = apc[x] /\ hpc'[x] = hpc[x],
         \A x \in S : apc'[x] \notin {"waiting", "commit"} /\ hpc'[x] \in {hpc[x], "idle"}
  PROVE  Balance(o)'
<1> USE DEF IInv
<1>0. Balance(o) /\ Orphans(o) \subseteq Approvers
  BY DEF Accounts, Balanced, Orphans
<1>1. CASE \A x \in S : aord[x] = o => ~Unsettled(x)
  <2>1. unrecorded'[o] = unrecorded[o]
    BY <1>1 DEF Forgetting, TypeOK
  <2>2. ASSUME NEW x \in Approvers, aord'[x] = o, apc'[x] # "waiting",
               hpc'[x] \in {"sent", "locking"}
        PROVE  apc[x] # "waiting" /\ hpc[x] \in {"sent", "locking"}
    BY <1>1, <2>2 DEF Unsettled
  <2>3. ASSUME NEW x \in Approvers, aord[x] = o, Credited(x)
        PROVE  aord'[x] = o /\ Credited(x)'
    BY <1>1, <2>3 DEF Unsettled, Credited, Deducted
  <2>4. Kept(o)
    BY <2>1, <2>2, <2>3 DEF Kept, DecidedOrder
  <2> QED
    BY <1>0, <2>4, KeptBalance
<1>2. CASE \E x \in S : aord[x] = o /\ Unsettled(x)
  <2>1. PICK h \in S : aord[h] = o /\ Unsettled(h)
    BY <1>2
  <2>2. unrecorded'[o] = unrecorded[o] + 1
    BY <2>1 DEF Forgetting
  <2>3. status[o] = "pending" /\ \A x \in Approvers : HoldsOrder(x, o) => x = h
    BY <2>1 DEF OrderLocks, HoldsOrder, Unsettled
  <2>4. ASSUME NEW x \in Orphans(o)' PROVE x = h \/ x \in Orphans(o)
    BY <2>3, <2>4 DEF Orphans, HoldsOrder, TypeOK
  <2>5. CASE Credited(h)
    <3>1. hpc[h] \notin {"sent", "locking"}
      BY <2>5 DEF Credited, Deducted, Requests
    <3>2. h \notin Orphans(o)'
      BY <2>1, <3>1 DEF Orphans
    <3> QED
      BY <1>0, <2>2, <2>4, <3>2, PaidBalance
  <2>6. CASE ~Credited(h)
    <3>1. ~DecidedOrder(o)
      BY <2>3 DEF DecidedOrder
    <3>2. ASSUME NEW x \in Approvers, aord[x] = o, Credited(x) PROVE FALSE
      BY <2>3, <2>6, <3>2 DEF Credited, Deducted, HoldsOrder
    <3>3. Credit(o) = 0 /\ Credit(o)' \in {0, 1}
      BY <3>1, <3>2 DEF Credit
    <3>4. Credit(o) <= Credit(o)'
      BY <3>3
    <3> QED
      BY <1>0, <2>2, <2>4, <3>4, PaidBalance
  <2> QED
    BY <2>5, <2>6
<1> QED
  BY <1>1, <1>2

(* A committed deduction uses up what was paid for its call, or is to the  *)
(* credit of the caller that waits for it.                                 *)
LEMMA CommitBalance ==
  ASSUME IInv, TypeOK', NEW o \in Orders, NEW r \in Approvers, CommitDeduct(r)
  PROVE  Balance(o)'
<1> USE DEF IInv
<1>0. Balance(o) /\ Cardinality(Orphans(o)) \in Nat
  BY FS_CardinalityType DEF Accounts, Balanced, Balance
<1>1. /\ hpc[r] = "locking" /\ hpc' = [hpc EXCEPT ![r] = "committed"]
      /\ deducted' = [deducted EXCEPT ![aord[r]] = @ + 1]
      /\ unrecorded' = unrecorded /\ status' = status /\ apc' = apc /\ aord' = aord
  BY DEF CommitDeduct, orderTables, approveVars
<1>2. CASE aord[r] # o
  <2>1. Kept(o)
    BY <1>1, <1>2 DEF Kept, DecidedOrder, Credited, Deducted, TypeOK
  <2> QED
    BY <1>0, <2>1, KeptBalance
<1>3. CASE aord[r] = o /\ apc[r] = "waiting"
  <2>1. status[o] = "pending" /\ \A x \in Approvers : HoldsOrder(x, o) => x = r
    BY <1>3 DEF OrderLocks, HoldsOrder
  <2>2. ASSUME NEW x \in Approvers, aord[x] = o, Credited(x) PROVE FALSE
    <3>1. (HoldsOrder(x, o) /\ hpc[x] # "locking") \/ apc[x] = "commit"
      BY <2>2 DEF Credited, Deducted, HoldsOrder
    <3>2. HoldsOrder(x, o)
      BY <2>2, <3>1 DEF HoldsOrder
    <3> QED
      BY <1>1, <1>3, <2>1, <3>1, <3>2
  <2>3. Credit(o) = 0
    BY <2>1, <2>2 DEF Credit, DecidedOrder
  <2>4. Credited(r)'
    BY <1>1, <1>3 DEF Credited, Deducted, TypeOK
  <2>5. Credit(o)' = 1
    BY <1>1, <1>3, <2>4 DEF Credit
  <2>6. Orphans(o)' = Orphans(o)
    BY <1>1, <1>3 DEF Orphans, TypeOK
  <2>7. deducted'[o] = deducted[o] + 1
    BY <1>1, <1>3 DEF TypeOK
  <2> QED
    BY <1>0, <1>1, <2>3, <2>5, <2>6, <2>7 DEF Balance, TypeOK
<1>4. CASE aord[r] = o /\ apc[r] # "waiting"
  <2>1. Orphans(o)' = Orphans(o) \ {r} /\ r \in Orphans(o)
    BY <1>1, <1>4 DEF Orphans, TypeOK
  <2>2. IsFiniteSet(Orphans(o)') /\ Cardinality(Orphans(o)') = Cardinality(Orphans(o)) - 1
    BY <1>0, <2>1, FS_RemoveElement DEF Balance
  <2>3. ASSUME NEW x \in Approvers, aord[x] = o, Credited(x)
        PROVE  aord'[x] = o /\ Credited(x)'
    BY <1>1, <1>4, <2>3 DEF Credited, Deducted, Requests, TypeOK
  <2>4. Credit(o) \in {0, 1} /\ Credit(o)' \in {0, 1} /\ Credit(o) <= Credit(o)'
    BY <1>1, <2>3, CreditKept DEF DecidedOrder
  <2>5. deducted'[o] = deducted[o] + 1
    BY <1>1, <1>4 DEF TypeOK
  <2> QED
    BY <1>0, <1>1, <2>2, <2>4, <2>5 DEF Balance, TypeOK
<1> QED
  BY <1>2, <1>3, <1>4

(* No step deducts a cart that is neither paid for by a lost call nor due. *)
LEMMA BalancedStep == IInv /\ TypeOK' /\ [Next]_vars => Balanced'
<1> SUFFICES ASSUME IInv, TypeOK', [Next]_vars, NEW o \in Orders PROVE Balance(o)'
  BY DEF Balanced
<1>0. Balance(o) /\ TypeOK
  BY DEF IInv, Accounts, Balanced
<1> USE DEF IInv, TypeOK, Requests, Kept, DecidedOrder, Credited, Deducted, orderTables,
  productTable, approveVars, handlerVars, rejectVars, stockVars, history, bounds
<1>1. ASSUME NEW y \in Orders, NEW c \in Carts, CreateOrder(y, c) PROVE Kept(o)
  BY <1>1 DEF CreateOrder
<1>2. ASSUME NEW r \in Approvers, NEW y \in Orders, BeginApprove(r, y) PROVE Kept(o)
  BY <1>2 DEF BeginApprove
<1>3. ASSUME NEW r \in Approvers, LockOrder(r) PROVE Kept(o)
  BY <1>3 DEF LockOrder
<1>4. ASSUME NEW r \in Approvers, SendDeduct(r) PROVE Kept(o)
  BY <1>4 DEF SendDeduct
<1>5. ASSUME NEW r \in Approvers, ConnectFails(r) PROVE Kept(o)
  BY <1>5 DEF ConnectFails
<1>6. ASSUME NEW r \in Approvers, ReceiveOk(r) PROVE Kept(o)
  BY <1>6 DEF ReceiveOk
<1>7. ASSUME NEW r \in Approvers, ReceiveFailure(r) PROVE Kept(o)
  BY <1>7 DEF ReceiveFailure
<1>8. ASSUME NEW r \in Approvers, Timeout(r) PROVE Balance(o)'
  <2>1. /\ deducted' = deducted /\ status' = status /\ aord' = aord
        /\ unrecorded' = Forgetting({r})
        /\ \A x \in Approvers \ {r} : apc'[x] = apc[x] /\ hpc'[x] = hpc[x]
        /\ \A x \in {r} : apc'[x] \notin {"waiting", "commit"} /\ hpc'[x] \in {hpc[x], "idle"}
    BY <1>8 DEF Timeout
  <2> HIDE DEF IInv, TypeOK
  <2> QED
    BY <2>1, LossBalance
<1>9. ASSUME NEW r \in Approvers, ConnectionReset(r) PROVE Balance(o)'
  <2>1. /\ deducted' = deducted /\ status' = status /\ aord' = aord
        /\ unrecorded' = Forgetting({r})
        /\ \A x \in Approvers \ {r} : apc'[x] = apc[x] /\ hpc'[x] = hpc[x]
        /\ \A x \in {r} : apc'[x] \notin {"waiting", "commit"} /\ hpc'[x] \in {hpc[x], "idle"}
    BY <1>9 DEF ConnectionReset
  <2> HIDE DEF IInv, TypeOK
  <2> QED
    BY <2>1, LossBalance
<1>10. ASSUME NEW r \in Approvers, CommitApproval(r) PROVE Kept(o)
  BY <1>10 DEF CommitApproval
<1>11. ASSUME NEW r \in Approvers, ApproveFails(r) PROVE Balance(o)'
  <2>1. /\ deducted' = deducted /\ status' = status /\ aord' = aord
        /\ unrecorded' = Forgetting({r})
        /\ \A x \in Approvers \ {r} : apc'[x] = apc[x] /\ hpc'[x] = hpc[x]
        /\ \A x \in {r} : apc'[x] \notin {"waiting", "commit"} /\ hpc'[x] \in {hpc[x], "idle"}
    BY <1>11 DEF ApproveFails
  <2> HIDE DEF IInv, TypeOK
  <2> QED
    BY <2>1, LossBalance
<1>12. ASSUME NEW r \in Approvers, CloseSession(r) PROVE Kept(o)
  BY <1>12 DEF CloseSession
<1>13. ASSUME NEW j \in Rejecters, NEW y \in Orders, ReadForReject(j, y) PROVE Kept(o)
  BY <1>13 DEF ReadForReject
<1>14. ASSUME NEW j \in Rejecters, WriteReject(j) PROVE Kept(o)
  BY <1>14 DEF WriteReject
<1>15. ASSUME NEW j \in Rejecters, RejectFails(j) PROVE Kept(o)
  BY <1>15 DEF RejectFails
<1>16. ASSUME OrderServiceCrash PROVE Balance(o)'
  <2>1. /\ deducted' = deducted /\ status' = status /\ aord' = aord
        /\ unrecorded' = Forgetting(Approvers)
        /\ \A x \in Approvers : apc'[x] = "idle" /\ hpc'[x] = hpc[x]
    BY <1>16 DEF OrderServiceCrash
  <2> HIDE DEF IInv, TypeOK
  <2> QED
    BY <2>1, LossBalance
<1>17. ASSUME NEW r \in Approvers, HandlerBegin(r) PROVE Kept(o)
  BY <1>17 DEF HandlerBegin
<1>18. ASSUME NEW r \in Approvers, NEW p \in Products, LockRow(r, p) PROVE Kept(o)
  BY <1>18 DEF LockRow
<1>19. ASSUME NEW r \in Approvers, NEW p \in Products, SkipRow(r, p) PROVE Kept(o)
  BY <1>19 DEF SkipRow
<1>20. ASSUME NEW r \in Approvers, RefuseDeduct(r) PROVE Kept(o)
  BY <1>20 DEF RefuseDeduct
<1>21. ASSUME NEW r \in Approvers, CommitDeduct(r) PROVE Balance(o)'
  BY <1>21, CommitBalance
<1>22. ASSUME NEW r \in Approvers, RefreshDeducted(r) PROVE Kept(o)
  BY <1>22 DEF RefreshDeducted
<1>23. ASSUME NEW r \in Approvers, RefreshFails(r) PROVE Balance(o)'
  <2>1. /\ hpc[r] = "committed" /\ hpc' = [hpc EXCEPT ![r] = "failed"]
        /\ deducted' = deducted /\ status' = status /\ aord' = aord /\ apc' = apc
        /\ unrecorded' = Forgetting({r})
    BY <1>23 DEF RefreshFails
  <2>2. CASE aord[r] = o /\ Unsettled(r)
    <3>1. unrecorded'[o] = unrecorded[o] + 1
      BY <2>1, <2>2 DEF Forgetting
    <3>2. Orphans(o)' \subseteq Orphans(o)
      BY <2>1 DEF Orphans
    <3> QED
      BY <1>0, <2>1, <3>1, <3>2, PaidBalance
  <2>3. CASE ~(aord[r] = o /\ Unsettled(r))
    <3>1. unrecorded'[o] = unrecorded[o]
      BY <2>1, <2>3 DEF Forgetting
    <3>2. Kept(o)
      BY <2>1, <2>3, <3>1 DEF Kept, Unsettled, DecidedOrder, Credited, Deducted
    <3> QED
      BY <1>0, <3>2, KeptBalance
  <2> QED
    BY <2>2, <2>3
<1>24. ASSUME NEW r \in Approvers, HandlerFails(r) PROVE Kept(o)
  BY <1>24 DEF HandlerFails
<1>25. ASSUME NEW r \in Approvers, DropReply(r) PROVE Kept(o)
  BY <1>25 DEF DropReply
<1>26. ASSUME NEW r \in Approvers, DeadlockVictim(r) PROVE Kept(o)
  <2>1. want[r] # {}
    BY <1>26 DEF DeadlockVictim, Deadlocked
  <2>2. hpc[r] = "locking"
    BY <2>1 DEF RowLocks
  <2> QED
    BY <1>26, <2>2 DEF DeadlockVictim
<1>27. ASSUME NEW p \in Products, NEW q \in Quantities, CreateProduct(p, q) PROVE Kept(o)
  BY <1>27 DEF CreateProduct
<1>28. ASSUME NEW a \in StockAdmins, NEW p \in Products, NEW q \in Quantities, ReadForStock(a, p, q) PROVE Kept(o)
  BY <1>28 DEF ReadForStock
<1>29. ASSUME NEW a \in StockAdmins, WriteStock(a) PROVE Kept(o)
  BY <1>29 DEF WriteStock
<1>30. ASSUME NEW a \in StockAdmins, NEW p \in Products, ReadForDelete(a, p) PROVE Kept(o)
  BY <1>30 DEF ReadForDelete
<1>31. ASSUME NEW a \in StockAdmins, WriteDelete(a) PROVE Kept(o)
  BY <1>31 DEF WriteDelete
<1>32. ASSUME NEW a \in StockAdmins, StockFails(a) PROVE Kept(o)
  BY <1>32 DEF StockFails
<1>33. ASSUME InventoryCrash PROVE Kept(o)
  BY <1>33 DEF InventoryCrash
<1>34. ASSUME UNCHANGED vars PROVE Kept(o)
  BY <1>34 DEF vars
<1>35. Kept(o) => Balance(o)'
  BY <1>0, KeptBalance
<1> HIDE DEF IInv, TypeOK, Requests, Kept
<1> QED
  BY <1>1, <1>2, <1>3, <1>4, <1>5, <1>6, <1>7, <1>8, <1>9, <1>10, <1>11, <1>12, <1>13, <1>14,
    <1>15, <1>16, <1>17, <1>18, <1>19, <1>20, <1>21, <1>22, <1>23, <1>24, <1>25, <1>26, <1>27,
    <1>28, <1>29, <1>30, <1>31, <1>32, <1>33, <1>34, <1>35
  DEF Next, Client, Failure, Approver, Handler, StockAdmin

(* The inductive invariant holds in the initial states. *)
LEMMA IInvInit == Init => IInv
<1> SUFFICES ASSUME Init PROVE IInv
  OBVIOUS
<1>1. TypeOK
  BY TypeInit
<1>2. RowLocks /\ OrderLocks /\ Requests
  BY <1>1 DEF Init, RowLocks, OrderLocks, HoldsOrder, Requests, TypeOK
<1>3. Accounts
  <2>1. Unplaced /\ Counted /\ ApprovedWasDeducted
    BY <1>1 DEF Init, Unplaced, Counted, Deducted, ApprovedWasDeducted, TypeOK
  <2>2. ASSUME NEW o \in Orders PROVE Balance(o)
    <3>1. Orphans(o) = {}
      BY DEF Init, Orphans
    <3>2. Credit(o) \in {0, 1} /\ deducted[o] = 0 /\ unrecorded[o] = 0
      BY DEF Init, Credit
    <3> QED
      BY <3>1, <3>2, FS_EmptySet DEF Balance
  <2> QED
    BY <2>1, <2>2 DEF Accounts, Balanced
<1>4. Writes
  <2>1. \A p \in Products : stock[p] \in Quantities \cup {0}
    BY DEF Init
  <2>2. \A p \in Products : stock[p] >= 0
    <3>1. Quantities \cup {0} \subseteq Nat
      BY QuantitiesAssumption
    <3>2. \A p \in Products : stock[p] \in Nat
      BY <2>1, <3>1, Zenon
    <3> QED
      BY <3>2
  <2>3. \A a \in StockAdmins : spc[a] = "idle"
    BY DEF Init
  <2> QED
    BY <2>2, <2>3 DEF Writes
<1> QED
  BY <1>1, <1>2, <1>3, <1>4 DEF IInv

(* The inductive invariant is kept by every step. *)
LEMMA IInvStep == IInv /\ [Next]_vars => IInv'
  BY TypeStep, RowLocksStep, OrderLocksStep, RequestsStep, EntriesStep, BalancedStep, WritesStep
  DEF IInv, Accounts, Entries

(* The conjunction of the locking discipline, of who may run on whose      *)
(* behalf and of the accounts of deductions is inductive.                  *)
THEOREM Invariance == Spec => []IInv
  BY IInvInit, IInvStep, PTL DEF Spec

(* TypeOK holds of the order-service and inventory-service together, for   *)
(* any number of orders, products and concurrent requests.                 *)
THEOREM TypeCorrect == Spec => []TypeOK
<1>1. IInv => TypeOK
  BY DEF IInv
<1> QED
  BY Invariance, <1>1, PTL

(* StockNeverNegative: deduct_product_stock never takes more than there    *)
(* is, for any number of concurrent deductions and stock updates.          *)
THEOREM NeverNegative == Spec => []StockNeverNegative
<1>1. IInv => StockNeverNegative
  BY DEF IInv, Writes, StockNeverNegative
<1> QED
  BY Invariance, <1>1, PTL

(* ApprovedWasDeducted: approve_order never approves an order whose cart   *)
(* was not taken from the stock.                                           *)
THEOREM ApprovedDeducted == Spec => []ApprovedWasDeducted
<1>1. IInv => ApprovedWasDeducted
  BY DEF IInv, Accounts
<1> QED
  BY Invariance, <1>1, PTL

(* What the balance of an order says of its deductions.                    *)
LEMMA Bounds ==
  ASSUME IInv, NEW o \in Orders
  PROVE  /\ deducted[o] <= unrecorded[o] + Credit(o)
         /\ Credit(o) \in {0, 1} /\ deducted[o] \in Nat /\ unrecorded[o] \in Nat
<1>1. Balance(o) /\ deducted[o] \in Nat /\ unrecorded[o] \in Nat
  BY DEF IInv, TypeOK, Accounts, Balanced
<1>2. Cardinality(Orphans(o)) \in Nat
  BY <1>1, FS_CardinalityType DEF Balance
<1>3. Credit(o) \in {0, 1}
  BY DEF Credit
<1> QED
  BY <1>1, <1>2, <1>3 DEF Balance

(* DeductedOncePerLoss: each call of deduct_inventory_stock whose outcome  *)
(* approve_order could not record costs its order one cart more at most.   *)
THEOREM AtMostOncePerLoss == Spec => []DeductedOncePerLoss
<1>1. IInv => DeductedOncePerLoss
  <2> SUFFICES ASSUME IInv, NEW o \in Orders PROVE deducted[o] <= 1 + unrecorded[o]
    BY DEF DeductedOncePerLoss
  <2> QED
    BY Bounds
<1> QED
  BY Invariance, <1>1, PTL

(* PendingUntouched: approve_order leaves no deduction behind on a pending *)
(* order, but for calls whose outcome it could not record.                 *)
THEOREM PendingCostsNothing == Spec => []PendingUntouched
<1>1. ASSUME IInv PROVE PendingUntouched
  <2> SUFFICES ASSUME NEW o \in Orders, status[o] = "pending", OrderFree(o)
               PROVE  deducted[o] <= unrecorded[o]
    BY DEF PendingUntouched
  <2>1. ASSUME NEW r \in Approvers, aord[r] = o, Credited(r) PROVE FALSE
    BY <2>1 DEF OrderFree, HoldsOrder, Credited, Deducted
  <2>2. Credit(o) = 0
    BY <2>1 DEF Credit, DecidedOrder
  <2> QED
    BY <1>1, <2>2, Bounds
<1> QED
  BY Invariance, <1>1, PTL

(* Only the commit of deduct_product_stock counts a deduction; it takes    *)
(* the whole cart from rows that exist and suffice.                        *)
LEMMA OnlyCommitDeducts ==
  ASSUME [Next]_vars, deducted' # deducted
  PROVE  \E r \in Approvers : CommitDeduct(r)
BY DEF Next, Client, Failure, Approver, Handler, StockAdmin, vars, history, bounds,
  CreateOrder, BeginApprove, LockOrder, SendDeduct, ConnectFails, ReceiveOk, ReceiveFailure,
  Timeout, ConnectionReset, CommitApproval, ApproveFails, CloseSession, ReadForReject,
  WriteReject, RejectFails, OrderServiceCrash, HandlerBegin, LockRow, SkipRow, RefuseDeduct,
  RefreshDeducted, RefreshFails, HandlerFails, DropReply, DeadlockVictim, StockFails, CreateProduct, ReadForStock, WriteStock, ReadForDelete, WriteDelete,
  InventoryCrash

(* A committing handler takes its whole cart from rows with enough stock. *)
LEMMA CommitTakesCart ==
  ASSUME IInv, NEW r \in Approvers, CommitDeduct(r)
  PROVE  /\ stock' = [p \in Products |-> stock[p] - cart[aord[r]][p]]
         /\ deducted' = [deducted EXCEPT ![aord[r]] = @ + 1]
         /\ \A p \in Products : cart[aord[r]][p] > 0 =>
              row[p] = "live" /\ stock[p] >= cart[aord[r]][p]
<1>1. \A p \in Needs(r) : row[p] = "live" /\ seen[r][p] = stock[p] /\ seen[r][p] >= cart[aord[r]][p]
  BY DEF CommitDeduct, Fulfillable, IInv, RowLocks
<1>2. \A p \in Products : p \notin Needs(r) => cart[aord[r]][p] = 0
  BY DEF Needs, IInv, TypeOK
<1>3. \A p \in Products : p \notin Needs(r) => stock[p] - cart[aord[r]][p] = stock[p]
  BY <1>2 DEF IInv, TypeOK
<1>4. stock' = [p \in Products |-> stock[p] - cart[aord[r]][p]]
  BY <1>1, <1>3 DEF CommitDeduct
<1> QED
  BY <1>1, <1>4 DEF CommitDeduct, Needs

(* DeductionWhole: a deduction is of one order and takes its whole cart    *)
(* from the stock as it is, whatever administrators and other handlers do. *)
THEOREM WholeCart == Spec => DeductionWhole
<1> DEFINE Whole == deducted' # deducted =>
      \E o \in Orders : /\ deducted' = [deducted EXCEPT ![o] = @ + 1]
                        /\ stock' = [p \in Products |-> stock[p] - cart[o][p]]
<1>1. ASSUME IInv, [Next]_vars PROVE [Whole]_vars
  <2> SUFFICES ASSUME deducted' # deducted PROVE Whole
    OBVIOUS
  <2>1. PICK r \in Approvers : CommitDeduct(r)
    BY <1>1, OnlyCommitDeducts
  <2>2. aord[r] \in Orders
    BY <1>1 DEF IInv, TypeOK
  <2> QED
    BY <1>1, <2>1, <2>2, CommitTakesCart
<1> QED
  BY Invariance, <1>1, PTL DEF Spec, DeductionWhole

(* RejectedIsFinal: approve_order cannot overwrite a rejection, because it *)
(* holds the order row from its read of "pending" to its commit.           *)
THEOREM RejectionStands == Spec => RejectedIsFinal
<1> DEFINE Final == \A o \in Orders : status[o] = "rejected" => status'[o] = "rejected"
<1>1. ASSUME IInv, [Next]_vars PROVE [Final]_vars
  <2> SUFFICES ASSUME status' # status PROVE Final
    OBVIOUS
  <2>1. \/ \E o \in Orders, c \in Carts : CreateOrder(o, c)
        \/ \E r \in Approvers : CommitApproval(r)
        \/ \E j \in Rejecters : WriteReject(j)
    BY <1>1 DEF Next, Client, Failure, Approver, Handler, StockAdmin, vars, orderTables,
      BeginApprove, LockOrder, SendDeduct, ConnectFails, ReceiveOk, ReceiveFailure,
      Timeout, ConnectionReset, ApproveFails, CloseSession, ReadForReject, RejectFails,
      HandlerFails, RefreshFails, StockFails, OrderServiceCrash, HandlerBegin, LockRow, SkipRow, RefuseDeduct, CommitDeduct,
      RefreshDeducted, DropReply, DeadlockVictim, CreateProduct, ReadForStock, WriteStock,
      ReadForDelete, WriteDelete, InventoryCrash
  <2>2. ASSUME NEW r \in Approvers, CommitApproval(r) PROVE Final
    <3>1. status[aord[r]] = "pending"
      BY <1>1, <2>2 DEF CommitApproval, IInv, OrderLocks
    <3> QED
      BY <1>1, <2>2, <3>1 DEF CommitApproval, IInv, TypeOK
  <2> QED
    BY <1>1, <2>1, <2>2 DEF CreateOrder, WriteReject, IInv, TypeOK
<1> QED
  BY Invariance, <1>1, PTL DEF Spec, RejectedIsFinal

----------------------------------------------------------------------------
(* Nobody waits for himself. *)

(* A row that a deduction still wants to lock was there when it began.     *)
WantedRows == \A r \in Approvers : \A p \in want[r] : row[p] # "none"

(* Products are created once and then only deleted. *)
LEMMA RowsStay ==
  ASSUME TypeOK, [Next]_vars
  PROVE  \A p \in Products : row[p] # "none" => row'[p] # "none"
<1> USE DEF TypeOK, productTable, vars
<1>1. ASSUME NEW p \in Products, NEW q \in Quantities, CreateProduct(p, q)
      PROVE  \A x \in Products : row[x] # "none" => row'[x] # "none"
  BY <1>1 DEF CreateProduct
<1>2. ASSUME NEW a \in StockAdmins, WriteDelete(a)
      PROVE  \A x \in Products : row[x] # "none" => row'[x] # "none"
  BY <1>2 DEF WriteDelete
<1>3. \/ UNCHANGED row
      \/ \E p \in Products, q \in Quantities : CreateProduct(p, q)
      \/ \E a \in StockAdmins : WriteDelete(a)
  BY DEF Next, Client, Failure, Approver, Handler, StockAdmin,
    CreateOrder, BeginApprove, LockOrder, SendDeduct, ConnectFails, ReceiveOk, ReceiveFailure,
    Timeout, ConnectionReset, CommitApproval, ApproveFails, CloseSession, ReadForReject,
    WriteReject, RejectFails, OrderServiceCrash, HandlerBegin, LockRow, SkipRow, RefuseDeduct,
    CommitDeduct, RefreshDeducted, RefreshFails, HandlerFails, StockFails, DropReply, DeadlockVictim, ReadForStock, WriteStock, ReadForDelete,
    InventoryCrash
<1> QED
  BY <1>1, <1>2, <1>3

(* What deductions want only shrinks, but when one reads the live rows.    *)
LEMMA WantedRowsStep == TypeOK /\ WantedRows /\ [Next]_vars => WantedRows'
<1> SUFFICES ASSUME TypeOK, WantedRows, [Next]_vars,
                    NEW r \in Approvers, NEW p \in want'[r]
             PROVE  row'[p] # "none"
  BY DEF WantedRows
<1> USE DEF TypeOK, handlerVars, vars
<1>1. ASSUME NEW x \in Approvers, HandlerBegin(x) PROVE row'[p] # "none"
  <2>1. CASE x = r
    BY <1>1, <2>1 DEF HandlerBegin, Needs, productTable
  <2>2. CASE x # r
    BY <1>1, <2>2 DEF HandlerBegin, WantedRows, productTable
  <2> QED
    BY <2>1, <2>2
<1>2. ASSUME \/ \E x \in Approvers : DeadlockVictim(x) \/ HandlerFails(x)
             \/ \E x \in Approvers, y \in Products : LockRow(x, y) \/ SkipRow(x, y)
             \/ InventoryCrash
      PROVE  want'[r] \subseteq want[r]
  BY <1>2 DEF DeadlockVictim, HandlerFails, LockRow, SkipRow, InventoryCrash
<1>3. \/ want' = want
      \/ \E x \in Approvers : HandlerBegin(x) \/ DeadlockVictim(x) \/ HandlerFails(x)
      \/ \E x \in Approvers, y \in Products : LockRow(x, y) \/ SkipRow(x, y)
      \/ InventoryCrash
  BY DEF Next, Client, Failure, Approver, Handler, StockAdmin,
    CreateOrder, BeginApprove, LockOrder, SendDeduct, ConnectFails, ReceiveOk, ReceiveFailure,
    Timeout, ConnectionReset, CommitApproval, ApproveFails, CloseSession, ReadForReject,
    WriteReject, RejectFails, OrderServiceCrash, RefuseDeduct, CommitDeduct, RefreshDeducted,
    RefreshFails, StockFails, DropReply,
    CreateProduct, ReadForStock, WriteStock, ReadForDelete, WriteDelete
<1>4. CASE p \in want[r]
  <2>1. p \in Products /\ row[p] # "none"
    BY <1>4 DEF WantedRows
  <2> QED
    BY <2>1, RowsStay
<1> QED
  BY <1>1, <1>2, <1>3, <1>4

(* A handler that can do nothing wants a row that another handler holds.   *)
LEMMA BlockedWaits ==
  ASSUME TypeOK, RowLocks, WantedRows, NEW r \in Running, ~HandlerCanStep(r)
  PROVE  want[r] # {} /\ \A p \in want[r] : \E x \in Running : p \in held[x]
<1>1. hpc[r] = "locking" /\ want[r] # {}
  BY DEF Running, HandlerCanStep
<1>2. ASSUME NEW p \in want[r] PROVE \E x \in Running : p \in held[x]
  <2>1. row[p] = "live" /\ ~RowFree(p)
    BY DEF HandlerCanStep, WantedRows, TypeOK, Running
  <2>2. PICK x \in Approvers : p \in held[x]
    BY <2>1 DEF RowFree
  <2>3. hpc[x] = "locking"
    BY <2>2 DEF RowLocks
  <2> QED
    BY <2>2, <2>3 DEF Running
<1> QED
  BY <1>1, <1>2

(* NoStandstill: however many requests wait for rows, for orders and for   *)
(* each other's calls, one of those they wait for can take a step: when no *)
(* deduction can go on, all of them wait on each other, and PostgreSQL     *)
(* aborts one.                                                             *)
THEOREM NoCircularWait == Spec => []NoStandstill
<1>1. ASSUME IInv, WantedRows PROVE NoStandstill
  <2> USE <1>1 DEF IInv
  <2>1. Running # {} => \E x \in Running : HandlerCanStep(x)
    <3> SUFFICES ASSUME NEW r \in Running, \A x \in Running : ~HandlerCanStep(x)
                 PROVE  FALSE
      OBVIOUS
    <3>1. \A x \in Running : want[x] # {} /\ \A p \in want[x] : \E y \in Running : p \in held[y]
      BY <1>1, BlockedWaits
    <3>2. Deadlocked(Running) /\ Running \in SUBSET Approvers
      BY <3>1 DEF Deadlocked, Running
    <3> QED
      BY <3>2 DEF HandlerCanStep
  <2>2. ASSUME NEW r \in Approvers, apc[r] \in {"call", "waiting", "commit", "closing"}
        PROVE  Proceeds(r)
    <3>1. apc[r] = "waiting" => hpc[r] \in {"sent", "locking", "committed", "ok", "failed", "lost"}
      BY DEF Requests, TypeOK
    <3> QED
      BY <2>2, <3>1 DEF Proceeds, ApproverCanStep, Running
  <2>3. ASSUME NEW o \in Orders, ~OrderFree(o) PROVE HolderProceeds(o)
    <3>1. PICK x \in Approvers : HoldsOrder(x, o)
      BY <2>3 DEF OrderFree
    <3> QED
      BY <3>1, <2>2 DEF HolderProceeds, HoldsOrder
  <2>4. ASSUME NEW r \in Approvers, apc[r] # "idle"
        PROVE  Proceeds(r) \/ (apc[r] = "lock" /\ HolderProceeds(aord[r]))
    <3>1. CASE apc[r] = "lock"
      BY <2>3, <3>1 DEF Proceeds, ApproverCanStep, TypeOK
    <3>2. CASE apc[r] # "lock"
      BY <2>2, <2>4, <3>2 DEF TypeOK
    <3> QED
      BY <3>1, <3>2
  <2>5. \A j \in Rejecters : rpc[j] # "idle" => OrderFree(rord[j]) \/ HolderProceeds(rord[j])
    BY <2>3 DEF TypeOK
  <2>6. ASSUME NEW a \in StockAdmins, ~RowFree(sprod[a])
        PROVE  \E x \in Running : sprod[a] \in held[x]
    <3>1. PICK x \in Approvers : sprod[a] \in held[x]
      BY <2>6 DEF RowFree
    <3>2. hpc[x] = "locking"
      BY <3>1 DEF RowLocks
    <3> QED
      BY <3>1, <3>2 DEF Running
  <2> QED
    BY <2>1, <2>4, <2>5, <2>6 DEF NoStandstill
<1>2. Init => WantedRows
  BY DEF Init, WantedRows
<1>3. IInv /\ WantedRows /\ [Next]_vars => WantedRows'
  BY WantedRowsStep DEF IInv
<1> QED
  BY Invariance, <1>1, <1>2, <1>3, PTL DEF Spec

----------------------------------------------------------------------------
(* The services implement the ledger. *)

(* The initial tables are an initial ledger. *)
LEMMA LedgerInit == Init => Ledger!Init
BY DEF Init, Ledger!Init, EmptyCart, Ledger!EmptyCart

(* A handler that is about to commit is paid for, or the first one due.    *)
LEMMA DueDeduction ==
  ASSUME IInv, NEW r \in Approvers, hpc[r] = "locking"
  PROVE  deducted[aord[r]] <= unrecorded[aord[r]]
<1> DEFINE o == aord[r]
<1>1. o \in Orders
  BY DEF IInv, TypeOK
<1>2. CASE apc[r] = "waiting"
  <2>1. status[o] = "pending" /\ \A x \in Approvers : HoldsOrder(x, o) => x = r
    BY <1>1, <1>2 DEF IInv, OrderLocks, HoldsOrder
  <2>2. ASSUME NEW x \in Approvers, aord[x] = o, Credited(x) PROVE FALSE
    BY <1>2, <2>1, <2>2 DEF Credited, Deducted, HoldsOrder
  <2>3. Credit(o) = 0
    BY <2>1, <2>2 DEF Credit, DecidedOrder
  <2> QED
    BY <1>1, <2>3, Bounds
<1>3. CASE apc[r] # "waiting"
  <2>1. Balance(o) /\ r \in Orphans(o)
    BY <1>1, <1>3 DEF IInv, Accounts, Balanced, Orphans
  <2>2. Cardinality(Orphans(o)) \in Nat /\ Cardinality(Orphans(o)) # 0
    BY <2>1, FS_CardinalityType, FS_EmptySet DEF Balance
  <2> QED
    BY <1>1, <2>1, <2>2, Bounds DEF Balance
<1> QED
  BY <1>2, <1>3

(* A request loses track of a call only while its order is pending.        *)
LEMMA ForgettingForgets ==
  ASSUME IInv, NEW X \in SUBSET Approvers, unrecorded' = Forgetting(X),
         UNCHANGED <<status, cart, row, stock, deducted>>
  PROVE  \E S \in SUBSET Orders : Ledger!Forget(S)
<1> DEFINE S == {o \in Orders : \E r \in X : aord[r] = o /\ Unsettled(r)}
<1>1. \A o \in S : status[o] = "pending"
  BY DEF IInv, OrderLocks, Unsettled
<1>2. unrecorded' = [o \in Orders |-> unrecorded[o] + IF o \in S THEN 1 ELSE 0]
  BY DEF Forgetting
<1>3. Ledger!Forget(S)
  BY <1>1, <1>2 DEF Ledger!Forget
<1> QED
  BY <1>3

(* Every step of the two services is one step of the ledger or none.       *)
LEMMA LedgerStep ==
  ASSUME IInv, IInv', [Next]_vars
  PROVE  [Ledger!Next]_(Ledger!vars)
<1>a. ASSUME NEW r \in Approvers, CommitDeduct(r)
      PROVE  /\ stock' = [p \in Products |-> stock[p] - cart[aord[r]][p]]
             /\ deducted' = [deducted EXCEPT ![aord[r]] = @ + 1]
             /\ \A p \in Products : cart[aord[r]][p] > 0 =>
                  row[p] = "live" /\ stock[p] >= cart[aord[r]][p]
  BY <1>a, CommitTakesCart
<1>b. /\ \A r \in Approvers : aord[r] \in Orders
      /\ \A j \in Rejecters : rord[j] \in Orders
      /\ \A a \in StockAdmins : sprod[a] \in Products
  BY DEF IInv, TypeOK
<1> USE DEF IInv, TypeOK, Ledger!vars, orderTables, productTable, approveVars, handlerVars,
  rejectVars, stockVars, history, bounds
<1>1. ASSUME NEW o \in Orders, NEW c \in Carts, CreateOrder(o, c) PROVE Ledger!Place(o, c)
  BY <1>1 DEF CreateOrder, Ledger!Place
<1>2. ASSUME NEW r \in Approvers, CommitDeduct(r) PROVE Ledger!Deduct(aord[r])
  <2>1. status[aord[r]] # "none"
    BY <1>2 DEF CommitDeduct, Requests
  <2>2. deducted[aord[r]] <= unrecorded[aord[r]]
    <3> HIDE DEF IInv
    <3> QED
      BY <1>2, DueDeduction DEF CommitDeduct
  <2> QED
    BY <1>2, <2>1, <2>2, <1>a DEF CommitDeduct, Ledger!Deduct
<1>3. ASSUME NEW r \in Approvers, CommitApproval(r) PROVE Ledger!Approve(aord[r])
  BY <1>3 DEF CommitApproval, OrderLocks, Accounts, Counted, Deducted, Ledger!Approve
<1>4. ASSUME NEW j \in Rejecters, WriteReject(j) PROVE Ledger!Reject(rord[j])
  BY <1>4 DEF WriteReject, Requests, Ledger!Reject
<1>5. ASSUME NEW r \in Approvers,
             Timeout(r) \/ ConnectionReset(r) \/ ApproveFails(r) \/ RefreshFails(r)
      PROVE  \E S \in SUBSET Orders : Ledger!Forget(S)
  <2>1. unrecorded' = Forgetting({r}) /\ UNCHANGED <<status, cart, row, stock, deducted>>
    BY <1>5 DEF Timeout, ConnectionReset, ApproveFails, RefreshFails
  <2> HIDE DEF IInv
  <2> QED
    BY <2>1, ForgettingForgets
<1>6. ASSUME OrderServiceCrash PROVE \E S \in SUBSET Orders : Ledger!Forget(S)
  <2>1. unrecorded' = Forgetting(Approvers) /\ UNCHANGED <<status, cart, row, stock, deducted>>
    BY <1>6 DEF OrderServiceCrash
  <2> HIDE DEF IInv
  <2> QED
    BY <2>1, ForgettingForgets
<1>7. ASSUME NEW p \in Products, NEW q \in Quantities, CreateProduct(p, q)
      PROVE  Ledger!Restock(p, q)
  BY <1>7 DEF CreateProduct, Ledger!Restock
<1>8. ASSUME NEW a \in StockAdmins, WriteStock(a)
      PROVE  \/ Ledger!Restock(sprod[a], sqty[a]) /\ sqty[a] \in Quantities
             \/ UNCHANGED Ledger!vars
  BY <1>8 DEF WriteStock, Writes, Ledger!Restock
<1>9. ASSUME NEW a \in StockAdmins, WriteDelete(a)
      PROVE  Ledger!Withdraw(sprod[a]) \/ UNCHANGED Ledger!vars
  BY <1>9 DEF WriteDelete, Writes, Ledger!Withdraw
<1>10. \/ UNCHANGED Ledger!vars
       \/ OrderServiceCrash
       \/ \E o \in Orders, c \in Carts : CreateOrder(o, c)
       \/ \E p \in Products, q \in Quantities : CreateProduct(p, q)
       \/ \E r \in Approvers : CommitDeduct(r) \/ CommitApproval(r)
                                 \/ Timeout(r) \/ ConnectionReset(r)
                                 \/ ApproveFails(r) \/ RefreshFails(r)
       \/ \E j \in Rejecters : WriteReject(j)
       \/ \E a \in StockAdmins : WriteStock(a) \/ WriteDelete(a)
  BY DEF Next, Client, Failure, Approver, Handler, StockAdmin, vars, BeginApprove, LockOrder,
    SendDeduct, ConnectFails, ReceiveOk, ReceiveFailure, CloseSession, ReadForReject,
    HandlerBegin, LockRow, SkipRow, RefuseDeduct, RefreshDeducted, DropReply, DeadlockVictim,
    ReadForStock, ReadForDelete, InventoryCrash, RejectFails, HandlerFails, StockFails
<1> HIDE DEF IInv, TypeOK, Ledger!vars
<1>11. CASE \E r \in Approvers : CommitDeduct(r) \/ CommitApproval(r)
                                   \/ Timeout(r) \/ ConnectionReset(r)
                                   \/ ApproveFails(r) \/ RefreshFails(r)
  BY <1>b, <1>2, <1>3, <1>5, <1>11 DEF Ledger!Next
<1>12. CASE \E a \in StockAdmins : WriteStock(a) \/ WriteDelete(a)
  BY <1>b, <1>8, <1>9, <1>12 DEF Ledger!Next
<1> QED
  BY <1>b, <1>1, <1>4, <1>6, <1>7, <1>10, <1>11, <1>12 DEF Ledger!Next

(* LedgerSpec: order approval and stock deduction, with their locks, calls,*)
(* timeouts and failures, implement StockLedger: deductions of whole carts,*)
(* one per order and one more per lost call, approvals only after them.    *)
THEOREM ImplementsLedger == Spec => LedgerSpec
<1> QED
  BY Invariance, LedgerInit, LedgerStep, PTL DEF Spec, LedgerSpec, Ledger!Spec

=============================================================================
