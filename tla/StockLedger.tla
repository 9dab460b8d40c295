---------------------------- MODULE StockLedger ----------------------------
(***************************************************************************)
(* What SecureOps promises about orders and stock, with no services, locks *)
(* or messages in it.  An order is placed, its whole cart is taken from    *)
(* the stock in one step, and an administrator decides it.  The promise is *)
(* weaker than "approval takes the cart exactly once": while an order is   *)
(* pending its approval may lose track of a call to the inventory, and for *)
(* each call lost the cart may be taken once more, in any status.          *)
(* OrderStock is the detailed specification that implements this one.      *)
(***************************************************************************)
EXTENDS Integers

CONSTANTS
  Orders,       \* order identifiers
  Products,     \* product identifiers
  Carts,        \* what an order may ask for, aggregated per product
  Quantities    \* what an administrator may set the stock to

VARIABLES
  status,       \* status of each order, "none" before it is placed
  cart,         \* quantity of each product an order asks for
  row,          \* is the product not created yet, live, or deleted
  stock,        \* quantity of each product
  deducted,     \* how many times the cart of each order was taken
  unrecorded    \* how many calls the approval of each order lost track of

vars == <<status, cart, row, stock, deducted, unrecorded>>

EmptyCart == [p \in Products |-> 0]

Init ==
  /\ status = [o \in Orders |-> "none"]
  /\ cart = [o \in Orders |-> EmptyCart]
  /\ row \in [Products -> {"none", "live"}]
  /\ stock \in [Products -> Quantities \cup {0}]
  /\ deducted = [o \in Orders |-> 0]
  /\ unrecorded = [o \in Orders |-> 0]

Place(o, c) ==
  /\ status[o] = "none"
  /\ status' = [status EXCEPT ![o] = "pending"]
  /\ cart' = [cart EXCEPT ![o] = c]
  /\ UNCHANGED <<row, stock, deducted, unrecorded>>

(* The whole cart or nothing, from products that exist and suffice, and    *)
(* never more often than once and once for each call lost.                 *)
Deduct(o) ==
  /\ status[o] # "none"
  /\ deducted[o] <= unrecorded[o]
  /\ \A p \in Products : cart[o][p] > 0 => row[p] = "live" /\ stock[p] >= cart[o][p]
  /\ stock' = [p \in Products |-> stock[p] - cart[o][p]]
  /\ deducted' = [deducted EXCEPT ![o] = @ + 1]
  /\ UNCHANGED <<status, cart, row, unrecorded>>

Approve(o) ==
  /\ status[o] = "pending"
  /\ deducted[o] > 0
  /\ status' = [status EXCEPT ![o] = "approved"]
  /\ UNCHANGED <<cart, row, stock, deducted, unrecorded>>

Reject(o) ==
  /\ status[o] # "none"
  /\ status' = [status EXCEPT ![o] = "rejected"]
  /\ UNCHANGED <<cart, row, stock, deducted, unrecorded>>

Forget(S) ==
  /\ \A o \in S : status[o] = "pending"
  /\ unrecorded' = [o \in Orders |-> unrecorded[o] + IF o \in S THEN 1 ELSE 0]
  /\ UNCHANGED <<status, cart, row, stock, deducted>>

Restock(p, q) ==
  /\ row[p] # "gone"
  /\ row' = [row EXCEPT ![p] = "live"]
  /\ stock' = [stock EXCEPT ![p] = q]
  /\ UNCHANGED <<status, cart, deducted, unrecorded>>

Withdraw(p) ==
  /\ row[p] = "live"
  /\ row' = [row EXCEPT ![p] = "gone"]
  /\ UNCHANGED <<status, cart, stock, deducted, unrecorded>>

Next ==
  \/ \E o \in Orders : \/ \E c \in Carts : Place(o, c)
                       \/ Deduct(o) \/ Approve(o) \/ Reject(o)
  \/ \E S \in SUBSET Orders : Forget(S)
  \/ \E p \in Products : Withdraw(p) \/ \E q \in Quantities : Restock(p, q)

Spec == Init /\ [][Next]_vars
=============================================================================
