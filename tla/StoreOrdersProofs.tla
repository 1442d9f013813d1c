-------------------------- MODULE StoreOrdersProofs --------------------------
(* Theorems about StoreOrders for every value of its constants. *)
EXTENDS StoreOrders, SumTheorems

-----------------------------------------------------------------------------
(* What the updates of single rows do, field by field *)

\* An order whose status is set keeps everything else.
LEMMA OrderStatusSet ==
  ASSUME order \in [Orders -> Order], NEW o \in Orders, NEW s \in OrderStatus,
         SetOrderStatus(o, s)
  PROVE  /\ order' \in [Orders -> Order]
         /\ \A x \in Orders :
              /\ order'[x].status = IF x = o THEN s ELSE order[x].status
              /\ order'[x].total = order[x].total
              /\ order'[x].items = order[x].items
              /\ order'[x].made = order[x].made
              /\ order'[x].released = order[x].released
<1> DEFINE w == [order[o] EXCEPT !.status = s]
<1>1. /\ w \in Order /\ w.status = s /\ w.total = order[o].total /\ w.items = order[o].items
      /\ w.made = order[o].made /\ w.released = order[o].released
  BY DEF Order
<1>2. order' = [order EXCEPT ![o] = w]
  BY DEF SetOrderStatus
<1> HIDE DEF w
<1> QED BY <1>1, <1>2

\* The order that is cancelled.
LEMMA OrderCancelled ==
  ASSUME order \in [Orders -> Order], NEW o \in Orders,
         order' = [order EXCEPT ![o].status = "CANCELLED", ![o].cancelled = TRUE]
  PROVE  /\ order' \in [Orders -> Order]
         /\ \A x \in Orders :
              /\ order'[x].status = IF x = o THEN "CANCELLED" ELSE order[x].status
              /\ order'[x].total = order[x].total
              /\ order'[x].items = order[x].items
              /\ order'[x].made = order[x].made
              /\ order'[x].released = order[x].released
<1> DEFINE w == [order[o] EXCEPT !.status = "CANCELLED"]
           z == [w EXCEPT !.cancelled = TRUE]
<1>1. /\ w \in Order /\ w.status = "CANCELLED" /\ w.total = order[o].total
      /\ w.items = order[o].items /\ w.made = order[o].made /\ w.released = order[o].released
  BY DEF Order, OrderStatus
<1> HIDE DEF w
<1>2. /\ z \in Order /\ z.status = w.status /\ z.total = w.total
      /\ z.items = w.items /\ z.made = w.made /\ z.released = w.released
  BY <1>1 DEF Order
<1>3. order' = [order EXCEPT ![o] = z]
  BY Zenon DEF w, z
<1> HIDE DEF z
<1> QED BY <1>1, <1>2, <1>3

\* The order whose goods are released.
LEMMA OrderReleased ==
  ASSUME order \in [Orders -> Order], NEW o \in Orders, Release(o)
  PROVE  /\ order' \in [Orders -> Order]
         /\ order'[o].status \in Operational
         /\ \A x \in Orders :
              /\ x # o => order'[x] = order[x]
              /\ order'[x].total = order[x].total
              /\ order'[x].items = order[x].items
              /\ order'[x].made = order[x].made
              /\ order'[x].released = IF x = o THEN TRUE ELSE order[x].released
<1> DEFINE s == IF order[o].made # {} THEN "IN_PRODUCTION" ELSE "CONFIRMED"
           w == [order[o] EXCEPT !.released = TRUE]
           z == [w EXCEPT !.status = s]
<1>1. s \in Operational /\ s \in OrderStatus
  BY DEF Operational, OrderStatus
<1>2. order' = [order EXCEPT ![o].released = TRUE, ![o].status = s]
  BY DEF Release, Available, Touched
<1> HIDE DEF s
<1>3. /\ w \in Order /\ w.released = TRUE /\ w.total = order[o].total
      /\ w.items = order[o].items /\ w.made = order[o].made
  BY DEF Order
<1> HIDE DEF w
<1>4. /\ z \in Order /\ z.status = s /\ z.total = w.total
      /\ z.items = w.items /\ z.made = w.made /\ z.released = w.released
  BY <1>1, <1>3 DEF Order
<1>5. order' = [order EXCEPT ![o] = z]
  BY <1>2, Zenon DEF w, z
<1> HIDE DEF z
<1> QED BY <1>1, <1>3, <1>4, <1>5

\* A payment whose status is set.
LEMMA PaymentStatusSet ==
  ASSUME payment \in [Payments -> Payment], NEW p \in Payments, NEW s \in PaymentStatus,
         payment' = [payment EXCEPT ![p].status = s]
  PROVE  /\ payment' \in [Payments -> Payment]
         /\ \A q \in Payments :
              /\ payment'[q].status = IF q = p THEN s ELSE payment[q].status
              /\ payment'[q].order = payment[q].order
              /\ payment'[q].amount = payment[q].amount
              /\ payment'[q].submittedBy = payment[q].submittedBy
              /\ payment'[q].reviewedBy = payment[q].reviewedBy
<1> DEFINE w == [payment[p] EXCEPT !.status = s]
<1>1. /\ w \in Payment /\ w.status = s /\ w.order = payment[p].order
      /\ w.amount = payment[p].amount /\ w.submittedBy = payment[p].submittedBy
      /\ w.reviewedBy = payment[p].reviewedBy
  BY DEF Payment
<1>2. payment' = [payment EXCEPT ![p] = w]
  OBVIOUS
<1> HIDE DEF w
<1> QED BY <1>1, <1>2

\* A payment that is reviewed.
LEMMA PaymentReviewed ==
  ASSUME payment \in [Payments -> Payment], NEW p \in Payments, NEW s \in PaymentStatus,
         NEW u \in Staff,
         payment' = [payment EXCEPT ![p].status = s, ![p].reviewedBy = u]
  PROVE  /\ payment' \in [Payments -> Payment]
         /\ \A q \in Payments :
              /\ payment'[q].status = IF q = p THEN s ELSE payment[q].status
              /\ payment'[q].order = payment[q].order
              /\ payment'[q].amount = payment[q].amount
              /\ payment'[q].submittedBy = payment[q].submittedBy
              /\ payment'[q].reviewedBy = IF q = p THEN u ELSE payment[q].reviewedBy
<1> DEFINE w == [payment[p] EXCEPT !.status = s]
           z == [w EXCEPT !.reviewedBy = u]
<1>1. /\ w \in Payment /\ w.status = s /\ w.order = payment[p].order
      /\ w.amount = payment[p].amount /\ w.submittedBy = payment[p].submittedBy
  BY DEF Payment
<1> HIDE DEF w
<1>2. /\ z \in Payment /\ z.status = w.status /\ z.order = w.order
      /\ z.amount = w.amount /\ z.submittedBy = w.submittedBy /\ z.reviewedBy = u
  BY <1>1 DEF Payment
<1>3. payment' = [payment EXCEPT ![p] = z]
  BY Zenon DEF w, z
<1> HIDE DEF z
<1> QED BY <1>1, <1>2, <1>3

\* The payments a cancellation closes.
LEMMA PaymentsSwept ==
  ASSUME payment \in [Payments -> Payment], NEW S \in SUBSET Payments,
         payment' = [p \in Payments |-> IF p \in S
           THEN [payment[p] EXCEPT !.status = "CANCELLED"] ELSE payment[p]]
  PROVE  /\ payment' \in [Payments -> Payment]
         /\ \A q \in Payments :
              /\ payment'[q].status = IF q \in S THEN "CANCELLED" ELSE payment[q].status
              /\ payment'[q].order = payment[q].order
              /\ payment'[q].amount = payment[q].amount
              /\ payment'[q].submittedBy = payment[q].submittedBy
              /\ payment'[q].reviewedBy = payment[q].reviewedBy
<1> DEFINE w(p) == [payment[p] EXCEPT !.status = "CANCELLED"]
<1>1. \A p \in Payments : w(p) \in Payment
  BY DEF Payment, PaymentStatus
<1>2. \A p \in Payments : /\ w(p).status = "CANCELLED" /\ w(p).order = payment[p].order
                          /\ w(p).amount = payment[p].amount
                          /\ w(p).submittedBy = payment[p].submittedBy
                          /\ w(p).reviewedBy = payment[p].reviewedBy
  BY DEF Payment
<1>3. payment' = [p \in Payments |-> IF p \in S THEN w(p) ELSE payment[p]]
  OBVIOUS
<1> HIDE DEF w
<1> QED BY <1>1, <1>2, <1>3

-----------------------------------------------------------------------------
(* Type correctness *)

\* The total of an order is a natural number.
LEMMA OrderTotalNat ==
  ASSUME NEW items \in [Variants -> Nat], NEW price \in [Products -> SalePrices]
  PROVE  OrderTotal(items, price) \in Nat
<1> DEFINE f == [v \in Variants |-> items[v] * price[ProductOf[v]]]
<1>1. f \in [Variants -> Nat]
  <2> SUFFICES ASSUME NEW v \in Variants PROVE items[v] * price[ProductOf[v]] \in Nat
    OBVIOUS
  <2>1. items[v] \in Nat /\ price[ProductOf[v]] \in Nat
    BY StoreAssumption
  <2>2. \A a, b \in Nat : a * b \in Nat
    OBVIOUS
  <2> QED BY <2>1, <2>2
<1>2. IsFiniteSet(Variants)
  BY StoreAssumption
<1> HIDE DEF f
<1>3. SumFunctionOnSet(f, Variants) \in Nat
  BY <1>1, <1>2, SumNat
<1> QED BY <1>3 DEF OrderTotal, f

\* An order takes a natural number of units of each variant.
LEMMA NeedNat ==
  ASSUME TypeOK, NEW o \in Orders
  PROVE  Need(o) \in [Variants -> Nat]
  BY DEF TypeOK, Need, Order

\* An order that collects payments has an order status.
LEMMA CollectingStatus == ASSUME NEW S PROVE Collecting(S) \in OrderStatus
  BY DEF Collecting, OrderStatus

\* The empty store is well typed.
THEOREM TypeInit == Init => TypeOK
  BY StoreAssumption DEF Init, TypeOK, Order, Payment, Request, Idle

\* Every step keeps the types; a cancellation needs its locks for this.
THEOREM TypeStep == TypeOK /\ SweepsHoldLocks /\ [Next]_vars => TypeOK'
<1> SUFFICES ASSUME TypeOK, SweepsHoldLocks, [Next]_vars PROVE TypeOK'
  OBVIOUS
<1> USE DEF TypeOK
<1>1. CASE UNCHANGED vars
  BY <1>1 DEF vars
<1>2. ASSUME NEW x \in Products, NEW made \in BOOLEAN, NEW vs \in SUBSET Variants,
             CreateProduct(x, made, vs)
      PROVE  TypeOK'
  BY <1>2 DEF CreateProduct, ProductStatus
<1>3. ASSUME NEW v \in Variants, AddVariant(v) PROVE TypeOK'
  BY <1>3 DEF AddVariant
<1>4. ASSUME NEW x \in Products, NEW s \in EditStatuses, UpdateProduct(x, s) PROVE TypeOK'
  <2> DEFINE C == [status : ProductStatus \cup {"ABSENT"}, made : BOOLEAN]
  <2> DEFINE t == IF s = None THEN catalogue[x].status ELSE s
  <2>1. t \in ProductStatus \cup {"ABSENT"} /\ catalogue[x].made \in BOOLEAN
    BY StoreAssumption
  <2> HIDE DEF t
  <2>2. ASSUME NEW made \in {catalogue[x].made, FALSE}
        PROVE  [status |-> t, made |-> made] \in C
    BY <2>1
  <2>3. [status |-> "MADE_TO_ORDER", made |-> TRUE] \in C
    BY DEF ProductStatus
  <2>4. catalogue' \in [Products -> C]
    <3> HIDE DEF C
    <3>1. catalogue \in [Products -> C]
      BY DEF C
    <3> QED BY <1>4, <2>2, <2>3, <3>1 DEF UpdateProduct, t
  <2> QED BY <1>4, <2>4 DEF UpdateProduct
<1>5. ASSUME NEW v \in Variants, NEW n \in 1..MaxEntries, AddStock(v, n) PROVE TypeOK'
  <2> DEFINE C == [status : ProductStatus \cup {"ABSENT"}, made : BOOLEAN]
             x == ProductOf[v]
             w == [catalogue[x] EXCEPT !.status = "ACTIVE"]
  <2>1. x \in Products /\ catalogue[x] \in C
    BY StoreAssumption
  <2>2. w \in C
    BY <2>1 DEF ProductStatus
  <2>3. catalogue' \in [Products -> C]
    <3>1. catalogue' = catalogue \/ catalogue' = [catalogue EXCEPT ![x] = w]
      BY <1>5 DEF AddStock
    <3> HIDE DEF C, w, x
    <3>2. catalogue \in [Products -> C]
      BY DEF C
    <3> QED BY <3>1, <3>2, <2>2
  <2>4. stock' \in [Variants -> Nat] /\ entries' \in [Variants -> Nat]
    BY <1>5, StoreAssumption DEF AddStock
  <2> QED BY <1>5, <2>3, <2>4 DEF AddStock
<1>6. ASSUME NEW o \in Orders, NEW p \in Payments, NEW items \in Ordered,
             NEW price \in [Products -> SalePrices], NEW u \in Staff \cup Students,
             NEW manual \in BOOLEAN, NEW a \in 1..OrderTotal(items, price),
             CreateOrder(o, p, items, price, a, u, manual)
      PROVE  TypeOK'
  <2>1. items \in [Variants -> Nat]
    BY StoreAssumption DEF Ordered
  <2>2. OrderTotal(items, price) \in Nat
    BY <2>1, OrderTotalNat
  <2> QED BY <1>6, <2>1, <2>2 DEF CreateOrder, Order, Payment, OrderStatus, PaymentStatus
<1>7. ASSUME NEW p \in Payments, NEW u \in Approvers, ApprovePayment(p, u) PROVE TypeOK'
  <2> DEFINE o == payment[p].order
  <2>1. o \in Orders
    BY <1>7 DEF ApprovePayment, MayApprove
  <2>2. u \in Staff
    BY StoreAssumption
  <2>3. payment' \in [Payments -> Payment]
        /\ \A q \in Payments : payment'[q].status # "ABSENT" => payment'[q].order \in Orders
    <3>1. payment' = [payment EXCEPT ![p].status = "CONFIRMED", ![p].reviewedBy = u]
      BY <1>7 DEF ApprovePayment, MayApprove
    <3>2. payment[p].status # "ABSENT"
      BY <1>7 DEF ApprovePayment, MayApprove
    <3>3. "CONFIRMED" \in PaymentStatus /\ payment \in [Payments -> Payment]
      BY DEF PaymentStatus
    <3>4. /\ payment' \in [Payments -> Payment]
          /\ \A q \in Payments :
               /\ payment'[q].status = IF q = p THEN "CONFIRMED" ELSE payment[q].status
               /\ payment'[q].order = payment[q].order
      BY <3>1, <3>3, <2>2, PaymentReviewed
    <3> QED BY <3>2, <3>4
  <2>4. CASE Releases(p) /\ Release(o)
    <3>1. Need(o) \in [Variants -> Nat]
      BY <2>1, NeedNat
    <3>2. stock' \in [Variants -> Nat]
      BY <2>4, <3>1 DEF Release, Available, Touched
    <3>3. order' \in [Orders -> Order]
      BY <2>1, <2>4, OrderReleased
    <3>4. catalogue' \in [Products -> [status : ProductStatus \cup {"ABSENT"}, made : BOOLEAN]]
      <4> DEFINE C == [status : ProductStatus \cup {"ABSENT"}, made : BOOLEAN]
                 w(x) == [catalogue[x] EXCEPT !.status = "OUT_OF_STOCK"]
                 S == {ProductOf[v] : v \in {y \in Variants : Need(o)[y] > 0}} \cap SoldOut(stock')
      <4>1. \A x \in Products : w(x) \in C
        BY DEF ProductStatus
      <4>2. catalogue' = [x \in Products |-> IF x \in S THEN w(x) ELSE catalogue[x]]
        BY <2>4 DEF Release, Available, Touched
      <4> HIDE DEF w, S, C
      <4>3. catalogue \in [Products -> C]
        BY DEF C
      <4>4. catalogue' \in [Products -> C]
        BY <4>1, <4>2, <4>3
      <4> QED BY <4>4 DEF C
    <3> QED BY <1>7, <2>3, <3>2, <3>3, <3>4 DEF ApprovePayment, MayApprove
  <2>5. CASE /\ SetOrderStatus(o, Collecting(PaymentsIn(o, {"UNDER_REVIEW"}) \ {p}))
             /\ UNCHANGED <<stock, catalogue>>
    <3>1. order' \in [Orders -> Order]
      BY <2>5, <2>1, CollectingStatus, OrderStatusSet
    <3> QED BY <1>7, <2>3, <2>5, <3>1 DEF ApprovePayment, MayApprove
  <2> QED BY <1>7, <2>4, <2>5 DEF ApprovePayment, MayApprove
<1>8. ASSUME NEW p \in Payments, NEW u \in Approvers, RejectPayment(p, u) PROVE TypeOK'
  <2>1. payment[p].order \in Orders /\ u \in Staff /\ payment[p].status # "ABSENT"
    BY <1>8, StoreAssumption DEF RejectPayment
  <2>2. order' \in [Orders -> Order]
    BY <1>8, <2>1, CollectingStatus, OrderStatusSet DEF RejectPayment
  <2>3. payment' \in [Payments -> Payment]
        /\ \A q \in Payments : payment'[q].status # "ABSENT" => payment'[q].order \in Orders
    <3>1. payment' = [payment EXCEPT ![p].status = "FAILED", ![p].reviewedBy = u]
      BY <1>8 DEF RejectPayment
    <3>2. "FAILED" \in PaymentStatus /\ payment \in [Payments -> Payment]
      BY DEF PaymentStatus
    <3>3. /\ payment' \in [Payments -> Payment]
          /\ \A q \in Payments :
               /\ payment'[q].status = IF q = p THEN "FAILED" ELSE payment[q].status
               /\ payment'[q].order = payment[q].order
      BY <3>1, <3>2, <2>1, PaymentReviewed
    <3> QED BY <2>1, <3>3
  <2> QED BY <1>8, <2>2, <2>3 DEF RejectPayment
<1>9. ASSUME NEW p \in Payments, RefundPayment(p) PROVE TypeOK'
  <2>1. payment[p].order \in Orders /\ payment[p].status # "ABSENT"
    BY <1>9 DEF RefundPayment
  <2>2. order' \in [Orders -> Order]
    BY <1>9, <2>1, CollectingStatus, OrderStatusSet DEF RefundPayment
  <2>3. payment' \in [Payments -> Payment]
        /\ \A q \in Payments : payment'[q].status # "ABSENT" => payment'[q].order \in Orders
    <3>1. payment' = [payment EXCEPT ![p].status = "REFUNDED"]
      BY <1>9 DEF RefundPayment
    <3>2. "REFUNDED" \in PaymentStatus /\ payment \in [Payments -> Payment]
      BY DEF PaymentStatus
    <3>3. /\ payment' \in [Payments -> Payment]
          /\ \A q \in Payments :
               /\ payment'[q].status = IF q = p THEN "REFUNDED" ELSE payment[q].status
               /\ payment'[q].order = payment[q].order
      BY <3>1, <3>2, PaymentStatusSet
    <3> QED BY <2>1, <3>3
  <2> QED BY <1>9, <2>2, <2>3 DEF RefundPayment
<1>10. ASSUME NEW r \in Requests, NEW o \in Orders, NEW u \in Staff,
              NEW a \in 1..order[o].total, SubmitManualPayment(r, o, a, u)
       PROVE  TypeOK'
  BY <1>10 DEF SubmitManualPayment, rows, Request, SubmitRequest, Order
<1>11. ASSUME NEW r \in Requests, NEW o \in Orders, NEW s \in OrderStatus,
              UpdateOrderStatus(r, o, s)
       PROVE  TypeOK'
  BY <1>11 DEF UpdateOrderStatus, rows, Request, StatusRequest
<1>12. ASSUME NEW r \in Requests, NEW o \in Orders, NEW restock \in BOOLEAN,
              CancelOrder(r, o, restock)
       PROVE  TypeOK'
  BY <1>12 DEF CancelOrder, rows, Request, CancelRequest, Order
<1>13. ASSUME NEW r \in Requests, NEW p \in Payments, SubmitCommit(r, p) PROVE TypeOK'
  <2>1. req[r] \in SubmitRequest
    BY <1>13 DEF SubmitCommit, Request, Idle, StatusRequest, CancelRequest, SweepRequest
  <2>2. req[r].order \in Orders /\ req[r].amount \in Nat /\ req[r].by \in Staff
    BY <2>1 DEF SubmitRequest
  <2>3. order' \in [Orders -> Order]
    BY <1>13, <2>2, OrderStatusSet DEF SubmitCommit, OrderStatus
  <2>4. payment' \in [Payments -> Payment]
        /\ \A q \in Payments : payment'[q].status # "ABSENT" => payment'[q].order \in Orders
    BY <1>13, <2>2 DEF SubmitCommit, Payment, PaymentStatus
  <2> QED BY <1>13, <2>3, <2>4 DEF SubmitCommit, Request
<1>14. ASSUME NEW r \in Requests, UpdateStatusWrite(r) PROVE TypeOK'
  <2>1. req[r] \in StatusRequest
    BY <1>14 DEF UpdateStatusWrite, Request, Idle, SubmitRequest, CancelRequest, SweepRequest
  <2>2. req[r].order \in Orders /\ req[r].to \in OrderStatus
    BY <2>1 DEF StatusRequest
  <2>3. order' \in [Orders -> Order]
    BY <1>14, <2>2, OrderStatusSet DEF UpdateStatusWrite
  <2> QED BY <1>14, <2>3 DEF UpdateStatusWrite, Request
<1>15. ASSUME NEW r \in Requests, CancelSweep(r) PROVE TypeOK'
  <2>1. req[r] \in CancelRequest
    BY <1>15 DEF CancelSweep, Request, Idle, SubmitRequest, StatusRequest, SweepRequest
  <2> QED BY <1>15, <2>1 DEF CancelSweep, CancelRequest, SweepRequest, PaymentsIn, Request, rows
<1>16. ASSUME NEW r \in Requests, CancelCommit(r) PROVE TypeOK'
  <2> DEFINE o == req[r].order
  <2>1. req[r] \in SweepRequest
    BY <1>16 DEF CancelCommit, Request, Idle, SubmitRequest, StatusRequest, CancelRequest
  <2>2. o \in Orders
    BY <2>1 DEF SweepRequest
  <2>3. Need(o) \in [Variants -> Nat]
    BY <2>2, NeedNat
  <2>4. payment' \in [Payments -> Payment]
        /\ \A q \in Payments : payment'[q].status # "ABSENT" => payment'[q].order \in Orders
    <3> DEFINE S == req[r].swept
    <3>1. payment' = [p \in Payments |-> IF p \in S
             THEN [payment[p] EXCEPT !.status = "CANCELLED"] ELSE payment[p]]
      BY <1>16 DEF CancelCommit
    <3>2. S \in SUBSET Payments
      BY <2>1 DEF SweepRequest
    <3>3. \A p \in S : payment[p].order \in Orders
      BY <1>16, <2>2 DEF SweepsHoldLocks, PaymentsIn, CancelCommit
    <3> HIDE DEF S
    <3> QED BY <3>1, <3>2, <3>3, PaymentsSwept
  <2>5. order' \in [Orders -> Order]
    BY <1>16, <2>2, OrderCancelled DEF CancelCommit
  <2>6. stock' \in [Variants -> Nat] /\ restocked' \in [Orders -> Nat]
    BY <1>16, <2>2, <2>3 DEF CancelCommit
  <2> QED BY <1>16, <2>4, <2>5, <2>6 DEF CancelCommit, Request, Idle
<1>17. ASSUME NEW r \in Requests, AbortRequest(r) PROVE TypeOK'
  BY <1>17 DEF AbortRequest, rows, Request, Idle
<1> QED BY <1>1, <1>2, <1>3, <1>4, <1>5, <1>6, <1>7, <1>8, <1>9, <1>10, <1>11, <1>12, <1>13,
           <1>14, <1>15, <1>16, <1>17
        DEF Next, Catalogue, Create, Review, Begin, Continue

-----------------------------------------------------------------------------
(* The row locks of cancelOrder *)

\* No request holds a lock at first.
THEOREM LocksInit == Init => SweepsHoldLocks
  BY DEF Init, SweepsHoldLocks, Idle

\* A step that leaves the locked payments alone and starts no sweep keeps the locks.
LEMMA LocksKept ==
  ASSUME TypeOK, SweepsHoldLocks,
         \A r \in Requests : req'[r].op = "sweep" => req'[r] = req[r],
         \A p \in Locked : payment'[p] = payment[p]
  PROVE  SweepsHoldLocks'
<1>1. ASSUME NEW r \in Requests, req'[r].op = "sweep"
      PROVE  /\ req'[r].swept \subseteq PaymentsIn(req[r].order, {"PENDING", "UNDER_REVIEW"})'
             /\ \A q \in Requests \ {r} :
                  req'[q].op = "sweep" => req'[q].swept \cap req'[r].swept = {}
  <2>1. req'[r] = req[r] /\ req[r].op = "sweep"
    BY <1>1
  <2>2. req[r].swept \subseteq Locked
    BY <2>1 DEF Locked
  <2>3. req[r].swept \subseteq PaymentsIn(req[r].order, {"PENDING", "UNDER_REVIEW"})
    BY <2>1 DEF SweepsHoldLocks
  <2>4. req'[r].swept \subseteq PaymentsIn(req[r].order, {"PENDING", "UNDER_REVIEW"})'
    BY <2>1, <2>2, <2>3 DEF PaymentsIn
  <2> QED BY <2>1, <2>4 DEF SweepsHoldLocks
<1>2. \A r \in Requests : req'[r].op = "sweep" => req'[r].order = req[r].order
  OBVIOUS
<1> QED BY <1>1, <1>2 DEF SweepsHoldLocks, PaymentsIn

\* A payment that is locked is an open payment.
LEMMA LockedIsOpen ==
  ASSUME SweepsHoldLocks
  PROVE  \A p \in Locked : p \in Payments /\ payment[p].status \in {"PENDING", "UNDER_REVIEW"}
  BY DEF SweepsHoldLocks, Locked, PaymentsIn

\* Every step keeps the locks of the cancellations in flight.
THEOREM LocksStep == TypeOK /\ SweepsHoldLocks /\ [Next]_vars => SweepsHoldLocks'
<1> SUFFICES ASSUME TypeOK, SweepsHoldLocks, [Next]_vars PROVE SweepsHoldLocks'
  OBVIOUS
<1>1. CASE UNCHANGED <<payment, req>>
  BY <1>1, LocksKept
<1>2. ASSUME NEW o \in Orders, NEW p \in Payments, NEW items, NEW price, NEW a, NEW u,
             NEW manual, CreateOrder(o, p, items, price, a, u, manual)
      PROVE  SweepsHoldLocks'
  <2>1. p \notin Locked
    BY <1>2, LockedIsOpen DEF CreateOrder
  <2>2. \A q \in Payments \ {p} : payment'[q] = payment[q]
    BY <1>2 DEF CreateOrder, TypeOK
  <2>3. req' = req
    BY <1>2 DEF CreateOrder
  <2> QED BY <2>1, <2>2, <2>3, LocksKept, LockedIsOpen
<1>3. ASSUME NEW p \in Payments, p \notin Locked, NEW w, payment' = [payment EXCEPT ![p] = w],
             req' = req
      PROVE  SweepsHoldLocks'
  <2>1. \A q \in Payments \ {p} : payment'[q] = payment[q]
    BY <1>3 DEF TypeOK
  <2> QED BY <1>3, <2>1, LocksKept, LockedIsOpen
<1>4. ASSUME NEW p \in Payments, NEW u, ApprovePayment(p, u) PROVE SweepsHoldLocks'
  <2>1. payment' = [payment EXCEPT ![p] =
           [payment[p] EXCEPT !.status = "CONFIRMED", !.reviewedBy = u]]
    BY <1>4, Zenon DEF ApprovePayment, MayApprove
  <2> QED BY <1>3, <1>4, <2>1 DEF ApprovePayment, MayApprove
<1>5. ASSUME NEW p \in Payments, NEW u, RejectPayment(p, u) PROVE SweepsHoldLocks'
  <2>1. payment' = [payment EXCEPT ![p] =
           [payment[p] EXCEPT !.status = "FAILED", !.reviewedBy = u]]
    BY <1>5, Zenon DEF RejectPayment
  <2> QED BY <1>3, <1>5, <2>1 DEF RejectPayment
<1>6. ASSUME NEW p \in Payments, RefundPayment(p) PROVE SweepsHoldLocks'
  <2>1. p \notin Locked
    BY <1>6, LockedIsOpen DEF RefundPayment
  <2> QED BY <1>3, <1>6, <2>1 DEF RefundPayment
<1>7. ASSUME NEW r \in Requests, NEW w, w.op # "sweep", req' = [req EXCEPT ![r] = w],
             payment' = payment
      PROVE  SweepsHoldLocks'
  BY <1>7, LocksKept DEF TypeOK
<1>8. ASSUME NEW r \in Requests, Begin(r) PROVE SweepsHoldLocks'
  <2>1. ASSUME NEW o \in Orders, NEW u \in Staff, NEW a \in 1..order[o].total,
               SubmitManualPayment(r, o, a, u)
        PROVE  SweepsHoldLocks'
    BY <1>7, <2>1 DEF SubmitManualPayment, rows
  <2>2. ASSUME NEW o \in Orders, NEW s \in OrderStatus, UpdateOrderStatus(r, o, s)
        PROVE  SweepsHoldLocks'
    BY <1>7, <2>2 DEF UpdateOrderStatus, rows
  <2>3. ASSUME NEW o \in Orders, NEW restock \in BOOLEAN, CancelOrder(r, o, restock)
        PROVE  SweepsHoldLocks'
    <3> DEFINE w == [op |-> "cancel", order |-> o, restock |-> restock /\ order[o].released]
    <3>1. w.op # "sweep"
      OBVIOUS
    <3>2. req' = [req EXCEPT ![r] = w] /\ payment' = payment
      BY <2>3 DEF CancelOrder, rows
    <3> HIDE DEF w
    <3> QED BY <1>7, <3>1, <3>2
  <2> QED BY <1>8, <2>1, <2>2, <2>3 DEF Begin
<1>9. ASSUME NEW r \in Requests, NEW p \in Payments, SubmitCommit(r, p) PROVE SweepsHoldLocks'
  <2>1. p \notin Locked
    BY <1>9, LockedIsOpen DEF SubmitCommit
  <2>2. \A q \in Payments \ {p} : payment'[q] = payment[q]
    BY <1>9 DEF SubmitCommit, TypeOK
  <2>3. \A q \in Requests : req'[q].op = "sweep" => req'[q] = req[q]
    BY <1>9 DEF SubmitCommit, TypeOK, Idle
  <2> QED BY <2>1, <2>2, <2>3, LocksKept, LockedIsOpen
<1>10. ASSUME NEW r \in Requests, UpdateStatusWrite(r) PROVE SweepsHoldLocks'
  BY <1>7, <1>10 DEF UpdateStatusWrite, Idle
<1>11. ASSUME NEW r \in Requests, CancelSweep(r) PROVE SweepsHoldLocks'
  <2> DEFINE open == PaymentsIn(req[r].order, {"PENDING", "UNDER_REVIEW"})
  <2>1. /\ payment' = payment
        /\ \A q \in Requests \ {r} : req'[q] = req[q]
        /\ req'[r].swept = open /\ req'[r].order = req[r].order
        /\ open \cap Locked = {}
    BY <1>11 DEF CancelSweep, Cancellable, TypeOK, rows
  <2>2. \A q \in Requests \ {r} : req[q].op = "sweep" => req[q].swept \cap open = {}
    BY <2>1 DEF Locked
  <2> QED BY <2>1, <2>2 DEF SweepsHoldLocks, PaymentsIn
<1>12. ASSUME NEW r \in Requests, CancelCommit(r) PROVE SweepsHoldLocks'
  <2>1. /\ req[r].op = "sweep"
        /\ \A q \in Requests \ {r} : req'[q] = req[q]
        /\ req'[r].op # "sweep"
        /\ \A p \in Payments \ req[r].swept : payment'[p] = payment[p]
    BY <1>12 DEF CancelCommit, TypeOK, Idle
  <2>2. \A q \in Requests \ {r} : req[q].op = "sweep" => req[q].swept \cap req[r].swept = {}
    BY <2>1 DEF SweepsHoldLocks
  <2> QED BY <2>1, <2>2 DEF SweepsHoldLocks, PaymentsIn
<1>13. ASSUME NEW r \in Requests, AbortRequest(r) PROVE SweepsHoldLocks'
  BY <1>7, <1>13 DEF AbortRequest, rows, Idle
<1>14. CASE Catalogue
  BY <1>1, <1>14 DEF Catalogue, CreateProduct, AddVariant, UpdateProduct, AddStock
<1>15. CASE UNCHANGED vars
  BY <1>1, <1>15 DEF vars
<1> QED BY <1>2, <1>4, <1>5, <1>6, <1>8, <1>9, <1>10, <1>11, <1>12, <1>13, <1>14, <1>15
        DEF Next, Create, Review, Continue

-----------------------------------------------------------------------------
(* How one step may move a payment, an order and a request *)

\* What a review keeps of a payment.
Same(p) ==
  /\ payment'[p].order = payment[p].order
  /\ payment'[p].amount = payment[p].amount
  /\ payment'[p].submittedBy = payment[p].submittedBy

PaymentMove(p) ==
  \/ payment'[p] = payment[p]
  \/ /\ payment[p].status = "ABSENT"
     /\ payment'[p].status \in {"PENDING", "UNDER_REVIEW"}
     /\ payment'[p].order \in Orders
  \/ /\ payment[p].status = "UNDER_REVIEW" /\ payment'[p].status = "CONFIRMED" /\ Same(p)
     /\ payment'[p].reviewedBy \in Approvers
     /\ payment'[p].reviewedBy # payment[p].submittedBy
  \/ payment[p].status = "UNDER_REVIEW" /\ payment'[p].status = "FAILED" /\ Same(p)
  \/ /\ payment[p].status = "CONFIRMED" /\ payment'[p].status = "REFUNDED" /\ Same(p)
     /\ payment'[p].reviewedBy = payment[p].reviewedBy
  \/ /\ payment[p].status \in {"PENDING", "UNDER_REVIEW"}
     /\ payment'[p].status = "CANCELLED" /\ Same(p)

\* Every step moves a payment along the life of a payment or not at all.
LEMMA PaymentMoves ==
  ASSUME TypeOK, SweepsHoldLocks, [Next]_vars
  PROVE  \A p \in Payments : PaymentMove(p)
<1>1. CASE payment' = payment
  BY <1>1 DEF PaymentMove
<1>2. ASSUME NEW o \in Orders, NEW p \in Payments, NEW items, NEW price, NEW a, NEW u,
             NEW manual, CreateOrder(o, p, items, price, a, u, manual)
      PROVE  \A q \in Payments : PaymentMove(q)
  <2>1. payment[p].status = "ABSENT" /\ payment'[p].status \in {"PENDING", "UNDER_REVIEW"}
        /\ payment'[p].order = o
    BY <1>2 DEF CreateOrder, TypeOK
  <2>2. \A q \in Payments \ {p} : payment'[q] = payment[q]
    BY <1>2 DEF CreateOrder, TypeOK
  <2> QED BY <2>1, <2>2 DEF PaymentMove
<1>3. ASSUME NEW p \in Payments, NEW u \in Approvers, ApprovePayment(p, u)
      PROVE  \A q \in Payments : PaymentMove(q)
  <2> DEFINE w == [payment[p] EXCEPT !.status = "CONFIRMED", !.reviewedBy = u]
  <2>1. payment' = [payment EXCEPT ![p] = w]
    BY <1>3, Zenon DEF ApprovePayment, MayApprove
  <2>2. /\ w.status = "CONFIRMED" /\ w.order = payment[p].order
        /\ w.amount = payment[p].amount /\ w.submittedBy = payment[p].submittedBy
        /\ w.reviewedBy = u
    BY DEF TypeOK, Payment
  <2> HIDE DEF w
  <2>3. \A q \in Payments \ {p} : payment'[q] = payment[q]
    BY <2>1 DEF TypeOK
  <2>4. payment'[p] = w
    BY <2>1 DEF TypeOK
  <2>5. payment[p].status = "UNDER_REVIEW" /\ payment[p].submittedBy # u
    BY <1>3 DEF ApprovePayment, MayApprove
  <2> QED BY <2>2, <2>3, <2>4, <2>5 DEF PaymentMove, Same
<1>4. ASSUME NEW p \in Payments, NEW u \in Approvers, RejectPayment(p, u)
      PROVE  \A q \in Payments : PaymentMove(q)
  <2> DEFINE w == [payment[p] EXCEPT !.status = "FAILED", !.reviewedBy = u]
  <2>1. payment' = [payment EXCEPT ![p] = w]
    BY <1>4, Zenon DEF RejectPayment
  <2>2. /\ w.status = "FAILED" /\ w.order = payment[p].order
        /\ w.amount = payment[p].amount /\ w.submittedBy = payment[p].submittedBy
    BY DEF TypeOK, Payment
  <2> HIDE DEF w
  <2>3. \A q \in Payments \ {p} : payment'[q] = payment[q]
    BY <2>1 DEF TypeOK
  <2>4. payment'[p] = w
    BY <2>1 DEF TypeOK
  <2>5. payment[p].status = "UNDER_REVIEW"
    BY <1>4 DEF RejectPayment
  <2> QED BY <2>2, <2>3, <2>4, <2>5 DEF PaymentMove, Same
<1>5. ASSUME NEW p \in Payments, RefundPayment(p) PROVE \A q \in Payments : PaymentMove(q)
  <2>1. payment \in [Payments -> Payment] /\ "REFUNDED" \in PaymentStatus
    BY DEF TypeOK, PaymentStatus
  <2>2. payment[p].status = "CONFIRMED" /\ payment' = [payment EXCEPT ![p].status = "REFUNDED"]
    BY <1>5 DEF RefundPayment
  <2>3. \A q \in Payments \ {p} : payment'[q] = payment[q]
    BY <2>1, <2>2
  <2>4. payment'[p].status = "REFUNDED" /\ Same(p)
        /\ payment'[p].reviewedBy = payment[p].reviewedBy
    BY <2>1, <2>2, PaymentStatusSet DEF Same
  <2> QED BY <2>2, <2>3, <2>4 DEF PaymentMove
<1>6. ASSUME NEW r \in Requests, NEW p \in Payments, SubmitCommit(r, p)
      PROVE  \A q \in Payments : PaymentMove(q)
  <2>1. req[r] \in SubmitRequest
    BY <1>6 DEF SubmitCommit, TypeOK, Request, Idle, StatusRequest, CancelRequest, SweepRequest
  <2>2. payment[p].status = "ABSENT" /\ payment'[p].status = "UNDER_REVIEW"
        /\ payment'[p].order = req[r].order
    BY <1>6 DEF SubmitCommit, TypeOK
  <2>3. \A q \in Payments \ {p} : payment'[q] = payment[q]
    BY <1>6 DEF SubmitCommit, TypeOK
  <2> QED BY <2>1, <2>2, <2>3 DEF PaymentMove, SubmitRequest
<1>7. ASSUME NEW r \in Requests, CancelCommit(r) PROVE \A q \in Payments : PaymentMove(q)
  <2> DEFINE S == req[r].swept
  <2>1. S \in SUBSET Payments /\ \A q \in S : payment[q].status \in {"PENDING", "UNDER_REVIEW"}
    BY <1>7 DEF SweepsHoldLocks, PaymentsIn, CancelCommit
  <2>2. payment' = [q \in Payments |-> IF q \in S
           THEN [payment[q] EXCEPT !.status = "CANCELLED"] ELSE payment[q]]
    BY <1>7 DEF CancelCommit
  <2> HIDE DEF S
  <2>3. \A q \in Payments \ S : payment'[q] = payment[q]
    BY <2>2
  <2>4. \A q \in S : payment'[q].status = "CANCELLED" /\ Same(q)
    BY <2>1, <2>2, PaymentsSwept DEF Same, TypeOK
  <2> QED BY <2>1, <2>3, <2>4 DEF PaymentMove
<1> QED BY <1>1, <1>2, <1>3, <1>4, <1>5, <1>6, <1>7
        DEF Next, Catalogue, Create, Review, Begin, Continue, CreateProduct, AddVariant,
            UpdateProduct, AddStock, SubmitManualPayment, UpdateOrderStatus, CancelOrder,
            UpdateStatusWrite, CancelSweep, AbortRequest, rows, vars

\* What every step but its creation keeps of an order.
Kept(o) ==
  /\ order'[o].total = order[o].total
  /\ order'[o].items = order[o].items
  /\ order'[o].made = order[o].made

OrderMove(o) ==
  \/ order'[o] = order[o]
  \/ /\ order[o].status = "ABSENT" /\ order'[o].status \in {"PENDING_PAYMENT", "PAYMENT_REVIEW"}
     /\ ~ order'[o].released
  \/ /\ Kept(o) /\ order'[o].released = order[o].released
     /\ \/ /\ order'[o].status \in {"PENDING_PAYMENT", "PAYMENT_REVIEW"}
           /\ \/ \E p \in Payments : payment[p].status # "ABSENT" /\ payment[p].order = o
              \/ \E r \in Requests : req[r].op = "submit" /\ req[r].order = o
        \/ \E r \in Requests : /\ req[r].op = "status" /\ req[r].order = o
                               /\ order'[o].status = req[r].to
        \/ /\ \E r \in Requests : req[r].op = "sweep" /\ req[r].order = o
           /\ order'[o].status = "CANCELLED"
  \/ /\ Kept(o) /\ order'[o].released /\ order'[o].status \in Operational
     /\ \E p \in Payments :
          /\ payment[p].status = "UNDER_REVIEW" /\ payment[p].order = o /\ Releases(p)
          /\ \A q \in Payments \ {p} : payment'[q] = payment[q]
          /\ payment'[p].status = "CONFIRMED" /\ Same(p)

\* Every step creates an order, moves its status or releases its goods.
LEMMA OrderMoves ==
  ASSUME TypeOK, SweepsHoldLocks, [Next]_vars
  PROVE  \A o \in Orders : OrderMove(o)
<1> order \in [Orders -> Order] /\ payment \in [Payments -> Payment]
  BY DEF TypeOK
<1>1. CASE order' = order
  BY <1>1 DEF OrderMove
<1>2. ASSUME NEW o \in Orders, NEW p \in Payments, NEW items, NEW price, NEW a, NEW u,
             NEW manual, CreateOrder(o, p, items, price, a, u, manual)
      PROVE  \A x \in Orders : OrderMove(x)
  <2>1. /\ order[o].status = "ABSENT"
        /\ order'[o].status \in {"PENDING_PAYMENT", "PAYMENT_REVIEW"}
        /\ ~ order'[o].released
    BY <1>2 DEF CreateOrder
  <2>2. \A x \in Orders \ {o} : order'[x] = order[x]
    BY <1>2 DEF CreateOrder
  <2> QED BY <2>1, <2>2 DEF OrderMove
<1>3. ASSUME NEW o \in Orders, NEW s \in OrderStatus, SetOrderStatus(o, s)
      PROVE  /\ \A x \in Orders \ {o} : order'[x] = order[x]
             /\ Kept(o) /\ order'[o].released = order[o].released /\ order'[o].status = s
  <2>1. \A x \in Orders \ {o} : order'[x] = order[x]
    BY <1>3 DEF SetOrderStatus
  <2> QED BY <1>3, <2>1, OrderStatusSet DEF Kept
<1>4. ASSUME NEW p \in Payments, payment[p].status # "ABSENT", NEW S,
             SetOrderStatus(payment[p].order, Collecting(S))
      PROVE  \A x \in Orders : OrderMove(x)
  <2> DEFINE o == payment[p].order
  <2>1. o \in Orders
    BY <1>4 DEF TypeOK
  <2>2. /\ \A x \in Orders \ {o} : order'[x] = order[x]
        /\ Kept(o) /\ order'[o].released = order[o].released
        /\ order'[o].status = Collecting(S)
    BY <1>3, <1>4, <2>1, CollectingStatus
  <2>3. Collecting(S) \in {"PENDING_PAYMENT", "PAYMENT_REVIEW"}
    BY DEF Collecting
  <2>4. OrderMove(o)
    BY <1>4, <2>2, <2>3 DEF OrderMove
  <2>5. \A x \in Orders \ {o} : OrderMove(x)
    BY <2>2 DEF OrderMove
  <2> QED BY <2>4, <2>5
<1>5. ASSUME NEW p \in Payments, NEW u \in Approvers, ApprovePayment(p, u)
      PROVE  \A x \in Orders : OrderMove(x)
  <2> DEFINE o == payment[p].order
  <2>1. payment[p].status = "UNDER_REVIEW"
    BY <1>5 DEF ApprovePayment, MayApprove
  <2>2. o \in Orders
    BY <2>1 DEF TypeOK
  <2>3. CASE SetOrderStatus(o, Collecting(PaymentsIn(o, {"UNDER_REVIEW"}) \ {p}))
    BY <1>4, <2>1, <2>3
  <2>4. CASE Releases(p) /\ Release(o)
    <3> DEFINE w == [payment[p] EXCEPT !.status = "CONFIRMED", !.reviewedBy = u]
    <3>1. payment' = [payment EXCEPT ![p] = w]
      BY <1>5, Zenon DEF ApprovePayment, MayApprove
    <3>2. w.status = "CONFIRMED" /\ w.order = payment[p].order
          /\ w.amount = payment[p].amount /\ w.submittedBy = payment[p].submittedBy
      BY DEF Payment
    <3> HIDE DEF w
    <3>3. payment'[p] = w
      BY <3>1
    <3>4. /\ \A q \in Payments \ {p} : payment'[q] = payment[q]
          /\ payment'[p].status = "CONFIRMED" /\ Same(p)
      BY <3>1, <3>2, <3>3 DEF Same
    <3>5. /\ \A x \in Orders \ {o} : order'[x] = order[x]
          /\ Kept(o) /\ order'[o].released /\ order'[o].status \in Operational
      BY <2>2, <2>4, OrderReleased DEF Kept
    <3>6. OrderMove(o)
      BY <2>1, <2>4, <3>4, <3>5 DEF OrderMove
    <3>7. \A x \in Orders \ {o} : OrderMove(x)
      BY <3>5 DEF OrderMove
    <3> QED BY <3>6, <3>7
  <2> QED BY <1>5, <2>3, <2>4 DEF ApprovePayment, MayApprove
<1>6. ASSUME NEW p \in Payments, NEW u, RejectPayment(p, u) PROVE \A x \in Orders : OrderMove(x)
  BY <1>4, <1>6 DEF RejectPayment
<1>7. ASSUME NEW p \in Payments, RefundPayment(p) PROVE \A x \in Orders : OrderMove(x)
  BY <1>4, <1>7 DEF RefundPayment
<1>8. ASSUME NEW r \in Requests, NEW p, SubmitCommit(r, p) PROVE \A x \in Orders : OrderMove(x)
  <2>1. req[r] \in SubmitRequest
    BY <1>8 DEF SubmitCommit, TypeOK, Request, Idle, StatusRequest, CancelRequest, SweepRequest
  <2> DEFINE o == req[r].order
  <2>2. o \in Orders /\ "PAYMENT_REVIEW" \in OrderStatus
    BY <2>1 DEF SubmitRequest, OrderStatus
  <2>3. SetOrderStatus(o, "PAYMENT_REVIEW") /\ req[r].op = "submit"
    BY <1>8 DEF SubmitCommit
  <2>4. /\ \A x \in Orders \ {o} : order'[x] = order[x]
        /\ Kept(o) /\ order'[o].released = order[o].released
        /\ order'[o].status = "PAYMENT_REVIEW"
    BY <1>3, <2>2, <2>3
  <2> HIDE DEF o
  <2>5. OrderMove(o)
    BY <2>3, <2>4 DEF OrderMove, o
  <2>6. \A x \in Orders \ {o} : OrderMove(x)
    BY <2>4 DEF OrderMove
  <2> QED BY <2>5, <2>6
<1>9. ASSUME NEW r \in Requests, UpdateStatusWrite(r) PROVE \A x \in Orders : OrderMove(x)
  <2>1. req[r] \in StatusRequest
    BY <1>9 DEF UpdateStatusWrite, TypeOK, Request, Idle, SubmitRequest, CancelRequest, SweepRequest
  <2> DEFINE o == req[r].order
  <2>2. o \in Orders /\ req[r].to \in OrderStatus
    BY <2>1 DEF StatusRequest
  <2>3. SetOrderStatus(o, req[r].to) /\ req[r].op = "status"
    BY <1>9 DEF UpdateStatusWrite
  <2>4. /\ \A x \in Orders \ {o} : order'[x] = order[x]
        /\ Kept(o) /\ order'[o].released = order[o].released
        /\ order'[o].status = req[r].to
    BY <1>3, <2>2, <2>3
  <2> HIDE DEF o
  <2>5. OrderMove(o)
    BY <2>3, <2>4 DEF OrderMove, o
  <2>6. \A x \in Orders \ {o} : OrderMove(x)
    BY <2>4 DEF OrderMove
  <2> QED BY <2>5, <2>6
<1>10. ASSUME NEW r \in Requests, CancelCommit(r) PROVE \A x \in Orders : OrderMove(x)
  <2>1. req[r] \in SweepRequest
    BY <1>10 DEF CancelCommit, TypeOK, Request, Idle, SubmitRequest, StatusRequest, CancelRequest
  <2> DEFINE o == req[r].order
  <2>2. o \in Orders
    BY <2>1 DEF SweepRequest
  <2>3. order' = [order EXCEPT ![o].status = "CANCELLED", ![o].cancelled = TRUE]
        /\ req[r].op = "sweep"
    BY <1>10 DEF CancelCommit
  <2>4. \A x \in Orders \ {o} : order'[x] = order[x]
    BY <2>3, Zenon
  <2>5. Kept(o) /\ order'[o].released = order[o].released /\ order'[o].status = "CANCELLED"
    BY <2>2, <2>3, OrderCancelled DEF Kept
  <2> HIDE DEF o
  <2>6. OrderMove(o)
    BY <2>3, <2>5 DEF OrderMove, o
  <2>7. \A x \in Orders \ {o} : OrderMove(x)
    BY <2>4 DEF OrderMove
  <2> QED BY <2>6, <2>7
<1> QED BY <1>1, <1>2, <1>5, <1>6, <1>7, <1>8, <1>9, <1>10
        DEF Next, Catalogue, Create, Review, Begin, Continue, CreateProduct, AddVariant,
            UpdateProduct, AddStock, SubmitManualPayment, UpdateOrderStatus, CancelOrder,
            CancelSweep, AbortRequest, rows, vars

\* What a request may remember after a step.
RequestMove(r) ==
  \/ req'[r] = req[r]
  \/ req'[r].op = "idle"
  \/ req'[r].op = "submit" /\ order[req'[r].order].status # "ABSENT"
  \/ req'[r].op = "status" /\ order[req'[r].order].released /\ req'[r].to \in Operational
  \/ /\ req'[r].op = "cancel" /\ order[req'[r].order].status # "ABSENT"
     /\ req'[r].restock => order[req'[r].order].released
  \/ /\ req[r].op = "cancel" /\ req'[r].op = "sweep" /\ req'[r].order = req[r].order
     /\ req'[r].restock = req[r].restock

\* A request starts from rows that allow it, and then goes on or ends.
LEMMA RequestMoves ==
  ASSUME TypeOK, [Next]_vars
  PROVE  \A r \in Requests : RequestMove(r)
<1> req \in [Requests -> Request]
  BY DEF TypeOK
<1>1. CASE req' = req
  BY <1>1 DEF RequestMove
<1>2. ASSUME NEW r \in Requests, NEW w, req' = [req EXCEPT ![r] = w],
             /\ req'[r] = w => RequestMove(r)
      PROVE  \A q \in Requests : RequestMove(q)
  BY <1>2 DEF RequestMove
<1>3. ASSUME NEW r \in Requests, NEW o \in Orders, NEW u \in Staff,
             NEW a \in 1..order[o].total, SubmitManualPayment(r, o, a, u)
      PROVE  \A q \in Requests : RequestMove(q)
  BY <1>2, <1>3 DEF SubmitManualPayment, RequestMove
<1>4. ASSUME NEW r \in Requests, NEW o \in Orders, NEW s \in OrderStatus,
             UpdateOrderStatus(r, o, s)
      PROVE  \A q \in Requests : RequestMove(q)
  <2>1. s \in Operational
    BY <1>4 DEF UpdateOrderStatus, NextOperational, Operational
  <2> QED BY <1>2, <1>4, <2>1 DEF UpdateOrderStatus, RequestMove
<1>5. ASSUME NEW r \in Requests, NEW o \in Orders, NEW restock \in BOOLEAN,
             CancelOrder(r, o, restock)
      PROVE  \A q \in Requests : RequestMove(q)
  <2> DEFINE b == restock /\ order[o].released
             w == [op |-> "cancel", order |-> o, restock |-> b]
  <2>1. req' = [req EXCEPT ![r] = w] /\ order[o].status # "ABSENT"
    BY <1>5 DEF CancelOrder
  <2>2. b => order[o].released
    OBVIOUS
  <2> HIDE DEF b
  <2>3. w.op = "cancel" /\ w.order = o /\ w.restock = b
    OBVIOUS
  <2> HIDE DEF w
  <2> QED BY <1>2, <2>1, <2>2, <2>3 DEF RequestMove
<1>6. ASSUME NEW r \in Requests, req' = [req EXCEPT ![r] = Idle]
      PROVE  \A q \in Requests : RequestMove(q)
  BY <1>2, <1>6 DEF RequestMove, Idle
<1>7. ASSUME NEW r \in Requests, CancelSweep(r) PROVE \A q \in Requests : RequestMove(q)
  BY <1>2, <1>7 DEF CancelSweep, RequestMove
<1>8. CASE Catalogue \/ Create \/ Review \/ UNCHANGED vars
  <2>1. Catalogue => req' = req
    BY DEF Catalogue, CreateProduct, AddVariant, UpdateProduct, AddStock
  <2>2. Create => req' = req
    BY DEF Create, CreateOrder
  <2>3. Review => req' = req
    BY DEF Review, ApprovePayment, RejectPayment, RefundPayment
  <2> QED BY <1>1, <1>8, <2>1, <2>2, <2>3 DEF vars
<1>9. ASSUME NEW r \in Requests, Begin(r) PROVE \A q \in Requests : RequestMove(q)
  <2>1. ASSUME NEW o \in Orders, NEW u \in Staff, NEW a \in 1..order[o].total,
               SubmitManualPayment(r, o, a, u)
        PROVE  \A q \in Requests : RequestMove(q)
    BY <1>3, <2>1
  <2>2. ASSUME NEW o \in Orders, NEW s \in OrderStatus, UpdateOrderStatus(r, o, s)
        PROVE  \A q \in Requests : RequestMove(q)
    BY <1>4, <2>2
  <2>3. ASSUME NEW o \in Orders, NEW restock \in BOOLEAN, CancelOrder(r, o, restock)
        PROVE  \A q \in Requests : RequestMove(q)
    BY <1>5, <2>3, Zenon
  <2> QED BY <1>9, <2>1, <2>2, <2>3 DEF Begin
<1>10. ASSUME NEW r \in Requests, Continue(r) PROVE \A q \in Requests : RequestMove(q)
  BY <1>6, <1>7, <1>10
     DEF Continue, SubmitCommit, UpdateStatusWrite, CancelCommit, AbortRequest
<1> QED BY <1>8, <1>9, <1>10 DEF Next

\* Every return of goods is one a cancellation asked for.
LEMMA ReturnMoves ==
  ASSUME TypeOK, [Next]_vars
  PROVE  \A o \in Orders :
           \/ restocked'[o] = restocked[o]
           \/ /\ restocked'[o] = restocked[o] + 1
              /\ \E r \in Requests : req[r].op = "sweep" /\ req[r].order = o /\ req[r].restock
<1> restocked \in [Orders -> Nat]
  BY DEF TypeOK
<1>1. CASE \E r \in Requests : CancelCommit(r)
  BY <1>1 DEF CancelCommit
<1>2. CASE restocked' = restocked
  BY <1>2
<1>3. Catalogue => restocked' = restocked
  BY DEF Catalogue, CreateProduct, AddVariant, UpdateProduct, AddStock
<1>4. Create => restocked' = restocked
  BY DEF Create, CreateOrder
<1>5. Review => restocked' = restocked
  BY DEF Review, ApprovePayment, RejectPayment, RefundPayment
<1>6. ASSUME NEW r \in Requests, Begin(r) PROVE restocked' = restocked
  BY <1>6 DEF Begin, SubmitManualPayment, UpdateOrderStatus, CancelOrder, rows
<1>7. ASSUME NEW r \in Requests, Continue(r) PROVE CancelCommit(r) \/ restocked' = restocked
  BY <1>7 DEF Continue, SubmitCommit, UpdateStatusWrite, CancelSweep, AbortRequest, rows
<1> QED BY <1>1, <1>2, <1>3, <1>4, <1>5, <1>6, <1>7 DEF Next, vars

\* The order a request in flight is about is an order.
LEMMA RequestOrder ==
  ASSUME TypeOK, NEW r \in Requests, req[r].op # "idle"
  PROVE  req[r].order \in Orders
  BY DEF TypeOK, Request, Idle, SubmitRequest, StatusRequest, CancelRequest, SweepRequest

\* A new payment belongs to an order that exists from then on.
LEMMA NewPayment ==
  ASSUME TypeOK, SweepsHoldLocks, [Next]_vars, NEW p \in Payments,
         payment[p].status = "ABSENT", payment'[p].status # "ABSENT"
  PROVE  order'[payment'[p].order].status # "ABSENT"
<1> order \in [Orders -> Order] /\ payment \in [Payments -> Payment]
  BY DEF TypeOK
<1>1. ASSUME NEW o \in Orders, NEW q \in Payments, NEW items, NEW price, NEW a, NEW u,
             NEW manual, CreateOrder(o, q, items, price, a, u, manual)
      PROVE  order'[payment'[p].order].status # "ABSENT"
  <2>1. p = q
    BY <1>1 DEF CreateOrder
  <2>2. payment'[p].order = o
    BY <1>1, <2>1 DEF CreateOrder
  <2> QED BY <1>1, <2>2 DEF CreateOrder
<1>2. ASSUME NEW r \in Requests, NEW q \in Payments, SubmitCommit(r, q)
      PROVE  order'[payment'[p].order].status # "ABSENT"
  <2>1. p = q /\ payment'[p].order = req[r].order
    BY <1>2 DEF SubmitCommit
  <2>2. req[r].order \in Orders
    BY <1>2, RequestOrder DEF SubmitCommit
  <2> QED BY <1>2, <2>1, <2>2 DEF SubmitCommit, SetOrderStatus
<1>3. CASE payment' = payment
  BY <1>3
<1>4. Catalogue => payment' = payment
  BY DEF Catalogue, CreateProduct, AddVariant, UpdateProduct, AddStock
<1>5. ASSUME NEW q \in Payments, NEW w, payment[q].status # "ABSENT",
             payment' = [payment EXCEPT ![q] = w]
      PROVE  FALSE
  BY <1>5
<1>6. ~ Review
  <2>1. ASSUME NEW q \in Payments, NEW u, ApprovePayment(q, u) PROVE FALSE
    <3>1. payment' = [payment EXCEPT ![q] =
             [payment[q] EXCEPT !.status = "CONFIRMED", !.reviewedBy = u]]
      BY <2>1, Zenon DEF ApprovePayment, MayApprove
    <3> QED BY <1>5, <2>1, <3>1 DEF ApprovePayment, MayApprove
  <2>2. ASSUME NEW q \in Payments, NEW u, RejectPayment(q, u) PROVE FALSE
    <3>1. payment' = [payment EXCEPT ![q] =
             [payment[q] EXCEPT !.status = "FAILED", !.reviewedBy = u]]
      BY <2>2, Zenon DEF RejectPayment
    <3> QED BY <1>5, <2>2, <3>1 DEF RejectPayment
  <2>3. ASSUME NEW q \in Payments, RefundPayment(q) PROVE FALSE
    <3>1. payment' = [payment EXCEPT ![q] = [payment[q] EXCEPT !.status = "REFUNDED"]]
      BY <2>3, Zenon DEF RefundPayment
    <3> QED BY <1>5, <2>3, <3>1 DEF RefundPayment
  <2> QED BY <2>1, <2>2, <2>3 DEF Review
<1>7. ASSUME NEW r \in Requests, Begin(r) PROVE payment' = payment
  BY <1>7 DEF Begin, SubmitManualPayment, UpdateOrderStatus, CancelOrder, rows
<1>8. ASSUME NEW r \in Requests, CancelCommit(r) PROVE FALSE
  <2>1. payment'[p] = payment[p] \/ payment'[p] = [payment[p] EXCEPT !.status = "CANCELLED"]
    BY <1>8 DEF CancelCommit
  <2>2. p \in req[r].swept
    BY <1>8, <2>1 DEF CancelCommit
  <2> QED BY <1>8, <2>2 DEF SweepsHoldLocks, PaymentsIn, CancelCommit
<1>9. ASSUME NEW r \in Requests, Continue(r)
      PROVE  CancelCommit(r) \/ (\E q \in Payments : SubmitCommit(r, q)) \/ payment' = payment
  BY <1>9 DEF Continue, UpdateStatusWrite, CancelSweep, AbortRequest, rows
<1> QED BY <1>1, <1>2, <1>3, <1>4, <1>6, <1>7, <1>8, <1>9 DEF Next, Create, vars

-----------------------------------------------------------------------------
(* The inductive invariant *)

\* A row that is not created yet is not used, and only released goods are returned.
Unused ==
  \A o \in Orders :
    /\ order[o].status = "ABSENT" => ~ order[o].released
    /\ restocked[o] > 0 => order[o].released

\* Payments and requests refer to orders that exist; a request that moves an order
\* to an operational status, or returns its goods, has seen it released.
Referring ==
  /\ \A p \in Payments : payment[p].status # "ABSENT" =>
       order[payment[p].order].status # "ABSENT"
  /\ \A r \in Requests :
       /\ req[r].op \in {"submit", "cancel", "sweep"} => order[req[r].order].status # "ABSENT"
       /\ req[r].op = "status" =>
            order[req[r].order].released /\ req[r].to \in Operational
       /\ req[r].op \in {"cancel", "sweep"} /\ req[r].restock => order[req[r].order].released

Inv == TypeOK /\ SweepsHoldLocks /\ Unused /\ Referring /\ FulfilmentNeedsRelease

\* The inductive invariant holds of the empty store.
LEMMA InvInit == Init => Inv
<1> SUFFICES ASSUME Init PROVE Inv
  OBVIOUS
<1>1. TypeOK /\ SweepsHoldLocks
  BY TypeInit, LocksInit
<1> QED BY <1>1 DEF Init, Inv, Unused, Referring, FulfilmentNeedsRelease, Operational, Idle

\* Orders never disappear, and goods once released stay released.
LEMMA OrdersStay ==
  ASSUME Inv, [Next]_vars, NEW o \in Orders
  PROVE  /\ order[o].status # "ABSENT" => order'[o].status # "ABSENT"
         /\ order[o].released => order'[o].released
<1>1. OrderMove(o)
  BY OrderMoves DEF Inv
<1>2. \A r \in Requests : req[r].op = "status" => req[r].to # "ABSENT"
  BY DEF Inv, Referring, Operational
<1> QED BY <1>1, <1>2 DEF OrderMove, Inv, Unused, Operational

\* Every step keeps the inductive invariant.
LEMMA InvStep == Inv /\ [Next]_vars => Inv'
<1> SUFFICES ASSUME Inv, [Next]_vars PROVE Inv'
  OBVIOUS
<1>1. TypeOK /\ SweepsHoldLocks /\ TypeOK' /\ SweepsHoldLocks'
  BY TypeStep, LocksStep DEF Inv
<1>2. Unused'
  <2> SUFFICES ASSUME NEW o \in Orders
               PROVE  /\ order'[o].status = "ABSENT" => ~ order'[o].released
                      /\ restocked'[o] > 0 => order'[o].released
    BY DEF Unused
  <2>1. order'[o].status = "ABSENT" => ~ order'[o].released
    <3>1. OrderMove(o)
      BY <1>1, OrderMoves
    <3>2. order'[o].status = "ABSENT" => order'[o] = order[o]
      BY <3>1 DEF OrderMove, Inv, Referring, Operational
    <3> QED BY <3>2 DEF Inv, Unused
  <2>2. restocked'[o] > 0 => order[o].released
    BY <1>1, ReturnMoves DEF Inv, Unused, Referring
  <2> QED BY <2>1, <2>2, OrdersStay
<1>3. Referring'
  <2>1. ASSUME NEW p \in Payments, payment'[p].status # "ABSENT"
        PROVE  order'[payment'[p].order].status # "ABSENT"
    <3>1. PaymentMove(p)
      BY <1>1, PaymentMoves
    <3>2. CASE payment[p].status # "ABSENT"
      <4>1. payment[p].order \in Orders /\ payment'[p].order = payment[p].order
        BY <1>1, <3>1, <3>2 DEF TypeOK, PaymentMove, Same
      <4> QED BY <3>2, <4>1, OrdersStay DEF Inv, Referring
    <3>3. CASE payment[p].status = "ABSENT"
      BY <1>1, <2>1, <3>3, NewPayment
    <3> QED BY <3>2, <3>3
  <2>2. ASSUME NEW r \in Requests
        PROVE  /\ req'[r].op \in {"submit", "cancel", "sweep"} =>
                    order'[req'[r].order].status # "ABSENT"
               /\ req'[r].op = "status" =>
                    order'[req'[r].order].released /\ req'[r].to \in Operational
               /\ req'[r].op \in {"cancel", "sweep"} /\ req'[r].restock =>
                    order'[req'[r].order].released
    <3>1. RequestMove(r)
      BY <1>1, RequestMoves
    <3> DEFINE o == req'[r].order
    <3>2. CASE req'[r].op = "idle"
      BY <3>2
    <3>3. CASE req'[r].op # "idle"
      <4>1. o \in Orders
        <5>1. (TypeOK /\ r \in Requests /\ req[r].op # "idle" => req[r].order \in Orders)'
          BY RequestOrder, PTL
        <5> QED BY <1>1, <3>3, <5>1
      <4>2. /\ order[o].status # "ABSENT" => order'[o].status # "ABSENT"
            /\ order[o].released => order'[o].released
        BY <4>1, OrdersStay
      <4>3. /\ req'[r].op \in {"submit", "cancel", "sweep"} => order[o].status # "ABSENT"
            /\ req'[r].op = "status" => order[o].released /\ req'[r].to \in Operational
            /\ req'[r].op \in {"cancel", "sweep"} /\ req'[r].restock => order[o].released
        BY <3>1, <3>3 DEF RequestMove, Inv, Referring
      <4> QED BY <4>2, <4>3
    <3> QED BY <3>2, <3>3
  <2> QED BY <2>1, <2>2 DEF Referring
<1>4. FulfilmentNeedsRelease'
  <2> SUFFICES ASSUME NEW o \in Orders, order'[o].status \in Operational
               PROVE  order'[o].released
    BY DEF FulfilmentNeedsRelease
  <2>1. OrderMove(o)
    BY <1>1, OrderMoves
  <2> QED BY <2>1 DEF OrderMove, Inv, Referring, FulfilmentNeedsRelease, Operational
<1> QED BY <1>1, <1>2, <1>3, <1>4 DEF Inv

-----------------------------------------------------------------------------
(* The theorems *)

\* The rows of the store and what requests remember of them are well typed
\* whatever the interleaving of approvals, submissions and cancellations.
THEOREM TypeCorrect == Spec => []TypeOK
<1>1. Init => TypeOK /\ SweepsHoldLocks
  BY TypeInit, LocksInit
<1>2. TypeOK /\ SweepsHoldLocks /\ [Next]_vars => (TypeOK /\ SweepsHoldLocks)'
  BY TypeStep, LocksStep
<1> QED BY <1>1, <1>2, PTL DEF Spec

\* What a cancellation commits is what it saw: its row locks hold off every
\* review and every other cancellation of these payments.
THEOREM CancellationIsolated == Spec => []SweepsHoldLocks
<1>1. Init => TypeOK /\ SweepsHoldLocks
  BY TypeInit, LocksInit
<1>2. TypeOK /\ SweepsHoldLocks /\ [Next]_vars => (TypeOK /\ SweepsHoldLocks)'
  BY TypeStep, LocksStep
<1> QED BY <1>1, <1>2, PTL DEF Spec

\* Whoever confirms a payment is an approver and not the one who submitted it.
THEOREM FourEyesHolds == Spec => []FourEyes
<1>1. Init => FourEyes
  BY DEF Init, FourEyes
<1>2. TypeOK /\ SweepsHoldLocks /\ FourEyes /\ [Next]_vars => FourEyes'
  <2> SUFFICES ASSUME TypeOK, SweepsHoldLocks, FourEyes, [Next]_vars, NEW p \in Payments,
                      payment'[p].status \in {"CONFIRMED", "REFUNDED"}
               PROVE  /\ payment'[p].reviewedBy \in Approvers
                      /\ payment'[p].reviewedBy # payment'[p].submittedBy
    BY DEF FourEyes
  <2>1. PaymentMove(p)
    BY PaymentMoves
  <2> QED BY <2>1 DEF PaymentMove, Same, FourEyes
<1> QED BY <1>1, <1>2, TypeCorrect, CancellationIsolated, PTL DEF Spec

\* No interleaving reopens a payment that was rejected, cancelled or refunded, or
\* changes confirmed money otherwise than by a refund.
THEOREM DecisionsAreFinal == Spec => DecidedPaymentsStay
<1>1. ASSUME TypeOK, SweepsHoldLocks, [Next]_vars
      PROVE  \A p \in Payments :
               /\ payment[p].status \in {"FAILED", "CANCELLED", "REFUNDED"} =>
                    payment'[p] = payment[p]
               /\ payment[p].status = "CONFIRMED" =>
                    payment'[p].status \in {"CONFIRMED", "REFUNDED"}
  BY <1>1, PaymentMoves DEF PaymentMove
<1> QED BY <1>1, TypeCorrect, CancellationIsolated, PTL DEF Spec, DecidedPaymentsStay

\* The goods of an order in fulfilment have left the stock, whatever stale row an
\* operator's request acts on.
THEOREM FulfilmentAfterRelease == Spec => []FulfilmentNeedsRelease
<1>1. Inv => FulfilmentNeedsRelease
  BY DEF Inv
<1> QED BY <1>1, InvInit, InvStep, PTL DEF Spec

-----------------------------------------------------------------------------
(* Products that sell out *)

\* Only an approval that releases goods leaves a variant with fewer units, and no step
\* takes a variant out of the catalogue.
Sells == \E o \in Orders : Release(o)

LEMMA StockGrows ==
  ASSUME TypeOK, [Next]_vars
  PROVE  \/ Sells /\ UNCHANGED variants
         \/ variants \subseteq variants' /\ \A v \in Variants : stock'[v] >= stock[v]
<1> DEFINE Grows == variants \subseteq variants' /\ \A v \in Variants : stock'[v] >= stock[v]
<1>1. \A v \in Variants : stock[v] \in Nat
  BY DEF TypeOK
<1>2. ASSUME UNCHANGED stock, variants \subseteq variants' PROVE Grows
  BY <1>1, <1>2
<1>3. CASE Catalogue
  <2>1. ASSUME NEW v \in Variants, NEW n \in 1..MaxEntries, AddStock(v, n)
        PROVE  Grows
    BY <1>1, <2>1 DEF AddStock, TypeOK
  <2>2. CASE ~ \E v \in Variants, n \in 1..MaxEntries : AddStock(v, n)
    BY <1>2, <1>3, <2>2 DEF Catalogue, CreateProduct, AddVariant, UpdateProduct
  <2> QED BY <2>1, <2>2
<1>4. CASE Create
  BY <1>2, <1>4 DEF Create, CreateOrder
<1>5. CASE Review
  <2>1. ASSUME NEW p \in Payments, NEW u \in Approvers, ApprovePayment(p, u)
        PROVE  (Sells /\ UNCHANGED variants) \/ Grows
    <3>1. payment[p].order \in Orders
      BY <2>1 DEF ApprovePayment, MayApprove, TypeOK
    <3> QED BY <1>2, <2>1, <3>1 DEF ApprovePayment, Sells
  <2>2. ASSUME NEW p \in Payments, NEW u \in Approvers, RejectPayment(p, u)
        PROVE  Grows
    BY <1>2, <2>2 DEF RejectPayment
  <2>3. ASSUME NEW p \in Payments, RefundPayment(p)
        PROVE  Grows
    BY <1>2, <2>3 DEF RefundPayment
  <2> QED BY <1>5, <2>1, <2>2, <2>3 DEF Review
<1>6. ASSUME NEW r \in Requests, Begin(r) PROVE Grows
  BY <1>2, <1>6 DEF Begin, SubmitManualPayment, UpdateOrderStatus, CancelOrder, rows
<1>7. ASSUME NEW r \in Requests, Continue(r) PROVE Grows
  <2>1. CASE CancelCommit(r)
    <3>1. CASE UNCHANGED stock
      BY <1>2, <2>1, <3>1 DEF CancelCommit
    <3>2. CASE \E o \in Orders : stock' = [v \in Variants |-> stock[v] + Need(o)[v]]
      <4>1. PICK o \in Orders : stock' = [v \in Variants |-> stock[v] + Need(o)[v]]
        BY <3>2
      <4>2. \A v \in Variants : stock'[v] >= stock[v]
        BY <1>1, <4>1, NeedNat
      <4> QED BY <2>1, <4>2 DEF CancelCommit
    <3>3. req[r].op = "sweep" => req[r].order \in Orders
      BY DEF TypeOK, Request, Idle, SubmitRequest, StatusRequest, CancelRequest, SweepRequest
    <3> QED BY <2>1, <3>1, <3>2, <3>3 DEF CancelCommit
  <2>2. CASE ~ CancelCommit(r)
    BY <1>2, <1>7, <2>2 DEF Continue, SubmitCommit, UpdateStatusWrite, CancelSweep, AbortRequest, rows
  <2> QED BY <2>1, <2>2
<1>8. CASE UNCHANGED vars
  BY <1>2, <1>8 DEF vars, rows
<1> QED BY <1>3, <1>4, <1>5, <1>6, <1>7, <1>8 DEF Next

\* Whatever is in flight, the approval that sells the last unit of a product takes
\* it off sale, and nothing else sells one out.
THEOREM SoldOutTakenOff == Spec => SoldOutLeavesSale
<1> DEFINE Leaves == \A x \in Products :
                       x \notin SoldOut(stock) /\ x \in SoldOut(stock)' =>
                         catalogue'[x].status = "OUT_OF_STOCK"
<1>1. ASSUME TypeOK, [Next]_vars, NEW x \in Products, x \notin SoldOut(stock), x \in SoldOut(stock)'
      PROVE  catalogue'[x].status = "OUT_OF_STOCK"
  <2>1. PICK v \in variants : ProductOf[v] = x /\ stock[v] # 0
    BY <1>1 DEF SoldOut
  <2>2. v \in Variants /\ stock[v] \in Nat
    BY <1>1 DEF TypeOK
  <2>3. v \in variants' => stock'[v] = 0
    BY <1>1, <2>1 DEF SoldOut
  <2>4. Sells /\ UNCHANGED variants
    BY <1>1, <2>1, <2>2, <2>3, StockGrows
  <2>5. PICK o \in Orders : Release(o)
    BY <2>4 DEF Sells
  <2> DEFINE need == Need(o)
  <2>6. stock'[v] = stock[v] - need[v] /\ stock'[v] = 0
    BY <2>1, <2>2, <2>3, <2>4, <2>5 DEF Release
  <2>7. need[v] > 0
    BY <1>1, <2>1, <2>2, <2>6, NeedNat
  <2>8. x \in Touched(need) \cap SoldOut(stock')
    BY <1>1, <2>1, <2>2, <2>4, <2>7 DEF Touched, SoldOut
  <2>9. catalogue'[x] = [catalogue[x] EXCEPT !.status = "OUT_OF_STOCK"]
    BY <2>5, <2>8 DEF Release
  <2>10. catalogue[x] \in [status : ProductStatus \cup {"ABSENT"}, made : BOOLEAN]
    BY <1>1 DEF TypeOK
  <2> QED BY <2>9, <2>10
<1>2. TypeOK /\ [Next]_vars => [Leaves]_vars
  BY <1>1
<1> QED BY <1>2, TypeCorrect, PTL DEF Spec, SoldOutLeavesSale

-----------------------------------------------------------------------------
(* Money *)

\* What payment p adds to the order's payments with a status in S.
Share(p, o, S) ==
  IF payment[p].order = o /\ payment[p].status \in S THEN payment[p].amount ELSE 0

\* The sum of an order's payments is a natural number, and a step that changes one
\* payment changes it by that payment's share.
LEMMA AmountChange ==
  ASSUME TypeOK, TypeOK', NEW o, NEW S, NEW p \in Payments,
         \A q \in Payments \ {p} : payment'[q] = payment[q]
  PROVE  /\ AmountIn(o, S) \in Int /\ Share(p, o, S) \in Nat /\ Share(p, o, S)' \in Nat
         /\ AmountIn(o, S)' = AmountIn(o, S) + Share(p, o, S)' - Share(p, o, S)
<1> DEFINE f == [q \in Payments |-> Share(q, o, S)]
           g == [q \in Payments |-> Share(q, o, S)']
<1>1. \A q \in Payments : Share(q, o, S) \in Nat /\ Share(q, o, S)' \in Nat
  BY DEF Share, TypeOK, Payment
<1>2. f \in [Payments -> Int] /\ g \in [Payments -> Int]
  BY <1>1
<1>3. \A q \in Payments \ {p} : f[q] = g[q]
  BY DEF Share
<1>4. f[p] = Share(p, o, S) /\ g[p] = Share(p, o, S)'
  OBVIOUS
<1>5. AmountIn(o, S) = SumFunctionOnSet(f, Payments)
      /\ AmountIn(o, S)' = SumFunctionOnSet(g, Payments)
  BY DEF AmountIn, Share
<1>6. IsFiniteSet(Payments)
  BY StoreAssumption
<1> HIDE DEF f, g
<1>7. /\ SumFunctionOnSet(f, Payments) \in Int
      /\ SumFunctionOnSet(g, Payments) = SumFunctionOnSet(f, Payments) + g[p] - f[p]
  BY <1>2, <1>3, <1>6, SumUpdate
<1> QED BY <1>1, <1>4, <1>5, <1>7

\* Goods leave the stock only for an order that is then fully paid, and never twice.
THEOREM ReleasedOnceAndPaid == Spec => ReleaseOncePaid
<1>1. ASSUME Inv, Inv', [Next]_vars
      PROVE  \A o \in Orders :
               /\ order[o].released => order'[o].released
               /\ ~ order[o].released /\ order'[o].released =>
                    AmountIn(o, {"CONFIRMED"})' >= order[o].total
  <2>1. \A o \in Orders : order[o].released => order'[o].released
    BY <1>1, OrdersStay
  <2>2. ASSUME NEW o \in Orders, ~ order[o].released, order'[o].released
        PROVE  AmountIn(o, {"CONFIRMED"})' >= order[o].total
    <3>1. OrderMove(o)
      BY <1>1, OrderMoves DEF Inv
    <3>2. PICK p \in Payments :
             /\ payment[p].status = "UNDER_REVIEW" /\ payment[p].order = o /\ Releases(p)
             /\ \A q \in Payments \ {p} : payment'[q] = payment[q]
             /\ payment'[p].status = "CONFIRMED" /\ Same(p)
      BY <2>2, <3>1 DEF OrderMove
    <3>3. /\ AmountIn(o, {"CONFIRMED"}) \in Int
          /\ AmountIn(o, {"CONFIRMED"})' = AmountIn(o, {"CONFIRMED"})
               + Share(p, o, {"CONFIRMED"})' - Share(p, o, {"CONFIRMED"})
      BY <1>1, <3>2, AmountChange DEF Inv
    <3>4. Share(p, o, {"CONFIRMED"}) = 0 /\ Share(p, o, {"CONFIRMED"})' = payment[p].amount
      BY <3>2 DEF Share, Same
    <3>5. AmountIn(o, {"CONFIRMED"}) + payment[p].amount >= order[o].total
      BY <3>2 DEF Releases
    <3>6. payment[p].amount \in Nat /\ order[o].total \in Nat
      BY <1>1 DEF Inv, TypeOK, Payment, Order
    <3> QED BY <3>3, <3>4, <3>5, <3>6
  <2> QED BY <2>1, <2>2
<1> QED BY <1>1, InvInit, InvStep, PTL DEF Spec, ReleaseOncePaid

-----------------------------------------------------------------------------
(* Goods move as GoodsFlow says *)

\* What GoodsFlow sees of an order is unchanged when its items, its release and
\* whether it exists are.
LEMMA SameGoods ==
  ASSUME \A o \in Orders : /\ order'[o].items = order[o].items
                           /\ order'[o].made = order[o].made
                           /\ order'[o].released = order[o].released
                           /\ order'[o].status = "ABSENT" <=> order[o].status = "ABSENT"
  PROVE  /\ [o \in Orders |-> Need(o)]' = [o \in Orders |-> Need(o)]
         /\ {o \in Orders : order[o].status # "ABSENT"}'
              = {o \in Orders : order[o].status # "ABSENT"}
         /\ {o \in Orders : order[o].released}' = {o \in Orders : order[o].released}
  BY DEF Need

\* The empty store is GoodsFlow's initial state.
LEMMA GoodsInit == Init => Goods!Init
  BY DEF Init, Goods!Init, Need

\* Every step is a step of GoodsFlow or changes nothing it sees.
LEMMA GoodsStep == Inv /\ [Next]_vars => [Goods!Next]_(Goods!goods)
<1> SUFFICES ASSUME Inv, [Next]_vars PROVE Goods!Next \/ UNCHANGED Goods!goods
  OBVIOUS
<1> TypeOK /\ order \in [Orders -> Order]
  BY DEF Inv, TypeOK
<1> DEFINE L == [o \in Orders |-> Need(o)]
           P == {o \in Orders : order[o].status # "ABSENT"}
           R == {o \in Orders : order[o].released}
<1>1. CASE order' = order /\ stock' = stock
  <2>1. L' = L /\ P' = P /\ R' = R
    BY <1>1, SameGoods
  <2> QED BY <1>1, <2>1 DEF Goods!goods
<1>2. ASSUME NEW o \in Orders, NEW s \in OrderStatus, SetOrderStatus(o, s),
             order[o].status # "ABSENT", stock' = stock
      PROVE  UNCHANGED Goods!goods
  <2>1. \A x \in Orders : /\ order'[x].items = order[x].items /\ order'[x].made = order[x].made
                          /\ order'[x].released = order[x].released
                          /\ order'[x].status = IF x = o THEN s ELSE order[x].status
    BY <1>2, OrderStatusSet
  <2>2. s # "ABSENT"
    BY DEF OrderStatus, Operational
  <2>3. L' = L /\ P' = P /\ R' = R
    BY <1>2, <2>1, <2>2, SameGoods
  <2> QED BY <1>2, <2>3 DEF Goods!goods
<1>3. ASSUME NEW v \in Variants, NEW n \in 1..MaxEntries, AddStock(v, n) PROVE Goods!Next
  <2>1. order' = order /\ stock' = [stock EXCEPT ![v] = stock[v] + n]
    BY <1>3 DEF AddStock
  <2>2. L' = L /\ P' = P /\ R' = R
    BY <2>1, SameGoods
  <2>3. n \in Nat /\ n > 0 /\ stock \in [Variants -> Nat]
    BY StoreAssumption DEF Inv, TypeOK
  <2>4. stock'[v] = stock[v] + n
    BY <2>1, <2>3
  <2>5. stock'[v] \in Nat /\ stock'[v] > stock[v] /\ stock' = [stock EXCEPT ![v] = stock'[v]]
    BY <2>1, <2>3, <2>4
  <2>6. Goods!Receive(v)
    BY <2>2, <2>5 DEF Goods!Receive
  <2> QED BY <2>6 DEF Goods!Next
<1>4. ASSUME NEW o \in Orders, NEW p \in Payments, NEW items \in Ordered,
             NEW price \in [Products -> SalePrices], NEW u \in Staff \cup Students,
             NEW manual \in BOOLEAN, NEW a \in 1..OrderTotal(items, price),
             CreateOrder(o, p, items, price, a, u, manual)
      PROVE  Goods!Next
  <2>1. /\ order[o].status = "ABSENT" /\ ~ order[o].released
        /\ order'[o].status # "ABSENT" /\ ~ order'[o].released
        /\ \A x \in Orders \ {o} : order'[x] = order[x]
        /\ stock' = stock
    BY <1>4 DEF CreateOrder, Inv, Unused
  <2>2. \A x \in Orders \ {o} : Need(x)' = Need(x)
    BY <2>1 DEF Need
  <2>3. L' = [L EXCEPT ![o] = L'[o]]
    BY <2>2
  <2>4. L'[o] \in [Variants -> Nat]
    <3>1. TypeOK'
      BY TypeStep DEF Inv
    <3>2. (TypeOK => Need(o) \in [Variants -> Nat])'
      BY NeedNat, PTL
    <3> QED BY <3>1, <3>2
  <2>5. o \notin P /\ P' = P \cup {o} /\ R' = R
    BY <2>1
  <2> HIDE DEF L, P, R
  <2>6. Goods!Place(o)
    BY <2>1, <2>3, <2>4, <2>5 DEF Goods!Place, L, P, R
  <2> QED BY <2>6 DEF Goods!Next
<1>5. ASSUME NEW p \in Payments, payment[p].status # "ABSENT"
      PROVE  payment[p].order \in Orders /\ order[payment[p].order].status # "ABSENT"
  BY <1>5 DEF Inv, TypeOK, Referring
<1>6. ASSUME NEW p \in Payments, NEW u \in Approvers, ApprovePayment(p, u)
      PROVE  Goods!Next \/ UNCHANGED Goods!goods
  <2> DEFINE o == payment[p].order
  <2>1. o \in Orders /\ order[o].status # "ABSENT"
    BY <1>5, <1>6 DEF ApprovePayment, MayApprove
  <2>2. CASE SetOrderStatus(o, Collecting(PaymentsIn(o, {"UNDER_REVIEW"}) \ {p}))
             /\ UNCHANGED <<stock, catalogue>>
    BY <1>2, <2>1, <2>2, CollectingStatus
  <2>3. CASE Releases(p) /\ Release(o)
    <3>1. /\ order'[o].status # "ABSENT" /\ order'[o].released /\ ~ order[o].released
          /\ \A x \in Orders \ {o} : order'[x] = order[x]
          /\ order'[o].items = order[o].items /\ order'[o].made = order[o].made
      BY <2>1, <2>3, OrderReleased DEF Operational, Releases
    <3>2. L' = L /\ P' = P /\ R' = R \cup {o} /\ o \in P \ R
      BY <2>1, <3>1 DEF Need
    <3>3. /\ \A v \in Variants : L[o][v] <= stock[v]
          /\ stock' = [v \in Variants |-> stock[v] - L[o][v]]
      BY <2>1, <2>3 DEF Release, Available, Touched
    <3> HIDE DEF o
    <3>4. PICK x \in Orders : x = o
      BY <2>1
    <3>5. Goods!Release(x)
      BY <3>2, <3>3, <3>4 DEF Goods!Release
    <3> QED BY <3>5 DEF Goods!Next
  <2> QED BY <1>6, <2>2, <2>3 DEF ApprovePayment, MayApprove
<1>7. ASSUME NEW p \in Payments, NEW u, RejectPayment(p, u) PROVE UNCHANGED Goods!goods
  BY <1>2, <1>5, <1>7, CollectingStatus DEF RejectPayment
<1>8. ASSUME NEW p \in Payments, RefundPayment(p) PROVE UNCHANGED Goods!goods
  BY <1>2, <1>5, <1>8, CollectingStatus DEF RefundPayment
<1>9. ASSUME NEW r \in Requests, NEW p \in Payments, SubmitCommit(r, p)
      PROVE  UNCHANGED Goods!goods
  <2>1. req[r].order \in Orders /\ order[req[r].order].status # "ABSENT"
    BY <1>9, RequestOrder DEF SubmitCommit, Inv, Referring
  <2>2. SetOrderStatus(req[r].order, "PAYMENT_REVIEW") /\ stock' = stock
    BY <1>9 DEF SubmitCommit
  <2> QED BY <1>2, <2>1, <2>2 DEF OrderStatus
<1>10. ASSUME NEW r \in Requests, UpdateStatusWrite(r) PROVE UNCHANGED Goods!goods
  <2>1. req[r].order \in Orders /\ order[req[r].order].released /\ req[r].to \in OrderStatus
    BY <1>10, RequestOrder DEF UpdateStatusWrite, Inv, Referring, OrderStatus
  <2>2. SetOrderStatus(req[r].order, req[r].to) /\ stock' = stock
    BY <1>10 DEF UpdateStatusWrite
  <2>3. order[req[r].order].status # "ABSENT"
    BY <2>1 DEF Inv, Unused
  <2> QED BY <1>2, <2>1, <2>2, <2>3
<1>11. ASSUME NEW r \in Requests, CancelCommit(r) PROVE Goods!Next \/ UNCHANGED Goods!goods
  <2> DEFINE o == req[r].order
  <2>1. o \in Orders /\ order[o].status # "ABSENT"
        /\ (req[r].restock => order[o].released)
    BY <1>11, RequestOrder DEF CancelCommit, Inv, Referring
  <2>2. \A x \in Orders : /\ order'[x].items = order[x].items /\ order'[x].made = order[x].made
                          /\ order'[x].released = order[x].released
                          /\ order'[x].status = IF x = o THEN "CANCELLED" ELSE order[x].status
    BY <1>11, <2>1, OrderCancelled DEF CancelCommit
  <2>3. L' = L /\ P' = P /\ R' = R
    BY <2>1, <2>2, SameGoods
  <2>4. CASE req[r].restock
    <3>1. stock' = [v \in Variants |-> stock[v] + L[o][v]] /\ o \in R
      BY <1>11, <2>1, <2>4 DEF CancelCommit
    <3> HIDE DEF o
    <3>2. PICK x \in Orders : x = o
      BY <2>1
    <3>3. Goods!Return(x)
      BY <2>3, <3>1, <3>2 DEF Goods!Return
    <3> QED BY <3>3 DEF Goods!Next
  <2>5. CASE ~ req[r].restock
    <3>1. stock' = stock
      BY <1>11, <2>5 DEF CancelCommit
    <3> QED BY <2>3, <3>1 DEF Goods!goods
  <2> QED BY <2>4, <2>5
<1>12. ASSUME Catalogue PROVE Goods!Next \/ UNCHANGED Goods!goods
  <2>1. \/ order' = order /\ stock' = stock
        \/ \E v \in Variants, n \in 1..MaxEntries : AddStock(v, n)
    BY <1>12 DEF Catalogue, CreateProduct, AddVariant, UpdateProduct
  <2> QED BY <1>1, <1>3, <2>1
<1>13. ASSUME NEW r \in Requests, Begin(r) PROVE order' = order /\ stock' = stock
  BY <1>13 DEF Begin, SubmitManualPayment, UpdateOrderStatus, CancelOrder, rows
<1>14. ASSUME NEW r \in Requests, CancelSweep(r) \/ AbortRequest(r)
       PROVE  order' = order /\ stock' = stock
  BY <1>14 DEF CancelSweep, AbortRequest, rows
<1>15. CASE UNCHANGED vars
  BY <1>1, <1>15 DEF vars
<1>16. CASE Create
  BY <1>4, <1>16 DEF Create
<1>17. CASE Review
  BY <1>6, <1>7, <1>8, <1>17 DEF Review
<1>18. ASSUME NEW r \in Requests, Continue(r) PROVE Goods!Next \/ UNCHANGED Goods!goods
  BY <1>1, <1>9, <1>10, <1>11, <1>14, <1>18 DEF Continue
<1> QED BY <1>1, <1>12, <1>13, <1>15, <1>16, <1>17, <1>18 DEF Next

\* Through payment, review, fulfilment and cancellation, however they interleave,
\* the goods of an order leave together, at most once, and never below zero.
THEOREM GoodsRefinement == Spec => ImplementsGoodsFlow
<1>1. Inv /\ [Next]_vars => [Goods!Next]_(Goods!goods)
  BY GoodsStep
<1> QED BY <1>1, GoodsInit, InvInit, InvStep, PTL DEF Spec, ImplementsGoodsFlow, Goods!Spec

-----------------------------------------------------------------------------
(***************************************************************************)
(* The stock of the store balances: GoodsLedger is an invariant of         *)
(* StoreOrders, for any number of orders, variants and requests.  A step   *)
(* changes what at most one order has taken or given back, so the sums     *)
(* change by that order's share (SumUpdate).                               *)
(*                                                                         *)
(* The money of the store is in order when operations on orders run one at *)
(* a time: the properties of SerialSpec, which interleavings break, follow *)
(* from an invariant that also says that what the one request in flight    *)
(* has read is still so.                                                   *)
(***************************************************************************)

\* The units of v that o has taken from the stock, and that have come back.
Taken(o, v) == IF order[o].released THEN Need(o)[v] ELSE 0
Back(o, v) == restocked[o] * Need(o)[v]

\* Shares are natural numbers.
SharesNat ==
  \A o \in Orders, v \in Variants :
    /\ Need(o)[v] \in Nat /\ Taken(o, v) \in Nat
    /\ restocked[o] \in Nat /\ Back(o, v) \in Nat

LEMMA ShareNat == TypeOK => SharesNat
<1> SUFFICES ASSUME TypeOK, NEW o \in Orders, NEW v \in Variants
             PROVE  /\ Need(o)[v] \in Nat /\ Taken(o, v) \in Nat
                    /\ restocked[o] \in Nat /\ Back(o, v) \in Nat
  BY DEF SharesNat
<1>1. Need(o)[v] \in Nat
  BY NeedNat
<1>2. restocked[o] \in Nat
  BY DEF TypeOK
<1>3. ASSUME NEW k \in Nat, NEW n \in Nat PROVE k * n \in Nat
  OBVIOUS
<1>4. Back(o, v) \in Nat
  BY <1>1, <1>2, <1>3 DEF Back
<1> QED BY <1>1, <1>2, <1>4 DEF Taken

\* What has been sold changes by the share of the one order whose share changes.
LEMMA SoldChange ==
  ASSUME TypeOK, TypeOK', NEW v \in Variants, NEW o \in Orders,
         \A x \in Orders \ {o} : Taken(x, v)' = Taken(x, v)
  PROVE  /\ Sold(v) \in Int
         /\ Sold(v)' = Sold(v) + Taken(o, v)' - Taken(o, v)
<1> DEFINE f == [x \in Orders |-> Taken(x, v)]
           g == [x \in Orders |-> Taken(x, v)']
<1>1. SharesNat /\ SharesNat'
  BY ShareNat, PTL
<1>2. \A x \in Orders : Taken(x, v) \in Nat /\ Taken(x, v)' \in Nat
  BY <1>1 DEF SharesNat
<1>3. f \in [Orders -> Int] /\ g \in [Orders -> Int]
  BY <1>2
<1>4. \A x \in Orders \ {o} : f[x] = g[x]
  OBVIOUS
<1>5. f[o] = Taken(o, v) /\ g[o] = Taken(o, v)'
  OBVIOUS
<1>6. Sold(v) = SumFunctionOnSet(f, Orders) /\ Sold(v)' = SumFunctionOnSet(g, Orders)
  BY DEF Sold, Taken
<1>7. IsFiniteSet(Orders)
  BY StoreAssumption
<1> HIDE DEF f, g
<1>8. /\ SumFunctionOnSet(f, Orders) \in Int
      /\ SumFunctionOnSet(g, Orders) = SumFunctionOnSet(f, Orders) + g[o] - f[o]
  BY <1>3, <1>4, <1>7, SumUpdate
<1> QED BY <1>5, <1>6, <1>8

\* The same for what has come back.
LEMMA ReturnedChange ==
  ASSUME TypeOK, TypeOK', NEW v \in Variants, NEW o \in Orders,
         \A x \in Orders \ {o} : Back(x, v)' = Back(x, v)
  PROVE  /\ Returned(v) \in Int
         /\ Returned(v)' = Returned(v) + Back(o, v)' - Back(o, v)
<1> DEFINE f == [x \in Orders |-> Back(x, v)]
           g == [x \in Orders |-> Back(x, v)']
<1>1. SharesNat /\ SharesNat'
  BY ShareNat, PTL
<1>2. \A x \in Orders : Back(x, v) \in Nat /\ Back(x, v)' \in Nat
  BY <1>1 DEF SharesNat
<1>3. f \in [Orders -> Int] /\ g \in [Orders -> Int]
  BY <1>2
<1>4. \A x \in Orders \ {o} : f[x] = g[x]
  OBVIOUS
<1>5. f[o] = Back(o, v) /\ g[o] = Back(o, v)'
  OBVIOUS
<1>6. Returned(v) = SumFunctionOnSet(f, Orders) /\ Returned(v)' = SumFunctionOnSet(g, Orders)
  BY DEF Returned, Back
<1>7. IsFiniteSet(Orders)
  BY StoreAssumption
<1> HIDE DEF f, g
<1>8. /\ SumFunctionOnSet(f, Orders) \in Int
      /\ SumFunctionOnSet(g, Orders) = SumFunctionOnSet(f, Orders) + g[o] - f[o]
  BY <1>3, <1>4, <1>7, SumUpdate
<1> QED BY <1>5, <1>6, <1>8
-----------------------------------------------------------------------------
(* Every step keeps the ledger *)

Entry(v) == stock[v] = entries[v] - Sold(v) + Returned(v)

\* A step that touches one order keeps the ledger of v when the stock moves by what
\* was received, less what the order has taken, plus what has come back.
LEMMA OneOrder ==
  ASSUME TypeOK, TypeOK', NEW v \in Variants, Entry(v), NEW o \in Orders,
         \A x \in Orders \ {o} : Taken(x, v)' = Taken(x, v) /\ Back(x, v)' = Back(x, v),
         stock'[v] - entries'[v] = stock[v] - entries[v]
           - (Taken(o, v)' - Taken(o, v)) + (Back(o, v)' - Back(o, v))
  PROVE  Entry(v)'
<1> DEFINE t == Taken(o, v)'
           b == Back(o, v)'
           s == Sold(v)'
           r == Returned(v)'
<1>1. Sold(v) \in Int /\ s = Sold(v) + t - Taken(o, v)
  BY SoldChange
<1>2. Returned(v) \in Int /\ r = Returned(v) + b - Back(o, v)
  BY ReturnedChange
<1>3. SharesNat /\ SharesNat'
  BY ShareNat, PTL
<1>4. t \in Nat /\ b \in Nat /\ Taken(o, v) \in Nat /\ Back(o, v) \in Nat
  BY <1>3 DEF SharesNat
<1>5. stock[v] \in Nat /\ entries[v] \in Nat /\ stock'[v] \in Nat /\ entries'[v] \in Nat
  BY DEF TypeOK
<1> HIDE DEF t, b, s, r
<1>6. stock'[v] = entries'[v] - s + r
  BY <1>1, <1>2, <1>4, <1>5 DEF Entry, t, b
<1> QED BY <1>6 DEF Entry, s, r

\* What the ledger reads of an order.
Untouched(o) ==
  /\ order'[o].items = order[o].items /\ order'[o].made = order[o].made
  /\ order'[o].released = order[o].released
  /\ restocked'[o] = restocked[o]

LEMMA UntouchedShares ==
  ASSUME NEW o \in Orders, NEW v \in Variants, Untouched(o)
  PROVE  Taken(o, v)' = Taken(o, v) /\ Back(o, v)' = Back(o, v)
  BY DEF Untouched, Taken, Back, Need

\* A step that touches no order keeps the ledger when what it adds to the stock is
\* what was received.
LEMMA NoOrder ==
  ASSUME TypeOK, TypeOK', NEW v \in Variants, Entry(v),
         \A o \in Orders : Untouched(o),
         stock'[v] - entries'[v] = stock[v] - entries[v]
  PROVE  Entry(v)'
<1>1. CASE Orders = {}
  <2>1. Sold(v)' = Sold(v) /\ Returned(v)' = Returned(v)
    BY <1>1 DEF Sold, Returned
  <2>2. Sold(v) \in Int /\ Returned(v) \in Int
    <3> DEFINE f == [x \in Orders |-> IF order[x].released THEN Need(x)[v] ELSE 0]
               g == [x \in Orders |-> restocked[x] * Need(x)[v]]
    <3>1. f \in [Orders -> {0}] /\ g \in [Orders -> {0}] /\ IsFiniteSet(Orders)
      BY <1>1, StoreAssumption
    <3> HIDE DEF f, g
    <3>2. SumFunctionOnSet(f, Orders) = 0 /\ SumFunctionOnSet(g, Orders) = 0
      BY <3>1, SumZero
    <3> QED BY <3>2 DEF Sold, Returned, f, g
  <2>3. stock[v] \in Nat /\ entries[v] \in Nat /\ stock'[v] \in Nat /\ entries'[v] \in Nat
    BY DEF TypeOK
  <2> QED BY <2>1, <2>2, <2>3 DEF Entry
<1>2. ASSUME NEW o \in Orders PROVE Entry(v)'
  <2>1. \A x \in Orders : Taken(x, v)' = Taken(x, v) /\ Back(x, v)' = Back(x, v)
    BY UntouchedShares
  <2>2. SharesNat
    BY ShareNat
  <2>3. Taken(o, v) \in Nat /\ Back(o, v) \in Nat
    BY <2>2 DEF SharesNat
  <2>4. stock[v] \in Nat /\ entries[v] \in Nat
    BY DEF TypeOK
  <2>5. stock'[v] - entries'[v] = stock[v] - entries[v]
           - (Taken(o, v)' - Taken(o, v)) + (Back(o, v)' - Back(o, v))
    BY <2>1, <2>3, <2>4
  <2> QED BY <2>1, <2>5, OneOrder
<1> QED BY <1>1, <1>2

\* Releasing an order takes its share from the stock.
LEMMA OneReleased ==
  ASSUME TypeOK, TypeOK', NEW v \in Variants, Entry(v), NEW o \in Orders,
         ~ order[o].released, order'[o].released,
         order'[o].items = order[o].items, order'[o].made = order[o].made,
         \A x \in Orders \ {o} : order'[x] = order[x],
         stock'[v] = stock[v] - Need(o)[v], UNCHANGED <<entries, restocked>>
  PROVE  Entry(v)'
<1>1. SharesNat
  BY ShareNat
<1>2. stock[v] \in Nat /\ entries[v] \in Nat
  BY DEF TypeOK
<1>3. Need(o)' = Need(o)
  BY DEF Need
<1>4. Taken(o, v) = 0 /\ Taken(o, v)' = Need(o)[v] /\ Back(o, v)' = Back(o, v)
  BY <1>3 DEF Taken, Back
<1>5. \A x \in Orders \ {o} : Untouched(x)
  BY DEF Untouched
<1>6. \A x \in Orders \ {o} : Taken(x, v)' = Taken(x, v) /\ Back(x, v)' = Back(x, v)
  BY <1>5, UntouchedShares
<1>7. Need(o)[v] \in Nat /\ Back(o, v) \in Nat
  BY <1>1 DEF SharesNat
<1>8. stock'[v] - entries'[v] = stock[v] - entries[v]
        - (Taken(o, v)' - Taken(o, v)) + (Back(o, v)' - Back(o, v))
  BY <1>2, <1>4, <1>7
<1> QED BY <1>6, <1>8, OneOrder

\* Restocking an order brings its share back.
LEMMA OneReturned ==
  ASSUME TypeOK, TypeOK', NEW v \in Variants, Entry(v), NEW o \in Orders,
         \A x \in Orders : /\ order'[x].items = order[x].items
                           /\ order'[x].made = order[x].made
                           /\ order'[x].released = order[x].released,
         stock'[v] = stock[v] + Need(o)[v], entries' = entries,
         restocked'[o] = restocked[o] + 1,
         \A x \in Orders \ {o} : restocked'[x] = restocked[x]
  PROVE  Entry(v)'
<1>1. SharesNat
  BY ShareNat
<1>2. stock[v] \in Nat /\ entries[v] \in Nat
  BY DEF TypeOK
<1>3. Need(o)' = Need(o) /\ Taken(o, v)' = Taken(o, v)
  BY DEF Need, Taken
<1>4. Back(o, v)' = Back(o, v) + Need(o)[v]
  <2>1. ASSUME NEW k \in Nat, NEW n \in Nat PROVE (k + 1) * n = k * n + n
    OBVIOUS
  <2>2. restocked[o] \in Nat /\ Need(o)[v] \in Nat
    BY <1>1 DEF SharesNat
  <2>3. (restocked[o] + 1) * Need(o)[v] = restocked[o] * Need(o)[v] + Need(o)[v]
    BY <2>1, <2>2
  <2> QED BY <1>3, <2>3 DEF Back
<1>5. \A x \in Orders \ {o} : Untouched(x)
  BY DEF Untouched
<1>6. \A x \in Orders \ {o} : Taken(x, v)' = Taken(x, v) /\ Back(x, v)' = Back(x, v)
  BY <1>5, UntouchedShares
<1>7. Need(o)[v] \in Nat /\ Back(o, v) \in Nat /\ Taken(o, v) \in Nat
  BY <1>1 DEF SharesNat
<1>8. stock'[v] - entries'[v] = stock[v] - entries[v]
        - (Taken(o, v)' - Taken(o, v)) + (Back(o, v)' - Back(o, v))
  BY <1>2, <1>3, <1>4, <1>7
<1> QED BY <1>6, <1>8, OneOrder

\* The empty store balances.
LEMMA LedgerInit == Init => GoodsLedger
<1> SUFFICES ASSUME Init, NEW v \in Variants PROVE Entry(v)
  BY DEF GoodsLedger, Entry
<1> DEFINE f == [o \in Orders |-> IF order[o].released THEN Need(o)[v] ELSE 0]
           g == [o \in Orders |-> restocked[o] * Need(o)[v]]
<1>1. \A o \in Orders : ~ order[o].released /\ restocked[o] = 0 /\ Need(o)[v] = 0
  BY DEF Init, Need
<1>2. f \in [Orders -> {0}] /\ g \in [Orders -> {0}] /\ IsFiniteSet(Orders)
  BY <1>1, StoreAssumption
<1> HIDE DEF f, g
<1>3. SumFunctionOnSet(f, Orders) = 0 /\ SumFunctionOnSet(g, Orders) = 0
  BY <1>2, SumZero
<1>4. Sold(v) = 0 /\ Returned(v) = 0
  BY <1>3 DEF Sold, Returned, f, g
<1>5. stock[v] = 0 /\ entries[v] = 0
  BY DEF Init
<1> QED BY <1>4, <1>5 DEF Entry

\* Every step keeps the ledger.
LEMMA LedgerStep == Inv /\ GoodsLedger /\ [Next]_vars => GoodsLedger'
<1> SUFFICES ASSUME Inv, Inv', GoodsLedger, [Next]_vars, NEW v \in Variants PROVE Entry(v)'
  BY InvStep DEF GoodsLedger, Entry
<1>a. TypeOK /\ TypeOK' /\ Entry(v)
  BY DEF Inv, GoodsLedger, Entry
<1> order \in [Orders -> Order]
  BY <1>a DEF TypeOK
<1>b. SharesNat /\ SharesNat'
  BY <1>a, ShareNat, PTL
<1>c. stock[v] \in Nat /\ entries[v] \in Nat
  BY <1>a DEF TypeOK
<1>1. ASSUME \A o \in Orders : Untouched(o), stock' = stock, entries' = entries
      PROVE  Entry(v)'
  BY <1>1, <1>a, NoOrder
<1>2. ASSUME NEW o \in Orders, NEW s \in OrderStatus, SetOrderStatus(o, s),
             UNCHANGED <<stock, entries, restocked>>
      PROVE  Entry(v)'
  <2>1. \A x \in Orders : Untouched(x)
    BY <1>2, <1>a, OrderStatusSet DEF Untouched, TypeOK
  <2> QED BY <1>1, <1>2, <2>1
<1>3. ASSUME NEW w \in Variants, NEW n \in 1..MaxEntries, AddStock(w, n) PROVE Entry(v)'
  <2>1. \A o \in Orders : Untouched(o)
    BY <1>3 DEF AddStock, Untouched
  <2>2. n \in Nat /\ stock \in [Variants -> Nat] /\ entries \in [Variants -> Nat]
    BY <1>a, StoreAssumption DEF TypeOK
  <2>3. stock'[v] - entries'[v] = stock[v] - entries[v]
    BY <1>3, <2>2 DEF AddStock
  <2> QED BY <1>a, <2>1, <2>3, NoOrder
<1>4. ASSUME NEW o \in Orders, NEW p \in Payments, NEW items \in Ordered,
             NEW price \in [Products -> SalePrices], NEW u \in Staff \cup Students,
             NEW manual \in BOOLEAN, NEW a \in 1..OrderTotal(items, price),
             CreateOrder(o, p, items, price, a, u, manual)
      PROVE  Entry(v)'
  <2>1. /\ order[o].status = "ABSENT" /\ ~ order'[o].released
        /\ \A x \in Orders \ {o} : order'[x] = order[x]
        /\ UNCHANGED <<stock, entries, restocked>>
    BY <1>4, <1>a DEF CreateOrder, TypeOK
  <2>2. ~ order[o].released /\ restocked[o] = 0
    BY <2>1, <1>a DEF Inv, Unused, TypeOK
  <2>3. Taken(o, v) = 0 /\ Taken(o, v)' = 0
    BY <2>1, <2>2 DEF Taken
  <2>4. Back(o, v) = 0 /\ Back(o, v)' = 0
    <3>1. ASSUME NEW n \in Nat PROVE 0 * n = 0
      OBVIOUS
    <3>2. Need(o)[v] \in Nat /\ Need(o)'[v] \in Nat
      BY <1>b DEF SharesNat
    <3>3. 0 * Need(o)[v] = 0 /\ 0 * Need(o)'[v] = 0
      BY <3>1, <3>2
    <3> QED BY <2>1, <2>2, <3>3 DEF Back
  <2>5. \A x \in Orders \ {o} : Untouched(x)
    BY <2>1 DEF Untouched
  <2>6. \A x \in Orders \ {o} : Taken(x, v)' = Taken(x, v) /\ Back(x, v)' = Back(x, v)
    BY <2>5, UntouchedShares
  <2>7. stock'[v] - entries'[v] = stock[v] - entries[v]
          - (Taken(o, v)' - Taken(o, v)) + (Back(o, v)' - Back(o, v))
    BY <2>1, <2>3, <2>4, <1>c
  <2> QED BY <1>a, <2>6, <2>7, OneOrder
<1>5. ASSUME NEW p \in Payments, payment[p].status # "ABSENT"
      PROVE  payment[p].order \in Orders
  BY <1>5, <1>a DEF TypeOK
<1>6. ASSUME NEW p \in Payments, NEW u \in Approvers, ApprovePayment(p, u) PROVE Entry(v)'
  <2> DEFINE o == payment[p].order
  <2>1. o \in Orders /\ UNCHANGED <<entries, restocked>>
    BY <1>5, <1>6 DEF ApprovePayment, MayApprove
  <2>2. CASE SetOrderStatus(o, Collecting(PaymentsIn(o, {"UNDER_REVIEW"}) \ {p}))
             /\ UNCHANGED <<stock, catalogue>>
    BY <1>2, <2>1, <2>2, CollectingStatus
  <2>3. CASE Releases(p) /\ Release(o)
    <3>1. /\ order'[o].released /\ ~ order[o].released
          /\ \A x \in Orders \ {o} : order'[x] = order[x]
          /\ order'[o].items = order[o].items /\ order'[o].made = order[o].made
      BY <2>1, <2>3, OrderReleased DEF Releases
    <3>2. stock'[v] = stock[v] - Need(o)[v]
      BY <2>3 DEF Release
    <3> HIDE DEF o
    <3>3. PICK x \in Orders : x = o
      BY <2>1
    <3> QED BY <1>a, <2>1, <3>1, <3>2, <3>3, OneReleased
  <2> QED BY <1>6, <2>2, <2>3 DEF ApprovePayment, MayApprove
<1>7. ASSUME NEW p \in Payments, NEW u, RejectPayment(p, u) PROVE Entry(v)'
  BY <1>2, <1>5, <1>7, CollectingStatus DEF RejectPayment
<1>8. ASSUME NEW p \in Payments, RefundPayment(p) PROVE Entry(v)'
  BY <1>2, <1>5, <1>8, CollectingStatus DEF RefundPayment
<1>9. ASSUME NEW r \in Requests, NEW p \in Payments, SubmitCommit(r, p) PROVE Entry(v)'
  <2>1. req[r].order \in Orders
    BY <1>9, <1>a, RequestOrder DEF SubmitCommit
  <2>2. SetOrderStatus(req[r].order, "PAYMENT_REVIEW") /\ UNCHANGED <<stock, entries, restocked>>
    BY <1>9 DEF SubmitCommit
  <2> QED BY <1>2, <2>1, <2>2 DEF OrderStatus
<1>10. ASSUME NEW r \in Requests, UpdateStatusWrite(r) PROVE Entry(v)'
  <2>1. req[r].order \in Orders /\ req[r].to \in OrderStatus
    BY <1>10, <1>a, RequestOrder DEF UpdateStatusWrite, Inv, Referring, OrderStatus
  <2>2. SetOrderStatus(req[r].order, req[r].to) /\ UNCHANGED <<stock, entries, restocked>>
    BY <1>10 DEF UpdateStatusWrite
  <2> QED BY <1>2, <2>1, <2>2
<1>11. ASSUME NEW r \in Requests, CancelCommit(r) PROVE Entry(v)'
  <2> DEFINE o == req[r].order
  <2>1. o \in Orders
    BY <1>11, <1>a, RequestOrder DEF CancelCommit
  <2>2. \A x \in Orders : /\ order'[x].items = order[x].items /\ order'[x].made = order[x].made
                          /\ order'[x].released = order[x].released
    BY <1>11, <2>1, OrderCancelled DEF CancelCommit
  <2>3. CASE ~ req[r].restock
    <3>1. stock' = stock /\ entries' = entries /\ restocked' = restocked
      BY <1>11, <2>3 DEF CancelCommit
    <3>2. \A x \in Orders : Untouched(x)
      BY <2>2, <3>1 DEF Untouched
    <3> QED BY <1>1, <3>1, <3>2
  <2>4. CASE req[r].restock
    <3>1. /\ stock' = [w \in Variants |-> stock[w] + Need(o)[w]]
          /\ restocked' = [restocked EXCEPT ![o] = restocked[o] + 1]
          /\ entries' = entries
      BY <1>11, <2>4 DEF CancelCommit
    <3> HIDE DEF o
    <3> HIDE DEF o
    <3>2. PICK x \in Orders : x = o
      BY <2>1
    <3>3. restocked \in [Orders -> Nat]
      BY <1>a DEF TypeOK
    <3>4. /\ restocked'[x] = restocked[x] + 1
          /\ \A y \in Orders \ {x} : restocked'[y] = restocked[y]
          /\ stock'[v] = stock[v] + Need(x)[v] /\ entries' = entries
      BY <3>1, <3>2, <3>3
    <3> QED BY <1>a, <2>2, <3>4, OneReturned
  <2> QED BY <2>3, <2>4
<1>12. ASSUME UNCHANGED <<order, stock, entries, restocked>> PROVE Entry(v)'
  <2>1. \A o \in Orders : Untouched(o)
    BY <1>12 DEF Untouched
  <2> QED BY <1>1, <1>12, <2>1
<1>13. CASE Catalogue
  <2>1. \/ UNCHANGED <<order, stock, entries, restocked>>
        \/ \E w \in Variants, n \in 1..MaxEntries : AddStock(w, n)
    BY <1>13 DEF Catalogue, CreateProduct, AddVariant, UpdateProduct
  <2> QED BY <1>3, <1>12, <2>1
<1>14. ASSUME NEW r \in Requests, Begin(r) \/ CancelSweep(r) \/ AbortRequest(r) PROVE Entry(v)'
  BY <1>12, <1>14 DEF Begin, SubmitManualPayment, UpdateOrderStatus, CancelOrder, CancelSweep,
     AbortRequest, rows
<1>15. CASE Create
  BY <1>4, <1>15 DEF Create
<1>16. CASE Review
  BY <1>6, <1>7, <1>8, <1>16 DEF Review
<1>17. ASSUME NEW r \in Requests, Continue(r) PROVE Entry(v)'
  BY <1>9, <1>10, <1>11, <1>14, <1>17 DEF Continue
<1>18. CASE UNCHANGED vars
  BY <1>12, <1>18 DEF vars
<1> QED BY <1>13, <1>14, <1>15, <1>16, <1>17, <1>18 DEF Next

\* No interleaving of approvals, cancellations and stock entries loses or invents
\* a unit that is not accounted for.
THEOREM LedgerBalances == Spec => []GoodsLedger
<1>1. Inv /\ GoodsLedger /\ [Next]_vars => (Inv /\ GoodsLedger)'
  BY InvStep, LedgerStep
<1> QED BY <1>1, InvInit, LedgerInit, PTL DEF Spec
-----------------------------------------------------------------------------
(* The money of an order, when operations on orders run one at a time *)

\* What is confirmed or waits for a review.
Committed == {"CONFIRMED", "UNDER_REVIEW"}

\* The three promises of SerialSpec for one order.
MoneyOf(o) ==
  /\ AmountIn(o, Committed) <= order[o].total
  /\ order[o].status = "PAYMENT_REVIEW" <=> PaymentsIn(o, {"UNDER_REVIEW"}) # {}
  /\ order[o].status = "CANCELLED" => PaymentsIn(o, {"PENDING"}) = {}
  /\ order[o].status \in Operational => AmountIn(o, {"CONFIRMED"}) >= order[o].total

\* What a request on o has read is still so when it writes.
Current(r, o) ==
  req[r] # Idle /\ req[r].order = o =>
    /\ req[r].op = "submit" => req[r].amount \in 1..Balance(o) /\ order[o].status # "CANCELLED"
    /\ req[r].op = "status" =>
         /\ AmountIn(o, {"CONFIRMED"}) >= order[o].total
         /\ order[o].status \in Operational /\ req[r].to \in Operational
    /\ req[r].op = "sweep" => req[r].swept = PaymentsIn(o, Cancellable)

\* The inductive invariant of SerialSpec: at most one request is in flight, what it
\* has read is current, every payment is of some amount, and the promises hold.
Alone == \A r, q \in Requests : req[r] # Idle /\ req[q] # Idle => r = q
Positive == \A p \in Payments : payment[p].status # "ABSENT" => payment[p].amount >= 1
AllCurrent == \A r \in Requests, o \in Orders : Current(r, o)
MoneyInv == Alone /\ Positive /\ AllCurrent /\ \A o \in Orders : MoneyOf(o)

\* Amounts are sums of shares, and shares are natural numbers.
LEMMA AmountShares ==
  ASSUME NEW o, NEW S
  PROVE  AmountIn(o, S) = SumFunctionOnSet([p \in Payments |-> Share(p, o, S)], Payments)
  BY DEF AmountIn, Share

\* The sum of an order's payments is a natural number.
LEMMA AmountNat ==
  ASSUME TypeOK, NEW o, NEW S PROVE AmountIn(o, S) \in Nat
<1> DEFINE f == [p \in Payments |-> Share(p, o, S)]
<1>1. f \in [Payments -> Nat]
  BY DEF Share, TypeOK, Payment
<1>2. IsFiniteSet(Payments)
  BY StoreAssumption
<1> HIDE DEF f
<1>3. SumFunctionOnSet(f, Payments) \in Nat
  BY <1>1, <1>2, SumNat
<1> QED BY <1>3, AmountShares DEF f

\* An order to whose payments nothing is added has no more money than before.
LEMMA AmountAtMost ==
  ASSUME TypeOK, TypeOK', NEW o, NEW S,
         \A p \in Payments : Share(p, o, S)' <= Share(p, o, S)
  PROVE  /\ AmountIn(o, S) \in Nat /\ AmountIn(o, S)' \in Nat
         /\ AmountIn(o, S)' <= AmountIn(o, S)
<1> DEFINE f == [p \in Payments |-> Share(p, o, S)]
           g == [p \in Payments |-> Share(p, o, S)']
<1>1. f \in [Payments -> Nat] /\ g \in [Payments -> Nat]
  BY DEF Share, TypeOK, Payment
<1>2. \A p \in Payments : g[p] <= f[p]
  OBVIOUS
<1>3. IsFiniteSet(Payments)
  BY StoreAssumption
<1>4. AmountIn(o, S) = SumFunctionOnSet(f, Payments)
      /\ AmountIn(o, S)' = SumFunctionOnSet(g, Payments)
  BY DEF AmountIn, Share
<1> HIDE DEF f, g
<1>5. SumFunctionOnSet(g, Payments) <= SumFunctionOnSet(f, Payments)
  BY <1>1, <1>2, <1>3, SumMonotone
<1>6. SumFunctionOnSet(f, Payments) \in Nat /\ SumFunctionOnSet(g, Payments) \in Nat
  BY <1>1, <1>3, SumNat
<1> QED BY <1>4, <1>5, <1>6

\* An order without payments has no money.
LEMMA AmountOfNone ==
  ASSUME NEW o, NEW S, \A p \in Payments : Share(p, o, S) = 0
  PROVE  AmountIn(o, S) = 0
<1> DEFINE f == [p \in Payments |-> Share(p, o, S)]
<1>1. f \in [Payments -> {0}] /\ IsFiniteSet(Payments)
  BY StoreAssumption
<1> HIDE DEF f
<1>2. SumFunctionOnSet(f, Payments) = 0
  BY <1>1, SumZero
<1> QED BY <1>2, AmountShares DEF f

\* Two payments under review come on top of what is confirmed.
LEMMA ReviewsOnTop ==
  ASSUME TypeOK, NEW o, NEW p \in Payments, NEW q \in Payments, p # q,
         payment[p].order = o, payment[p].status = "UNDER_REVIEW",
         payment[q].order = o, payment[q].status = "UNDER_REVIEW"
  PROVE  AmountIn(o, {"CONFIRMED"}) + payment[p].amount + payment[q].amount
           <= AmountIn(o, Committed)
<1> DEFINE f == [x \in Payments |-> Share(x, o, {"CONFIRMED"})]
           g == [x \in Payments |-> Share(x, o, Committed)]
           m == payment[p].amount
           n == payment[q].amount
           f1 == [f EXCEPT ![p] = m]
           f2 == [f1 EXCEPT ![q] = n]
<1>1. f \in [Payments -> Nat] /\ g \in [Payments -> Nat] /\ m \in Nat /\ n \in Nat
  BY DEF Share, TypeOK, Payment
<1>2. f[p] = 0 /\ f[q] = 0 /\ g[p] = m /\ g[q] = n /\ \A x \in Payments : f[x] <= g[x]
  BY DEF Share, Committed, TypeOK, Payment
<1>3. IsFiniteSet(Payments)
  BY StoreAssumption
<1> HIDE DEF f, g, m, n
<1>4. /\ f1 \in [Payments -> Nat] /\ f1[p] = m /\ f1[q] = 0
      /\ \A x \in Payments \ {p} : f[x] = f1[x]
  BY <1>1, <1>2
<1> HIDE DEF f1
<1>5. /\ f2 \in [Payments -> Nat] /\ f2[q] = n
      /\ \A x \in Payments \ {q} : f1[x] = f2[x]
  BY <1>1, <1>4
<1> HIDE DEF f2
<1>6. \A x \in Payments : f2[x] <= g[x]
  BY <1>1, <1>2, <1>4, <1>5
<1>7. f \in [Payments -> Int] /\ f1 \in [Payments -> Int] /\ f2 \in [Payments -> Int]
  BY <1>1, <1>4, <1>5
<1>8. SumFunctionOnSet(f, Payments) \in Int
      /\ SumFunctionOnSet(f1, Payments) = SumFunctionOnSet(f, Payments) + f1[p] - f[p]
  BY <1>3, <1>4, <1>7, SumUpdate
<1>9. SumFunctionOnSet(f2, Payments) = SumFunctionOnSet(f1, Payments) + f2[q] - f1[q]
  BY <1>3, <1>5, <1>7, SumUpdate
<1>10. SumFunctionOnSet(f2, Payments) <= SumFunctionOnSet(g, Payments)
  BY <1>1, <1>3, <1>5, <1>6, SumMonotone
<1>11. SumFunctionOnSet(f, Payments) + m + n <= SumFunctionOnSet(g, Payments)
  BY <1>1, <1>2, <1>4, <1>5, <1>8, <1>9, <1>10
<1> QED BY <1>11, AmountShares DEF f, g, m, n

\* A step that leaves the payments of o as they are: it may change payments of other
\* orders, and rows that do not exist yet into payments of other orders.
PaymentsKept(o) ==
  \A p \in Payments :
    \/ payment'[p] = payment[p]
    \/ /\ payment'[p].order # o
       /\ payment[p].order # o \/ payment[p].status = "ABSENT"

\* Such a step, when it keeps the order's status and total, keeps its promises.
LEMMA MoneyKept ==
  ASSUME NEW o, PaymentsKept(o), MoneyOf(o),
         order'[o].status = order[o].status, order'[o].total = order[o].total
  PROVE  MoneyOf(o)'
<1>1. ASSUME NEW S, "ABSENT" \notin S
      PROVE  AmountIn(o, S)' = AmountIn(o, S) /\ PaymentsIn(o, S)' = PaymentsIn(o, S)
  <2>1. \A p \in Payments : Share(p, o, S)' = Share(p, o, S)
    BY <1>1 DEF PaymentsKept, Share
  <2>2. [p \in Payments |-> Share(p, o, S)'] = [p \in Payments |-> Share(p, o, S)]
    BY <2>1
  <2>3. /\ AmountIn(o, S) = SumFunctionOnSet([p \in Payments |-> Share(p, o, S)], Payments)
        /\ AmountIn(o, S)' = SumFunctionOnSet([p \in Payments |-> Share(p, o, S)'], Payments)
    BY DEF AmountIn, Share
  <2>4. PaymentsIn(o, S)' = PaymentsIn(o, S)
    BY <1>1 DEF PaymentsKept, PaymentsIn
  <2> QED BY <2>2, <2>3, <2>4
<1>2. "ABSENT" \notin Committed
  BY DEF Committed
<1>3. /\ AmountIn(o, Committed)' = AmountIn(o, Committed)
      /\ AmountIn(o, {"CONFIRMED"})' = AmountIn(o, {"CONFIRMED"})
      /\ PaymentsIn(o, {"UNDER_REVIEW"})' = PaymentsIn(o, {"UNDER_REVIEW"})
      /\ PaymentsIn(o, {"PENDING"})' = PaymentsIn(o, {"PENDING"})
  BY <1>1, <1>2
<1> QED BY <1>3 DEF MoneyOf

\* A review leaves its order collecting, with no more money committed than before.
LEMMA MoneyCollected ==
  ASSUME TypeOK, TypeOK', NEW o \in Orders, NEW p \in Payments,
         \A q \in Payments \ {p} : payment'[q] = payment[q],
         Share(p, o, Committed)' <= Share(p, o, Committed), MoneyOf(o),
         order'[o].total = order[o].total,
         order'[o].status = Collecting(PaymentsIn(o, {"UNDER_REVIEW"})')
  PROVE  MoneyOf(o)'
<1>1. \A q \in Payments : Share(q, o, Committed) \in Nat
  BY DEF Share, TypeOK, Payment
<1>2. \A q \in Payments : Share(q, o, Committed)' <= Share(q, o, Committed)
  BY <1>1 DEF Share
<1>3. /\ AmountIn(o, Committed) \in Nat /\ AmountIn(o, Committed)' \in Nat
      /\ AmountIn(o, Committed)' <= AmountIn(o, Committed)
  BY <1>2, AmountAtMost
<1>4. order[o].total \in Nat
  BY DEF TypeOK, Order
<1>5. AmountIn(o, Committed)' <= order'[o].total
  BY <1>3, <1>4 DEF MoneyOf
<1>6. /\ order'[o].status \in {"PAYMENT_REVIEW", "PENDING_PAYMENT"}
      /\ order'[o].status = "PAYMENT_REVIEW" <=> PaymentsIn(o, {"UNDER_REVIEW"})' # {}
  BY DEF Collecting
<1>7. order'[o].status # "CANCELLED" /\ order'[o].status \notin Operational
  BY <1>6 DEF Operational
<1> QED BY <1>5, <1>6, <1>7 DEF MoneyOf

\* No request is in flight.
Quiet == \A r \in Requests : req[r] = Idle

\* Then nothing read is out of date.
LEMMA NoneInFlight == Quiet => Alone /\ AllCurrent
  BY DEF Quiet, Alone, AllCurrent, Current, Idle

\* A new order has the money of its first payment.
LEMMA MoneyCreated ==
  ASSUME Inv, Inv', MoneyInv, Quiet,
         NEW o \in Orders, NEW p \in Payments, NEW items \in Ordered,
         NEW price \in [Products -> SalePrices], NEW a \in 1..OrderTotal(items, price),
         NEW u \in Staff \cup Students, NEW manual \in BOOLEAN,
         CreateOrder(o, p, items, price, a, u, manual)
  PROVE  MoneyInv'
<1> DEFINE total == OrderTotal(items, price)
<1>a. TypeOK /\ TypeOK'
  BY DEF Inv
<1> order \in [Orders -> Order] /\ payment \in [Payments -> Payment]
  BY <1>a DEF TypeOK
<1>1. /\ order[o].status = "ABSENT" /\ payment[p].status = "ABSENT" /\ req' = req
      /\ order'[o].status \in {"PAYMENT_REVIEW", "PENDING_PAYMENT"}
      /\ order'[o].status = "PAYMENT_REVIEW" <=> payment'[p].status = "UNDER_REVIEW"
      /\ order'[o].total = total
      /\ payment'[p].order = o /\ payment'[p].amount = a
      /\ payment'[p].status \in {"UNDER_REVIEW", "PENDING"}
      /\ \A x \in Orders \ {o} : order'[x] = order[x]
      /\ \A q \in Payments \ {p} : payment'[q] = payment[q]
  BY DEF CreateOrder
<1>2. \A q \in Payments : payment[q].status # "ABSENT" => payment[q].order # o
  BY <1>1 DEF Inv, Referring
<1>3. "ABSENT" \notin Committed
  BY DEF Committed
<1>4. \A q \in Payments : Share(q, o, Committed) = 0
  BY <1>2, <1>3 DEF Share
<1>5. AmountIn(o, Committed) = 0
  BY <1>4, AmountOfNone
<1>6. /\ AmountIn(o, Committed)' = AmountIn(o, Committed)
           + Share(p, o, Committed)' - Share(p, o, Committed)
      /\ Share(p, o, Committed)' \in Nat
  BY <1>a, <1>1, AmountChange
<1>7. total \in Nat /\ a \in Nat /\ a >= 1 /\ a <= total
  <2>1. items \in [Variants -> Nat]
    BY StoreAssumption DEF Ordered
  <2>2. total \in Nat
    BY <2>1, OrderTotalNat
  <2> QED BY <2>2
<1>8. Share(p, o, Committed)' <= a
  BY <1>1, <1>7 DEF Share
<1> HIDE DEF total
<1>9. AmountIn(o, Committed)' <= order'[o].total
  BY <1>1, <1>4, <1>5, <1>6, <1>7, <1>8
<1>10. PaymentsIn(o, {"UNDER_REVIEW"})' # {} <=> payment'[p].status = "UNDER_REVIEW"
  BY <1>1, <1>2 DEF PaymentsIn
<1>11. order'[o].status # "CANCELLED" /\ order'[o].status \notin Operational
  BY <1>1 DEF Operational
<1>12. MoneyOf(o)'
  BY <1>1, <1>9, <1>10, <1>11 DEF MoneyOf
<1>13. ASSUME NEW x \in Orders \ {o} PROVE MoneyOf(x)'
  <2>1. PaymentsKept(x)
    BY <1>1 DEF PaymentsKept
  <2> QED BY <1>1, <2>1, MoneyKept DEF MoneyInv
<1>14. Positive'
  BY <1>1, <1>7 DEF MoneyInv, Positive
<1>15. Quiet'
  BY <1>1 DEF Quiet, Idle
<1>16. Alone' /\ AllCurrent'
  BY <1>15, NoneInFlight, PTL
<1> QED BY <1>12, <1>13, <1>14, <1>16 DEF MoneyInv

\* What a step does that reviews payment p, and no more than p, of order o.
Reviewed(p, o, s) ==
  /\ payment'[p].status = s /\ payment'[p].order = o /\ payment'[p].amount = payment[p].amount
  /\ \A q \in Payments \ {p} : payment'[q] = payment[q]

\* A review that leaves the order collecting keeps the promises.
LEMMA MoneyReviewed ==
  ASSUME Inv, Inv', MoneyInv, Quiet, req' = req,
         NEW p \in Payments, NEW o \in Orders, payment[p].order = o,
         NEW s \in PaymentStatus, Reviewed(p, o, s),
         payment[p].status # "ABSENT",
         Share(p, o, Committed)' <= Share(p, o, Committed),
         SetOrderStatus(o, Collecting(PaymentsIn(o, {"UNDER_REVIEW"})'))
  PROVE  MoneyInv'
<1>a. TypeOK /\ TypeOK'
  BY DEF Inv
<1>1. /\ order'[o].status = Collecting(PaymentsIn(o, {"UNDER_REVIEW"})')
      /\ \A x \in Orders : order'[x].total = order[x].total
      /\ \A x \in Orders \ {o} : order'[x].status = order[x].status
  <2>1. Collecting(PaymentsIn(o, {"UNDER_REVIEW"})') \in OrderStatus
    BY CollectingStatus
  <2>2. order \in [Orders -> Order]
    BY <1>a DEF TypeOK
  <2> QED BY <2>1, <2>2, OrderStatusSet
<1>2. \A q \in Payments \ {p} : payment'[q] = payment[q]
  BY DEF Reviewed
<1>3. MoneyOf(o)'
  BY <1>a, <1>1, <1>2, MoneyCollected DEF MoneyInv
<1>4. ASSUME NEW x \in Orders \ {o} PROVE MoneyOf(x)'
  <2>1. PaymentsKept(x)
    BY DEF PaymentsKept, Reviewed
  <2> QED BY <1>1, <2>1, MoneyKept DEF MoneyInv
<1>5. Positive'
  <2>1. payment'[p].amount >= 1
    BY DEF MoneyInv, Positive, Reviewed
  <2> QED BY <1>2, <2>1 DEF MoneyInv, Positive
<1>6. Quiet'
  BY DEF Quiet, Idle
<1>7. Alone' /\ AllCurrent'
  BY <1>6, NoneInFlight, PTL
<1> QED BY <1>3, <1>4, <1>5, <1>7 DEF MoneyInv

\* A rejected payment is no longer committed.
LEMMA MoneyRejected ==
  ASSUME Inv, Inv', MoneyInv, Quiet,
         NEW p \in Payments, NEW u \in Approvers, NEW o \in Orders, payment[p].order = o,
         RejectPayment(p, u)
  PROVE  MoneyInv'
<1>a. TypeOK /\ payment \in [Payments -> Payment]
  BY DEF Inv, TypeOK
<1>1. /\ payment[p].status = "UNDER_REVIEW" /\ req' = req /\ u \in Staff
      /\ payment' = [payment EXCEPT ![p].status = "FAILED", ![p].reviewedBy = u]
      /\ SetOrderStatus(o, Collecting(PaymentsIn(o, {"UNDER_REVIEW"}) \ {p}))
  BY StoreAssumption DEF RejectPayment
<1>2. "FAILED" \in PaymentStatus
  BY DEF PaymentStatus
<1>3. Reviewed(p, o, "FAILED")
  <2>1. \A q \in Payments :
              /\ payment'[q].status = IF q = p THEN "FAILED" ELSE payment[q].status
              /\ payment'[q].order = payment[q].order
              /\ payment'[q].amount = payment[q].amount
    BY <1>a, <1>1, <1>2, PaymentReviewed
  <2>2. \A q \in Payments \ {p} : payment'[q] = payment[q]
    BY <1>a, <1>1
  <2> QED BY <2>1, <2>2 DEF Reviewed
<1>4. PaymentsIn(o, {"UNDER_REVIEW"})' = PaymentsIn(o, {"UNDER_REVIEW"}) \ {p}
  BY <1>3 DEF PaymentsIn, Reviewed
<1>5. Share(p, o, Committed)' <= Share(p, o, Committed)
  <2>1. Share(p, o, Committed)' = 0
    BY <1>3 DEF Share, Reviewed, Committed
  <2>2. Share(p, o, Committed) \in Nat
    BY <1>a DEF Share, Payment
  <2> QED BY <2>1, <2>2
<1> QED BY <1>1, <1>2, <1>3, <1>4, <1>5, MoneyReviewed

\* Nor is a refunded one.
LEMMA MoneyRefunded ==
  ASSUME Inv, Inv', MoneyInv, Quiet,
         NEW p \in Payments, NEW o \in Orders, payment[p].order = o, RefundPayment(p)
  PROVE  MoneyInv'
<1>a. TypeOK /\ payment \in [Payments -> Payment]
  BY DEF Inv, TypeOK
<1>1. /\ payment[p].status = "CONFIRMED" /\ req' = req
      /\ payment' = [payment EXCEPT ![p].status = "REFUNDED"]
      /\ SetOrderStatus(o, Collecting(PaymentsIn(o, {"UNDER_REVIEW"})))
  BY DEF RefundPayment
<1>2. "REFUNDED" \in PaymentStatus
  BY DEF PaymentStatus
<1>3. Reviewed(p, o, "REFUNDED")
  <2>1. \A q \in Payments :
              /\ payment'[q].status = IF q = p THEN "REFUNDED" ELSE payment[q].status
              /\ payment'[q].order = payment[q].order
              /\ payment'[q].amount = payment[q].amount
    BY <1>a, <1>1, <1>2, PaymentStatusSet
  <2>2. \A q \in Payments \ {p} : payment'[q] = payment[q]
    BY <1>a, <1>1
  <2> QED BY <2>1, <2>2 DEF Reviewed
<1>4. PaymentsIn(o, {"UNDER_REVIEW"})' = PaymentsIn(o, {"UNDER_REVIEW"})
  BY <1>1, <1>3 DEF PaymentsIn, Reviewed
<1>5. Share(p, o, Committed)' <= Share(p, o, Committed)
  <2>1. Share(p, o, Committed)' = 0
    BY <1>3 DEF Share, Reviewed, Committed
  <2>2. Share(p, o, Committed) \in Nat
    BY <1>a DEF Share, Payment
  <2> QED BY <2>1, <2>2
<1> QED BY <1>1, <1>2, <1>3, <1>4, <1>5, MoneyReviewed

\* The approval that completes the payment finds no other payment under review: with
\* one, more than the total would have been committed.
LEMMA MoneyApproved ==
  ASSUME Inv, Inv', MoneyInv, Quiet,
         NEW p \in Payments, NEW u \in Approvers, NEW o \in Orders, payment[p].order = o,
         ApprovePayment(p, u)
  PROVE  MoneyInv'
<1>a. TypeOK /\ TypeOK' /\ payment \in [Payments -> Payment] /\ order \in [Orders -> Order]
  BY DEF Inv, TypeOK
<1>1. /\ payment[p].status = "UNDER_REVIEW" /\ req' = req /\ u \in Staff
      /\ payment' = [payment EXCEPT ![p].status = "CONFIRMED", ![p].reviewedBy = u]
      /\ \/ Releases(p) /\ Release(o)
         \/ SetOrderStatus(o, Collecting(PaymentsIn(o, {"UNDER_REVIEW"}) \ {p}))
  BY StoreAssumption DEF ApprovePayment, MayApprove
<1>2. "CONFIRMED" \in PaymentStatus
  BY DEF PaymentStatus
<1>3. Reviewed(p, o, "CONFIRMED")
  <2>1. \A q \in Payments :
              /\ payment'[q].status = IF q = p THEN "CONFIRMED" ELSE payment[q].status
              /\ payment'[q].order = payment[q].order
              /\ payment'[q].amount = payment[q].amount
    BY <1>a, <1>1, <1>2, PaymentReviewed
  <2>2. \A q \in Payments \ {p} : payment'[q] = payment[q]
    BY <1>a, <1>1
  <2> QED BY <2>1, <2>2 DEF Reviewed
<1>4. PaymentsIn(o, {"UNDER_REVIEW"})' = PaymentsIn(o, {"UNDER_REVIEW"}) \ {p}
  BY <1>3 DEF PaymentsIn, Reviewed
<1>b. payment[p].amount \in Nat
  BY <1>a DEF Payment
<1>5. /\ Share(p, o, Committed)' = payment[p].amount
      /\ Share(p, o, Committed) = payment[p].amount
      /\ Share(p, o, {"CONFIRMED"})' = payment[p].amount
      /\ Share(p, o, {"CONFIRMED"}) = 0
  BY <1>1, <1>3 DEF Share, Reviewed, Committed
<1>6. CASE SetOrderStatus(o, Collecting(PaymentsIn(o, {"UNDER_REVIEW"}) \ {p}))
  <2>1. Share(p, o, Committed)' <= Share(p, o, Committed)
    BY <1>5, <1>b
  <2> QED BY <1>1, <1>2, <1>3, <1>4, <1>6, <2>1, MoneyReviewed
<1>7. CASE Releases(p) /\ Release(o)
  <2>1. /\ order'[o].status \in Operational
        /\ \A x \in Orders : order'[x].total = order[x].total
        /\ \A x \in Orders \ {o} : order'[x] = order[x]
    BY <1>a, <1>7, OrderReleased
  <2>2. /\ AmountIn(o, Committed) \in Nat /\ AmountIn(o, {"CONFIRMED"}) \in Nat
        /\ order[o].total \in Nat
    BY <1>a, AmountNat DEF Order
  <2>3. /\ AmountIn(o, Committed)' = AmountIn(o, Committed)
             + Share(p, o, Committed)' - Share(p, o, Committed)
        /\ AmountIn(o, {"CONFIRMED"})' = AmountIn(o, {"CONFIRMED"})
             + Share(p, o, {"CONFIRMED"})' - Share(p, o, {"CONFIRMED"})
    BY <1>a, <1>3, AmountChange DEF Reviewed
  <2>4. /\ AmountIn(o, {"CONFIRMED"}) + payment[p].amount >= order[o].total
        /\ AmountIn(o, Committed) <= order[o].total
    BY <1>7 DEF Releases, MoneyInv, MoneyOf
  <2>5. /\ AmountIn(o, Committed)' <= order'[o].total
        /\ AmountIn(o, {"CONFIRMED"})' >= order'[o].total
    BY <1>5, <1>b, <2>1, <2>2, <2>3, <2>4
  <2>6. PaymentsIn(o, {"UNDER_REVIEW"})' = {}
    <3>1. ASSUME NEW q \in Payments \ {p}, payment[q].order = o,
                 payment[q].status = "UNDER_REVIEW"
          PROVE  FALSE
      <4>1. AmountIn(o, {"CONFIRMED"}) + payment[p].amount + payment[q].amount
              <= AmountIn(o, Committed)
        BY <1>a, <1>1, <3>1, ReviewsOnTop
      <4>2. payment[q].amount \in Nat /\ payment[q].amount >= 1
        BY <1>a, <3>1 DEF Payment, MoneyInv, Positive
      <4> QED BY <1>b, <2>2, <2>4, <4>1, <4>2
    <3> QED BY <1>4, <3>1 DEF PaymentsIn
  <2>7. order'[o].status # "PAYMENT_REVIEW" /\ order'[o].status # "CANCELLED"
    BY <2>1 DEF Operational
  <2>8. MoneyOf(o)'
    BY <2>5, <2>6, <2>7 DEF MoneyOf
  <2>9. ASSUME NEW x \in Orders \ {o} PROVE MoneyOf(x)'
    <3>1. PaymentsKept(x)
      BY <1>3 DEF PaymentsKept, Reviewed
    <3> QED BY <2>1, <3>1, MoneyKept DEF MoneyInv
  <2>10. Positive'
    BY <1>1, <1>3 DEF MoneyInv, Positive, Reviewed
  <2>11. Quiet'
    BY <1>1 DEF Quiet, Idle
  <2>12. Alone' /\ AllCurrent'
    BY <2>11, NoneInFlight, PTL
  <2> QED BY <2>8, <2>9, <2>10, <2>12 DEF MoneyInv
<1> QED BY <1>1, <1>6, <1>7

\* A request that writes ends, and it was the only one.
LEMMA LastInFlight ==
  ASSUME TypeOK, Alone, NEW r \in Requests, req[r] # Idle, req' = [req EXCEPT ![r] = Idle]
  PROVE  Alone' /\ AllCurrent'
<1>1. Quiet'
  BY DEF Quiet, TypeOK, Alone, Idle
<1> QED BY <1>1, NoneInFlight, PTL

\* A submitted payment is within the balance that was read, for nothing moved since.
LEMMA MoneySubmitted ==
  ASSUME Inv, Inv', MoneyInv, NEW r \in Requests, NEW p \in Payments, SubmitCommit(r, p)
  PROVE  MoneyInv'
<1>a. /\ TypeOK /\ TypeOK' /\ payment \in [Payments -> Payment]
      /\ order \in [Orders -> Order] /\ req \in [Requests -> Request]
  BY DEF Inv, TypeOK
<1>1. req[r].op = "submit" /\ req[r] # Idle /\ req' = [req EXCEPT ![r] = Idle]
  BY DEF SubmitCommit, Idle
<1>2. PICK o \in Orders : o = req[r].order
  BY <1>a, <1>1, RequestOrder
<1>3. PICK a : a = req[r].amount
  OBVIOUS
<1>4. /\ a \in 1..Balance(o) /\ order[o].status # "CANCELLED"
  BY <1>1, <1>2, <1>3 DEF MoneyInv, AllCurrent, Current
<1>5. /\ payment[p].status = "ABSENT" /\ payment'[p].status = "UNDER_REVIEW"
      /\ payment'[p].order = o /\ payment'[p].amount = a
      /\ \A q \in Payments \ {p} : payment'[q] = payment[q]
  BY <1>a, <1>2, <1>3 DEF SubmitCommit
<1>6. /\ order'[o].status = "PAYMENT_REVIEW"
      /\ \A x \in Orders : order'[x].total = order[x].total
      /\ \A x \in Orders \ {o} : order'[x].status = order[x].status
  <2>1. SetOrderStatus(o, "PAYMENT_REVIEW")
    BY <1>2 DEF SubmitCommit
  <2> QED BY <1>a, <2>1, OrderStatusSet DEF OrderStatus
<1>7. AmountIn(o, Committed) \in Nat /\ order[o].total \in Nat
  BY <1>a, AmountNat DEF Order
<1>8. a \in Nat /\ a >= 1 /\ AmountIn(o, Committed) + a <= order[o].total
  BY <1>4, <1>7 DEF Balance, Committed
<1>9. Share(p, o, Committed) = 0 /\ Share(p, o, Committed)' = a
  BY <1>5 DEF Share, Committed
<1>10. AmountIn(o, Committed)' = AmountIn(o, Committed)
             + Share(p, o, Committed)' - Share(p, o, Committed)
  BY <1>a, <1>5, AmountChange
<1>11. AmountIn(o, Committed)' <= order'[o].total
  BY <1>6, <1>7, <1>8, <1>9, <1>10
<1>12. PaymentsIn(o, {"UNDER_REVIEW"})' # {}
  BY <1>5 DEF PaymentsIn
<1>13. MoneyOf(o)'
  BY <1>6, <1>11, <1>12 DEF MoneyOf, Operational
<1>14. ASSUME NEW x \in Orders \ {o} PROVE MoneyOf(x)'
  <2>1. PaymentsKept(x)
    BY <1>5 DEF PaymentsKept
  <2> QED BY <1>6, <2>1, MoneyKept DEF MoneyInv
<1>15. Positive'
  BY <1>5, <1>8 DEF MoneyInv, Positive
<1>16. Alone' /\ AllCurrent'
  BY <1>a, <1>1, LastInFlight DEF MoneyInv
<1> QED BY <1>13, <1>14, <1>15, <1>16 DEF MoneyInv

\* An order moves on in fulfilment.
LEMMA MoneyMovesOn ==
  ASSUME Inv, Inv', MoneyInv, NEW r \in Requests, UpdateStatusWrite(r)
  PROVE  MoneyInv'
<1>a. /\ TypeOK /\ TypeOK' /\ payment \in [Payments -> Payment]
      /\ order \in [Orders -> Order] /\ req \in [Requests -> Request]
  BY DEF Inv, TypeOK
<1>1. /\ req[r].op = "status" /\ req[r] # Idle /\ req' = [req EXCEPT ![r] = Idle]
      /\ payment' = payment
  BY DEF UpdateStatusWrite, Idle
<1>2. PICK o \in Orders : o = req[r].order
  BY <1>a, <1>1, RequestOrder
<1>3. /\ AmountIn(o, {"CONFIRMED"}) >= order[o].total
      /\ order[o].status \in Operational /\ req[r].to \in Operational
  BY <1>1, <1>2 DEF MoneyInv, AllCurrent, Current
<1>4. PICK s \in Operational : s = req[r].to
  BY <1>3
<1>5. /\ order'[o].status = s
      /\ \A x \in Orders : order'[x].total = order[x].total
      /\ \A x \in Orders \ {o} : order'[x].status = order[x].status
  <2>1. SetOrderStatus(o, s)
    BY <1>2, <1>4 DEF UpdateStatusWrite
  <2> QED BY <1>a, <2>1, OrderStatusSet DEF OrderStatus
<1>6. /\ AmountIn(o, {"CONFIRMED"})' = AmountIn(o, {"CONFIRMED"})
      /\ AmountIn(o, Committed)' = AmountIn(o, Committed)
      /\ PaymentsIn(o, {"UNDER_REVIEW"})' = PaymentsIn(o, {"UNDER_REVIEW"})
  BY <1>1 DEF AmountIn, PaymentsIn
<1>7. /\ order[o].status # "PAYMENT_REVIEW"
      /\ order'[o].status # "PAYMENT_REVIEW" /\ order'[o].status # "CANCELLED"
  BY <1>3, <1>5 DEF Operational
<1>8. MoneyOf(o)
  BY DEF MoneyInv
<1>9. MoneyOf(o)'
  BY <1>3, <1>5, <1>6, <1>7, <1>8 DEF MoneyOf
<1>10. ASSUME NEW x \in Orders \ {o} PROVE MoneyOf(x)'
  <2>1. PaymentsKept(x)
    BY <1>1 DEF PaymentsKept
  <2> QED BY <1>5, <2>1, MoneyKept DEF MoneyInv
<1>11. Positive'
  BY <1>1 DEF MoneyInv, Positive
<1>12. Alone' /\ AllCurrent'
  BY <1>a, <1>1, LastInFlight DEF MoneyInv
<1> QED BY <1>9, <1>10, <1>11, <1>12 DEF MoneyInv

\* A cancellation that ran alone has closed all the open payments of its order.
LEMMA MoneyCancelled ==
  ASSUME Inv, Inv', MoneyInv, NEW r \in Requests, CancelCommit(r)
  PROVE  MoneyInv'
<1>a. /\ TypeOK /\ TypeOK' /\ payment \in [Payments -> Payment]
      /\ order \in [Orders -> Order] /\ req \in [Requests -> Request]
  BY DEF Inv, TypeOK
<1>1. req[r].op = "sweep" /\ req[r] # Idle /\ req' = [req EXCEPT ![r] = Idle]
  BY DEF CancelCommit, Idle
<1>2. PICK o \in Orders : o = req[r].order
  BY <1>a, <1>1, RequestOrder
<1>3. PICK W : W = req[r].swept
  OBVIOUS
<1>4. W = PaymentsIn(o, Cancellable)
  BY <1>1, <1>2, <1>3 DEF MoneyInv, AllCurrent, Current
<1>5. W \in SUBSET Payments
  BY <1>4 DEF PaymentsIn
<1>6. \A q \in Payments :
        /\ payment'[q].status = IF q \in W THEN "CANCELLED" ELSE payment[q].status
        /\ payment'[q].order = payment[q].order
        /\ payment'[q].amount = payment[q].amount
        /\ q \notin W => payment'[q] = payment[q]
  <2>1. payment' = [p \in Payments |-> IF p \in W
          THEN [payment[p] EXCEPT !.status = "CANCELLED"] ELSE payment[p]]
    BY <1>3 DEF CancelCommit
  <2> QED BY <1>a, <1>5, <2>1, PaymentsSwept
<1>7. /\ order'[o].status = "CANCELLED"
      /\ \A x \in Orders : order'[x].total = order[x].total
      /\ \A x \in Orders \ {o} : order'[x].status = order[x].status
  <2>1. order' = [order EXCEPT ![o].status = "CANCELLED", ![o].cancelled = TRUE]
    BY <1>2 DEF CancelCommit
  <2> QED BY <1>a, <2>1, OrderCancelled
<1>8. \A q \in Payments : Share(q, o, Committed) \in Nat
  BY <1>a DEF Share, Payment
<1>9. \A q \in Payments : Share(q, o, Committed)' <= Share(q, o, Committed)
  BY <1>6, <1>8 DEF Share, Committed
<1>10. /\ AmountIn(o, Committed) \in Nat /\ AmountIn(o, Committed)' \in Nat
       /\ AmountIn(o, Committed)' <= AmountIn(o, Committed)
  BY <1>a, <1>9, AmountAtMost
<1>11. order[o].total \in Nat /\ AmountIn(o, Committed) <= order[o].total
  BY <1>a DEF Order, MoneyInv, MoneyOf
<1>12. AmountIn(o, Committed)' <= order'[o].total
  BY <1>7, <1>10, <1>11
<1>13. PaymentsIn(o, {"UNDER_REVIEW"})' = {} /\ PaymentsIn(o, {"PENDING"})' = {}
  BY <1>4, <1>6 DEF PaymentsIn, Cancellable
<1>14. MoneyOf(o)'
  BY <1>7, <1>12, <1>13 DEF MoneyOf, Operational
<1>15. ASSUME NEW x \in Orders \ {o} PROVE MoneyOf(x)'
  <2>1. PaymentsKept(x)
    BY <1>4, <1>6 DEF PaymentsKept, PaymentsIn
  <2> QED BY <1>7, <2>1, MoneyKept DEF MoneyInv
<1>16. Positive'
  <2>1. ASSUME NEW q \in Payments, payment'[q].status # "ABSENT" PROVE payment[q].status # "ABSENT"
    BY <1>4, <1>6, <2>1 DEF PaymentsIn, Cancellable
  <2> QED BY <1>6, <2>1 DEF MoneyInv, Positive
<1>17. Alone' /\ AllCurrent'
  BY <1>a, <1>1, LastInFlight DEF MoneyInv
<1> QED BY <1>14, <1>15, <1>16, <1>17 DEF MoneyInv

\* A step that changes neither orders nor payments keeps the promises, and what a
\* request has read that goes on as it is.
LEMMA MoneyUntouched ==
  ASSUME MoneyInv, UNCHANGED <<order, payment>>
  PROVE  /\ \A o \in Orders : MoneyOf(o)'
         /\ Positive'
         /\ \A r \in Requests, o \in Orders : req'[r] = req[r] => Current(r, o)'
<1>1. ASSUME NEW o \in Orders PROVE MoneyOf(o)'
  <2>1. PaymentsKept(o)
    BY DEF PaymentsKept
  <2> QED BY <2>1, MoneyKept DEF MoneyInv
<1>2. Positive'
  BY DEF MoneyInv, Positive
<1>3. ASSUME NEW r \in Requests, NEW o \in Orders, req'[r] = req[r] PROVE Current(r, o)'
  <2>1. ASSUME NEW S PROVE AmountIn(o, S)' = AmountIn(o, S) /\ PaymentsIn(o, S)' = PaymentsIn(o, S)
    BY DEF AmountIn, PaymentsIn
  <2>2. /\ Balance(o)' = Balance(o)
        /\ AmountIn(o, {"CONFIRMED"})' = AmountIn(o, {"CONFIRMED"})
        /\ PaymentsIn(o, Cancellable)' = PaymentsIn(o, Cancellable)
    BY <2>1 DEF Balance
  <2>3. Current(r, o)
    BY DEF MoneyInv, AllCurrent
  <2> QED BY <1>3, <2>2, <2>3 DEF Current
<1> QED BY <1>1, <1>2, <1>3

\* A step of the only request that changes nothing else.
LEMMA MoneyRead ==
  ASSUME TypeOK, MoneyInv, NEW r \in Requests, UNCHANGED <<order, payment>>,
         \A q \in Requests \ {r} : req[q] = Idle /\ req'[q] = req[q],
         \A o \in Orders : Current(r, o)'
  PROVE  MoneyInv'
<1>1. (\A o \in Orders : MoneyOf(o)') /\ Positive'
  BY MoneyUntouched
<1>2. Alone'
  BY DEF Alone
<1>3. AllCurrent'
  BY DEF AllCurrent, Current
<1> QED BY <1>1, <1>2, <1>3 DEF MoneyInv

\* A request that begins has just read the order.
LEMMA MoneyBegin ==
  ASSUME Inv, Inv', MoneyInv, Quiet, NEW r \in Requests, Begin(r)
  PROVE  MoneyInv'
<1>a. TypeOK /\ req \in [Requests -> Request]
  BY DEF Inv, TypeOK
<1>1. ASSUME NEW o \in Orders, NEW w, req' = [req EXCEPT ![r] = w], UNCHANGED rows, w.order = o,
             w.op = "submit" => w.amount \in 1..Balance(o) /\ order[o].status # "CANCELLED",
             w.op = "status" => /\ AmountIn(o, {"CONFIRMED"}) >= order[o].total
                                /\ order[o].status \in Operational /\ w.to \in Operational,
             w.op # "sweep"
      PROVE  MoneyInv'
  <2>1. UNCHANGED <<order, payment>>
    BY <1>1 DEF rows
  <2>2. req'[r] = w /\ \A q \in Requests \ {r} : req[q] = Idle /\ req'[q] = req[q]
    BY <1>a, <1>1 DEF Quiet
  <2>3. Balance(o)' = Balance(o) /\ AmountIn(o, {"CONFIRMED"})' = AmountIn(o, {"CONFIRMED"})
    BY <2>1 DEF Balance, AmountIn
  <2>4. ASSUME NEW x \in Orders PROVE Current(r, x)'
    <3>1. CASE x = o
      <4>1. Current(r, o)'
        BY <1>1, <2>1, <2>2, <2>3 DEF Current
      <4> QED BY <3>1, <4>1
    <3>2. CASE x # o
      BY <1>1, <2>2, <3>2 DEF Current
    <3> QED BY <3>1, <3>2
  <2> QED BY <1>a, <2>1, <2>2, <2>4, MoneyRead
<1>2. ASSUME NEW o \in Orders, NEW u \in Staff, NEW a \in 1..order[o].total,
             SubmitManualPayment(r, o, a, u)
      PROVE  MoneyInv'
  <2> DEFINE w == [op |-> "submit", order |-> o, amount |-> a, by |-> u]
  <2>1. req' = [req EXCEPT ![r] = w] /\ UNCHANGED rows
    BY <1>2 DEF SubmitManualPayment
  <2>2. AmountIn(o, Committed) \in Nat /\ order[o].total \in Nat
    BY <1>a, AmountNat DEF TypeOK, Order
  <2>3. Balance(o) \in Int
    BY <2>2 DEF Balance, Committed
  <2>4. a \in 1..Balance(o) /\ order[o].status # "CANCELLED"
    BY <1>2, <2>2, <2>3 DEF SubmitManualPayment
  <2>5. w.order = o /\ w.op = "submit" /\ w.amount = a
    OBVIOUS
  <2> HIDE DEF w
  <2> QED BY <1>1, <2>1, <2>4, <2>5
<1>3. ASSUME NEW o \in Orders, NEW s \in OrderStatus, UpdateOrderStatus(r, o, s)
      PROVE  MoneyInv'
  <2> DEFINE w == [op |-> "status", order |-> o, to |-> s]
  <2>1. req' = [req EXCEPT ![r] = w] /\ UNCHANGED rows
    BY <1>3 DEF UpdateOrderStatus
  <2>2. /\ AmountIn(o, {"CONFIRMED"}) >= order[o].total
        /\ <<order[o].status, s>> \in NextOperational
    BY <1>3 DEF UpdateOrderStatus
  <2>3. order[o].status \in Operational /\ s \in Operational
    BY <2>2 DEF NextOperational, Operational
  <2>4. w.order = o /\ w.op = "status" /\ w.to = s
    OBVIOUS
  <2> HIDE DEF w
  <2> QED BY <1>1, <2>1, <2>2, <2>3, <2>4
<1>4. ASSUME NEW o \in Orders, NEW restock \in BOOLEAN, CancelOrder(r, o, restock)
      PROVE  MoneyInv'
  <2> DEFINE w == [op |-> "cancel", order |-> o, restock |-> restock /\ order[o].released]
  <2>1. req' = [req EXCEPT ![r] = w] /\ UNCHANGED rows
    BY <1>4 DEF CancelOrder
  <2>2. w.order = o /\ w.op = "cancel"
    OBVIOUS
  <2> HIDE DEF w
  <2> QED BY <1>1, <2>1, <2>2
<1> QED BY <1>2, <1>3, <1>4 DEF Begin

\* A request that goes on.
LEMMA MoneyContinue ==
  ASSUME Inv, Inv', MoneyInv, NEW r \in Requests, Continue(r)
  PROVE  MoneyInv'
<1>a. TypeOK /\ req \in [Requests -> Request]
  BY DEF Inv, TypeOK
<1>1. CASE CancelSweep(r)
  <2>1. req[r].op = "cancel" /\ req[r] # Idle /\ UNCHANGED <<order, payment>>
    BY <1>1 DEF CancelSweep, Idle, rows
  <2>2. PICK o \in Orders : o = req[r].order
    BY <1>a, <2>1, RequestOrder
  <2>3. PICK w : w = [op |-> "sweep", order |-> o, restock |-> req[r].restock,
                      swept |-> PaymentsIn(o, Cancellable)]
    OBVIOUS
  <2>4. w.op = "sweep" /\ w.order = o /\ w.swept = PaymentsIn(o, Cancellable)
    BY <2>3
  <2>5. req' = [req EXCEPT ![r] = w]
    BY <1>1, <2>2, <2>3 DEF CancelSweep
  <2>6. req'[r] = w /\ \A q \in Requests \ {r} : req[q] = Idle /\ req'[q] = req[q]
    BY <1>a, <2>1, <2>5 DEF MoneyInv, Alone
  <2>7. PaymentsIn(o, Cancellable)' = PaymentsIn(o, Cancellable)
    BY <2>1 DEF PaymentsIn
  <2>8. ASSUME NEW x \in Orders PROVE Current(r, x)'
    <3>1. Current(r, o)'
      BY <2>4, <2>6, <2>7 DEF Current
    <3> QED BY <2>4, <2>6, <3>1 DEF Current
  <2> QED BY <1>a, <2>1, <2>6, <2>8, MoneyRead
<1>2. CASE AbortRequest(r)
  <2>1. UNCHANGED <<order, payment>> /\ req[r] # Idle /\ req' = [req EXCEPT ![r] = Idle]
    BY <1>2 DEF AbortRequest, rows
  <2>2. Alone' /\ AllCurrent'
    BY <1>a, <2>1, LastInFlight DEF MoneyInv
  <2>3. (\A o \in Orders : MoneyOf(o)') /\ Positive'
    BY <2>1, MoneyUntouched
  <2> QED BY <2>2, <2>3 DEF MoneyInv
<1> QED BY <1>1, <1>2, MoneySubmitted, MoneyMovesOn, MoneyCancelled DEF Continue

\* The empty store keeps the promises.
LEMMA MoneyInit == Init => MoneyInv
<1> SUFFICES ASSUME Init PROVE MoneyInv
  OBVIOUS
<1>1. ASSUME NEW o \in Orders PROVE MoneyOf(o)
  <2>1. /\ order[o].status = "ABSENT" /\ order[o].total = 0
        /\ \A p \in Payments : payment[p].status = "ABSENT"
    BY DEF Init
  <2>2. \A p \in Payments : Share(p, o, Committed) = 0
    BY <2>1 DEF Share, Committed
  <2>3. AmountIn(o, Committed) = 0
    BY <2>2, AmountOfNone
  <2>4. PaymentsIn(o, {"UNDER_REVIEW"}) = {} /\ PaymentsIn(o, {"PENDING"}) = {}
    BY <2>1 DEF PaymentsIn
  <2> QED BY <2>1, <2>3, <2>4 DEF MoneyOf, Operational
<1>2. Positive
  BY DEF Init, Positive
<1>3. Alone /\ AllCurrent
  BY NoneInFlight DEF Init, Quiet
<1> QED BY <1>1, <1>2, <1>3 DEF MoneyInv

\* A serial step is a step of the store.
LEMMA SerialIsNext == [SerialNext]_vars => [Next]_vars
  BY DEF SerialNext, Next

\* Every serial step keeps them.
LEMMA MoneyStep ==
  Inv /\ MoneyInv /\ [SerialNext]_vars => MoneyInv'
<1> SUFFICES ASSUME Inv, MoneyInv, [SerialNext]_vars PROVE MoneyInv'
  OBVIOUS
<1>a. Inv'
  BY SerialIsNext, InvStep
<1>b. TypeOK
  BY DEF Inv
<1>1. CASE UNCHANGED <<order, payment, req>>
  <2>1. (\A o \in Orders : MoneyOf(o)') /\ Positive' /\ \A r \in Requests, o \in Orders : Current(r, o)'
    BY <1>1, MoneyUntouched
  <2>2. Alone'
    BY <1>1 DEF MoneyInv, Alone
  <2>3. AllCurrent'
    BY <2>1 DEF AllCurrent
  <2> QED BY <2>1, <2>2, <2>3 DEF MoneyInv
<1>2. CASE Catalogue
  BY <1>1, <1>2 DEF Catalogue, CreateProduct, AddVariant, UpdateProduct, AddStock
<1>3. ASSUME Quiet, Create PROVE MoneyInv'
  BY <1>a, <1>3, MoneyCreated DEF Create
<1>4. ASSUME Quiet, Review PROVE MoneyInv'
  <2>1. ASSUME NEW p \in Payments, payment[p].status # "ABSENT"
        PROVE  payment[p].order \in Orders
    BY <1>b, <2>1 DEF TypeOK
  <2>2. ASSUME NEW p \in Payments, NEW u \in Approvers, ApprovePayment(p, u) PROVE MoneyInv'
    BY <1>a, <1>4, <2>1, <2>2, MoneyApproved DEF ApprovePayment, MayApprove
  <2>3. ASSUME NEW p \in Payments, NEW u \in Approvers, RejectPayment(p, u) PROVE MoneyInv'
    BY <1>a, <1>4, <2>1, <2>3, MoneyRejected DEF RejectPayment
  <2>4. ASSUME NEW p \in Payments, RefundPayment(p) PROVE MoneyInv'
    BY <1>a, <1>4, <2>1, <2>4, MoneyRefunded DEF RefundPayment
  <2> QED BY <1>4, <2>2, <2>3, <2>4 DEF Review
<1>5. ASSUME Quiet, NEW r \in Requests, Begin(r) PROVE MoneyInv'
  BY <1>a, <1>5, MoneyBegin
<1>6. ASSUME NEW r \in Requests, Continue(r) PROVE MoneyInv'
  BY <1>a, <1>6, MoneyContinue
<1>7. CASE UNCHANGED vars
  BY <1>1, <1>7 DEF vars
<1> QED BY <1>2, <1>3, <1>4, <1>5, <1>6, <1>7 DEF SerialNext, Quiet

\* If no operation on orders starts while another is in flight, an order never has
\* more money confirmed or waiting for a review than it costs, its status says
\* whether a review is due, and it is fulfilled only while it is paid.
THEOREM SerialInvariant == SerialSpec => [](Inv /\ MoneyInv)
<1>1. Inv /\ MoneyInv /\ [SerialNext]_vars => (Inv /\ MoneyInv)'
  BY SerialIsNext, InvStep, MoneyStep
<1> QED BY <1>1, InvInit, MoneyInit, PTL DEF SerialSpec

\* The balance check of submitManualPayment is enough.
THEOREM CommitmentsBounded == SerialSpec => []CommittedWithinTotal
<1>1. MoneyInv => CommittedWithinTotal
  BY DEF MoneyInv, MoneyOf, Committed, CommittedWithinTotal
<1> QED BY <1>1, SerialInvariant, PTL

\* rejectPayment, cancelOrder and submitManualPayment keep status and reviews together.
THEOREM StatusShowsReviews == SerialSpec => []ReviewStatusAgrees
<1>1. MoneyInv => ReviewStatusAgrees
  BY DEF MoneyInv, MoneyOf, ReviewStatusAgrees
<1> QED BY <1>1, SerialInvariant, PTL

\* updateOrderStatus and refundPayment keep unpaid orders out of fulfilment.
THEOREM FulfilledWhilePaid == SerialSpec => []PaidWhileFulfilled
<1>1. MoneyInv => PaidWhileFulfilled
  BY DEF MoneyInv, MoneyOf, PaidWhileFulfilled
<1> QED BY <1>1, SerialInvariant, PTL
=============================================================================
