---------------------------- MODULE StoreOrders ----------------------------
(***************************************************************************)
(* Orders, manual payments and stock of the academy store                  *)
(* (backend/src/store/store.service.ts).                                   *)
(*                                                                         *)
(* A transaction that runs at isolation level Serializable is one step:    *)
(* PostgreSQL makes the committed ones equivalent to a serial order, and a *)
(* conflict with any other writer of the same row aborts them without an   *)
(* effect.  An operation that runs at the default level (READ COMMITTED)   *)
(* or with no transaction is split where another request may commit in     *)
(* between: it reads, remembers what it read in req, and writes later.     *)
(***************************************************************************)
EXTENDS Integers, FiniteSets, Functions

CONSTANTS
  Orders,        \* autoincrement ids of the rows of Order
  Payments,      \* ids of the rows of CommercialPayment
  Products,      \* ids of the rows of Product
  Variants,      \* ids of the rows of ProductVariant
  ProductOf,     \* the product of each variant
  Staff,         \* users with role OWNER, ADMIN or RECEPTION
  Approvers,     \* users with role OWNER or ADMIN
  Students,      \* users with role ALUNO
  Requests,      \* HTTP requests that can be in flight at the same time
  None,          \* the SQL NULL of a reference
  SalePrices,    \* the prices updateProduct may set
  EditStatuses,  \* the statuses updateProduct is asked to set, None to keep it
  MaxQuantity,   \* bound: units of a variant in one order
  MaxEntries     \* bound: units ever received of one variant

VARIABLES
  order,        \* the rows of Order with their OrderItem rows
  payment,      \* the rows of CommercialPayment
  stock,        \* ProductVariant.availableQuantity
  entries,      \* sum of the StockEntry rows of a variant
  catalogue,    \* Product.status and Product.madeToOrder
  variants,     \* the rows of ProductVariant (active is never cleared)
  restocked,    \* history: how often cancelOrder returned an order's goods
  req           \* what each request in flight has read so far

rows == <<order, payment, stock, entries, catalogue, variants, restocked>>
vars == <<order, payment, stock, entries, catalogue, variants, restocked, req>>

-----------------------------------------------------------------------------
(* Types *)

Operational == {"CONFIRMED", "IN_PRODUCTION", "AWAITING_DELIVERY",
                "READY_FOR_PICKUP", "COMPLETED"}
OrderStatus == Operational \cup {"PENDING_PAYMENT", "PAYMENT_REVIEW", "CANCELLED"}
PaymentStatus == {"PENDING", "UNDER_REVIEW", "CONFIRMED", "FAILED", "CANCELLED",
                  "REFUNDED"}
ProductStatus == {"ACTIVE", "INACTIVE", "OUT_OF_STOCK", "MADE_TO_ORDER"}
Sellable == {"ACTIVE", "MADE_TO_ORDER"}

ASSUME StoreAssumption ==
  /\ IsFiniteSet(Orders) /\ IsFiniteSet(Payments) /\ IsFiniteSet(Variants)
  /\ ProductOf \in [Variants -> Products]
  /\ Approvers \subseteq Staff
  /\ None \notin Orders \cup Staff \cup Students
  /\ SalePrices \subseteq Nat /\ EditStatuses \subseteq ProductStatus \cup {None}
  /\ MaxQuantity \in Nat /\ MaxEntries \in Nat

\* items: units per variant; made: the ordered variants whose OrderItem row
\* has madeToOrder set; released: stockReleasedAt is set; cancelled: cancelledAt is.
Order == [status : OrderStatus \cup {"ABSENT"}, total : Nat,
          items : [Variants -> Nat], made : SUBSET Variants,
          released : BOOLEAN, cancelled : BOOLEAN]

Payment == [status : PaymentStatus \cup {"ABSENT"}, order : Orders \cup {None},
            amount : Nat, submittedBy : Staff \cup Students \cup {None},
            reviewedBy : Staff \cup {None}]

Idle == [op |-> "idle"]
SubmitRequest == [op : {"submit"}, order : Orders, amount : Nat, by : Staff]
StatusRequest == [op : {"status"}, order : Orders, to : OrderStatus]
CancelRequest == [op : {"cancel"}, order : Orders, restock : BOOLEAN]
SweepRequest == [op : {"sweep"}, order : Orders, restock : BOOLEAN,
                 swept : SUBSET Payments]
Request == {Idle} \cup SubmitRequest \cup StatusRequest \cup CancelRequest
             \cup SweepRequest

TypeOK ==
  /\ order \in [Orders -> Order]
  /\ payment \in [Payments -> Payment]
  /\ \A p \in Payments : payment[p].status # "ABSENT" => payment[p].order \in Orders
  /\ stock \in [Variants -> Nat]
  /\ entries \in [Variants -> Nat]
  /\ catalogue \in [Products -> [status : ProductStatus \cup {"ABSENT"}, made : BOOLEAN]]
  /\ variants \subseteq Variants
  /\ restocked \in [Orders -> Nat]
  /\ req \in [Requests -> Request]

-----------------------------------------------------------------------------
(* Helpers *)

\* Sum of the amounts of the order's payments whose status is in S.
AmountIn(o, S) ==
  SumFunctionOnSet([p \in Payments |->
    IF payment[p].order = o /\ payment[p].status \in S THEN payment[p].amount ELSE 0],
    Payments)

PaymentsIn(o, S) == {p \in Payments : payment[p].order = o /\ payment[p].status \in S}

\* Units that leave the stock when the order is released.
Need(o) == [v \in Variants |-> IF v \in order[o].made THEN 0 ELSE order[o].items[v]]

\* Mutant of Locked: cancelOrder decides on rows it does not lock.
NothingLocked == {}

\* Rows cancelOrder has updated and not committed: other writers wait for them.
Locked == UNION {req[r].swept : r \in {q \in Requests : req[q].op = "sweep"}}

SetOrderStatus(o, s) == order' = [order EXCEPT ![o].status = s]

Init ==
  /\ order = [o \in Orders |-> [status |-> "ABSENT", total |-> 0,
       items |-> [v \in Variants |-> 0], made |-> {}, released |-> FALSE,
       cancelled |-> FALSE]]
  /\ payment = [p \in Payments |-> [status |-> "ABSENT", order |-> None, amount |-> 0,
       submittedBy |-> None, reviewedBy |-> None]]
  /\ stock = [v \in Variants |-> 0]
  /\ entries = [v \in Variants |-> 0]
  /\ catalogue = [x \in Products |-> [status |-> "ABSENT", made |-> FALSE]]
  /\ variants = {}
  /\ restocked = [o \in Orders |-> 0]
  /\ req = [r \in Requests |-> Idle]

-----------------------------------------------------------------------------
(* Catalogue and stock *)

\* createProduct: the product with its first variants, none of them in stock.
CreateProduct(x, made, vs) ==
  /\ catalogue[x].status = "ABSENT"
  /\ vs # {} /\ \A v \in vs : ProductOf[v] = x
  /\ catalogue' = [catalogue EXCEPT ![x] =
       [status |-> IF made THEN "MADE_TO_ORDER" ELSE "OUT_OF_STOCK", made |-> made]]
  /\ variants' = variants \cup vs
  /\ UNCHANGED <<order, payment, stock, entries, restocked, req>>

AddVariant(v) ==
  /\ v \notin variants /\ catalogue[ProductOf[v]].status # "ABSENT"
  /\ variants' = variants \cup {v}
  /\ UNCHANGED <<order, payment, stock, entries, catalogue, restocked, req>>

\* updateProduct: every field is optional (s = None: no status is given); asking
\* for madeToOrder = true also decides the status.
UpdateProduct(x, s) ==
  /\ catalogue[x].status # "ABSENT"
  /\ \/ \E made \in {catalogue[x].made, FALSE} :
          catalogue' = [catalogue EXCEPT ![x] =
            [status |-> IF s = None THEN catalogue[x].status ELSE s, made |-> made]]
     \/ catalogue' = [catalogue EXCEPT ![x] = [status |-> "MADE_TO_ORDER", made |-> TRUE]]
  /\ UNCHANGED <<order, payment, stock, entries, variants, restocked, req>>

\* addStock: one transaction on the rows of the variant and of its product.
AddStock(v, n) ==
  /\ v \in variants /\ n >= 1 /\ entries[v] + n <= MaxEntries
  /\ stock' = [stock EXCEPT ![v] = @ + n]
  /\ entries' = [entries EXCEPT ![v] = @ + n]
  /\ catalogue' = IF catalogue[ProductOf[v]].made THEN catalogue
                  ELSE [catalogue EXCEPT ![ProductOf[v]].status = "ACTIVE"]
  /\ UNCHANGED <<order, payment, variants, restocked, req>>

-----------------------------------------------------------------------------
(* Orders and payments *)

\* Mutants of Collecting: a part payment confirms the order; the payments still
\* under review are forgotten.
CollectingDone(reviews) == IF reviews # {} THEN "PAYMENT_REVIEW" ELSE "CONFIRMED"
CollectingAnew(reviews) == "PENDING_PAYMENT"

\* The status an order has while payments are being collected.
Collecting(reviews) == IF reviews # {} THEN "PAYMENT_REVIEW" ELSE "PENDING_PAYMENT"

OrderTotal(items, price) ==
  SumFunctionOnSet([v \in Variants |-> items[v] * price[ProductOf[v]]], Variants)

\* createOrder, with the first payment p of amount a sent by u.  The availability
\* of each line is checked and nothing is reserved.  A cart has one line per
\* variant; at the reception several lines may name the same variant and each is
\* checked alone, so that one available unit is enough for lines of one unit.
CreateOrder(o, p, items, price, a, u, manual) ==
  LET ordered == {v \in Variants : items[v] > 0}
      made == {v \in ordered : catalogue[ProductOf[v]].made}
      total == OrderTotal(items, price)
      review == manual /\ u \in Staff
  IN
  /\ order[o].status = "ABSENT" /\ payment[p].status = "ABSENT"
  /\ ordered # {} /\ ordered \subseteq variants
  /\ u \in Students => ~ manual
  /\ \A v \in ordered : catalogue[ProductOf[v]].status \in Sellable
  /\ \A v \in ordered \ made :
       stock[v] >= IF u \in Students THEN items[v] ELSE 1
  /\ a >= 1 /\ a <= total
  /\ order' = [order EXCEPT ![o] =
       [status |-> IF review THEN "PAYMENT_REVIEW" ELSE "PENDING_PAYMENT",
        total |-> total, items |-> items, made |-> made,
        released |-> FALSE, cancelled |-> FALSE]]
  /\ payment' = [payment EXCEPT ![p] =
       [status |-> IF review THEN "UNDER_REVIEW" ELSE "PENDING", order |-> o,
        amount |-> a, submittedBy |-> u, reviewedBy |-> None]]
  /\ UNCHANGED <<stock, entries, catalogue, variants, restocked, req>>

\* Mutant of Balance: money under review does not count.
BalanceConfirmed(o) == order[o].total - AmountIn(o, {"CONFIRMED"})

\* What is left to pay when the payments under review are confirmed.
Balance(o) == order[o].total - AmountIn(o, {"CONFIRMED", "UNDER_REVIEW"})

\* submitManualPayment, first half: the order and its open payments are read.
SubmitManualPayment(r, o, a, u) ==
  /\ req[r] = Idle
  /\ order[o].status \notin {"ABSENT", "CANCELLED"}
  /\ a >= 1 /\ a <= Balance(o)
  /\ req' = [req EXCEPT ![r] = [op |-> "submit", order |-> o, amount |-> a, by |-> u]]
  /\ UNCHANGED rows

\* Second half: the payment is inserted and the order updated by id alone.
SubmitCommit(r, p) ==
  /\ req[r].op = "submit" /\ payment[p].status = "ABSENT"
  /\ payment' = [payment EXCEPT ![p] =
       [status |-> "UNDER_REVIEW", order |-> req[r].order, amount |-> req[r].amount,
        submittedBy |-> req[r].by, reviewedBy |-> None]]
  /\ SetOrderStatus(req[r].order, "PAYMENT_REVIEW")
  /\ req' = [req EXCEPT ![r] = Idle]
  /\ UNCHANGED <<stock, entries, catalogue, variants, restocked>>

\* The products none of whose variants has a unit left in s.
SoldOut(s) == {x \in Products : \A v \in variants : ProductOf[v] = x => s[v] = 0}

Available(need) == \A v \in Variants : need[v] <= stock[v]

\* Mutant of Touched: lines of one unit are overlooked.
TouchedByMany(need) == {ProductOf[v] : v \in {w \in Variants : need[w] > 1}}

\* The products whose stock a release changes.
Touched(need) == {ProductOf[v] : v \in {w \in Variants : need[w] > 0}}

\* The part of approvePayment that hands the goods over: every line that is not
\* made to order is taken from the stock, or the whole approval is rolled back.
Release(o) ==
  LET need == Need(o) IN
  /\ Available(need)
  /\ stock' = [v \in Variants |-> stock[v] - need[v]]
  /\ catalogue' = [x \in Products |-> IF x \in Touched(need) \cap SoldOut(stock')
       THEN [catalogue[x] EXCEPT !.status = "OUT_OF_STOCK"] ELSE catalogue[x]]
  /\ order' = [order EXCEPT ![o].released = TRUE, ![o].status =
       IF order[o].made # {} THEN "IN_PRODUCTION" ELSE "CONFIRMED"]

\* Mutants of Releases: released goods are released again; money that is only
\* under review counts.
ReleasesAgain(p) ==
  AmountIn(payment[p].order, {"CONFIRMED"}) + payment[p].amount >= order[payment[p].order].total
ReleasesEarly(p) ==
  LET o == payment[p].order IN
  AmountIn(o, {"CONFIRMED", "UNDER_REVIEW"}) >= order[o].total /\ ~ order[o].released

\* Whether approving p leaves its order paid with the goods still in stock.
Releases(p) ==
  LET o == payment[p].order IN
  /\ AmountIn(o, {"CONFIRMED"}) + payment[p].amount >= order[o].total
  /\ ~ order[o].released

MayApprove(p, u) ==
  payment[p].status = "UNDER_REVIEW" /\ p \notin Locked /\ payment[p].submittedBy # u

ApprovePayment(p, u) ==
  LET o == payment[p].order IN
  /\ MayApprove(p, u)
  /\ payment' = [payment EXCEPT ![p].status = "CONFIRMED", ![p].reviewedBy = u]
  /\ \/ Releases(p) /\ Release(o)
     \/ /\ ~ Releases(p)
        /\ SetOrderStatus(o, Collecting(PaymentsIn(o, {"UNDER_REVIEW"}) \ {p}))
        /\ UNCHANGED <<stock, catalogue>>
  /\ UNCHANGED <<entries, variants, restocked, req>>

RejectPayment(p, u) ==
  LET o == payment[p].order IN
  /\ payment[p].status = "UNDER_REVIEW" /\ p \notin Locked
  /\ payment' = [payment EXCEPT ![p].status = "FAILED", ![p].reviewedBy = u]
  /\ SetOrderStatus(o, Collecting(PaymentsIn(o, {"UNDER_REVIEW"}) \ {p}))
  /\ UNCHANGED <<stock, entries, catalogue, variants, restocked, req>>

\* Mutant of RefundPayment: the order goes on as if it were paid.
RefundAlone(p) ==
  /\ payment[p].status = "CONFIRMED"
  /\ payment' = [payment EXCEPT ![p].status = "REFUNDED"]
  /\ UNCHANGED <<order, stock, entries, catalogue, variants, restocked, req>>

\* refundPayment: whatever the order's status is, it is collecting again.  Only
\* manual payments are ever confirmed, so the test of the method always holds.
RefundPayment(p) ==
  LET o == payment[p].order IN
  /\ payment[p].status = "CONFIRMED"
  /\ payment' = [payment EXCEPT ![p].status = "REFUNDED"]
  /\ SetOrderStatus(o, Collecting(PaymentsIn(o, {"UNDER_REVIEW"})))
  /\ UNCHANGED <<stock, entries, catalogue, variants, restocked, req>>

-----------------------------------------------------------------------------
(* Fulfilment and cancellation *)

NextOperational ==
  {<<"CONFIRMED", "READY_FOR_PICKUP">>, <<"IN_PRODUCTION", "AWAITING_DELIVERY">>,
   <<"AWAITING_DELIVERY", "READY_FOR_PICKUP">>, <<"READY_FOR_PICKUP", "COMPLETED">>}

\* updateOrderStatus has no transaction: the checks use the row as it was read.
UpdateOrderStatus(r, o, s) ==
  /\ req[r] = Idle
  /\ order[o].released
  /\ AmountIn(o, {"CONFIRMED"}) >= order[o].total
  /\ <<order[o].status, s>> \in NextOperational
  /\ req' = [req EXCEPT ![r] = [op |-> "status", order |-> o, to |-> s]]
  /\ UNCHANGED rows

UpdateStatusWrite(r) ==
  /\ req[r].op = "status"
  /\ SetOrderStatus(req[r].order, req[r].to)
  /\ req' = [req EXCEPT ![r] = Idle]
  /\ UNCHANGED <<payment, stock, entries, catalogue, variants, restocked>>

\* cancelOrder reads the order, ...
CancelOrder(r, o, restock) ==
  /\ req[r] = Idle
  /\ order[o].status \notin {"ABSENT", "CANCELLED"}
  /\ req' = [req EXCEPT ![r] = [op |-> "cancel", order |-> o,
                                restock |-> restock /\ order[o].released]]
  /\ UNCHANGED rows

Cancellable == {"PENDING", "UNDER_REVIEW"}

\* ... updates the open payments it sees, which stay locked until it commits, ...
CancelSweep(r) ==
  LET open == PaymentsIn(req[r].order, Cancellable) IN
  /\ req[r].op = "cancel" /\ open \cap Locked = {}
  /\ req' = [req EXCEPT ![r] = [op |-> "sweep", order |-> req[r].order,
                                restock |-> req[r].restock, swept |-> open]]
  /\ UNCHANGED rows

\* ... and commits these updates with the order's.
CancelCommit(r) ==
  LET o == req[r].order IN
  /\ req[r].op = "sweep"
  /\ payment' = [p \in Payments |-> IF p \in req[r].swept
       THEN [payment[p] EXCEPT !.status = "CANCELLED"] ELSE payment[p]]
  /\ order' = [order EXCEPT ![o].status = "CANCELLED", ![o].cancelled = TRUE]
  /\ IF req[r].restock
     THEN /\ stock' = [v \in Variants |-> stock[v] + Need(o)[v]]
          /\ restocked' = [restocked EXCEPT ![o] = @ + 1]
     ELSE UNCHANGED <<stock, restocked>>
  /\ req' = [req EXCEPT ![r] = Idle]
  /\ UNCHANGED <<entries, catalogue, variants>>

\* A request fails before it commits: rolled back, or the process stopped.
AbortRequest(r) ==
  /\ req[r] # Idle
  /\ req' = [req EXCEPT ![r] = Idle]
  /\ UNCHANGED rows

-----------------------------------------------------------------------------
(* The store *)

Ordered == {items \in [Variants -> 0..MaxQuantity] : \E v \in Variants : items[v] > 0}

Catalogue ==
  \/ \E x \in Products, made \in BOOLEAN, vs \in SUBSET Variants : CreateProduct(x, made, vs)
  \/ \E v \in Variants : AddVariant(v)
  \/ \E x \in Products, s \in EditStatuses : UpdateProduct(x, s)
  \/ \E v \in Variants, n \in 1..MaxEntries : AddStock(v, n)

Create ==
  \E o \in Orders, p \in Payments, items \in Ordered, price \in [Products -> SalePrices],
     u \in Staff \cup Students, manual \in BOOLEAN :
    \E a \in 1..OrderTotal(items, price) : CreateOrder(o, p, items, price, a, u, manual)

Review ==
  \/ \E p \in Payments, u \in Approvers : ApprovePayment(p, u)
  \/ \E p \in Payments, u \in Approvers : RejectPayment(p, u)
  \/ \E p \in Payments : RefundPayment(p)

Begin(r) ==
  \/ \E o \in Orders, u \in Staff : \E a \in 1..order[o].total : SubmitManualPayment(r, o, a, u)
  \/ \E o \in Orders, s \in OrderStatus : UpdateOrderStatus(r, o, s)
  \/ \E o \in Orders, restock \in BOOLEAN : CancelOrder(r, o, restock)

Continue(r) ==
  \/ \E p \in Payments : SubmitCommit(r, p)
  \/ UpdateStatusWrite(r)
  \/ CancelSweep(r)
  \/ CancelCommit(r)
  \/ AbortRequest(r)

Next ==
  \/ Catalogue
  \/ Create
  \/ Review
  \/ \E r \in Requests : Begin(r) \/ Continue(r)

Spec == Init /\ [][Next]_vars

\* What is left if every operation on orders ran as one Serializable transaction:
\* none starts while another is in flight.
SerialNext ==
  \/ Catalogue
  \/ /\ \A r \in Requests : req[r] = Idle
     /\ Create \/ Review \/ \E r \in Requests : Begin(r)
  \/ \E r \in Requests : Continue(r)

SerialSpec == Init /\ [][SerialNext]_vars

-----------------------------------------------------------------------------
(* Properties of the store whatever the interleaving *)

Sold(v) == SumFunctionOnSet([o \in Orders |->
             IF order[o].released THEN Need(o)[v] ELSE 0], Orders)
Returned(v) == SumFunctionOnSet([o \in Orders |-> restocked[o] * Need(o)[v]], Orders)

\* The stock of a variant is exactly what was received (StockEntry rows) less
\* what released orders took, each once, plus what cancellations returned: no
\* interleaving of approvals, cancellations and stock entries loses a unit.
GoodsLedger == \A v \in Variants : stock[v] = entries[v] - Sold(v) + Returned(v)

\* An order in an operational status has had its goods taken from the stock
\* (updateOrderStatus and the stale row it may act on).
FulfilmentNeedsRelease ==
  \A o \in Orders : order[o].status \in Operational => order[o].released

\* Confirmed money was looked at by two people: the reviewer is an approver and
\* is not who submitted the payment (approvePayment).
FourEyes ==
  \A p \in Payments : payment[p].status \in {"CONFIRMED", "REFUNDED"} =>
    /\ payment[p].reviewedBy \in Approvers
    /\ payment[p].reviewedBy # payment[p].submittedBy

\* Goods leave the stock only for an order that is fully paid at that moment,
\* and an order once released stays released, so it is never released twice
\* (approvePayment, stockReleasedAt).
ReleaseOncePaid ==
  [][\A o \in Orders :
       /\ order[o].released => order'[o].released
       /\ ~ order[o].released /\ order'[o].released =>
            AmountIn(o, {"CONFIRMED"})' >= order[o].total]_vars

\* The payments a cancellation has closed and not committed are the order's, are
\* open underneath, and belong to no other cancellation: what it commits is what
\* it saw, although payments are reviewed meanwhile (cancelOrder's row locks).
SweepsHoldLocks ==
  \A r \in Requests : req[r].op = "sweep" =>
    /\ req[r].swept \subseteq PaymentsIn(req[r].order, {"PENDING", "UNDER_REVIEW"})
    /\ \A q \in Requests \ {r} :
         req[q].op = "sweep" => req[q].swept \cap req[r].swept = {}

\* A payment that is rejected, cancelled or refunded stays so, and confirmed
\* money changes only by a refund, even when a cancellation, an approval and a
\* refund of the same order overlap.
DecidedPaymentsStay ==
  [][\A p \in Payments :
       /\ payment[p].status \in {"FAILED", "CANCELLED", "REFUNDED"} =>
            payment'[p] = payment[p]
       /\ payment[p].status = "CONFIRMED" =>
            payment'[p].status \in {"CONFIRMED", "REFUNDED"}]_vars

\* The approval that sells the last unit of a product takes the product off sale
\* (approvePayment's count of the variants left).
SoldOutLeavesSale ==
  [][\A x \in Products :
       x \notin SoldOut(stock) /\ x \in SoldOut(stock)' =>
         catalogue'[x].status = "OUT_OF_STOCK"]_vars

Goods == INSTANCE GoodsFlow WITH
           lines <- [o \in Orders |-> Need(o)],
           placed <- {o \in Orders : order[o].status # "ABSENT"},
           released <- {o \in Orders : order[o].released}

\* Through all of payment, review, fulfilment and cancellation, goods move as
\* GoodsFlow says: all lines of an order at once, out at most once.
ImplementsGoodsFlow == Goods!Spec

-----------------------------------------------------------------------------
(* Properties of SerialSpec, which interleavings of Spec break *)

\* The payments confirmed or under review never exceed the order's total
\* (the balance check of submitManualPayment).
CommittedWithinTotal ==
  \A o \in Orders : AmountIn(o, {"CONFIRMED", "UNDER_REVIEW"}) <= order[o].total

\* An order waits for a review exactly when one of its payments is under review,
\* and once cancelled it has no payment left that could still be confirmed
\* (rejectPayment, cancelOrder, submitManualPayment).
ReviewStatusAgrees ==
  \A o \in Orders :
    /\ order[o].status = "PAYMENT_REVIEW" <=> PaymentsIn(o, {"UNDER_REVIEW"}) # {}
    /\ order[o].status = "CANCELLED" => PaymentsIn(o, {"PENDING"}) = {}

\* Goods are prepared and handed over only while the order is fully paid: a
\* refund takes the order out of fulfilment (updateOrderStatus, refundPayment).
PaidWhileFulfilled ==
  \A o \in Orders : order[o].status \in Operational =>
    AmountIn(o, {"CONFIRMED"}) >= order[o].total

-----------------------------------------------------------------------------
(* What the code's messages say and even its serial behaviours break *)

\* There are never more units in stock than were ever received.
NoPhantomStock == \A v \in Variants : stock[v] <= entries[v]
=============================================================================
