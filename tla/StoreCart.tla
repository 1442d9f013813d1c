------------------------------ MODULE StoreCart ------------------------------
(***************************************************************************)
(* The cart of one student: SelfStoreService, createSelfOrder, and the     *)
(* pages of the student's store that call them.  StoreOrders has what      *)
(* becomes of the orders.                                                  *)
(*                                                                         *)
(* The handlers read and write in statements of their own; only the order  *)
(* itself is made in a Serializable transaction, after the lines have been *)
(* read.  The buttons stay enabled while a request is in flight, so that   *)
(* the requests of one student overlap.                                    *)
(***************************************************************************)
EXTENDS Integers, FiniteSets, Functions, Routes

CONSTANTS
  Variants,     \* ids of the rows of ProductVariant, one for each product
  Prices,       \* the prices a product may have
  Quantities,   \* the quantities a student asks for
  Calls,        \* requests that can be in flight at the same time
  MaxLine,      \* bound: units in one line
  MaxStock,     \* bound: units available of one variant
  MaxItems,     \* bound: ids of CartItem
  MaxOrders,    \* bound: orders
  MaxEdits      \* bound: changes of the catalogue or of the student

ASSUME CartAssumption ==
  /\ IsFiniteSet(Variants) /\ Prices \subseteq Nat
  /\ MaxLine \in Nat /\ Quantities \subseteq 1..MaxLine /\ MaxEdits \in Nat

VARIABLES
  student,      \* the status of the student
  shelf,        \* the products and their stock
  cart,         \* the lines: for the variants in it, id and quantity
  nextItem,     \* the sequence of CartItem.id
  call,         \* the requests in flight and what they have read
  placed,       \* how many orders there are
  page,         \* what the cart page shows
  edits         \* how often the catalogue or the student has changed

cartVars == <<student, shelf, cart, nextItem, call, placed, page, edits>>
shop == <<student, shelf, edits>>

-----------------------------------------------------------------------------
StudentStatus == {"ACTIVE", "PAUSED", "INACTIVE"}
Sellable == {"ACTIVE", "MADE_TO_ORDER"}
\* INACTIVE stands for OUT_OF_STOCK too: neither is on sale.
Shelf ==
  [status : Sellable \cup {"INACTIVE"}, made : BOOLEAN, quantity : 0..MaxStock, price : Prices]
Line == [id : 1..MaxItems, quantity : 1..MaxLine]
Carts == UNION {[V -> Line] : V \in SUBSET Variants}
\* since is history: the value of edits when the page was loaded.
View == [cart : Carts, shelf : [Variants -> Shelf], status : StudentStatus, since : 0..MaxEdits]

Empty == [v \in {} |-> 0]
NotLoaded == [cart |-> Empty]
Ready == [op |-> "ready"]

\* alone is history: no other request was in flight at any time.
CartTypeOK ==
  /\ student \in StudentStatus /\ shelf \in [Variants -> Shelf]
  /\ cart \in Carts /\ \A v, w \in DOMAIN cart : cart[v].id = cart[w].id => v = w
  /\ \A v \in DOMAIN cart : cart[v].id < nextItem
  /\ \A c \in Calls : call[c].op \in {"ready", "add", "put", "update", "checkout"}
  /\ page = NotLoaded \/ page \in View

-----------------------------------------------------------------------------
(* What the backend tells of the shelf and of the cart *)

\* getPurchasableVariant.
Purchasable(v, q) ==
  shelf[v].status \in Sellable /\ (shelf[v].made \/ q <= shelf[v].quantity)

\* Mutant of ItemAvailable: any stock will do.
ItemAvailableSome(item, row) == row.made \/ (row.status = "ACTIVE" /\ row.quantity > 0)

\* projectCart: whether a line can be ordered, as the cart shows it, ...
ItemAvailable(item, row) == row.made \/ (row.status = "ACTIVE" /\ item.quantity <= row.quantity)

\* Mutant of CartTotal: the units are not counted.
CartTotalOfLines(lines, rows) == SumFunction([v \in DOMAIN lines |-> rows[v].price])

\* ... and its total.
CartTotal(lines, rows) == SumFunction([v \in DOMAIN lines |-> rows[v].price * lines[v].quantity])

\* createOrder: the variants that are on sale and in stock, at the prices of now.
Orderable(lines) ==
  \A v \in DOMAIN lines : /\ shelf[v].status \in Sellable
                          /\ shelf[v].made \/ lines[v].quantity <= shelf[v].quantity
OrderPrice(lines) == SumFunction([v \in DOMAIN lines |-> shelf[v].price * lines[v].quantity])

-----------------------------------------------------------------------------
(* Requests *)

Alone(c) == \A d \in Calls \ {c} : call[d] = Ready

\* A request of the student starts: those it overlaps are not alone any more.
Start(c, opening) ==
  call' = [d \in Calls |->
    IF d = c THEN opening
    ELSE IF call[d] # Ready THEN [call[d] EXCEPT !.alone = FALSE] ELSE call[d]]
Continue(c, reading) == call' = [call EXCEPT ![c] = reading]
Finish(c) == call' = [call EXCEPT ![c] = Ready]

\* StudentContextGuard and assertCapability(OPERATE).
May(handler) == handler \in MeOpenTo(student)

\* addCartItem reads the variant, ...
AddCartItem(c, v, q) ==
  /\ call[c] = Ready /\ May("addCartItem") /\ Purchasable(v, q)
  /\ Start(c, [op |-> "add", variant |-> v, quantity |-> q, row |-> shelf[v], alone |-> Alone(c)])
  /\ UNCHANGED <<shop, cart, nextItem, placed, page>>

InCart(v) == IF v \in DOMAIN cart THEN cart[v].quantity ELSE 0

\* ... then the line there is, ...
AddCartItemRead(c) ==
  LET next == InCart(call[c].variant) + call[c].quantity IN
  /\ call[c].op = "add"
  /\ IF next > MaxLine \/ (~ call[c].row.made /\ next > call[c].row.quantity)
     THEN Finish(c)
     ELSE Continue(c, [op |-> "put", variant |-> call[c].variant, quantity |-> call[c].quantity,
                      next |-> next, alone |-> call[c].alone])
  /\ UNCHANGED <<shop, cart, nextItem, placed, page>>

\* ... and writes the sum if the line is there, or what was asked for if not.
AddCartItemWrite(c) ==
  LET v == call[c].variant IN
  /\ call[c].op = "put"
  /\ IF v \in DOMAIN cart THEN cart' = [cart EXCEPT ![v].quantity = call[c].next] /\ UNCHANGED nextItem
     ELSE /\ nextItem <= MaxItems /\ nextItem' = nextItem + 1
          /\ cart' = [w \in DOMAIN cart \cup {v} |->
                       IF w = v THEN [id |-> nextItem, quantity |-> call[c].quantity] ELSE cart[w]]
  /\ Finish(c)
  /\ UNCHANGED <<shop, placed, page>>

\* The variant of an item of the cart.
Owned(i) == {v \in DOMAIN cart : cart[v].id = i}

\* updateCartItem finds the line and checks the variant, ...
UpdateCartItem(c, i, q) ==
  /\ call[c] = Ready /\ May("updateCartItem")
  /\ \E v \in Owned(i) : Purchasable(v, q)
  /\ Start(c, [op |-> "update", item |-> i, quantity |-> q, alone |-> Alone(c)])
  /\ UNCHANGED <<shop, cart, nextItem, placed, page>>

\* ... and writes the quantity by id, or fails when the line is gone.
UpdateCartItemWrite(c) ==
  /\ call[c].op = "update"
  /\ cart' = [v \in DOMAIN cart |-> IF cart[v].id = call[c].item
                THEN [cart[v] EXCEPT !.quantity = call[c].quantity] ELSE cart[v]]
  /\ Finish(c)
  /\ UNCHANGED <<shop, nextItem, placed, page>>

\* removeCartItem: a line that is gone by the time of the delete fails it.
RemoveCartItem(i) ==
  /\ May("removeCartItem") /\ Owned(i) # {}
  /\ cart' = [v \in DOMAIN cart \ Owned(i) |-> cart[v]]
  /\ call' = [d \in Calls |-> IF call[d] # Ready THEN [call[d] EXCEPT !.alone = FALSE] ELSE call[d]]
  /\ UNCHANGED <<shop, nextItem, placed, page>>

\* createSelfOrder reads the lines, ...  (seen and since: those on the page, history)
Checkout(c, amount) ==
  /\ call[c] = Ready /\ May("createOrder") /\ DOMAIN cart # {}
  /\ Start(c, [op |-> "checkout", lines |-> cart, amount |-> amount,
              seen |-> cart = page.cart, since |-> page.since, alone |-> Alone(c)])
  /\ UNCHANGED <<shop, cart, nextItem, placed, page>>

\* Mutant of CheckoutCommit: the lines stay in the cart.
CheckoutKeepsCart(c) ==
  /\ call[c].op = "checkout" /\ placed < MaxOrders
  /\ Orderable(call[c].lines) /\ call[c].amount <= OrderPrice(call[c].lines)
  /\ placed' = placed + 1 /\ Finish(c)
  /\ UNCHANGED <<shop, cart, nextItem, page>>

\* ... and a transaction makes an order of them and deletes the lines there are now.
CheckoutCommit(c) ==
  /\ call[c].op = "checkout" /\ placed < MaxOrders
  /\ Orderable(call[c].lines) /\ call[c].amount <= OrderPrice(call[c].lines)
  /\ placed' = placed + 1 /\ cart' = Empty /\ Finish(c)
  /\ UNCHANGED <<shop, nextItem, page>>

\* A request ends here: refused by a check, failed, or its process stopped.
EndCall(c) ==
  /\ call[c] # Ready /\ Finish(c)
  /\ UNCHANGED <<shop, cart, nextItem, placed, page>>

-----------------------------------------------------------------------------
(* The pages *)

\* The cart page is opened, or refreshed after a change; a student who may not
\* read is shown nothing.
LoadCart ==
  /\ page' = IF May("getCart") THEN [cart |-> cart, shelf |-> shelf, status |-> student, since |-> edits]
             ELSE NotLoaded
  /\ UNCHANGED <<shop, cart, nextItem, call, placed>>

Shown == page # NotLoaded
Paused == page.status = "PAUSED"
AllAvailable == \A v \in DOMAIN page.cart : ItemAvailable(page.cart[v], page.shelf[v])

\* The product page, whose own view of the stock may be any.
AddFromPage(c) == \E v \in Variants, q \in Quantities : AddCartItem(c, v, q)

\* The buttons of the cart page.
UpdateFromPage(c) ==
  /\ Shown /\ ~ Paused
  /\ \E v \in DOMAIN page.cart, q \in Quantities : UpdateCartItem(c, page.cart[v].id, q)
RemoveFromPage ==
  /\ Shown /\ ~ Paused
  /\ \E v \in DOMAIN page.cart : RemoveCartItem(page.cart[v].id)
CheckoutFromPage(c) ==
  /\ Shown /\ ~ Paused
  /\ DOMAIN page.cart # {} /\ AllAvailable
  /\ Checkout(c, CartTotal(page.cart, page.shelf))

-----------------------------------------------------------------------------
(* The academy *)

\* A product is edited, restocked or sold, by the operations of StoreOrders.
ChangeShelf(v, row) ==
  /\ row # shelf[v]
  /\ edits < MaxEdits /\ edits' = edits + 1
  /\ shelf' = [shelf EXCEPT ![v] = row]
  /\ UNCHANGED <<student, cart, nextItem, call, placed, page>>

ChangeStudent(status) ==
  /\ edits < MaxEdits /\ edits' = edits + 1
  /\ student' = status
  /\ UNCHANGED <<shelf, cart, nextItem, call, placed, page>>

-----------------------------------------------------------------------------
CartInit ==
  /\ student = "ACTIVE"
  /\ shelf \in [Variants -> {row \in Shelf : row.status \in Sellable}]
  /\ cart = Empty /\ nextItem = 1
  /\ call = [c \in Calls |-> Ready]
  /\ placed = 0 /\ page = NotLoaded /\ edits = 0

Working(c) ==
  \/ AddCartItemRead(c) \/ AddCartItemWrite(c)
  \/ UpdateCartItemWrite(c)
  \/ CheckoutCommit(c)
  \/ EndCall(c)

CartNext ==
  \/ LoadCart
  \/ RemoveFromPage
  \/ \E c \in Calls : AddFromPage(c) \/ UpdateFromPage(c) \/ CheckoutFromPage(c) \/ Working(c)
  \/ \E v \in Variants, row \in Shelf : ChangeShelf(v, row)
  \/ \E status \in StudentStatus : ChangeStudent(status)

CartSpec == CartInit /\ [][CartNext]_cartVars

-----------------------------------------------------------------------------
(* Properties *)

Orders(c) == call[c].op = "checkout" /\ placed' = placed + 1 /\ call'[c] = Ready

\* Each line is ordered once: an order takes what is in the cart, and leaves
\* nothing of it there, unless another request of the student overlapped the
\* checkout.  (One that did may order the same lines again, or lose the line it
\* added: the lines are read before the transaction that deletes them.)
CheckoutTakesTheCart ==
  [][\A c \in Calls : Orders(c) /\ call[c].alone => call[c].lines = cart /\ cart' = Empty]_cartVars

\* Neither the cart, when its lines were read, nor a product since the page.
Unchanged(c) == call[c].seen /\ call[c].since = edits

\* What the student saw is what is ordered: the first payment is for the whole
\* order, unless the cart or a price has changed since the page was loaded.
PaysWhatItSaw ==
  [][\A c \in Calls : Orders(c) /\ Unchanged(c) => call[c].amount = OrderPrice(call[c].lines)]_cartVars

\* A cart whose lines all show as available is ordered, if nothing has changed
\* since; but for a product made to order that was taken off sale, which the cart
\* shows as available and the order refuses.
AvailableCartsCheckOut ==
  \A c \in Calls :
    call[c].op = "checkout" /\ Unchanged(c) =>
      \/ Orderable(call[c].lines) /\ call[c].amount <= OrderPrice(call[c].lines)
      \/ \E v \in DOMAIN call[c].lines : shelf[v].made /\ shelf[v].status \notin Sellable
=============================================================================
