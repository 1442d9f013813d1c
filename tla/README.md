# WG-Grappling in TLA+

WG-Grappling runs a martial arts academy: a NestJS 11 and Prisma 7 service over PostgreSQL 17
(`src/backend`), a React application that calls it (`src/frontend`), and a few scripts. All state that
matters is in PostgreSQL and, for documents and product images, in files. The service keeps no state in
memory, so what is hard about it is what happens between the statements of two requests: some operations
are Serializable transactions, some are READ COMMITTED transactions, and many are a read, a decision and a
write with no transaction at all.

This directory holds TLA+ models of that service, TLC runs over small instances of them, and TLAPS proofs
of what matters most for instances of any size. `PROJECT.json` lists components, runs, the source lines of
every definition, hazards, findings and theorems.

## 1. The system

| Component (backend/src) | State | Operations that change it | Hard behaviour | What makes it correct | Model |
|---|---|---|---|---|---|
| Store: `store` | Product, ProductVariant, StockEntry, Order, OrderItem, CommercialPayment | create/update product, add variant, add stock, create order (reception, student), submit/approve/reject/refund payment, update status, cancel | Serializable approval and rejection against READ COMMITTED submission and cancellation, unprotected status update; goods leave at approval, not at order | no unit lost or sold twice, goods leave only when paid, money and status agree, four eyes | `StoreOrders`, `GoodsFlow` |
| Charges: `charge`, with `enrollment`, `student-plan` | Charge, Payment, StudentPlan, Student.status, Plan.active | create/update/cancel charge, register/refund payment, enrol, change plan, end plan, financial cycle | daily job with an advisory lock, also started by a script and a route; unprotected update and cancel; clamped due dates | billed once, cycle idempotent, overdue found, nobody unbilled, money shows in the status | `Billing` |
| Enrolment: `enrollment`, `student-modality`, `student-class`, `class`, `modality`, `attendance` | StudentModality, StudentClass, Class, Modality, Attendance | enrol, maintain, start/pause/resume/finish a period, join/leave a class, edit/remove a class, record/correct attendance | places counted before the write; periods finished while their student joins a class; part orders within maintain | capacity, class needs its modality, finished periods stay, attendance history survives | `Academic` |
| Graduations: `graduation` | Graduation (versions) | create, correct, cancel | two corrections of one version, correction against cancellation, duplicate check before insert | one version counts, chain of corrections unbroken, no two equal standing entries | `Graduations`, `GraduationBook` |
| Accounts, login, sessions: `auth`, `users`, `scripts/create-owner.ts` | User (sessionVersion), AuthRateLimitBucket, the tokens clients hold | login, consume/reset attempts, create/update/remove user, upgrade of a hash, the owner script | no operation has a transaction: a login signs, and an update writes, what it read before; one Serializable transaction counts attempts | a session that has ended stays ended; who has a session knows the password; attempts are limited and locks hold | `Accounts`, `LoginAttempts` |
| Web application: `frontend/src` | the stored token, the user of each tab, forms, what a panel shows | opening a tab, login, logout, calls of pages, answers, filters, searches, the form for a new student | tabs share one token; answers overtake each other; lists go stale; the client gives up on requests that are carried out | tabs settle, tokens are removed for a reason, pages call what they may, searches and choices mean what the form shows | `Routes`, `Pages`, `WebSession`, `ReportsPanel`, `EnrolmentForm` |
| Reports: `reports` | none | queries | filters and pages | the pages counted are those served | `ReportsPanel` |
| Self-service cart: `self-service/self-store`, checkout in `store` | Cart, CartItem | add, update, remove a line; checkout | read, add, write of a quantity; cart read outside the checkout's transaction; stale pages | a checkout takes the cart, and costs what the page showed | `StoreCart` |
| Documents and images: `documents`, `store.uploadProductImage`, `students.remove` | Document, Product.imageKey, files | upload, register, update, remove a document; upload an image; remove a student | two stores with compensation and no transaction over both | an upload has its file, an image too unless a document was given its key; no file is left over | `DocumentStore` |
| People, addresses, responsibles, plans | their rows | single-row edits | none | unique keys | creation in `EnrolmentForm` |
| Self-service reading, notices | NoticeRead | markRead (idempotent upsert) | none | visibility is a query | not planned |
| Dashboard, audit | AuditLog (appended) | record, after the response | failures swallowed | nothing reads it | not planned |
| Scripts, configuration, generated client | none shared | one `pg_dump`; reading the environment | none | | not planned |

How they interact: on the server there are no messages and no callbacks between components; they share tables.
Enrolment and maintenance write periods, memberships, subscriptions and charges in one transaction; the cycle reads
students, plans and subscriptions and writes charges; attendance reads classes, memberships and periods;
graduations read periods; checkout reads the cart and writes orders; every request is let in by the guard that
compares its token with the account. The web application calls the routes, and its requests may be lost, given up,
overtaken or repeated. The only processes that are not requests are the scheduler of the cycle
(`charge/financial-cycle.scheduler.ts`) and the scripts.

## 2. How transactions are modelled

The same rules hold in every module.

* A transaction at Serializable is one step. Committed Serializable transactions are equivalent to a serial
  order, and one that meets a concurrent writer of its rows is rolled back. Where such a transaction counts
  rows that an *unprotected* request inserts, PostgreSQL promises nothing: the step then stands for the
  transaction at its snapshot, before the insert. The one order this leaves out is an unprotected request that
  reads between the snapshot and the commit of a Serializable transaction and sees another write of that interval.
* A transaction at READ COMMITTED, and an operation with no transaction, is split into a read and a write where
  another request may commit in between. What it read is in `req[r]`, one record per request in flight; the
  write uses that record as the code uses its variables, even when the rows have changed. Reads that follow one
  another with no write between them are one read.
* `AbortRequest` ends a request in flight with no write: a check that fails, an error that rolls back, a lost
  connection, a process that is stopped. The rows are what PostgreSQL has committed, so a crash of the service
  is exactly this for every request in flight; there is no other volatile state.
* Unique and partial unique indexes are guards on the next value of the table, foreign keys guards on deletion.
* A row has an id from a constant set, and a value `Absent` (or `NoRow`) before it is inserted. Running out of ids is the
  bound on how many rows a run creates, and why a run may stop (`CHECK_DEADLOCK FALSE` in those runs).
* Roles, validation of bodies, personal data, notes and audit entries only refuse or decorate an operation
  and are left out, except where a property is about them (who reviews a payment, who manages an owner, and, in
  `Routes` and `Pages`, who is let through and who is shown what).
* A history variable, called so in its comment, records what a property needs and no action reads.
* What operations keep together *by their logic* is told apart from what is lost when they interleave: the
  serial runs check the first with one request at a time (`SerialSpec` in `StoreOrders`, where the catalogue
  goes on meanwhile; `OneAtATime` of `Billing`, an action constraint of the run and, in the theorem, the steps of `SerialSpec`; the variable `serial` of `AcademicMC`). The interleavings
  that break such a property are a run that expects the violation, or are listed as hazards.

## 3. The modules

### StoreOrders, GoodsFlow

`order`, `payment`, `stock`, `entries`, `catalogue` and `variants` are the rows; `restocked` is a history of
cancellations that returned goods. `ApprovePayment`, `RejectPayment`, `RefundPayment`, `AddStock` and `CreateOrder` are
one step each. `submitManualPayment` is `SubmitManualPayment` and `SubmitCommit`, `updateOrderStatus` is
`UpdateOrderStatus` and `UpdateStatusWrite`. `cancelOrder` is `CancelOrder` (read), `CancelSweep` (the updateMany that
locks the open payments, recorded in `swept` and seen by others only as locks) and `CancelCommit`.
`GoodsFlow` is what the store promises about goods, with no payment in sight: stock comes in, an order's
lines are fixed once, its goods leave all together and at most once, and may come back. The mapping reads
`lines`, `placed` and `released` off the orders.

### Billing

`charge` and `payment` are rows; `subscription` is the ACTIVE StudentPlan (at most one by its partial unique
index), `finished` the ended ones; `now` is the clock, `MonthLength` instants per month, and `SafeDay` the day 28 to
which billing days are clamped. A run of the cycle is `CycleStart` (takes the advisory lock, remembers the
instant), then `CycleCommit` (overdue update and missing monthly charges, in one transaction) or `CycleFail`;
a run that finds the lock taken does nothing. Enrolment is `Enrol` and `EnrolCommit`; update and cancellation of a
charge are read and write. INACTIVE stands for PAUSED too, both only stop billing; the patches of `update` are
those of status, month, amount and due date; deletion of a plan is not modelled.

### Academic

`period`, `membership`, `attendance`, `class` and `modality` are the rows; `edited` is a history of classes whose modality
or capacity was changed under their members, which the code allows with no check. `Maintain` is the academic half of
`maintain`, in the order of the code: resume and add, pause, end memberships, create memberships, each checked
against what the earlier parts left. Enrolment is `Enrol` (checks before the transaction), `EnrolTransaction` (the
current periods are read) and `EnrolCommit`. `StartPeriod`, `ChangePeriod`, `JoinClass` are the unprotected reads,
`StartWrite`, `ChangeWrite`, `JoinWrite` their writes by id. `create` of an attendance is `RecordAttendance` of one student.
A class is OPEN when it and its teacher's account are active. The plan and the charges of an enrolment are in
`Billing`; here a refusal because of them is `AbortRequest`. A modality is removed only when no class and no period
refers to it; a request that has read it before fails on the foreign key.

### Graduations, GraduationBook

`row` is the table of versions, `origin` a history of the graduation each version belongs to. `Create` and `CreateCommit`
are the duplicate check and the insert; `Correct` and `CorrectCommit` the validation and the transaction of `update`;
`Cancel` the guarded updateMany. `GraduationBook` is what a reader of the history is promised: one entry per
graduation, corrected while it stands, struck out at most once, no two standing entries alike. The mapping
reads each chain of versions as one entry.

### Accounts, LoginAttempts

`user` is the rows of User, `token` the access tokens signed so far, with the password each was obtained with as a
history. `Login`, `UpgradeHash` and `Sign` are the three statements of a login, `UpdateAccount` and `RemoveAccount` the
reads and decisions of `update` and `remove`, `UpdateWrite` and `RemoveAccountWrite` their writes; `CreateOwner` and
`MakeOwner` the script. `Critical` is the condition under which an update ends sessions. `Valid` is the check of the JWT strategy.
`LoginAttempts` has the buckets: `Consume` is the transaction for the address and the account, with the deletion of
stale buckets first, and `ResetAccount` the statement after a login that succeeds, which may not be reached. `admitted` is
a history of the last attempts of each key.

### Routes, Pages, WebSession

`Routes` is, for every controller, the pairs of a role and a handler that its guards let through; `Pages` is the pairs
of a role and a page it is shown, and which handlers that page calls for a role. `WebSession` puts tabs, requests and the stored token on top
of `Accounts`, of which it uses the changes as single steps: `OpenTab` is a load of the application with
`restoreSession`, `SubmitLogin`, `CallFromPage` and `Logout` are the user, `ServeMe`, `ServePage`, `AnswerPage` and `ServeLogin` the server,
`LoseRequest` the network and the client's timeout, and `ReceiveAnswer` the interceptors and what waits for the answer.

A page's request may be refused with a 403 at five places, which its message tells apart: by the roles of the guard
(`GuardLetsThrough`); by `StudentContextGuard`, to a student that is inactive or gone, and by `assertCapability`, to one that is
paused (`MeAnswer`); by a handler that refuses a teacher what is in the classes of others (`TeachersOwn`); and by one that
reads the account of its caller again (`Rereading`), after `ServePage` has let the request through and before `AnswerPage`
answers it, while the account may be changed or deleted. Classes and the status of students are not in this module: any teacher
may be refused by such a handler, and a student may be of any of the `Standings` (`Verdicts`).

### ReportsPanel, EnrolmentForm

`ReportsPanel` has the four panels as one, with `Fields` for their forms and `Where` for their queries: `EditFilter`,
`SubmitSearch`, `Clear` and `TurnPage` act on the form that the handler's closure sees, `ReceivePage` shows whichever answer
arrives. The `walk` of a search is a history: the filters of the answers whose pages were turned to come to it. `EnrolmentForm` has the lists read on opening (`LoadLists`), the edits, the choices with what they untick
(`ChoosePlan`, `ToggleModality`, `ToggleClass`), `Submit`, and the request on the server in two steps, `CheckEnrolment` and
`CommitEnrolment`, which go on when the client has given up (`GiveUpEnrolment`). `CheckEnrolment` refuses in the order of the
code: the person, what is no longer on offer, a class without its modality, a class without a place. The page lists full classes
like the others: offers are withdrawn by `ChangeOffer`, places come and go by `ChangeRoom`, and both may happen at any time.

### StoreCart

`cart` maps the variants in the cart to line id and quantity, `call` is what each request in flight has read, `page` what
the cart page shows. `AddCartItem`, `AddCartItemRead`, `AddCartItemWrite` are the three statements of `addCartItem`;
`UpdateCartItem` and its write; `Checkout` reads the lines and `CheckoutCommit` is the transaction of `createOrder`. `EndCall` is a
request that is refused, fails or stops. The pages only send what their buttons allow. `ItemAvailable` is what the cart shows,
`Orderable` what the order demands. Orders are counted only: `StoreOrders` has what becomes of them.

### DocumentStore

`documents`, `students` and `image` are rows, `files` the keys in the storage, `job` how far each request has got. Every call
of the storage or the database is a step, every database statement may fail (`InsertFails`, `MarkFails`, `SetImageFails`),
and `EndJob` is a failing file call or a process that stops between any two. `history` stands for all rows of other
tables that refer to a student; `quiet`, `torn` and `taken` are histories.

A document may be registered, or changed, to name any path (`storagePath` of the DTOs). The handlers of documents tell nobody
their keys (`safe` strips them), but the list of products tells `imageKey` to those who may register documents, and images are in the same
storage. `told` is the keys that images have ever had, and `Nameable` what a client can name: a path that no file has, or one of
those. A document under the key of an image, removed, takes the image's file with it (`DropFile`, `taken`).

### MC and proof modules

`StoreOrdersMC`, `BillingMC` and `GraduationsMC` give TLC its model values, symmetry sets and the few record
constants. `AcademicMC` has behaviours of two kinds, chosen at the start: requests overlap, or they come one at a time (`serial`).
`AccessMC`, `WebMC` and `ShopMC` each hold two or three components that read none of each other's state; a behaviour
runs one of them (`part`), and the others keep their initial state. `SumTheorems` has the facts about sums over finite
sets; `StoreOrdersProofs` and `BillingProofs`, which use it, and `GraduationsProofs` extend their module with its theorems.
`AcademicProofs`, `AccessProofs`, `WebProofs` and `ShopProofs` extend the MC module, because `TypeOK` and the serial
behaviours of the academy are stated there; what they prove of each component they prove of its own specification, and
`AccessParts`, `WebParts` and `ShopParts` say that the behaviours of the MC module are behaviours of each.
A definition called a mutant in a comment
is a plausible mistake next to the definition it replaces; nothing in a specification uses it.

## 4. The runs

| Run | Instance | What it shows |
|---|---|---|
| `store_race` | one order of price 2, three payments, two requests | under every interleaving: the stock ledger balances (`GoodsLedger`), fulfilment follows release, goods leave once and paid, decided payments stay decided |
| `store_serial` | two orders, two variants of one product at price 1 (so an order of both is paid in parts), two payments, edits and restocking, one request | by its logic the store never commits more than the total, the review status agrees with the payments, a cancelled order has no open payment, fulfilment is paid; it implements `GoodsFlow`; the last unit takes its product off sale |
| `store_overcommit` (violation) | one order, two requests | two submissions pass the same balance check |
| `store_phantom` (violation) | one request at a time | cancel with restock, refund, cancel with restock returns goods twice |
| `billing_serial` | one student, two charges, two payments of amount up to 2 | received money shows in the status and nobody overpays, in any order of payment, refund, overdue run, plan change, edit and cancellation |
| `billing_cycle` | one student, two months, three charges, a request and a cycle that may fail | nobody is billed twice; a second run bills nobody; overdue charges are marked; the eligible are billed before the month ends |
| `billing_lost` (violation) | one charge, one payment | a payment between check and write of a cancellation stays in a cancelled charge |
| `academic_race` | two students, one class of one place, two periods, two memberships, one attendance, two requests | overbooking is bounded by the requests in flight; attendance history keeps its class and membership; and, one request at a time, every route into and out of a class keeps its modality active and its capacity, and finished periods stay (`SerialRules`) |
| `graduations_race` | four rows, two students, two belts, two requests | the chain of versions is unbroken, the table implements `GraduationBook` |
| `access_race` | one account, two passwords, three session versions, one login, two updates; two accounts at one address, a clock of six instants | who has a session knows the password; ended sessions stay ended unless two updates overlap; only owners manage owners; lockouts hold and are earned, and two windows do not add up to free guesses |
| `web_tabs` | two tabs, two requests, two openings, every role; four reports with two searches; a form with two requests | nobody is refused with a 403 but for a reason: another tab's login, a session that ended under way, a teacher and the classes of others, a student's standing; tokens are removed only when dead; tabs settle; nothing found means nothing; searches ask for the form; what the form sends fits together, and was on offer when the page read it; no success is reported as a duplicate |
| `shop_race` | one product, two requests, one change; one student, one document, two requests, three keys, one failure | a checkout that nothing overlaps takes the cart, and costs what the page showed; a cart shown as available is ordered; uploaded documents have their files; the product's image has its file unless a document registered under its key was removed; no file is left over |

**Why these bounds.** The conflicts are between two requests, or a request and a one-step transaction, over one
row or one aggregate; a third request repeats what two can do. Two requests with one order (or one class,
one version) put all of them on the same row. Two orders and one unit make orders compete; price 2 allows
partial payments; three payments allow two reviews and a repayment. Two months let a charge of one month be
overdue in the next; a month of two instants with `SafeDay` 1 clamps the second billing day. One place
and two students let a class be overbooked; two periods of two students let one finish, and come back, while the
other trains. Four rows of graduation hold a chain of three versions beside another graduation, or two chains
of two. `MaxQuantity` and `MaxEntries` bound what one order and one variant may take. An account that may lose
its sessions twice (three versions) can lose them, be logged into, and lose them again while an earlier update is
in flight; six instants hold two windows of three, and a lock of two in each. Two tabs and two tokens let one tab show a
user that the other has replaced; the account is switched off and on, or becomes a teacher's, who may do
less than some roles and more than others, from every role. The rows of the reports differ in every field that
a form filters; a page of one row makes paging happen, and four rows of students let one turn three pages of one search and then come
back through those of another. A price of two values, a line of two units and a stock
of one let a total, a line or an availability go stale; one document and three keys are enough for two uploads or two removals
to overlap, and for an image to be replaced twice. Each run was
also checked to find its mutants, so the bounds are large enough for the mistakes the properties are about.

**Symmetry** is over ids of rows and of requests, and over students, modalities and belts
where no constant tells them apart. `billing_cycle` and `web_tabs`, which check liveness, use none.

**Fairness** is assumed twice. In `FairSpec` of `Billing`: weak fairness of `CycleStart`, because the cron
job fires every day whatever happened the day before (`financial-cycle.scheduler.ts` catches and logs the
error), and strong fairness of `CycleCommit`, because a run that may fail does not fail every time. No fairness of any request is
assumed: a client may never send the next one. The clock is not fair either, so `EligibleIsBilled` is
only promised up to the end of the month, as in the code. In `WebFairness` of `WebSession`: for each tab, a request in
flight is answered or given up, because the client has a timeout (`api/config.ts`), and an answer that has arrived is
handled. The server is not assumed to answer.

### Findings

* `store_overcommit`: `submitManualPayment` sums payments it does not lock.
* `store_phantom`: `refundPayment` reopens a cancelled order that still has `stockReleasedAt` set.
* `billing_lost`: `remove` of a charge checks for payments and writes in separate statements.

The models show more that contradicts no message of the repository: a plan change in a month that was already
charged leaves the student unbilled for that month, because the cancelled charge keeps its place in the unique index; a
cycle that generates a charge whose due date is past leaves it PENDING until the next run; a status update that read
an order before a refund leaves it in fulfilment unpaid; a stale resume revives a finished period; two updates
of one account at once may bring back sessions that the first has ended; two checkouts at once order the same lines
twice, and a line added between the read and the transaction of a checkout is deleted unordered; of two additions to one line
one is lost; the cart shows a made-to-order product that was taken off sale as available, and the order refuses it; a document registered under the key
of a product's image takes the image's file with it when it is removed; the form for a new student lists classes that are full, and the enrolment
refuses them; two uploads of an image at once leave a file that nothing names, and so does an upload for a student who is being removed; a removal that stops
between file and row leaves a document without its file.

## 5. The proofs

All proofs are checked by TLAPS from the assumptions of the modules, and no bound of a TLC run is assumed. The assumptions
say that sets of ids are finite where rows are summed or counted, that `None` is not an id, and that prices, quantities,
capacities and limits are natural, or positive where the code demands it. Beyond that: changes of an account are partial
records of role, state and password, and the roles are those of the enum `UserRole` (`AccountsAssumption`,
`SessionAssumption`); the rows of a report are finite in number (`ReportsAssumption`); plans, modalities and classes
are rows of three tables, so no id is of two kinds (`FormAssumption`).

Every invariant and every action property that a passing run checks is the statement of a theorem, and so are both refinements.

| Module | Theorems | Argument |
|---|---|---|
| `SumTheorems` | `SumUpdate`, `SumNat`, `SumZero`, `SumMonotone` and the lemmas they rest on | the sum of the community modules is the value of a recursion on finite sets; that the recursion has one solution follows from a set with no smaller counterexample (`MinimalSubset`), and the effect of one index, the sign and the monotony from it |
| `StoreOrdersProofs` | `TypeCorrect`, `CancellationIsolated`, `FulfilmentAfterRelease`, `FourEyesHolds`, `DecisionsAreFinal`, `ReleasedOnceAndPaid`, `SoldOutTakenOff`, `GoodsRefinement` | the inductive invariant is `Inv`: types, locks of sweeps, unused ids, references, and fulfilment after release. Typing with `Available` keeps the stock natural; the locks of a sweep are invariant because a review needs `p \notin Locked` and two sweeps lock disjoint rows; release is never undone, so a status request in flight belongs to a released order, which is what its stale write needs; only a release leaves a variant with fewer units (`StockGrows`), so a product that sells out was touched by it; the refinement maps each action to `Receive`, `Place`, `Release`, `Return` or a stutter |
| `StoreOrdersProofs`, stock | `LedgerBalances` | from `Inv` above: every step changes what at most one order has taken or brought back, and the stock moves by as much (`OneReleased`, `OneReturned`, `NoOrder`); `SumUpdate` turns the one share into the change of the sums |
| `StoreOrdersProofs`, money | `SerialInvariant`, `CommitmentsBounded`, `StatusShowsReviews`, `FulfilledWhilePaid`, all of `SerialSpec` | `MoneyInv`: at most one request is in flight (`Alone`), what it has read is still so (`AllCurrent`), every payment is of some amount (`Positive`), and the three promises for every order (`MoneyOf`), which need each other. An approval that completes an order finds no other payment under review, because two reviews come on top of what is confirmed (`ReviewsOnTop`) and would exceed the total; that is why the status may leave PAYMENT_REVIEW |
| `BillingProofs` | `TypeCorrect`, `BilledOnce`, `RunsAreIdempotent` | inductive invariant: types, *Referring* (a payment or a request in flight names a charge that exists, so a stale write changes a row and creates none), and distinct keys. Every writer either inserts rows whose keys are missing, writes a status, or is held by the unique index. After a commit the keys of every eligible student are taken, so a run at the same instant over the same plans inserts nothing |
| `BillingProofs`, money | `MoneyShows`, of `SerialSpec` | no payment is made of a charge between the read and the write of an update or a removal (`NoPaymentSince`), every payment is of some amount, and the status of every charge shows what was received (`Shown`); a payment, a refund and an edit each change one sum |
| `GraduationsProofs` | `TypeCorrect`, `OneVersion`, `ChainHolds`, `GraduationsImplementBook` | inductive invariant `Chains`: types, *Origins* (an origin is the origin of itself), and one version that counts. A correction supersedes an ACTIVE row of its chain, which is the only one not superseded; hence the new row is again the only one, and the mapped book takes a `Correct` step |
| `AcademicProofs` | `AcademicInvariant`, `AcademicTypes`, `AttendancesStayBacked`, `OverbookingStaysBounded` | the periods a request has read keep their rows (`KnownRows`), a membership's class has a row (`MembershipBacked`), an attendance its class and membership. A place that is taken is a member or a request in flight that was let in while there was room: `OverbookingBounded` is inductive with the types, by counting the two sets before and after each step |
| `AcademicProofs`, serial | `SerialInvariant`, `SerialRulesHold` | `Serially`: one request in flight, what it has read is fresh, every membership has its modality, and no class is over its capacity. The cases that matter are `Maintain`, whose four parts run in the order of the code, and the writes by id |
| `AccessProofs`, accounts | `AccountsInvariant`, `AccountsTypes`, `AccountsKeepThePassword`, `AccountsEndForGood`, `AccountsGuardOwners` | no session, open or about to be signed, is of a later version than its account (`NoneAhead`), and an update in flight was permitted on what it has read, and leaves the sessions open only if it changes nothing they depend on (`UpdatesDecided`) |
| `AccessProofs`, attempts | `AttemptsInvariant`, `AttemptsTypes`, `AttemptsHoldLockouts`, `AttemptsEarnLocks`, `AttemptsLimitGuesses`; `AccessParts`, `AccessTypes` | a bucket accounts for the history of its key: it counts the last attempts, all in one window (`Counts`); as many unlocked ones right before began a window earlier (`Spread`); and where stale buckets were deleted, the attempts are long past (`Past`), so that nothing is forgotten by deleting them. The limits, window and lockout are any positive numbers |
| `WebProofs`, session | `SessionInvariant`, `SessionTypes`, `SessionPagesPass`, `SessionForgetsTheDead` | each page is compared with the routes it calls (`ShownCallsPass`), so a guard refuses only where the roles of tab and token differ; what is refused behind the guard has a reason by its verdict (`VerdictReasons`), and an account that reads differently the second time has ended the session (`PageAnswered`); tokens only die (`NoneAhead`), so a 401 that arrives late is still right. Every answer in flight is one that the backend may have given (`Answered`) |
| `WebProofs`, reports | `ReportsInvariant`, `ReportsTypes`, `ReportsMissNothing`, `ReportsAskForTheForm` | a page that is asked for is the first, or was counted by an answer on the way to it (`Counted`); such a page of the same filters holds a row (`PagesCounted`, arithmetic of `TotalPages`) |
| `WebProofs`, form | `FormInvariant`, `FormTypes`, `FormRefusesOnce`, `FormFitsTogether`; `WebParts`, `WebTypes` | all that is chosen was on the lists read (`AllListed`), of every class that is chosen the modality is chosen, in the form and in the requests (`DraftCoherent`, `PostsCoherent`), and one answer is waited for at a time, with no notice shown meanwhile (`OneKept`) |
| `ShopProofs`, cart | `CartInvariant`, `CartTypes`, `AvailableCarts`, `OrdersTakeTheCart`, `FirstPaymentsAgree`; `ShopParts`, `ShopTypes` | a checkout that nothing overlaps still has the lines of the cart (`Undivided`), a page as old as the catalogue shows it (`PageCurrent`), and what a checkout pays is the total of such a page (`CheckoutsAgree`) |
| `ShopProofs`, files | `StoreInvariant`, `DocumentTypes`, `FilesExist`, `NothingStray` | who holds a key: `Owners` says that a key is held by one request, one document or the image, which is what keeps a compensation from deleting the file of another. With no overlap, what the one request has read is still so (`QuietStore`), and every file is the image's, a document's or its own. The keys that images have had (`told`) may be named by documents too: they are the exception in `Owners`, and only the removal of such a document costs the image its file (`taken`) |

The proofs corrected the model twice. `NothingFoundMeansNothing` compared the filters of a page with those of the one page
it was turned from; the induction failed, and four rows showed why: after three pages of one search and a page of another, the
button back leads to a page that the second search does not have. The three rows of the run had hidden it. The
property now speaks of all the pages turned, and the run has four rows. And `EnrolmentForm` had left it open whether a
modality may also be a class, which no database allows.

Only model-checked: liveness (`EligibleIsBilled`, `OverdueIsMarked`,
`TabsSettle`), because the prover has no support for fairness through ENABLED. What a recursive sum computes for every
input is not proved; `SumTheorems` proves how it changes. `FourEyes`, `SweepsHoldLocks` and `OneVersionCounts` are
proved and need no run.

## 6. Plan

In order, with what each adds:

1. `Academic` with `Maintain` split at its commit, against unprotected joins; composition of `Academic` and
   `Billing` for the one transaction of enrolment.
2. `StoreCart` composed with `StoreOrders`, so that the stock a page shows moves by the orders of others.
3. The hazards without a property in `PROJECT.json`: a plan change against the cycle of the same month, the second end
   of a subscription, and classes edited under their members are in the models as behaviours that no message of
   the repository calls wrong; each needs a statement of what the academy wants.

## 7. Not modelled

Password hashing and policy, CPF digits, date formatting and file signatures are functions of strings with
no state. The dashboard, notices and self-service pages for reading show what the components above write; the one
write among them, of a notice that has been read, is an upsert that says the same each time. The
audit log is appended after the response and never read by an operation. Edits of single rows of people, addresses,
responsibles and plans are one statement each, and nothing but the unique keys relates them. A database statement that fails
is modelled only in `DocumentStore`, where it has to be compensated; elsewhere it changes nothing and is the end of the
request. Which classes a
teacher has, and the status of a student, are left open where the web application is answered; which classes are full changes at will.
A document registered under the key of a product's image is promised no file, and no property says that the classes of a form have
places, because the code does not see to either. In the web
application, layout, texts and the pages that only list what they have loaded are left out. The generated Prisma client and
PostgreSQL are taken as what section 2 says of them.
