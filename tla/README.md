# TrustGate Merchant Copilot: TLA+ models

TrustGate stands between a buying agent and a payment provider. An agent asks
for a purchase; a policy, a day's budget, a chain of delegated authority and
sometimes a human decide; a checkout authority carries the answer to a provider
adapter; the provider's signed events move the payment. All state is in one
PostgreSQL database, and every handler is one transaction of it. Handlers run
concurrently, and several of them act on something they read before they took
the lock that makes it stable. That is where these models look.

Paths below are relative to the repository root.

## 1. The system's parts

| Part (source) | State | Operations | Interacts with |
|---|---|---|---|
| Spending policies (`policy_engine/evaluate.py`, `api/routes/internal_policies.py`) | `spending_policy` versions, never updated; `daily_spend_reservation` per actor and UTC date | publish, evaluate, reserve, release | creation evaluates and reserves; every later gate compares the decision's version with the newest |
| Payment state machine (`state_machine/transitions.py`) | `payment` | `transition` under the row lock | consumes approvals; gives both budgets back when a payment dies |
| Delegation chain (`delegation/chain.py`, migrations 0012 to 0017) | `delegation`, `delegation_spend` | grant a root or a child, finalize an expired hop, revoke, spend, release, walk and lock a chain | creation spends; checkout asks the whole chain again; the state machine releases |
| Purchase creation (`api/routes/payment_requests.py`, `catalog_payment_requests.py`) | `payment_request`, `authorization_decision` | decide, claim both budgets or neither, record | reads policy, day and hop without locks |
| Approvals (`api/routes/approvals.py`) | `approval` | grant and consume | state machine |
| Checkout authorities (`api/routes/checkout_authorities.py`) | `checkout_authority` | issue, cancel on a dead chain, consume | policy, chain, state machine; consumed inside the rail's transaction |
| Provider events (`api/routes/webhooks.py`) | `provider_event` | receive: accept, refuse, ignore a repeat | state machine |
| Razorpay adapter (`api/routes/razorpay.py`) | `razorpay_order` intents | create, reconcile by receipt, callback, webhook | consumes an authority; calls the provider between two transactions |
| Paytm adapter (`api/routes/paytm.py`) | `paytm_order` | start, confirm, callback | consumes an authority; calls the gateway inside the transaction |
| Merchant copilot (`api/routes/merchant.py`, `merchant_events.py`, `agent/planner.py`) | `merchant_basket` and its lines; the process's assistant mode; one panel connection | plan and decide a basket, approve, pay and confirm a line, set the mode, reset the store, stream the trail | decides each line through creation; pays through the Paytm adapter |
| Locking and sessions (`models/locking.py`, `api/database.py`) | transactions and row locks | begin, lock, commit, roll back | everything above |
| Evidence, envelope and console (`api/routes/evidence.py`, `api/receipt.py`, `api/routes/console.py`) | none of their own | read a purchase back, say whether a provider may be called | every table above, one statement at a time |
| HTTP wiring, MCP server, agent tools, scenarios, web, deployment | none of their own | forwarding, seeding, test tooling, presentation | clients of the parts above |

### What is hard here, and what correctness means

* **Unlocked reads, locked writes.** Creation evaluates the policy and looks up
  the actor's hop without a lock and claims budget afterwards. Correct: the
  claim is judged again under the locks, the day's limit is a limit, both
  budgets are held or neither.
* **Clocks.** `datetime.now`, the transaction's start (`created_at`), and the
  reading `spend` takes before it waits for the chain's locks are different
  instants, which may fall on different dates. Correct: a reservation goes back
  to the day it was made on; a hop is never used longer after its expiry than
  the wait.
* **Derived authority.** Revoking a hop writes to that hop only. Correct: every
  use asks the chain to the root; a branch never spends more than its top hop's
  budget, however many siblings it has; attenuation holds between a hop and
  every ancestor.
* **Gates in sequence.** Policy, approval, authority and rail each check part of
  what was decided, with policy publication, revocation and expiry in between.
  Correct: no purchase above the threshold reaches a provider without its own
  consumed approval; an authority stands for the decision it was cut from.
* **Events.** They come late, early, repeated and in any order. Correct: the
  recorded events are exactly the explanation of the payment's state; a refused
  one leaves nothing behind and may come again; a dead payment gives back its
  own amount once.
* **Provider calls.** An order is created outside any transaction, so a crash or
  a concurrent retry falls between the call and the record (Razorpay), or the
  record is rolled back after the call (Paytm).
  Correct: one rail for each purchase, no order without a committed intent, one
  order while clients wait for their answer, and money counted only when the
  provider says so.
* **Lock order.** Chain locks, the day's row and the payment row are taken by
  several handlers in different orders. Correct: whatever circles form, every
  transaction ends, and a key found undecided stays undecided until its finder
  is done.
* **Reading it back.** A page is made of statements at different instants, and a
  panel orders rows by a moment that is older than their commit. Correct: a page
  that permits a provider call was right at some instant; a row that fits and
  can be read is shown in the end, once, also after a turn that failed.

`PROJECT.json` lists each of these at its line, with the property that would
catch it.

## 2. Modules

| Module | Models |
|---|---|
| `Policies` | the clock, `spending_policy`, `evaluate_policy_rules` |
| `DelegationChain` (extends `Policies`) | `delegation` and `delegation_spend`, every operation of `chain.py` with the triggers and CHECK constraints under it; a specification of its own, `DelegationSpec`, which is also the abstract specification that purchases implement |
| `DelegationBooks` | what a chain promises, with the sums over branches and ledger |
| `Purchase` (extends `DelegationChain`) | creation, reservation, approval, authority, the mock provider's events, and all of `DelegationChain`'s governance running beside them |
| `PurchaseBooks` | what purchases promise |
| `Checkout` | the abstract specification of a payment rail: a cleared purchase is claimed once, offered at most one order, and settled only after that order was paid |
| `Rails` (extends `Purchase`) | what both rails start from: everything before a provider is involved |
| `RazorpayRail`, `PaytmRail` (extend `Rails`) | the two adapters with their providers |
| `BothRails` | both adapters in front of the same purchases |
| `RailBooks` | what the rails promise, the refinement of `Checkout`, the fairness of a deployment |
| `LockOrder` | every writing handler as the list of row locks it takes, PostgreSQL's conflicts and its deadlock detector |
| `EventPanel`, `MerchantDesk` (extends it) | the panel's polling; baskets, lines, modes, resets and restarts |
| `Evidence` (extends `PurchaseBooks`) | a page read statement by statement while purchases go on |
| `SumProofs` | lemmas about sums over finite sets, for any set and any amounts |
| `DelegationProofs`, `PurchaseProofs`, `RailProofs`, `PromiseProofs` | the theorems about the chain, purchases, rails and the promise of a rail |
| `LockProofs`, `EvidenceProofs`, `MerchantProofs` | the theorems about lock orders, pages, and the desk with its panel |
| `MCDelegation`, `MCPurchase`, `MCRails`, `MCLockOrder`, `MCMerchant`, `MCEvidence` | the instances TLC checks |

`Purchase` is the middle of the composition: it contains the chain, both rails
and the evidence pages contain it. `LockOrder` and `MerchantDesk` stand apart,
because their question is another grain: the first splits every handler at its
locks and forgets what is written, the second splits baskets at their lines and
reduces the purchase pipeline to its verdict and its reservation.

### State and actions against the code

A row that does not exist, and SQL NULL, are `None`. A table is a function from
the identities it may ever hold to a row or `None`. An absent reservation row is
zero, as `reserve_daily_spend` creates it with zero before it locks it.

*Clock.* `now` is the current instant, `DayOf` the UTC date of each. A handler
acts at `now` on a reading out of `Recent`, the instants at most `MaxWait` old:
that is the wait for row locks between `datetime.now(UTC)` and the write.

*Chain.* `resolve_chain` is a recursive query. `Chain(h)` is the set it returns:
the least set of hops holding `h` and closed under parents.

*Grants.* `Grant` and `GrantRoot` are `grant`/`grant_root` with `_make_room_for`
and the insert trigger: an expired hop of the new holder is finalized, the new
bounds are compared with the parent's, and the parent's `allocated` moves in the
same step. `delegation_bounds_frozen` is the reason no other action touches a
bound. `GiveBack` carries `ck_delegation_spent_nonnegative`: a release that would
break it fails with its transaction.

*Creation* is the one handler split in two. `Decide` makes its unlocked reads:
policy, day, hop. `Accept` or `Refuse` claims under locks and records the
request, the decision and the payment, already out of `CREATED`. Between them
anything may happen; `Abort` loses the transaction. The advisory lock on the
idempotency key, taken before the reads, is why a key has one draft. `Accept`
uses three instants: `created` (the transaction's start), `u` (the date
`reserve_daily_spend` reads) and `t` (the clock of `spend`). The foreign key
from a decision to its policy is a conjunct of `Recorded`.

*Transition* is `transition()`: the legality table, the amount checks, and the
release of both budgets on the way from a holding state to a releasing one.
Each caller sets amounts on the row first, as the code does.

*Authorities.* `issue_checkout_authority` commits one of two things, an
authority (`IssueAuthority`) or a cancellation (`CancelDeadChain`); it asks the
chain before it looks for an authority it already issued. `ConsumeAuthority` is
`consume_checkout_authority`, the first phase of either rail.

*Provider events.* `ProviderEvent` is the mock provider's webhook, which needs no
authority: its sender is trusted by signature. One event id exists for each
payment and kind; accepting it again is a repeat and writes nothing.

Approvals: a NULL `approval_required_above_minor` is a threshold equal to `max`,
which no permitted amount exceeds. Currency, merchant list and merchant activity
are the Boolean `permitted`. Token comparison, wording and HTTP replies are left
out.

*Razorpay.* `create_order` is not one step. `CreateOrder` consumes the authority
and commits a `PENDING` intent. The provider is then asked while **no** lock is
held (`attempt[w].stage` is `asked`, and `placed` once the order exists), and
`Record` writes the answer. A later call finds the row: it answers from a
confirmed one (`AnswerFromRow`), or locks a pending one and keeps it locked
while it lists the provider's orders under the receipt (`searching`) and, if
there is none, asks again (`asking`, `replaced`). A listing of several is refused
(`FoundSeveral`), and the refusal's exception undoes the `NEEDS_REVIEW` mark, so
nothing is written. `Fail`, `Crash` and `GiveUp` end an attempt anywhere; after
`GiveUp` the request may still take effect (`PlaceLate`). The provider's orders
for a receipt are `1 .. orders[r]`: it never deduplicates, as the code assumes.
`given[r]` is what `create_order` answered with, `trail[r]` the kinds of audit
rows committed. `Webhook`, `WebhookRefused`, `AttemptFailed` and `Callback`
find their purchase by the order id on the row; a webhook older than
`WebhookMaxAge` is not heard. A webhook that is lost is one whose action is not
taken; one that is repeated finds its event recorded.

*Paytm.* `StartPayment` is `start_payment`: issue, consume, move, open at the
gateway, commit. `StartLost` is the same with the commit missing: the gateway
has an order, the database nothing. `confirm_order` asks under the row's lock
(`AskGateway`) and writes later (`Confirm`), or the answer is lost
(`ConfirmLost`). The gateway is `mock_provider/paytm_sim.py`: the shopper chooses
and may choose again (`Complete`), a pending order succeeds on the second check,
a restart forgets. Its amount may differ from the server's (`agrees`).

*Locks.* `job[s].rest` is the list of locks transaction `s` has yet to take;
`locked()` is `FOR UPDATE`, an UPDATE takes the row more weakly, an INSERT takes
a key share on what its foreign keys name. A lock is granted when nobody holds a
conflicting one, and all end with the transaction. `Victim` is the detector: it
aborts a member of a minimal circle. What is written is left out, except which
idempotency keys are decided.

*Merchant.* A transaction is a moment (`Begin…`) and a commit (`Commit…`, or the
operations on a line); its audit rows carry the moment it began, as
`created_at DEFAULT now()` does. A basket is planned in one of three modes, with
the live model's replies among `Answers`, however malformed (`Kept` is what a
filter keeps, in its order); rows are added to tables by `With`; its lines are
decided one by one and hold the day's row from the first claim. What a line's
reply carried besides (`discarded`) is a record of fields, which is spread over
the payload of the row that records the line (`ProposedRow`) and may overwrite
its `line_id` and its `position`; one of the fields' values is `Garbled`, which is
no identifier and no amount.

`Poll` is one turn of `stream_events`: the oldest rows since the connection began,
by moment and then by their random identifier (`Id`), `PollLimit` of them
(`Batch`), without those seen, in the order of the story (`Before`). A turn marks
each row as seen, then reads it, then shows it. A row whose payload cannot be
read ends the turn there (`Breaks`, `Turn`): what stood before it is shown, the row
itself stays marked and is never shown on that connection, and what stands behind
it is left for the next turn. A turn that fails before its first row, because the
database does not answer, changes nothing and is not a step.

*Evidence.* Isolation is READ COMMITTED and nothing is locked: `ReadSection` reads
the table whose `Turn` it is, and purchases go on between two of them. `Conclude` reads the clock.
The envelope's verdict (`Blocked`), the approval state and the console's headline
are operators on what was seen. The console reads a timeline row first and the
whole evidence after it.

## 3. What TLC checks

| Run | Instance | Shows |
|---|---|---|
| `delegation` | 3 hops, depth up to 2, 3 actors, 2 spends of 1 or 2, instants 0..2 | both counters equal the books; a branch stays within its top budget; attenuation to the root and unbroken chains; one unrevoked hop per actor; no spend past a dead or narrower ancestor; history is fixed |
| `budget` | 2 purchases of one actor, 2 policy versions, 2 dates | reservations are the sum of claims, the daily limit, the approval gate, events explain payments, authorities stand for decisions |
| `delegated` | 1 purchase under a chain of up to two hops, 2 policy versions | both budgets or neither; the last gate before the provider; every step of `Purchase` is a step of `DelegationSpec` or leaves its variables alone |
| `rails` | 1 purchase that may be delegated, both rails, 2 workers, impatient clients, up to 3 orders, 1 late request, 2 gateway orders, restarts, wrong amounts, a webhook window of one instant | one rail; nothing asked without an intent; the trail accounts for the rows; captures are confirmed; rows and payment agree; no order without every gate |
| `rails_live` | the same with patient clients, nothing late, one gateway order, a window of the payment's own instant, and fairness | one order; every given order is the one on the row; paid orders are expected; the two adapters implement `Checkout`; intents get their order, payments are heard of, confirmations end |
| `locks` | 3 transactions of any kinds, 3 hops in a chain, 2 actors, 1 key, 1 purchase, fairness | no circle inside the handlers whose order is documented; a key is decided once; every transaction ends |
| `merchant` | 3 transactions, 2 kept lines, 6 rows a poll, a limit of 3, fairness of the panel | a basket is whole; the screen adds up to the limit; a row is told once and a transaction without a break, except at a row that cannot be read; the panel catches up with every other |
| `evidence` | 1 purchase under one hop, a receipt or a console page, instants 0..2 | a permitting page was right at some instant; what a page shows it explains |
| `midnight` (violation) | as `budget` | see findings |
| `no_policy` (violation) | as `budget`, 1 purchase | see findings |
| `cancelled_order` (violation) | as `delegated`, one hop | see findings |
| `razorpay_overlap` (violation) | as `rails`, nothing late | see findings |

Bounds, and why they are enough to be interesting: three hops are the least that
have a grandparent or two siblings; two purchases or two spends are the least
that race, and amounts 1 and 2 against a limit of 3 let either fit alone, both
fit, or neither; two policy versions are the least that make a decision stale;
three instants over two dates with `MaxWait = 1` let every pair of clock
readings of one transaction straddle midnight or an expiry. Two workers are the
least that overlap, and three orders let a late one land after two. The rails
share nothing between purchases but budgets, which `budget` covers, so one
purchase is the instance in which both adapters can collide. Three transactions
are the least that make a circle no pair of them makes. Six rows are fewer than
two baskets write, so a poll is cut. The identifiers of that run go against the
order of the story, so a poll is cut inside it. One reply has an unreadable
`line_id` on its first line and a large `position`, so a turn breaks off with rows
before it and behind. Hop, actor, reference and worker identities
are interchangeable and are declared symmetric in safety runs (`HeldBy` chooses
a hop, but `OneHopPerActor` makes it the only candidate).

Deadlock is checked in `merchant`, where a poll is always possible. In the other
systems the clock, the identities and the transactions run out, and a state
without a step is an end, not a fault.

### Fairness

* `rails_live` (`Fairness` in `RailBooks`): the clients ask again, for ever, for
  an order they did not get and about a payment that is confirming; any answer,
  request or webhook may be lost any number of times but not for ever. The steps
  that can be interrupted and offered again are therefore strongly fair
  (answers, placing, recovery, webhooks, confirmation), asking the gateway is
  weakly fair. Nothing is assumed of the shopper, of revocations, of restarts
  or of crashes.
* `locks`: a statement that can run runs, and PostgreSQL looks for deadlocks
  (`deadlock_timeout`): weak fairness of taking, committing or aborting. No
  transaction has to begin.
* `merchant`: the panel polls every 0.4 s, also after a turn that failed
  (`merchant.py:820`): weak fairness of `PanelGoesOn`, nothing else. A turn that
  breaks off at a row counts as one.

Every property of a passing run has a mutant in `PROJECT.json`, a plausible bug
in a mapped definition, kept beside that definition, under which the property
fails on the same instance.

### Findings

* `midnight`: `_release_reserved_budget` releases under the date of the
  request's `created_at`, the start of its transaction, while the reservation
  was made under a date read later. A transaction that straddles midnight leaves
  a reservation nobody holds on the new day and takes one somebody holds from
  the old. `ReservationIsClaims` is the same property with exactly those days
  excepted, and it holds.
* `no_policy`: the denial of a tenant without a policy has version 0, which the
  decision's foreign key refuses, so nothing is recorded.
* `cancelled_order`: asked again after the authority was consumed, with a chain
  that died meanwhile, `issue_checkout_authority` cancels the payment and gives
  both budgets back while an adapter may hold a provider order.
* `razorpay_overlap`: a second `create_order` that comes while the first one's
  provider call is under way locks the row, finds no order under the receipt
  yet, and creates one (`razorpay.py:275`). Both answer; the row keeps the one
  written last, and a webhook for the other finds no purchase. With clients that
  wait for their call to end this cannot happen (`rails_live`, and proved).

### Observations

Seen while modelling; each is in the models as the code has it, and none is
claimed by a run.

* *Razorpay.* The `NEEDS_REVIEW` mark and its audit row are rolled back by the
  exception that reports them (`razorpay.py:243`), where "the intent is marked
  `NEEDS_REVIEW`" (`docs/limitations.md:102-106`); the refusal is given again each
  time, because the provider is asked again. A recovery asks the provider
  without asking the chain again (`razorpay.py:302`). A payment whose every
  attempt failed stays held: nothing fails, expires or cancels it
  (`transitions.py:20`).
* *Paytm.* A success after a failure leaves the row `SUCCESS` and the payment
  `FAILED` (`paytm.py:284`, worded in `merchant_events.py:55`). A crash after the
  gateway opened its order rolls the database back, and the next start opens
  another (`paytm.py:228`, against the module's docstring). A start refused for a
  dead chain rolls its cancellation back too and keeps both budgets
  (`paytm.py:170`).
* *Approvals.* "Reaching one of these returns the reservation, so an abandoned
  approval cannot consume an actor's day" (`transitions.py:31`), but no handler
  moves a payment from `APPROVAL_REQUIRED` to `DENIED` or `EXPIRED`, and the test
  of it (`tests/test_daily_spend_release.py:115`) calls `transition` itself. An
  approval nobody grants, or nobody can grant any more because a newer policy
  has superseded its own, keeps its reservation for the day and its hop's budget
  for good, however fairly every handler runs.
* *Provider events.* An event refused because it came early is accepted when
  redelivered within the staleness window, and is refused for ever after it
  (`webhooks.py:27`).
* *Chains.* An actor whose hop dies is constrained by no delegation at all
  (`chain.py:283`), as the meaning of None is documented.
* *Deadlocks.* Each of approve, create, confirm, event, revoke, grant, regrant and
  webhook can circle with issue or consume: a checkout locks the tenant first,
  the others reference it last. A regrant locks the old hop before the new
  parent and can circle with create, basket, issue, consume or another regrant;
  two webhooks of one payment hold its key before they ask for the row. Circles
  of three exist as well. "Root first, so two callers … cannot deadlock"
  (`chain.py:458`) is true of the handlers it speaks of, which is
  `OrderedLocksNeverCircle`. Each circle costs one abort, and no handler retries.
* *Evidence.* The approval is read before the payment it lets through, so a page
  may say `REQUIRED` beside a permitted provider action, and the console
  "APPROVAL REQUIRED" over it (`evidence.py:107`, `:71`). The envelope does not
  compare the decision's policy version with the newest.
* *Merchant.* A row is marked as seen (`merchant.py:805`) before it is read
  (`:808`), inside the `try` whose handler goes on with the same marks. A row that
  cannot be read is therefore never shown on its connection, and splits the story
  of its transaction over two turns: the "silent gap" of `merchant_events.py:9`. A
  live reply with a field `line_id` brings one about, since the planner keeps every
  extra field (`planner.py:177`) and the basket spreads them over the row
  (`merchant.py:294`); so does an `amount` too large to divide
  (`merchant_events.py:123`). A field `position` moves the row in the story.
  The panel never reads past the first 200 rows of a connection, and
  does not use the position the browser sends. A live reply with an empty sku
  fails the whole basket. A basket's totals leave out the lines that are
  confirming (`ScreenAgreesWithLimit` counts the cards); a refunded line would be
  shown as ready. A reset sets the mode even when its
  transaction is lost; lines of an older store are not found after one.
* *Sessions.* The commit is in a dependency's exit (`database.py:46`): with a
  FastAPI that runs exits after the response, a client may see an answer whose
  commit then fails. Models let `Abort`, `Crash` and `StartLost` lose any commit.

## 4. What is proved

TLAPS proves these for every value of the constants that meets the named
assumptions of the modules. They say that bounds are naturals, that workers are
finitely many, that inputs are of their types and that `None` is no row
(`PoliciesAssumption`, `DelegationAssumption`, `PurchaseAssumption`,
`RailAssumption`, `PaytmAssumption`, `EvidenceAssumption`, `LockAssumption`,
`JobAssumption`, `DeskAssumption`, `PlannerAssumption`, `PanelAssumption`); that
a poll reads at least one row; that no price or limit is negative; and that a
hop's place on any path is its own depth (`PathAssumption`, which the tree of
`delegation` makes true: a hop is one deeper than its parent). Tables are not
assumed finite: that only finitely many rows exist is part of the invariants.

| Theorem | States |
|---|---|
| `DelegationTypeCorrect` | types; no counter of a hop is negative |
| `AttenuationIsTransitive` | `ChainNarrows`, at every depth |
| `ActorsHoldOneHop` | `OneHopPerActor` |
| `SpendsAreAgreed` | `SpendNeedsWholeChain` |
| `HistoryNeverChanges` | `HistoryIsFixed` |
| `CountersAreExact` | `CountersAreTheBooks`: both counters of a hop are the sums they stand for |
| `BranchesStayWithinBudget` | `BranchWithinBudget`, for branches of any width and depth |
| `PurchaseTypeCorrect` | types of every table |
| `PurchasesImplementDelegation` | `Spec => DelegationSpec` |
| `PurchasesKeepTheChain` | so purchases inherit the chain's theorems, its sums included |
| `ApprovalIsRequired`, `BudgetsHeldTogether`, `EventsAreTheExplanation`, `AuthoritiesStand` | the invariants of the same subjects |
| `LastGateHolds` | `ConsumedOnlyWhileAuthorized` |
| `ReservationsAreExact`, `DaysStayWithinLimit` | `ReservationIsClaims`, `DayWithinLimit`, for any number of concurrent purchases |
| `RailTypesCorrect` | types of both adapters and their providers |
| `OneRailPerPurchase`, `NothingAskedUnrecorded`, `TrailIsComplete`, `CapturesAreConfirmed`, `RowsTellThePayment` | `OneRail`, `ConsumedLeavesIntent`, `TrailAccounts`, `CapturedIsConfirmed`, `RowsAgree` |
| `OrdersAreGated` | `OrdersGated` |
| `PaidOrdersStayExpected` | `PaidOrdersAreExpected` |
| `RailsKeepThePurchases`, `RailsImplementDelegation`, `RailsKeepTheBooks` | the purchases' invariants, refinement and sums survive the adapters |
| `PatientClientsGetOneOrder`, `GivenOrdersAreFound` | `OneOrderPerPurchase`, `EveryGivenOrderIsKnown`, if clients are patient |
| `RailsKeepThePromise` | both rails implement `Checkout`, if clients are patient |
| `KeysAreDecidedOnce` | `LooksStayTrue`, for any number of transactions, keys and hops |
| `FamiliesNeverCircle` | `OrderedLocksNeverCircle`, for circles of any size and chains of any length |
| `PermissionsWereTrue`, `PagesHangTogether` | `AllowedWasTrue`, `PageHangsTogether` |
| `DeskTypeCorrect`, `BasketsAreWhole`, `ScreensAgreeWithLimits` | `DeskTypeOK`, `BasketIsWhole`, `ScreenAgreesWithLimit`, for any replies of the model and any number of baskets |
| `StoriesAreToldOnce` | `ToldOnceInOrder`, for any limit of a poll, any identifiers and any rows that cannot be read |

Every safety property a passing run checks is proved, the refinements included.

*Sums.* A sum is a fold, and the library's induction theorems take an operator,
which no installed prover can instantiate. `SumProofs` therefore argues by least
counterexample: the subsets of a finite set are well-founded under inclusion
(`LeastSet`, from the library's well-foundedness theorem), so a set of
counterexamples has a least one, and taking one member out of it gives a
smaller. `SumFunUnfolds` shows in that way that the recursive function inside a
fold exists, and with it come what everything else cites: `SumRemove`,
`SumUpdate`, `SumMonotone`, `SumPartition`, `SumRenamed`.

*Delegation.* None of the properties is inductive alone. `ChainInv` adds what the
steps need: every edge narrows (`Edges`), every chain is finite and has `depth + 1`
hops (`ChainsCounted`), and ledger rows name granted hops. A step either grants
nothing and keeps every row's terms (`ForestKept`), or adds one row on top of rows
that keep theirs (`NewRowKeeps`). Because `Chain(h)` is the least closed set,
`ChainKept` and `ChainOfChild` say how chains change without an induction, and
`ChainNarrower` proves attenuation to the root by showing that the set of hops
wider than `h` is closed under parents. The count of a chain is an induction over
steps, one hop at a time, not over depth.

`BooksInv` adds the sums: for each hop, `spent` is the sum of its outstanding
ledger rows, `allocated` the sum of its children's budgets, and the two together
are within its budget. From it follow the counters, and that the CHECK
constraint on `delegation_spent_minor` never refuses a release: a release takes
back one entry of the sum. A branch's bound follows from the hops' own: add up
spent and allocated over the branch, and every budget below the top cancels
against an allocation above it.

*Purchases.* `PurchaseInv` is `ChainInv`, the types, and `Sound(r)` of every
request: the properties themselves, and that a draft has no request yet, that an
unrecorded key carries nothing else, and that a payment's state fits its verdict.
That events explain the payment is kept apart (`StoryKept`), because under the
Paytm rail a payment moves without events. Each action writes one request (one
lemma per action); `Framed` covers the others. `NextIsChainStep` maps each action
to a step of `DelegationSpec` or a stutter: `Accept` with a hop to `SpendOnce`, a
dying payment to `Release`, governance to itself; the invariant supplies that the
reference is fresh and the hop granted.

`DayWithinLimit` is not inductive: a release may take away the very claim whose
policy's limit the rest were within. `DaysInv` asks for more: of *every* set of
claims on the day, some member was decided under a limit the set is within. A
release leaves fewer sets; a new claim is, with any of the others, within its
own limit, because the locked row it was added to is the sum of all of them
(`ReservationIsClaims`). That is also why a day some transaction straddled is
excepted from both.

*Rails.* `RailInv` is `PurchaseInv` with, for each purchase, what the two adapters
add: `RazorpaySound` (without an intent there is no order, request or answer; the
trail matches the row; orders, requests under way and late ones are counted
against their bound; an attempt has an intent),
`PaytmSound` (the row fits the payment; an answer held is one the gateway gave)
and `Apart` (the rail that has the purchase has all of it). A step of `BothRails`
leaves the purchases alone, is one of `Purchase`'s own actions, for which the
lemmas of `PurchaseProofs` are cited, or is a Paytm move, which transitions
without an event; the three cases are three groups of lemmas, and the days'
books follow the same three. That a paid order's purchase still takes the
capture needs one thing more, `OnlyNews`: the events recorded of a purchase are
the ones this adapter forwards, so none of them has failed or refunded it.

*Promise.* Under `Patience` (`Patient /\ MaxLate = 0`: an attempt is repeated only
after it ended and takes effect only while it is waited for), `PatientInv` says
that a purchase has at most one attempt, that an attempt which asks is the first
to get an order, and that the row says what shoppers were given. The refinement
maps `stage` to the payment's state, `claimed` to the consumed authorities,
`offered` to the orders given on either rail and `paid` to the ones paid for. The
hypothesis cannot be dropped: `razorpay_overlap` is its counterexample.

*Locks.* `LockInvariant` says that granted locks never conflict, which makes
the key's advisory lock exclusive; a create that found its key undecided still
holds that lock, so no other create can commit the key. For the circles, `Rank`
numbers the kinds of row in the order the spending handlers take them, a hop by
its depth. `OrderInv` says that what such a transaction has yet to take never
descends and lies above what it holds, and that the tenant, which has no place
in the order, is only ever shared. In a circle each member waits for a row another
one holds, so the ranks waited for would rise all the way round; the member
waiting at the highest rank refutes it. A checkout begins by locking its tenant,
so two of them never run side by side.

*Evidence.* Nothing is locked, so what was read is stale. What can be relied on
is what cannot be taken back (`Advances`): payments move along `Legal`, an
authority, approval or event once there stays, released spend stays released, a
dead chain stays dead. `EvidenceInv` relates each answer on the page
to the records as they are now, in that direction, and one answer to an earlier
one. For a permission (`PermissionStory`) it says: once the authority was read
unused, either some instant has shown a permission, or the payment is no longer
authorized, the authority has expired or the chain is dead, each for good, and
the page says so when it comes to read that.

*Merchant.* `DeskInv` has a named part for each concern. Nothing of a transaction
is there before it commits (`Isolated`), so a whole basket arrives at once and
its rows are of a moment nobody has seen. A reservation is the sum of the
payments that hold it, within the limit together with what a basket in the
making has claimed, and of two baskets of one store one has claimed nothing: the
row lock (`MoneySound`). `ScreenAgreesWithLimit` follows because the columns of
the cards partition the payments that hold their amount (`ColumnsPartition`). For
the panel, a transaction's rows arrive together, after the polls they were not
in. Of a row that was told and one of the same moment that was not, `PanelSound`
says why: a row that was lost stands between them in the story, or as many rows
as a poll reads stand ahead of the second one. In the first case the second is
told behind the lost one; in the second never, because the rows ahead of it only
become more. A turn marks what it shows and the row it breaks off at (`TurnTells`), so
whatever new row it leaves behind is of the first kind. Nothing
is asked of the identifiers, not even that they differ. That a reply
of any form makes a typed plan (`PlansTyped`) needs that the kept positions can
be put in order (`Enumeration`, again by least counterexample).

Only model-checked: all liveness, and `EveryDecisionIsRecordable`, since liveness
under fairness and ENABLED are out of the prover's reach.

## 5. Not modelled, and why

* *HTTP application* (`api/app.py`, `serve.py`, `body_limit.py`, `dependencies.py`):
  wiring, a size limit and a tenant lookup; no state.
* *The mock provider's webhook beside the adapters*: `app.py:40` mounts it in every
  deployment, and its events move any payment. `Purchase` has it (`ProviderEvent`);
  `BothRails` leaves it out, as a deployment in front of a real provider has no
  sender for it. The rails' properties, that captures are confirmed above all, are
  of payments no such event has touched.
* *A receipt search that ends early*: after 20 pages of 100 orders
  `_find_orders_by_receipt` gives up with `RAZORPAY_RECEIPT_SEARCH_INCOMPLETE`, each
  time it is asked. `IntentsAreResolved` is of a provider whose listing ends.
* *The screen between two statements*: `_render_basket` reads each line and then the
  reservation; `ScreenAgreesWithLimit` takes both at one instant.
* *The inside of one spend*: the walk, the locks and the charge of `spend` are one
  action of `DelegationChain`; `LockOrder` has their locks, nothing else of them.
* *MCP server*: five tools that forward to the modelled routes.
* *Signatures, checksums, body sizes, tokens*: a message that fails them reaches no
  handler; the models begin behind them.
* *Agent and demonstration tools*, except the planner and the seed: clients; what
  they may ask for is the inputs of the modelled actions.
* *Scenario and mutation runners*: test tooling around the code, not of it.
* *Console*: refusals at its boundary, which have no purchase, and rendering.
* *Web front end*: presentation over the read-only views.
* *Snapshot hashes*: over columns no code updates after the insert.

What would add most next: the expiry of abandoned approvals, once the code has a step for it; two purchases
on the rails at once, which needs a smaller clock; the audit trail of purchases
themselves, which the panel reads and `Purchase` leaves out.
