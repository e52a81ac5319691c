---------------------------- MODULE MerchantDesk ----------------------------
(***************************************************************************)
(* The merchant copilot: one goal becomes a basket of decided lines, which *)
(* the owner approves, pays and confirms, while a panel shows the trail.   *)
(*                                                                         *)
(* A handler is a transaction: it begins, and later commits what it did or *)
(* nothing.  Making a basket is long, because the assistant is asked and   *)
(* every line goes through the purchase pipeline.  That pipeline, and what *)
(* the rail does, are reduced here to their verdicts and to the day's      *)
(* reservation (modules Purchase and PaytmRail have them in full); there   *)
(* is one day, and the store's assistant spends under no delegation.       *)
(***************************************************************************)
EXTENDS EventPanel

CONSTANTS
    MaxTx,          \* bound: how many transactions begin
    Goals,          \* what the heuristic reads from the goals: sequences of sku and quantity
    Answers,        \* what the live model may reply: sequences of items, however malformed
    MaxLines,       \* the items of an answer that are kept: 5 in the code
    Skus,           \* the catalogue
    Price,
    MaxQuantity,    \* by sku: the most one purchase may be for
    Injected,       \* the instruction hidden in a supplier's description: a sku, a quantity
                    \* and fields the purchase tool does not have
    Garbled,        \* a field's value that is no identifier of a line, nor an amount
    Blank,          \* an empty sku
    None,
    MaxAmount, MaxDaily, ApprovalAbove  \* the store's policy

Modes == {"LIVE", "OFFLINE", "COMPROMISED"}

States == {"APPROVAL_REQUIRED", "AUTHORIZED", "DENIED", "PROVIDER_PENDING", "CAPTURED", "FAILED"}

ASSUME DeskAssumption ==
    /\ MaxTx \in Nat /\ MaxLines \in Nat
    /\ Price \in [Skus -> Nat] /\ MaxQuantity \in [Skus -> Nat]
    /\ Injected.quantity \in Nat /\ MaxDaily \in Nat
    /\ "position" \notin DOMAIN Injected.discarded
    /\ Blank \notin Skus /\ None \notin Modes \cup States

(* A goal is read as a sequence of wants; a reply's quantities may be any   *)
(* whole number, what it says may be left out, and it may say anything      *)
(* besides: extra is a record of fields nobody asked for.  (A position that *)
(* is no whole number is taken for 0.)                                     *)
ASSUME PlannerAssumption ==
    /\ \A goal \in Goals :
          /\ Len(goal) \in Nat /\ DOMAIN goal = 1 .. Len(goal)
          /\ \A i \in DOMAIN goal : goal[i].quantity \in Nat
    /\ \A answer \in Answers :
          /\ Len(answer) \in Nat /\ DOMAIN answer = 1 .. Len(answer)
          /\ \A i \in DOMAIN answer : /\ answer[i].quantity \in Int
                                      /\ "position" \in DOMAIN answer[i].extra =>
                                            answer[i].extra["position"] \in Int

Slots == 1 .. MaxTx

-----------------------------------------------------------------------------
(* The planner.  A proposed line is a sku, a quantity and the fields that   *)
(* were discarded from it, because the purchase tool does not have them.   *)
Proposal(s, q, d) == [sku |-> s, quantity |-> q, discarded |-> d]

(* What a sequence has at the positions K, in their order.                  *)
InOrder(K) ==
    CHOOSE at \in [1 .. Cardinality(K) -> K] : \A i, j \in DOMAIN at : i < j => at[i] < at[j]

Kept(s, K) == [i \in 1 .. Cardinality(K) |-> s[InOrder(K)[i]]]

OfflineLines(goal) == [i \in DOMAIN goal |-> Proposal(goal[i].sku, goal[i].quantity, <<>>)]

CompromisedLines(goal) ==
    Append(Kept(OfflineLines(goal), { i \in DOMAIN goal : goal[i].sku # Injected.sku }),
           Proposal(Injected.sku, Injected.quantity, Injected.discarded))

Normalised(item) ==
    Proposal(item.sku, IF item.quantity > 0 THEN item.quantity ELSE 1, item.extra)

(* Mutant: every item of the answer is kept. *)
LinesFromWholeAnswer(answer) ==
    LET kept == Kept(answer, { i \in DOMAIN answer : answer[i].sku # None })
    IN  [i \in DOMAIN kept |-> Normalised(kept[i])]

(* _lines_from_model: an item without a sku is dropped, a bad quantity is 1.*)
LinesFromModel(answer) ==
    LET kept == Kept(answer, { i \in DOMAIN answer : i <= MaxLines /\ answer[i].sku # None })
    IN  [i \in DOMAIN kept |-> Normalised(kept[i])]

(* plan_basket_async; the live model may fail to answer in any way.         *)
Plans(asked, goal) ==
    LET offline == [used |-> "OFFLINE", lines |-> OfflineLines(goal)] IN
    CASE asked = "OFFLINE"     -> {offline}
      [] asked = "COMPROMISED" -> {[used |-> "COMPROMISED", lines |-> CompromisedLines(goal)]}
      [] asked = "LIVE" ->
            {offline} \cup { [used |-> "LIVE", lines |-> LinesFromModel(a)] :
                               a \in { b \in Answers : LinesFromModel(b) # <<>> } }

-----------------------------------------------------------------------------
VARIABLES
    mode,      \* ASSISTANT_MODE, of the whole process
    job,       \* by transaction: None before it begins
    stores,    \* the moments the committed stores were seeded
    basket,    \* by moment: the committed baskets
    line,      \* by basket and position: the committed lines
    payment,   \* by basket and position: the committed purchases
    reserved   \* by store: the day's reservation row

deskVars == <<mode, job, stores, basket, line, payment, reserved>>
allVars  == <<panelVars, deskVars>>

Outcomes == {"READY", "NEEDS_APPROVAL", "STOPPED", "CONFIRMING", "PAID", "PAYMENT_FAILED"}

LineIds == Slots \X (Nat \ {0})

Payment == [store : Nat, amount : Nat, state : States]

(* A line is a purchase or the reason there is none, never both.            *)
Line == [store : Nat, bought : BOOLEAN, discarded : BOOLEAN]

(* asked: the mode when the basket was begun, which the code does not store.*)
Basket == [store : Nat, asked : Modes, used : Modes, lines : Nat]

Over == [kind |-> "over"]

Running(t) == job[t] \notin {None, Over}

Newest == CHOOSE s \in stores : \A r \in stores : r <= s

(* A purchase's own row, and those of lines decided with it.                *)
Amount(t, i) == Price[job[t].plan[i].sku] * job[t].plan[i].quantity

Claimed(t) == IF Running(t) /\ job[t].kind = "basket" THEN job[t].claimed ELSE 0

(* The reservation row is locked from a claim to the end of its transaction.*)
DayLocked(t, store) ==
    \E u \in Slots \ {t} : Running(u) /\ job[u].kind = "basket"
                              /\ job[u].store = store /\ job[u].claimed > 0

(* evaluate_payment_request, for a payee on the list and the right currency.*)
Verdict(t, amount) ==
    CASE \/ amount > MaxAmount
         \/ reserved[job[t].store] + Claimed(t) + amount > MaxDaily -> "DENIED"
      [] OTHER -> IF amount > ApprovalAbove THEN "APPROVAL_REQUIRED" ELSE "AUTHORIZED"

Row(t, k, i, position, readable) ==
    [store |-> job[t].store, at |-> t, kind |-> k, line |-> i,
     position |-> position, readable |-> readable]

Rows(t, kinds, i, position) == { Row(t, k, i, position, TRUE) : k \in kinds }

(* Mutant: a failed payment is not told apart from one that can be paid. *)
OutcomeWithoutFailures(s) ==
    CASE s = "APPROVAL_REQUIRED" -> "NEEDS_APPROVAL"
      [] s = "DENIED"            -> "STOPPED"
      [] s = "PROVIDER_PENDING"  -> "CONFIRMING"
      [] s = "CAPTURED"          -> "PAID"
      [] OTHER                   -> "READY"

(* _outcome_for: the payment's state as the owner sees it.                  *)
OutcomeFor(s) ==
    CASE s = "APPROVAL_REQUIRED" -> "NEEDS_APPROVAL"
      [] s = "DENIED"            -> "STOPPED"
      [] s = "PROVIDER_PENDING"  -> "CONFIRMING"
      [] s = "CAPTURED"          -> "PAID"
      [] s = "FAILED"            -> "PAYMENT_FAILED"
      [] OTHER                   -> "READY"

(* _render_line: a line without a purchase is stopped.                      *)
LineOutcome(l) == IF l \in DOMAIN payment THEN OutcomeFor(payment[l].state) ELSE "STOPPED"

(* _render_basket: the amounts of a basket's lines of one outcome.          *)
Total(b, outcome) ==
    LET lines == { l \in DOMAIN payment : l[1] = b /\ LineOutcome(l) = outcome }
    IN  SumFunction([l \in lines |-> payment[l].amount])

SpentToday(store) == reserved[store]

(* Mutant: the process is asked for its mode again after the plan came. *)
FellBackAsModeIsNow(t) == mode = "LIVE" /\ job[t].used # "LIVE"

FellBack(t) == job[t].asked = "LIVE" /\ job[t].used # "LIVE"

-----------------------------------------------------------------------------
(* A transaction's first statement finds the store and fixes its moment.    *)
Begin(j) ==
    /\ clock < MaxTx
    /\ clock' = clock + 1
    /\ job' = [job EXCEPT ![clock + 1] = j]
    /\ UNCHANGED <<trail, panel, stores, basket, line, payment, reserved>>

BeginBasket ==
    /\ Begin([kind |-> "basket", store |-> Newest, asked |-> mode, used |-> None, plan |-> <<>>,
              verdicts |-> <<>>, claimed |-> 0])
    /\ UNCHANGED mode

(* A line of the newest store that is a purchase; any other is not found.   *)
BeginLineOperation ==
    /\ \E p \in DOMAIN payment, k \in {"approve", "pay", "confirm"} :
        /\ payment[p].store = Newest
        /\ Begin([kind |-> k, store |-> Newest, purchase |-> p])
    /\ UNCHANGED mode

(* reset_store: the next presentation begins offline, reset or not.         *)
BeginReset ==
    /\ Begin([kind |-> "reset", store |-> clock + 1])
    /\ mode' = "OFFLINE"

(* Without an effect: refused, broken off, or rolled back.  A line the      *)
(* purchase tool cannot take at all ends its basket this way.              *)
Abort(t) ==
    /\ Running(t)
    /\ job' = [job EXCEPT ![t] = Over]
    /\ UNCHANGED <<panelVars, mode, stores, basket, line, payment, reserved>>

Plan(t) ==
    /\ Running(t) /\ job[t].kind = "basket" /\ job[t].used = None
    /\ \E goal \in Goals : \E p \in Plans(job[t].asked, goal) :
        job' = [job EXCEPT ![t].used = p.used, ![t].plan = p.lines]
    /\ UNCHANGED <<panelVars, mode, stores, basket, line, payment, reserved>>

Undecided(t) ==
    /\ Running(t) /\ job[t].kind = "basket"
    /\ Len(job[t].verdicts) < Len(job[t].plan)
    /\ job[t].plan[Len(job[t].verdicts) + 1].sku # Blank

(* create_catalog_payment_request_for_source: a sku the catalogue lacks, or *)
(* more of it than one purchase may be for, never becomes a purchase.      *)
Refused(l) == l.sku \notin Skus \/ l.quantity > MaxQuantity[l.sku]

(* New rows beside the ones a table has.                                    *)
With(table, rows) ==
    [x \in DOMAIN table \cup DOMAIN rows |-> IF x \in DOMAIN table THEN table[x] ELSE rows[x]]

(* Mutant: every line is committed as it is decided. *)
DecideForGood(t) ==
    /\ Undecided(t)
    /\ LET i == Len(job[t].verdicts) + 1
           v == IF Refused(job[t].plan[i]) THEN None ELSE Verdict(t, Amount(t, i))
       IN
       /\ job' = [job EXCEPT ![t].verdicts = Append(@, v)]
       /\ IF v = None
          THEN UNCHANGED <<payment, reserved>>
          ELSE /\ payment' = With(payment, [p \in {<<t, i>>} |->
                               [store |-> job[t].store, amount |-> Amount(t, i), state |-> v]])
               /\ reserved' = [reserved EXCEPT ![job[t].store] =
                                 @ + IF v = "DENIED" THEN 0 ELSE Amount(t, i)]
    /\ UNCHANGED <<panelVars, mode, stores, basket, line>>

Decide(t) ==
    /\ Undecided(t)
    /\ LET i == Len(job[t].verdicts) + 1
           v == IF Refused(job[t].plan[i]) THEN None ELSE Verdict(t, Amount(t, i))
           claims == v \notin {None, "DENIED"}
       IN
       /\ claims => ~DayLocked(t, job[t].store)
       /\ job' = [job EXCEPT ![t].verdicts = Append(@, v),
                             ![t].claimed  = @ + IF claims THEN Amount(t, i) ELSE 0]
    /\ UNCHANGED <<panelVars, mode, stores, basket, line, payment, reserved>>

(* The proposal is written down as it arrived, what was discarded from it   *)
(* over what the server knows of the line.                                 *)
ProposedRow(t, i) ==
    LET said == job[t].plan[i].discarded IN
    Row(t, "planner_line_proposed", i,
        IF "position" \in DOMAIN said THEN said["position"] ELSE i - 1,
        \A f \in DOMAIN said \cap {"line_id", "amount_minor", "amount"} : said[f] # Garbled)

LineRows(t, i) ==
    {ProposedRow(t, i)}
      \cup Rows(t, (IF DOMAIN job[t].plan[i].discarded = {} THEN {} ELSE {"planner_fields_discarded"})
                     \cup (IF job[t].verdicts[i] = None THEN {"line_stopped"} ELSE {}), i, i - 1)
      \cup Rows(t, {IF job[t].verdicts[i] = None THEN "catalog_purchase_rejected"
                    ELSE "payment_transition"}, i, 0)

CommitBasket(t) ==
    /\ Running(t) /\ job[t].kind = "basket" /\ job[t].used # None
    /\ Len(job[t].verdicts) = Len(job[t].plan)
    /\ LET j      == job[t]
           bought == { i \in DOMAIN j.plan : j.verdicts[i] # None }
       IN
       /\ basket' = With(basket, [b \in {t} |->
                            [store |-> j.store, asked |-> j.asked, used |-> j.used,
                             lines |-> Len(j.plan)]])
       /\ line' = With(line, [l \in {t} \X DOMAIN j.plan |->
                            [store |-> j.store, bought |-> l[2] \in bought,
                             discarded |-> DOMAIN j.plan[l[2]].discarded # {}]])
       /\ payment' = With(payment, [p \in {t} \X bought |->
                            [store |-> j.store, amount |-> Amount(t, p[2]),
                             state |-> j.verdicts[p[2]]]])
       /\ reserved' = [reserved EXCEPT ![j.store] = @ + j.claimed]
       /\ trail' = trail \cup (IF FellBack(t) THEN Rows(t, {"planner_fell_back"}, 0, 0) ELSE {})
                         \cup UNION { LineRows(t, i) : i \in DOMAIN j.plan }
    /\ job' = [job EXCEPT ![t] = Over]
    /\ UNCHANGED <<clock, panel, mode, stores>>

(* What an operation on a line does to its payment, and what it writes down.*)
Moves(t, kind, from, to, kinds) ==
    /\ Running(t) /\ job[t].kind = kind
    /\ payment[job[t].purchase].state = from
    /\ payment' = [payment EXCEPT ![job[t].purchase].state = to]
    /\ trail' = trail \cup Rows(t, kinds, 0, 0)
    /\ job' = [job EXCEPT ![t] = Over]
    /\ UNCHANGED <<clock, panel, mode, stores, basket, line>>

Approve(t) ==
    /\ Moves(t, "approve", "APPROVAL_REQUIRED", "AUTHORIZED", {"payment_transition"})
    /\ UNCHANGED reserved

Pay(t) ==
    /\ Moves(t, "pay", "AUTHORIZED", "PROVIDER_PENDING",
             {"checkout_authority_issued", "checkout_authority_consumed", "payment_transition",
              "paytm_order_created"})
    /\ UNCHANGED reserved

ConfirmPending(t) ==
    /\ Moves(t, "confirm", "PROVIDER_PENDING", "PROVIDER_PENDING", {"paytm_status_pending"})
    /\ UNCHANGED reserved

ConfirmPaid(t) ==
    /\ Moves(t, "confirm", "PROVIDER_PENDING", "CAPTURED",
             {"payment_transition", "paytm_status_confirmed"})
    /\ UNCHANGED reserved

(* A failed payment gives its day's budget back.                            *)
ConfirmFailed(t) ==
    /\ Moves(t, "confirm", "PROVIDER_PENDING", "FAILED",
             {"payment_transition", "paytm_payment_failed"})
    /\ LET p == payment[job[t].purchase] IN
       /\ ~DayLocked(t, p.store)
       /\ reserved' = [reserved EXCEPT ![p.store] = @ - p.amount]

CommitReset(t) ==
    /\ Running(t) /\ job[t].kind = "reset"
    /\ stores' = stores \cup {t}
    /\ trail' = trail \cup Rows(t, {"store_reset"}, 0, 0)
    /\ job' = [job EXCEPT ![t] = Over]
    /\ UNCHANGED <<clock, panel, mode, basket, line, payment, reserved>>

(* Bound: a mode no transaction will begin in makes no difference.          *)
SetMode ==
    /\ clock < MaxTx
    /\ \E m \in Modes \ {mode} : mode' = m
    /\ UNCHANGED <<panelVars, job, stores, basket, line, payment, reserved>>

(* A restart finds a store and seeds none.  Nothing uncommitted is left, the*)
(* mode is the configured one again, and the panel's stream has broken.    *)
Restart ==
    /\ job' = [t \in Slots |-> IF Running(t) THEN Over ELSE job[t]]
    /\ mode' = "OFFLINE"
    /\ Reconnect
    /\ UNCHANGED <<stores, basket, line, payment, reserved>>

PanelGoesOn == UNCHANGED deskVars /\ Poll(Newest)

-----------------------------------------------------------------------------
DeskInit ==
    /\ clock = 0 /\ trail = {} /\ panel = Connected
    /\ mode = "OFFLINE"
    /\ job = [t \in Slots |-> None]
    /\ stores = {0}
    /\ basket = <<>> /\ line = <<>> /\ payment = <<>>
    /\ reserved = [s \in 0 .. MaxTx |-> 0]

DeskNext ==
    \/ BeginBasket \/ BeginLineOperation \/ BeginReset \/ SetMode \/ Restart
    \/ Reconnect /\ UNCHANGED deskVars
    \/ PanelGoesOn
    \/ \E t \in Slots :
        \/ Plan(t) \/ Decide(t) \/ CommitBasket(t) \/ CommitReset(t) \/ Abort(t)
        \/ Approve(t) \/ Pay(t) \/ ConfirmPending(t) \/ ConfirmPaid(t) \/ ConfirmFailed(t)

DeskSpec == DeskInit /\ [][DeskNext]_allVars

(* The panel polls every 0.4 seconds and survives a failed poll.  Nothing   *)
(* is assumed of the owner, the model or the gateway.                      *)
FairDeskSpec == DeskSpec /\ WF_allVars(PanelGoesOn)

-----------------------------------------------------------------------------
DeskTypeOK ==
    /\ mode \in Modes /\ clock \in 0 .. MaxTx /\ stores \subseteq 0 .. MaxTx
    /\ trail \subseteq AuditRow /\ panel.seen \subseteq trail
    /\ DOMAIN basket \subseteq Slots /\ Range(basket) \subseteq Basket
    /\ \A b \in DOMAIN basket : basket[b].used = "LIVE" => basket[b].lines <= MaxLines
    /\ DOMAIN line \subseteq LineIds /\ Range(line) \subseteq Line
    /\ DOMAIN payment \subseteq LineIds /\ Range(payment) \subseteq Payment
    /\ reserved \in [0 .. MaxTx -> Nat]

(* A basket is whole or is not there: its lines are the planned ones, every *)
(* purchase the assistant made is one line's and every line is a purchase   *)
(* or a refusal; whatever happened to the mode meanwhile, the trail tells  *)
(* of a fallback exactly when the owner asked for the live model and was    *)
(* answered by the heuristic.  (create_basket, merchant.py:226)            *)
BasketIsWhole ==
    /\ DOMAIN line = UNION { {b} \X (1 .. basket[b].lines) : b \in DOMAIN basket }
    /\ DOMAIN payment = { l \in DOMAIN line : line[l].bought }
    /\ \A b \in DOMAIN basket :
        (basket[b].asked = "LIVE" /\ basket[b].used # "LIVE")
          <=> \E r \in trail : r.at = b /\ r.kind = "planner_fell_back"

(* What the owner's cards say is ready, waiting, confirming or paid adds up *)
(* to the figure the limit is enforced against, which never passes it:     *)
(* "two numbers that are supposed to be the same number" (merchant.py:213).*)
ScreenAgreesWithLimit ==
    \A s \in stores :
        LET shown == { b \in DOMAIN basket : basket[b].store = s } \X
                     {"READY", "NEEDS_APPROVAL", "CONFIRMING", "PAID"} IN
        /\ SpentToday(s) = SumFunction([c \in shown |-> Total(c[1], c[2])])
        /\ SpentToday(s) <= MaxDaily

(* A connection shows a row once and tells of a transaction without a break,*)
(* however late it committed and wherever a poll was cut off.  Only a row   *)
(* that cannot be read breaks the story, which then goes on behind that     *)
(* row, never before it.  (merchant.py:800, merchant_events.py:66)         *)
ToldOnceInOrder ==
    \A i, j \in DOMAIN panel.turns : i < j =>
        \A r \in panel.turns[i], s \in panel.turns[j] :
            /\ r # s
            /\ r.at = s.at => \E lost \in panel.seen :
                  ~lost.readable /\ Before(r, lost) /\ ~Before(s, lost)

(* "One bad poll is survivable" (merchant.py:821): a readable row that the  *)
(* limit lets through is shown in the end, also if it was committed after   *)
(* younger rows were shown, and whatever stands before it.                 *)
PanelCatchesUp ==
    []<>({ r \in Batch(Newest) : r.readable /\ r.kind \notin Quiet } \subseteq Shown)
=============================================================================
