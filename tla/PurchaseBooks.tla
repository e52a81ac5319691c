---------------------------- MODULE PurchaseBooks ---------------------------
(***************************************************************************)
(* What has to be true of a tenant's purchases: that both budgets are held *)
(* exactly while money can still move, that the day's limit is a limit,    *)
(* and that no gate on the way to the provider can be walked around.       *)
(***************************************************************************)
EXTENDS Purchase, FiniteSets, Functions

(* Money that is reserved or was spent: every recorded request that was not *)
(* denied and has not died since.                                          *)
Claims(r) ==
    /\ request[r] # None
    /\ payment[r].state \notin {"DENIED", "EXPIRED", "FAILED", "CANCELLED"}

ClaimsOn(a, day) ==
    { r \in Refs : Claims(r) /\ request[r].actor = a /\ request[r].reservedOn = day }

Claimed(R) == SumFunction([r \in R |-> request[r].amount])

(* A request whose transaction began on one date and reserved on the next.  *)
Straddles(r) ==
    /\ request[r] # None
    /\ request[r].reservedOn \notin {None, DayOf[request[r].created]}

Straddled(a, day) ==
    \E r \in Refs :
        /\ Straddles(r)
        /\ request[r].actor = a
        /\ day \in {request[r].reservedOn, DayOf[request[r].created]}

-----------------------------------------------------------------------------
(* A day's reservation is the sum of the purchases that hold it, on every   *)
(* day no transaction straddled: concurrent claims lose no update, and a   *)
(* denied or dead purchase gives back its own amount once.                 *)
ReservationIsClaims ==
    \A a \in Actors, day \in Days :
        ~Straddled(a, day) => reserved[a][day] = Claimed(ClaimsOn(a, day))

(* The same without the exception, as the release is documented to work.    *)
ReleaseReturnsItsOwnDay ==
    \A a \in Actors, day \in Days : reserved[a][day] = Claimed(ClaimsOn(a, day))

(* The daily limit: however requests interleave, what an actor has claimed  *)
(* on a day is within the daily limit of one of the policies those claims  *)
(* were decided under.                                                     *)
DayWithinLimit ==
    \A a \in Actors, day \in Days :
        LET R == ClaimsOn(a, day) IN
        R # {} /\ ~Straddled(a, day) =>
            \E r \in R : Claimed(R) <= policies[request[r].version].daily

(* Both budgets or neither: a request's delegation spend is outstanding     *)
(* exactly while its payment claims the day's budget, and is the spend of  *)
(* the hop, amount and SKU the request names.                              *)
BudgetsAgree(r) ==
    /\ Outstanding(r) <=> Claims(r) /\ request[r].delegation # None
    /\ Outstanding(r) =>
          /\ spend[r].hop = request[r].delegation
          /\ spend[r].amount = request[r].amount
          /\ spend[r].sku = request[r].sku

BothBudgetsOrNeither == \A r \in Refs : BudgetsAgree(r)

(* No purchase above the threshold gets past APPROVAL_REQUIRED without a    *)
(* consumed approval of its own policy version, given by someone other     *)
(* than the requester; no other purchase has an approval.                  *)
Beyond(r) == payment[r].state \notin {"APPROVAL_REQUIRED", "DENIED"}

Gated(r) ==
    request[r] # None =>
        /\ approval[r] # None <=> request[r].verdict = "REQUIRE_APPROVAL" /\ Beyond(r)
        /\ approval[r] # None =>
              /\ approval[r].consumed
              /\ approval[r].version = request[r].version
              /\ approval[r].by # request[r].actor
        /\ Beyond(r) => payment[r].authorized = request[r].amount

ApprovalGate == \A r \in Refs : Gated(r)

(* The recorded provider events are the explanation of the payment: an      *)
(* event that was refused left no record, one that was accepted moved the  *)
(* payment, in whatever order and however often events arrived.            *)
EventsOf(s) ==
    CASE s = "PROVIDER_PENDING" -> {"authorized"}
      [] s = "CAPTURED"         -> {"authorized", "captured"}
      [] s = "FAILED"           -> {"authorized", "failed"}
      [] s = "REFUNDED"         -> {"authorized", "captured", "refunded"}
      [] OTHER                  -> {}

Explained(r) ==
    IF payment[r] = None
    THEN events[r] = {}
    ELSE /\ events[r] = EventsOf(payment[r].state)
         /\ payment[r].captured = (IF "captured" \in events[r] THEN request[r].amount ELSE 0)
         /\ payment[r].refunded = (IF "refunded" \in events[r] THEN request[r].amount ELSE 0)

EventsExplainPayment == \A r \in Refs : Explained(r)

(* An authority stands for the decision it was cut from: same version, a    *)
(* catalog purchase, an approval where one was required, and a lifetime    *)
(* inside the policy's.                                                    *)
StandsForDecision(r) ==
    authority[r] # None =>
        /\ request[r] # None
        /\ request[r].verdict # "DENY"
        /\ authority[r].version = request[r].version
        /\ authority[r].expires <= policies[request[r].version].expiry
        /\ request[r].sku # None
        /\ request[r].verdict = "REQUIRE_APPROVAL" => approval[r] # None

AuthorityStandsForDecision == \A r \in Refs : StandsForDecision(r)

(* The last gate before a provider order: an authority is consumed only     *)
(* while the payment is authorized, the newest policy is still the one     *)
(* that was decided on, and no hop above the purchase is revoked.          *)
GoesToProvider(r) ==
    /\ payment[r].state = "AUTHORIZED"
    /\ request[r].version = Newest
    /\ now < authority[r].expires + MaxWait
    /\ request[r].delegation # None =>
          \A a \in Chain(request[r].delegation) : ~hop[a].revoked

ConsumptionsGated ==
    \A r \in Refs :
        authority[r] # None /\ ~authority[r].used /\ authority'[r].used => GoesToProvider(r)

ConsumedOnlyWhileAuthorized == [][ConsumptionsGated]_vars

(* Whatever an evaluation decided, the transaction that asked for it can    *)
(* commit an answer: an allowed or approvable request is recorded, and     *)
(* everything else, a tenant without a policy included, as a denial.       *)
EveryDecisionIsRecordable ==
    \A r \in Refs : draft[r] # None => ENABLED (Accept(r) \/ Refuse(r))

(* A purchase cancelled for a dead chain is one whose money will never      *)
(* move: no adapter has consumed its authority and gone to the provider.   *)
CancelledMoneyNeverMoves ==
    \A r \in Refs :
        payment[r] # None /\ payment[r].state = "CANCELLED" =>
            authority[r] = None \/ ~authority[r].used
=============================================================================
