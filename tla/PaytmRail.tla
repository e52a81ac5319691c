------------------------------ MODULE PaytmRail -----------------------------
(***************************************************************************)
(* The Paytm adapter on top of the purchases, and the gateway it talks to. *)
(*                                                                         *)
(* Starting a payment is one transaction that issues and consumes the      *)
(* authority, writes the order row, moves the payment and asks the gateway *)
(* to open the order; nothing of it is committed before the gateway has    *)
(* answered.  Confirming one holds the order's row while it asks the       *)
(* gateway, and writes what the gateway said some time after it said it.   *)
(* The gateway is the simulator of the repository: the shopper chooses an  *)
(* outcome, and may choose again; a pending order succeeds when it is      *)
(* asked about a second time; a restart forgets every order.               *)
(***************************************************************************)
EXTENDS Rails

CONSTANTS
    MaxOpened,    \* bound: orders opened at the gateway for one purchase
    Restarts,     \* whether the gateway may be restarted
    Agreements    \* the gateway's amount may be the server's (TRUE), another (FALSE)

GatewayOrders == 1 .. MaxOpened

(* paytm_order. *)
Row == [order : GatewayOrders, status : {"CREATED", "PENDING", "SUCCESS", "FAILED", "MISMATCH"}]

(* SimulatedOrder.status; None is no record. *)
Outcomes == {"TXN_SUCCESS", "TXN_FAILURE", "PENDING"}

Answer == [result : Outcomes, agrees : BOOLEAN]

ASSUME PaytmAssumption ==
    /\ MaxOpened \in Nat
    /\ Restarts \in BOOLEAN /\ Agreements \subseteq BOOLEAN
    /\ None \notin Row \cup Outcomes \cup {"CREATED"} \cup Answer

VARIABLES
    paytm,    \* paytm_order, by purchase
    opened,   \* how many orders were opened at the gateway for the purchase
    gateway,  \* what the gateway knows of the order on the row
    checks,   \* pending_checks of that order, up to the second
    agrees,   \* whether the amount the gateway has on that order is the server's
    heard,    \* the answer a confirmation that holds the row has been given
    charged   \* history: purchases whose order has been successful at the gateway

paytmVars == <<paytm, opened, gateway, checks, agrees, heard, charged>>

-----------------------------------------------------------------------------
(* issue_checkout_authority and consume_checkout_authority, one after the   *)
(* other: an unused authority of an earlier call serves as well as a new   *)
(* one.                                                                    *)
(* Mutants: an authority serves although it was used; the chain is asked    *)
(* when the authority is issued and not again.                             *)
ReadyTwice(r, t) ==
    /\ Issuable(r, t)
    /\ ChainAgrees(r, t)
    /\ request[r].sku # None
    /\ request[r].verdict = "REQUIRE_APPROVAL" => approval[r] # None /\ approval[r].consumed

ReadyByIssue(r, t) ==
    /\ Issuable(r, t)
    /\ authority[r] = None => ChainAgrees(r, t)
    /\ request[r].sku # None
    /\ request[r].verdict = "REQUIRE_APPROVAL" => approval[r] # None /\ approval[r].consumed
    /\ authority[r] # None =>
          ~authority[r].used /\ t < authority[r].expires /\ authority[r].version = Newest

Ready(r, t) ==
    /\ Issuable(r, t)
    /\ ChainAgrees(r, t)
    /\ request[r].sku # None
    /\ request[r].verdict = "REQUIRE_APPROVAL" => approval[r] # None /\ approval[r].consumed
    /\ authority[r] # None =>
          ~authority[r].used /\ t < authority[r].expires /\ authority[r].version = Newest

UsedAuthority(r, t) ==
    IF authority[r] # None
    THEN [authority[r] EXCEPT !.used = TRUE]
    ELSE [version |-> Newest, used |-> TRUE,
          expires |-> IF policies[Newest].expiry < t + AuthorityTtl
                      THEN policies[Newest].expiry ELSE t + AuthorityTtl]

(* start_payment that got its token and was committed. *)
StartPayment(r) ==
    /\ opened[r] < MaxOpened
    /\ \E t \in Recent :
         /\ Ready(r, t)
         /\ authority' = [authority EXCEPT ![r] = UsedAuthority(r, t)]
    /\ Transition(r, payment[r], "PROVIDER_PENDING")
    /\ opened' = [opened EXCEPT ![r] = @ + 1]
    /\ paytm' = [paytm EXCEPT ![r] = [order |-> opened[r] + 1, status |-> "CREATED"]]
    /\ gateway' = [gateway EXCEPT ![r] = "CREATED"]
    /\ \E a \in Agreements : agrees' = [agrees EXCEPT ![r] = a]
    /\ UNCHANGED <<policyVars, draft, request, approval, events, checks, heard, charged>>

(* The gateway opened the order, and the token was lost, or the process     *)
(* died, or the commit failed: the whole transaction is rolled back.  A     *)
(* start refused for a dead chain is rolled back too, the cancellation that *)
(* issue_checkout_authority made included, and leaves nothing.              *)
StartLost(r) ==
    /\ opened[r] < MaxOpened
    /\ \E t \in Recent : Ready(r, t)
    /\ opened' = [opened EXCEPT ![r] = @ + 1]
    /\ UNCHANGED <<vars, paytm, gateway, checks, agrees, heard, charged>>

-----------------------------------------------------------------------------
(* The gateway. *)

(* complete: the shopper's choice, which replaces an earlier one.           *)
Complete(r, outcome) ==
    /\ paytm[r] # None
    /\ gateway[r] # None
    /\ gateway' = [gateway EXCEPT ![r] = outcome]
    /\ charged' = IF outcome = "TXN_SUCCESS" THEN charged \cup {r} ELSE charged
    /\ UNCHANGED <<vars, paytm, opened, checks, agrees, heard>>

Restart ==
    /\ Restarts
    /\ gateway' = [r \in Refs |-> None]
    /\ UNCHANGED <<vars, paytm, opened, checks, agrees, heard, charged>>

(* order_status: a pending order is counted and, the second time, succeeds. *)
(* Mutant: it is pending for ever. *)
OrderStatusStuck(r) == gateway[r]

OrderStatus(r) ==
    IF gateway[r] = "PENDING" /\ checks[r] > 0 THEN "TXN_SUCCESS" ELSE gateway[r]

ResultOf(status) ==
    CASE status = None          -> "TXN_FAILURE"
      [] status = "CREATED"     -> "PENDING"
      [] OTHER                  -> status

(* confirm_order, up to the gateway's answer.  Its row stays locked, and a  *)
(* confirmed one is not asked about again.  A verified browser callback    *)
(* and the owner's button both come here, and nowhere else.                *)
AskGateway(r) ==
    /\ paytm[r] # None
    /\ heard[r] = None
    /\ paytm[r].status # "SUCCESS"
    /\ heard' = [heard EXCEPT ![r] =
         [result |-> ResultOf(OrderStatus(r)), agrees |-> agrees[r]]]
    /\ gateway' = [gateway EXCEPT ![r] = OrderStatus(r)]
    /\ checks' = IF gateway[r] = "PENDING" THEN [checks EXCEPT ![r] = 1] ELSE checks
    /\ charged' = IF OrderStatus(r) = "TXN_SUCCESS" THEN charged \cup {r} ELSE charged
    /\ UNCHANGED <<vars, paytm, opened, agrees>>

(* The answer is lost, or the process dies before it is written.            *)
ConfirmLost(r) ==
    /\ heard[r] # None
    /\ heard' = [heard EXCEPT ![r] = None]
    /\ UNCHANGED <<vars, paytm, opened, gateway, checks, agrees, charged>>

(* Mutant: the amount is not compared. *)
RowAfterAnyAmount(answer) ==
    CASE answer.result = "TXN_SUCCESS" -> "SUCCESS"
      [] answer.result = "TXN_FAILURE" -> "FAILED"
      [] answer.result = "PENDING"     -> "PENDING"

RowAfter(answer) ==
    CASE answer.result = "TXN_SUCCESS" -> IF answer.agrees THEN "SUCCESS" ELSE "MISMATCH"
      [] answer.result = "TXN_FAILURE" -> "FAILED"
      [] answer.result = "PENDING"     -> "PENDING"

(* Mutant: the payment is moved and the row is not written. *)
ConfirmRowless(r) ==
    /\ heard[r] # None
    /\ LET s == RowAfter(heard[r]) IN
       IF payment[r].state = "PROVIDER_PENDING" /\ s \in {"SUCCESS", "FAILED"}
       THEN Transition(r, payment[r], IF s = "SUCCESS" THEN "CAPTURED" ELSE "FAILED")
       ELSE UNCHANGED <<payment, reserved, hop, spend>>
    /\ heard' = [heard EXCEPT ![r] = None]
    /\ UNCHANGED <<policyVars, draft, request, approval, authority, events, paytm, opened,
                   gateway, checks, agrees, charged>>

(* confirm_order, after the answer. *)
Confirm(r) ==
    /\ heard[r] # None
    /\ LET s == RowAfter(heard[r]) IN
       /\ paytm' = [paytm EXCEPT ![r].status = s]
       /\ IF payment[r].state = "PROVIDER_PENDING" /\ s \in {"SUCCESS", "FAILED"}
          THEN Transition(r, payment[r], IF s = "SUCCESS" THEN "CAPTURED" ELSE "FAILED")
          ELSE UNCHANGED <<payment, reserved, hop, spend>>
    /\ heard' = [heard EXCEPT ![r] = None]
    /\ UNCHANGED <<policyVars, draft, request, approval, authority, events, opened, gateway,
                   checks, agrees, charged>>

-----------------------------------------------------------------------------
PaytmTypeOK ==
    /\ paytm \in [Refs -> Row \cup {None}]
    /\ opened \in [Refs -> 0 .. MaxOpened]
    /\ gateway \in [Refs -> Outcomes \cup {"CREATED", None}]
    /\ checks \in [Refs -> 0 .. 1]
    /\ agrees \in [Refs -> BOOLEAN]
    /\ heard \in [Refs -> Answer \cup {None}]
    /\ charged \subseteq Refs

PaytmStart ==
    /\ paytm = [r \in Refs |-> None]
    /\ opened = [r \in Refs |-> 0]
    /\ gateway = [r \in Refs |-> None]
    /\ checks = [r \in Refs |-> 0]
    /\ agrees = [r \in Refs |-> TRUE]
    /\ heard = [r \in Refs |-> None]
    /\ charged = {}

PaytmStep ==
    \/ Restart
    \/ \E r \in Refs :
         \/ StartPayment(r) \/ StartLost(r)
         \/ \E outcome \in Outcomes : Complete(r, outcome)
         \/ AskGateway(r) \/ ConfirmLost(r) \/ Confirm(r)
=============================================================================
