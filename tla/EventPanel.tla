----------------------------- MODULE EventPanel -----------------------------
(***************************************************************************)
(* The panel beside the phone (stream_events): a connection that asks for  *)
(* the newest store's audit rows again and again and shows the ones it has *)
(* not seen.                                                               *)
(*                                                                         *)
(* A row's created_at is the moment its transaction began, so a slow       *)
(* transaction commits rows that are older than rows already shown, and    *)
(* the rows of one transaction all carry one moment.  Moments are the      *)
(* numbers of the transactions that began at them.  A turn is modelled as  *)
(* the set it shows; it shows them in the order Before, and that order     *)
(* also says how far a turn came that met a row it could not read.         *)
(***************************************************************************)
EXTENDS Integers, Sequences, FiniteSets, Functions

CONSTANTS
    PollLimit,  \* the rows one poll reads at most: 200 in the code
    Id(_)       \* the random identifiers of the rows, by which those of a moment are told apart

ASSUME PanelAssumption == PollLimit \in Nat \ {0}

EventKinds == { "planner_fell_back", "planner_line_proposed", "planner_fields_discarded",
                "line_stopped", "catalog_purchase_rejected", "payment_transition",
                "checkout_authority_issued", "checkout_authority_consumed", "paytm_order_created",
                "paytm_status_pending", "paytm_status_confirmed", "paytm_payment_failed",
                "store_reset" }

(* Said by line_stopped already.                                            *)
Quiet == {"catalog_purchase_rejected"}

(* audit_event.  line is the basket's line the row was written for, if any; *)
(* position is what its payload says of it.  A row is unreadable if its     *)
(* payload names no UUID where a line's is expected, or an amount past all  *)
(* bounds.                                                                 *)
AuditRow == [store : Nat, at : Nat, kind : EventKinds, line : Nat, position : Int, readable : BOOLEAN]

(* _RANK: where a row belongs in the story of its transaction.              *)
Rank(kind) ==
    CASE kind = "planner_fell_back"           -> 0
      [] kind = "planner_line_proposed"       -> 1
      [] kind = "planner_fields_discarded"    -> 2
      [] kind \in {"line_stopped", "catalog_purchase_rejected"} -> 3
      [] kind = "checkout_authority_issued"   -> 6
      [] kind = "checkout_authority_consumed" -> 7
      [] kind = "paytm_order_created"         -> 8
      [] kind \in {"paytm_status_pending", "paytm_status_confirmed", "paytm_payment_failed"} -> 10
      [] OTHER                                -> 5

-----------------------------------------------------------------------------
VARIABLES
    clock,  \* how many transactions have begun
    trail,  \* the committed audit rows
    panel   \* the connection: when it started, the rows it has marked as seen, what each turn showed

panelVars == <<clock, trail, panel>>

Connected == [since |-> clock, seen |-> {}, turns |-> <<>>]

Shown == UNION Range(panel.turns)

Due(store) == { r \in trail : r.store = store /\ r.at > panel.since }

(* ORDER BY created_at, id LIMIT: a row is read if few enough are read      *)
(* ahead of it.                                                            *)
Ahead(q, r) == q.at < r.at \/ (q.at = r.at /\ Id(q) <= Id(r))

UpTo(due, r) == { q \in due : Ahead(q, r) }

First(due) == { r \in due : Cardinality(UpTo(due, r)) <= PollLimit }

Batch(store) == LET due == Due(store) IN First(due)

(* The key a turn sorts what it read by; the sort is stable.                *)
Before(q, r) ==
    \/ q.at < r.at
    \/ /\ q.at = r.at
       /\ \/ Rank(q.kind) < Rank(r.kind)
          \/ /\ Rank(q.kind) = Rank(r.kind)
             /\ \/ q.position < r.position
                \/ q.position = r.position /\ Id(q) < Id(r)

Shows(told, marked) ==
    LET loud == { r \in told : r.kind \notin Quiet } IN
    /\ panel' = [panel EXCEPT !.seen  = @ \cup marked,
                             !.turns = IF loud = {} THEN @ ELSE Append(@, loud)]
    /\ UNCHANGED <<clock, trail>>

(* Where a turn over the new rows breaks off, if it does.                   *)
Breaks(new) ==
    { stop \in new : ~stop.readable /\ \A r \in new : ~r.readable => ~Before(r, stop) }

Until(new, stop) == { r \in new : Before(r, stop) }

(* A turn marks each row before it reads it.  What it cannot read ends it:  *)
(* the row stays marked, those behind it are left for the next turn.       *)
Turn(new) ==
    \/ Breaks(new) = {} /\ Shows(new, new)
    \/ \E stop \in Breaks(new) : Shows(Until(new, stop), Until(new, stop) \cup {stop})

(* Mutant: a row is marked once it is shown. *)
PollMarkingShown(store) ==
    LET new == Batch(store) \ panel.seen IN
    \/ Breaks(new) = {} /\ Shows(new, new)
    \/ \E stop \in Breaks(new) : Shows(Until(new, stop), Until(new, stop))

(* Mutant: each poll reads on from where the last one stopped. *)
PollByPage(store) ==
    \E new \in {First(Due(store) \ panel.seen)} : Turn(new)

(* One turn of the loop.  If it fails before its first row, it was none.    *)
Poll(store) == \E new \in {Batch(store) \ panel.seen} : Turn(new)

(* A browser that lost the stream connects again.  It says what it saw last *)
(* and is not heard: a connection shows what begins after it.              *)
Reconnect ==
    /\ panel' = Connected
    /\ UNCHANGED <<clock, trail>>
=============================================================================
