----------------------------- MODULE MCMerchant -----------------------------
(***************************************************************************)
(* A catalogue of two, goals that meet every verdict, and a live model     *)
(* that asks for what is not sold, for nothing, or malforms a line.        *)
(***************************************************************************)
EXTENDS MerchantDesk, TLC

CONSTANTS dal, oil, nosuch

PriceDef       == (dal :> 1) @@ (oil :> 2)
MaxQuantityDef == (dal :> 3) @@ (oil :> 1)
InjectedDef    == [sku |-> oil, quantity |-> 2, discarded |-> [amount_minor |-> 99, merchant_id |-> 1]]

(* Against the story, so that a poll that is cut off lacks what comes first.*)
IdDef(r) == 0 - 10 * Rank(r.kind) - r.line

Wants(s, q)   == [sku |-> s, quantity |-> q]
Item(s, q, e) == [sku |-> s, quantity |-> q, extra |-> e]

GoalsDef   == { <<Wants(dal, 1), Wants(oil, 1)>> }
AnswersDef == { <<Item(None, 1, <<>>)>>,
                <<Item(dal, 3, [amount_minor |-> 1]), Item(nosuch, 0, [line_id |-> Garbled]),
                  Item(oil, 1, <<>>)>>,
                <<Item(dal, 1, [line_id |-> Garbled, position |-> 2]), Item(oil, 1, <<>>)>>,
                <<Item(dal, 1, <<>>), Item(Blank, 1, <<>>)>> }
=============================================================================
