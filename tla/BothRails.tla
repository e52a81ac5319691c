----------------------------- MODULE BothRails ------------------------------
(***************************************************************************)
(* Both adapters in front of the same purchases, as the application mounts *)
(* them: nothing but the checkout authority keeps them apart.              *)
(***************************************************************************)
EXTENDS RazorpayRail, PaytmRail

bothVars == <<vars, railVars, paytmVars>>

BothInit == Init /\ RailStart /\ PaytmStart

BothNext ==
    \/ Prepare /\ UNCHANGED <<railVars, paytmVars>>
    \/ RailStep /\ UNCHANGED paytmVars
    \/ PaytmStep /\ UNCHANGED railVars

BothSpec == BothInit /\ [][BothNext]_bothVars
=============================================================================
