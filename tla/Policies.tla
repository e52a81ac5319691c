------------------------------ MODULE Policies ------------------------------
(***************************************************************************)
(* The tenant's clock and its spending policies.                           *)
(*                                                                         *)
(* A policy is immutable; publishing one appends a new version, and the    *)
(* newest version is the one every later evaluation reads.  The database   *)
(* clock and the host clock are one variable here; what separates them in  *)
(* this module is only that a handler may decide from a clock reading it   *)
(* took before it waited for a row lock (Recent).                          *)
(***************************************************************************)
EXTENDS Naturals, Sequences

CONSTANTS
    Drafts,       \* the policies an operator may publish
    MaxVersions,  \* bound: policy versions ever published
    MaxTime,      \* bound: the last instant of the clock
    MaxWait,      \* bound: how old a clock reading is when it is acted on
    DayOf         \* the UTC date of every instant

Times == 0 .. MaxTime
Days  == { DayOf[t] : t \in Times }

(* The rules of one policy.  A NULL approval_required_above_minor is the    *)
(* same rule as a threshold equal to max, which no permitted amount passes. *)
Policy == [max : Nat, daily : Nat, threshold : Nat, expiry : Nat]

ASSUME PoliciesAssumption ==
    /\ MaxTime \in Nat
    /\ MaxWait \in Nat
    /\ MaxVersions \in Nat
    /\ Drafts \subseteq Policy
    /\ DOMAIN DayOf = Times
    /\ DayOf = [t \in Times |-> DayOf[t]]

VARIABLES
    now,       \* the current instant
    policies   \* policies[v] is version v

policyVars == <<now, policies>>

-----------------------------------------------------------------------------
Newest == Len(policies)

InForce(v, t) == v \in DOMAIN policies /\ t < policies[v].expiry

(* The instants a handler that acts now may have read the clock at. *)
Recent == { t \in Times : t <= now /\ now <= t + MaxWait }

(* The decision for one request against version v.  permitted stands for   *)
(* "the currency is the policy's and the merchant is on its list and       *)
(* active"; held is what the actor's day already has reserved.             *)
Evaluate(v, amount, permitted, held, t) ==
    IF \/ ~InForce(v, t)
       \/ ~permitted
       \/ amount > policies[v].max
       \/ held + amount > policies[v].daily
    THEN "DENY"
    ELSE IF amount > policies[v].threshold THEN "REQUIRE_APPROVAL" ELSE "ALLOW"

-----------------------------------------------------------------------------
PoliciesInit == now = 0 /\ policies = <<>>

Tick == now < MaxTime /\ now' = now + 1 /\ UNCHANGED policies

CreatePolicy(p) ==
    /\ Newest < MaxVersions
    /\ policies' = Append(policies, p)
    /\ UNCHANGED now

PoliciesTypeOK ==
    /\ now \in Times
    /\ policies \in Seq(Policy)
=============================================================================
