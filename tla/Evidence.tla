------------------------------ MODULE Evidence ------------------------------
(***************************************************************************)
(* Reading one purchase back: the evidence record behind the receipt, and  *)
(* the console page, which reads a timeline row of its own and then the    *)
(* same evidence for its headline.                                         *)
(*                                                                         *)
(* Nothing is locked and the isolation level is READ COMMITTED, so every   *)
(* section of a page is a statement of its own, and purchases go on        *)
(* between two of them.  The page is a mixture of instants; the properties *)
(* say what it may be relied on for all the same.  The rows of the         *)
(* timeline are dropped before the evidence is read, so nothing of them is *)
(* found again in the session's identity map.                              *)
(***************************************************************************)
EXTENDS PurchaseBooks

Reasons == { "PAYMENT_ALREADY_SETTLED", "PAYMENT_ALREADY_WITH_THE_PROVIDER",
             "PAYMENT_NOT_AUTHORIZED", "NO_CHECKOUT_AUTHORITY_ISSUED",
             "CHECKOUT_AUTHORITY_ALREADY_USED", "CHECKOUT_AUTHORITY_EXPIRED",
             "DELEGATION_REVOKED", "DELEGATION_EXPIRED" }

ASSUME EvidenceAssumption == None \notin Reasons

VARIABLES
    page,   \* the page being read: [of, kind, seen, at], or None
    shown   \* was there an instant since it was opened at which the record
            \* itself showed a purchase that may go to the provider?

evidenceVars == <<vars, page, shown>>

(* Mutant: the sections the payment explains are read before the payment.  *)
SectionsCausesLast == <<"approval", "authority", "events", "chain", "spend", "payment">>

(* The statements, in the order of the code.  The request, its decision and *)
(* its policy version are committed together and never change: they are    *)
(* read with the page's opening.                                           *)
Sections == <<"approval", "authority", "payment", "events", "chain", "spend">>

Row == <<"row_payment", "row_approval">>

Statements(kind) == IF kind = "console" THEN Row \o Sections ELSE Sections

Answered(d) == DOMAIN d.seen

(* The statement whose turn it is, if any is left.                          *)
Turn(d) ==
    { Statements(d.kind)[i] : i \in { j \in DOMAIN Statements(d.kind) :
        /\ Statements(d.kind)[j] \notin Answered(d)
        /\ \A k \in 1 .. j - 1 : Statements(d.kind)[k] \in Answered(d) } }

Stored(r, s) ==
    CASE s \in {"approval", "row_approval"} -> approval[r]
      [] s \in {"payment", "row_payment"}   -> payment[r]
      [] s = "authority" -> authority[r]
      [] s = "events"    -> events[r]
      [] s = "spend"     -> spend[r]
      [] s = "chain"     -> IF request[r].delegation = None THEN {}
                            ELSE { hop[a] : a \in Chain(request[r].delegation) }

(* What the envelope is said to describe, at one instant: a live, unused    *)
(* authority over an authorized payment whose chain is still live.         *)
OnRecord(r) ==
    /\ authority[r] # None
    /\ ~authority[r].used
    /\ now < authority[r].expires
    /\ payment[r].state = "AUTHORIZED"
    /\ ChainAgrees(r, now)

Concluded == page # None /\ page.at # None

-----------------------------------------------------------------------------
Open(r, kind) ==
    /\ page = None \/ Concluded
    /\ request[r] # None
    /\ page' = [of |-> r, kind |-> kind, seen |-> <<>>, at |-> None]
    /\ shown' = OnRecord(r)

ReadSection ==
    /\ page # None
    /\ \E s \in Turn(page) :
        page' = [page EXCEPT !.seen =
                  [x \in Answered(page) \cup {s} |-> IF x = s THEN Stored(page.of, s) ELSE @[x]]]
    /\ shown' = (shown \/ OnRecord(page.of))

(* The clock is read once, after the last statement.                        *)
Conclude ==
    /\ page # None /\ Turn(page) = {} /\ page.at = None
    /\ page' = [page EXCEPT !.at = now]
    /\ UNCHANGED shown

Read == (\E r \in Refs, k \in {"receipt", "console"} : Open(r, k)) \/ ReadSection \/ Conclude

(* What else happens while the page is being read.                          *)
Watch == shown' = (shown \/ (page # None /\ ~Concluded /\ OnRecord(page.of)))

EvidenceInit == Init /\ page = None /\ shown = FALSE

EvidenceNext ==
    \/ Read /\ UNCHANGED vars
    \/ Next /\ Watch /\ UNCHANGED page

EvidenceSpec == EvidenceInit /\ [][EvidenceNext]_evidenceVars

-----------------------------------------------------------------------------
(* The envelope.                                                            *)
ApprovalState(d) ==
    LET a == d.seen["approval"] IN
    IF request[d.of].verdict # "REQUIRE_APPROVAL" THEN "NOT_REQUIRED"
    ELSE IF a = None THEN "REQUIRED"
    ELSE IF a.consumed THEN "CONSUMED"
    ELSE IF a.expires <= d.at THEN "EXPIRED"
    ELSE "GRANTED"

PaymentBlocks(p) ==
    CASE p.state \in Captures         -> "PAYMENT_ALREADY_SETTLED"
      [] p.state = "PROVIDER_PENDING" -> "PAYMENT_ALREADY_WITH_THE_PROVIDER"
      [] p.state = "AUTHORIZED"       -> None
      [] OTHER                        -> "PAYMENT_NOT_AUTHORIZED"

(* Mutant: a used authority is not told from an unused one. *)
AuthorityBlocksByAge(a, t) ==
    IF a = None THEN "NO_CHECKOUT_AUTHORITY_ISSUED"
    ELSE IF a.expires <= t THEN "CHECKOUT_AUTHORITY_EXPIRED"
    ELSE None

AuthorityBlocks(a, t) ==
    IF a = None THEN "NO_CHECKOUT_AUTHORITY_ISSUED"
    ELSE IF a.used THEN "CHECKOUT_AUTHORITY_ALREADY_USED"
    ELSE IF a.expires <= t THEN "CHECKOUT_AUTHORITY_EXPIRED"
    ELSE None

ChainBlocks(c, t) ==
    IF \E h \in c : h.revoked THEN "DELEGATION_REVOKED"
    ELSE IF \E h \in c : h.expires <= t THEN "DELEGATION_EXPIRED"
    ELSE None

(* The first reason in the order of the gate; None is "allowed".            *)
Blocked(d) ==
    LET p == PaymentBlocks(d.seen["payment"])
        a == AuthorityBlocks(d.seen["authority"], d.at)
        c == ChainBlocks(d.seen["chain"], d.at)
    IN  IF p # None THEN p ELSE IF a # None THEN a ELSE c

(* The console's headline.                                                  *)
Headline(d) ==
    IF request[d.of].verdict = "DENY" THEN "REFUSED"
    ELSE IF ApprovalState(d) \in {"REQUIRED", "EXPIRED"} THEN "APPROVAL_REQUIRED"
    ELSE "AUTHORIZED"

-----------------------------------------------------------------------------
(* A page that says the provider may be called was right at some instant    *)
(* while it was being read: the sections, each from an instant of its own, *)
(* never add up to a permission that did not exist.                        *)
AllowedWasTrue == Concluded /\ Blocked(page) = None => shown

(* What a page shows as done it also explains: the events that moved the    *)
(* payment it shows, the spend its death gave back, the approval its row   *)
(* passed; and neither an authority nor an approval stands beside a        *)
(* payment that is still waiting for one.                                  *)
PaymentExplained(d) ==
    LET p == d.seen["payment"] IN
    /\ EventsOf(p.state) \subseteq d.seen["events"]
    /\ p.state \in Releasing /\ d.seen["spend"] # None => d.seen["spend"].released
    /\ d.seen["authority"] # None \/ d.seen["approval"] # None =>
          p.state \notin {"APPROVAL_REQUIRED", "DENIED"}

(* The console's row is older than its headline and is never ahead of it.   *)
RowExplained(d) ==
    LET p == d.seen["row_payment"] IN
    /\ ApprovalState(d) = "REQUIRED" => p.state = "APPROVAL_REQUIRED"
    /\ ApprovalState(d) # "NOT_REQUIRED" /\ p.state # "APPROVAL_REQUIRED" =>
          d.seen["row_approval"] # None
    /\ Headline(d) = "REFUSED" <=> p.state = "DENIED"
    /\ Blocked(d) = None => p.state \in {"APPROVAL_REQUIRED", "AUTHORIZED"}
    /\ p.state \in Captures => Blocked(d) = "PAYMENT_ALREADY_SETTLED"

PageHangsTogether ==
    Concluded =>
        /\ PaymentExplained(page)
        /\ page.kind = "console" => RowExplained(page)
=============================================================================
