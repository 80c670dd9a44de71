------------------------------ MODULE Returns ------------------------------
(* Returns of one delivered order (modules/returns) and their refunds        *)
(* (modules/refunds).  Nothing here runs in a transaction: a return, its     *)
(* refund row, the payment and the order's hasActiveReturn flag are separate *)
(* writes with an await between each two.  Customers and staff interleave    *)
(* there, and a handler may die at any of them.  Whether the feature is on   *)
(* and the return window open only decides whether a customer may ask: not   *)
(* being allowed is not taking the step.                                     *)
EXTENDS Naturals, Sequences, FiniteSetsExt

CONSTANTS
    Returns,    \* returns that may be requested (bound)
    Items,      \* order items
    Ordered,    \* Ordered[i]: OrderItem.quantity
    Customers,  \* requests of the customer served at the same time
    Staff,      \* requests of staff served at the same time
    Requests,   \* the line lists a customer may submit
    MaxCrashes  \* bound on handlers that die

Lines == [item : Items, quantity : Nat \ {0}]

ASSUME ReturnsAssumption ==
    /\ IsFiniteSet(Returns)
    /\ Ordered \in [Items -> Nat]
    /\ Customers \cap Staff = {}
    /\ Requests \subseteq Seq(Lines) \ {<<>>}
    /\ MaxCrashes \in Nat

VARIABLES
    status,     \* Return.status
    lines,      \* ReturnItem rows of each return
    refundRow,  \* status of the Refund row with that returnId
    provider,   \* Payment.provider of the order
    payment,    \* Payment.status of the order
    flag,       \* Order.hasActiveReturn
    mailed,     \* mailed[r][t]: Notification rows of type t about r
    handler,    \* what each request still has to do
    moved,      \* Razorpay: how often it has refunded a return
    crashes

rows == <<status, lines, refundRow, provider, payment, flag>>
vars == <<rows, mailed, handler, moved, crashes>>

-----------------------------------------------------------------------------
Statuses == {"NOT_REQUESTED", "RETURN_REQUESTED", "RETURN_APPROVED",
             "RETURN_REJECTED", "REFUND_INITIATED", "REFUNDED"}
Terminal == {"RETURN_REJECTED", "REFUNDED"}
MailTypes == {"RETURN_REQUESTED", "RETURN_APPROVED", "RETURN_REJECTED",
              "REFUND_INITIATED", "REFUND_COMPLETED"}

Handlers == Customers \cup Staff
Idle == [pc |-> "idle"]
Asking == [pc : {"create"}, lines : Requests]

\* The stages of a handler, and the e-mail it owes there.
Owing ==
    [flag |-> {"RETURN_REQUESTED"},
     initiate |-> {"REFUND_INITIATED"}, decide |-> {"REFUND_INITIATED"},
     gateway |-> {"REFUND_INITIATED"}, recordInitiated |-> {"REFUND_INITIATED"},
     record |-> {"REFUND_INITIATED"}, recordFailure |-> {"REFUND_INITIATED"},
     finalize |-> {"REFUND_INITIATED"}, completeRow |-> {"REFUND_COMPLETED"},
     markPayment |-> {"REFUND_INITIATED", "REFUND_COMPLETED"},
     count |-> {"RETURN_REJECTED", "REFUND_COMPLETED"},
     clear |-> {"RETURN_REJECTED", "REFUND_COMPLETED"},
     mail |-> MailTypes]
Working ==
    {w \in [pc : DOMAIN Owing, mail : MailTypes, ret : Returns] : w.mail \in Owing[w.pc]}

Free(h) == handler[h] = Idle
At(h, pc) == handler[h].pc = pc
Start(h, pc, mail, r) == handler' = [handler EXCEPT ![h] = [pc |-> pc, mail |-> mail, ret |-> r]]
Goto(h, pc) == handler' = [handler EXCEPT ![h].pc = pc]
Finish(h) == handler' = [handler EXCEPT ![h] = Idle]

\* countActiveByOrderId
Requested == {r \in Returns : status[r] # "NOT_REQUESTED"}
Active == {r \in Requested : status[r] \notin Terminal}

\* The quantity of i in a list of lines, and in all returns not rejected.
Quantity(ls, i) ==
    SumFunctionOnSet([k \in DOMAIN ls |-> ls[k].quantity], {k \in DOMAIN ls : ls[k].item = i})
Quantities(i) == [r \in Returns |-> Quantity(lines[r], i)]
Claimed(i) ==
    SumFunctionOnSet(Quantities(i), {r \in Requested : status[r] # "RETURN_REJECTED"})

-----------------------------------------------------------------------------
(* RequestReturnUseCase *)

\* Mutant: a refunded return no longer counts against what was ordered.
EligibleAgain(ls) ==
    \A k \in DOMAIN ls :
        SumFunctionOnSet(Quantities(ls[k].item), Active) + ls[k].quantity
            <= Ordered[ls[k].item]

\* resolveReturnEligibility: each line by itself against what is claimed.
Eligible(ls) ==
    \A k \in DOMAIN ls : Claimed(ls[k].item) + ls[k].quantity <= Ordered[ls[k].item]

\* findLinesByOrderId and the decision; an ineligible request writes nothing.
AskForReturn(h, ls) ==
    /\ Free(h)
    /\ Eligible(ls)
    /\ handler' = [handler EXCEPT ![h] = [pc |-> "create", lines |-> ls]]
    /\ UNCHANGED <<rows, mailed, moved, crashes>>

CreateReturn(h, r) ==
    /\ At(h, "create")
    /\ status[r] = "NOT_REQUESTED"
    /\ status' = [status EXCEPT ![r] = "RETURN_REQUESTED"]
    /\ lines' = [lines EXCEPT ![r] = handler[h].lines]
    /\ Start(h, "flag", "RETURN_REQUESTED", r)
    /\ UNCHANGED <<refundRow, provider, payment, flag, mailed, moved, crashes>>

SetActiveFlag(h) ==
    /\ At(h, "flag")
    /\ flag' = TRUE
    /\ Goto(h, "mail")
    /\ UNCHANGED <<status, lines, refundRow, provider, payment, mailed, moved, crashes>>

-----------------------------------------------------------------------------
(* The staff's use cases *)

\* Mutant: `WHERE id = r` without the status.
MoveWithoutStatus(r, from, to) ==
    /\ status[r] # "NOT_REQUESTED"
    /\ status' = [status EXCEPT ![r] = to]
    /\ UNCHANGED <<lines, refundRow, provider, payment, flag>>

\* transitionStatus: WHERE id = r AND status = from; a row that does not match
\* is a ConflictError.
TransitionStatus(r, from, to) ==
    /\ status[r] = from
    /\ status' = [status EXCEPT ![r] = to]
    /\ UNCHANGED <<lines, refundRow, provider, payment, flag>>

ApproveReturn(h, r) ==
    /\ Free(h)
    /\ TransitionStatus(r, "RETURN_REQUESTED", "RETURN_APPROVED")
    /\ Start(h, "mail", "RETURN_APPROVED", r)
    /\ UNCHANGED <<mailed, moved, crashes>>

RejectReturn(h, r) ==
    /\ Free(h)
    /\ TransitionStatus(r, "RETURN_REQUESTED", "RETURN_REJECTED")
    /\ Start(h, "count", "RETURN_REJECTED", r)
    /\ UNCHANGED <<mailed, moved, crashes>>

\* Mutant: a refund somebody else initiated is taken up again.
ResumeRefund(h, r) ==
    /\ Free(h)
    /\ \/ status[r] = "RETURN_APPROVED" /\ Start(h, "initiate", "REFUND_INITIATED", r)
       \/ status[r] = "REFUND_INITIATED" /\ Start(h, "decide", "REFUND_INITIATED", r)
    /\ UNCHANGED <<rows, mailed, moved, crashes>>

\* IssueRefundForApprovedReturnUseCase reads the return and the order first.
ReadApprovedReturn(h, r) ==
    /\ Free(h)
    /\ status[r] = "RETURN_APPROVED"
    /\ Start(h, "initiate", "REFUND_INITIATED", r)
    /\ UNCHANGED <<rows, mailed, moved, crashes>>

InitiateRefund(h) ==
    /\ At(h, "initiate")
    /\ TransitionStatus(handler[h].ret, "RETURN_APPROVED", "REFUND_INITIATED")
    /\ Goto(h, "mail")
    /\ UNCHANGED <<mailed, moved, crashes>>

\* Another request was faster: ConflictError.
LoseInitiation(h) ==
    /\ At(h, "initiate")
    /\ status[handler[h].ret] # "RETURN_APPROVED"
    /\ Finish(h)
    /\ UNCHANGED <<rows, mailed, moved, crashes>>

\* MarkReturnRefundedUseCase: staff say that the money was moved by hand.
MarkReturnRefunded(h, r) ==
    /\ Free(h)
    /\ TransitionStatus(r, "REFUND_INITIATED", "REFUNDED")
    /\ Start(h, "completeRow", "REFUND_COMPLETED", r)
    /\ UNCHANGED <<mailed, moved, crashes>>

-----------------------------------------------------------------------------
(* IssueRefundForReturnUseCase, on behalf of the handler that initiated it   *)

\* An existing row answers for the refund; without one, a captured Razorpay
\* payment is refunded and anything else is "not-applicable".
DecideReturnRefund(h) ==
    LET r == handler[h].ret
        refundable == provider = "RAZORPAY" /\ payment = "CAPTURED"
    IN
    /\ At(h, "decide")
    /\ CASE refundRow[r] = "NONE" -> Goto(h, IF refundable THEN "gateway" ELSE "recordInitiated")
         [] refundRow[r] = "COMPLETED" -> Goto(h, "finalize")
         [] OTHER -> Finish(h)
    /\ UNCHANGED <<rows, mailed, moved, crashes>>

\* Mutant: nothing is recorded for a return the gateway cannot refund.
SkipInitiatedRow(h) ==
    /\ At(h, "recordInitiated")
    /\ Finish(h)
    /\ UNCHANGED <<rows, mailed, moved, crashes>>

RecordNotApplicable(h) ==
    /\ At(h, "recordInitiated")
    /\ refundRow' = [refundRow EXCEPT ![handler[h].ret] = "INITIATED"]
    /\ Finish(h)
    /\ UNCHANGED <<status, lines, provider, payment, flag, mailed, moved, crashes>>

\* Razorpay refunds and says so, refuses, or refunds and the answer is lost.
GatewayRefundsReturn(h) ==
    /\ At(h, "gateway")
    /\ \/ /\ moved' = [moved EXCEPT ![handler[h].ret] = @ + 1]
          /\ \E next \in {"record", "recordFailure"} : Goto(h, next)
       \/ Goto(h, "recordFailure") /\ UNCHANGED moved
    /\ UNCHANGED <<rows, mailed, crashes>>

\* The COMPLETED row, or - when writing it throws - the catch's FAILED row.
RecordReturnRefund(h) ==
    /\ At(h, "record")
    /\ \/ /\ refundRow' = [refundRow EXCEPT ![handler[h].ret] = "COMPLETED"]
          /\ Goto(h, "markPayment")
       \/ Goto(h, "recordFailure") /\ UNCHANGED refundRow
    /\ UNCHANGED <<status, lines, provider, payment, flag, mailed, moved, crashes>>

\* Mutant: the customer is told that a refund which failed is complete.
AnnounceFailedRefund(h) ==
    LET r == handler[h].ret IN
    /\ At(h, "recordFailure")
    /\ refundRow' = [refundRow EXCEPT ![r] = "FAILED"]
    /\ Start(h, "mail", "REFUND_COMPLETED", r)
    /\ UNCHANGED <<status, lines, provider, payment, flag, mailed, moved, crashes>>

RecordReturnFailure(h) ==
    /\ At(h, "recordFailure")
    /\ refundRow' = [refundRow EXCEPT ![handler[h].ret] = "FAILED"]
    /\ Finish(h)
    /\ UNCHANGED <<status, lines, provider, payment, flag, mailed, moved, crashes>>

\* markCompletedByReturnId: an updateMany, which may well match no row.
CompleteRefundRow(h) ==
    LET r == handler[h].ret IN
    /\ At(h, "completeRow")
    /\ refundRow' = [refundRow EXCEPT ![r] = IF @ = "NONE" THEN @ ELSE "COMPLETED"]
    /\ Goto(h, "markPayment")
    /\ UNCHANGED <<status, lines, provider, payment, flag, mailed, moved, crashes>>

\* markRefunded, of which a failure is swallowed.
MarkReturnPaymentRefunded(h) ==
    /\ At(h, "markPayment")
    /\ payment' \in {payment, "REFUNDED"}
    /\ Goto(h, IF handler[h].mail = "REFUND_COMPLETED" THEN "count" ELSE "finalize")
    /\ UNCHANGED <<status, lines, refundRow, provider, flag, mailed, moved, crashes>>

\* The issuing handler's own REFUND_INITIATED -> REFUNDED; that it may match
\* no row is not looked at.
FinalizeReturn(h) ==
    LET r == handler[h].ret IN
    /\ At(h, "finalize")
    /\ status' = [status EXCEPT ![r] = IF @ = "REFUND_INITIATED" THEN "REFUNDED" ELSE @]
    /\ Start(h, "count", "REFUND_COMPLETED", r)
    /\ UNCHANGED <<lines, refundRow, provider, payment, flag, mailed, moved, crashes>>

-----------------------------------------------------------------------------
(* What every resolution ends with *)

CountActive(h) ==
    /\ At(h, "count")
    /\ Goto(h, IF Active = {} THEN "clear" ELSE "mail")
    /\ UNCHANGED <<rows, mailed, moved, crashes>>

ClearActiveFlag(h) ==
    /\ At(h, "clear")
    /\ flag' = FALSE
    /\ Goto(h, "mail")
    /\ UNCHANGED <<status, lines, refundRow, provider, payment, mailed, moved, crashes>>

\* These e-mails have no dedupeKey: each call is a row.  Enqueuing may fail,
\* which nothing else depends on.
EnqueueMail(h) ==
    LET r == handler[h].ret
        t == handler[h].mail
    IN
    /\ At(h, "mail")
    /\ \/ mailed' = [mailed EXCEPT ![r][t] = @ + 1]
       \/ UNCHANGED mailed
    /\ IF t = "REFUND_INITIATED" THEN Goto(h, "decide") ELSE Finish(h)
    /\ UNCHANGED <<rows, moved, crashes>>

\* The process dies, or a write throws where nobody catches it.
CrashInReturn(h) ==
    /\ ~Free(h)
    /\ crashes < MaxCrashes
    /\ crashes' = crashes + 1
    /\ Finish(h)
    /\ UNCHANGED <<rows, mailed, moved>>

-----------------------------------------------------------------------------
Init ==
    /\ status = [r \in Returns |-> "NOT_REQUESTED"]
    /\ lines = [r \in Returns |-> <<>>]
    /\ refundRow = [r \in Returns |-> "NONE"]
    /\ provider \in {"RAZORPAY", "COD"}
    /\ payment = "CAPTURED"
    /\ flag = FALSE
    /\ mailed = [r \in Returns |-> [t \in MailTypes |-> 0]]
    /\ handler = [h \in Handlers |-> Idle]
    /\ moved = [r \in Returns |-> 0]
    /\ crashes = 0

CustomerStep(h) ==
    \/ \E ls \in Requests : AskForReturn(h, ls)
    \/ \E r \in Returns : CreateReturn(h, r)
    \/ SetActiveFlag(h)

StaffStep(h) ==
    \/ \E r \in Returns :
        ApproveReturn(h, r) \/ RejectReturn(h, r) \/ ReadApprovedReturn(h, r)
            \/ MarkReturnRefunded(h, r)
    \/ InitiateRefund(h) \/ LoseInitiation(h) \/ FinalizeReturn(h)
    \/ DecideReturnRefund(h) \/ RecordNotApplicable(h) \/ GatewayRefundsReturn(h)
    \/ RecordReturnRefund(h) \/ RecordReturnFailure(h) \/ CompleteRefundRow(h)
    \/ MarkReturnPaymentRefunded(h) \/ CountActive(h) \/ ClearActiveFlag(h)

Next ==
    \/ \E h \in Customers : CustomerStep(h)
    \/ \E h \in Staff : StaffStep(h)
    \/ \E h \in Handlers : EnqueueMail(h) \/ CrashInReturn(h)

Spec == Init /\ [][Next]_vars

-----------------------------------------------------------------------------
(* Properties *)

Refunding == {"REFUND_INITIATED", "REFUNDED"}
PastInitiation(h) ==
    /\ handler[h] \in Working
    /\ handler[h].mail \in {"REFUND_INITIATED", "REFUND_COMPLETED"}
    /\ handler[h].pc # "initiate"

\* Every column keeps its type, and a handler past the transition of a refund
\* works on a return whose refund was initiated.
TypeOK ==
    /\ status \in [Returns -> Statuses]
    /\ lines \in [Returns -> Requests \cup {<<>>}]
    /\ refundRow \in [Returns -> {"NONE", "INITIATED", "COMPLETED", "FAILED"}]
    /\ provider \in {"RAZORPAY", "COD"}
    /\ payment \in {"CAPTURED", "REFUNDED"}
    /\ flag \in BOOLEAN
    /\ mailed \in [Returns -> [MailTypes -> Nat]]
    /\ handler \in [Handlers -> {Idle} \cup Asking \cup Working]
    /\ \A h \in Handlers : PastInitiation(h) => status[handler[h].ret] \in Refunding
    /\ moved \in [Returns -> Nat]
    /\ crashes \in 0..MaxCrashes

\* The quantity claimed by returns that were not rejected never exceeds what was
\* ordered, whatever staff decide meanwhile: "a duplicate/over-quantity request
\* is rejected by the exact same arithmetic" (resolve-return-eligibility.ts).
ClaimsWithinOrdered ==
    \A i \in Items : Claimed(i) <= Ordered[i]

\* Money goes back through Razorpay at most once per return, and only for one
\* that was approved: two clicks on "issue refund", a click on "mark refunded"
\* and a crash in between never make it two.
RefundedAtMostOnce ==
    \A r \in Returns :
        /\ moved[r] <= 1
        /\ moved[r] > 0 => status[r] \in Refunding

\* What the statuses an e-mail about a return speaks of can have become.
Since ==
    [RETURN_REQUESTED |-> Statuses \ {"NOT_REQUESTED"},
     RETURN_APPROVED  |-> {"RETURN_APPROVED", "REFUND_INITIATED", "REFUNDED"},
     RETURN_REJECTED  |-> {"RETURN_REJECTED"},
     REFUND_INITIATED |-> Refunding,
     REFUND_COMPLETED |-> {"REFUNDED"}]

\* No e-mail about a return says what did not happen - no refund is announced as
\* completed on a gateway failure - and each decision is announced once, by the
\* request that made it.
MailTellsTheTruth ==
    \A r \in Returns : \A t \in MailTypes :
        /\ mailed[r][t] > 0 => status[r] \in Since[t]
        /\ t # "REFUND_COMPLETED" => mailed[r][t] <= 1

\* The return life cycle of plan.md, section 4.
ReturnLifecycle ==
    {<<"NOT_REQUESTED", "RETURN_REQUESTED">>, <<"RETURN_REQUESTED", "RETURN_APPROVED">>,
     <<"RETURN_REQUESTED", "RETURN_REJECTED">>, <<"RETURN_APPROVED", "REFUND_INITIATED">>,
     <<"REFUND_INITIATED", "REFUNDED">>}

\* Returns only move along it: one that was rejected is never approved or
\* refunded afterwards, however the staff's clicks interleave.
ReturnsMoveAlongLifecycle ==
    [][\A r \in Returns :
        status'[r] # status[r] => <<status[r], status'[r]>> \in ReturnLifecycle]_vars

\* A refund in flight "needs *some* Refund row to point to" (the comment of
\* IssueRefundForReturnUseCase).  One that is initiated without a row, and
\* that nobody is issuing any more, can never be issued again: only a handler
\* that died can leave one, and no more than the one return it worked on.
Issuing(h, r) ==
    /\ handler[h] \in Working
    /\ handler[h].ret = r
    /\ handler[h].mail = "REFUND_INITIATED"
    /\ handler[h].pc # "initiate"

Orphaned ==
    {r \in Returns :
        /\ status[r] = "REFUND_INITIATED" /\ refundRow[r] = "NONE"
        /\ \A h \in Staff : ~Issuing(h, r)}

OrphansPerCrash ==
    Cardinality(Orphaned) <= crashes

\* A refund row left INITIATED is one no gateway could have served: the order
\* was paid cash on delivery (the comment of MarkReturnRefundedUseCase).
OnlyCashWaitsForStaff ==
    \A r \in Returns : refundRow[r] = "INITIATED" => provider = "COD"
=============================================================================
