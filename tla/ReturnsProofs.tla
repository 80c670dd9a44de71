--------------------------- MODULE ReturnsProofs ---------------------------
(* Proofs about Returns, for any number of returns, requests and staff.      *)
(* Everything rests on one fact: a handler that carries on after a status    *)
(* transition still finds the return in a status that follows from it        *)
(* (Truthful).  So the handler that moved a return to REFUND_INITIATED is    *)
(* the only one that ever did, and nobody else is on the way to the gateway. *)
(* Then the refund row every initiated refund gets, unless a handler dies.   *)
EXTENDS Returns, FiniteSetTheorems, TLAPS

-----------------------------------------------------------------------------
(* The inductive invariant *)

Typed ==
    /\ status \in [Returns -> Statuses]
    /\ lines \in [Returns -> Requests \cup {<<>>}]
    /\ refundRow \in [Returns -> {"NONE", "INITIATED", "COMPLETED", "FAILED"}]
    /\ provider \in {"RAZORPAY", "COD"}
    /\ payment \in {"CAPTURED", "REFUNDED"}
    /\ flag \in BOOLEAN
    /\ mailed \in [Returns -> [MailTypes -> Nat]]
    /\ handler \in [Handlers -> {Idle} \cup Asking \cup Working]
    /\ moved \in [Returns -> Nat]
    /\ crashes \in 0..MaxCrashes

\* h has made the transition that its e-mail is about.
Past(h) == handler[h] \in Working /\ handler[h].pc # "initiate"

Truthful ==
    \A h \in Handlers : Past(h) => status[handler[h].ret] \in Since[handler[h].mail]

\* One handler at most took the return to REFUND_INITIATED, and until it has
\* been to the gateway no money has moved.
OneIssuer ==
    \A r \in Returns : \A g, h \in Handlers : Issuing(g, r) /\ Issuing(h, r) => g = h
BeforeGateway == {"mail", "decide", "gateway"}
NotYetMoved ==
    \A r \in Returns : \A h \in Handlers :
        Issuing(h, r) /\ handler[h].pc \in BeforeGateway => moved[r] = 0
MoneyInv == OneIssuer /\ NotYetMoved /\ RefundedAtMostOnce

\* At most one handler owes the e-mail about a decision, which nobody has sent.
OwesMail(h, r, t) ==
    /\ handler[h] \in Working
    /\ handler[h].ret = r
    /\ handler[h].mail = t
    /\ handler[h].pc \in {"flag", "count", "clear", "mail"}
Decisions == MailTypes \ {"REFUND_COMPLETED"}
OneSender ==
    \A r \in Returns : \A t \in Decisions : \A g, h \in Handlers :
        OwesMail(g, r, t) /\ OwesMail(h, r, t) => g = h
NotYetSent ==
    \A r \in Returns : \A t \in Decisions : \A h \in Handlers :
        OwesMail(h, r, t) => mailed[r][t] = 0
MailInv == OneSender /\ NotYetSent /\ MailTellsTheTruth

IInv == Typed /\ Truthful

-----------------------------------------------------------------------------
(* Statuses *)

LEMMA StatusFacts ==
    /\ \A t \in MailTypes : Since[t] \subseteq Statuses
    /\ \A t \in MailTypes : \A e \in ReturnLifecycle : e[1] \in Since[t] => e[2] \in Since[t]
  BY DEF MailTypes, Since, Statuses, Refunding, ReturnLifecycle

\* A handler that is at one of the stages past asking has a return and an e-mail.
LEMMA AtStage ==
    ASSUME Typed, NEW h \in Handlers, handler[h].pc \notin {"idle", "create"}
    PROVE  /\ handler[h] \in Working
           /\ handler[h].ret \in Returns
           /\ handler[h].mail \in MailTypes
  BY DEF Typed, Idle, Asking, Working

LEMMA AtCreate ==
    ASSUME Typed, NEW h \in Handlers, At(h, "create")
    PROVE  handler[h] \in Asking
<1>1. handler[h] \in {Idle} \cup Asking \cup Working
    BY DEF Typed
<1>2. handler[h] # Idle
    BY DEF At, Idle
<1>3. handler[h] \notin Working
    BY DEF At, Working, Owing
<1> QED
    BY <1>1, <1>2, <1>3

LEMMA InitInvariant ==
    Init => IInv
<1> SUFFICES ASSUME Init
             PROVE  IInv
    OBVIOUS
<1>1. \A h \in Handlers : handler[h] = Idle
    BY DEF Init
<1>2. Truthful
    BY <1>1 DEF Truthful, Past, Idle, Working
<1>3. crashes \in 0..MaxCrashes
    BY ReturnsAssumption DEF Init
<1>4. mailed \in [Returns -> [MailTypes -> Nat]]
    BY DEF Init
<1>5. handler \in [Handlers -> {Idle} \cup Asking \cup Working]
    BY DEF Init
<1> QED
    BY <1>2, <1>3, <1>4, <1>5 DEF Init, IInv, Typed, Statuses

-----------------------------------------------------------------------------
(* Handlers *)

\* Starting, advancing or finishing a handler keeps its record well formed and
\* leaves the other handlers alone.
LEMMA StartType ==
    ASSUME Typed, NEW h \in Handlers, NEW r \in Returns, NEW t \in MailTypes,
           NEW pc \in DOMAIN Owing, t \in Owing[pc], Start(h, pc, t, r)
    PROVE  /\ handler' \in [Handlers -> {Idle} \cup Asking \cup Working]
           /\ handler'[h] = [pc |-> pc, mail |-> t, ret |-> r]
           /\ \A g \in Handlers \ {h} : handler'[g] = handler[g]
<1>1. [pc |-> pc, mail |-> t, ret |-> r] \in Working
    BY DEF Working
<1> QED
    BY <1>1 DEF Start, Typed

LEMMA GotoType ==
    ASSUME Typed, NEW h \in Handlers, handler[h] \in Working,
           NEW pc \in DOMAIN Owing, handler[h].mail \in Owing[pc], Goto(h, pc)
    PROVE  /\ handler' \in [Handlers -> {Idle} \cup Asking \cup Working]
           /\ handler'[h] = [pc |-> pc, mail |-> handler[h].mail, ret |-> handler[h].ret]
           /\ \A g \in Handlers \ {h} : handler'[g] = handler[g]
<1>1. handler'[h] = [pc |-> pc, mail |-> handler[h].mail, ret |-> handler[h].ret]
    BY DEF Goto, Typed, Working
<1>2. handler'[h] \in Working
    BY <1>1 DEF Working
<1> QED
    BY <1>1, <1>2 DEF Goto, Typed

LEMMA FinishType ==
    ASSUME Typed, NEW h \in Handlers, Finish(h)
    PROVE  /\ handler' \in [Handlers -> {Idle} \cup Asking \cup Working]
           /\ handler'[h] = Idle
           /\ \A g \in Handlers \ {h} : handler'[g] = handler[g]
  BY DEF Finish, Typed

-----------------------------------------------------------------------------
(* One step: types, statuses and the handler that makes it *)

StatusMoves ==
    \A r \in Returns :
        status'[r] # status[r] => <<status[r], status'[r]>> \in ReturnLifecycle
Alone(h) == \A g \in Handlers \ {h} : handler'[g] = handler[g]
Own(h) == Past(h)' => status'[handler'[h].ret] \in Since[handler'[h].mail]
GoodStep(h) == Typed' /\ StatusMoves /\ Alone(h) /\ Own(h)

LEMMA CustomerGoodStep ==
    ASSUME IInv, NEW h \in Handlers, CustomerStep(h)
    PROVE  GoodStep(h)
<1> USE DEF IInv, GoodStep
<1>1. ASSUME NEW ls \in Requests, AskForReturn(h, ls)
      PROVE  GoodStep(h)
    <2>1. [pc |-> "create", lines |-> ls] \in Asking
        BY DEF Asking
    <2>2. handler'[h] = [pc |-> "create", lines |-> ls] /\ Alone(h)
        BY <1>1 DEF AskForReturn, Typed, Alone
    <2>3. Typed'
        BY <1>1, <2>1 DEF AskForReturn, Typed, rows
    <2>4. ~Past(h)'
        BY <2>2 DEF Past, Working
    <2> QED
        BY <1>1, <2>2, <2>3, <2>4 DEF AskForReturn, rows, StatusMoves, Own
<1>2. ASSUME NEW r \in Returns, CreateReturn(h, r)
      PROVE  GoodStep(h)
    <2>1. handler[h].lines \in Requests
        BY <1>2, AtCreate DEF CreateReturn, Asking
    <2>2. /\ handler' \in [Handlers -> {Idle} \cup Asking \cup Working]
          /\ handler'[h] = [pc |-> "flag", mail |-> "RETURN_REQUESTED", ret |-> r]
          /\ Alone(h)
        BY <1>2, StartType DEF CreateReturn, MailTypes, Owing, Alone
    <2>3. Typed'
        BY <1>2, <2>1, <2>2 DEF CreateReturn, Typed, Statuses
    <2>4. status'[r] = "RETURN_REQUESTED" /\ StatusMoves
        BY <1>2 DEF CreateReturn, Typed, StatusMoves, ReturnLifecycle
    <2> QED
        BY <2>2, <2>3, <2>4 DEF Own, Since, Statuses
<1>3. ASSUME SetActiveFlag(h)
      PROVE  GoodStep(h)
    <2>1. handler[h] \in Working /\ handler[h].pc = "flag"
        BY <1>3, AtStage DEF SetActiveFlag, At
    <2>2. /\ handler' \in [Handlers -> {Idle} \cup Asking \cup Working]
          /\ handler'[h] = [pc |-> "mail", mail |-> handler[h].mail, ret |-> handler[h].ret]
          /\ Alone(h)
        BY <1>3, <2>1, GotoType DEF SetActiveFlag, Working, Owing, Alone
    <2>3. Typed'
        BY <1>3, <2>2 DEF SetActiveFlag, Typed
    <2> QED
        BY <1>3, <2>1, <2>2, <2>3 DEF SetActiveFlag, Own, Truthful, Past, StatusMoves
<1> QED
    BY <1>1, <1>2, <1>3 DEF CustomerStep

\* Advancing past the transition: the return and the e-mail stay the same.
LEMMA Advance ==
    ASSUME IInv, NEW h \in Handlers, handler[h] \in Working, handler[h].pc # "initiate",
           NEW pc \in DOMAIN Owing, handler[h].mail \in Owing[pc],
           Goto(h, pc), UNCHANGED status
    PROVE  /\ handler' \in [Handlers -> {Idle} \cup Asking \cup Working]
           /\ handler'[h] = [pc |-> pc, mail |-> handler[h].mail, ret |-> handler[h].ret]
           /\ StatusMoves /\ Alone(h) /\ Own(h)
<1>1. /\ handler' \in [Handlers -> {Idle} \cup Asking \cup Working]
      /\ handler'[h] = [pc |-> pc, mail |-> handler[h].mail, ret |-> handler[h].ret]
      /\ Alone(h)
    BY GotoType DEF IInv, Alone
<1> QED
    BY <1>1 DEF IInv, StatusMoves, Own, Truthful, Past

LEMMA Leave ==
    ASSUME IInv, NEW h \in Handlers, Finish(h), UNCHANGED status
    PROVE  /\ handler' \in [Handlers -> {Idle} \cup Asking \cup Working]
           /\ handler'[h] = Idle
           /\ StatusMoves /\ Alone(h) /\ Own(h)
<1>1. /\ handler' \in [Handlers -> {Idle} \cup Asking \cup Working]
      /\ handler'[h] = Idle
      /\ Alone(h)
    BY FinishType DEF IInv, Alone
<1>2. ~Past(h)'
    BY <1>1 DEF Past, Idle, Working
<1> QED
    BY <1>1, <1>2 DEF StatusMoves, Own

\* A transition by a handler that was free: it is in the life cycle, and the
\* e-mail owed is about the status just written.
LEMMA Transition ==
    ASSUME IInv, NEW h \in Handlers, NEW r \in Returns, NEW t \in MailTypes,
           NEW e \in ReturnLifecycle, e[2] \in Since[t],
           NEW pc \in DOMAIN Owing, t \in Owing[pc],
           TransitionStatus(r, e[1], e[2]), Start(h, pc, t, r), UNCHANGED <<mailed, moved, crashes>>
    PROVE  GoodStep(h)
<1>1. /\ handler' \in [Handlers -> {Idle} \cup Asking \cup Working]
      /\ handler'[h] = [pc |-> pc, mail |-> t, ret |-> r]
      /\ Alone(h)
    BY StartType DEF IInv, Alone
<1>2. e[2] \in Statuses
    BY StatusFacts
<1>3. status'[r] = e[2] /\ StatusMoves
    BY DEF TransitionStatus, IInv, Typed, StatusMoves, ReturnLifecycle
<1>4. Typed'
    BY <1>1, <1>2 DEF TransitionStatus, IInv, Typed
<1> QED
    BY <1>1, <1>3, <1>4 DEF GoodStep, Own

\* Staff decide on a return.
LEMMA DecisionGoodStep ==
    ASSUME IInv, NEW h \in Handlers, NEW r \in Returns,
           \/ ApproveReturn(h, r) \/ RejectReturn(h, r) \/ MarkReturnRefunded(h, r)
    PROVE  GoodStep(h)
<1>1. CASE ApproveReturn(h, r)
    <2> DEFINE e == <<"RETURN_REQUESTED", "RETURN_APPROVED">>
    <2>1. e \in ReturnLifecycle /\ e[2] \in Since["RETURN_APPROVED"] 
        BY DEF ReturnLifecycle, Since
    <2>2. "RETURN_APPROVED" \in MailTypes /\ "mail" \in DOMAIN Owing /\ "RETURN_APPROVED" \in Owing["mail"]
        BY DEF MailTypes, Owing
    <2> QED
        BY <1>1, <2>1, <2>2, Transition DEF ApproveReturn
<1>2. CASE RejectReturn(h, r)
    <2> DEFINE e == <<"RETURN_REQUESTED", "RETURN_REJECTED">>
    <2>1. e \in ReturnLifecycle /\ e[2] \in Since["RETURN_REJECTED"] 
        BY DEF ReturnLifecycle, Since
    <2>2. "RETURN_REJECTED" \in MailTypes /\ "count" \in DOMAIN Owing /\ "RETURN_REJECTED" \in Owing["count"]
        BY DEF MailTypes, Owing
    <2> QED
        BY <1>2, <2>1, <2>2, Transition DEF RejectReturn
<1>3. CASE MarkReturnRefunded(h, r)
    <2> DEFINE e == <<"REFUND_INITIATED", "REFUNDED">>
    <2>1. e \in ReturnLifecycle /\ e[2] \in Since["REFUND_COMPLETED"] 
        BY DEF ReturnLifecycle, Since
    <2>2. "REFUND_COMPLETED" \in MailTypes /\ "completeRow" \in DOMAIN Owing /\ "REFUND_COMPLETED" \in Owing["completeRow"]
        BY DEF MailTypes, Owing
    <2> QED
        BY <1>3, <2>1, <2>2, Transition DEF MarkReturnRefunded
<1> QED
    BY <1>1, <1>2, <1>3

\* The handler that issues the refund reads, and moves the return itself.
LEMMA InitiationGoodStep ==
    ASSUME IInv, NEW h \in Handlers,
           \/ \E r \in Returns : ReadApprovedReturn(h, r)
           \/ InitiateRefund(h) \/ LoseInitiation(h) \/ FinalizeReturn(h)
    PROVE  GoodStep(h)
<1> USE DEF IInv, GoodStep
<1>1. ASSUME NEW r \in Returns, ReadApprovedReturn(h, r)
      PROVE  GoodStep(h)
    <2>1. /\ handler' \in [Handlers -> {Idle} \cup Asking \cup Working]
          /\ handler'[h] = [pc |-> "initiate", mail |-> "REFUND_INITIATED", ret |-> r]
          /\ Alone(h)
        BY <1>1, StartType DEF ReadApprovedReturn, MailTypes, Owing, Alone
    <2>2. Typed' /\ ~Past(h)'
        BY <1>1, <2>1 DEF ReadApprovedReturn, rows, Typed, Past
    <2> QED
        BY <1>1, <2>1, <2>2 DEF ReadApprovedReturn, rows, StatusMoves, Own
<1>2. ASSUME InitiateRefund(h)
      PROVE  GoodStep(h)
    <2> DEFINE r == handler[h].ret
    <2>1. handler[h] \in Working /\ r \in Returns /\ handler[h].pc = "initiate"
        BY <1>2, AtStage DEF InitiateRefund, At
    <2>2. /\ handler' \in [Handlers -> {Idle} \cup Asking \cup Working]
          /\ handler'[h] = [pc |-> "mail", mail |-> handler[h].mail, ret |-> r]
          /\ Alone(h)
        BY <1>2, <2>1, GotoType DEF InitiateRefund, Working, Owing, Alone
    <2>3. handler[h].mail = "REFUND_INITIATED"
        BY <2>1 DEF Working, Owing
    <2>4. status'[r] = "REFUND_INITIATED" /\ StatusMoves
        BY <1>2, <2>1 DEF InitiateRefund, TransitionStatus, Typed, StatusMoves, ReturnLifecycle
    <2>5. Typed'
        BY <1>2, <2>2 DEF InitiateRefund, TransitionStatus, Typed, Statuses
    <2> QED
        BY <2>2, <2>3, <2>4, <2>5 DEF Own, Since, Refunding
<1>3. ASSUME LoseInitiation(h)
      PROVE  GoodStep(h)
    <2>1. Finish(h) /\ UNCHANGED status
        BY <1>3 DEF LoseInitiation, rows
    <2>2. Typed'
        BY <1>3, <2>1, Leave DEF LoseInitiation, rows, Typed
    <2> QED
        BY <2>1, <2>2, Leave
<1>4. ASSUME FinalizeReturn(h)
      PROVE  GoodStep(h)
    <2> DEFINE r == handler[h].ret
    <2>1. handler[h] \in Working /\ r \in Returns /\ handler[h].pc = "finalize"
        BY <1>4, AtStage DEF FinalizeReturn, At
    <2>2. /\ handler' \in [Handlers -> {Idle} \cup Asking \cup Working]
          /\ handler'[h] = [pc |-> "count", mail |-> "REFUND_COMPLETED", ret |-> r]
          /\ Alone(h)
        BY <1>4, <2>1, StartType DEF FinalizeReturn, MailTypes, Owing, Alone
    <2>3. handler[h].mail = "REFUND_INITIATED"
        BY <2>1 DEF Working, Owing
    <2>4. status[r] \in Refunding
        BY <2>1, <2>3 DEF Truthful, Past, Since
    <2>5. status'[r] = "REFUNDED" /\ StatusMoves
        BY <1>4, <2>1, <2>4 DEF FinalizeReturn, Typed, Refunding, StatusMoves, ReturnLifecycle
    <2>6. Typed'
        BY <1>4, <2>1, <2>2 DEF FinalizeReturn, Typed, Statuses
    <2> QED
        BY <2>2, <2>5, <2>6 DEF Own, Since
<1> QED
    BY <1>1, <1>2, <1>3, <1>4

\* The stages on behalf of an initiated refund, and after a resolution.
LEMMA StageGoodStep ==
    ASSUME IInv, NEW h \in Handlers,
           \/ DecideReturnRefund(h) \/ RecordNotApplicable(h) \/ GatewayRefundsReturn(h)
           \/ RecordReturnRefund(h) \/ RecordReturnFailure(h) \/ CompleteRefundRow(h)
           \/ MarkReturnPaymentRefunded(h) \/ CountActive(h) \/ ClearActiveFlag(h)
    PROVE  GoodStep(h)
<1> USE DEF IInv, GoodStep, At
<1>1. handler[h] \in Working /\ handler[h].pc # "initiate" /\ handler[h].ret \in Returns
    BY AtStage DEF DecideReturnRefund, RecordNotApplicable, GatewayRefundsReturn, RecordReturnRefund,
        RecordReturnFailure, CompleteRefundRow, MarkReturnPaymentRefunded, CountActive, ClearActiveFlag
<1>2. handler[h].mail \in Owing[handler[h].pc]
    BY <1>1 DEF Working
<1>3. CASE DecideReturnRefund(h)
    <2>1. UNCHANGED status
        BY <1>3 DEF DecideReturnRefund, rows
    <2>2. CASE \E pc \in {"gateway", "recordInitiated", "finalize"} : Goto(h, pc)
        <3>1. PICK pc \in {"gateway", "recordInitiated", "finalize"} : Goto(h, pc)
            BY <2>2
        <3>2. pc \in DOMAIN Owing /\ handler[h].mail \in Owing[pc]
            BY <1>2, <1>3, <3>1 DEF DecideReturnRefund, Owing
        <3> QED
            BY <1>1, <1>3, <2>1, <3>1, <3>2, Advance DEF DecideReturnRefund, rows, Typed
    <2>3. CASE Finish(h)
        BY <1>3, <2>1, <2>3, Leave DEF DecideReturnRefund, rows, Typed
    <2> QED
        BY <1>3, <2>2, <2>3 DEF DecideReturnRefund
<1>4. CASE RecordNotApplicable(h) \/ RecordReturnFailure(h)
    <2>1. Finish(h) /\ UNCHANGED status
        BY <1>4 DEF RecordNotApplicable, RecordReturnFailure
    <2>2. Typed'
        BY <1>4, <2>1, Leave DEF RecordNotApplicable, RecordReturnFailure, Typed
    <2> QED
        BY <2>1, <2>2, Leave
<1>5. CASE GatewayRefundsReturn(h)
    <2>1. UNCHANGED status
        BY <1>5 DEF GatewayRefundsReturn, rows
    <2>2. PICK pc \in {"record", "recordFailure"} : Goto(h, pc)
        BY <1>5 DEF GatewayRefundsReturn
    <2>3. pc \in DOMAIN Owing /\ handler[h].mail \in Owing[pc]
        BY <1>2, <1>5, <2>2 DEF GatewayRefundsReturn, Owing
    <2>4. moved' \in [Returns -> Nat]
        BY <1>1, <1>5 DEF GatewayRefundsReturn, Typed
    <2> QED
        BY <1>1, <1>5, <2>1, <2>2, <2>3, <2>4, Advance DEF GatewayRefundsReturn, rows, Typed
<1>6. CASE RecordReturnRefund(h)
    <2>1. PICK pc \in {"markPayment", "recordFailure"} : Goto(h, pc)
        BY <1>6 DEF RecordReturnRefund
    <2>2. pc \in DOMAIN Owing /\ handler[h].mail \in Owing[pc]
        BY <1>2, <1>6, <2>1 DEF RecordReturnRefund, Owing
    <2>3. refundRow' \in [Returns -> {"NONE", "INITIATED", "COMPLETED", "FAILED"}]
        BY <1>6 DEF RecordReturnRefund, Typed
    <2> QED
        BY <1>1, <1>6, <2>1, <2>2, <2>3, Advance DEF RecordReturnRefund, Typed
<1>7. CASE CompleteRefundRow(h)
    <2>1. "markPayment" \in DOMAIN Owing /\ handler[h].mail \in Owing["markPayment"]
        BY <1>2, <1>7 DEF CompleteRefundRow, Owing
    <2>2. refundRow' \in [Returns -> {"NONE", "INITIATED", "COMPLETED", "FAILED"}]
        BY <1>7 DEF CompleteRefundRow, Typed
    <2> QED
        BY <1>1, <1>7, <2>1, <2>2, Advance DEF CompleteRefundRow, Typed
<1>8. CASE MarkReturnPaymentRefunded(h)
    <2>1. PICK pc \in {"count", "finalize"} :
              Goto(h, pc) /\ pc = IF handler[h].mail = "REFUND_COMPLETED" THEN "count" ELSE "finalize"
        BY <1>8 DEF MarkReturnPaymentRefunded
    <2>2. pc \in DOMAIN Owing /\ handler[h].mail \in Owing[pc]
        BY <1>2, <1>8, <2>1 DEF MarkReturnPaymentRefunded, Owing
    <2> QED
        BY <1>1, <1>8, <2>1, <2>2, Advance DEF MarkReturnPaymentRefunded, Typed
<1>9. CASE CountActive(h)
    <2>1. PICK pc \in {"clear", "mail"} : Goto(h, pc)
        BY <1>9 DEF CountActive
    <2>2. pc \in DOMAIN Owing /\ handler[h].mail \in Owing[pc]
        BY <1>1, <1>2, <1>9, <2>1 DEF CountActive, Owing, MailTypes
    <2> QED
        BY <1>1, <1>9, <2>1, <2>2, Advance DEF CountActive, rows, Typed
<1>10. CASE ClearActiveFlag(h)
    <2>1. "mail" \in DOMAIN Owing /\ handler[h].mail \in Owing["mail"]
        BY <1>2, <1>10 DEF ClearActiveFlag, Owing, MailTypes
    <2> QED
        BY <1>1, <1>10, <2>1, Advance DEF ClearActiveFlag, Typed
<1> QED
    BY <1>3, <1>4, <1>5, <1>6, <1>7, <1>8, <1>9, <1>10

\* Enqueuing the e-mail, and dying.
LEMMA EndGoodStep ==
    ASSUME IInv, NEW h \in Handlers, EnqueueMail(h) \/ CrashInReturn(h)
    PROVE  GoodStep(h)
<1> USE DEF IInv, GoodStep
<1>1. CASE EnqueueMail(h)
    <2> DEFINE r == handler[h].ret
               t == handler[h].mail
    <2>1. handler[h] \in Working /\ handler[h].pc = "mail" /\ r \in Returns /\ t \in MailTypes
        BY <1>1, AtStage DEF EnqueueMail, At
    <2>2. UNCHANGED status
        BY <1>1 DEF EnqueueMail, rows
    <2>3. mailed' \in [Returns -> [MailTypes -> Nat]]
        <3>1. CASE mailed' = [mailed EXCEPT ![r][t] = @ + 1]
            BY <2>1, <3>1 DEF Typed
        <3> QED
            BY <1>1, <3>1 DEF EnqueueMail, Typed
    <2>4. CASE t = "REFUND_INITIATED"
        <3>1. "decide" \in DOMAIN Owing /\ t \in Owing["decide"]
            BY <2>4 DEF Owing
        <3> QED
            BY <1>1, <2>1, <2>2, <2>3, <2>4, <3>1, Advance DEF EnqueueMail, rows, Typed
    <2>5. CASE t # "REFUND_INITIATED"
        BY <1>1, <2>2, <2>3, <2>5, Leave DEF EnqueueMail, rows, Typed
    <2> QED
        BY <2>4, <2>5
<1>2. CASE CrashInReturn(h)
    <2>1. crashes' \in 0..MaxCrashes
        BY <1>2, ReturnsAssumption DEF CrashInReturn, Typed
    <2> QED
        BY <1>2, <2>1, Leave DEF CrashInReturn, rows, Typed
<1> QED
    BY <1>1, <1>2

-----------------------------------------------------------------------------
(* Types, truth and the life cycle *)

\* Every step is the step of one handler.
LEMMA SomeHandler ==
    ASSUME IInv, Next
    PROVE  \E h \in Handlers : GoodStep(h)
<1>1. ASSUME NEW h \in Customers, CustomerStep(h)
      PROVE  GoodStep(h)
    BY <1>1, CustomerGoodStep DEF Handlers
<1>2. ASSUME NEW h \in Staff, StaffStep(h)
      PROVE  GoodStep(h)
    BY <1>2, DecisionGoodStep, InitiationGoodStep, StageGoodStep DEF Handlers, StaffStep
<1> QED
    BY <1>1, <1>2, EndGoodStep DEF Next, Handlers

\* A status only grows away from what an e-mail said by the life cycle, which
\* keeps the e-mail true.
LEMMA TruthStays ==
    ASSUME IInv, NEW h \in Handlers, GoodStep(h)
    PROVE  Truthful'
<1> SUFFICES ASSUME NEW g \in Handlers, g # h, Past(g)'
             PROVE  status'[handler'[g].ret] \in Since[handler'[g].mail]
    BY DEF Truthful, GoodStep, Own
<1> DEFINE r == handler[g].ret
           t == handler[g].mail
<1>1. handler'[g] = handler[g] /\ Past(g)
    BY DEF GoodStep, Alone, Past
<1>2. r \in Returns /\ t \in MailTypes
    BY <1>1 DEF Past, Working
<1>3. status[r] \in Since[t]
    BY <1>1 DEF IInv, Truthful
<1>4. status'[r] = status[r] \/ <<status[r], status'[r]>> \in ReturnLifecycle
    BY <1>2 DEF GoodStep, StatusMoves
<1> QED
    BY <1>1, <1>2, <1>3, <1>4, StatusFacts

LEMMA StepInvariant ==
    IInv /\ [Next]_vars => IInv' /\ StatusMoves
<1> SUFFICES ASSUME IInv, [Next]_vars
             PROVE  IInv' /\ StatusMoves
    OBVIOUS
<1>1. CASE Next
    BY <1>1, SomeHandler, TruthStays DEF GoodStep, IInv
<1>2. CASE UNCHANGED vars
    BY <1>2 DEF vars, rows, IInv, Typed, Truthful, Past, StatusMoves
<1> QED
    BY <1>1, <1>2

LEMMA TypesAndTruth ==
    Spec => []IInv
<1> QED
    BY InitInvariant, StepInvariant, PTL DEF Spec

\* Types, and that a handler past a refund's transition still finds the return
\* in REFUND_INITIATED or REFUNDED.
THEOREM TypeCorrect ==
    Spec => []TypeOK
<1>1. IInv => TypeOK
    <2> SUFFICES ASSUME IInv
                 PROVE  TypeOK
        OBVIOUS
    <2>1. ASSUME NEW h \in Handlers, PastInitiation(h)
          PROVE  status[handler[h].ret] \in Refunding
        <3>1. status[handler[h].ret] \in Since[handler[h].mail]
            BY <2>1 DEF PastInitiation, Past, IInv, Truthful
        <3> QED
            BY <2>1, <3>1 DEF PastInitiation, Since, Refunding
    <2> QED
        BY <2>1 DEF IInv, Typed, TypeOK
<1> QED
    BY <1>1, TypesAndTruth, PTL

\* However the clicks of staff interleave and whoever dies, a return only moves
\* along its life cycle: the conditional update of transitionStatus is enough.
THEOREM LifecycleRespected ==
    Spec => ReturnsMoveAlongLifecycle
<1>1. IInv /\ [Next]_vars =>
          [\A r \in Returns :
              status'[r] # status[r] => <<status[r], status'[r]>> \in ReturnLifecycle]_vars
    BY StepInvariant DEF StatusMoves
<1> QED
    BY <1>1, TypesAndTruth, PTL DEF Spec, ReturnsMoveAlongLifecycle

-----------------------------------------------------------------------------
(* Money moves at most once *)

\* A handler that neither becomes an issuer nor goes back before the gateway,
\* and moves no money, keeps the invariant.
LEMMA MoneyStays ==
    ASSUME IInv, MoneyInv, NEW h \in Handlers, GoodStep(h), UNCHANGED moved,
           \A r \in Returns :
               Issuing(h, r)' => /\ Issuing(h, r)
                                 /\ handler'[h].pc \in BeforeGateway => handler[h].pc \in BeforeGateway
    PROVE  MoneyInv'
<1>1. \A r \in Returns : \A g \in Handlers :
          Issuing(g, r)' => /\ Issuing(g, r)
                            /\ handler'[g].pc \in BeforeGateway => handler[g].pc \in BeforeGateway
    <2> TAKE r \in Returns
    <2> TAKE g \in Handlers
    <2>1. CASE g = h
        BY <2>1 DEF Issuing
    <2>2. CASE g # h
        BY <2>2 DEF Issuing, GoodStep, Alone
    <2> QED
        BY <2>1, <2>2
<1>2. OneIssuer'
    BY <1>1 DEF MoneyInv, OneIssuer
<1>3. NotYetMoved'
    BY <1>1 DEF MoneyInv, NotYetMoved
<1>4. RefundedAtMostOnce'
    BY DEF MoneyInv, RefundedAtMostOnce, GoodStep, StatusMoves, ReturnLifecycle, Refunding
<1> QED
    BY <1>2, <1>3, <1>4 DEF MoneyInv

\* Whoever initiates the refund is the first: every other issuer would have
\* left the return in REFUND_INITIATED or REFUNDED.
LEMMA InitiationMoney ==
    ASSUME IInv, MoneyInv, NEW h \in Handlers, InitiateRefund(h)
    PROVE  MoneyInv'
<1> DEFINE r == handler[h].ret
<1>1. /\ handler[h] \in Working /\ r \in Returns /\ handler[h].pc = "initiate"
      /\ status[r] = "RETURN_APPROVED"
    BY AtStage DEF InitiateRefund, TransitionStatus, At, IInv
<1>2. GoodStep(h)
    BY InitiationGoodStep
<1>3. handler'[h].ret = r /\ UNCHANGED moved
    BY <1>1 DEF InitiateRefund, Goto, IInv, Typed, Working
<1>4. \A g \in Handlers : ~Issuing(g, r)
    BY <1>1 DEF Issuing, IInv, Truthful, Past, Since, Refunding
<1>5. moved[r] = 0
    <2>1. moved[r] \in Nat
        BY <1>1 DEF IInv, Typed
    <2>2. ~(moved[r] > 0)
        BY <1>1 DEF MoneyInv, RefundedAtMostOnce, Refunding
    <2> QED
        BY <2>1, <2>2
<1>6. \A q \in Returns : \A g \in Handlers :
          Issuing(g, q)' => \/ g = h /\ q = r
                            \/ q # r /\ Issuing(g, q) /\ handler'[g] = handler[g]
    BY <1>2, <1>3, <1>4 DEF GoodStep, Alone, Issuing
<1>7. OneIssuer'
    BY <1>6 DEF MoneyInv, OneIssuer
<1>8. NotYetMoved'
    BY <1>3, <1>5, <1>6 DEF MoneyInv, NotYetMoved
<1>9. RefundedAtMostOnce'
    BY <1>2, <1>3 DEF MoneyInv, RefundedAtMostOnce, GoodStep, StatusMoves, ReturnLifecycle, Refunding
<1> QED
    BY <1>7, <1>8, <1>9 DEF MoneyInv

LEMMA GatewayMoney ==
    ASSUME IInv, MoneyInv, NEW h \in Handlers, GatewayRefundsReturn(h)
    PROVE  MoneyInv'
<1> DEFINE r == handler[h].ret
<1>1. handler[h] \in Working /\ r \in Returns /\ handler[h].pc = "gateway"
    BY AtStage DEF GatewayRefundsReturn, At, IInv
<1>2. Issuing(h, r)
    BY <1>1 DEF Issuing, Working, Owing
<1>3. moved[r] = 0
    BY <1>1, <1>2 DEF MoneyInv, NotYetMoved, BeforeGateway
<1>4. GoodStep(h) /\ UNCHANGED status
    BY StageGoodStep DEF GatewayRefundsReturn, rows
<1>5. handler'[h].pc \notin BeforeGateway /\ handler'[h].ret = r
    BY <1>1 DEF GatewayRefundsReturn, Goto, BeforeGateway, IInv, Typed, Working
<1>6. moved'[r] \in {0, 1} /\ \A q \in Returns \ {r} : moved'[q] = moved[q]
    BY <1>1, <1>3 DEF GatewayRefundsReturn, IInv, Typed
<1>7. \A q \in Returns : \A g \in Handlers :
          Issuing(g, q)' => \/ g = h /\ q = r
                            \/ g # h /\ Issuing(g, q) /\ handler'[g] = handler[g]
    BY <1>4, <1>5 DEF GoodStep, Alone, Issuing
<1>8. OneIssuer'
    BY <1>2, <1>7 DEF MoneyInv, OneIssuer
<1>9. NotYetMoved'
    BY <1>2, <1>5, <1>6, <1>7 DEF MoneyInv, NotYetMoved, OneIssuer
<1>10. status[r] \in Refunding
    BY <1>1, <1>2 DEF Issuing, IInv, Truthful, Past, Since
<1>11. RefundedAtMostOnce'
    BY <1>4, <1>6, <1>10 DEF MoneyInv, RefundedAtMostOnce
<1> QED
    BY <1>8, <1>9, <1>11 DEF MoneyInv

\* What else a handler may do: start on something that is not a refund in
\* flight, advance without moving money, or leave.
LEMMA AdvanceMoney ==
    ASSUME IInv, MoneyInv, NEW h \in Handlers, GoodStep(h), UNCHANGED moved,
           handler[h] \in Working, handler[h].pc # "initiate", NEW pc \in DOMAIN Owing, Goto(h, pc),
           pc \in BeforeGateway =>
               handler[h].pc \in BeforeGateway \/ handler[h].mail # "REFUND_INITIATED"
    PROVE  MoneyInv'
<1>1. handler'[h] = [pc |-> pc, mail |-> handler[h].mail, ret |-> handler[h].ret]
    BY DEF Goto, IInv, Typed, Working
<1>2. \A r \in Returns :
          Issuing(h, r)' => /\ Issuing(h, r)
                            /\ handler'[h].pc \in BeforeGateway => handler[h].pc \in BeforeGateway
    BY <1>1 DEF Issuing
<1> QED
    BY <1>2, MoneyStays

LEMMA OtherMoney ==
    ASSUME IInv, MoneyInv, NEW h \in Handlers, GoodStep(h), UNCHANGED moved,
           \/ handler'[h] \notin Working
           \/ handler'[h].pc = "initiate"
           \/ handler'[h].mail # "REFUND_INITIATED"
    PROVE  MoneyInv'
<1>1. \A r \in Returns : ~Issuing(h, r)'
    BY DEF Issuing
<1> QED
    BY <1>1, MoneyStays

LEMMA NotWorking ==
    /\ Idle \notin Working
    /\ \A ls : [pc |-> "create", lines |-> ls] \notin Working
  BY DEF Idle, Working, Owing

LEMMA CustomerMoney ==
    ASSUME IInv, MoneyInv, NEW h \in Handlers, CustomerStep(h)
    PROVE  MoneyInv'
<1>1. GoodStep(h)
    BY CustomerGoodStep
<1>2. ASSUME NEW ls \in Requests, AskForReturn(h, ls)
      PROVE  MoneyInv'
    <2>1. handler'[h] \notin Working /\ UNCHANGED moved
        BY <1>2, NotWorking DEF AskForReturn, IInv, Typed
    <2> QED
        BY <1>1, <2>1, OtherMoney
<1>3. ASSUME NEW r \in Returns, CreateReturn(h, r)
      PROVE  MoneyInv'
    <2>1. handler'[h].mail # "REFUND_INITIATED" /\ UNCHANGED moved
        BY <1>3 DEF CreateReturn, Start, IInv, Typed
    <2> QED
        BY <1>1, <2>1, OtherMoney
<1>4. ASSUME SetActiveFlag(h)
      PROVE  MoneyInv'
    <2>1. handler[h] \in Working /\ handler[h].pc = "flag"
        BY <1>4, AtStage DEF SetActiveFlag, At, IInv
    <2>2. handler[h].mail # "REFUND_INITIATED"
        BY <2>1 DEF Working, Owing
    <2>3. "mail" \in DOMAIN Owing
        BY DEF Owing
    <2> QED
        BY <1>1, <1>4, <2>1, <2>2, <2>3, AdvanceMoney DEF SetActiveFlag
<1> QED
    BY <1>2, <1>3, <1>4 DEF CustomerStep

LEMMA DecisionMoney ==
    ASSUME IInv, MoneyInv, NEW h \in Handlers,
           \/ \E r \in Returns :
                  ApproveReturn(h, r) \/ RejectReturn(h, r) \/ ReadApprovedReturn(h, r)
                      \/ MarkReturnRefunded(h, r)
           \/ LoseInitiation(h) \/ FinalizeReturn(h) \/ CrashInReturn(h)
    PROVE  MoneyInv'
<1>1. GoodStep(h)
    BY DecisionGoodStep, InitiationGoodStep, EndGoodStep
<1>2. UNCHANGED moved
    BY DEF ApproveReturn, RejectReturn, ReadApprovedReturn, MarkReturnRefunded, LoseInitiation,
        FinalizeReturn, CrashInReturn
<1>3. \/ handler'[h] \notin Working
      \/ handler'[h].pc = "initiate"
      \/ handler'[h].mail # "REFUND_INITIATED"
    BY NotWorking
    DEF ApproveReturn, RejectReturn, ReadApprovedReturn, MarkReturnRefunded, LoseInitiation,
        FinalizeReturn, CrashInReturn, Start, Finish, IInv, Typed
<1> QED
    BY <1>1, <1>2, <1>3, OtherMoney

LEMMA StageMoney ==
    ASSUME IInv, MoneyInv, NEW h \in Handlers,
           \/ DecideReturnRefund(h) \/ RecordNotApplicable(h)
           \/ RecordReturnRefund(h) \/ RecordReturnFailure(h) \/ CompleteRefundRow(h)
           \/ MarkReturnPaymentRefunded(h) \/ CountActive(h) \/ ClearActiveFlag(h)
           \/ EnqueueMail(h)
    PROVE  MoneyInv'
<1>1. GoodStep(h)
    BY StageGoodStep, EndGoodStep
<1>2. UNCHANGED moved
    BY DEF DecideReturnRefund, RecordNotApplicable, RecordReturnRefund, RecordReturnFailure,
        CompleteRefundRow, MarkReturnPaymentRefunded, CountActive, ClearActiveFlag, EnqueueMail
<1>3. handler[h] \in Working /\ handler[h].pc # "initiate"
    BY AtStage
    DEF DecideReturnRefund, RecordNotApplicable, RecordReturnRefund, RecordReturnFailure, IInv, At,
        CompleteRefundRow, MarkReturnPaymentRefunded, CountActive, ClearActiveFlag, EnqueueMail
<1>4. handler[h].mail \in Owing[handler[h].pc]
    BY <1>3 DEF Working
<1>5. \/ Finish(h)
      \/ \E pc \in DOMAIN Owing :
             /\ Goto(h, pc)
             /\ pc \in BeforeGateway =>
                    handler[h].pc \in BeforeGateway \/ handler[h].mail # "REFUND_INITIATED"
    BY <1>4
    DEF DecideReturnRefund, RecordNotApplicable, RecordReturnRefund, RecordReturnFailure, At,
        CompleteRefundRow, MarkReturnPaymentRefunded, CountActive, ClearActiveFlag, EnqueueMail,
        Owing, BeforeGateway
<1>6. CASE Finish(h)
    BY <1>1, <1>2, <1>6, OtherMoney, NotWorking DEF Finish, IInv, Typed
<1> QED
    BY <1>1, <1>2, <1>3, <1>5, <1>6, AdvanceMoney

\* Money goes back through Razorpay at most once per return, and only for a
\* return that was approved, however many requests there are and whoever dies.
THEOREM RefundedOnce ==
    Spec => []RefundedAtMostOnce
<1>1. Init => MoneyInv
    <2> SUFFICES ASSUME Init
                 PROVE  MoneyInv
        OBVIOUS
    <2>1. \A r \in Returns : \A h \in Handlers : ~Issuing(h, r)
        BY NotWorking DEF Init, Issuing
    <2> QED
        BY <2>1 DEF Init, MoneyInv, OneIssuer, NotYetMoved, RefundedAtMostOnce
<1>2. IInv /\ MoneyInv /\ [Next]_vars => MoneyInv'
    <2> SUFFICES ASSUME IInv, MoneyInv, [Next]_vars
                 PROVE  MoneyInv'
        OBVIOUS
    <2>1. ASSUME NEW h \in Customers, CustomerStep(h)
          PROVE  MoneyInv'
        BY <2>1, CustomerMoney DEF Handlers
    <2>2. ASSUME NEW h \in Staff, StaffStep(h)
          PROVE  MoneyInv'
        BY <2>2, DecisionMoney, StageMoney, InitiationMoney, GatewayMoney DEF StaffStep, Handlers
    <2>3. ASSUME NEW h \in Handlers, EnqueueMail(h) \/ CrashInReturn(h)
          PROVE  MoneyInv'
        BY <2>3, StageMoney, DecisionMoney
    <2>4. CASE UNCHANGED vars
        BY <2>4 DEF vars, rows, MoneyInv, OneIssuer, NotYetMoved, RefundedAtMostOnce, Issuing
    <2> QED
        BY <2>1, <2>2, <2>3, <2>4 DEF Next
<1>3. MoneyInv => RefundedAtMostOnce
    BY DEF MoneyInv
<1> QED
    BY <1>1, <1>2, <1>3, TypesAndTruth, PTL DEF Spec

-----------------------------------------------------------------------------
(* E-mails are true, and decisions are announced once *)

\* What was said stays true, whoever moves the return.
LEMMA SaidStays ==
    ASSUME IInv, MailInv, NEW h \in Handlers, GoodStep(h), UNCHANGED mailed
    PROVE  MailTellsTheTruth'
<1> SUFFICES ASSUME NEW r \in Returns, NEW t \in MailTypes
             PROVE  /\ mailed[r][t] > 0 => status'[r] \in Since[t]
                    /\ t # "REFUND_COMPLETED" => mailed[r][t] <= 1
    BY DEF MailTellsTheTruth
<1>1. /\ mailed[r][t] > 0 => status[r] \in Since[t]
      /\ t # "REFUND_COMPLETED" => mailed[r][t] <= 1
    BY DEF MailInv, MailTellsTheTruth
<1>2. status'[r] = status[r] \/ <<status[r], status'[r]>> \in ReturnLifecycle
    BY DEF GoodStep, StatusMoves
<1> QED
    BY <1>1, <1>2, StatusFacts

\* A handler that owes no new e-mail about a decision keeps the invariant.
LEMMA MailStays ==
    ASSUME IInv, MailInv, NEW h \in Handlers, GoodStep(h), UNCHANGED mailed,
           \A r \in Returns : \A t \in Decisions : OwesMail(h, r, t)' => OwesMail(h, r, t)
    PROVE  MailInv'
<1>1. \A r \in Returns : \A t \in Decisions : \A g \in Handlers :
          OwesMail(g, r, t)' => OwesMail(g, r, t)
    <2> TAKE r \in Returns
    <2> TAKE t \in Decisions
    <2> TAKE g \in Handlers
    <2>1. CASE g = h
        BY <2>1 DEF OwesMail
    <2>2. CASE g # h
        BY <2>2 DEF OwesMail, GoodStep, Alone
    <2> QED
        BY <2>1, <2>2
<1>2. OneSender'
    BY <1>1 DEF MailInv, OneSender
<1>3. NotYetSent'
    BY <1>1 DEF MailInv, NotYetSent
<1> QED
    BY <1>2, <1>3, SaidStays DEF MailInv

\* A transition into the statuses an e-mail is about: nobody can have sent it
\* or be about to, because the return was not there yet.
LEMMA FreshMail ==
    ASSUME IInv, MailInv, NEW h \in Handlers, GoodStep(h), UNCHANGED mailed,
           NEW r \in Returns, NEW t \in Decisions, status[r] \notin Since[t],
           handler'[h].ret = r, handler'[h].mail = t
    PROVE  MailInv'
<1>1. \A g \in Handlers : ~OwesMail(g, r, t)
    BY DEF OwesMail, IInv, Truthful, Past
<1>2. mailed[r][t] = 0
    <2>1. mailed[r][t] \in Nat
        BY DEF IInv, Typed, Decisions
    <2>2. ~(mailed[r][t] > 0)
        BY DEF MailInv, MailTellsTheTruth, Decisions
    <2> QED
        BY <2>1, <2>2
<1>3. \A q \in Returns : \A u \in Decisions : \A g \in Handlers :
          OwesMail(g, q, u)' => \/ g = h /\ q = r /\ u = t
                                \/ <<q, u>> # <<r, t>> /\ g # h /\ OwesMail(g, q, u)
    <2> TAKE q \in Returns
    <2> TAKE u \in Decisions
    <2> TAKE g \in Handlers
    <2>1. CASE g = h
        BY <2>1 DEF OwesMail
    <2>2. CASE g # h
        BY <1>1, <2>2 DEF OwesMail, GoodStep, Alone
    <2> QED
        BY <2>1, <2>2
<1>4. OneSender'
    BY <1>3 DEF MailInv, OneSender
<1>5. NotYetSent'
    BY <1>2, <1>3 DEF MailInv, NotYetSent
<1> QED
    BY <1>4, <1>5, SaidStays DEF MailInv

\* Sending: the one handler that owes the e-mail sends it and owes it no more.
LEMMA EnqueueMailKeeps ==
    ASSUME IInv, MailInv, NEW h \in Handlers, EnqueueMail(h)
    PROVE  MailInv'
<1> DEFINE r == handler[h].ret
           t == handler[h].mail
<1>1. handler[h] \in Working /\ handler[h].pc = "mail" /\ r \in Returns /\ t \in MailTypes
    BY AtStage DEF EnqueueMail, At, IInv
<1>2. GoodStep(h) /\ UNCHANGED status
    BY EndGoodStep DEF EnqueueMail, rows
<1>3. OwesMail(h, r, t)
    BY <1>1 DEF OwesMail
<1>4. \A q \in Returns : \A u \in Decisions : ~OwesMail(h, q, u)'
    <2>1. CASE t = "REFUND_INITIATED"
        BY <1>1, <2>1 DEF EnqueueMail, Goto, IInv, Typed, OwesMail, Working
    <2>2. CASE t # "REFUND_INITIATED"
        BY <2>2, NotWorking DEF EnqueueMail, Finish, IInv, Typed, OwesMail
    <2> QED
        BY <2>1, <2>2
<1>5. CASE UNCHANGED mailed
    BY <1>2, <1>4, <1>5, MailStays
<1>6. CASE mailed' = [mailed EXCEPT ![r][t] = @ + 1]
    <2>1. /\ mailed'[r][t] = mailed[r][t] + 1
          /\ \A q \in Returns, u \in MailTypes : <<q, u>> # <<r, t>> => mailed'[q][u] = mailed[q][u]
        BY <1>1, <1>6 DEF IInv, Typed
    <2>2. \A q \in Returns : \A u \in Decisions : \A g \in Handlers :
              OwesMail(g, q, u)' => g # h /\ OwesMail(g, q, u)
        BY <1>2, <1>4 DEF OwesMail, GoodStep, Alone
    <2>3. OneSender'
        BY <2>2 DEF MailInv, OneSender
    <2>4. NotYetSent'
        BY <1>3, <2>1, <2>2 DEF MailInv, NotYetSent, OneSender, Decisions
    <2>5. t # "REFUND_COMPLETED" => mailed[r][t] = 0
        BY <1>1, <1>3 DEF MailInv, NotYetSent, Decisions
    <2>6. status[r] \in Since[t]
        BY <1>1 DEF IInv, Truthful, Past
    <2>7. MailTellsTheTruth'
        BY <1>2, <2>1, <2>5, <2>6 DEF MailInv, MailTellsTheTruth
    <2> QED
        BY <2>3, <2>4, <2>7 DEF MailInv
<1> QED
    BY <1>5, <1>6 DEF EnqueueMail

LEMMA FreshMailSteps ==
    ASSUME IInv, MailInv, NEW h \in Handlers,
           \/ \E r \in Returns : CreateReturn(h, r) \/ ApproveReturn(h, r) \/ RejectReturn(h, r)
           \/ InitiateRefund(h)
    PROVE  MailInv'
<1>1. ASSUME NEW r \in Returns, CreateReturn(h, r)
      PROVE  MailInv'
    <2>1. /\ status[r] \notin Since["RETURN_REQUESTED"] /\ "RETURN_REQUESTED" \in Decisions
          /\ handler'[h].ret = r /\ handler'[h].mail = "RETURN_REQUESTED" /\ UNCHANGED mailed
        BY <1>1 DEF CreateReturn, Since, Decisions, MailTypes, Start, IInv, Typed
    <2>2. GoodStep(h)
        <3>1. handler[h] \in Asking
            BY <1>1, AtCreate DEF CreateReturn, IInv
        <3> QED
            BY <1>1, CustomerGoodStep DEF CustomerStep
    <2> QED
        BY <2>1, <2>2, FreshMail
<1>2. ASSUME NEW r \in Returns, ApproveReturn(h, r)
      PROVE  MailInv'
    <2>1. /\ status[r] \notin Since["RETURN_APPROVED"] /\ "RETURN_APPROVED" \in Decisions
          /\ handler'[h].ret = r /\ handler'[h].mail = "RETURN_APPROVED" /\ UNCHANGED mailed
        BY <1>2 DEF ApproveReturn, TransitionStatus, Since, Decisions, MailTypes, Start, IInv, Typed
    <2> QED
        BY <1>2, <2>1, DecisionGoodStep, FreshMail
<1>3. ASSUME NEW r \in Returns, RejectReturn(h, r)
      PROVE  MailInv'
    <2>1. /\ status[r] \notin Since["RETURN_REJECTED"] /\ "RETURN_REJECTED" \in Decisions
          /\ handler'[h].ret = r /\ handler'[h].mail = "RETURN_REJECTED" /\ UNCHANGED mailed
        BY <1>3 DEF RejectReturn, TransitionStatus, Since, Decisions, MailTypes, Start, IInv, Typed
    <2> QED
        BY <1>3, <2>1, DecisionGoodStep, FreshMail
<1>4. ASSUME InitiateRefund(h)
      PROVE  MailInv'
    <2> DEFINE r == handler[h].ret
    <2>1. handler[h] \in Working /\ r \in Returns /\ handler[h].pc = "initiate"
        BY <1>4, AtStage DEF InitiateRefund, At, IInv
    <2>2. handler[h].mail = "REFUND_INITIATED"
        BY <2>1 DEF Working, Owing
    <2>3. /\ status[r] \notin Since["REFUND_INITIATED"] /\ "REFUND_INITIATED" \in Decisions
          /\ handler'[h].ret = r /\ handler'[h].mail = "REFUND_INITIATED" /\ UNCHANGED mailed
        BY <1>4, <2>1, <2>2
        DEF InitiateRefund, TransitionStatus, Since, Refunding, Decisions, MailTypes, Goto, IInv, Typed, Working
    <2> QED
        BY <1>4, <2>1, <2>3, InitiationGoodStep, FreshMail
<1> QED
    BY <1>1, <1>2, <1>3, <1>4

\* Everything else owes no new e-mail about a decision.
LEMMA QuietSteps ==
    ASSUME IInv, MailInv, NEW h \in Handlers, GoodStep(h),
           \/ \E ls \in Requests : AskForReturn(h, ls)
           \/ \E r \in Returns : ReadApprovedReturn(h, r) \/ MarkReturnRefunded(h, r)
           \/ LoseInitiation(h) \/ FinalizeReturn(h) \/ CrashInReturn(h)
    PROVE  MailInv'
<1>1. UNCHANGED mailed
    BY DEF AskForReturn, ReadApprovedReturn, MarkReturnRefunded, LoseInitiation, FinalizeReturn, CrashInReturn
<1>2. \/ handler'[h] \notin Working
      \/ handler'[h].pc = "initiate"
      \/ handler'[h].mail = "REFUND_COMPLETED"
    BY NotWorking
    DEF AskForReturn, ReadApprovedReturn, MarkReturnRefunded, LoseInitiation, FinalizeReturn,
        CrashInReturn, Start, Finish, IInv, Typed
<1>3. \A r \in Returns : \A t \in Decisions : ~OwesMail(h, r, t)'
    BY <1>2 DEF OwesMail, Decisions
<1> QED
    BY <1>1, <1>3, MailStays

LEMMA StageMail ==
    ASSUME IInv, MailInv, NEW h \in Handlers, GoodStep(h),
           \/ SetActiveFlag(h) \/ DecideReturnRefund(h) \/ RecordNotApplicable(h)
           \/ GatewayRefundsReturn(h) \/ RecordReturnRefund(h) \/ RecordReturnFailure(h)
           \/ CompleteRefundRow(h) \/ MarkReturnPaymentRefunded(h) \/ CountActive(h)
           \/ ClearActiveFlag(h)
    PROVE  MailInv'
<1>1. UNCHANGED mailed
    BY DEF SetActiveFlag, DecideReturnRefund, RecordNotApplicable, GatewayRefundsReturn,
        RecordReturnRefund, RecordReturnFailure, CompleteRefundRow, MarkReturnPaymentRefunded,
        CountActive, ClearActiveFlag
<1>2. handler[h] \in Working
    BY AtStage
    DEF SetActiveFlag, DecideReturnRefund, RecordNotApplicable, GatewayRefundsReturn, IInv, At,
        RecordReturnRefund, RecordReturnFailure, CompleteRefundRow, MarkReturnPaymentRefunded,
        CountActive, ClearActiveFlag
<1>3. handler[h].mail \in Owing[handler[h].pc]
    BY <1>2 DEF Working
<1> DEFINE Quiet(pc) ==
               \/ pc \notin {"flag", "count", "clear", "mail"}
               \/ handler[h].pc \in {"flag", "count", "clear", "mail"}
               \/ handler[h].mail = "REFUND_COMPLETED"
<1>4. \/ Finish(h)
      \/ \E pc \in DOMAIN Owing : Goto(h, pc) /\ Quiet(pc)
    BY <1>3
    DEF SetActiveFlag, DecideReturnRefund, RecordNotApplicable, GatewayRefundsReturn, At, Owing,
        RecordReturnRefund, RecordReturnFailure, CompleteRefundRow, MarkReturnPaymentRefunded,
        CountActive, ClearActiveFlag
<1>5. CASE Finish(h)
    <2>1. \A r \in Returns : \A t \in Decisions : ~OwesMail(h, r, t)'
        BY <1>5, NotWorking DEF Finish, IInv, Typed, OwesMail
    <2> QED
        BY <1>1, <2>1, MailStays
<1>6. ASSUME NEW pc \in DOMAIN Owing, Goto(h, pc), Quiet(pc)
      PROVE  MailInv'
    <2>1. handler'[h] = [pc |-> pc, mail |-> handler[h].mail, ret |-> handler[h].ret]
        BY <1>2, <1>6 DEF Goto, IInv, Typed, Working
    <2>2. \A r \in Returns : \A t \in Decisions : OwesMail(h, r, t)' => OwesMail(h, r, t)
        BY <1>2, <1>6, <2>1 DEF OwesMail, Decisions
    <2> QED
        BY <1>1, <2>2, MailStays
<1> QED
    BY <1>4, <1>5, <1>6

\* No e-mail about a return ever says what did not happen, and each decision is
\* announced at most once - without a dedupeKey, because only the handler whose
\* conditional update matched goes on to enqueue.
THEOREM MailCorrect ==
    Spec => []MailTellsTheTruth
<1>1. Init => MailInv
    <2> SUFFICES ASSUME Init
                 PROVE  MailInv
        OBVIOUS
    <2>1. \A r \in Returns : \A t \in MailTypes : \A h \in Handlers : ~OwesMail(h, r, t)
        BY NotWorking DEF Init, OwesMail
    <2> QED
        BY <2>1 DEF Init, MailInv, OneSender, NotYetSent, MailTellsTheTruth, Decisions
<1>2. IInv /\ MailInv /\ [Next]_vars => MailInv'
    <2> SUFFICES ASSUME IInv, MailInv, [Next]_vars
                 PROVE  MailInv'
        OBVIOUS
    <2>1. ASSUME NEW h \in Customers, CustomerStep(h)
          PROVE  MailInv'
        BY <2>1, CustomerGoodStep, QuietSteps, FreshMailSteps, StageMail DEF Handlers, CustomerStep
    <2>2. ASSUME NEW h \in Staff, StaffStep(h)
          PROVE  MailInv'
        BY <2>2, DecisionGoodStep, InitiationGoodStep, StageGoodStep, QuietSteps, FreshMailSteps, StageMail
        DEF Handlers, StaffStep
    <2>3. ASSUME NEW h \in Handlers, EnqueueMail(h) \/ CrashInReturn(h)
          PROVE  MailInv'
        BY <2>3, EndGoodStep, QuietSteps, EnqueueMailKeeps
    <2>4. CASE UNCHANGED vars
        BY <2>4 DEF vars, rows, MailInv, OneSender, NotYetSent, MailTellsTheTruth, OwesMail
    <2> QED
        BY <2>1, <2>2, <2>3, <2>4 DEF Next
<1>3. MailInv => MailTellsTheTruth
    BY DEF MailInv
<1> QED
    BY <1>1, <1>2, <1>3, TypesAndTruth, PTL DEF Spec

-----------------------------------------------------------------------------
(* A crash orphans one return at most *)

\* A step of a handler that lives orphans no return.
NoneOrphaned == crashes' = crashes /\ Orphaned' \subseteq Orphaned

\* The row of a refund is never deleted, and nobody else's step takes a
\* handler off its refund: only the return that the step works on can lose
\* its row's promise.
LEMMA OtherReturnsKeepRow ==
    ASSUME IInv, NEW h \in Handlers, Alone(h), NEW r \in Orphaned',
           status'[r] = "REFUND_INITIATED" => status[r] = "REFUND_INITIATED",
           refundRow[r] # "NONE" => refundRow'[r] # "NONE",
           h \in Staff /\ Issuing(h, r) => Issuing(h, r)'
    PROVE  r \in Orphaned
<1>1. /\ r \in Returns /\ status'[r] = "REFUND_INITIATED" /\ refundRow'[r] = "NONE"
      /\ \A g \in Staff : ~Issuing(g, r)'
    BY DEF Orphaned
<1>2. status[r] = "REFUND_INITIATED" /\ refundRow[r] = "NONE"
    BY <1>1
<1>3. ASSUME NEW g \in Staff, Issuing(g, r)
      PROVE  FALSE
    <2>1. g # h
        BY <1>1, <1>3
    <2> QED
        BY <1>1, <1>3, <2>1 DEF Alone, Issuing, Handlers
<1> QED
    BY <1>1, <1>2, <1>3 DEF Orphaned

\* A step that writes neither column, of a handler not issuing a refund or
\* still issuing it afterwards.
LEMMA KeepsRow ==
    ASSUME IInv, NEW h \in Handlers, Alone(h), crashes' = crashes,
           \A r \in Returns :
               /\ status'[r] = "REFUND_INITIATED" => status[r] = "REFUND_INITIATED"
               /\ refundRow[r] # "NONE" => refundRow'[r] # "NONE"
               /\ Issuing(h, r) /\ refundRow'[r] = "NONE" /\ status'[r] = "REFUND_INITIATED"
                      => Issuing(h, r)'
    PROVE  NoneOrphaned
<1>1. ASSUME NEW r \in Orphaned'
      PROVE  r \in Orphaned
    <2>1. r \in Returns /\ status'[r] = "REFUND_INITIATED" /\ refundRow'[r] = "NONE"
        BY DEF Orphaned
    <2> QED
        BY <2>1, OtherReturnsKeepRow
<1> QED
    BY <1>1 DEF NoneOrphaned

\* Customers' requests, staff's decisions and a lost race issue no refund.
LEMMA DecisionRow ==
    ASSUME IInv, NEW h \in Handlers, GoodStep(h),
           \/ CustomerStep(h) \/ LoseInitiation(h)
           \/ \E r \in Returns :
                  ApproveReturn(h, r) \/ RejectReturn(h, r) \/ ReadApprovedReturn(h, r)
                      \/ MarkReturnRefunded(h, r)
    PROVE  NoneOrphaned
<1>1. UNCHANGED <<refundRow, crashes>>
    BY DEF CustomerStep, AskForReturn, CreateReturn, SetActiveFlag, LoseInitiation, ApproveReturn,
        RejectReturn, ReadApprovedReturn, MarkReturnRefunded, TransitionStatus, rows
<1>2. \A r \in Returns : status'[r] = "REFUND_INITIATED" => status[r] = "REFUND_INITIATED"
    BY DEF CustomerStep, AskForReturn, CreateReturn, SetActiveFlag, LoseInitiation, ApproveReturn,
        RejectReturn, ReadApprovedReturn, MarkReturnRefunded, TransitionStatus, rows, IInv, Typed
<1>3. \A r \in Returns : ~Issuing(h, r)
    <2>1. handler[h] = Idle \/ At(h, "create") \/ At(h, "flag") \/ At(h, "initiate")
        BY DEF CustomerStep, AskForReturn, CreateReturn, SetActiveFlag, LoseInitiation, ApproveReturn,
            RejectReturn, ReadApprovedReturn, MarkReturnRefunded, Free
    <2> QED
        BY <2>1 DEF Issuing, Working, Owing, Idle, At
<1> QED
    BY <1>1, <1>2, <1>3, KeepsRow DEF GoodStep

\* The request that moves the return issues the refund itself.
LEMMA InitiationRow ==
    ASSUME IInv, NEW h \in Staff, GoodStep(h), InitiateRefund(h)
    PROVE  NoneOrphaned
<1> PICK m \in Returns : m = handler[h].ret
    BY AtStage DEF InitiateRefund, At, IInv, Handlers
<1>1. handler[h] \in Working /\ handler[h].pc = "initiate" /\ handler[h].mail = "REFUND_INITIATED"
    BY AtStage DEF InitiateRefund, At, IInv, Working, Owing, Handlers
<1>2. Issuing(h, m)'
    <2>1. "mail" \in DOMAIN Owing /\ handler[h].mail \in Owing["mail"] /\ Goto(h, "mail")
        BY <1>1 DEF InitiateRefund, Owing, MailTypes
    <2>2. handler'[h] = [pc |-> "mail", mail |-> handler[h].mail, ret |-> handler[h].ret]
        BY <1>1, <2>1, GotoType DEF IInv, Handlers
    <2>3. handler'[h] \in Working
        BY <1>1, <2>1, <2>2 DEF Working
    <2> QED
        BY <1>1, <2>2, <2>3 DEF Issuing
<1>3. /\ UNCHANGED <<refundRow, crashes>>
      /\ \A r \in Returns \ {m} : status'[r] = status[r]
    BY DEF InitiateRefund, TransitionStatus, IInv, Typed
<1>4. \A r \in Returns : ~Issuing(h, r)
    BY <1>1 DEF Issuing
<1>5. ASSUME NEW r \in Orphaned'
      PROVE  r \in Orphaned
    <2>1. r \in Returns \ {m}
        BY <1>2 DEF Orphaned
    <2> QED
        BY <1>3, <1>4, <2>1, OtherReturnsKeepRow DEF GoodStep, Handlers
<1> QED
    BY <1>3, <1>5 DEF NoneOrphaned

\* The stages of an issued refund end with a row, with a return that is
\* refunded, or go on.
LEMMA StageRow ==
    ASSUME IInv, NEW h \in Handlers, GoodStep(h),
           \/ DecideReturnRefund(h) \/ RecordNotApplicable(h) \/ GatewayRefundsReturn(h)
           \/ RecordReturnRefund(h) \/ RecordReturnFailure(h) \/ CompleteRefundRow(h)
           \/ MarkReturnPaymentRefunded(h) \/ CountActive(h) \/ ClearActiveFlag(h)
           \/ FinalizeReturn(h) \/ EnqueueMail(h)
    PROVE  NoneOrphaned
<1> PICK m \in Returns : m = handler[h].ret
    BY AtStage
    DEF DecideReturnRefund, RecordNotApplicable, GatewayRefundsReturn, RecordReturnRefund, IInv, At,
        RecordReturnFailure, CompleteRefundRow, MarkReturnPaymentRefunded, CountActive,
        ClearActiveFlag, FinalizeReturn, EnqueueMail
<1>1. handler[h] \in Working /\ handler[h].pc # "initiate"
    BY AtStage
    DEF DecideReturnRefund, RecordNotApplicable, GatewayRefundsReturn, RecordReturnRefund, IInv, At,
        RecordReturnFailure, CompleteRefundRow, MarkReturnPaymentRefunded, CountActive,
        ClearActiveFlag, FinalizeReturn, EnqueueMail
<1>2. crashes' = crashes
    BY DEF DecideReturnRefund, RecordNotApplicable, GatewayRefundsReturn, RecordReturnRefund,
        RecordReturnFailure, CompleteRefundRow, MarkReturnPaymentRefunded, CountActive,
        ClearActiveFlag, FinalizeReturn, EnqueueMail
<1>3. \A r \in Returns : status'[r] = "REFUND_INITIATED" => status[r] = "REFUND_INITIATED"
    BY DEF DecideReturnRefund, RecordNotApplicable, GatewayRefundsReturn, RecordReturnRefund, rows,
        RecordReturnFailure, CompleteRefundRow, MarkReturnPaymentRefunded, CountActive,
        ClearActiveFlag, FinalizeReturn, EnqueueMail, IInv, Typed
<1>4. \A r \in Returns : refundRow[r] # "NONE" => refundRow'[r] # "NONE"
    BY DEF DecideReturnRefund, RecordNotApplicable, GatewayRefundsReturn, RecordReturnRefund, rows,
        RecordReturnFailure, CompleteRefundRow, MarkReturnPaymentRefunded, CountActive,
        ClearActiveFlag, FinalizeReturn, EnqueueMail, IInv, Typed
<1>5. ASSUME handler[h].mail = "REFUND_INITIATED"
      PROVE  \/ refundRow'[m] # "NONE"
             \/ status'[m] # "REFUND_INITIATED"
             \/ \E pc \in DOMAIN Owing : pc # "initiate" /\ Goto(h, pc)
    <2>1. ~(CompleteRefundRow(h) \/ CountActive(h) \/ ClearActiveFlag(h))
        BY <1>1, <1>5
        DEF CompleteRefundRow, CountActive, ClearActiveFlag, At, Working, Owing
    <2> QED
        BY <1>1, <1>5, <2>1
        DEF DecideReturnRefund, RecordNotApplicable, GatewayRefundsReturn, RecordReturnRefund,
            RecordReturnFailure, MarkReturnPaymentRefunded, FinalizeReturn, EnqueueMail, IInv,
            Typed, Owing, rows
<1>6. ASSUME Issuing(h, m), refundRow'[m] = "NONE", status'[m] = "REFUND_INITIATED"
      PROVE  Issuing(h, m)'
    <2>1. PICK pc \in DOMAIN Owing : pc # "initiate" /\ Goto(h, pc)
        BY <1>5, <1>6 DEF Issuing
    <2>2. handler'[h] = [pc |-> pc, mail |-> handler[h].mail, ret |-> handler[h].ret]
        BY <1>1, <2>1 DEF Goto, IInv, Typed, Working
    <2>3. handler'[h] \in Working
        <3>1. handler'[h] \in {Idle} \cup Asking \cup Working
            BY DEF GoodStep, Typed
        <3>2. handler'[h].mail = "REFUND_INITIATED" /\ handler'[h].pc \in DOMAIN Owing
            BY <1>6, <2>2 DEF Issuing
        <3> QED
            BY <3>1, <3>2 DEF Idle, Asking, Owing
    <2> QED
        BY <1>6, <2>1, <2>2, <2>3 DEF Issuing
<1>7. \A r \in Returns : Issuing(h, r) => r = m
    BY DEF Issuing
<1> QED
    BY <1>2, <1>3, <1>4, <1>6, <1>7, KeepsRow DEF GoodStep

\* A handler that dies works on one return.
LEMMA CrashRow ==
    ASSUME IInv, NEW h \in Handlers, CrashInReturn(h)
    PROVE  crashes' = crashes + 1 /\ \E m : Orphaned' \subseteq Orphaned \cup {m}
<1>1. crashes' = crashes + 1 /\ UNCHANGED <<status, refundRow>>
    BY DEF CrashInReturn, rows
<1>2. \A g \in Handlers \ {h} : handler'[g] = handler[g]
    BY DEF CrashInReturn, Finish, IInv, Typed
<1>3. ASSUME NEW r \in Orphaned', r # handler[h].ret
      PROVE  r \in Orphaned
    <2>1. /\ r \in Returns /\ status[r] = "REFUND_INITIATED" /\ refundRow[r] = "NONE"
          /\ \A g \in Staff : ~Issuing(g, r)'
        BY <1>1 DEF Orphaned
    <2>2. \A g \in Staff : ~Issuing(g, r)
        BY <1>2, <1>3, <2>1 DEF Issuing, Handlers
    <2> QED
        BY <2>1, <2>2 DEF Orphaned
<1>4. Orphaned' \subseteq Orphaned \cup {handler[h].ret}
    BY <1>3
<1> QED
    BY <1>1, <1>4

\* Orphans are returns, so there are finitely many of them.
LEMMA OrphansFinite ==
    /\ IsFiniteSet(Orphaned) /\ Cardinality(Orphaned) \in Nat
    /\ \A S : S \subseteq Orphaned => Cardinality(S) <= Cardinality(Orphaned)
    /\ \A S, m : S \subseteq Orphaned \cup {m} => Cardinality(S) <= Cardinality(Orphaned) + 1
<1>1. Orphaned \subseteq Returns
    BY DEF Orphaned
<1>2. IsFiniteSet(Orphaned)
    BY <1>1, ReturnsAssumption, FS_Subset
<1>3. Cardinality(Orphaned) \in Nat
    BY <1>2, FS_CardinalityType
<1>4. \A S : S \subseteq Orphaned => Cardinality(S) <= Cardinality(Orphaned)
    BY <1>2, FS_Subset
<1>5. ASSUME NEW S, NEW m, S \subseteq Orphaned \cup {m}
      PROVE  Cardinality(S) <= Cardinality(Orphaned) + 1
    <2>1. /\ IsFiniteSet(Orphaned \cup {m})
          /\ \/ Cardinality(Orphaned \cup {m}) = Cardinality(Orphaned)
             \/ Cardinality(Orphaned \cup {m}) = Cardinality(Orphaned) + 1
        BY <1>2, FS_AddElement
    <2>2. Cardinality(S) \in Nat /\ Cardinality(S) <= Cardinality(Orphaned \cup {m})
        BY <1>5, <2>1, FS_Subset, FS_CardinalityType
    <2> QED
        BY <1>3, <2>1, <2>2
<1> QED
    BY <1>2, <1>3, <1>4, <1>5

\* Every return whose refund was initiated has a Refund row or somebody on the
\* way to writing it, but for one at most for each handler that died, however
\* customers and staff interleave and whatever gateway and database answer.
THEOREM OrphansBounded == Spec => []OrphansPerCrash
<1>1. Init => OrphansPerCrash
    <2> SUFFICES ASSUME Init
                 PROVE  OrphansPerCrash
        OBVIOUS
    <2>1. Orphaned = {} /\ crashes = 0
        BY DEF Init, Orphaned
    <2> QED
        BY <2>1, FS_EmptySet DEF OrphansPerCrash
<1>2. IInv /\ OrphansPerCrash /\ [Next]_vars => OrphansPerCrash'
    <2> SUFFICES ASSUME IInv, OrphansPerCrash, [Next]_vars
                 PROVE  OrphansPerCrash'
        OBVIOUS
    <2>1. crashes \in Nat
        BY ReturnsAssumption DEF IInv, Typed
    <2>2. ASSUME NoneOrphaned
          PROVE  OrphansPerCrash'
        <3> PICK S : S = Orphaned'
            OBVIOUS
        <3>1. Cardinality(S) <= Cardinality(Orphaned) /\ IsFiniteSet(S)
            BY <2>2, OrphansFinite, FS_Subset DEF NoneOrphaned
        <3>2. Cardinality(S) \in Nat
            BY <3>1, FS_CardinalityType
        <3> QED
            BY <2>1, <2>2, <3>1, <3>2, OrphansFinite DEF OrphansPerCrash, NoneOrphaned
    <2>3. ASSUME NEW h \in Customers, CustomerStep(h)
          PROVE  NoneOrphaned
        BY <2>3, CustomerGoodStep, DecisionRow DEF Handlers
    <2>4. ASSUME NEW h \in Staff, StaffStep(h)
          PROVE  NoneOrphaned
        <3>1. GoodStep(h)
            BY <2>4, DecisionGoodStep, InitiationGoodStep, StageGoodStep DEF StaffStep, Handlers
        <3> QED
            BY <2>4, <3>1, DecisionRow, InitiationRow, StageRow DEF StaffStep, Handlers
    <2>5. ASSUME NEW h \in Handlers, EnqueueMail(h)
          PROVE  NoneOrphaned
        BY <2>5, EndGoodStep, StageRow
    <2>6. ASSUME NEW h \in Handlers, CrashInReturn(h)
          PROVE  OrphansPerCrash'
        <3>1. crashes' = crashes + 1
            BY <2>6, CrashRow
        <3>2. PICK S, m : S = Orphaned' /\ S \subseteq Orphaned \cup {m}
            BY <2>6, CrashRow
        <3>3. IsFiniteSet(S)
            <4>1. S \subseteq Returns
                BY <3>2 DEF Orphaned
            <4> QED
                BY <4>1, ReturnsAssumption, FS_Subset
        <3>4. Cardinality(S) \in Nat /\ Cardinality(S) <= Cardinality(Orphaned) + 1
            BY <3>2, <3>3, OrphansFinite, FS_CardinalityType
        <3> QED
            BY <2>1, <3>1, <3>2, <3>4, OrphansFinite DEF OrphansPerCrash
    <2>7. CASE UNCHANGED vars
        BY <2>2, <2>7 DEF vars, rows, NoneOrphaned, Orphaned, Issuing
    <2> QED
        BY <2>2, <2>3, <2>4, <2>5, <2>6, <2>7 DEF Next
<1> QED
    BY <1>1, <1>2, TypesAndTruth, PTL DEF Spec
=============================================================================
