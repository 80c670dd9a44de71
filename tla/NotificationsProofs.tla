------------------------ MODULE NotificationsProofs ------------------------
(* Proofs about Notifications, for any number of e-mails, callers, workers   *)
(* and attempts, and any number of faults of each kind: types, that two      *)
(* workers never send the same e-mail at the same time, that only faults     *)
(* repeat one, and that none is given up before its attempts are spent.      *)
EXTENDS Notifications, TLAPS

Happened(h) == h \in [FaultKinds -> Nat] /\ \A f \in FaultKinds : h[f] <= Faults[f]

\* A fault is counted, and only while its bound allows another.
LEMMA StrikeTyped ==
    ASSUME Happened(happened), NEW f \in FaultKinds, Strikes(f)
    PROVE  Happened(happened')
<1>1. happened[f] \in Nat /\ Faults[f] \in Nat /\ happened[f] < Faults[f]
    BY NotificationsAssumption DEF Strikes, Happened
<1>2. happened' \in [FaultKinds -> Nat] /\ happened'[f] = happened[f] + 1
    BY <1>1 DEF Strikes, Happened
<1>3. \A g \in FaultKinds \ {f} : happened'[g] = happened[g]
    BY DEF Strikes, Happened
<1> QED
    BY <1>1, <1>2, <1>3 DEF Happened

\* Every step either leaves the faults as they are or counts one.
LEMMA FaultsTyped ==
    ASSUME TypeOK, NoFault \/ \E f \in FaultKinds : Strikes(f)
    PROVE  /\ happened' \in [FaultKinds -> Nat]
           /\ \A f \in FaultKinds : happened'[f] <= Faults[f]
<1>1. Happened(happened)
    BY DEF TypeOK, Happened
<1>2. CASE NoFault
    BY <1>1, <1>2 DEF NoFault, Happened
<1> QED
    BY <1>1, <1>2, StrikeTyped DEF Happened

\* A job that may run has an attempt left.
AttemptsLeft == \A n \in Notes : job[n] \in {"waiting", "active"} => made[n] < Attempts

\* A worker that leaves a job may only take its own lock with it.
LEMMA CompleteJobType ==
    ASSUME TypeOK, AttemptsLeft, NEW w \in Workers, worker[w] # Resting, CompleteJob(w)
    PROVE  /\ job' \in [Notes -> JobStates]
           /\ made' \in [Notes -> 0..Attempts]
           /\ lock' \in [Notes -> Workers \cup {Nobody}]
           /\ worker' \in [Workers -> {Resting} \cup Jobs]
           /\ \A n \in Notes : job'[n] = "active" <=> lock'[n] # Nobody
           /\ AttemptsLeft'
<1>1. worker[w].note \in Notes
    BY DEF TypeOK, Jobs
<1> QED
    BY <1>1 DEF CompleteJob, TypeOK, AttemptsLeft, JobStates

\* Advancing a worker keeps its record well formed.
LEMMA GotoType ==
    ASSUME TypeOK, NEW w \in Workers, worker[w] # Resting, NEW pc \in Stages,
           \/ Goto(w, pc)
           \/ \E f \in BOOLEAN : worker' = [worker EXCEPT ![w].pc = pc, ![w].fatal = f]
    PROVE  worker' \in [Workers -> {Resting} \cup Jobs]
<1>1. worker[w] \in Jobs
    BY DEF TypeOK
<1>2. CASE Goto(w, pc)
    BY <1>1, <1>2 DEF Goto, TypeOK, Jobs
<1>3. ASSUME NEW f \in BOOLEAN, worker' = [worker EXCEPT ![w].pc = pc, ![w].fatal = f]
      PROVE  worker' \in [Workers -> {Resting} \cup Jobs]
    <2>1. worker' = [worker EXCEPT ![w] = [[@ EXCEPT !.pc = pc] EXCEPT !.fatal = f]]
        BY <1>1, <1>3 DEF TypeOK, Jobs
    <2>2. [[worker[w] EXCEPT !.pc = pc] EXCEPT !.fatal = f] \in Jobs
        BY <1>1 DEF Jobs
    <2> QED
        BY <2>1, <2>2 DEF TypeOK
<1> QED
    BY <1>2, <1>3

Typed == TypeOK /\ AttemptsLeft

\* What one worker does with its job keeps the types.
LEMMA ProcessType ==
    ASSUME Typed, NEW w \in Workers, Process(w) \/ WorkerCrashes(w)
    PROVE  Typed'
<1> USE DEF Typed, NoFault
<1>1. worker[w] # Resting /\ worker[w] \in Jobs /\ worker[w].note \in Notes
    BY DEF Process, WorkerCrashes, ReadNotification, ClaimForSending, ReadOrClaimThrows, Send,
        MarkSent, MarkSentThrows, ReleaseClaim, FailJob, MarkFailed, Resting, TypeOK, Jobs
<1>2. ASSUME ReadNotification(w)
      PROVE  Typed'
    <2>1. CASE CompleteJob(w)
        BY <1>1, <1>2, <2>1, CompleteJobType DEF ReadNotification, TypeOK
    <2>2. CASE Goto(w, "claim") /\ UNCHANGED queue
        BY <1>1, <1>2, <2>2, GotoType
        DEF ReadNotification, TypeOK, AttemptsLeft, queue, Stages
    <2> QED
        BY <1>2, <2>1, <2>2 DEF ReadNotification
<1>3. ASSUME ClaimForSending(w)
      PROVE  Typed'
    <2>1. CASE Claimable(worker[w].note)
        BY <1>1, <1>3, <2>1, GotoType
        DEF ClaimForSending, TypeOK, AttemptsLeft, queue, Stages, RowStates
    <2>2. CASE ~Claimable(worker[w].note)
        BY <1>1, <1>3, <2>2, CompleteJobType DEF ClaimForSending, TypeOK
    <2> QED
        BY <2>1, <2>2
<1>4. ASSUME ReadOrClaimThrows(w) \/ MarkSentThrows(w)
      PROVE  Typed'
    <2>1. Strikes("db")
        BY <1>4 DEF ReadOrClaimThrows, MarkSentThrows
    <2> QED
        BY <1>1, <1>4, <2>1, GotoType, FaultsTyped
        DEF ReadOrClaimThrows, MarkSentThrows, FaultKinds, TypeOK, AttemptsLeft, queue, Stages
<1>5. ASSUME Send(w)
      PROVE  Typed'
    <2>1. worker' \in [Workers -> {Resting} \cup Jobs]
        BY <1>1, <1>5, GotoType DEF Send, Stages
    <2>2. delivered' \in [Notes -> Nat]
        BY <1>1, <1>5 DEF Send, TypeOK
    <2>3. NoFault \/ Strikes("answer")
        BY <1>5 DEF Send
    <2> QED
        BY <1>5, <2>1, <2>2, <2>3, FaultsTyped DEF Send, FaultKinds, TypeOK, AttemptsLeft, queue
<1>6. ASSUME MarkSent(w)
      PROVE  Typed'
    BY <1>1, <1>6, CompleteJobType DEF MarkSent, TypeOK, RowStates
<1>7. ASSUME ReleaseClaim(w)
      PROVE  Typed'
    <2>1. worker' \in [Workers -> {Resting} \cup Jobs]
        BY <1>1, <1>7, GotoType DEF ReleaseClaim, Stages
    <2>2. row' \in [Notes -> RowStates] /\ stale' \in [Notes -> BOOLEAN]
        BY <1>1, <1>7 DEF ReleaseClaim, TypeOK, RowStates
    <2>3. NoFault \/ Strikes("db")
        BY <1>7 DEF ReleaseClaim
    <2> QED
        BY <1>7, <2>1, <2>2, <2>3, FaultsTyped
        DEF ReleaseClaim, FaultKinds, TypeOK, AttemptsLeft, queue
<1>8. ASSUME FailJob(w)
      PROVE  Typed'
    <2> DEFINE n == worker[w].note
    <2>1. CASE lock[n] # w
        BY <1>1, <1>8, <2>1 DEF FailJob, TypeOK, AttemptsLeft, queue
    <2>2. CASE lock[n] = w
        <3>1. job[n] = "active" /\ made[n] \in Nat /\ made[n] < Attempts /\ Attempts \in Nat
            BY <1>1, <2>2, NotificationsAssumption DEF TypeOK, AttemptsLeft
        <3>2. [worker[w] EXCEPT !.pc = "markFailed"] \in Jobs
            BY <1>1 DEF Jobs, Stages
        <3>3. worker' \in [Workers -> {Resting} \cup Jobs]
            BY <1>1, <1>8, <2>2, <3>2 DEF FailJob, TypeOK
        <3>4. /\ job' \in [Notes -> JobStates]
              /\ made' \in [Notes -> 0..Attempts]
              /\ lock' \in [Notes -> Workers \cup {Nobody}]
            BY <1>1, <1>8, <2>2, <3>1 DEF FailJob, TypeOK, JobStates
        <3>5. \A m \in Notes : job'[m] = "active" <=> lock'[m] # Nobody
            BY <1>1, <1>8, <2>2 DEF FailJob, TypeOK
        <3>6. AttemptsLeft'
            BY <1>1, <1>8, <2>2, <3>1 DEF FailJob, FinalAttempt, TypeOK, AttemptsLeft
        <3> QED
            BY <1>8, <3>3, <3>4, <3>5, <3>6 DEF FailJob, TypeOK
    <2> QED
        BY <2>1, <2>2
<1>9. ASSUME MarkFailed(w)
      PROVE  Typed'
    <2>1. NoFault \/ Strikes("db")
        BY <1>9 DEF MarkFailed
    <2> QED
        BY <1>1, <1>9, <2>1, FaultsTyped
        DEF MarkFailed, FaultKinds, TypeOK, AttemptsLeft, queue, RowStates
<1>10. ASSUME WorkerCrashes(w)
       PROVE  Typed'
    BY <1>1, <1>10, FaultsTyped DEF WorkerCrashes, FaultKinds, TypeOK, AttemptsLeft, queue
<1> QED
    BY <1>2, <1>3, <1>4, <1>5, <1>6, <1>7, <1>8, <1>9, <1>10 DEF Process

\* Every step keeps the types.
LEMMA TypeKept ==
    ASSUME Typed, [Next]_vars
    PROVE  Typed'
<1> USE DEF Typed, NoFault
<1>1. ASSUME NEW c \in Callers, NEW n \in Notes, RecordNotification(c, n) \/ SweepFindsPending(c, n)
      PROVE  Typed'
    BY <1>1 DEF RecordNotification, SweepFindsPending, TypeOK, AttemptsLeft, queue, RowStates
<1>2. ASSUME NEW c \in Callers, AddJob(c)
      PROVE  Typed'
    <2>1. caller[c] \in Notes /\ 0 < Attempts /\ 0 \in 0..Attempts
        BY <1>2, NotificationsAssumption DEF AddJob, TypeOK
    <2> QED
        BY <1>2, <2>1 DEF AddJob, TypeOK, AttemptsLeft, JobStates
<1>3. ASSUME NEW c \in Callers, LoseJob(c)
      PROVE  Typed'
    BY <1>3, FaultsTyped DEF LoseJob, FaultKinds, TypeOK, AttemptsLeft, queue
<1>4. ASSUME NEW w \in Workers, NEW n \in Notes, TakeJob(w, n)
      PROVE  Typed'
    <2>1. [note |-> n, pc |-> "read", fatal |-> FALSE] \in Jobs
        BY DEF Jobs, Stages
    <2>2. w # Nobody
        BY NotificationsAssumption
    <2>3. worker' \in [Workers -> {Resting} \cup Jobs]
        BY <1>4, <2>1 DEF TakeJob, TypeOK
    <2> QED
        BY <1>4, <2>2, <2>3 DEF TakeJob, TypeOK, AttemptsLeft, JobStates
<1>5. ASSUME NEW n \in Notes, RedeliverStalledJob(n)
      PROVE  Typed'
    <2>1. NoFault \/ Strikes("stall")
        BY <1>5 DEF RedeliverStalledJob
    <2> QED
        BY <1>5, <2>1, FaultsTyped
        DEF RedeliverStalledJob, FaultKinds, TypeOK, AttemptsLeft, JobStates
<1>6. ASSUME NEW n \in Notes, ClaimGrowsOld(n)
      PROVE  Typed'
    BY <1>6 DEF ClaimGrowsOld, TypeOK, AttemptsLeft, queue
<1>7. CASE UNCHANGED vars
    BY <1>7 DEF vars, queue, TypeOK, AttemptsLeft
<1> QED
    BY <1>1, <1>2, <1>3, <1>4, <1>5, <1>6, <1>7, ProcessType DEF Next, Sweep, Deliver

\* Type correctness (TypeOK of the runs), with the bound on attempts it rests on.
THEOREM TypeCorrect == Spec => []TypeOK
<1>1. Init => Typed
    BY NotificationsAssumption DEF Init, Typed, TypeOK, AttemptsLeft, RowStates, JobStates
<1>2. Typed => TypeOK
    BY DEF Typed
<1> QED
    BY <1>1, <1>2, TypeKept, PTL DEF Spec

-----------------------------------------------------------------------------
(* The claim *)

\* While a worker holds the claim, no other can take it: the row is SENDING
\* and fresh, or some other worker's last attempt has just failed it for good.
ClaimHeld(n) == (row[n] = "SENDING" /\ ~stale[n]) \/ row[n] \in {"SENT", "FAILED"}

ClaimIsHeld == \A n \in Notes, w \in Workers : AtWork(w, n) => ClaimHeld(n)

Exclusive == ClaimIsExclusive /\ ClaimIsHeld

\* Losing workers and keeping every claim held keeps it exclusive.
LEMMA FewerAtWork ==
    ASSUME Exclusive,
           \A n \in Notes, w \in Workers : AtWork(w, n)' => AtWork(w, n),
           \A n \in Notes : (\E w \in Workers : AtWork(w, n)') /\ ClaimHeld(n) => ClaimHeld(n)'
    PROVE  Exclusive'
BY DEF Exclusive, ClaimIsExclusive, ClaimIsHeld

\* A row nobody can claim is left alone by everyone but those who work on it.
LEMMA SameRows ==
    ASSUME NEW n \in Notes, row'[n] = row[n], stale'[n] = stale[n]
    PROVE  ClaimHeld(n) => ClaimHeld(n)'
BY DEF ClaimHeld

\* Leaving a job, or going on within it, never adds a worker at work.
LEMMA LeavesWork ==
    ASSUME TypeOK, NEW w \in Workers, worker[w] # Resting,
           \/ worker' = [worker EXCEPT ![w] = Resting]
           \/ \E pc \in Stages \ {"send", "markSent", "release"}, f \in BOOLEAN :
                 \/ Goto(w, pc)
                 \/ worker' = [worker EXCEPT ![w].pc = pc, ![w].fatal = f]
    PROVE  /\ \A n \in Notes, v \in Workers : AtWork(v, n)' => AtWork(v, n) /\ v # w
           /\ \A n \in Notes : ~AtWork(w, n)'
<1>1. worker'[w].pc \notin {"send", "markSent", "release"}
    <2>1. CASE worker' = [worker EXCEPT ![w] = Resting]
        BY <2>1 DEF TypeOK, Resting
    <2>2. ASSUME NEW pc \in Stages \ {"send", "markSent", "release"}, NEW f \in BOOLEAN,
                 \/ Goto(w, pc)
                 \/ worker' = [worker EXCEPT ![w].pc = pc, ![w].fatal = f]
          PROVE  worker'[w].pc = pc
        BY <2>2 DEF TypeOK, Jobs, Goto
    <2> QED
        BY <2>1, <2>2
<1>2. \A v \in Workers \ {w} : worker'[v] = worker[v]
    BY DEF TypeOK, Goto
<1> QED
    BY <1>1, <1>2 DEF AtWork

\* A worker that stays at work stays at work on the same row.
LEMMA StaysAtWork ==
    ASSUME TypeOK, NEW w \in Workers, worker[w].pc \in {"send", "markSent", "release"},
           NEW pc \in {"send", "markSent", "release"},
           \/ Goto(w, pc)
           \/ \E f \in BOOLEAN : worker' = [worker EXCEPT ![w].pc = pc, ![w].fatal = f]
    PROVE  \A n \in Notes, v \in Workers : AtWork(v, n)' => AtWork(v, n)
BY DEF TypeOK, Jobs, AtWork, Goto, Resting, Stages

\* The conditional update lets a worker in only when nobody is at work.
LEMMA ClaimKeepsExclusive ==
    ASSUME TypeOK, Exclusive, NEW w \in Workers, ClaimForSending(w)
    PROVE  Exclusive'
<1>0. worker[w] \in Jobs /\ worker[w].note \in Notes /\ worker[w] # Resting
    BY DEF ClaimForSending, TypeOK, Jobs, Resting
<1> PICK m \in Notes : m = worker[w].note
    BY <1>0
<1>1. worker[w] \in Jobs /\ worker[w] # Resting
    BY <1>0
<1>2. CASE Claimable(m)
    <2>1. \A v \in Workers : ~AtWork(v, m)
        BY <1>1, <1>2 DEF Claimable, Exclusive, ClaimIsHeld, ClaimHeld, TypeOK
    <2>2. \A n \in Notes, v \in Workers : AtWork(v, n)' => (v = w /\ n = m) \/ (v # w /\ AtWork(v, n))
        BY <1>1, <1>2 DEF ClaimForSending, Goto, AtWork, TypeOK, Jobs
    <2>3. ClaimHeld(m)'
        BY <1>1, <1>2 DEF ClaimForSending, ClaimHeld, TypeOK
    <2>4. \A n \in Notes \ {m} : ClaimHeld(n) => ClaimHeld(n)'
        BY <1>1, <1>2 DEF ClaimForSending, ClaimHeld, TypeOK
    <2>5. ClaimIsExclusive'
        BY <2>1, <2>2 DEF Exclusive, ClaimIsExclusive
    <2>6. ClaimIsHeld'
        BY <2>1, <2>2, <2>3, <2>4 DEF Exclusive, ClaimIsHeld
    <2> QED
        BY <2>5, <2>6 DEF Exclusive
<1>3. CASE ~Claimable(m)
    <2>1. worker' = [worker EXCEPT ![w] = Resting] /\ UNCHANGED <<row, stale>>
        BY <1>3 DEF ClaimForSending, CompleteJob
    <2> QED
        BY <1>1, <2>1, LeavesWork, SameRows, FewerAtWork
<1> QED
    BY <1>2, <1>3

\* What one worker does with its job keeps claims exclusive.
LEMMA ProcessKeepsExclusive ==
    ASSUME TypeOK, Exclusive, NEW w \in Workers, Process(w) \/ WorkerCrashes(w)
    PROVE  Exclusive'
<1>0. worker[w] # Resting /\ worker[w] \in Jobs /\ worker[w].note \in Notes
    BY DEF Process, WorkerCrashes, ReadNotification, ClaimForSending, ReadOrClaimThrows, Send,
        MarkSent, MarkSentThrows, ReleaseClaim, FailJob, MarkFailed, Resting, TypeOK, Jobs
<1> PICK m \in Notes : m = worker[w].note
    BY <1>0
<1>1. ASSUME ReadNotification(w) \/ ReadOrClaimThrows(w) \/ FailJob(w) \/ WorkerCrashes(w)
      PROVE  Exclusive'
    <2>1. UNCHANGED <<row, stale>>
        BY <1>1 DEF ReadNotification, ReadOrClaimThrows, FailJob, WorkerCrashes
    <2>2. \/ worker' = [worker EXCEPT ![w] = Resting]
          \/ \E pc \in {"claim", "fail", "markFailed"} : Goto(w, pc)
        BY <1>1 DEF ReadNotification, ReadOrClaimThrows, FailJob, WorkerCrashes, CompleteJob, Goto
    <2> QED
        BY <1>0, <2>1, <2>2, LeavesWork, SameRows, FewerAtWork DEF Stages
<1>2. ASSUME Send(w) \/ MarkSentThrows(w)
      PROVE  Exclusive'
    <2>1. UNCHANGED <<row, stale>>
        BY <1>2 DEF Send, MarkSentThrows
    <2>2. \A n \in Notes, v \in Workers : AtWork(v, n)' => AtWork(v, n)
        BY <1>0, <1>2, StaysAtWork DEF Send, MarkSentThrows
    <2> QED
        BY <2>1, <2>2, SameRows, FewerAtWork
<1>3. ASSUME MarkSent(w) \/ ReleaseClaim(w)
      PROVE  Exclusive'
    <2>1. AtWork(w, m)
        BY <1>3 DEF MarkSent, ReleaseClaim, AtWork
    <2>2. \A n \in Notes \ {m} : row'[n] = row[n] /\ stale'[n] = stale[n]
        BY <1>0, <1>3 DEF MarkSent, ReleaseClaim, TypeOK
    <2>3. /\ \A n \in Notes, v \in Workers : AtWork(v, n)' => AtWork(v, n) /\ v # w
          /\ \A n \in Notes : ~AtWork(w, n)'
        <3>1. \/ worker' = [worker EXCEPT ![w] = Resting]
              \/ Goto(w, "fail")
              \/ \E f \in BOOLEAN : worker' = [worker EXCEPT ![w].pc = "fail", ![w].fatal = f]
            BY <1>3 DEF MarkSent, ReleaseClaim, CompleteJob
        <3> QED
            BY <1>0, <3>1, LeavesWork DEF Stages
    <2>4. \A v \in Workers : ~AtWork(v, m)'
        BY <1>0, <2>1, <2>3 DEF Exclusive, ClaimIsExclusive
    <2> QED
        BY <2>2, <2>3, <2>4, SameRows, FewerAtWork
<1>4. ASSUME MarkFailed(w)
      PROVE  Exclusive'
    <2>1. worker' = [worker EXCEPT ![w] = Resting] /\ UNCHANGED stale
        BY <1>4 DEF MarkFailed
    <2>2. \A n \in Notes : ClaimHeld(n) => ClaimHeld(n)'
        BY <1>0, <1>4 DEF MarkFailed, ClaimHeld, TypeOK
    <2> QED
        BY <1>0, <2>1, <2>2, LeavesWork, FewerAtWork
<1> QED
    BY <1>1, <1>2, <1>3, <1>4, ClaimKeepsExclusive DEF Process

\* Nor does anything the queue, the callers or the clock do.
LEMMA ExclusiveKept ==
    ASSUME TypeOK, Exclusive, [Next]_vars
    PROVE  Exclusive'
<1>1. ASSUME NEW c \in Callers, NEW n \in Notes, RecordNotification(c, n)
      PROVE  Exclusive'
    <2>1. \A k \in Notes : ClaimHeld(k) => ClaimHeld(k)'
        BY <1>1 DEF RecordNotification, ClaimHeld, TypeOK
    <2> QED
        BY <1>1, <2>1, FewerAtWork DEF RecordNotification, AtWork
<1>2. ASSUME NEW c \in Callers,
             (\E n \in Notes : SweepFindsPending(c, n)) \/ AddJob(c) \/ LoseJob(c)
      PROVE  Exclusive'
    BY <1>2, SameRows, FewerAtWork DEF SweepFindsPending, AddJob, LoseJob, AtWork
<1>3. ASSUME NEW w \in Workers, NEW n \in Notes, TakeJob(w, n)
      PROVE  Exclusive'
    <2>1. \A k \in Notes, v \in Workers : AtWork(v, k)' => AtWork(v, k)
        BY <1>3 DEF TakeJob, AtWork, TypeOK
    <2> QED
        BY <1>3, <2>1, SameRows, FewerAtWork DEF TakeJob
<1>4. ASSUME NEW n \in Notes, RedeliverStalledJob(n)
      PROVE  Exclusive'
    BY <1>4, SameRows, FewerAtWork DEF RedeliverStalledJob, AtWork
<1>5. ASSUME NEW n \in Notes, ClaimGrowsOld(n)
      PROVE  Exclusive'
    <2>1. \A k \in Notes, v \in Workers : AtWork(v, k)' <=> AtWork(v, k)
        BY <1>5 DEF ClaimGrowsOld, AtWork
    <2>2. \A k \in Notes : (\E v \in Workers : AtWork(v, k)') /\ ClaimHeld(k) => ClaimHeld(k)'
        BY <1>5, <2>1 DEF ClaimGrowsOld, ClaimHeld, TypeOK
    <2> QED
        BY <2>1, <2>2, FewerAtWork
<1>6. CASE UNCHANGED vars
    BY <1>6, SameRows, FewerAtWork DEF vars, AtWork
<1> QED
    BY <1>1, <1>2, <1>3, <1>4, <1>5, <1>6, ProcessKeepsExclusive DEF Next, Sweep, Deliver

\* Redeliveries, crashes and database errors may repeat an e-mail, but two
\* workers are never at it at the same time.
THEOREM ClaimExclusive == Spec => []ClaimIsExclusive
<1>1. Init => Exclusive
    BY DEF Init, Exclusive, ClaimIsExclusive, ClaimIsHeld, AtWork, Resting
<1>2. Exclusive => ClaimIsExclusive
    BY DEF Exclusive
<1> QED
    BY <1>1, <1>2, ExclusiveKept, TypeCorrect, PTL DEF Spec

-----------------------------------------------------------------------------
(* One e-mail more for each fault *)

\* Repeats counts the faults that struck between a provider's answer and its
\* record, or elsewhere: each pays for one delivery.
Sent(n) == \E w \in Workers : worker[w].note = n /\ worker[w].pc = "markSent"

\* The e-mail may go out (again): its row can be claimed, its claim is
\* orphaned, or a worker is at it and has no delivery to record.
Unsettled(n) ==
    \/ row[n] \in {"absent", "PENDING"}
    \/ row[n] = "SENDING" /\ ~Sent(n)
    \/ \E w \in Workers : worker[w].note = n /\ worker[w].pc \in {"send", "release"}

\* Every delivery but the last is paid for by a fault, and the last one too
\* whenever another may follow.
PaidFor ==
    \A n \in Notes :
        /\ delivered[n] <= 1 + Repeats
        /\ Unsettled(n) => delivered[n] <= Repeats

\* The faults that repeat an e-mail are counted by a number, and each that
\* strikes adds one to it; any other fault adds nothing.
LEMMA RepeatsNat == ASSUME TypeOK PROVE Repeats \in Nat
BY DEF TypeOK, Repeats, FaultKinds

Repeating == {"answer", "db", "crash"}

LEMMA StrikeCounts ==
    ASSUME TypeOK, NEW f \in FaultKinds, Strikes(f)
    PROVE  Repeats' = IF f \in Repeating THEN Repeats + 1 ELSE Repeats
BY DEF TypeOK, Strikes, Repeats, Repeating, FaultKinds

\* A step that delivers nothing and lets no settled e-mail out again keeps the account.
LEMMA NothingOwed ==
    ASSUME TypeOK, PaidFor, UNCHANGED delivered, Repeats' \in Nat, Repeats <= Repeats',
           \A n \in Notes : Unsettled(n)' => Unsettled(n)
    PROVE  PaidFor'
BY RepeatsNat DEF PaidFor, TypeOK

\* A lost answer, a database error or a crash pays for whatever it lets out again.
LEMMA FaultPays ==
    ASSUME TypeOK, PaidFor, UNCHANGED delivered, NEW f \in Repeating \cap FaultKinds, Strikes(f)
    PROVE  PaidFor'
<1>1. Repeats' = Repeats + 1
    BY StrikeCounts
<1> QED
    BY <1>1, RepeatsNat DEF PaidFor, TypeOK

\* With no fault, the count stays.
LEMMA NoFaultCounts ==
    ASSUME NoFault
    PROVE  Repeats' = Repeats
BY DEF NoFault, Repeats

\* What one worker does with its job keeps the account.
LEMMA ProcessKeepsPaid ==
    ASSUME TypeOK, Exclusive, PaidFor, NEW w \in Workers, Process(w) \/ WorkerCrashes(w)
    PROVE  PaidFor'
<1>0. worker[w] # Resting /\ worker[w] \in Jobs /\ worker[w].note \in Notes
    BY DEF Process, WorkerCrashes, ReadNotification, ClaimForSending, ReadOrClaimThrows, Send,
        MarkSent, MarkSentThrows, ReleaseClaim, FailJob, MarkFailed, Resting, TypeOK, Jobs
<1> PICK m \in Notes : m = worker[w].note
    BY <1>0
<1>a. Repeats \in Nat
    BY RepeatsNat
<1>b. ASSUME NoFault, UNCHANGED delivered, \A n \in Notes : Unsettled(n)' => Unsettled(n)
      PROVE  PaidFor'
    BY <1>a, <1>b, NoFaultCounts, NothingOwed
<1>c. \A v \in Workers : worker[v] = Resting \/ worker[v] \in Jobs
    BY DEF TypeOK
<1>1. ASSUME ReadOrClaimThrows(w) \/ MarkSentThrows(w) \/ WorkerCrashes(w)
      PROVE  PaidFor'
    <2>1. UNCHANGED delivered /\ (Strikes("db") \/ Strikes("crash"))
        BY <1>1 DEF ReadOrClaimThrows, MarkSentThrows, WorkerCrashes
    <2> QED
        BY <2>1, FaultPays DEF Repeating, FaultKinds
<1>2. ASSUME ReadNotification(w) \/ FailJob(w)
      PROVE  PaidFor'
    <2>1. worker' = [worker EXCEPT ![w] = Resting]
          \/ (\E pc \in {"claim", "markFailed"} : worker' = [worker EXCEPT ![w].pc = pc])
        BY <1>2 DEF ReadNotification, FailJob, CompleteJob, Goto
    <2>2. worker[w].pc \in {"read", "fail"}
        BY <1>2 DEF ReadNotification, FailJob
    <2>3. UNCHANGED <<row, delivered>> /\ NoFault
        BY <1>2 DEF ReadNotification, FailJob
    <2>4. \A v \in Workers \ {w} : worker'[v] = worker[v]
        BY <2>1 DEF TypeOK
    <2>5. worker'[w].pc \notin {"send", "release", "markSent"}
        BY <1>0, <2>1 DEF TypeOK, Jobs, Resting
    <2>6. \A n \in Notes : Sent(n) => Sent(n)'
        BY <2>2, <2>4 DEF Sent
    <2>7. \A n \in Notes : Unsettled(n)' => Unsettled(n)
        BY <2>3, <2>4, <2>5, <2>6 DEF Unsettled
    <2> QED
        BY <1>b, <2>3, <2>7
<1>3. ASSUME ClaimForSending(w)
      PROVE  PaidFor'
    <2>1. UNCHANGED delivered /\ NoFault /\ worker[w].pc = "claim"
        BY <1>3 DEF ClaimForSending
    <2>2. CASE Claimable(m)
        <3>1. \A v \in Workers : ~AtWork(v, m)
            BY <2>2 DEF Claimable, Exclusive, ClaimIsHeld, ClaimHeld, TypeOK
        <3>2. Unsettled(m)
            BY <2>2, <3>1 DEF Claimable, Unsettled, Sent, AtWork
        <3>3. \A n \in Notes \ {m} : row'[n] = row[n]
            BY <1>3, <2>2 DEF ClaimForSending, TypeOK
        <3>4. /\ \A v \in Workers \ {w} : worker'[v] = worker[v]
              /\ worker'[w].note = m
            BY <1>0, <1>3, <2>2 DEF ClaimForSending, Goto, TypeOK, Jobs
        <3>5. \A n \in Notes \ {m} : Sent(n) => Sent(n)'
            BY <2>1, <3>4 DEF Sent
        <3>6. \A n \in Notes \ {m} : Unsettled(n)' => Unsettled(n)
            BY <3>3, <3>4, <3>5 DEF Unsettled
        <3> QED
            BY <1>b, <2>1, <3>2, <3>6
    <2>3. CASE ~Claimable(m)
        <3>1. worker' = [worker EXCEPT ![w] = Resting] /\ UNCHANGED row
            BY <1>3, <2>3 DEF ClaimForSending, CompleteJob
        <3>2. /\ \A v \in Workers \ {w} : worker'[v] = worker[v]
              /\ worker'[w] = Resting
            BY <3>1 DEF TypeOK
        <3>3. \A n \in Notes : Sent(n) => Sent(n)'
            BY <2>1, <3>2 DEF Sent
        <3>4. \A n \in Notes : Unsettled(n)' => Unsettled(n)
            BY <3>1, <3>2, <3>3 DEF Unsettled, Resting
        <3> QED
            BY <1>b, <2>1, <3>4
    <2> QED
        BY <2>2, <2>3
<1>4. ASSUME Send(w)
      PROVE  PaidFor'
    <2>1. UNCHANGED row /\ AtWork(w, m) /\ worker[w].pc = "send"
        BY <1>4 DEF Send, AtWork
    <2>2. Unsettled(m)
        BY <2>1 DEF Unsettled
    <2>3. /\ \A v \in Workers \ {w} : worker'[v] = worker[v]
          /\ worker'[w].note = m
        BY <1>0, <1>4 DEF Send, Goto, TypeOK, Jobs
    <2>4. \A n \in Notes : Sent(n) => Sent(n)'
        BY <2>1, <2>3 DEF Sent
    <2>5. \A n \in Notes \ {m} : Unsettled(n)' => Unsettled(n)
        BY <2>1, <2>3, <2>4 DEF Unsettled
    <2>6. CASE UNCHANGED delivered
        <3>1. NoFault
            BY <1>4, <2>6 DEF Send, TypeOK
        <3> QED
            BY <1>b, <2>2, <2>5, <2>6, <3>1
    <2>7. CASE delivered' = [delivered EXCEPT ![m] = @ + 1] /\ Goto(w, "markSent") /\ NoFault
        <3>1. worker'[w].pc = "markSent"
            BY <1>0, <2>7 DEF Goto, TypeOK, Jobs
        <3>2. Sent(m)'
            BY <2>3, <3>1 DEF Sent
        <3>3. \A v \in Workers : ~(worker'[v].note = m /\ worker'[v].pc \in {"send", "release"})
            BY <2>1, <2>3, <3>1 DEF Exclusive, ClaimIsExclusive, AtWork
        <3>4. row[m] \notin {"absent", "PENDING"}
            BY <2>1 DEF Exclusive, ClaimIsHeld, ClaimHeld
        <3>5. ~Unsettled(m)'
            BY <2>1, <3>2, <3>3, <3>4 DEF Unsettled
        <3>6. delivered'[m] = delivered[m] + 1 /\ \A n \in Notes \ {m} : delivered'[n] = delivered[n]
            BY <2>7 DEF TypeOK
        <3>7. Repeats' = Repeats
            BY <2>7, NoFaultCounts
        <3> QED
            BY <1>a, <2>2, <2>5, <3>5, <3>6, <3>7 DEF PaidFor, TypeOK
    <2>8. CASE delivered' = [delivered EXCEPT ![m] = @ + 1] /\ Strikes("answer")
        <3>1. delivered'[m] = delivered[m] + 1 /\ \A n \in Notes \ {m} : delivered'[n] = delivered[n]
            BY <2>8 DEF TypeOK
        <3>2. Repeats' = Repeats + 1
            BY <2>8, StrikeCounts DEF Repeating, FaultKinds
        <3> QED
            BY <1>a, <2>2, <2>5, <3>1, <3>2 DEF PaidFor, TypeOK
    <2> QED
        BY <1>4, <2>6, <2>7, <2>8 DEF Send
<1>5. ASSUME MarkSent(w)
      PROVE  PaidFor'
    <2>1. UNCHANGED delivered /\ NoFault /\ AtWork(w, m) /\ worker[w].pc = "markSent"
        BY <1>5 DEF MarkSent, AtWork
    <2>2. /\ \A v \in Workers \ {w} : worker'[v] = worker[v]
          /\ worker'[w] = Resting
        BY <1>5 DEF MarkSent, CompleteJob, TypeOK
    <2>3. row'[m] \in {"SENT", "FAILED"} /\ \A n \in Notes \ {m} : row'[n] = row[n]
        BY <1>5, <2>1 DEF MarkSent, TypeOK, Exclusive, ClaimIsHeld, ClaimHeld
    <2>4. \A v \in Workers : ~(worker'[v].note = m /\ worker'[v].pc \in {"send", "release"})
        BY <2>1, <2>2 DEF Exclusive, ClaimIsExclusive, AtWork, Resting
    <2>5. \A n \in Notes \ {m} : Sent(n) => Sent(n)'
        BY <2>2 DEF Sent
    <2>6. \A n \in Notes \ {m} : Unsettled(n)' => Unsettled(n)
        BY <2>2, <2>3, <2>5 DEF Unsettled, Resting
    <2>7. ~Unsettled(m)'
        BY <2>3, <2>4 DEF Unsettled
    <2> QED
        BY <1>b, <2>1, <2>6, <2>7
<1>6. ASSUME ReleaseClaim(w)
      PROVE  PaidFor'
    <2>1. UNCHANGED delivered /\ worker[w].pc = "release"
        BY <1>6 DEF ReleaseClaim
    <2>2. CASE Strikes("db")
        BY <2>1, <2>2, FaultPays DEF Repeating, FaultKinds
    <2>3. CASE NoFault /\ Goto(w, "fail") /\ row' = [row EXCEPT ![m] = IF @ = "SENDING" THEN "PENDING" ELSE @]
        <3>1. Unsettled(m)
            BY <2>1 DEF Unsettled
        <3>2. /\ \A v \in Workers \ {w} : worker'[v] = worker[v]
              /\ worker'[w].pc = "fail"
            BY <1>0, <2>3 DEF Goto, TypeOK, Jobs
        <3>3. \A n \in Notes \ {m} : row'[n] = row[n]
            BY <2>3 DEF TypeOK
        <3>4. \A n \in Notes : Sent(n) => Sent(n)'
            BY <2>1, <3>2 DEF Sent
        <3>5. \A n \in Notes \ {m} : Unsettled(n)' => Unsettled(n)
            BY <3>2, <3>3, <3>4 DEF Unsettled
        <3> QED
            BY <1>b, <2>1, <2>3, <3>1, <3>5
    <2> QED
        BY <1>6, <2>2, <2>3 DEF ReleaseClaim
<1>7. ASSUME MarkFailed(w)
      PROVE  PaidFor'
    <2>1. UNCHANGED delivered /\ worker[w].pc = "markFailed"
        BY <1>7 DEF MarkFailed
    <2>2. CASE Strikes("db")
        BY <2>1, <2>2, FaultPays DEF Repeating, FaultKinds
    <2>3. CASE NoFault
        <3>1. /\ \A v \in Workers \ {w} : worker'[v] = worker[v]
              /\ worker'[w] = Resting
            BY <1>7 DEF MarkFailed, TypeOK
        <3>2. \A n \in Notes : row'[n] = row[n] \/ row'[n] = "FAILED"
            BY <1>7 DEF MarkFailed, TypeOK
        <3>3. \A n \in Notes : Sent(n) => Sent(n)'
            BY <2>1, <3>1 DEF Sent
        <3>4. \A n \in Notes : Unsettled(n)' => Unsettled(n)
            BY <3>1, <3>2, <3>3 DEF Unsettled, Resting
        <3> QED
            BY <1>b, <2>1, <2>3, <3>4
    <2> QED
        BY <1>7, <2>2, <2>3 DEF MarkFailed
<1> QED
    BY <1>1, <1>2, <1>3, <1>4, <1>5, <1>6, <1>7 DEF Process

\* Nor do the queue, the callers and the clock owe anything.
LEMMA PaidKept ==
    ASSUME TypeOK, Exclusive, PaidFor, [Next]_vars
    PROVE  PaidFor'
<1>a. Repeats \in Nat
    BY RepeatsNat
<1>b. ASSUME NoFault, UNCHANGED delivered, \A n \in Notes : Unsettled(n)' => Unsettled(n)
      PROVE  PaidFor'
    BY <1>a, <1>b, NoFaultCounts, NothingOwed
<1>1. ASSUME NEW c \in Callers, NEW n \in Notes, RecordNotification(c, n)
      PROVE  PaidFor'
    <2>1. UNCHANGED <<worker, delivered>> /\ NoFault /\ Unsettled(n)
        BY <1>1 DEF RecordNotification, Unsettled
    <2>2. \A k \in Notes \ {n} : row'[k] = row[k]
        BY <1>1 DEF RecordNotification, TypeOK
    <2>3. \A k \in Notes : Unsettled(k)' => Unsettled(k)
        BY <2>1, <2>2 DEF Unsettled, Sent
    <2> QED
        BY <1>b, <2>1, <2>3
<1>2. ASSUME NEW c \in Callers, (\E n \in Notes : SweepFindsPending(c, n)) \/ AddJob(c)
      PROVE  PaidFor'
    BY <1>b, <1>2 DEF SweepFindsPending, AddJob, Unsettled, Sent
<1>3. ASSUME NEW c \in Callers, LoseJob(c)
      PROVE  PaidFor'
    <2>1. Repeats' = Repeats
        BY <1>3, StrikeCounts DEF LoseJob, Repeating, FaultKinds
    <2>2. UNCHANGED delivered /\ \A n \in Notes : Unsettled(n)' => Unsettled(n)
        BY <1>3 DEF LoseJob, Unsettled, Sent
    <2> QED
        BY <1>a, <2>1, <2>2, NothingOwed
<1>4. ASSUME NEW w \in Workers, NEW n \in Notes, TakeJob(w, n)
      PROVE  PaidFor'
    <2>1. UNCHANGED <<row, delivered>> /\ NoFault /\ worker[w] = Resting
        BY <1>4 DEF TakeJob
    <2>2. /\ \A v \in Workers \ {w} : worker'[v] = worker[v]
          /\ worker'[w].pc = "read"
        BY <1>4 DEF TakeJob, TypeOK
    <2>3. \A k \in Notes : Sent(k) => Sent(k)'
        BY <2>1, <2>2 DEF Sent, Resting
    <2>4. \A k \in Notes : Unsettled(k)' => Unsettled(k)
        BY <2>1, <2>2, <2>3 DEF Unsettled
    <2> QED
        BY <1>b, <2>1, <2>4
<1>5. ASSUME NEW n \in Notes, RedeliverStalledJob(n)
      PROVE  PaidFor'
    <2>1. Repeats' = Repeats
        BY <1>5, StrikeCounts, NoFaultCounts DEF RedeliverStalledJob, Repeating, FaultKinds
    <2>2. UNCHANGED delivered /\ \A k \in Notes : Unsettled(k)' => Unsettled(k)
        BY <1>5 DEF RedeliverStalledJob, Unsettled, Sent
    <2> QED
        BY <1>a, <2>1, <2>2, NothingOwed
<1>6. ASSUME NEW n \in Notes, ClaimGrowsOld(n)
      PROVE  PaidFor'
    BY <1>b, <1>6 DEF ClaimGrowsOld, Unsettled, Sent
<1>7. CASE UNCHANGED vars
    BY <1>b, <1>7 DEF vars, NoFault, Unsettled, Sent
<1> QED
    BY <1>1, <1>2, <1>3, <1>4, <1>5, <1>6, <1>7, ProcessKeepsPaid DEF Next, Sweep, Deliver

\* However many jobs are lost, redelivered or swept up, an e-mail goes out
\* once, and once more for each lost answer, database error or crash at most.
THEOREM EmailOncePerFault == Spec => []AtMostOneEmailPerFault
<1>1. Init => Exclusive
    BY DEF Init, Exclusive, ClaimIsExclusive, ClaimIsHeld, AtWork, Resting
<1>2. ASSUME Init
      PROVE  PaidFor
    <2>1. Repeats = 0
        BY <1>2 DEF Init, Repeats, FaultKinds
    <2>2. ASSUME NEW n \in Notes
          PROVE  delivered[n] <= 1 + Repeats /\ delivered[n] <= Repeats
        <3>1. delivered[n] = 0
            BY <1>2 DEF Init
        <3> QED
            BY <2>1, <3>1
    <2> QED
        BY <2>2 DEF PaidFor
<1>3. PaidFor => AtMostOneEmailPerFault
    BY DEF PaidFor, AtMostOneEmailPerFault
<1> QED
    BY <1>1, <1>2, <1>3, ExclusiveKept, PaidKept, TypeCorrect, PTL DEF Spec

-----------------------------------------------------------------------------
(* No e-mail is given up early *)

\* A worker that is about to give an e-mail up knows that its attempt failed
\* for good, or has spent the last one; the job stays failed, and its attempts
\* stay counted.
SpentWhenFailed ==
    /\ \A w \in Workers : worker[w].pc = "markFailed" =>
            worker[w].fatal \/ (job[worker[w].note] = "failed" /\ made[worker[w].note] = Attempts)
    /\ \A n \in Notes : job[n] = "failed" => lock[n] = Nobody

\* A step that leaves failed jobs alone, and sends no other worker to markFailed.
LEMMA SpentStays ==
    ASSUME SpentWhenFailed, TypeOK,
           \A n \in Notes : job[n] = "failed" => job'[n] = "failed" /\ made'[n] = made[n],
           \A n \in Notes : job'[n] = "failed" => lock'[n] = Nobody,
           \A w \in Workers : worker'[w].pc = "markFailed" => worker'[w] = worker[w]
    PROVE  SpentWhenFailed'
<1>1. \A w \in Workers : worker[w].pc = "markFailed" => worker[w].note \in Notes
    BY DEF TypeOK, Jobs, Resting
<1> QED
    BY <1>1 DEF SpentWhenFailed

\* Leaving a job takes nothing but the worker's own lock along.
LEMMA CompleteSpent ==
    ASSUME SpentWhenFailed, TypeOK, NEW w \in Workers, worker[w] # Resting, CompleteJob(w)
    PROVE  SpentWhenFailed'
<1>1. worker[w].note \in Notes /\ w # Nobody
    BY NotificationsAssumption DEF TypeOK, Jobs
<1>2. \A n \in Notes : job[n] = "failed" => job'[n] = "failed" /\ made'[n] = made[n]
    BY <1>1 DEF CompleteJob, TypeOK, SpentWhenFailed
<1>3. \A n \in Notes : job'[n] = "failed" => lock'[n] = Nobody
    BY <1>1 DEF CompleteJob, TypeOK, SpentWhenFailed
<1>4. \A v \in Workers : worker'[v].pc = "markFailed" => worker'[v] = worker[v]
    BY DEF CompleteJob, TypeOK, Resting
<1> QED
    BY <1>2, <1>3, <1>4, SpentStays

\* A worker that goes on within its job, or drops it, gives nothing up.
LEMMA MovesOnSpent ==
    ASSUME SpentWhenFailed, TypeOK, UNCHANGED queue, NEW w \in Workers, worker[w] # Resting,
           \/ worker' = [worker EXCEPT ![w] = Resting]
           \/ \E pc \in Stages \ {"markFailed"}, f \in BOOLEAN :
                 \/ Goto(w, pc)
                 \/ worker' = [worker EXCEPT ![w].pc = pc, ![w].fatal = f]
    PROVE  SpentWhenFailed'
<1>1. worker[w] \in Jobs
    BY DEF TypeOK
<1>2. \A v \in Workers \ {w} : worker'[v] = worker[v]
    BY DEF Goto, TypeOK
<1>3. worker'[w].pc # "markFailed"
    <2>1. CASE worker' = [worker EXCEPT ![w] = Resting]
        BY <2>1 DEF TypeOK, Resting
    <2>2. ASSUME NEW pc \in Stages \ {"markFailed"}, NEW f \in BOOLEAN,
                 Goto(w, pc) \/ worker' = [worker EXCEPT ![w].pc = pc, ![w].fatal = f]
          PROVE  worker'[w].pc # "markFailed"
        BY <1>1, <2>2 DEF Goto, TypeOK, Jobs
    <2> QED
        BY <2>1, <2>2
<1> QED
    BY <1>2, <1>3, SpentStays DEF SpentWhenFailed, queue

\* What one worker does with its job.
LEMMA ProcessSpent ==
    ASSUME SpentWhenFailed, Typed, NEW w \in Workers, Process(w) \/ WorkerCrashes(w)
    PROVE  SpentWhenFailed'
<1> USE DEF Typed
<1>0. worker[w] # Resting /\ worker[w] \in Jobs /\ worker[w].note \in Notes
    BY DEF Process, WorkerCrashes, ReadNotification, ClaimForSending, ReadOrClaimThrows, Send,
        MarkSent, MarkSentThrows, ReleaseClaim, FailJob, MarkFailed, Resting, TypeOK, Jobs
<1>1. ASSUME ReadNotification(w) \/ ClaimForSending(w) \/ MarkSent(w)
      PROVE  SpentWhenFailed'
    <2>1. CompleteJob(w) \/ (UNCHANGED queue /\ (Goto(w, "claim") \/ Goto(w, "send")))
        BY <1>1 DEF ReadNotification, ClaimForSending, MarkSent
    <2> QED
        BY <1>0, <2>1, CompleteSpent, MovesOnSpent DEF Stages
<1>2. ASSUME ReadOrClaimThrows(w) \/ Send(w) \/ MarkSentThrows(w) \/ ReleaseClaim(w)
      PROVE  SpentWhenFailed'
    <2>1. /\ UNCHANGED queue
          /\ \E pc \in Stages \ {"markFailed"}, f \in BOOLEAN :
                Goto(w, pc) \/ worker' = [worker EXCEPT ![w].pc = pc, ![w].fatal = f]
        BY <1>2 DEF ReadOrClaimThrows, Send, MarkSentThrows, ReleaseClaim, Stages
    <2> QED
        BY <1>0, <2>1, MovesOnSpent
<1>3. ASSUME MarkFailed(w) \/ WorkerCrashes(w)
      PROVE  SpentWhenFailed'
    BY <1>0, <1>3, MovesOnSpent DEF MarkFailed, WorkerCrashes
<1>4. ASSUME FailJob(w)
      PROVE  SpentWhenFailed'
    <2> PICK n \in Notes : n = worker[w].note
        BY <1>0
    <2>1. CASE lock[n] # w
        BY <1>0, <1>4, <2>1, MovesOnSpent DEF FailJob
    <2>2. CASE lock[n] = w
        <3>1. job[n] = "active" /\ made[n] \in Nat /\ made[n] < Attempts /\ Attempts \in Nat
            BY <2>2, NotificationsAssumption DEF TypeOK, AttemptsLeft
        <3>2. /\ job' = [job EXCEPT ![n] = IF FinalAttempt(w) THEN "failed" ELSE "waiting"]
              /\ made' = [made EXCEPT ![n] = @ + 1]
              /\ lock' = [lock EXCEPT ![n] = Nobody]
              /\ worker' = [worker EXCEPT ![w] =
                              IF FinalAttempt(w) THEN [@ EXCEPT !.pc = "markFailed"] ELSE Resting]
            BY <1>4, <2>2 DEF FailJob
        <3>3. \A k \in Notes \ {n} : job'[k] = job[k] /\ made'[k] = made[k] /\ lock'[k] = lock[k]
            BY <3>2 DEF TypeOK
        <3>4. lock'[n] = Nobody /\ made'[n] = made[n] + 1
            BY <3>2 DEF TypeOK
        <3>5. \A v \in Workers \ {w} : worker'[v] = worker[v]
            BY <3>2 DEF TypeOK
        <3>6. \A v \in Workers \ {w} : worker[v].pc = "markFailed" => worker[v].note \in Notes
            BY DEF TypeOK, Jobs, Resting
        <3>7. \A v \in Workers \ {w} : worker'[v].pc = "markFailed" =>
                worker'[v].fatal \/ (job'[worker'[v].note] = "failed" /\ made'[worker'[v].note] = Attempts)
            BY <3>1, <3>3, <3>5, <3>6 DEF SpentWhenFailed
        <3>8. CASE FinalAttempt(w)
            <4>1. job'[n] = "failed"
                BY <3>2, <3>8 DEF TypeOK
            <4>2. worker'[w].note = n /\ worker'[w].fatal = worker[w].fatal
                BY <1>0, <3>2, <3>8 DEF TypeOK, Jobs
            <4>3. worker[w].fatal \/ made[n] + 1 >= Attempts
                BY <3>8 DEF FinalAttempt
            <4> QED
                BY <3>1, <3>3, <3>4, <3>7, <4>1, <4>2, <4>3 DEF SpentWhenFailed
        <3>9. CASE ~FinalAttempt(w)
            <4>1. worker'[w] = Resting
                BY <3>2, <3>9 DEF TypeOK
            <4> QED
                BY <3>3, <3>4, <3>7, <4>1 DEF SpentWhenFailed, Resting
        <3> QED
            BY <3>8, <3>9
    <2> QED
        BY <2>1, <2>2
<1> QED
    BY <1>1, <1>2, <1>3, <1>4 DEF Process

\* A job that failed stays as it is, however often it is added again.
LEMMA SpentKept ==
    ASSUME SpentWhenFailed, Typed, [Next]_vars
    PROVE  SpentWhenFailed'
<1> USE DEF Typed
<1>1. CASE UNCHANGED <<queue, worker>>
    BY <1>1 DEF queue, SpentWhenFailed
<1>2. ASSUME NEW c \in Callers, AddJob(c)
      PROVE  SpentWhenFailed'
    BY <1>2, SpentStays DEF AddJob, TypeOK, SpentWhenFailed
<1>3. ASSUME NEW w \in Workers, NEW n \in Notes, TakeJob(w, n)
      PROVE  SpentWhenFailed'
    BY <1>3, SpentStays DEF TakeJob, TypeOK, SpentWhenFailed
<1>4. ASSUME NEW n \in Notes, RedeliverStalledJob(n)
      PROVE  SpentWhenFailed'
    BY <1>4, SpentStays DEF RedeliverStalledJob, TypeOK, SpentWhenFailed
<1>5. CASE UNCHANGED vars
    BY <1>1, <1>5 DEF vars, queue
<1> QED
    BY <1>1, <1>2, <1>3, <1>4, <1>5, ProcessSpent
    DEF Next, Sweep, Deliver, RecordNotification, SweepFindsPending, LoseJob, ClaimGrowsOld

\* A step that gives an e-mail up is markFailed's, after its last attempt.
LEMMA GivesUpSpent ==
    ASSUME SpentWhenFailed, TypeOK, [Next]_vars, NEW n \in Notes,
           row[n] # "FAILED", row'[n] = "FAILED"
    PROVE  made[n] = Attempts \/ \E w \in Workers : worker[w].note = n /\ worker[w].fatal
<1>1. PICK w \in Workers : MarkFailed(w)
    <2>0. row' # row
        OBVIOUS
    <2>1. ASSUME NEW w \in Workers, Process(w) \/ WorkerCrashes(w)
          PROVE  MarkFailed(w)
        <3>1. row' # row /\ row \in [Notes -> RowStates] /\ row'[n] = "FAILED" /\ row[n] # "FAILED"
            BY <2>0 DEF TypeOK
        <3>2. ~(\/ ReadNotification(w) \/ ReadOrClaimThrows(w) \/ Send(w)
                \/ MarkSentThrows(w) \/ FailJob(w) \/ WorkerCrashes(w))
            BY <2>0 DEF ReadNotification, ReadOrClaimThrows, Send, MarkSentThrows, FailJob,
                WorkerCrashes
        <3>3. ~ClaimForSending(w)
            BY <3>1 DEF ClaimForSending
        <3>4. ~MarkSent(w)
            BY <3>1 DEF MarkSent
        <3>5. ~ReleaseClaim(w)
            BY <3>1 DEF ReleaseClaim
        <3> QED
            BY <2>1, <3>2, <3>3, <3>4, <3>5 DEF Process
    <2>2. ASSUME NEW c \in Callers, NEW k \in Notes, RecordNotification(c, k)
          PROVE  FALSE
        BY <2>2 DEF RecordNotification, TypeOK
    <2>3. ASSUME NEW c \in Callers, NEW k \in Notes,
                 SweepFindsPending(c, k) \/ AddJob(c) \/ LoseJob(c)
          PROVE  FALSE
        BY <2>0, <2>3 DEF SweepFindsPending, AddJob, LoseJob
    <2>4. ASSUME NEW w \in Workers, NEW k \in Notes, TakeJob(w, k)
          PROVE  FALSE
        BY <2>0, <2>4 DEF TakeJob
    <2>5. ASSUME NEW k \in Notes, RedeliverStalledJob(k) \/ ClaimGrowsOld(k)
          PROVE  FALSE
        BY <2>0, <2>5 DEF RedeliverStalledJob, ClaimGrowsOld
    <2>6. Next
        BY <2>0 DEF vars
    <2> QED
        BY <2>1, <2>2, <2>3, <2>4, <2>5, <2>6 DEF Next, Sweep, Deliver
<1>2. worker[w].note = n /\ worker[w].pc = "markFailed"
    BY <1>1 DEF MarkFailed, TypeOK
<1> QED
    BY <1>2 DEF SpentWhenFailed

\* Lost jobs, redeliveries and jobs that are added again never make the worker
\* give an e-mail up before the attempts of the queue are spent.
THEOREM NoEarlyGivingUp == Spec => GivenUpWhenSpent
<1>1. Init => Typed /\ SpentWhenFailed
    BY NotificationsAssumption
    DEF Init, Typed, TypeOK, AttemptsLeft, RowStates, JobStates, SpentWhenFailed, Resting
<1>2. Typed /\ SpentWhenFailed /\ [Next]_vars =>
        [\A n \in Notes :
            row[n] # "FAILED" /\ row'[n] = "FAILED" =>
                \/ made[n] = Attempts
                \/ \E w \in Workers : worker[w].note = n /\ worker[w].fatal]_vars
    BY GivesUpSpent DEF Typed
<1>3. Typed /\ SpentWhenFailed /\ [Next]_vars => (Typed /\ SpentWhenFailed)'
    BY TypeKept, SpentKept
<1> QED
    BY <1>1, <1>2, <1>3, PTL DEF Spec, GivenUpWhenSpent
=============================================================================
