--------------------------- MODULE Notifications ---------------------------
(* modules/notifications and worker.ts: e-mails recorded as rows in Postgres *)
(* and sent by worker processes fed from a BullMQ queue in Redis.  A row is  *)
(* created first, its job added second; a worker claims the row (PENDING or  *)
(* a stale SENDING), calls the provider and marks the row SENT; BullMQ       *)
(* retries failed jobs and redelivers those whose worker stalled.            *)
EXTENDS Naturals

CONSTANTS
    Notes,      \* the logical e-mails, by dedupeKey
    Callers,    \* requests, or recovery sweeps, about to add a job
    Workers,    \* jobs processed at the same time, each its own failure unit
    Attempts,   \* `attempts` of the queue (3)
    Faults      \* bound: how often a fault of each kind may happen

Nobody == "nobody"
NoNote == "no note"

\* Redis refuses a job; a worker is too busy to renew its lock; a worker dies;
\* a query of Postgres throws; the mail server takes the mail but its answer
\* never comes, so that the send throws.
FaultKinds == {"redis", "stall", "crash", "db", "answer"}

ASSUME NotificationsAssumption ==
    /\ Attempts \in Nat \ {0}
    /\ Faults \in [FaultKinds -> Nat]
    /\ Nobody \notin Workers
    /\ NoNote \notin Notes

VARIABLES
    row,        \* Notification.status, "absent" before it is created
    stale,      \* SENDING, and claimedAt is over STUCK_SENDING_THRESHOLD_MS old
    caller,     \* the note each caller is about to enqueue
    job,        \* BullMQ: the job whose id is the notification's
    made,       \* BullMQ: attempts made of that job
    lock,       \* BullMQ: the worker that holds the job's lock
    worker,     \* what each worker is doing
    delivered,  \* e-mails the mail server really accepted
    happened    \* how many faults of each kind have happened

vars == <<row, stale, caller, job, made, lock, worker, delivered, happened>>
queue == <<job, made, lock>>

RowStates == {"absent", "PENDING", "SENDING", "SENT", "FAILED"}
JobStates == {"none", "waiting", "active", "failed"}
Stages == {"read", "claim", "send", "markSent", "release", "fail", "markFailed"}
Jobs == [note : Notes, pc : Stages, fatal : BOOLEAN]
Resting == [note |-> NoNote, pc |-> "idle", fatal |-> FALSE]

Strikes(f) == happened[f] < Faults[f] /\ happened' = [happened EXCEPT ![f] = @ + 1]
NoFault == UNCHANGED happened

-----------------------------------------------------------------------------
(* Enqueuing *)

\* NotificationRepository.create: the unique dedupeKey hands back an existing
\* row, and only a row still PENDING goes on to the queue.
RecordNotification(c, n) ==
    /\ caller[c] = NoNote
    /\ row[n] \in {"absent", "PENDING"}
    /\ row' = [row EXCEPT ![n] = "PENDING"]
    /\ caller' = [caller EXCEPT ![c] = n]
    /\ UNCHANGED <<stale, queue, worker, delivered>> /\ NoFault

\* RecoverPendingNotificationsUseCase: findPendingOlderThan.
SweepFindsPending(c, n) ==
    /\ caller[c] = NoNote
    /\ row[n] = "PENDING"
    /\ caller' = [caller EXCEPT ![c] = n]
    /\ UNCHANGED <<row, stale, queue, worker, delivered>> /\ NoFault

\* queue.add ignores a job id it already has, failed jobs included.
AddJob(c) ==
    LET n == caller[c] IN
    /\ n # NoNote
    /\ IF job[n] = "none"
       THEN /\ job' = [job EXCEPT ![n] = "waiting"]
            /\ made' = [made EXCEPT ![n] = 0]
       ELSE UNCHANGED <<job, made>>
    /\ caller' = [caller EXCEPT ![c] = NoNote]
    /\ UNCHANGED <<row, stale, lock, worker, delivered>> /\ NoFault

\* Redis is down, or the caller dies between the row and the job.
LoseJob(c) ==
    /\ caller[c] # NoNote
    /\ Strikes("redis")
    /\ caller' = [caller EXCEPT ![c] = NoNote]
    /\ UNCHANGED <<row, stale, queue, worker, delivered>>

-----------------------------------------------------------------------------
(* The queue *)

TakeJob(w, n) ==
    /\ worker[w] = Resting
    /\ job[n] = "waiting"
    /\ job' = [job EXCEPT ![n] = "active"]
    /\ lock' = [lock EXCEPT ![n] = w]
    /\ worker' = [worker EXCEPT ![w] = [note |-> n, pc |-> "read", fatal |-> FALSE]]
    /\ UNCHANGED <<row, stale, caller, made, delivered>> /\ NoFault

\* A job whose worker lost its lock goes back: the worker died, or was too
\* busy to renew the lock ("stall") and carries on not knowing.
RedeliverStalledJob(n) ==
    /\ job[n] = "active"
    /\ IF worker[lock[n]].note = n THEN Strikes("stall") ELSE NoFault
    /\ job' = [job EXCEPT ![n] = "waiting"]
    /\ lock' = [lock EXCEPT ![n] = Nobody]
    /\ UNCHANGED <<row, stale, caller, made, worker, delivered>>

\* The processor returned: the job is removed (removeOnComplete), if it is
\* still this worker's.
CompleteJob(w) ==
    LET n == worker[w].note IN
    /\ IF lock[n] = w
       THEN job' = [job EXCEPT ![n] = "none"] /\ lock' = [lock EXCEPT ![n] = Nobody]
       ELSE UNCHANGED <<job, lock>>
    /\ worker' = [worker EXCEPT ![w] = Resting]
    /\ UNCHANGED made

\* Mutant: counts one attempt too many.
FinalAttemptLate(w) == worker[w].fatal \/ made[worker[w].note] >= Attempts

\* Mutant: counts one attempt too few.
FinalAttemptEarly(w) == worker[w].fatal \/ made[worker[w].note] + 2 >= Attempts

\* classifyFailedAttempt: "unrecoverable" or "attempts_exhausted".
FinalAttempt(w) == worker[w].fatal \/ made[worker[w].note] + 1 >= Attempts

\* The processor threw: another attempt, or - out of attempts, or
\* UnrecoverableError - the failed trail and the worker's "failed" handler.
FailJob(w) ==
    LET n == worker[w].note
        final == FinalAttempt(w)
    IN
    /\ worker[w].pc = "fail"
    /\ IF lock[n] = w
       THEN /\ made' = [made EXCEPT ![n] = @ + 1]
            /\ job' = [job EXCEPT ![n] = IF final THEN "failed" ELSE "waiting"]
            /\ lock' = [lock EXCEPT ![n] = Nobody]
            /\ worker' = [worker EXCEPT ![w] =
                            IF final THEN [@ EXCEPT !.pc = "markFailed"] ELSE Resting]
       ELSE worker' = [worker EXCEPT ![w] = Resting] /\ UNCHANGED queue
    /\ UNCHANGED <<row, stale, caller, delivered>> /\ NoFault

-----------------------------------------------------------------------------
(* ProcessNotificationJobUseCase *)

Goto(w, pc) == worker' = [worker EXCEPT ![w].pc = pc]

ReadNotification(w) ==
    /\ worker[w].pc = "read"
    /\ IF row[worker[w].note] \in {"SENT", "FAILED"}
       THEN CompleteJob(w)
       ELSE Goto(w, "claim") /\ UNCHANGED queue
    /\ UNCHANGED <<row, stale, caller, delivered>> /\ NoFault

\* Mutant: a row in SENDING is reclaimed however fresh its claim is.
ClaimableAtOnce(n) == row[n] \in {"PENDING", "SENDING"}

Claimable(n) == row[n] = "PENDING" \/ (row[n] = "SENDING" /\ stale[n])

\* The conditional update is the only thing between two workers; a worker
\* that does not get the claim leaves without an error, so its job is done.
ClaimForSending(w) ==
    LET n == worker[w].note IN
    /\ worker[w].pc = "claim"
    /\ IF Claimable(n)
       THEN /\ row' = [row EXCEPT ![n] = "SENDING"]
            /\ stale' = [stale EXCEPT ![n] = FALSE]
            /\ Goto(w, "send")
            /\ UNCHANGED queue
       ELSE CompleteJob(w) /\ UNCHANGED <<row, stale>>
    /\ UNCHANGED <<caller, delivered>> /\ NoFault

\* Either query may throw, before anything was written.
ReadOrClaimThrows(w) ==
    /\ worker[w].pc \in {"read", "claim"}
    /\ Strikes("db")
    /\ Goto(w, "fail")
    /\ UNCHANGED <<row, stale, caller, queue, delivered>>

\* NodemailerEmailProvider.send: accepted; accepted, but the socket times out
\* or breaks before the answer, which is an error like any other of the
\* mailer; or not sent, for good if there is no address or no template.
Send(w) ==
    LET n == worker[w].note IN
    /\ worker[w].pc = "send"
    /\ \/ /\ delivered' = [delivered EXCEPT ![n] = @ + 1]
          /\ \/ Goto(w, "markSent") /\ NoFault
             \/ Goto(w, "release") /\ Strikes("answer")
       \/ /\ \E fatal \in BOOLEAN :
               worker' = [worker EXCEPT ![w].pc = "release", ![w].fatal = fatal]
          /\ UNCHANGED delivered /\ NoFault
    /\ UNCHANGED <<row, stale, caller, queue>>

MarkSent(w) ==
    LET n == worker[w].note IN
    /\ worker[w].pc = "markSent"
    /\ row' = [row EXCEPT ![n] = IF @ = "SENDING" THEN "SENT" ELSE @]
    /\ CompleteJob(w)
    /\ UNCHANGED <<stale, caller, delivered>> /\ NoFault

\* The catch block does not tell a failed send from a failed bookkeeping.
MarkSentThrows(w) ==
    /\ worker[w].pc = "markSent"
    /\ Strikes("db")
    /\ Goto(w, "release")
    /\ UNCHANGED <<row, stale, caller, queue, delivered>>

\* Mutant: a failed send keeps its claim.
KeepClaim(w) ==
    /\ worker[w].pc = "release"
    /\ Goto(w, "fail")
    /\ NoFault
    /\ UNCHANGED <<row, stale, caller, queue, delivered>>

\* If the release itself throws, the database error is what BullMQ sees.
ReleaseClaim(w) ==
    LET n == worker[w].note IN
    /\ worker[w].pc = "release"
    /\ \/ /\ row' = [row EXCEPT ![n] = IF @ = "SENDING" THEN "PENDING" ELSE @]
          /\ stale' = [stale EXCEPT ![n] = FALSE]
          /\ Goto(w, "fail")
          /\ NoFault
       \/ /\ Strikes("db")
          /\ worker' = [worker EXCEPT ![w].pc = "fail", ![w].fatal = FALSE]
          /\ UNCHANGED <<row, stale>>
    /\ UNCHANGED <<caller, queue, delivered>>

\* MarkNotificationFailedUseCase, not awaited: if it throws, it is logged.
MarkFailed(w) ==
    LET n == worker[w].note IN
    /\ worker[w].pc = "markFailed"
    /\ \/ /\ row' = [row EXCEPT ![n] = IF @ \in {"PENDING", "SENDING"} THEN "FAILED" ELSE @]
          /\ NoFault
       \/ /\ Strikes("db")
          /\ UNCHANGED row
    /\ worker' = [worker EXCEPT ![w] = Resting]
    /\ UNCHANGED <<stale, caller, queue, delivered>>

\* The process dies; the job stays active until BullMQ notices.
WorkerCrashes(w) ==
    /\ worker[w] # Resting
    /\ Strikes("crash")
    /\ worker' = [worker EXCEPT ![w] = Resting]
    /\ UNCHANGED <<row, stale, caller, queue, delivered>>

\* A send is bounded to seconds, so a claim only grows old when nobody works on it.
AtWork(w, n) == worker[w].note = n /\ worker[w].pc \in {"send", "markSent", "release"}

ClaimGrowsOld(n) ==
    /\ row[n] = "SENDING" /\ ~stale[n]
    /\ \A w \in Workers : ~AtWork(w, n)
    /\ stale' = [stale EXCEPT ![n] = TRUE]
    /\ UNCHANGED <<row, caller, queue, worker, delivered>> /\ NoFault

-----------------------------------------------------------------------------
Init ==
    /\ row = [n \in Notes |-> "absent"]
    /\ stale = [n \in Notes |-> FALSE]
    /\ caller = [c \in Callers |-> NoNote]
    /\ job = [n \in Notes |-> "none"]
    /\ made = [n \in Notes |-> 0]
    /\ lock = [n \in Notes |-> Nobody]
    /\ worker = [w \in Workers |-> Resting]
    /\ delivered = [n \in Notes |-> 0]
    /\ happened = [f \in FaultKinds |-> 0]

Process(w) ==
    \/ ReadNotification(w) \/ ClaimForSending(w) \/ ReadOrClaimThrows(w)
    \/ Send(w) \/ MarkSent(w) \/ MarkSentThrows(w) \/ ReleaseClaim(w)
    \/ FailJob(w) \/ MarkFailed(w)

Sweep(n) == \E c \in Callers : SweepFindsPending(c, n)
Deliver(n) == \E w \in Workers : TakeJob(w, n)

Next ==
    \/ \E c \in Callers, n \in Notes : RecordNotification(c, n)
    \/ \E n \in Notes : Sweep(n) \/ Deliver(n) \/ RedeliverStalledJob(n) \/ ClaimGrowsOld(n)
    \/ \E c \in Callers : AddJob(c) \/ LoseJob(c)
    \/ \E w \in Workers : Process(w) \/ WorkerCrashes(w)

Spec == Init /\ [][Next]_vars

\* Workers finish what they take unless they die; the sweep runs every five
\* minutes, the stalled check every thirty seconds, and time passes.
FairSpec ==
    /\ Spec
    /\ \A w \in Workers : WF_vars(Process(w))
    /\ \A c \in Callers : WF_vars(AddJob(c))
    /\ \A n \in Notes :
        /\ SF_vars(Sweep(n))
        /\ SF_vars(Deliver(n))
        /\ WF_vars(ClaimGrowsOld(n))
        /\ WF_vars(RedeliverStalledJob(n) /\ NoFault)

-----------------------------------------------------------------------------
(* Properties *)

\* Types, and a lock is held exactly while its job is active.
TypeOK ==
    /\ row \in [Notes -> RowStates]
    /\ stale \in [Notes -> BOOLEAN]
    /\ caller \in [Callers -> Notes \cup {NoNote}]
    /\ job \in [Notes -> JobStates]
    /\ made \in [Notes -> 0..Attempts]
    /\ lock \in [Notes -> Workers \cup {Nobody}]
    /\ worker \in [Workers -> {Resting} \cup Jobs]
    /\ \A n \in Notes : job[n] = "active" <=> lock[n] # Nobody
    /\ delivered \in [Notes -> Nat]
    /\ happened \in [FaultKinds -> Nat]
    /\ \A f \in FaultKinds : happened[f] <= Faults[f]

\* At most one worker is between its claim and its release, whatever
\* BullMQ redelivers and whoever died: the provider is never called for the
\* same e-mail by two workers at a time.
ClaimIsExclusive ==
    \A n \in Notes : \A v, w \in Workers : AtWork(v, n) /\ AtWork(w, n) => v = w

\* "So a worker crash / BullMQ at-least-once redelivery can never fire the same
\* email twice" (NotificationStatus.SENDING in schema.prisma).
AtMostOneEmail ==
    \A n \in Notes : delivered[n] <= 1

\* What repeats an e-mail is a fault between the mail server's acceptance and
\* markSent - its answer or a query is lost, the worker dies - and each such
\* fault does so once: lost jobs, sweeps, stalls, redeliveries and retries of
\* what was not sent never do.
Repeats == happened["answer"] + happened["db"] + happened["crash"]

AtMostOneEmailPerFault ==
    \A n \in Notes : delivered[n] <= 1 + Repeats

\* An e-mail is only given up by a worker whose attempt failed for good, or was
\* the job's last: however often the job was redelivered, swept up or added
\* again, all the attempts of the queue have been made.
GivenUpWhenSpent ==
    [][\A n \in Notes :
        row[n] # "FAILED" /\ row'[n] = "FAILED" =>
            \/ made[n] = Attempts
            \/ \E w \in Workers : worker[w].note = n /\ worker[w].fatal]_vars

\* Every e-mail recorded ends SENT or FAILED: the sweep makes up for a lost
\* job, the redelivery and the stale claim for a lost worker, so that no crash
\* leaves "the row stuck in `SENDING` forever" (claimForSending's comment).
EveryEmailSettles ==
    \A n \in Notes : row[n] = "PENDING" ~> row[n] \in {"SENT", "FAILED"}

\* It does, unless a claim was orphaned: by a worker that died holding it, or
\* by a database that refused to take it back.
SettlesUnlessOrphaned ==
    \A n \in Notes :
        row[n] = "PENDING" ~>
            row[n] \in {"SENT", "FAILED"} \/ happened["crash"] + happened["db"] > 0
=============================================================================
