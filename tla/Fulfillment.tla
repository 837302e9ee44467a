---------------------------- MODULE Fulfillment ----------------------------
(***************************************************************************)
(* The life of one paid order: the durable job that checkout staged with   *)
(* the debit, the worker processes that claim the job and buy the items    *)
(* from suppliers, the reconciler that asks suppliers how their orders     *)
(* ended, the operator who requeues a dead letter, and the ledger refund   *)
(* that ends an order nobody could fulfill.                                *)
(*                                                                         *)
(* order, refunds, job and attempts are committed rows.  A worker keeps in *)
(* wk[k] what its session has read and flushed: two database sessions see  *)
(* each other's work only at a commit, and a flushed row stays locked      *)
(* until then.  Every step of a worker ends where the code awaits the      *)
(* supplier, a row lock or a commit.                                       *)
(***************************************************************************)
EXTENDS Naturals, FiniteSets, FiniteSetsExt

CONSTANTS
    Workers,       \* worker processes
    Reconcilers,   \* sessions of the reconciliation worker
    Admins,        \* sessions of operators' requests
    Suppliers,     \* providers with an eligible mapping for the product
    NoSupplier,    \* provider_id is NULL
    NItems,        \* lines of the order
    MaxRetries,    \* max_retries of the worker and the literal 3 of the service
    MaxAttempt,    \* bound: no attempt number beyond it
    MaxRestarts,   \* bound: restarts of worker processes
    RefundFaults   \* whether LedgerService.refund may raise

ASSUME FulfillmentConstants ==
    /\ NItems \in Nat \ {0} /\ MaxRetries \in Nat \ {0} /\ MaxRestarts \in Nat
    /\ MaxAttempt \in Nat /\ MaxAttempt >= MaxRetries
    /\ NoSupplier \notin Suppliers /\ RefundFaults \in BOOLEAN
    /\ IsFiniteSet(Suppliers)
    /\ Workers \cap (Reconcilers \cup Admins) = {} /\ Reconcilers \cap Admins = {}

VARIABLES
    order,      \* Order.status
    refunds,    \* number of ORDER_FULFILLMENT_REFUND rows for the order
    job,        \* the FulfillmentJobRecord
    attempts,   \* the FulfillmentAttempt rows, by attempt_number
    upstream,   \* the suppliers' orders, by attempt, item and supplier
    queue,      \* queue[k]: attempt_number of the job in k's asyncio.Queue, 0 if none
    wk,         \* the session and the program counter of each worker
    rc,         \* the session of each reconciler
    restarts

vars == <<order, refunds, job, attempts, upstream, queue, wk, rc, restarts>>

Attempts == 1..MaxAttempt
Items == 1..NItems

OrderStatus == {"PAID", "PROCESSING", "FULFILLED", "FAILED"}

LEGAL_TRANSITIONS ==
    [PAID       |-> {"PROCESSING", "FAILED"},
     PROCESSING |-> {"FULFILLED", "FAILED"},
     FULFILLED  |-> {},
     FAILED     |-> {}]

can_transition(current, target) ==
    current = target \/ target \in LEGAL_TRANSITIONS[current]

JobStatus == {"QUEUED", "RUNNING", "COMPLETED", "FAILED", "DEAD_LETTER"}

FulfillmentStatus == {"PROCESSING", "SUCCEEDED", "RETRYING", "UNKNOWN", "FAILED"}

ActiveStatus == {"PROCESSING", "RETRYING", "UNKNOWN"}

\* external_order_id names one item's order at one supplier.
ExternalOrder == Items \X Suppliers
NoOrder == <<0, NoSupplier>>

FulfillmentAttempt ==
    [status : FulfillmentStatus \cup {"NONE"}, provider : Suppliers \cup {NoSupplier},
     ext : ExternalOrder \cup {NoOrder}, retryable : BOOLEAN]

NoAttempt ==
    [status |-> "NONE", provider |-> NoSupplier, ext |-> NoOrder, retryable |-> FALSE]

\* A supplier's order: SENT is a request the supplier has not handled yet, OPEN
\* one it accepted and charged.
UpstreamState == {"NONE", "SENT", "OPEN", "COMPLETED", "FAILED"}

Idle ==
    [pc |-> "idle", n |-> 1, order |-> "PAID", touched |-> FALSE, found |-> "NONE",
     provider |-> NoSupplier, ext |-> NoOrder, item |-> 1, tried |-> {},
     at |-> NoSupplier, fresh |-> FALSE, first |-> NoOrder, open |-> {},
     retryable |-> FALSE, timeout |-> FALSE, outcome |-> "return"]

NoBatch ==
    [pc |-> "idle", todo |-> {}, order |-> "PAID",
     touched |-> FALSE, seen |-> [n \in Attempts |-> NoAttempt],
     dirty |-> [n \in Attempts |-> "NONE"], issue |-> "NONE"]

Init ==
    /\ order = "PAID" /\ refunds = 0
    /\ job = [status |-> "QUEUED", attempt_number |-> 1]
    /\ attempts = [n \in Attempts |-> NoAttempt]
    /\ upstream = [n \in Attempts |-> [i \in Items |-> [p \in Suppliers |-> "NONE"]]]
    /\ queue = [k \in Workers |-> 0]
    /\ wk = [k \in Workers |-> Idle]
    /\ rc = [r \in Reconcilers \cup Admins |-> NoBatch]
    /\ restarts = 0
-----------------------------------------------------------------------------
(* Row locks.  A worker that flushed the order or its attempt holds the row *)
(* until it commits; every other writer of the row waits.                   *)

InTransaction(k) == wk[k].pc \in {"routing", "waiting", "answered", "raised"}

OrderLocked(me) ==
    \/ \E k \in Workers \ {me} : InTransaction(k) /\ wk[k].touched
    \/ \E r \in (Reconcilers \cup Admins) \ {me} : rc[r].touched

AttemptLocked(n, me) ==
    \/ \E k \in Workers \ {me} : InTransaction(k) /\ wk[k].n = n /\ wk[k].found # "PROCESSING"
    \/ \E r \in (Reconcilers \cup Admins) \ {me} : rc[r].touched /\ rc[r].dirty[n] # "NONE"
-----------------------------------------------------------------------------
(* FulfillmentWorker: the queue of durable jobs.                            *)

poll_queued_jobs(k) ==
    /\ wk[k].pc = "idle" /\ queue[k] = 0 /\ job.status = "QUEUED"
    /\ queue' = [queue EXCEPT ![k] = job.attempt_number]
    /\ UNCHANGED <<order, refunds, job, attempts, upstream, wk, rc, restarts>>

\* The conditional UPDATE ... WHERE status = 'QUEUED', with its commit.
claim_job(k) ==
    /\ wk[k].pc = "idle" /\ queue[k] # 0
    /\ queue' = [queue EXCEPT ![k] = 0]
    /\ IF job.status = "QUEUED"
       THEN /\ job' = [job EXCEPT !.status = "RUNNING"]
            /\ wk' = [wk EXCEPT ![k] = [Idle EXCEPT !.pc = "claimed", !.n = queue[k]]]
       ELSE UNCHANGED <<job, wk>>
    /\ UNCHANGED <<order, refunds, attempts, upstream, rc, restarts>>
-----------------------------------------------------------------------------
(* FulfillmentService.execute_order_fulfillment, in the worker's session.   *)

\* The order is read, then the attempt of this number; the order's status is not
\* tested.
execute_load_order(k) ==
    /\ wk[k].pc = "claimed"
    /\ wk' = [wk EXCEPT ![k].pc = "ordered", ![k].order = order]
    /\ UNCHANGED <<order, refunds, job, attempts, upstream, queue, rc, restarts>>

execute_load_attempt(k) ==
    LET a == attempts[wk[k].n] IN
    /\ wk[k].pc = "ordered"
    /\ wk' = [wk EXCEPT ![k] =
                IF a.status = "SUCCEEDED"
                THEN [Idle EXCEPT !.pc = "report", !.n = wk[k].n, !.outcome = "return"]
                ELSE [@ EXCEPT !.pc = "loaded", !.found = a.status]]
    /\ UNCHANGED <<order, refunds, job, attempts, upstream, queue, rc, restarts>>

\* The attempt is inserted or set to PROCESSING and a PAID order becomes
\* PROCESSING; both are flushed.  A second insert of the key waits for the first
\* and then fails, and the failed session ends the worker's task.
execute_flush(k) ==
    LET w == wk[k] IN
    /\ w.pc = "loaded" /\ ~AttemptLocked(w.n, k)
    /\ \/ /\ w.found = "NONE" /\ attempts[w.n] # NoAttempt
          /\ wk' = [wk EXCEPT ![k] = [Idle EXCEPT !.pc = "dead"]]
       \/ /\ w.found = "NONE" => attempts[w.n] = NoAttempt
          /\ w.order = "PAID" => ~OrderLocked(k)
          /\ wk' = [wk EXCEPT ![k] =
                      [@ EXCEPT !.pc = "routing", !.touched = (w.order = "PAID"),
                                !.order = IF @ = "PAID" THEN "PROCESSING" ELSE @]]
    /\ UNCHANGED <<order, refunds, job, attempts, upstream, queue, rc, restarts>>

Raised(w, retryable, timeout) ==
    [w EXCEPT !.pc = "raised", !.retryable = retryable, !.timeout = timeout, !.at = NoSupplier,
              !.fresh = FALSE]

\* ProviderRouter: the order is sent to the next eligible supplier.  The key of
\* the request is the attempt and the item; a key the supplier knows is a replay.
create_order(k, p) ==
    LET w == wk[k] IN
    /\ w.pc = "routing" /\ p \notin w.tried
    /\ upstream' = [upstream EXCEPT ![w.n][w.item][p] = IF @ = "NONE" THEN "SENT" ELSE @]
    /\ wk' = [wk EXCEPT ![k].pc = "waiting", ![k].at = p,
                        ![k].fresh = (upstream[w.n][w.item][p] = "NONE")]
    /\ UNCHANGED <<order, refunds, job, attempts, queue, rc, restarts>>

\* No supplier is eligible or every one failed safely, which may be retried, or
\* a variant or the supplier's configuration is gone, which may not.
routing_failed(k) ==
    /\ wk[k].pc = "routing"
    /\ \E retryable \in BOOLEAN : wk' = [wk EXCEPT ![k] = Raised(@, retryable, FALSE)]
    /\ UNCHANGED <<order, refunds, job, attempts, upstream, queue, rc, restarts>>

\* The supplier answers.  An order that is not COMPLETED yet is reported as
\* pending or as UNKNOWN; an order that failed ends the attempt.
order_response(k) ==
    LET w == wk[k]
        x == <<w.item, w.at>>
        first == IF w.item = 1 THEN x ELSE w.first
        Answered(state) ==
            [w EXCEPT !.first = first, !.tried = {}, !.at = NoSupplier, !.fresh = FALSE,
                      !.open = IF state = "COMPLETED" THEN @ ELSE @ \cup {state},
                      !.item = IF @ = NItems THEN @ ELSE @ + 1,
                      !.pc = IF w.item = NItems THEN "answered" ELSE "routing",
                      !.provider = IF w.item = NItems THEN w.at ELSE @,
                      !.ext = IF w.item = NItems THEN first ELSE @]
    IN
    /\ w.pc = "waiting"
    /\ \/ /\ upstream[w.n][w.item][w.at] = "COMPLETED"
          /\ wk' = [wk EXCEPT ![k] = Answered("COMPLETED")]
       \/ /\ upstream[w.n][w.item][w.at] = "OPEN"
          /\ \E state \in {"PENDING", "UNKNOWN"} : wk' = [wk EXCEPT ![k] = Answered(state)]
       \/ /\ upstream[w.n][w.item][w.at] = "FAILED"
          /\ wk' = [wk EXCEPT ![k] =
                      Raised([w EXCEPT !.provider = w.at, !.ext = x], FALSE, FALSE)]
    /\ UNCHANGED <<order, refunds, job, attempts, upstream, queue, rc, restarts>>

safe_to_failover_timeout(k) ==
    LET w == wk[k] IN
    /\ w.pc = "waiting"
    /\ wk' = [wk EXCEPT ![k] = [w EXCEPT !.pc = "routing", !.tried = @ \cup {w.at},
                                         !.at = NoSupplier, !.fresh = FALSE]]
    /\ UNCHANGED <<order, refunds, job, attempts, upstream, queue, rc, restarts>>

\* ProviderRateLimitError and the other errors that prove the supplier did not
\* take this request: the router tries the next supplier.
safe_to_failover(k) ==
    LET w == wk[k] IN
    /\ w.pc = "waiting"
    /\ w.fresh => upstream[w.n][w.item][w.at] = "SENT"
    /\ upstream' = [upstream EXCEPT ![w.n][w.item][w.at] = IF w.fresh THEN "NONE" ELSE @]
    /\ wk' = [wk EXCEPT ![k] = [w EXCEPT !.pc = "routing", !.tried = @ \cup {w.at},
                                         !.at = NoSupplier, !.fresh = FALSE]]
    /\ UNCHANGED <<order, refunds, job, attempts, queue, rc, restarts>>

\* A timeout, a network error or a permanent error: no failover, and the request
\* may still reach the supplier.
halt_failover(k) ==
    /\ wk[k].pc = "waiting"
    /\ \E e \in {<<TRUE, TRUE>>, <<TRUE, FALSE>>, <<FALSE, FALSE>>} :
          wk' = [wk EXCEPT ![k] = Raised(@, e[1], e[2])]
    /\ UNCHANGED <<order, refunds, job, attempts, upstream, queue, rc, restarts>>
-----------------------------------------------------------------------------
(* The commits that end an execution.  Only the columns the session changed *)
(* are written, over whatever another session committed meanwhile.          *)

CommitAttempt_uncorrelated(w, status, retryable) ==
    attempts' = [attempts EXCEPT ![w.n].status = status, ![w.n].retryable = retryable]

CommitAttempt(w, status, retryable) ==
    attempts' = [attempts EXCEPT ![w.n] =
                   [status |-> IF w.found = status /\ status = "PROCESSING" THEN @.status ELSE status,
                    retryable |-> retryable,
                    provider |-> IF w.provider = NoSupplier THEN @.provider ELSE w.provider,
                    ext |-> IF w.ext = NoOrder THEN @.ext ELSE w.ext]]

CommitOrder_flushed(w, status) == order' = IF w.touched THEN w.order ELSE order

CommitOrder(w, status) ==
    order' = IF w.touched \/ status # w.order THEN status ELSE order

Committable(k, status) ==
    /\ ~AttemptLocked(wk[k].n, k)
    /\ wk[k].touched \/ status # wk[k].order => ~OrderLocked(k)

Report(k, outcome) ==
    wk' = [wk EXCEPT ![k] = [Idle EXCEPT !.pc = "report", !.n = wk[k].n, !.outcome = outcome]]

refund_absent == UNCHANGED refunds

refund_blind == refunds' = refunds + 1

\* LedgerService.refund: one row per order, found or inserted under the wallet's lock.
refund == refunds' = IF refunds = 0 THEN 1 ELSE refunds

\* Every item was answered: SUCCEEDED and FULFILLED if all are COMPLETED,
\* otherwise the attempt waits for reconciliation.
execute_answered(k) ==
    LET w == wk[k] IN
    /\ w.pc = "answered"
    /\ \/ /\ w.open # {} /\ Committable(k, w.order)
          /\ CommitAttempt(w, IF NItems > 1 \/ "UNKNOWN" \in w.open THEN "UNKNOWN"
                              ELSE "PROCESSING", FALSE)
          /\ CommitOrder(w, w.order)
          /\ Report(k, "return")
       \/ /\ w.open = {} /\ can_transition(w.order, "FULFILLED")
          /\ Committable(k, "FULFILLED")
          /\ CommitAttempt(w, "SUCCEEDED", FALSE)
          /\ CommitOrder(w, "FULFILLED")
          /\ Report(k, "return")
       \/ /\ w.open = {} /\ ~can_transition(w.order, "FULFILLED")
          /\ wk' = [wk EXCEPT ![k] = Raised(w, FALSE, FALSE)]
          /\ UNCHANGED <<order, attempts>>
    /\ UNCHANGED <<refunds, job, upstream, queue, rc, restarts>>

FinalAttempt_late(w) == ~w.retryable \/ w.n > MaxRetries

\* A permanent error, or the last attempt.
FinalAttempt(w) == ~w.retryable \/ w.n >= MaxRetries

\* Whether LedgerService.refund returns in this session.
RefundOutcomes == IF RefundFaults THEN BOOLEAN ELSE {TRUE}

\* The failure flow: a retryable error of an early attempt is left to the next
\* attempt; any other is refunded, and an error of the refund is swallowed.
execute_failed(k) ==
    LET w == wk[k] IN
    /\ w.pc = "raised"
    /\ \/ /\ ~FinalAttempt(w) /\ Committable(k, w.order)
          /\ CommitAttempt(w, IF w.timeout THEN "UNKNOWN" ELSE "RETRYING", TRUE)
          /\ CommitOrder(w, w.order)
          /\ Report(k, "retry")
          /\ UNCHANGED refunds
       \/ /\ FinalAttempt(w)
          /\ \E ok \in RefundOutcomes :
               LET status == IF ok /\ can_transition(w.order, "FAILED") THEN "FAILED" ELSE w.order
               IN /\ Committable(k, status)
                  /\ CommitAttempt(w, "FAILED", w.retryable)
                  /\ CommitOrder(w, status)
                  /\ IF ok THEN refund ELSE UNCHANGED refunds
          /\ Report(k, "dead")
    /\ UNCHANGED <<job, upstream, queue, rc, restarts>>

\* _process_job records the outcome in the job, in a commit of its own.
process_job_report(k) ==
    LET w == wk[k] IN
    /\ w.pc = "report"
    /\ job' = CASE w.outcome = "return" -> [job EXCEPT !.status = "COMPLETED"]
               [] w.outcome = "retry" -> [status |-> "QUEUED", attempt_number |-> w.n + 1]
               [] w.outcome = "dead" -> [job EXCEPT !.status = "DEAD_LETTER"]
    /\ wk' = [wk EXCEPT ![k] = IF w.outcome = "retry" THEN [Idle EXCEPT !.pc = "backoff", !.n = w.n]
                               ELSE Idle]
    /\ UNCHANGED <<order, refunds, attempts, upstream, queue, rc, restarts>>

\* After the backoff the job goes back to this process's queue.
enqueue_retry(k) ==
    /\ wk[k].pc = "backoff"
    /\ queue' = [queue EXCEPT ![k] = IF @ = 0 THEN wk[k].n + 1 ELSE @]
    /\ wk' = [wk EXCEPT ![k] = Idle]
    /\ UNCHANGED <<order, refunds, job, attempts, upstream, rc, restarts>>

recover_pending_jobs_queued(k) ==
    LET pending == job.status = "QUEUED" IN
    /\ restarts < MaxRestarts /\ restarts' = restarts + 1
    /\ wk' = [wk EXCEPT ![k] = Idle]
    /\ queue' = [queue EXCEPT ![k] = IF pending THEN job.attempt_number ELSE 0]
    /\ UNCHANGED <<order, refunds, job, attempts, upstream, rc>>

recover_pending_jobs_first(k) ==
    LET pending == job.status \in {"QUEUED", "RUNNING"} IN
    /\ restarts < MaxRestarts /\ restarts' = restarts + 1
    /\ wk' = [wk EXCEPT ![k] = Idle]
    /\ queue' = [queue EXCEPT ![k] = IF pending THEN 1 ELSE 0]
    /\ job' = IF pending THEN [status |-> "QUEUED", attempt_number |-> 1] ELSE job
    /\ UNCHANGED <<order, refunds, attempts, upstream, rc>>

\* A worker process stops anywhere and starts again: its session is rolled back,
\* its queue is lost, and recover_pending_jobs requeues what is QUEUED or RUNNING.
recover_pending_jobs(k) ==
    LET pending == job.status \in {"QUEUED", "RUNNING"} IN
    /\ restarts < MaxRestarts /\ restarts' = restarts + 1
    /\ wk' = [wk EXCEPT ![k] = Idle]
    /\ queue' = [queue EXCEPT ![k] = IF pending THEN job.attempt_number ELSE 0]
    /\ job' = IF pending THEN [job EXCEPT !.status = "QUEUED"] ELSE job
    /\ UNCHANGED <<order, refunds, attempts, upstream, rc>>
-----------------------------------------------------------------------------
(* ReconciliationService.  A batch reads the active attempts and the order  *)
(* once; what it set on a row before an exception stays in the session and  *)
(* is written by the session's next commit.                                 *)

Active == {n \in Attempts : attempts[n].status \in ActiveStatus}

Seen(ns) == [n \in Attempts |-> IF n \in ns THEN attempts[n] ELSE NoAttempt]

\* A batch over all orders: its attempts are read first, each order when the
\* batch comes to it.
reconcile_active_attempts(r) ==
    /\ rc[r].pc = "idle" /\ Active # {}
    /\ rc' = [rc EXCEPT ![r] = [@ EXCEPT !.pc = "scanned", !.todo = Active, !.seen = Seen(Active)]]
    /\ UNCHANGED <<order, refunds, job, attempts, upstream, queue, wk, restarts>>

load_order(r) ==
    /\ rc[r].pc = "scanned"
    /\ rc' = [rc EXCEPT ![r].pc = "batch", ![r].order = order]
    /\ UNCHANGED <<order, refunds, job, attempts, upstream, queue, wk, restarts>>

\* The operator's request about this order reads the order, then its latest
\* active attempt.
request_order(r) ==
    /\ rc[r].pc = "idle"
    /\ rc' = [rc EXCEPT ![r].pc = "opened", ![r].order = order]
    /\ UNCHANGED <<order, refunds, job, attempts, upstream, queue, wk, restarts>>

reconcile_order(r) ==
    /\ rc[r].pc = "opened"
    /\ rc' = [rc EXCEPT ![r] =
                LET latest == IF Active = {} THEN {} ELSE {Max(Active)} IN
                [@ EXCEPT !.pc = "batch", !.todo = latest, !.seen = Seen(latest)]]
    /\ UNCHANGED <<order, refunds, job, attempts, upstream, queue, wk, restarts>>

get_order_optimistic(n, a) ==
    IF a.ext # NoOrder /\ a.ext[2] = a.provider /\ upstream[n][a.ext[1]][a.provider] # "NONE"
    THEN "COMPLETED" ELSE "NONE"

\* What the supplier says of the attempt's external order: nothing when there is
\* none, or when it was placed at another supplier than provider_id.
get_order(n, a) ==
    IF a.ext # NoOrder /\ a.ext[2] = a.provider THEN upstream[n][a.ext[1]][a.provider] ELSE "NONE"

\* The session's commit writes every row the session changed.
SessionCommit(b) ==
    /\ attempts' = [n \in Attempts |->
                      IF b.dirty[n] = "NONE" THEN attempts[n]
                      ELSE [attempts[n] EXCEPT !.status = b.dirty[n], !.retryable = FALSE]]
    /\ order' = IF b.touched THEN b.order ELSE order

SessionMayWrite(r, b) ==
    /\ \A n \in Attempts : b.dirty[n] # "NONE" => ~AttemptLocked(n, r)
    /\ b.touched => ~OrderLocked(r)

Committed(b) == [b EXCEPT !.touched = FALSE, !.dirty = NoBatch.dirty]

\* The attempt this step is about, what the supplier says of it, and the session
\* after the attempt's status, or also the order's, has been set.
Current(b) == Min(b.todo)

UpstreamOf(b) == get_order(Current(b), b.seen[Current(b)])

SetAttempt(b, status) ==
    [b EXCEPT !.todo = @ \ {Current(b)}, !.seen[Current(b)] = NoAttempt,
              !.dirty[Current(b)] = IF status = b.seen[Current(b)].status THEN "NONE" ELSE status]

SetOrder(b, status, target, issue) ==
    [SetAttempt(b, status) EXCEPT !.order = target, !.touched = @ \/ target # b.order,
                                  !.issue = issue]

InBatch(r) == rc[r].pc = "batch" /\ rc[r].todo # {}

\* The supplier cannot be asked, or does not know the order.
reconcile_query_failed(r) ==
    /\ InBatch(r)
    /\ rc' = [rc EXCEPT ![r].todo = @ \ {Current(rc[r])}, ![r].seen[Current(rc[r])] = NoAttempt]
    /\ UNCHANGED <<order, refunds, job, attempts, upstream, queue, wk, restarts>>

reconcile_completed(r) ==
    /\ InBatch(r) /\ UpstreamOf(rc[r]) = "COMPLETED"
    /\ IF can_transition(rc[r].order, "FULFILLED")
       THEN LET b == SetOrder(rc[r], "SUCCEEDED", "FULFILLED", "OUT_OF_SYNC_RESOLVED") IN
            /\ SessionMayWrite(r, b) /\ SessionCommit(b)
            /\ rc' = [rc EXCEPT ![r] = Committed(b)]
       ELSE /\ rc' = [rc EXCEPT ![r] = SetAttempt(rc[r], "SUCCEEDED")]
            /\ UNCHANGED <<order, attempts>>
    /\ UNCHANGED <<refunds, job, upstream, queue, wk, restarts>>

\* Attempt and order FAILED, then the refund.  When the refund raises, its
\* savepoint is undone and the two rows stay changed in the session.
Compensate(r, issue) ==
    LET b == SetOrder(rc[r], "FAILED", "FAILED", issue) IN
    IF can_transition(rc[r].order, "FAILED")
    THEN /\ SessionMayWrite(r, b)
         /\ \/ /\ refund /\ SessionCommit(b)
               /\ rc' = [rc EXCEPT ![r] = Committed(b)]
            \/ /\ FALSE \in RefundOutcomes
               /\ rc' = [rc EXCEPT ![r] = [b EXCEPT !.issue = "NONE"]]
               /\ UNCHANGED <<order, attempts, refunds>>
    ELSE /\ rc' = [rc EXCEPT ![r] = SetAttempt(rc[r], "FAILED")]
         /\ UNCHANGED <<order, attempts, refunds>>

reconcile_failed(r) ==
    /\ InBatch(r) /\ UpstreamOf(rc[r]) = "FAILED"
    /\ Compensate(r, "UPSTREAM_FAILED_RESOLVED")
    /\ UNCHANGED <<job, upstream, queue, wk, restarts>>

\* An accepted order that has been pending too long is cancelled, which the
\* supplier may refuse, and refunded.
activation_timeout(r) ==
    LET n == Current(rc[r])
        x == rc[r].seen[n].ext
    IN
    /\ InBatch(r) /\ UpstreamOf(rc[r]) = "OPEN"
    /\ \E state \in {"OPEN", "FAILED"} : upstream' = [upstream EXCEPT ![n][x[1]][x[2]] = state]
    /\ Compensate(r, "ACTIVATION_TIMED_OUT_REFUNDED")
    /\ UNCHANGED <<job, queue, wk, restarts>>

reconcile_pending(r) ==
    /\ InBatch(r) /\ UpstreamOf(rc[r]) = "OPEN"
    /\ \E status \in {"UNKNOWN", "PROCESSING"} :
          LET b == SetAttempt(rc[r], status) IN
          /\ SessionMayWrite(r, b) /\ SessionCommit(b)
          /\ rc' = [rc EXCEPT ![r] = Committed(b)]
    /\ UNCHANGED <<refunds, job, upstream, queue, wk, restarts>>

\* An attempt of another order in the same batch ends in a commit of the session.
commit_for_another_order(r) ==
    LET b == rc[r] IN
    /\ b.pc = "batch" /\ b.dirty # NoBatch.dirty
    /\ SessionMayWrite(r, b) /\ SessionCommit(b)
    /\ rc' = [rc EXCEPT ![r] = Committed(b)]
    /\ UNCHANGED <<refunds, job, upstream, queue, wk, restarts>>

\* The worker's session closes without another commit.
end_batch(r) ==
    /\ rc[r].pc = "batch" /\ rc[r].todo = {}
    /\ rc' = [rc EXCEPT ![r] = NoBatch]
    /\ UNCHANGED <<order, refunds, job, attempts, upstream, queue, wk, restarts>>

\* The operator's request updates the job from the result, and commits.
reconcile_fulfillment_order(r) ==
    LET b == rc[r] IN
    /\ b.pc = "batch" /\ b.todo = {}
    /\ SessionMayWrite(r, b) /\ SessionCommit(b)
    /\ job' = CASE b.issue = "OUT_OF_SYNC_RESOLVED" -> [job EXCEPT !.status = "COMPLETED"]
               [] b.issue = "UPSTREAM_FAILED_RESOLVED" -> [job EXCEPT !.status = "FAILED"]
               [] OTHER -> job
    /\ rc' = [rc EXCEPT ![r] = NoBatch]
    /\ UNCHANGED <<refunds, upstream, queue, wk, restarts>>

\* The process of a batch or of a request dies: its session is rolled back.
abandon(r) ==
    /\ rc[r].pc # "idle" /\ restarts < MaxRestarts
    /\ restarts' = restarts + 1
    /\ rc' = [rc EXCEPT ![r] = NoBatch]
    /\ UNCHANGED <<order, refunds, job, attempts, upstream, queue, wk>>
-----------------------------------------------------------------------------
(* The operator's requeue of a dead letter.                                 *)

Made == {n \in Attempts : attempts[n] # NoAttempt}

evaluate_manual_requeue_unguarded == TRUE

evaluate_manual_requeue ==
    /\ order \in {"PAID", "PROCESSING"}
    /\ refunds = 0
    /\ Made # {} => LET latest == attempts[Max(Made)] IN
                    /\ latest.ext = NoOrder
                    /\ latest.status \notin {"UNKNOWN", "SUCCEEDED", "PROCESSING"}
                    /\ latest.status = "FAILED" => latest.retryable

requeue_dead_letter_job_same ==
    /\ job.status = "DEAD_LETTER" /\ ~OrderLocked("operator")
    /\ evaluate_manual_requeue
    /\ job' = [job EXCEPT !.status = "QUEUED"]
    /\ UNCHANGED <<order, refunds, attempts, upstream, queue, wk, rc, restarts>>

requeue_dead_letter_job ==
    LET next == Max({job.attempt_number} \cup Made) + 1 IN
    /\ job.status = "DEAD_LETTER" /\ ~OrderLocked("operator")
    /\ evaluate_manual_requeue
    /\ next <= MaxAttempt
    /\ job' = [status |-> "QUEUED", attempt_number |-> next]
    /\ UNCHANGED <<order, refunds, attempts, upstream, queue, wk, rc, restarts>>
-----------------------------------------------------------------------------
(* The suppliers.  A request that was sent is accepted or lost, whether or  *)
(* not anyone still waits for the answer; an accepted order ends.           *)

Supplier(n, i, p, from, to) ==
    /\ upstream[n][i][p] = from
    /\ upstream' = [upstream EXCEPT ![n][i][p] = to]
    /\ UNCHANGED <<order, refunds, job, attempts, queue, wk, rc, restarts>>

SupplierHandles(n, i, p) ==
    Supplier(n, i, p, "SENT", "OPEN") \/ Supplier(n, i, p, "SENT", "NONE")

SupplierEnds(n, i, p) ==
    Supplier(n, i, p, "OPEN", "COMPLETED") \/ Supplier(n, i, p, "OPEN", "FAILED")

SupplierStep ==
    \E n \in Attempts, i \in Items, p \in Suppliers :
       SupplierHandles(n, i, p) \/ SupplierEnds(n, i, p)

WorkerStep(k) ==
    \/ poll_queued_jobs(k) \/ claim_job(k)
    \/ execute_load_order(k) \/ execute_load_attempt(k) \/ execute_flush(k)
    \/ \E p \in Suppliers : create_order(k, p)
    \/ routing_failed(k) \/ order_response(k) \/ safe_to_failover(k) \/ halt_failover(k)
    \/ execute_answered(k) \/ execute_failed(k) \/ process_job_report(k) \/ enqueue_retry(k)

QueryStep(r) ==
    reconcile_completed(r) \/ reconcile_failed(r) \/ activation_timeout(r) \/ reconcile_pending(r)

ReconcilerStep(r) ==
    \/ reconcile_active_attempts(r) \/ load_order(r)
    \/ reconcile_query_failed(r) \/ QueryStep(r)
    \/ commit_for_another_order(r) \/ end_batch(r)

AdminStep(r) ==
    \/ request_order(r) \/ reconcile_order(r)
    \/ reconcile_query_failed(r) \/ QueryStep(r)
    \/ reconcile_fulfillment_order(r)

Next ==
    \/ \E k \in Workers : WorkerStep(k) \/ recover_pending_jobs(k)
    \/ \E r \in Reconcilers : ReconcilerStep(r) \/ abandon(r)
    \/ \E r \in Admins : AdminStep(r) \/ abandon(r)
    \/ requeue_dead_letter_job
    \/ SupplierStep

Spec == Init /\ [][Next]_vars

Fairness ==
    /\ \A k \in Workers : WF_vars(WorkerStep(k))
    /\ \A r \in Reconcilers : /\ WF_vars(ReconcilerStep(r))
                             /\ SF_vars(reconcile_completed(r) \/ reconcile_failed(r))
    /\ \A n \in Attempts, i \in Items, p \in Suppliers :
          WF_vars(SupplierHandles(n, i, p)) /\ WF_vars(SupplierEnds(n, i, p))

FairSpec == Spec /\ Fairness
-----------------------------------------------------------------------------
(* Properties.                                                              *)

WorkerState ==
    [pc : {"idle", "claimed", "ordered", "loaded", "routing", "waiting", "answered",
           "raised", "report", "backoff", "dead"},
     n : Attempts, order : OrderStatus, touched : BOOLEAN,
     found : FulfillmentStatus \cup {"NONE"}, provider : Suppliers \cup {NoSupplier},
     ext : ExternalOrder \cup {NoOrder}, item : Items, tried : SUBSET Suppliers,
     at : Suppliers \cup {NoSupplier}, fresh : BOOLEAN, first : ExternalOrder \cup {NoOrder},
     open : SUBSET {"PENDING", "UNKNOWN"}, retryable : BOOLEAN, timeout : BOOLEAN,
     outcome : {"return", "retry", "dead"}]

ReconcilerState ==
    [pc : {"idle", "scanned", "opened", "batch"}, todo : SUBSET Attempts, order : OrderStatus,
     touched : BOOLEAN, seen : [Attempts -> FulfillmentAttempt],
     dirty : [Attempts -> FulfillmentStatus \cup {"NONE"}],
     issue : {"NONE", "OUT_OF_SYNC_RESOLVED", "UPSTREAM_FAILED_RESOLVED",
              "ACTIVATION_TIMED_OUT_REFUNDED"}]

\* Every row, session and supplier order has its type; the job's attempt number
\* stays within the attempts that _process_job allows.
TypeOK ==
    /\ order \in OrderStatus /\ refunds \in Nat
    /\ job \in [status : JobStatus, attempt_number : Attempts]
    /\ attempts \in [Attempts -> FulfillmentAttempt]
    /\ upstream \in [Attempts -> [Items -> [Suppliers -> UpstreamState]]]
    /\ queue \in [Workers -> Attempts \cup {0}]
    /\ wk \in [Workers -> WorkerState]
    /\ rc \in [Reconcilers \cup Admins -> ReconcilerState]
    /\ restarts \in 0..MaxRestarts

\* A FAILED order has been refunded: the service's failure flow and the
\* reconciler move the order and post the refund in one commit.
FailedIsRefunded == order = "FAILED" => refunds > 0

\* However many executions and reconciliations fail, the order is refunded once.
RefundedAtMostOnce == refunds <= 1

\* A FULFILLED order was delivered: each of its items is COMPLETED at a supplier.
FulfilledWasDelivered ==
    order = "FULFILLED" =>
       \A i \in Items : \E n \in Attempts, p \in Suppliers : upstream[n][i][p] = "COMPLETED"

\* An order that was paid and has not ended is somebody's work: a job that will
\* run, a dead letter for the operator, or an attempt whose supplier the
\* reconciler can ask.
OpenOrderHasOwner ==
    order \in {"PAID", "PROCESSING"} =>
       \/ job.status \in {"QUEUED", "RUNNING", "DEAD_LETTER"}
       \/ \E n \in Active : attempts[n].provider # NoSupplier

\* A refunded order is never open again, whatever a session that read it before
\* the refund commits later.
RefundedStaysClosed == refunds > 0 => order \in {"FULFILLED", "FAILED"}

\* The job's attempt number, which makes the suppliers' idempotency keys, never
\* goes back.
AttemptNumbersGrow == [][job'.attempt_number >= job.attempt_number]_vars

\* Every paid order ends FULFILLED or FAILED.
PaidOrderSettles == order \in {"PAID", "PROCESSING"} ~> order \in {"FULFILLED", "FAILED"}

\* Nothing is bought for an order whose customer has been refunded.
NoPurchaseAfterRefund ==
    [][\A k \in Workers, p \in Suppliers : create_order(k, p) => refunds = 0]_vars

\* An operator's requeue starts an attempt whose key no supplier has seen.
RequeueUsesFreshKey ==
    [][job.status = "DEAD_LETTER" /\ job'.status = "QUEUED" =>
          LET n == job'.attempt_number IN
          /\ attempts[n] = NoAttempt
          /\ \A i \in Items, p \in Suppliers : upstream[n][i][p] = "NONE"]_vars

\* Failover leaves no second order behind: under one key at most one supplier
\* holds a request or an order.
OneSupplierPerKey ==
    \A n \in Attempts, i \in Items :
       Cardinality({p \in Suppliers : upstream[n][i][p] \in {"SENT", "OPEN", "COMPLETED"}}) <= 1

\* An item is bought at most once, over all attempts and suppliers of the order.
AtMostOnePurchase ==
    \A i \in Items :
       Cardinality({x \in Attempts \X Suppliers :
                      upstream[x[1]][i][x[2]] \in {"OPEN", "COMPLETED"}}) <= 1

\* The conditional claim lets one worker at a time execute the job.
SingleExecutor ==
    Cardinality({k \in Workers : wk[k].pc \notin {"idle", "backoff", "dead"}}) <= 1

\* The state machine has no transition out of FAILED, and none that this code
\* takes out of FULFILLED.
TerminalOrderStays == [][(order \in {"FULFILLED", "FAILED"}) => order' = order]_vars
=============================================================================
