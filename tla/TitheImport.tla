------------------------------ MODULE TitheImport ------------------------------
(***************************************************************************)
(* Tithe files and what becomes of their rows: tithe.service.ts,           *)
(* tithe.processor.ts and the Bull queue between them.                     *)
(*                                                                         *)
(* An upload writes a batch inside the request's transaction and queues a  *)
(* job at once, in Redis, which no transaction covers.  A worker processes *)
(* the job in one transaction of the tenant: every row becomes a record,   *)
(* an unmatched row or a dispute.  Bull runs a job again when it failed    *)
(* and when its worker stopped answering, which does not stop the worker.  *)
(* Finance admins later turn unmatched rows and disputes into records, or  *)
(* close them.                                                             *)
(*                                                                         *)
(* A payment stands for what the duplicate check compares: who paid, how   *)
(* much and on which day.  Amounts have two decimals at most: the column   *)
(* rounds a finer one, and the check, which does not, misses it.           *)
(***************************************************************************)
EXTENDS Integers, FiniteSets, Sequences

CONSTANTS Batches,    \* uploads
          Payments,   \* payer, amount and date of a row
          Files,      \* what an uploaded sheet may hold: sequences of payments
          Workers,    \* processes serving the queue, one job at a time each
          Reviews,    \* requests of finance admins on a document, each once
          MaxTries,   \* attempts of the job (3 in the code)
          MaxStalls,  \* times Bull hands a stalled job out again (1 by default)
          MaxFaults,  \* bound on the faults of a behaviour
          None

ASSUME FilesAssumption == Files \subseteq Seq(Payments)
ASSUME BoundsAssumption ==
    MaxTries \in Nat \ {0} /\ MaxStalls \in Nat /\ MaxFaults \in Nat
ASSUME NoneAssumption == None \notin Batches /\ None \notin Workers

VARIABLES upload,    \* how far the upload request got
          file,      \* the rows of the batch
          complete,  \* batches whose committed status is COMPLETED
          pass,      \* how many times the batch has been processed
          job,       \* the Bull job of the batch
          run,       \* what a worker is doing
          docs,      \* committed records, unmatched rows and disputes
          resolved,  \* documents MATCHED or CONFIRMED_VALID
          closed,    \* documents DISMISSED or REJECTED
          made,      \* records admins made, each from a document by a review
          review,    \* requests of finance admins
          known,     \* payments whose e-mail address is a member's
          raced,     \* payments two transactions were recording at once
          clashed,   \* documents two reviews had in hand at once
          torn,      \* documents whose review was cut off half-way
          faults     \* crashes, failures, hang-ups and false stalls so far

vars == <<upload, file, complete, pass, job, run, docs, resolved, closed, made,
          review, known, raced, clashed, torn, faults>>
uploads == <<upload, file>>
outcomes == <<complete, pass, docs>>
decisions == <<resolved, closed, made, review, clashed, torn>>

Kinds == {"record", "unmatched", "dispute"}

Docs == [batch : Batches, pass : Nat, row : Nat, kind : Kinds]

Run(batch, step, out, row) == [batch |-> batch, step |-> step, out |-> out, row |-> row]

IdleRun == Run(None, "idle", {}, 0)

Job(state, tries, stalls, owner) ==
    [state |-> state, tries |-> tries, stalls |-> stalls, owner |-> owner]

NoJob == Job("none", 0, 0, None)

ReviewOf(step, op, doc) == [step |-> step, op |-> op, doc |-> doc]

UnusedReview == ReviewOf("unused", None, None)

Stored(b) == upload[b] = "committed"

PaymentOf(d) == file[d.batch][d.row]

RowsOf(b) == 1 .. Len(file[b])

-----------------------------------------------------------------------------

TypeOK ==
    /\ upload \in [Batches -> {"none", "queued", "committed", "lost"}]
    /\ file \in [Batches -> Files]
    /\ complete \subseteq Batches
    /\ pass \in [Batches -> Nat]
    /\ job \in [Batches -> [state : {"none", "waiting", "active", "done", "failed"},
                            tries : 0 .. MaxTries, stalls : 0 .. MaxStalls,
                            owner : Workers \cup {None}]]
    /\ run \in [Workers -> [batch : Batches \cup {None},
                            step : {"idle", "looking", "rows", "committed"},
                            out : SUBSET Docs, row : Nat]]
    /\ docs \subseteq Docs
    /\ resolved \subseteq docs /\ closed \subseteq docs
    /\ made \subseteq [doc : Docs, by : Reviews]
    /\ review \in [Reviews -> [step : {"unused", "read", "saved", "over"},
                               op : {None, "accept", "close"},
                               doc : Docs \cup {None}]]
    /\ known \subseteq Payments
    /\ raced \subseteq Payments
    /\ clashed \subseteq Docs /\ torn \subseteq Docs
    /\ faults \in 0 .. MaxFaults

Init ==
    /\ upload = [b \in Batches |-> "none"]
    /\ file \in [Batches -> Files]
    /\ complete = {}
    /\ pass = [b \in Batches |-> 0]
    /\ job = [b \in Batches |-> NoJob]
    /\ run = [w \in Workers |-> IdleRun]
    /\ docs = {} /\ resolved = {} /\ closed = {} /\ made = {}
    /\ review = [q \in Reviews |-> UnusedReview]
    /\ known \in SUBSET Payments
    /\ raced = {} /\ clashed = {} /\ torn = {} /\ faults = 0

\* Something goes wrong once more.
Fault == faults < MaxFaults /\ faults' = faults + 1

-----------------------------------------------------------------------------
(* The upload request.                                                     *)

\* uploadBatch: the batch is saved, PENDING, in the request's transaction, and
\* the job is in Redis before that transaction commits.
QueueJob(b) ==
    /\ upload[b] = "none"
    /\ upload' = [upload EXCEPT ![b] = "queued"]
    /\ job' = [job EXCEPT ![b] = Job("waiting", 0, 0, None)]
    /\ UNCHANGED <<faults, file, run, known, raced, outcomes, decisions>>

\* The request ends and its transaction commits.
CommitUpload(b) ==
    /\ upload[b] = "queued"
    /\ upload' = [upload EXCEPT ![b] = "committed"]
    /\ UNCHANGED <<faults, file, job, run, known, raced, outcomes, decisions>>

\* The client hangs up once the batch is saved: that much commits, and no job
\* is queued for it.
CutUpload(b) ==
    /\ upload[b] = "none"
    /\ upload' = [upload EXCEPT ![b] = "committed"]
    /\ Fault
    /\ UNCHANGED <<file, job, run, known, raced, outcomes, decisions>>

\* The process or its connection dies first: the batch is gone, the queued
\* job is not.
LoseUpload(b) ==
    /\ upload[b] = "queued"
    /\ upload' = [upload EXCEPT ![b] = "lost"]
    /\ Fault
    /\ UNCHANGED <<file, job, run, known, raced, outcomes, decisions>>

-----------------------------------------------------------------------------
(* The queue.                                                              *)

\* Bull hands a waiting job to a worker that is free.
TakeJob(w, b) ==
    /\ job[b].state = "waiting" /\ run[w].step = "idle"
    /\ job' = [job EXCEPT ![b] = Job("active", job[b].tries, job[b].stalls, w)]
    /\ run' = [run EXCEPT ![w] = Run(b, "looking", {}, 0)]
    /\ UNCHANGED <<faults, known, raced, uploads, outcomes, decisions>>

\* A worker that lost the job to a stall can no longer end it.
JobEnded(j, w) == IF j.owner = w THEN Job("done", j.tries, j.stalls, None) ELSE j

JobFailed(j, w) ==
    IF j.owner = w
      THEN Job(IF j.tries + 1 < MaxTries THEN "waiting" ELSE "failed", j.tries + 1, j.stalls, None)
      ELSE j

\* Seeded bug: the count of stalls is compared one too late.
StallsOnceMore(b) == job[b].stalls <= MaxStalls

MayStall(b) == job[b].stalls < MaxStalls

\* The job's lock ran out: the worker died, or was too busy to renew it and
\* goes on working.
Stalled(b) ==
    /\ job[b].state = "active"
    /\ job' = [job EXCEPT ![b] =
                  IF MayStall(b) THEN Job("waiting", job[b].tries, job[b].stalls + 1, None)
                                 ELSE Job("failed", job[b].tries, job[b].stalls, None)]
    /\ IF run[job[b].owner].batch = b
         THEN Fault ELSE UNCHANGED faults
    /\ UNCHANGED <<run, known, raced, uploads, outcomes, decisions>>

\* The process dies; its open transaction is rolled back.
Crash(w) ==
    /\ run[w].step # "idle"
    /\ run' = [run EXCEPT ![w] = IdleRun]
    /\ Fault
    /\ UNCHANGED <<job, known, raced, uploads, outcomes, decisions>>

-----------------------------------------------------------------------------
(* doHandleBatch.                                                          *)

\* The batch is not there, or not yet: the job is done.
BatchMissing(w) ==
    /\ run[w].step = "looking" /\ ~Stored(run[w].batch)
    /\ job' = [job EXCEPT ![run[w].batch] = JobEnded(@, w)]
    /\ run' = [run EXCEPT ![w] = IdleRun]
    /\ UNCHANGED <<faults, known, raced, uploads, outcomes, decisions>>

\* Seeded bug: the status is not set first, so nothing makes a second run wait.
BatchFreeUnlocked(b) == TRUE

\* The update to PROCESSING holds the batch's row until the transaction ends.
BatchFree(b) == \A w \in Workers : ~(run[w].step = "rows" /\ run[w].batch = b)

BeginBatch(w) ==
    /\ run[w].step = "looking" /\ Stored(run[w].batch)
    /\ BatchFree(run[w].batch)
    /\ run' = [run EXCEPT ![w] = Run(run[w].batch, "rows", {}, 0)]
    /\ UNCHANGED <<faults, job, known, raced, uploads, outcomes, decisions>>

\* Seeded bug: only the records of the same batch are compared with the row.
RecordedInBatch(w, p) ==
    \E d \in docs \cup run[w].out :
        d.batch = run[w].batch /\ d.kind = "record" /\ PaymentOf(d) = p

\* The duplicate check sees what is committed and what this run wrote.
Recorded(w, p) ==
    \/ \E d \in docs \cup run[w].out : d.kind = "record" /\ PaymentOf(d) = p
    \/ \E m \in made : PaymentOf(m.doc) = p

\* Records of a payment that other transactions have written and not committed.
BeingRecorded(w, p) ==
    \/ \E v \in Workers \ {w} : \E d \in run[v].out : d.kind = "record" /\ PaymentOf(d) = p
    \/ \E q \in Reviews : review[q].step = "saved" /\ PaymentOf(review[q].doc) = p

KindOf(w, p) == CASE p \notin known -> "unmatched"
                  [] p \in known /\ Recorded(w, p) -> "dispute"
                  [] OTHER -> "record"

ProcessRow(w) ==
    LET b == run[w].batch
        i == run[w].row + 1
        p == file[b][i]
        d == [batch |-> b, pass |-> pass[b] + 1, row |-> i, kind |-> KindOf(w, p)]
    IN  /\ run[w].step = "rows" /\ i \in RowsOf(b)
        /\ run' = [run EXCEPT ![w] = Run(b, "rows", run[w].out \cup {d}, i)]
        /\ raced' = IF d.kind = "record" /\ BeingRecorded(w, p) THEN raced \cup {p} ELSE raced
        /\ UNCHANGED <<faults, job, known, uploads, outcomes, decisions>>

CommitBatch(w) ==
    LET b == run[w].batch
    IN  /\ run[w].step = "rows" /\ run[w].row = Len(file[b])
        /\ docs' = docs \cup run[w].out
        /\ pass' = [pass EXCEPT ![b] = @ + 1]
        /\ complete' = complete \cup {b}
        /\ run' = [run EXCEPT ![w] = Run(b, "committed", {}, 0)]
        /\ UNCHANGED <<faults, job, known, raced, uploads, decisions>>

\* Seeded bug: every row is saved on its own, outside the tenant's transaction.
KeptRows(w) == docs \cup run[w].out

\* What a failed run leaves behind: nothing.
KeptOnFailure(w) == docs

\* Seeded bug: the status FAILED is written where the rollback does not reach.
MarkedFailed(b) == complete \ {b}

\* The catch writes the status FAILED and rethrows, and runInTenantContext
\* rolls that back with everything else.
StatusAfterFailure(b) == complete

FailBatch(w) ==
    LET b == run[w].batch
    IN  /\ run[w].step = "rows"
        /\ docs' = KeptOnFailure(w)
        /\ complete' = StatusAfterFailure(b)
        /\ job' = [job EXCEPT ![b] = JobFailed(@, w)]
        /\ run' = [run EXCEPT ![w] = IdleRun]
        /\ Fault
        /\ UNCHANGED <<pass, known, raced, uploads, decisions>>

\* The handler returned and Bull moves the job to the completed ones.
EndJob(w) ==
    /\ run[w].step = "committed"
    /\ job' = [job EXCEPT ![run[w].batch] = JobEnded(@, w)]
    /\ run' = [run EXCEPT ![w] = IdleRun]
    /\ UNCHANGED <<faults, known, raced, uploads, outcomes, decisions>>

-----------------------------------------------------------------------------
(* Unmatched rows and disputes.                                            *)

\* Seeded bug: the document is looked up by its id alone.
ReviewableAny(d) == d.kind # "record"

Reviewable(d) == d.kind # "record" /\ d \notin resolved \cup closed

\* matchUnmatched and approveDispute ("accept"), dismissUnmatched and
\* rejectDispute ("close") read the document PENDING.
OpenReview(q, d, op) ==
    /\ review[q].step = "unused" /\ Reviewable(d)
    /\ review' = [review EXCEPT ![q] = ReviewOf("read", op, d)]
    /\ clashed' = IF \E r \in Reviews : review[r].doc = d /\ review[r].step \in {"read", "saved"}
                    THEN clashed \cup {d} ELSE clashed
    /\ UNCHANGED <<faults, resolved, closed, made, torn, job, run, known, raced, uploads, outcomes>>

\* The record is saved first, in the request's transaction.
SaveRecord(q) ==
    /\ review[q].step = "read" /\ review[q].op = "accept"
    /\ review' = [review EXCEPT ![q] = ReviewOf("saved", "accept", review[q].doc)]
    /\ raced' = IF \E w \in Workers : \E d \in run[w].out :
                       d.kind = "record" /\ PaymentOf(d) = PaymentOf(review[q].doc)
                  THEN raced \cup {PaymentOf(review[q].doc)} ELSE raced
    /\ UNCHANGED <<faults, resolved, closed, made, clashed, torn, job, run, known, uploads,
                   outcomes>>

\* The document is saved as it was read, with its new status, and committed.
Accept(q) ==
    LET d == review[q].doc
    IN  /\ review[q].step = "saved"
        /\ made' = made \cup {[doc |-> d, by |-> q]}
        /\ resolved' = resolved \cup {d} /\ closed' = closed \ {d}
        /\ review' = [review EXCEPT ![q] = ReviewOf("over", @.op, @.doc)]
        /\ UNCHANGED <<faults, clashed, torn, job, run, known, raced, uploads, outcomes>>

Close(q) ==
    LET d == review[q].doc
    IN  /\ review[q].step = "read" /\ review[q].op = "close"
        /\ closed' = closed \cup {d} /\ resolved' = resolved \ {d}
        /\ review' = [review EXCEPT ![q] = ReviewOf("over", @.op, @.doc)]
        /\ UNCHANGED <<faults, made, clashed, torn, job, run, known, raced, uploads, outcomes>>

\* Seeded bug: the document is resolved first and the record made after it.
CutOffAfterStatus(q) ==
    /\ made' = made
    /\ resolved' = resolved \cup {review[q].doc}

\* What is committed of a review whose client hung up before the last save.
CutOff(q) ==
    /\ made' = made \cup {[doc |-> review[q].doc, by |-> q]}
    /\ resolved' = resolved

HangUp(q) ==
    /\ review[q].step = "saved"
    /\ CutOff(q)
    /\ torn' = torn \cup {review[q].doc}
    /\ review' = [review EXCEPT ![q] = ReviewOf("over", @.op, @.doc)]
    /\ Fault
    /\ UNCHANGED <<closed, clashed, job, run, known, raced, uploads, outcomes>>

\* Someone whose payments found no member registers.
MemberJoins(p) ==
    /\ p \notin known
    /\ known' = known \cup {p}
    /\ UNCHANGED <<faults, job, run, raced, uploads, outcomes, decisions>>

-----------------------------------------------------------------------------

Next ==
    \/ \E b \in Batches : QueueJob(b) \/ CommitUpload(b) \/ CutUpload(b) \/ LoseUpload(b)
                          \/ Stalled(b)
    \/ \E w \in Workers, b \in Batches : TakeJob(w, b)
    \/ \E w \in Workers : Crash(w) \/ BatchMissing(w) \/ BeginBatch(w) \/ ProcessRow(w)
                          \/ CommitBatch(w) \/ FailBatch(w) \/ EndJob(w)
    \/ \E q \in Reviews, d \in docs, op \in {"accept", "close"} : OpenReview(q, d, op)
    \/ \E q \in Reviews : SaveRecord(q) \/ Accept(q) \/ Close(q) \/ HangUp(q)
    \/ \E p \in Payments : MemberJoins(p)

Spec == Init /\ [][Next]_vars

-----------------------------------------------------------------------------
(* Properties.                                                             *)

\* However often Bull runs the job of a batch, with workers that crash, stall
\* and overlap, the worker records no payment of the batch twice: the row of
\* the batch serialises the runs and the duplicate check sees the earlier one.
RecordedOncePerBatch ==
    \A d, e \in docs :
        d.kind = "record" /\ e.kind = "record" /\ d.batch = e.batch /\ PaymentOf(d) = PaymentOf(e)
            => d = e

\* Two batches record the same payment only when a transaction was recording it
\* while another had done so and not committed: no constraint backs the check.
RecordedTwiceOnlyInRace ==
    \A d, e \in docs :
        d.kind = "record" /\ e.kind = "record" /\ PaymentOf(d) = PaymentOf(e) /\ d # e
            => PaymentOf(d) \in raced

\* A pass over a batch leaves one outcome for every row, or nothing at all: a
\* run that failed, crashed or was overtaken leaves no row half-imported.
EveryRowHasOutcome ==
    \A b \in Batches :
        /\ (b \in complete) <=> pass[b] > 0
        /\ \A d \in docs : d.batch = b => d.pass \in 1 .. pass[b]
        /\ \A n \in 1 .. pass[b], i \in RowsOf(b) :
               \E k \in Kinds : [batch |-> b, pass |-> n, row |-> i, kind |-> k] \in docs

\* A document shown as matched or confirmed valid has its record, whoever hung
\* up while reviewing it.
ResolvedHasRecord == \A d \in resolved : \E m \in made : m.doc = d

\* A document yields a second record only when two admins had it in hand at
\* once or an earlier review was cut off before the document was resolved.
AcceptedOnce ==
    \A m, n \in made : m.doc = n.doc /\ m.by # n.by => m.doc \in clashed \cup torn

\* A batch that is COMPLETED stays so, though the job may run again and fail.
CompletedStays == [][complete \subseteq complete']_vars

=============================================================================
