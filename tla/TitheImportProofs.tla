---------------------------- MODULE TitheImportProofs ----------------------------
(***************************************************************************)
(* Theorems about TitheImport, for any number of batches, workers and      *)
(* reviews, files of any length and any bound on attempts and faults.      *)
(*                                                                         *)
(* The argument about the worker looks at the documents that are committed *)
(* and at those a run has written and may still commit.  A run with rows   *)
(* in hand excludes every other run of its batch (Alone), so what it       *)
(* checked its rows against is still all there is when it commits.         *)
(***************************************************************************)
EXTENDS TitheImport, TLAPS

Alone ==
    /\ \A v, w \in Workers :
           v # w /\ run[v].step = "rows" /\ run[w].step = "rows" => run[v].batch # run[w].batch
    /\ \A w \in Workers : \A d \in run[w].out :
           run[w].step = "rows" /\ d.batch = run[w].batch /\ d.pass = pass[d.batch] + 1

\* No run can commit a record of a payment its batch has a record of.
OncePerBatch ==
    /\ RecordedOncePerBatch
    /\ \A w \in Workers : \A d \in run[w].out, e \in docs \cup run[w].out :
           /\ d.kind = "record" /\ e.kind = "record"
           /\ d.batch = e.batch /\ PaymentOf(d) = PaymentOf(e)
           => d = e

\* The same across batches, for the payments nobody raced for.
OnceUnlessRaced ==
    /\ RecordedTwiceOnlyInRace
    /\ \A w \in Workers : \A d \in run[w].out, e \in docs :
           d.kind = "record" /\ e.kind = "record" /\ PaymentOf(d) = PaymentOf(e) /\ d # e
               => PaymentOf(d) \in raced
    /\ \A v, w \in Workers : \A d \in run[v].out, e \in run[w].out :
           d.kind = "record" /\ e.kind = "record" /\ PaymentOf(d) = PaymentOf(e) /\ d # e
               => PaymentOf(d) \in raced

-----------------------------------------------------------------------------
(* Types.                                                                  *)

RunType == [batch : Batches \cup {None}, step : {"idle", "looking", "rows", "committed"},
            out : SUBSET Docs, row : Nat]

JobType == [state : {"none", "waiting", "active", "done", "failed"}, tries : 0 .. MaxTries,
            stalls : 0 .. MaxStalls, owner : Workers \cup {None}]

ReviewType == [step : {"unused", "read", "saved", "over"}, op : {None, "accept", "close"},
               doc : Docs \cup {None}]

\* What the types need: a job that can still run has an attempt left, a worker
\* that is busy has a batch, and a review that was opened has a document.
InHand ==
    /\ \A b \in Batches : job[b].state \in {"none", "waiting", "active"} => job[b].tries < MaxTries
    /\ \A b \in Batches : job[b].owner # None => job[b].state = "active"
    /\ \A w \in Workers : run[w].step # "idle" => run[w].batch \in Batches
    /\ \A q \in Reviews : review[q].step # "unused" => review[q].doc \in docs
    /\ \A d \in docs : d.row \in RowsOf(d.batch)
    /\ \A w \in Workers : \A d \in run[w].out : d.row \in RowsOf(d.batch)

TypeInv == TypeOK /\ InHand

LEMMA InitTypes == Init => TypeInv
BY NoneAssumption, BoundsAssumption
   DEF Init, TypeInv, TypeOK, InHand, RowsOf, NoJob, Job, IdleRun, Run, UnusedReview, ReviewOf, Docs

LEMMA JobTypes ==
    ASSUME NEW j \in JobType, NEW w \in Workers,
           j.state \in {"none", "waiting", "active"} => j.tries < MaxTries,
           j.owner # None => j.state = "active"
    PROVE  /\ JobEnded(j, w) \in JobType
           /\ JobFailed(j, w) \in JobType
           /\ JobEnded(j, w).state \in {"none", "waiting", "active"}
                  => JobEnded(j, w).tries < MaxTries
           /\ JobFailed(j, w).state \in {"none", "waiting", "active"}
                  => JobFailed(j, w).tries < MaxTries
           /\ JobEnded(j, w).owner # None => JobEnded(j, w).state = "active"
           /\ JobFailed(j, w).owner # None => JobFailed(j, w).state = "active"
<1>1. j.tries \in Nat /\ j.tries <= MaxTries
  BY BoundsAssumption DEF JobType
<1>4. j.owner = w => j.tries < MaxTries
  BY NoneAssumption
<1>5. CASE j.owner = w
  BY <1>1, <1>4, <1>5, NoneAssumption, BoundsAssumption DEF JobEnded, JobFailed, Job, JobType
<1>6. CASE j.owner # w
  BY <1>6 DEF JobEnded, JobFailed
<1>7. QED BY <1>5, <1>6

LEMMA UploadTypes ==
    ASSUME TypeInv, NEW b \in Batches,
           QueueJob(b) \/ CommitUpload(b) \/ CutUpload(b) \/ LoseUpload(b)
    PROVE  TypeInv'
<1>1. CASE QueueJob(b)
  BY <1>1, NoneAssumption, BoundsAssumption
     DEF TypeInv, TypeOK, InHand, RowsOf, QueueJob, Job, outcomes, decisions
<1>2. CASE CommitUpload(b)
  BY <1>2 DEF TypeInv, TypeOK, InHand, RowsOf, CommitUpload, outcomes, decisions
<1>3. CASE CutUpload(b)
  BY <1>3, BoundsAssumption
     DEF TypeInv, TypeOK, InHand, RowsOf, CutUpload, Fault, outcomes, decisions
<1>4. CASE LoseUpload(b)
  BY <1>4, BoundsAssumption
     DEF TypeInv, TypeOK, InHand, RowsOf, LoseUpload, Fault, outcomes, decisions
<1>5. QED BY <1>1, <1>2, <1>3, <1>4

LEMMA TakeTypes ==
    ASSUME TypeInv, NEW b \in Batches, NEW w \in Workers, TakeJob(w, b)
    PROVE  TypeInv'
BY NoneAssumption
   DEF TypeInv, TypeOK, InHand, RowsOf, TakeJob, Job, Run, uploads, outcomes, decisions

LEMMA StallTypes == ASSUME TypeInv, NEW b \in Batches, Stalled(b) PROVE TypeInv'
BY NoneAssumption, BoundsAssumption
   DEF TypeInv, TypeOK, InHand, RowsOf, Stalled, Job, MayStall, Fault, uploads, outcomes,
       decisions

LEMMA RunTypes ==
    ASSUME TypeInv, NEW w \in Workers,
           Crash(w) \/ BatchMissing(w) \/ BeginBatch(w) \/ ProcessRow(w) \/ CommitBatch(w)
               \/ FailBatch(w) \/ EndJob(w)
    PROVE  TypeInv'
<1>. DEFINE b == run[w].batch
<1>1. b \in Batches
  BY DEF TypeInv, InHand, Crash, BatchMissing, BeginBatch, ProcessRow, CommitBatch, FailBatch, EndJob
<1>2. /\ JobEnded(job[b], w) \in JobType
      /\ JobFailed(job[b], w) \in JobType
      /\ JobEnded(job[b], w).state \in {"none", "waiting", "active"}
             => JobEnded(job[b], w).tries < MaxTries
      /\ JobFailed(job[b], w).state \in {"none", "waiting", "active"}
             => JobFailed(job[b], w).tries < MaxTries
      /\ JobEnded(job[b], w).owner # None => JobEnded(job[b], w).state = "active"
      /\ JobFailed(job[b], w).owner # None => JobFailed(job[b], w).state = "active"
  <2>1. job[b] \in JobType
    BY <1>1 DEF TypeInv, TypeOK, JobType
  <2>2. QED BY <1>1, <2>1, JobTypes DEF TypeInv, InHand
<1>3. CASE BatchMissing(w)
  BY <1>1, <1>2, <1>3, NoneAssumption
     DEF TypeInv, TypeOK, InHand, RowsOf, JobType, BatchMissing, IdleRun, Run, uploads, outcomes, decisions
<1>4. CASE BeginBatch(w)
  BY <1>1, <1>4 DEF TypeInv, TypeOK, InHand, RowsOf, BeginBatch, Run, uploads, outcomes, decisions
<1>5. CASE ProcessRow(w)
  <2>. DEFINE d == [batch |-> b, pass |-> pass[b] + 1, row |-> run[w].row + 1,
                    kind |-> KindOf(w, file[b][run[w].row + 1])]
  <2>1. d \in Docs /\ d.row \in 1 .. Len(file[d.batch])
    <3>1. pass[b] \in Nat /\ run[w].row \in Nat
      BY <1>1 DEF TypeInv, TypeOK
    <3>2. KindOf(w, file[b][run[w].row + 1]) \in Kinds
      BY DEF KindOf, Kinds
    <3>3. QED BY <1>1, <1>5, <3>1, <3>2 DEF Docs, ProcessRow, RowsOf
  <2>2. raced' \subseteq Payments
    <3>1. file[b] \in Seq(Payments)
      BY <1>1, FilesAssumption DEF TypeInv, TypeOK
    <3>2. file[b][run[w].row + 1] \in Payments
      BY <1>5, <3>1 DEF ProcessRow, RowsOf
    <3>3. QED BY <1>5, <3>2 DEF ProcessRow, TypeInv, TypeOK
  <2>. HIDE DEF d
  <2>3. run' = [run EXCEPT ![w] = Run(b, "rows", run[w].out \cup {d}, run[w].row + 1)]
    BY <1>5 DEF ProcessRow, d
  <2>4. run[w].row \in Nat /\ run[w].step = "rows" /\ run[w].out \subseteq Docs
    BY <1>5 DEF ProcessRow, TypeInv, TypeOK
  <2>5. Run(b, "rows", run[w].out \cup {d}, run[w].row + 1) \in RunType
    BY <1>1, <2>1, <2>4 DEF RunType, Run
  <2>6. run' \in [Workers -> RunType]
    BY <2>3, <2>5 DEF TypeInv, TypeOK, RunType
  <2>7. TypeOK'
    BY <1>5, <2>2, <2>6
       DEF TypeInv, TypeOK, RunType, ProcessRow, uploads, outcomes, decisions
  <2>8. InHand'
    BY <1>1, <1>5, <2>1, <2>3
       DEF TypeInv, TypeOK, InHand, RowsOf, ProcessRow, Run, uploads, outcomes, decisions
  <2>9. QED BY <2>7, <2>8 DEF TypeInv
<1>6. CASE CommitBatch(w)
  BY <1>1, <1>6, NoneAssumption
     DEF TypeInv, TypeOK, InHand, RowsOf, CommitBatch, IdleRun, Run, uploads, decisions
<1>7. CASE FailBatch(w)
  BY <1>1, <1>2, <1>7, NoneAssumption, BoundsAssumption
     DEF TypeInv, TypeOK, InHand, RowsOf, JobType, FailBatch, KeptOnFailure, StatusAfterFailure, IdleRun, Run,
         Fault, uploads, decisions
<1>8. CASE EndJob(w)
  BY <1>1, <1>2, <1>8, NoneAssumption
     DEF TypeInv, TypeOK, InHand, RowsOf, JobType, EndJob, IdleRun, Run, uploads, outcomes, decisions
<1>9. CASE Crash(w)
  BY <1>9, NoneAssumption, BoundsAssumption
     DEF TypeInv, TypeOK, InHand, RowsOf, Crash, IdleRun, Run, Fault, uploads, outcomes, decisions
<1>10. QED BY <1>3, <1>4, <1>5, <1>6, <1>7, <1>8, <1>9

LEMMA PaymentTypes == ASSUME TypeInv, NEW d \in docs PROVE PaymentOf(d) \in Payments
<1>1. d.batch \in Batches /\ d.row \in 1 .. Len(file[d.batch])
  BY DEF TypeInv, TypeOK, InHand, Docs, RowsOf
<1>2. file[d.batch] \in Seq(Payments)
  BY <1>1, FilesAssumption DEF TypeInv, TypeOK
<1>3. QED BY <1>1, <1>2 DEF PaymentOf

LEMMA ReviewTypes ==
    ASSUME TypeInv, NEW q \in Reviews,
           \/ \E d \in docs, op \in {"accept", "close"} : OpenReview(q, d, op)
           \/ SaveRecord(q) \/ Accept(q) \/ Close(q) \/ HangUp(q)
    PROVE  TypeInv'
<1>1. CASE \E d \in docs, op \in {"accept", "close"} : OpenReview(q, d, op)
  <2>1. PICK d \in docs, op \in {"accept", "close"} : OpenReview(q, d, op)
    BY <1>1
  <2>2. d \in Docs
    BY DEF TypeInv, TypeOK
  <2>3. ReviewOf("read", op, d) \in ReviewType
    BY <2>2 DEF ReviewOf, ReviewType
  <2>4. QED
    BY <2>1, <2>2, <2>3
       DEF TypeInv, TypeOK, InHand, RowsOf, ReviewType, ReviewOf, OpenReview, uploads, outcomes
<1>2. ASSUME review[q].step # "unused"
      PROVE  review[q].doc \in docs /\ review[q].doc \in Docs /\ review[q].op \in {None, "accept", "close"}
  BY <1>2 DEF TypeInv, TypeOK, InHand
<1>3. CASE SaveRecord(q)
  <2>1. PaymentOf(review[q].doc) \in Payments
    BY <1>2, <1>3, PaymentTypes DEF SaveRecord
  <2>2. QED
    BY <1>2, <1>3, <2>1
       DEF TypeInv, TypeOK, InHand, RowsOf, ReviewOf, SaveRecord, uploads, outcomes
<1>4. CASE Accept(q)
  BY <1>2, <1>4 DEF TypeInv, TypeOK, InHand, RowsOf, ReviewOf, Accept, uploads, outcomes
<1>5. CASE Close(q)
  BY <1>2, <1>5 DEF TypeInv, TypeOK, InHand, RowsOf, ReviewOf, Close, uploads, outcomes
<1>6. CASE HangUp(q)
  BY <1>2, <1>6, BoundsAssumption
     DEF TypeInv, TypeOK, InHand, RowsOf, ReviewOf, HangUp, CutOff, Fault, uploads, outcomes
<1>7. QED BY <1>1, <1>3, <1>4, <1>5, <1>6

LEMMA NextTypes == ASSUME TypeInv, [Next]_vars PROVE TypeInv'
<1>1. CASE \E p \in Payments : MemberJoins(p)
  BY <1>1 DEF TypeInv, TypeOK, InHand, RowsOf, MemberJoins, uploads, outcomes, decisions
<1>2. CASE UNCHANGED vars
  BY <1>2 DEF TypeInv, TypeOK, InHand, RowsOf, vars
<1>3. CASE \E b \in Batches : QueueJob(b) \/ CommitUpload(b) \/ CutUpload(b) \/ LoseUpload(b)
  BY <1>3, UploadTypes
<1>4. CASE \E b \in Batches : Stalled(b)
  BY <1>4, StallTypes
<1>5. CASE \E w \in Workers, b \in Batches : TakeJob(w, b)
  BY <1>5, TakeTypes
<1>6. CASE \E w \in Workers :
               Crash(w) \/ BatchMissing(w) \/ BeginBatch(w) \/ ProcessRow(w) \/ CommitBatch(w)
                   \/ FailBatch(w) \/ EndJob(w)
  BY <1>6, RunTypes
<1>7. CASE \/ \E q \in Reviews, d \in docs, op \in {"accept", "close"} : OpenReview(q, d, op)
           \/ \E q \in Reviews : SaveRecord(q) \/ Accept(q) \/ Close(q) \/ HangUp(q)
  BY <1>7, ReviewTypes
<1>8. QED BY <1>1, <1>2, <1>3, <1>4, <1>5, <1>6, <1>7 DEF Next

-----------------------------------------------------------------------------
(* What a step does to the documents and the runs.                         *)

\* The steps that write no document: runs keep what they wrote or drop it, and
\* begin only on a batch that no other run holds.
Quiet ==
    /\ UNCHANGED <<docs, file, pass, complete>>
    /\ raced \subseteq raced'
    /\ \A w \in Workers :
           \/ run'[w] = run[w]
           \/ run'[w].step # "rows" /\ run'[w].out = {}
           \/ /\ run'[w].out = {} /\ run'[w].row = 0
              /\ \A v \in Workers \ {w} :
                     run'[v] = run[v] /\ ~(run[v].step = "rows" /\ run[v].batch = run'[w].batch)

LEMMA Steps ==
    ASSUME TypeInv, [Next]_vars
    PROVE  Quiet \/ \E w \in Workers : ProcessRow(w) \/ CommitBatch(w)
<1>. USE DEF Quiet, TypeInv, TypeOK
<1>1. CASE \E b \in Batches : QueueJob(b) \/ CommitUpload(b) \/ CutUpload(b) \/ LoseUpload(b)
                              \/ Stalled(b)
  BY <1>1 DEF QueueJob, CommitUpload, CutUpload, LoseUpload, Stalled, uploads, outcomes
<1>2. CASE \E w \in Workers, b \in Batches : TakeJob(w, b)
  BY <1>2 DEF TakeJob, Run, uploads, outcomes
<1>3. ASSUME NEW w \in Workers, Crash(w) \/ BatchMissing(w) \/ FailBatch(w) \/ EndJob(w)
      PROVE  Quiet
  BY <1>3 DEF Crash, BatchMissing, FailBatch, EndJob, KeptOnFailure, StatusAfterFailure, IdleRun, Run, uploads,
             outcomes
<1>4. ASSUME NEW w \in Workers, BeginBatch(w) PROVE Quiet
  BY <1>4 DEF BeginBatch, BatchFree, Run, uploads, outcomes
<1>5. CASE \/ \E q \in Reviews, d \in docs, op \in {"accept", "close"} : OpenReview(q, d, op)
           \/ \E q \in Reviews : SaveRecord(q) \/ Accept(q) \/ Close(q) \/ HangUp(q)
           \/ \E p \in Payments : MemberJoins(p)
           \/ UNCHANGED vars
  BY <1>5 DEF OpenReview, SaveRecord, Accept, Close, HangUp, MemberJoins, vars, uploads, outcomes
<1>6. QED BY <1>1, <1>2, <1>3, <1>4, <1>5 DEF Next

-----------------------------------------------------------------------------
(* The worker.                                                             *)

WorkInv == TypeInv /\ Alone /\ OncePerBatch /\ OnceUnlessRaced

LEMMA QuietWork == ASSUME WorkInv, TypeInv', Quiet PROVE WorkInv'
<1>1. \A w \in Workers : run'[w].out \subseteq run[w].out
  BY DEF Quiet
<1>2. Alone'
  <2>1. \A v, w \in Workers :
            v # w /\ run'[v].step = "rows" /\ run'[w].step = "rows"
                => run'[v].batch # run'[w].batch
    <3>1. SUFFICES ASSUME NEW v \in Workers, NEW w \in Workers, v # w,
                          run'[v].step = "rows", run'[w].step = "rows"
                   PROVE  run'[v].batch # run'[w].batch
      OBVIOUS
    <3>2. CASE run'[v] = run[v] /\ run'[w] = run[w]
      BY <3>1, <3>2 DEF WorkInv, Alone
    <3>3. CASE run'[v] # run[v]
      BY <3>1, <3>3 DEF Quiet
    <3>4. CASE run'[w] # run[w]
      BY <3>1, <3>4 DEF Quiet
    <3>5. QED BY <3>2, <3>3, <3>4
  <2>2. \A w \in Workers : \A d \in run'[w].out :
            run'[w].step = "rows" /\ d.batch = run'[w].batch /\ d.pass = pass'[d.batch] + 1
    <3>1. SUFFICES ASSUME NEW w \in Workers, NEW d \in run'[w].out
                   PROVE  /\ run'[w].step = "rows" /\ d.batch = run'[w].batch
                          /\ d.pass = pass'[d.batch] + 1
      OBVIOUS
    <3>2. run'[w] = run[w] /\ pass' = pass
      BY <3>1 DEF Quiet
    <3>3. QED BY <3>1, <3>2 DEF WorkInv, Alone
  <2>3. QED BY ONLY <2>1, <2>2 DEF Alone
<1>3. OncePerBatch'
  BY <1>1 DEF WorkInv, OncePerBatch, RecordedOncePerBatch, PaymentOf, Quiet
<1>4. OnceUnlessRaced'
  BY <1>1 DEF WorkInv, OnceUnlessRaced, RecordedTwiceOnlyInRace, PaymentOf, Quiet
<1>5. QED BY <1>2, <1>3, <1>4 DEF WorkInv

LEMMA RowWork == ASSUME WorkInv, TypeInv', NEW w \in Workers, ProcessRow(w) PROVE WorkInv'
<1>. DEFINE b == run[w].batch
            p == file[b][run[w].row + 1]
            d == [batch |-> b, pass |-> pass[b] + 1, row |-> run[w].row + 1, kind |-> KindOf(w, p)]
<1>1. /\ UNCHANGED <<docs, file, pass, made>>
      /\ run[w].step = "rows"
      /\ run'[w] = Run(b, "rows", run[w].out \cup {d}, run[w].row + 1)
      /\ \A v \in Workers \ {w} : run'[v] = run[v]
      /\ raced' = IF d.kind = "record" /\ BeingRecorded(w, p) THEN raced \cup {p} ELSE raced
  BY DEF ProcessRow, WorkInv, TypeInv, TypeOK, uploads, outcomes, decisions
<1>2. PaymentOf(d) = p /\ d.batch = b /\ d.pass = pass[b] + 1
  BY DEF PaymentOf
<1>3. d.kind = "record" => \A e \in docs \cup run[w].out : e.kind = "record" => PaymentOf(e) # p
  BY DEF KindOf, Recorded
<1>4. d.kind = "record" => \A v \in Workers \ {w} : \A e \in run[v].out :
          e.kind = "record" /\ PaymentOf(e) = p => p \in raced'
  BY <1>1 DEF BeingRecorded
<1>5. raced \subseteq raced'
  BY <1>1
<1>. HIDE DEF d, p, b
<1>6. run'[w].out = run[w].out \cup {d} /\ run'[w].step = "rows" /\ run'[w].batch = run[w].batch
  BY <1>1 DEF Run, b
<1>7. Alone'
  <2>1. \A v \in Workers : run'[v].step = run[v].step /\ run'[v].batch = run[v].batch
    BY <1>1, <1>6
  <2>2. \A v \in Workers : \A x \in run'[v].out :
            run'[v].step = "rows" /\ x.batch = run'[v].batch /\ x.pass = pass[x.batch] + 1
    <3>1. SUFFICES ASSUME NEW v \in Workers, NEW x \in run'[v].out
                   PROVE  /\ run[v].step = "rows" /\ x.batch = run[v].batch
                          /\ x.pass = pass[x.batch] + 1
      BY <2>1
    <3>2. CASE v = w /\ x = d
      BY <1>1, <1>2, <3>2 DEF b
    <3>3. CASE x \in run[v].out
      BY <3>3 DEF WorkInv, Alone
    <3>4. QED BY <1>1, <1>6, <3>1, <3>2, <3>3
  <2>3. QED BY <1>1, <2>1, <2>2 DEF WorkInv, Alone
<1>8. OncePerBatch'
  <2>1. RecordedOncePerBatch'
    BY <1>1 DEF WorkInv, OncePerBatch, RecordedOncePerBatch, PaymentOf
  <2>2. ASSUME NEW x \in run'[w].out, NEW e \in docs \cup run'[w].out,
               x.kind = "record", e.kind = "record", x.batch = e.batch, PaymentOf(x) = PaymentOf(e)
        PROVE  x = e
    BY <1>2, <1>3, <1>6, <2>2 DEF WorkInv, OncePerBatch
  <2>3. \A v \in Workers \ {w} : \A x \in run'[v].out, e \in docs \cup run'[v].out :
            x.kind = "record" /\ e.kind = "record" /\ x.batch = e.batch /\ PaymentOf(x) = PaymentOf(e)
                => x = e
    BY <1>1 DEF WorkInv, OncePerBatch
  <2>4. QED BY <1>1, <2>1, <2>2, <2>3 DEF OncePerBatch, PaymentOf
<1>9. OnceUnlessRaced'
  <2>1. RecordedTwiceOnlyInRace'
    BY <1>1, <1>5 DEF WorkInv, OnceUnlessRaced, RecordedTwiceOnlyInRace, PaymentOf
  <2>2. ASSUME NEW v \in Workers, NEW x \in run'[v].out, NEW e \in docs,
               x.kind = "record", e.kind = "record", PaymentOf(x) = PaymentOf(e), x # e
        PROVE  PaymentOf(x) \in raced'
    BY <1>1, <1>2, <1>3, <1>5, <1>6, <2>2 DEF WorkInv, OnceUnlessRaced
  <2>3. ASSUME NEW v \in Workers, NEW u \in Workers, NEW x \in run'[v].out, NEW e \in run'[u].out,
               x.kind = "record", e.kind = "record", PaymentOf(x) = PaymentOf(e), x # e
        PROVE  PaymentOf(x) \in raced'
    <3>1. CASE x = d /\ e # d
      <4>1. e \in run[u].out
        BY <1>1, <1>6, <3>1
      <4>2. u # w
        BY <1>2, <1>3, <2>3, <3>1, <4>1
      <4>3. QED BY <1>2, <1>4, <2>3, <3>1, <4>1, <4>2
    <3>2. CASE x # d /\ e = d
      <4>1. x \in run[v].out
        BY <1>1, <1>6, <3>2
      <4>2. v # w
        BY <1>2, <1>3, <2>3, <3>2, <4>1
      <4>3. QED BY <1>2, <1>4, <2>3, <3>2, <4>1, <4>2
    <3>3. CASE x # d /\ e # d
      <4>1. x \in run[v].out /\ e \in run[u].out
        BY <1>1, <1>6, <3>3
      <4>2. QED BY <1>5, <2>3, <4>1 DEF WorkInv, OnceUnlessRaced
    <3>4. QED BY <2>3, <3>1, <3>2, <3>3
  <2>4. QED BY <1>1, <2>1, <2>2, <2>3 DEF OnceUnlessRaced, PaymentOf
<1>10. QED BY <1>7, <1>8, <1>9 DEF WorkInv

LEMMA CommitWork == ASSUME WorkInv, TypeInv', NEW w \in Workers, CommitBatch(w) PROVE WorkInv'
<1>1. /\ UNCHANGED <<file, raced>>
      /\ docs' = docs \cup run[w].out
      /\ run[w].step = "rows" /\ run[w].batch \in Batches
      /\ run'[w].step = "committed" /\ run'[w].out = {}
      /\ \A v \in Workers \ {w} : run'[v] = run[v]
      /\ \A b \in Batches : b # run[w].batch => pass'[b] = pass[b]
  BY DEF CommitBatch, Run, WorkInv, TypeInv, TypeOK, InHand, uploads, decisions
<1>2. Alone'
  <2>1. \A v \in Workers \ {w} : \A d \in run[v].out : d.batch \in Batches /\ d.batch # run[w].batch
    BY <1>1 DEF WorkInv, Alone, TypeInv, TypeOK, Docs
  <2>2. QED BY <1>1, <2>1 DEF WorkInv, Alone
<1>3. \A v \in Workers \ {w} : \A d \in run[v].out, e \in run[w].out : d.batch # e.batch
  BY <1>1 DEF WorkInv, Alone
<1>4. OncePerBatch'
  BY <1>1, <1>3 DEF WorkInv, OncePerBatch, RecordedOncePerBatch, PaymentOf
<1>5. OnceUnlessRaced'
  BY <1>1 DEF WorkInv, OnceUnlessRaced, RecordedTwiceOnlyInRace, PaymentOf
<1>6. QED BY <1>2, <1>4, <1>5 DEF WorkInv

LEMMA WorkHolds == Spec => []WorkInv
<1>1. Init => WorkInv
  BY InitTypes
     DEF Init, WorkInv, Alone, OncePerBatch, RecordedOncePerBatch, OnceUnlessRaced,
         RecordedTwiceOnlyInRace, IdleRun, Run
<1>2. WorkInv /\ [Next]_vars => WorkInv'
  <2>1. SUFFICES ASSUME WorkInv, [Next]_vars PROVE WorkInv'
    OBVIOUS
  <2>2. TypeInv'
    BY <2>1, NextTypes DEF WorkInv
  <2>3. QED BY <2>1, <2>2, Steps, QuietWork, RowWork, CommitWork DEF WorkInv
<1>3. QED BY <1>1, <1>2, PTL DEF Spec

\* Every step of the upload, the queue, the workers and the reviews keeps the
\* types, with attempts, stalls and faults within their bounds.
THEOREM TypesHold == Spec => []TypeOK
<1>1. WorkInv => TypeOK
  BY DEF WorkInv, TypeInv
<1>2. QED BY <1>1, WorkHolds, PTL

\* However often and however concurrently the job of a batch runs, the batch
\* never puts the same payment on record twice (doHandleBatch).
THEOREM RecordedOnceHolds == Spec => []RecordedOncePerBatch
<1>1. WorkInv => RecordedOncePerBatch
  BY DEF WorkInv, OncePerBatch
<1>2. QED BY <1>1, WorkHolds, PTL

\* A payment on record twice was raced for by two open transactions; the check
\* for duplicates finds it in every other order (doHandleBatch).
THEOREM RaceOnlyHolds == Spec => []RecordedTwiceOnlyInRace
<1>1. WorkInv => RecordedTwiceOnlyInRace
  BY DEF WorkInv, OnceUnlessRaced
<1>2. QED BY <1>1, WorkHolds, PTL

-----------------------------------------------------------------------------
(* All rows or none.                                                       *)

HasOutcome(S, b, n, i) == \E k \in Kinds : [batch |-> b, pass |-> n, row |-> i, kind |-> k] \in S

\* A run has written an outcome for every row it is past.
RowsInv ==
    /\ EveryRowHasOutcome
    /\ \A w \in Workers : run[w].step = "rows" =>
           \A i \in 1 .. run[w].row : HasOutcome(run[w].out, run[w].batch, pass[run[w].batch] + 1, i)

LEMMA QuietRows == ASSUME WorkInv, RowsInv, Quiet PROVE RowsInv'
<1>1. EveryRowHasOutcome'
  BY DEF RowsInv, EveryRowHasOutcome, RowsOf, Quiet
<1>2. ASSUME NEW w \in Workers, run'[w].step = "rows", NEW i \in 1 .. run'[w].row
      PROVE  HasOutcome(run'[w].out, run'[w].batch, pass'[run'[w].batch] + 1, i)
  <2>1. run'[w] = run[w] /\ pass' = pass
    BY <1>2 DEF Quiet
  <2>2. QED BY <1>2, <2>1 DEF RowsInv
<1>3. QED BY <1>1, <1>2 DEF RowsInv, HasOutcome

LEMMA RowRows == ASSUME WorkInv, RowsInv, NEW w \in Workers, ProcessRow(w) PROVE RowsInv'
<1>. DEFINE b == run[w].batch
            k == KindOf(w, file[b][run[w].row + 1])
            d == [batch |-> b, pass |-> pass[b] + 1, row |-> run[w].row + 1, kind |-> k]
<1>1. /\ UNCHANGED <<docs, file, pass, complete>>
      /\ run[w].step = "rows" /\ run[w].row \in Nat
      /\ run'[w] = Run(b, "rows", run[w].out \cup {d}, run[w].row + 1)
      /\ \A v \in Workers \ {w} : run'[v] = run[v]
  BY DEF ProcessRow, WorkInv, TypeInv, TypeOK, uploads, outcomes
<1>2. k \in Kinds
  BY DEF KindOf, Kinds
<1>3. HasOutcome(run[w].out \cup {d}, b, pass[b] + 1, run[w].row + 1)
  BY <1>2 DEF HasOutcome
<1>. HIDE DEF d, k
<1>4. \A i \in 1 .. run[w].row + 1 : HasOutcome(run[w].out \cup {d}, b, pass[b] + 1, i)
  <2>1. SUFFICES ASSUME NEW i \in 1 .. run[w].row + 1
                 PROVE  HasOutcome(run[w].out \cup {d}, b, pass[b] + 1, i)
    OBVIOUS
  <2>2. CASE i = run[w].row + 1
    BY <1>3, <2>2
  <2>3. CASE i \in 1 .. run[w].row
    BY <1>1, <2>3 DEF RowsInv, HasOutcome
  <2>4. QED BY <1>1, <2>2, <2>3
<1>5. \A i \in 1 .. run'[w].row : HasOutcome(run'[w].out, run'[w].batch, pass[run'[w].batch] + 1, i)
  <2>1. /\ run'[w].row = run[w].row + 1 /\ run'[w].out = run[w].out \cup {d}
        /\ run'[w].batch = b
    BY <1>1 DEF Run
  <2>2. QED BY <1>4, <2>1
<1>6. EveryRowHasOutcome'
  BY <1>1 DEF RowsInv, EveryRowHasOutcome, RowsOf
<1>7. \A v \in Workers : run'[v].step = "rows" =>
          \A i \in 1 .. run'[v].row : HasOutcome(run'[v].out, run'[v].batch, pass[run'[v].batch] + 1, i)
  BY <1>1, <1>5 DEF RowsInv
<1>8. QED BY <1>1, <1>6, <1>7 DEF RowsInv, HasOutcome

LEMMA CommitRows == ASSUME WorkInv, RowsInv, NEW w \in Workers, CommitBatch(w) PROVE RowsInv'
<1>. DEFINE b == run[w].batch
<1>1. /\ UNCHANGED file
      /\ docs' = docs \cup run[w].out
      /\ run[w].step = "rows" /\ b \in Batches /\ run[w].row = Len(file[b])
      /\ pass[b] \in Nat /\ pass'[b] = pass[b] + 1
      /\ complete' = complete \cup {b}
      /\ run'[w].step = "committed"
      /\ \A v \in Workers \ {w} : run'[v] = run[v]
      /\ \A a \in Batches : a # b => pass'[a] = pass[a]
  BY DEF CommitBatch, Run, WorkInv, TypeInv, TypeOK, InHand, uploads, decisions
<1>2. \A d \in run[w].out : d.batch = b /\ d.pass = pass[b] + 1
  BY DEF WorkInv, Alone
<1>3. \A a \in Batches : (a \in complete') <=> pass'[a] > 0
  BY <1>1 DEF RowsInv, EveryRowHasOutcome
<1>4. \A a \in Batches, d \in docs' : d.batch = a => d.pass \in 1 .. pass'[a]
  <2>1. SUFFICES ASSUME NEW a \in Batches, NEW d \in docs', d.batch = a
                 PROVE  d.pass \in 1 .. pass'[a]
    OBVIOUS
  <2>2. CASE d \in run[w].out
    BY <1>1, <1>2, <2>1, <2>2
  <2>3. CASE d \in docs
    <3>1. d.pass \in 1 .. pass[a] /\ pass[a] \in Nat
      BY <2>1, <2>3 DEF RowsInv, EveryRowHasOutcome, WorkInv, TypeInv, TypeOK
    <3>2. QED BY <1>1, <3>1
  <2>4. QED BY <1>1, <2>2, <2>3
<1>5. \A a \in Batches : \A n \in 1 .. pass'[a], i \in 1 .. Len(file[a]) : HasOutcome(docs', a, n, i)
  <2>1. SUFFICES ASSUME NEW a \in Batches, NEW n \in 1 .. pass'[a], NEW i \in 1 .. Len(file[a])
                 PROVE  HasOutcome(docs', a, n, i)
    OBVIOUS
  <2>2. CASE a = b /\ n = pass[b] + 1
    <3>1. HasOutcome(run[w].out, a, n, i)
      BY <1>1, <2>2 DEF RowsInv
    <3>2. QED BY <1>1, <3>1 DEF HasOutcome
  <2>3. CASE n \in 1 .. pass[a]
    BY <1>1, <2>3 DEF RowsInv, EveryRowHasOutcome, RowsOf, HasOutcome
  <2>4. QED
    <3>1. pass[a] \in Nat
      BY DEF WorkInv, TypeInv, TypeOK
    <3>2. QED BY <1>1, <2>2, <2>3, <3>1
<1>6. EveryRowHasOutcome'
  BY <1>1, <1>3, <1>4, <1>5 DEF EveryRowHasOutcome, RowsOf, HasOutcome
<1>7. ASSUME NEW v \in Workers, run'[v].step = "rows", NEW i \in 1 .. run'[v].row
      PROVE  HasOutcome(run'[v].out, run'[v].batch, pass'[run'[v].batch] + 1, i)
  <2>1. v # w /\ run'[v] = run[v]
    BY <1>1, <1>7
  <2>2. run[v].batch \in Batches /\ run[v].batch # b
    BY <1>1, <1>7, <2>1 DEF WorkInv, Alone, TypeInv, InHand
  <2>3. QED BY <1>1, <1>7, <2>1, <2>2 DEF RowsInv
<1>8. QED BY <1>6, <1>7 DEF RowsInv, HasOutcome

\* A pass over a file leaves an outcome for every row or none for any, whatever
\* failed, crashed or overtook it (the one transaction of doHandleBatch).
THEOREM WholeBatchHolds == Spec => []EveryRowHasOutcome
<1>1. Init => RowsInv
  BY DEF Init, RowsInv, EveryRowHasOutcome, IdleRun, Run
<1>2. WorkInv /\ RowsInv /\ [Next]_vars => RowsInv'
  BY Steps, QuietRows, RowRows, CommitRows DEF WorkInv
<1>3. RowsInv => EveryRowHasOutcome
  BY DEF RowsInv
<1>4. QED BY <1>1, <1>2, <1>3, WorkHolds, PTL DEF Spec

-----------------------------------------------------------------------------
(* Reviews.                                                                *)

InReview(q) == review[q].step \in {"read", "saved"}

Excused(d) == d \in clashed \cup torn

\* A record made from a document means the document is decided or its review
\* was cut off, so whoever takes the document up again is excused.
ReviewInv ==
    /\ ResolvedHasRecord
    /\ AcceptedOnce
    /\ \A m \in made : m.doc \in resolved \cup closed \cup torn
    /\ \A q \in Reviews, m \in made : InReview(q) /\ m.doc = review[q].doc => Excused(m.doc)
    /\ \A q, r \in Reviews :
           InReview(q) /\ InReview(r) /\ q # r /\ review[q].doc = review[r].doc
               => Excused(review[q].doc)

LEMMA IdleReviews ==
    ASSUME ReviewInv, UNCHANGED decisions
    PROVE  ReviewInv'
BY DEF ReviewInv, ResolvedHasRecord, AcceptedOnce, InReview, Excused, decisions

LEMMA ReviewsOpen ==
    ASSUME TypeInv, ReviewInv, NEW q \in Reviews, NEW d \in docs, NEW op, OpenReview(q, d, op)
    PROVE  ReviewInv'
<1>1. /\ UNCHANGED <<resolved, closed, made, torn>>
      /\ d \notin resolved \cup closed
      /\ review'[q] = ReviewOf("read", op, d)
      /\ \A r \in Reviews \ {q} : review'[r] = review[r]
      /\ clashed \subseteq clashed'
      /\ (\E r \in Reviews : review[r].doc = d /\ InReview(r)) => d \in clashed'
  BY DEF OpenReview, Reviewable, InReview, TypeInv, TypeOK
<1>2. ResolvedHasRecord' /\ AcceptedOnce'
  BY <1>1 DEF ReviewInv, ResolvedHasRecord, AcceptedOnce
<1>3. QED BY <1>1, <1>2 DEF ReviewInv, InReview, Excused, ReviewOf

LEMMA ReviewsEnd ==
    ASSUME TypeInv, ReviewInv, NEW q \in Reviews, Accept(q) \/ Close(q) \/ HangUp(q)
    PROVE  ReviewInv'
<1>. DEFINE d == review[q].doc
<1>1. /\ InReview(q) /\ ~InReview(q)'
      /\ \A r \in Reviews \ {q} : review'[r] = review[r]
      /\ UNCHANGED clashed /\ torn \subseteq torn'
      /\ made' = made \/ made' = made \cup {[doc |-> d, by |-> q]}
  BY DEF Accept, Close, HangUp, CutOff, InReview, ReviewOf, TypeInv, TypeOK
<1>2. \A m \in made : m.doc = d => Excused(d)
  BY <1>1 DEF ReviewInv
<1>3. \A r \in Reviews : InReview(r) /\ r # q /\ review[r].doc = d => Excused(d)
  BY <1>1 DEF ReviewInv
<1>4. ResolvedHasRecord'
  BY DEF ReviewInv, ResolvedHasRecord, Accept, Close, HangUp, CutOff
<1>5. AcceptedOnce'
  <2>1. SUFFICES ASSUME NEW m \in made', NEW n \in made', m.doc = n.doc, m.by # n.by
                 PROVE  m.doc \in clashed' \cup torn'
    BY DEF AcceptedOnce
  <2>2. CASE m \in made /\ n \in made
    BY <1>1, <2>1, <2>2 DEF ReviewInv, AcceptedOnce
  <2>3. CASE m \notin made \/ n \notin made
    BY <1>1, <1>2, <2>1, <2>3 DEF Excused
  <2>4. QED BY <2>2, <2>3
<1>6. \A m \in made' : m.doc \in resolved' \cup closed' \cup torn'
  BY DEF ReviewInv, Accept, Close, HangUp, CutOff
<1>7. \A r \in Reviews, m \in made' : InReview(r)' /\ m.doc = review'[r].doc => Excused(m.doc)'
  <2>1. SUFFICES ASSUME NEW r \in Reviews, NEW m \in made', InReview(r)', m.doc = review'[r].doc
                 PROVE  Excused(m.doc)'
    OBVIOUS
  <2>2. r # q /\ review'[r] = review[r] /\ InReview(r)
    BY <1>1, <2>1 DEF InReview
  <2>3. CASE m \in made
    BY <1>1, <2>1, <2>2, <2>3 DEF ReviewInv, Excused
  <2>4. CASE m \notin made
    BY <1>1, <1>3, <2>1, <2>2, <2>4 DEF Excused
  <2>5. QED BY <2>3, <2>4
<1>8. \A r, s \in Reviews :
          InReview(r)' /\ InReview(s)' /\ r # s /\ review'[r].doc = review'[s].doc
              => Excused(review[r].doc)'
  <2>1. SUFFICES ASSUME NEW r \in Reviews, NEW s \in Reviews, InReview(r)', InReview(s)', r # s,
                        review'[r].doc = review'[s].doc
                 PROVE  Excused(review[r].doc)'
    OBVIOUS
  <2>2. /\ review'[r] = review[r] /\ review'[s] = review[s]
        /\ InReview(r) /\ InReview(s)
    BY <1>1, <2>1 DEF InReview
  <2>3. QED BY <1>1, <2>1, <2>2 DEF ReviewInv, InReview, Excused
<1>. HIDE DEF d
<1>9. QED BY ONLY <1>4, <1>5, <1>6, <1>7, <1>8 DEF ReviewInv

LEMMA ReviewsSave == ASSUME TypeInv, ReviewInv, NEW q \in Reviews, SaveRecord(q) PROVE ReviewInv'
<1>1. /\ UNCHANGED <<resolved, closed, made, clashed, torn>>
      /\ \A r \in Reviews : review'[r].doc = review[r].doc /\ InReview(r)' = InReview(r)
  BY DEF SaveRecord, ReviewOf, InReview, TypeInv, TypeOK
<1>2. QED BY <1>1 DEF ReviewInv, ResolvedHasRecord, AcceptedOnce, Excused

LEMMA ReviewsHold == Spec => [](TypeInv /\ ReviewInv)
<1>1. Init => ReviewInv
  BY DEF Init, ReviewInv, ResolvedHasRecord, AcceptedOnce, InReview, UnusedReview, ReviewOf
<1>2. TypeInv /\ ReviewInv /\ [Next]_vars => ReviewInv'
  <2>1. SUFFICES ASSUME TypeInv, ReviewInv, [Next]_vars PROVE ReviewInv'
    OBVIOUS
  <2>2. CASE \E q \in Reviews, d \in docs, op \in {"accept", "close"} : OpenReview(q, d, op)
    BY <2>1, <2>2, ReviewsOpen
  <2>3. CASE \E q \in Reviews : SaveRecord(q) \/ Accept(q) \/ Close(q) \/ HangUp(q)
    BY <2>1, <2>3, ReviewsSave, ReviewsEnd
  <2>4. CASE UNCHANGED decisions
    BY <2>1, <2>4, IdleReviews
  <2>5. QED
    BY <2>1, <2>2, <2>3, <2>4
       DEF Next, vars, decisions, QueueJob, CommitUpload, CutUpload, LoseUpload, Stalled, TakeJob,
           Crash, BatchMissing, BeginBatch, ProcessRow, CommitBatch, FailBatch, EndJob,
           MemberJoins
<1>3. WorkInv => TypeInv
  BY DEF WorkInv
<1>4. QED BY <1>1, <1>2, <1>3, WorkHolds, PTL DEF Spec

\* A document shown as matched or confirmed valid has the record that says so,
\* whatever was cut off (matchUnmatched, approveDispute).
THEOREM ResolvedHolds == Spec => []ResolvedHasRecord
<1>1. ReviewInv => ResolvedHasRecord
  BY DEF ReviewInv
<1>2. QED BY <1>1, ReviewsHold, PTL

\* A second record of one document takes two admins at once or a review that
\* was cut off (matchUnmatched, approveDispute).
THEOREM AcceptedOnceHolds == Spec => []AcceptedOnce
<1>1. ReviewInv => AcceptedOnce
  BY DEF ReviewInv
<1>2. QED BY <1>1, ReviewsHold, PTL

\* A completed batch is never anything else again, though its job may run and
\* fail again: what a failing run writes is rolled back (doHandleBatch).
THEOREM CompletedHolds == Spec => CompletedStays
<1>1. [Next]_vars => [complete \subseteq complete']_vars
  BY DEF Next, vars, uploads, outcomes, QueueJob, CommitUpload, CutUpload, LoseUpload, Stalled,
         TakeJob, Crash, BatchMissing, BeginBatch, ProcessRow, CommitBatch, FailBatch,
         StatusAfterFailure, EndJob, OpenReview, SaveRecord, Accept, Close, HangUp, MemberJoins
<1>2. QED BY <1>1, PTL DEF Spec, CompletedStays

=============================================================================
