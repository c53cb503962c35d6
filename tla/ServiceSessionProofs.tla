------------------------ MODULE ServiceSessionProofs ------------------------
(***************************************************************************)
(* Proofs about ServiceSession: its types, that no slot is reported longer *)
(* than the service and the seconds operators added, and that a service    *)
(* whose operators take turns is the running order the live page shows.    *)
(***************************************************************************)
EXTENDS ServiceSession, SequenceTheorems, FiniteSetTheorems, TLAPS

-----------------------------------------------------------------------------
\* During a pause the clock is left alone: what the bound on the seconds needs,
\* and the types do not.
NoPausedAdjust == "adjust" \notin PausedOps

\* An anchor that somebody read or may read: its pause began while it ran, and
\* it counts no more than the seconds of the service.
Honest(a) ==
  /\ a.started <= now
  /\ NoPausedAdjust => a.base <= a.started + taken
  /\ a.paused => a.started <= a.pausedAt /\ a.pausedAt <= now

\* A request's anchor is from before the request, and the request is one the
\* anchor allows.
Timely(w) ==
  /\ w.time <= now
  /\ w.seen.started <= w.time
  /\ w.seen.paused => w.seen.started <= w.seen.pausedAt /\ w.seen.pausedAt <= w.time
  /\ NoPausedAdjust => w.seen.base <= w.seen.started + taken
  /\ w.phase # "idle" /\ w.op = "advance" => w.seen.at < Last
  /\ w.phase # "idle" /\ w.op = "rewind" => w.seen.at > 0
  /\ w.phase # "idle" /\ w.op = "resume" => w.seen.paused
  /\ NoPausedAdjust /\ w.phase # "idle" /\ w.op = "adjust" => ~w.seen.paused
  /\ w.delta \in Int
  /\ NoPausedAdjust => \A s \in Slots : w.saved[s].secs <= now + taken

Inv ==
  /\ TypeOK
  /\ NoPausedAdjust => NeverLongerThanService
  /\ Honest(anchor)
  /\ \A h \in Handlers : Timely(work[h])

-----------------------------------------------------------------------------
LEMMA SlotsNat == 0 \in Slots /\ Slots \subseteq Nat /\ \A p \in Slots : p <= Last
  BY SessionAssumption DEF Slots

LEMMA NonNegNat ==
  ASSUME NEW n \in Int
  PROVE NonNeg(n) \in Nat /\ (n >= 0 => NonNeg(n) = n) /\ (n < 0 => NonNeg(n) = 0)
  BY DEF NonNeg

\* The clock of an honest anchor shows at most the seconds of the service.
LEMMA ElapsedBound ==
  ASSUME TypeOK, NEW w \in Requests, Timely(w)
  PROVE /\ Elapsed(w.seen, w.time) \in Nat
        /\ NoPausedAdjust => Elapsed(w.seen, w.time) <= w.time + taken
  <1> DEFINE a == w.seen
             n == a.base + (IF a.paused THEN a.pausedAt ELSE w.time) - a.started
  <1>1. /\ a.base \in Nat /\ a.started \in Nat /\ a.pausedAt \in Nat /\ a.paused \in BOOLEAN
        /\ w.time \in Nat /\ taken \in Nat
    BY DEF Requests, Anchors, TypeOK
  <1>2. n \in Int /\ (NoPausedAdjust => n <= w.time + taken)
    BY <1>1 DEF Timely
  <1>3. w.time + taken >= 0
    BY <1>1
  <1>4. Elapsed(w.seen, w.time) = NonNeg(n)
    BY DEF Elapsed
  <1> HIDE DEF n
  <1> QED BY <1>2, <1>3, <1>4, NonNegNat

-----------------------------------------------------------------------------
(* Anchors.                                                                *)

LEMMA RunningAnchor ==
  ASSUME NEW at \in Slots, NEW st \in Nat, NEW b \in Nat
  PROVE Running(at, st, b) \in Anchors
  BY DEF Running, Anchors

\* What a request sets is an anchor, and as honest as what it read.
LEMMA NewAnchorHonest ==
  ASSUME Inv, NEW h \in Handlers, work[h].phase = "read", work[h].op # "reorder",
         NEW t \in Nat, taken <= t,
         work[h].op = "adjust" /\ work[h].delta < 0 => t = taken - work[h].delta
  PROVE LET a == NewAnchor(work[h]) IN
        /\ a \in Anchors
        /\ a.started <= now /\ (NoPausedAdjust => a.base <= a.started + t)
        /\ a.paused => a.started <= a.pausedAt /\ a.pausedAt <= now
  <1> DEFINE w == work[h]
             a == NewAnchor(w)
             e == Elapsed(w.seen, w.time)
  <1>1. w \in Requests /\ Timely(w) /\ TypeOK
    BY DEF Inv, TypeOK
  <1>2. /\ w.seen \in Anchors /\ w.seen.at \in Slots /\ w.seen.base \in Nat
        /\ w.seen.started \in Nat /\ w.seen.pausedAt \in Nat /\ w.seen.paused \in BOOLEAN
        /\ w.time \in Nat /\ w.delta \in Int /\ w.op \in Ops
        /\ now \in Nat /\ taken \in Nat
    BY <1>1 DEF Requests, Anchors, TypeOK
  <1>3. e \in Nat /\ (NoPausedAdjust => e <= w.time + taken)
    BY <1>1, ElapsedBound
  <1>4. CASE w.op = "advance"
    <2>1. a = Running(w.seen.at + 1, w.time, 0)
      BY <1>4 DEF NewAnchor
    <2>2. w.seen.at + 1 \in Slots
      BY <1>1, <1>2, <1>4, SessionAssumption DEF Timely, Slots
    <2> QED BY <2>1, <2>2, <1>1, <1>2, RunningAnchor DEF Running, Timely
  <1>5. CASE w.op = "rewind"
    <2>1. a = Running(w.seen.at - 1, w.time, 0)
      BY <1>5 DEF NewAnchor
    <2>2. w.seen.at - 1 \in Slots
      BY <1>1, <1>2, <1>5, SessionAssumption DEF Timely, Slots
    <2> QED BY <2>1, <2>2, <1>1, <1>2, RunningAnchor DEF Running, Timely
  <1>6. CASE w.op = "pause"
    <2>1. a = Paused(w)
      BY <1>6 DEF NewAnchor
    <2> QED BY <2>1, <1>1, <1>2 DEF Paused, Timely, Anchors
  <1>7. CASE w.op = "resume"
    <2> DEFINE b == w.seen.base + w.seen.pausedAt - w.seen.started
    <2>1. a = Running(w.seen.at, w.time, b)
      BY <1>7 DEF NewAnchor, Resumed
    <2>2. b \in Nat /\ (NoPausedAdjust => b <= w.time + t)
      BY <1>1, <1>2, <1>7 DEF Timely
    <2> QED BY <2>1, <2>2, <1>1, <1>2, RunningAnchor DEF Running, Timely
  <1>8. CASE w.op = "adjust"
    <2> DEFINE b == NonNeg(e - w.delta)
    <2>1. b \in Nat /\ (NoPausedAdjust => b <= w.time + t)
      <3>1. /\ e - w.delta \in Int /\ w.time + t >= 0
            /\ NoPausedAdjust => e - w.delta <= w.time + t
        BY <1>2, <1>3, <1>8
      <3> QED BY <3>1, NonNegNat, <1>2
    <2>2. a = [status |-> "LIVE", at |-> w.seen.at,
               started |-> IF w.seen.paused THEN w.seen.started ELSE w.time, base |-> b,
               paused |-> w.seen.paused, pausedAt |-> w.seen.pausedAt]
      BY <1>8 DEF NewAnchor, Adjusted, Left
    <2>3. NoPausedAdjust => ~w.seen.paused
      BY <1>1, <1>8 DEF Timely
    <2> QED BY <2>1, <2>2, <2>3, <1>1, <1>2 DEF Anchors, Timely
  <1>9. CASE w.op = "end"
    <2>1. a = Completed(w)
      BY <1>9 DEF NewAnchor
    <2> QED BY <2>1, <1>1, <1>2 DEF Completed, Timely, Anchors
  <1> QED BY <1>2, <1>4, <1>5, <1>6, <1>7, <1>8, <1>9 DEF Ops

-----------------------------------------------------------------------------
(* Rows.                                                                   *)

\* Rows of which none is longer than n seconds.
Within(r, n) ==
  /\ r \in [Slots -> Rows]
  /\ NoPausedAdjust => \A s \in Slots : r[s].secs <= n

LEMMA PutWithin ==
  ASSUME NEW n \in Nat, NEW r, Within(r, n), NEW p \in Slots, NEW st \in SlotStatus,
         NEW secs \in Nat, NoPausedAdjust => secs <= n
  PROVE Within(Put(r, p, st, secs), n)
  BY DEF Within, Put, Rows

LEMMA BegunWithin ==
  ASSUME NEW n \in Nat, NEW r, Within(r, n), NEW p \in Slots
  PROVE Within(Begun(r, p), n)
  BY DEF Within, Begun, Rows, SlotStatus

LEMMA SkippedWithin ==
  ASSUME NEW n \in Nat, NEW r, Within(r, n)
  PROVE Within(Skipped(r), n)
  BY DEF Within, Skipped, Rows, SlotStatus

LEMMA ReorderedWithin ==
  ASSUME NEW n \in Nat, NEW r, Within(r, n), NEW w \in Requests, Within(w.saved, n)
  PROVE Within(Reordered(r, w), n)
  BY DEF Within, Reordered

LEMMA ClosedWithin ==
  ASSUME Inv, NEW h \in Handlers
  PROVE Within(Closed(rows, work[h]), now + taken)
  <1> DEFINE w == work[h]
  <1>1. w \in Requests /\ Timely(w) /\ TypeOK /\ Within(rows, now + taken)
    BY DEF Inv, TypeOK, Within, NeverLongerThanService
  <1>2. w.seen.at \in Slots /\ w.time \in Nat /\ now \in Nat /\ taken \in Nat
    BY <1>1 DEF Requests, Anchors, TypeOK
  <1>3. /\ Elapsed(w.seen, w.time) \in Nat
        /\ NoPausedAdjust => Elapsed(w.seen, w.time) <= now + taken
    BY <1>1, <1>2, ElapsedBound DEF Timely
  <1>4. now + taken \in Nat /\ "PENDING" \in SlotStatus /\ "COMPLETED" \in SlotStatus
    BY <1>2 DEF SlotStatus
  <1> QED BY <1>1, <1>2, <1>3, <1>4, PutWithin DEF Closed

LEMMA NewRowsWithin ==
  ASSUME Inv, NEW h \in Handlers, work[h].phase = "set"
  PROVE Within(NewRows(rows, work[h]), now + taken)
  <1> DEFINE w == work[h]
             n == now + taken
             c == Closed(rows, w)
  <1>1. w \in Requests /\ Timely(w) /\ Within(rows, n)
    BY DEF Inv, TypeOK, Within, NeverLongerThanService
  <1>2. n \in Nat /\ w.seen.at \in Slots
    BY <1>1 DEF Inv, TypeOK, Requests, Anchors
  <1>3. Within(c, n)
    BY ClosedWithin
  <1>4. "IN_PROGRESS" \in SlotStatus
    BY DEF SlotStatus
  <1> HIDE DEF n, c
  <1>5. CASE w.op = "advance"
    <2>1. w.seen.at + 1 \in Slots
      BY <1>1, <1>2, <1>5, SessionAssumption DEF Timely, Slots
    <2> QED BY <2>1, <1>2, <1>3, <1>5, BegunWithin DEF NewRows, n, c
  <1>6. CASE w.op = "rewind"
    <2>1. w.seen.at - 1 \in Slots
      BY <1>1, <1>2, <1>6, SessionAssumption DEF Timely, Slots
    <2>2. NewRows(rows, w) = Put(c, w.seen.at - 1, "IN_PROGRESS", 0)
      BY <1>6 DEF NewRows, c
    <2> QED BY <2>1, <2>2, <1>2, <1>3, <1>4, PutWithin DEF n
  <1>7. CASE w.op = "reorder"
    <2>1. Within(w.saved, n)
      BY <1>1 DEF Timely, Within, Requests, n
    <2> QED BY <2>1, <1>1, <1>2, <1>7, ReorderedWithin DEF NewRows, n
  <1>8. CASE w.op = "end"
    BY <1>2, <1>3, <1>8, SkippedWithin DEF NewRows, n, c
  <1>9. CASE w.op \notin {"advance", "rewind", "reorder", "end"}
    BY <1>1, <1>9 DEF NewRows, n
  <1> QED BY <1>5, <1>6, <1>7, <1>8, <1>9

\* The pause log is a log of pauses.
LEMMA NewPausesType ==
  ASSUME TypeOK, NEW w \in Requests
  PROVE NewPauses(w) \in Seq([from : Nat, until : Nat \cup {Open}])
  <1> DEFINE P == [from : Nat, until : Nat \cup {Open}]
  <1>1. pauses \in Seq(P) /\ w.time \in Nat
    BY DEF TypeOK, Requests
  <1>2. CASE w.op = "pause"
    BY <1>1, <1>2 DEF NewPauses
  <1>3. CASE w.op # "pause" /\ ClosesPauses(w)
    <2>1. PICK n \in Nat : DOMAIN pauses = 1 .. n
      BY <1>1
    <2>2. \A i \in DOMAIN pauses : pauses[i] \in P
      BY <1>1, ElementOfSeq, LenProperties
    <2> QED BY <1>1, <1>3, <2>1, <2>2 DEF NewPauses
  <1>4. CASE w.op # "pause" /\ ~ClosesPauses(w)
    BY <1>1, <1>4 DEF NewPauses
  <1> QED BY <1>2, <1>3, <1>4

-----------------------------------------------------------------------------
(* Steps.                                                                  *)

LEMMA IdleTimely == ASSUME NEW n \in Nat, now = n, taken \in Nat
                    PROVE Idle \in Requests /\ Timely(Idle)
  BY SlotsNat DEF Idle, NoAnchor, Unstarted, Requests, Anchors, Rows, SlotStatus, Ops, Timely

LEMMA InitInv == Init => Inv
  <1> SUFFICES ASSUME Init PROVE Inv
    OBVIOUS
  <1>1. rows \in [Slots -> Rows] /\ \A s \in Slots : rows[s].secs = 0
    BY DEF Init, Unstarted, Rows, SlotStatus
  <1>2. anchor \in Anchors /\ Honest(anchor)
    BY SlotsNat DEF Init, NoAnchor, Anchors, Honest
  <1>3. work \in [Handlers -> Requests] /\ \A h \in Handlers : Timely(work[h])
    BY IdleTimely DEF Init
  <1>4. pauses \in Seq([from : Nat, until : Nat \cup {Open}])
    BY DEF Init
  <1> QED BY <1>1, <1>2, <1>3, <1>4 DEF Init, Inv, TypeOK, NeverLongerThanService

\* What was true of a request stays true as time goes on.
LEMMA TimelyLater ==
  ASSUME Inv, now' \in Nat, taken' \in Nat, now <= now', taken <= taken',
         NEW w \in Requests, Timely(w)
  PROVE Timely(w)'
  <1>1. /\ w.seen.base \in Nat /\ w.seen.started \in Nat /\ w.time \in Nat
        /\ \A s \in Slots : w.saved[s].secs \in Nat
        /\ now \in Nat /\ taken \in Nat
    BY DEF Requests, Anchors, Rows, Inv, TypeOK
  <1> QED BY <1>1 DEF Timely

LEMMA StartInv == ASSUME Inv, Start PROVE Inv'
  <1>1. Within(rows, now + taken) /\ now + taken \in Nat /\ now \in Nat /\ taken \in Nat
    BY DEF Inv, TypeOK, Within, NeverLongerThanService
  <1>2. Within(rows', now + taken)
    BY <1>1, BegunWithin, SlotsNat DEF Start
  <1>3. anchor' \in Anchors /\ Honest(anchor)'
    BY <1>1, RunningAnchor, SlotsNat DEF Start, Running, Honest
  <1>4. \A h \in Handlers : Timely(work[h])'
    BY TimelyLater, <1>1 DEF Start, Inv, TypeOK
  <1> QED BY <1>2, <1>3, <1>4 DEF Start, Inv, TypeOK, Within, NeverLongerThanService

LEMMA SecondInv == ASSUME Inv, Second PROVE Inv'
  <1>1. now \in Nat /\ taken \in Nat /\ now' = now + 1 /\ taken' = taken
    BY DEF Inv, TypeOK, Second
  <1>2. \A h \in Handlers : Timely(work[h])'
    BY TimelyLater, <1>1 DEF Second, Inv, TypeOK
  <1>3. Honest(anchor)'
    BY <1>1 DEF Second, Inv, Honest, TypeOK, Anchors
  <1>4. NoPausedAdjust => NeverLongerThanService'
    BY <1>1 DEF Second, Inv, NeverLongerThanService, TypeOK, Rows
  <1> QED BY <1>1, <1>2, <1>3, <1>4 DEF Second, Inv, TypeOK

LEMMA TakesInv ==
  ASSUME Inv, NEW h \in Handlers, NEW op \in Ops, NEW delta \in Int,
         NEW listed \in SUBSET Slots, NEW saved, Within(saved, now + taken),
         Takes(h, op, delta, listed, saved)
  PROVE Inv'
  <1> DEFINE w == [phase |-> "read", op |-> op, seen |-> anchor, time |-> now,
                   delta |-> delta, listed |-> listed, saved |-> saved]
  <1>1. w \in Requests
    BY DEF Requests, Inv, TypeOK, Within
  <1>2. Timely(w)
    BY SlotsNat DEF Timely, Takes, May, Inv, TypeOK, Honest, Anchors, NoPausedAdjust, Within
  <1> HIDE DEF w
  <1>3. work' = [work EXCEPT ![h] = w]
    BY DEF Takes, w
  <1>4. work' \in [Handlers -> Requests] /\ \A g \in Handlers : Timely(work'[g])
    BY <1>1, <1>2, <1>3 DEF Inv, TypeOK
  <1>5. UNCHANGED <<status, rows, anchor, pauses, now, taken>>
        /\ asked' \in Nat /\ orderly' \in BOOLEAN
    BY DEF Takes, Inv, TypeOK
  <1> QED BY <1>4, <1>5 DEF Inv, TypeOK, NeverLongerThanService, Honest, Timely

LEMMA ReadInv ==
  ASSUME Inv, NEW h \in Handlers,
         \/ \E op \in Ops : Read(h, op)
         \/ \E delta \in Deltas : ReadAdjust(h, delta)
         \/ \E order \in [Slots -> Slots] : ReadReorder(h, order)
  PROVE Inv'
  <1>1. now + taken \in Nat /\ Within(rows, now + taken)
    BY DEF Inv, TypeOK, Within, NeverLongerThanService
  <1>2. Within(Unstarted, now + taken)
    BY <1>1 DEF Within, Unstarted, Rows, SlotStatus
  <1>3. ASSUME NEW op \in Ops, Read(h, op) PROVE Inv'
    BY <1>2, <1>3, TakesInv DEF Read
  <1>4. ASSUME NEW delta \in Deltas, ReadAdjust(h, delta) PROVE Inv'
    BY <1>2, <1>4, TakesInv, SessionAssumption DEF ReadAdjust, Ops
  <1>5. ASSUME NEW order \in [Slots -> Slots], ReadReorder(h, order) PROVE Inv'
    <2> DEFINE saved == [s \in Slots |-> [pos |-> order[s], status |-> rows[s].status,
                                         secs |-> rows[s].secs]]
    <2>1. Within(saved, now + taken)
      BY <1>1 DEF Within, Rows
    <2>2. Takes(h, "reorder", 0, Behind(anchor), saved)
      BY <1>5 DEF ReadReorder
    <2>3. Behind(anchor) \in SUBSET Slots /\ "reorder" \in Ops
      BY DEF Behind, Ops
    <2> HIDE DEF saved
    <2> QED BY <2>1, <2>2, <2>3, TakesInv
  <1> QED BY <1>3, <1>4, <1>5

LEMMA SetAnchorInv == ASSUME Inv, NEW h \in Handlers, SetAnchor(h) PROVE Inv'
  <1> DEFINE w == work[h]
             v == [phase |-> "set", op |-> w.op, seen |-> w.seen, time |-> w.time,
                   delta |-> w.delta, listed |-> w.listed, saved |-> w.saved]
  <1>1. w \in Requests /\ Timely(w) /\ w.phase = "read" /\ now \in Nat /\ taken \in Nat
    BY DEF Inv, TypeOK, SetAnchor
  <1>2. /\ taken' \in Nat /\ taken <= taken' /\ now' = now
        /\ w.op = "adjust" /\ w.delta < 0 => taken' = taken - w.delta
    BY <1>1 DEF SetAnchor, Timely
  <1>3. anchor' \in Anchors /\ Honest(anchor)'
    <2>1. CASE w.op = "reorder"
      BY <2>1, <1>1, <1>2 DEF SetAnchor, Inv, TypeOK, Honest, Anchors
    <2>2. CASE w.op # "reorder"
      <3>1. anchor' = NewAnchor(w)
        BY <2>2 DEF SetAnchor
      <3> QED BY <3>1, <2>2, <1>1, <1>2, NewAnchorHonest DEF Honest
    <2> QED BY <2>1, <2>2
  <1>4. v \in Requests /\ Timely(v)
    BY <1>1 DEF Requests, Timely
  <1>5. work' = [work EXCEPT ![h] = v]
    <2>1. [w EXCEPT !.phase = "set"] = v
      BY <1>1 DEF Requests
    <2> QED BY <2>1 DEF SetAnchor
  <1> HIDE DEF v
  <1>6. work' \in [Handlers -> Requests] /\ \A g \in Handlers : Timely(work'[g])
    BY <1>4, <1>5 DEF Inv, TypeOK
  <1>7. \A g \in Handlers : Timely(work[g])'
    <2> SUFFICES ASSUME NEW g \in Handlers PROVE Timely(work[g])'
      OBVIOUS
    <2> DEFINE u == work'[g]
    <2>1. /\ u \in Requests /\ Timely(u)
      BY <1>6
    <2>2. /\ u.seen.base \in Nat /\ u.seen.started \in Nat
          /\ \A s \in Slots : u.saved[s].secs \in Nat
      BY <2>1 DEF Requests, Anchors, Rows
    <2> QED BY <2>1, <2>2, <1>1, <1>2 DEF Timely
  <1>8. NoPausedAdjust => NeverLongerThanService'
    BY <1>1, <1>2 DEF SetAnchor, Inv, NeverLongerThanService, TypeOK, Rows
  <1> QED BY <1>2, <1>3, <1>6, <1>7, <1>8 DEF SetAnchor, Inv, TypeOK

\* A request that ends leaves an idle handler.
LEMMA EndsTimely ==
  ASSUME Inv, NEW h \in Handlers, Ends(h), UNCHANGED <<now, taken>>
  PROVE work' \in [Handlers -> Requests] /\ \A g \in Handlers : Timely(work[g])'
  <1>1. Idle \in Requests /\ Timely(Idle)
    BY IdleTimely DEF Inv, TypeOK
  <1>2. work' \in [Handlers -> Requests] /\ \A g \in Handlers : Timely(work'[g])
    BY <1>1 DEF Inv, TypeOK, Ends
  <1> QED BY <1>2 DEF Timely

LEMMA CommitInv == ASSUME Inv, NEW h \in Handlers, Commit(h) PROVE Inv'
  <1>1. Within(rows', now + taken)
    BY NewRowsWithin DEF Commit
  <1>2. work' \in [Handlers -> Requests] /\ \A g \in Handlers : Timely(work[g])'
    BY EndsTimely DEF Commit
  <1>3. pauses' \in Seq([from : Nat, until : Nat \cup {Open}])
    BY NewPausesType DEF Commit, Inv, TypeOK
  <1> QED BY <1>1, <1>2, <1>3
          DEF Commit, Inv, TypeOK, Within, NeverLongerThanService, Honest

LEMMA RollbackInv == ASSUME Inv, NEW h \in Handlers, Rollback(h) PROVE Inv'
  <1>1. work' \in [Handlers -> Requests] /\ \A g \in Handlers : Timely(work[g])'
    BY EndsTimely DEF Rollback
  <1> QED BY <1>1 DEF Rollback, Inv, TypeOK, NeverLongerThanService, Honest

LEMMA HangUpInv == ASSUME Inv, NEW h \in Handlers, HangUp(h) PROVE Inv'
  <1>1. Within(rows', now + taken)
    BY ClosedWithin DEF HangUp, Within, Inv, TypeOK, NeverLongerThanService
  <1>2. work' \in [Handlers -> Requests] /\ \A g \in Handlers : Timely(work[g])'
    BY EndsTimely DEF HangUp
  <1>3. pauses' \in Seq([from : Nat, until : Nat \cup {Open}])
    BY NewPausesType DEF HangUp, Inv, TypeOK
  <1> QED BY <1>1, <1>2, <1>3
          DEF HangUp, Inv, TypeOK, Within, NeverLongerThanService, Honest

LEMMA NextInv == ASSUME Inv, [Next]_vars PROVE Inv'
  <1>1. CASE UNCHANGED vars
    BY <1>1 DEF vars, Inv, TypeOK, NeverLongerThanService, Honest, Timely
  <1>2. CASE Start
    BY <1>2, StartInv
  <1>3. CASE Second
    BY <1>3, SecondInv
  <1>4. CASE \E h \in Handlers :
               \/ \E op \in Ops : Read(h, op)
               \/ \E delta \in Deltas : ReadAdjust(h, delta)
               \/ \E order \in [Slots -> Slots] : ReadReorder(h, order)
    BY <1>4, ReadInv
  <1>5. CASE \E h \in Handlers : SetAnchor(h)
    BY <1>5, SetAnchorInv
  <1>6. CASE \E h \in Handlers : Commit(h)
    BY <1>6, CommitInv
  <1>7. CASE \E h \in Handlers : Rollback(h)
    BY <1>7, RollbackInv
  <1>8. CASE \E h \in Handlers : HangUp(h)
    BY <1>8, HangUpInv
  <1> QED BY <1>1, <1>2, <1>3, <1>4, <1>5, <1>6, <1>7, <1>8 DEF Next

LEMMA InvHolds == Spec => []Inv
  <1>1. Inv /\ [Next]_vars => Inv'
    BY NextInv
  <1> QED BY InitInv, <1>1, PTL DEF Spec

\* The variables have their types, seconds not below zero, whatever operators do
\* during a pause.
THEOREM TypesHold == Spec => []TypeOK
  <1>1. Inv => TypeOK
    BY DEF Inv
  <1> QED BY <1>1, InvHolds, PTL

\* However requests overtake one another, fail or are cut, no slot is reported
\* longer than the service and what operators added to its clock, unless they
\* adjust it during a pause.
THEOREM SlotTimesHold == NoPausedAdjust => (Spec => []NeverLongerThanService)
  <1> SUFFICES ASSUME NoPausedAdjust PROVE Spec => []NeverLongerThanService
    OBVIOUS
  <1>1. Inv => NeverLongerThanService
    BY DEF Inv
  <1> QED BY <1>1, InvHolds, PTL

-----------------------------------------------------------------------------
(* The running order.                                                      *)

\* What operators ask for as they take turns; the anchor allows it.
Allowed(w) ==
  /\ w.op = "advance" => w.seen.at < Last
  /\ w.op = "rewind" => w.seen.at > 0 /\ ~w.seen.paused
  /\ w.op = "pause" => ~w.seen.paused
  /\ w.op = "resume" => w.seen.paused
  /\ w.op = "adjust" => ~w.seen.paused /\ w.delta \in Deltas
  /\ w.op = "reorder" =>
       /\ w.listed = Behind(w.seen)
       /\ \A s \in w.listed :
            /\ w.saved[s].status = rows[s].status /\ w.saved[s].secs = rows[s].secs
            /\ w.saved[s].pos > w.seen.at
       /\ \A s, t \in w.listed : w.saved[s].pos = w.saved[t].pos => s = t

\* The one request under way has read the clock as it stood and stands, until it
\* sets the clock itself, in the second in which it is committed.
Turn(h) ==
  work[h].phase # "idle" =>
    /\ \A k \in Handlers : work[k].phase # "idle" => k = h
    /\ status = "LIVE" /\ work[h].time = now
    /\ work[h].phase = "read" \/ work[h].op = "reorder" => anchor = work[h].seen
    /\ work[h].phase = "set" /\ work[h].op # "reorder" => anchor = NewAnchor(work[h])
    /\ Allowed(work[h])

\* Nothing has happened in a draft, and only a live session has a live clock.
Stage ==
  /\ status = "DRAFT" => rows = Unstarted /\ pauses = <<>> /\ now = 0
  /\ Alone /\ status # "LIVE" => anchor.status # "LIVE"

\* A pause is open exactly while the clock stands, and it is the last one.
Log(P, stands) ==
  /\ \A i \in DOMAIN P :
       /\ P[i].from <= now
       /\ P[i].until = Open => i = Len(P) /\ stands
       /\ P[i].until # Open => P[i].until <= now
  /\ stands => Len(P) > 0 /\ P[Len(P)].until = Open

\* No two slots stand in one place.
Distinct(r) == \A s, t \in Slots : r[s].pos = r[t].pos => s = t

Tidy ==
  /\ Stage
  /\ \A h \in Handlers : Turn(h)
  /\ Log(pauses, Live /\ Settled.paused)
  /\ Distinct(rows)

-----------------------------------------------------------------------------
(* The seconds of the pause log.                                           *)

PauseEntry == [from : Nat, until : Nat \cup {Open}]

Stopped(P, n) ==
  {m \in (DOMAIN P) \X (0 .. n - 1) :
     /\ P[m[1]].from <= m[2]
     /\ P[m[1]].until = Open \/ m[2] < P[m[1]].until}

LEMMA HaltedStopped == Halted = Cardinality(Stopped(pauses, now))
  BY DEF Halted, Stopped

LEMMA StoppedFinite ==
  ASSUME NEW P \in Seq(PauseEntry), NEW n \in Nat
  PROVE  IsFiniteSet(Stopped(P, n)) /\ Cardinality(Stopped(P, n)) \in Nat
  <1>1. DOMAIN P = 1 .. Len(P) /\ Len(P) \in Nat
    BY LenProperties
  <1>2. IsFiniteSet(1 .. Len(P)) /\ IsFiniteSet(0 .. n - 1)
    BY <1>1, FS_Interval
  <1>3. IsFiniteSet((DOMAIN P) \X (0 .. n - 1))
    BY <1>1, <1>2, FS_Product
  <1>4. IsFiniteSet(Stopped(P, n))
    BY <1>3, FS_Subset DEF Stopped
  <1> QED BY <1>4, FS_CardinalityType

\* An entry that opens has no second yet.
LEMMA StoppedOpens ==
  ASSUME NEW P \in Seq(PauseEntry), NEW n \in Nat
  PROVE  Stopped(Append(P, [from |-> n, until |-> Open]), n) = Stopped(P, n)
  <1> DEFINE e == [from |-> n, until |-> Open]
             Q == Append(P, e)
  <1>1. /\ Len(P) \in Nat /\ DOMAIN P = 1 .. Len(P) /\ DOMAIN Q = 1 .. Len(P) + 1
        /\ \A i \in DOMAIN P : Q[i] = P[i]
        /\ Q[Len(P) + 1] = e
    <2>1. e \in PauseEntry
      BY DEF PauseEntry
    <2> QED BY <2>1, AppendProperties, LenProperties
  <1> HIDE DEF Q
  <1>2. ASSUME NEW i \in DOMAIN Q, NEW t \in 0 .. n - 1, Q[i].from <= t
        PROVE  i \in DOMAIN P
    <2>1. i # Len(P) + 1
      BY <1>1, <1>2
    <2> QED BY <2>1, <1>1
  <1>3. ASSUME NEW m \in Stopped(Q, n) PROVE m \in Stopped(P, n)
    <2>1. m[1] \in DOMAIN Q /\ m[2] \in 0 .. n - 1 /\ m = <<m[1], m[2]>> /\ Q[m[1]].from <= m[2]
      BY <1>3 DEF Stopped
    <2>2. m[1] \in DOMAIN P
      BY <2>1, <1>2
    <2> QED BY <1>1, <1>3, <2>1, <2>2 DEF Stopped
  <1>4. ASSUME NEW m \in Stopped(P, n) PROVE m \in Stopped(Q, n)
    <2>1. m[1] \in DOMAIN P /\ m[2] \in 0 .. n - 1 /\ m = <<m[1], m[2]>>
      BY <1>4 DEF Stopped
    <2>2. m[1] \in DOMAIN Q /\ Q[m[1]] = P[m[1]]
      BY <1>1, <2>1
    <2> QED BY <1>4, <2>1, <2>2 DEF Stopped
  <1>5. Stopped(Q, n) = Stopped(P, n)
    BY <1>3, <1>4
  <1> QED BY <1>5 DEF Q

CloseAt(P, n) ==
  [i \in DOMAIN P |->
     [from |-> P[i].from, until |-> IF P[i].until = Open THEN n ELSE P[i].until]]

\* Nor does an entry lose or win one when it is closed.
LEMMA StoppedCloses ==
  ASSUME NEW P \in Seq(PauseEntry), NEW n \in Nat
  PROVE  Stopped(CloseAt(P, n), n) = Stopped(P, n)
  <1> DEFINE Q == CloseAt(P, n)
  <1>1. DOMAIN Q = DOMAIN P
    BY DEF CloseAt
  <1>2. ASSUME NEW i \in DOMAIN P, NEW t \in 0 .. n - 1
        PROVE  /\ Q[i].from = P[i].from
               /\ (Q[i].until = Open \/ t < Q[i].until) <=> (P[i].until = Open \/ t < P[i].until)
    BY DEF CloseAt, Open
  <1> HIDE DEF Q
  <1>3. Stopped(Q, n) = Stopped(P, n)
    BY <1>1, <1>2 DEF Stopped
  <1> QED BY <1>3 DEF Q

\* As a second passes, an open pause lasts one longer and a closed one does not.
LEMMA StoppedTicks ==
  ASSUME NEW P \in Seq(PauseEntry), NEW n \in Nat, now = n, NEW stands \in BOOLEAN,
         Log(P, stands)
  PROVE  Cardinality(Stopped(P, n + 1)) =
           Cardinality(Stopped(P, n)) + (IF stands THEN 1 ELSE 0)
  <1>0. /\ Len(P) \in Nat /\ DOMAIN P = 1 .. Len(P)
        /\ \A i \in DOMAIN P : P[i] \in PauseEntry
    BY LenProperties, ElementOfSeq
  <1>1. \A i \in DOMAIN P : P[i].from \in Nat /\ P[i].until \in Nat \cup {Open}
    BY <1>0 DEF PauseEntry
  <1>2. ASSUME NEW i \in DOMAIN P
        PROVE  (P[i].from <= n /\ (P[i].until = Open \/ n < P[i].until)) <=>
                 (stands /\ i = Len(P))
    BY <1>0, <1>1 DEF Log, Open
  <1>3. ASSUME NEW m \in Stopped(P, n + 1), m \notin Stopped(P, n)
        PROVE  stands /\ m = <<Len(P), n>>
    <2>1. /\ m[1] \in DOMAIN P /\ m[2] \in 0 .. n /\ m = <<m[1], m[2]>>
          /\ P[m[1]].from <= m[2] /\ (P[m[1]].until = Open \/ m[2] < P[m[1]].until)
      BY <1>3 DEF Stopped
    <2>2. m[2] \notin 0 .. n - 1
      BY <2>1, <1>3 DEF Stopped
    <2>3. m[2] = n
      BY <2>1, <2>2
    <2> QED BY <2>1, <2>3, <1>2
  <1>4. Stopped(P, n) \subseteq Stopped(P, n + 1)
    <2>1. \A t \in 0 .. n - 1 : t \in 0 .. (n + 1) - 1
      OBVIOUS
    <2> QED BY <2>1 DEF Stopped
  <1>5. CASE ~stands
    <2>1. Stopped(P, n + 1) = Stopped(P, n)
      BY <1>3, <1>4, <1>5
    <2> QED BY <2>1, <1>5, StoppedFinite
  <1>6. CASE stands
    <2>1. Len(P) \in DOMAIN P
      BY <1>0, <1>6 DEF Log
    <2>2. <<Len(P), n>> \in Stopped(P, n + 1)
      BY <2>1, <1>2, <1>6 DEF Stopped
    <2>3. <<Len(P), n>> \notin Stopped(P, n)
      BY DEF Stopped
    <2>4. Stopped(P, n + 1) = Stopped(P, n) \cup {<<Len(P), n>>}
      BY <1>3, <1>4, <2>2
    <2>5. IsFiniteSet(Stopped(P, n))
      BY StoppedFinite
    <2> QED BY <1>6, <2>3, <2>4, <2>5, FS_AddElement
  <1> QED BY <1>5, <1>6

-----------------------------------------------------------------------------
(* What others see of the clock.                                           *)

LEMMA SettledAlone == Alone => Settled = anchor
  BY DEF Alone, Settled

LEMMA SettledSeen ==
  ASSUME NEW h \in Handlers, work[h].phase # "idle", Turn(h), work[h].phase \in {"read", "set"}
  PROVE  Settled = work[h].seen
  <1>1. \A k \in Handlers : work[k].phase # "idle" => k = h
    BY DEF Turn
  <1>2. CASE work[h].phase = "set" /\ work[h].op # "reorder"
    <2>1. (CHOOSE k \in Handlers : work[k].phase = "set" /\ work[k].op # "reorder") = h
      BY <1>1, <1>2
    <2> QED BY <1>2, <2>1 DEF Settled
  <1>3. CASE work[h].phase = "read" \/ work[h].op = "reorder"
    <2>1. ~ \E k \in Handlers : work[k].phase = "set" /\ work[k].op # "reorder"
      BY <1>1, <1>3
    <2>2. anchor = work[h].seen
      BY <1>3 DEF Turn
    <2> QED BY <2>1, <2>2 DEF Settled
  <1> QED BY <1>2, <1>3

\* A clock that others see is one that ran before it stood, and not for less
\* than no time.
Sane(a) ==
  /\ a \in Anchors
  /\ a.started <= now
  /\ a.paused => a.started <= a.pausedAt

LEMMA SettledSane ==
  ASSUME Inv, \A h \in Handlers : Turn(h)
  PROVE  Sane(Settled)
  <1>1. CASE Alone
    BY <1>1, SettledAlone DEF Inv, TypeOK, Honest, Sane
  <1>2. CASE ~Alone
    <2>1. PICK h \in Handlers : work[h].phase # "idle"
      BY <1>2 DEF Alone
    <2>2. work[h] \in Requests /\ Timely(work[h])
      BY DEF Inv, TypeOK
    <2>3. Settled = work[h].seen
      BY <2>1, <2>2, SettledSeen DEF Requests
    <2>4. work[h].seen \in Anchors /\ work[h].time \in Nat /\ now \in Nat
      BY <2>2 DEF Requests, Inv, TypeOK
    <2>5. work[h].seen.started <= now /\ (work[h].seen.paused =>
            work[h].seen.started <= work[h].seen.pausedAt)
      BY <2>2, <2>4 DEF Timely, Anchors
    <2> QED BY <2>3, <2>4, <2>5 DEF Sane
  <1> QED BY <1>1, <1>2

LEMMA ElapsedSane ==
  ASSUME NEW a, Sane(a), now \in Nat
  PROVE  /\ Elapsed(a, now) = a.base + (IF a.paused THEN a.pausedAt ELSE now) - a.started
         /\ Elapsed(a, now) \in Nat
  <1>1. /\ a.base \in Nat /\ a.started \in Nat /\ a.pausedAt \in Nat /\ a.paused \in BOOLEAN
    BY DEF Sane, Anchors
  <1> DEFINE n == a.base + (IF a.paused THEN a.pausedAt ELSE now) - a.started
  <1>2. n \in Nat
    BY <1>1 DEF Sane
  <1>3. Elapsed(a, now) = NonNeg(n)
    BY DEF Elapsed
  <1> HIDE DEF n
  <1>4. Elapsed(a, now) = n
    BY <1>2, <1>3, NonNegNat
  <1> QED BY <1>2, <1>4 DEF n

LEMMA LastSlotIsLast == Order!LastSlot = Last
  <1>1. Last \in Slots /\ \A q \in Slots : q <= Last /\ q \in Int
    BY SessionAssumption DEF Slots
  <1>2. \A p \in Slots : (\A q \in Slots : q <= p) => p = Last
    BY <1>1
  <1> QED BY <1>1, <1>2 DEF Order!LastSlot

-----------------------------------------------------------------------------
(* The steps no one else sees.                                             *)

LEMMA OrderInit == Init => Order!Init /\ Tidy
  <1> SUFFICES ASSUME Init PROVE Order!Init /\ Tidy
    OBVIOUS
  <1>1. status = "DRAFT" /\ ~Live /\ pauses = <<>> /\ now = 0 /\ Alone /\ rows = Unstarted
        /\ anchor = NoAnchor
    BY DEF Init, Live, Alone, Idle
  <1>2. Halted = 0
    <2>1. Stopped(pauses, now) = {}
      BY <1>1 DEF Stopped
    <2> QED BY <2>1, HaltedStopped, FS_EmptySet
  <1>3. Order!Init
    BY <1>1, <1>2 DEF Order!Init, Unstarted
  <1>4. Stage
    BY <1>1 DEF Stage, NoAnchor
  <1>5. \A h \in Handlers : Turn(h)
    BY <1>1 DEF Turn, Alone
  <1>6. Log(pauses, Live /\ Settled.paused)
    BY <1>1 DEF Log
  <1>7. Distinct(rows)
    BY <1>1 DEF Distinct, Unstarted
  <1> QED BY <1>3, <1>4, <1>5, <1>6, <1>7 DEF Tidy

\* Where the clock others see, the rows and the log stay, so does the order.
LEMMA OrderStays ==
  ASSUME Settled' = Settled, UNCHANGED <<status, rows, pauses, now>>
  PROVE  /\ UNCHANGED Order!vars
         /\ Log(pauses, Live /\ Settled.paused) => Log(pauses, Live /\ Settled.paused)'
         /\ Distinct(rows) => Distinct(rows)'
  <1>1. Live' = Live /\ Halted' = Halted
    BY DEF Live, Halted
  <1>2. Elapsed(Settled, now)' = Elapsed(Settled, now)
    BY DEF Elapsed
  <1>3. UNCHANGED Order!vars
    BY <1>1, <1>2 DEF Order!vars
  <1> QED BY <1>1, <1>3 DEF Log, Distinct

LEMMA OrderTakes ==
  ASSUME Inv, Tidy, NEW h \in Handlers, NEW op \in Ops, NEW delta \in Int,
         NEW listed, NEW saved, Alone, Takes(h, op, delta, listed, saved),
         Allowed([phase |-> "read", op |-> op, seen |-> anchor, time |-> now,
                  delta |-> delta, listed |-> listed, saved |-> saved])
  PROVE  Tidy' /\ UNCHANGED Order!vars
  <1> DEFINE w == [phase |-> "read", op |-> op, seen |-> anchor, time |-> now,
                   delta |-> delta, listed |-> listed, saved |-> saved]
  <1>1. /\ work \in [Handlers -> Requests] /\ work' = [work EXCEPT ![h] = w]
        /\ anchor.status = "LIVE"
        /\ UNCHANGED <<status, rows, anchor, pauses, now>>
    BY DEF Takes, Inv, TypeOK
  <1>2. status = "LIVE"
    BY <1>1 DEF Tidy, Stage
  <1>3. /\ w.phase = "read" /\ w.seen = anchor /\ w.time = now
        /\ work'[h] = w /\ \A k \in Handlers \ {h} : work'[k].phase = "idle"
    BY <1>1 DEF Alone
  <1>4. Allowed(work[h])'
    <2>1. work'[h] = w
      BY <1>3
    <2>2. Behind(anchor)' = Behind(anchor)
      BY <1>1 DEF Behind
    <2> QED BY <1>1, <2>1, <2>2 DEF Allowed, Behind
  <1> HIDE DEF w
  <1>5. \A k \in Handlers : Turn(k)'
    <2>1. Turn(h)'
      <3>1. \A k \in Handlers : work'[k].phase # "idle" => k = h
        BY <1>3
      <3> QED BY <1>1, <1>2, <1>3, <1>4, <3>1 DEF Turn
    <2>2. \A k \in Handlers \ {h} : Turn(k)'
      BY <1>3 DEF Turn
    <2> QED BY <2>1, <2>2
  <1>6. Settled' = Settled
    <2>1. Settled' = anchor
      BY <1>1, <1>3 DEF Settled
    <2> QED BY <2>1, SettledAlone
  <1>7. Stage'
    BY <1>1, <1>2, <1>3 DEF Stage, Alone
  <1> QED BY <1>1, <1>5, <1>6, <1>7, OrderStays DEF Tidy

LEMMA OrderReads ==
  ASSUME Inv, Tidy, PausedOps = {}, NEW h \in Handlers, Alone,
         \/ \E op \in Ops : Read(h, op)
         \/ \E delta \in Deltas : ReadAdjust(h, delta)
         \/ \E order \in [Slots -> Slots] : ReadReorder(h, order)
  PROVE  Tidy' /\ UNCHANGED Order!vars
  <1>1. ASSUME NEW op \in Ops, Read(h, op) PROVE Tidy' /\ UNCHANGED Order!vars
    <2> DEFINE w == [phase |-> "read", op |-> op, seen |-> anchor, time |-> now,
                     delta |-> 0, listed |-> {}, saved |-> Unstarted]
    <2>1. op \notin {"adjust", "reorder"} /\ Takes(h, op, 0, {}, Unstarted) /\ May(op)
      BY <1>1 DEF Read, Takes
    <2>2. /\ op = "advance" => anchor.at < Last
          /\ op = "rewind" => anchor.at > 0 /\ ~anchor.paused
          /\ op = "pause" => ~anchor.paused
          /\ op = "resume" => anchor.paused
      BY <2>1 DEF May
    <2>3. Allowed(w)
      BY <2>1, <2>2 DEF Allowed
    <2> QED BY <2>1, <2>3, OrderTakes
  <1>2. ASSUME NEW delta \in Deltas, ReadAdjust(h, delta)
        PROVE  Tidy' /\ UNCHANGED Order!vars
    <2> DEFINE w == [phase |-> "read", op |-> "adjust", seen |-> anchor, time |-> now,
                     delta |-> delta, listed |-> {}, saved |-> Unstarted]
    <2>1. Takes(h, "adjust", delta, {}, Unstarted) /\ May("adjust") /\ delta \in Int
      BY <1>2, SessionAssumption DEF ReadAdjust, Takes
    <2>2. ~anchor.paused
      BY <2>1 DEF May
    <2>3. Allowed(w)
      BY <2>2 DEF Allowed
    <2> QED BY <2>1, <2>3, OrderTakes DEF Ops
  <1>3. ASSUME NEW order \in [Slots -> Slots], ReadReorder(h, order)
        PROVE  Tidy' /\ UNCHANGED Order!vars
    <2> DEFINE saved == [s \in Slots |-> [pos |-> order[s], status |-> rows[s].status,
                                         secs |-> rows[s].secs]]
               w == [phase |-> "read", op |-> "reorder", seen |-> anchor, time |-> now,
                     delta |-> 0, listed |-> Behind(anchor), saved |-> saved]
    <2>1. /\ Takes(h, "reorder", 0, Behind(anchor), saved)
          /\ \A s \in Behind(anchor) : order[s] > anchor.at
          /\ \A s, t \in Behind(anchor) : order[s] = order[t] => s = t
      BY <1>3 DEF ReadReorder
    <2>2. \A s \in Slots : saved[s].pos = order[s] /\ saved[s].status = rows[s].status
                           /\ saved[s].secs = rows[s].secs
      OBVIOUS
    <2>3. Behind(anchor) \subseteq Slots
      BY DEF Behind
    <2> HIDE DEF saved
    <2>4. Allowed(w)
      BY <2>1, <2>2, <2>3 DEF Allowed
    <2> QED BY <2>1, <2>4, OrderTakes DEF Ops
  <1> QED BY <1>1, <1>2, <1>3

LEMMA OrderSets ==
  ASSUME Inv, Tidy, NEW h \in Handlers, SetAnchor(h)
  PROVE  Tidy' /\ UNCHANGED Order!vars
  <1> DEFINE w == work[h]
             v == [phase |-> "set", op |-> w.op, seen |-> w.seen, time |-> w.time,
                   delta |-> w.delta, listed |-> w.listed, saved |-> w.saved]
  <1>1. /\ w \in Requests /\ w.phase = "read" /\ Turn(h) /\ work \in [Handlers -> Requests]
        /\ anchor' = IF w.op = "reorder" THEN anchor ELSE NewAnchor(w)
        /\ UNCHANGED <<status, rows, pauses, now>>
    BY DEF SetAnchor, Inv, TypeOK, Tidy
  <1>2. work'[h] = v /\ \A k \in Handlers \ {h} : work'[k] = work[k]
    <2>1. [w EXCEPT !.phase = "set"] = v
      BY <1>1 DEF Requests
    <2> QED BY <2>1, <1>1 DEF SetAnchor
  <1>3. /\ \A k \in Handlers : work[k].phase # "idle" => k = h
        /\ status = "LIVE" /\ w.time = now /\ anchor = w.seen /\ Allowed(w)
    BY <1>1 DEF Turn
  <1>4. NewAnchor(v) = NewAnchor(w)
    BY DEF NewAnchor, Running, Resumed, Paused, Adjusted, Left, Completed
  <1>5. /\ v.phase = "set" /\ v.op = w.op /\ v.seen = w.seen /\ v.time = w.time
        /\ v.delta = w.delta /\ v.listed = w.listed /\ v.saved = w.saved
    OBVIOUS
  <1> HIDE DEF v
  <1>6. Allowed(v)
    BY <1>3, <1>5 DEF Allowed
  <1>7. Turn(h)'
    <2>1. Allowed(work[h])'
      BY <1>1, <1>2, <1>6 DEF Allowed, Behind
    <2>2. v.op # "reorder" => anchor' = NewAnchor(v)
      BY <1>1, <1>4, <1>5
    <2>3. v.op = "reorder" => anchor' = v.seen
      BY <1>1, <1>3, <1>5
    <2>4. NewAnchor(work[h])' = NewAnchor(v)
      BY <1>2 DEF NewAnchor, Running, Resumed, Paused, Adjusted, Left, Completed, Elapsed,
                  NonNeg
    <2> QED BY <1>1, <1>2, <1>3, <1>5, <2>1, <2>2, <2>3, <2>4 DEF Turn
  <1>8. \A k \in Handlers \ {h} : Turn(k)'
    BY <1>2, <1>3 DEF Turn
  <1>9. Settled' = Settled
    <2>1. Settled = w.seen
      BY <1>1, SettledSeen
    <2>2. CASE w.op = "reorder"
      <3>1. Settled' = anchor'
        BY <1>2, <1>3, <1>5, <2>2 DEF Settled
      <3> QED BY <3>1, <2>1, <2>2, <1>1, <1>3
    <2>3. CASE w.op # "reorder"
      <3>1. (CHOOSE k \in Handlers : work'[k].phase = "set" /\ work'[k].op # "reorder") = h
        BY <1>2, <1>3, <1>5, <2>3
      <3>2. Settled' = work'[h].seen
        BY <1>2, <1>5, <2>3, <3>1 DEF Settled
      <3> QED BY <3>2, <2>1, <1>2, <1>5
    <2> QED BY <2>2, <2>3
  <1>10. Stage'
    BY <1>1, <1>3 DEF Stage
  <1> QED BY <1>1, <1>7, <1>8, <1>9, <1>10, OrderStays DEF Tidy

-----------------------------------------------------------------------------
(* The steps of the order.                                                 *)

LEMMA OrderTicks ==
  ASSUME Inv, Tidy, Alone, Second
  PROVE  Tidy' /\ [Order!Next]_(Order!vars)
  <1>1. /\ now \in Nat /\ now' = now + 1 /\ status # "DRAFT"
        /\ UNCHANGED <<status, rows, anchor, pauses, work>>
    BY DEF Second, Inv, TypeOK
  <1>2. Alone' /\ Settled = anchor /\ Settled' = anchor
    <2>1. Settled' = anchor'
      BY <1>1 DEF Alone, Settled
    <2> QED BY <1>1, <2>1, SettledAlone DEF Alone
  <1>3. Live' = Live /\ Live \in BOOLEAN
    BY <1>1 DEF Live
  <1>4. Sane(anchor)
    BY <1>2, SettledSane DEF Tidy
  <1> DEFINE stands == Live /\ anchor.paused
  <1>5. stands \in BOOLEAN /\ Log(pauses, stands) /\ pauses \in Seq(PauseEntry)
    BY <1>2, <1>3, <1>4 DEF Tidy, Inv, TypeOK, PauseEntry, Sane, Anchors
  <1>6. Halted' = Halted + (IF stands THEN 1 ELSE 0)
    <2>1. Halted' = Cardinality(Stopped(pauses, now + 1))
      BY <1>1 DEF Halted, Stopped
    <2> HIDE DEF stands
    <2> QED BY <2>1, <1>1, <1>5, StoppedTicks, HaltedStopped
  <1>7. Elapsed(anchor, now)' = Elapsed(anchor, now) + (IF anchor.paused THEN 0 ELSE 1)
    <2>1. Sane(anchor)' /\ now' \in Nat
      BY <1>1, <1>4 DEF Sane, Anchors
    <2>2. Elapsed(anchor, now) = anchor.base + (IF anchor.paused THEN anchor.pausedAt ELSE now)
                                   - anchor.started
      BY <1>1, <1>4, ElapsedSane
    <2>3. Elapsed(anchor, now') = anchor.base + (IF anchor.paused THEN anchor.pausedAt ELSE now')
                                   - anchor.started
      <3>1. /\ anchor.base \in Nat /\ anchor.started \in Nat /\ anchor.pausedAt \in Nat
            /\ anchor.paused \in BOOLEAN
        BY <1>4 DEF Sane, Anchors
      <3> DEFINE n == anchor.base + (IF anchor.paused THEN anchor.pausedAt ELSE now')
                        - anchor.started
      <3>2. n \in Nat
        BY <1>1, <1>4, <3>1 DEF Sane
      <3>3. Elapsed(anchor, now') = NonNeg(n)
        BY DEF Elapsed
      <3> HIDE DEF n
      <3>4. Elapsed(anchor, now') = n
        BY <3>2, <3>3, NonNegNat
      <3> QED BY <3>4 DEF n
    <2>4. Elapsed(anchor, now)' = Elapsed(anchor, now')
      BY <1>1 DEF Elapsed
    <2>5. /\ anchor.base \in Nat /\ anchor.started \in Nat /\ anchor.pausedAt \in Nat
      BY <1>4 DEF Sane, Anchors
    <2> QED BY <1>1, <2>2, <2>3, <2>4, <2>5
  <1>8. Stage'
    BY <1>1, <1>2 DEF Stage, Tidy
  <1>9. \A h \in Handlers : Turn(h)'
    BY <1>2 DEF Turn, Alone
  <1>10. Log(pauses, stands)'
    <2>1. \A i \in DOMAIN pauses : pauses[i].from \in Nat /\ pauses[i].until \in Nat \cup {Open}
      <3>1. \A i \in DOMAIN pauses : pauses[i] \in PauseEntry
        BY <1>5, ElementOfSeq, LenProperties
      <3> QED BY <3>1 DEF PauseEntry
    <2> QED BY <1>1, <1>3, <1>5, <2>1 DEF Log, Open
  <1>11. Tidy'
    <2>1. Log(pauses, Live /\ Settled.paused)'
      BY <1>1, <1>2, <1>3, <1>10
    <2> QED BY <1>1, <1>8, <1>9, <2>1 DEF Tidy, Distinct
  <1>12. CASE Live
    <2>1. /\ Elapsed(Settled, now) = Elapsed(anchor, now)
          /\ Elapsed(Settled, now)' = Elapsed(anchor, now)'
      BY <1>1, <1>2 DEF Elapsed
    <2>2. Halted \in Nat /\ Elapsed(anchor, now) \in Nat /\ anchor.paused \in BOOLEAN
      BY <1>1, <1>4, <1>5, HaltedStopped, StoppedFinite, ElapsedSane DEF Sane, Anchors
    <2>3. CASE anchor.paused
      <3>1. Halted' = Halted + 1 /\ Elapsed(Settled, now)' = Elapsed(Settled, now)
        BY <1>6, <1>7, <1>12, <2>1, <2>2, <2>3
      <3>2. Order!Second
        BY <1>1, <1>2, <1>3, <1>12, <2>3, <3>1 DEF Order!Second, Live
      <3> QED BY <1>11, <3>2 DEF Order!Next
    <2>4. CASE ~anchor.paused
      <3>1. Halted' = Halted /\ Elapsed(Settled, now)' = Elapsed(Settled, now) + 1
        BY <1>6, <1>7, <1>12, <2>1, <2>2, <2>4
      <3>2. Order!Second
        BY <1>1, <1>2, <1>3, <1>12, <2>4, <3>1 DEF Order!Second, Live
      <3> QED BY <1>11, <3>2 DEF Order!Next
    <2> QED BY <2>3, <2>4
  <1>13. CASE ~Live
    <2>1. Halted' = Halted
      <3>1. Halted \in Nat
        BY <1>1, <1>5, HaltedStopped, StoppedFinite
      <3> QED BY <1>6, <1>13, <3>1
    <2> QED BY <1>1, <1>3, <1>11, <1>13, <2>1 DEF Order!vars
  <1> QED BY <1>12, <1>13

LEMMA OrderStarts ==
  ASSUME Inv, Tidy, Start
  PROVE  Tidy' /\ Order!Next
  <1>1. /\ status = "DRAFT" /\ status' = "LIVE" /\ rows = Unstarted /\ pauses = <<>> /\ now = 0
        /\ rows' = Begun(rows, 0) /\ anchor' = Running(0, 0, 0)
        /\ UNCHANGED <<pauses, now, work>>
    BY DEF Start, Tidy, Stage
  <1>2. Alone
    BY <1>1 DEF Tidy, Turn, Alone
  <1>3. Alone' /\ Settled' = Running(0, 0, 0)
    <2>1. Alone'
      BY <1>1, <1>2 DEF Alone
    <2>2. Settled' = anchor'
      BY <2>1 DEF Settled, Alone
    <2> QED BY <1>1, <2>1, <2>2
  <1>4. ~Live /\ Live' /\ Halted' = Halted
    BY <1>1 DEF Live, Halted
  <1>5. /\ Settled'.at = 0 /\ Settled'.paused = FALSE /\ Elapsed(Settled, now)' = 0
    BY <1>1, <1>3 DEF Running, Elapsed, NonNeg
  <1>6. rows' = Order!Set(0, "IN_PROGRESS", 0)
    BY <1>1 DEF Begun, Unstarted, Order!Set
  <1>7. Stage'
    BY <1>1 DEF Stage
  <1>8. \A h \in Handlers : Turn(h)'
    BY <1>3 DEF Turn, Alone
  <1>9. Log(pauses, Live /\ Settled.paused)'
    BY <1>1, <1>5 DEF Log
  <1>10. Distinct(rows)'
    BY <1>1 DEF Distinct, Begun, Unstarted
  <1>11. Tidy'
    BY <1>7, <1>8, <1>9, <1>10 DEF Tidy
  <1>12. Order!Start
    BY <1>1, <1>4, <1>5, <1>6 DEF Order!Start
  <1> QED BY <1>11, <1>12 DEF Order!Next

LEMMA LogOpens ==
  ASSUME NEW P \in Seq(PauseEntry), now \in Nat, Log(P, FALSE)
  PROVE  Log(Append(P, [from |-> now, until |-> Open]), TRUE)
  <1> DEFINE e == [from |-> now, until |-> Open]
             Q == Append(P, e)
  <1>1. /\ Len(P) \in Nat /\ DOMAIN P = 1 .. Len(P) /\ Len(Q) = Len(P) + 1
        /\ DOMAIN Q = 1 .. Len(P) + 1 /\ \A i \in DOMAIN P : Q[i] = P[i]
        /\ Q[Len(P) + 1] = e
    <2>1. e \in PauseEntry
      BY DEF PauseEntry
    <2> QED BY <2>1, AppendProperties, LenProperties
  <1>2. \A i \in DOMAIN Q : i \in DOMAIN P \/ i = Len(P) + 1
    BY <1>1
  <1> HIDE DEF Q
  <1>3. Log(Q, TRUE)
    BY <1>1, <1>2 DEF Log
  <1> QED BY <1>3 DEF Q

LEMMA LogCloses ==
  ASSUME NEW P \in Seq(PauseEntry), NEW stands, now \in Nat, Log(P, stands)
  PROVE  Log(CloseAt(P, now), FALSE)
  <1>1. /\ DOMAIN CloseAt(P, now) = DOMAIN P
        /\ \A i \in DOMAIN P :
             /\ CloseAt(P, now)[i].from = P[i].from
             /\ CloseAt(P, now)[i].until = IF P[i].until = Open THEN now ELSE P[i].until
    BY DEF CloseAt
  <1> QED BY <1>1 DEF Log, Open

\* A request that is committed was the only one, read the clock in this second,
\* and leaves the clock it set for all to see.
LEMMA CommitFacts ==
  ASSUME Inv, Tidy, NEW h \in Handlers, Commit(h)
  PROVE  /\ work[h] \in Requests /\ work[h].time = now /\ Allowed(work[h])
         /\ status = "LIVE" /\ Settled = work[h].seen /\ Sane(work[h].seen)
         /\ Settled' = IF work[h].op = "reorder" THEN work[h].seen ELSE NewAnchor(work[h])
         /\ rows' = NewRows(rows, work[h]) /\ pauses' = NewPauses(work[h]) /\ now' = now
         /\ status' = IF work[h].op = "end" THEN "COMPLETED" ELSE "LIVE"
         /\ Stage' /\ \A k \in Handlers : Turn(k)'
  <1> DEFINE w == work[h]
  <1>1. /\ w \in Requests /\ w.phase = "set" /\ Turn(h) /\ work \in [Handlers -> Requests]
        /\ work' = [work EXCEPT ![h] = Idle]
        /\ rows' = NewRows(rows, w) /\ pauses' = NewPauses(w)
        /\ status' = IF w.op = "end" THEN "COMPLETED" ELSE status
        /\ UNCHANGED <<anchor, now>>
    BY DEF Commit, Ends, Inv, TypeOK, Tidy
  <1>2. /\ \A k \in Handlers : work[k].phase # "idle" => k = h
        /\ status = "LIVE" /\ w.time = now /\ Allowed(w)
        /\ anchor = IF w.op = "reorder" THEN w.seen ELSE NewAnchor(w)
    BY <1>1 DEF Turn
  <1>3. Settled = w.seen
    BY <1>1, SettledSeen
  <1>4. Sane(w.seen)
    BY <1>3, SettledSane DEF Tidy
  <1>5. \A k \in Handlers : work'[k].phase = "idle"
    BY <1>1, <1>2 DEF Idle
  <1>6. Settled' = anchor'
    BY <1>5 DEF Settled
  <1>7. status' # "LIVE" => anchor'.status = "COMPLETED"
    BY <1>1, <1>2 DEF NewAnchor, Completed
  <1>8. Stage'
    BY <1>1, <1>2, <1>7 DEF Stage
  <1>9. \A k \in Handlers : Turn(k)'
    BY <1>5 DEF Turn
  <1> QED BY <1>1, <1>2, <1>3, <1>4, <1>6, <1>8, <1>9

\* What a commit does to the pause log never changes the seconds in it.
LEMMA CommitHalted ==
  ASSUME Inv, Tidy, NEW h \in Handlers, Commit(h)
  PROVE  /\ Halted' = Halted
         /\ IF work[h].op = "pause" THEN Log(pauses', TRUE)
            ELSE IF ClosesPauses(work[h]) THEN Log(pauses', FALSE)
            ELSE pauses' = pauses
  <1> DEFINE w == work[h]
  <1>1. /\ pauses' = NewPauses(w) /\ now' = now /\ w.time = now /\ Allowed(w) /\ now \in Nat
        /\ pauses \in Seq(PauseEntry) /\ Live /\ Settled = w.seen
    BY CommitFacts DEF Inv, TypeOK, PauseEntry, Live
  <1>2. Log(pauses, w.seen.paused)
    BY <1>1 DEF Tidy, Log
  <1>3. Halted' = Cardinality(Stopped(pauses', now))
    BY <1>1 DEF Halted, Stopped
  <1>4. CASE w.op = "pause"
    <2>1. pauses' = Append(pauses, [from |-> now, until |-> Open])
      BY <1>1, <1>4 DEF NewPauses
    <2>2. Log(pauses, FALSE)
      <3>1. ~w.seen.paused
        BY <1>1, <1>4 DEF Allowed
      <3> QED BY <1>2, <3>1 DEF Log
    <2>3. Log(Append(pauses, [from |-> now, until |-> Open]), TRUE)
      BY <1>1, <2>2, LogOpens
    <2> QED BY <1>1, <1>3, <1>4, <2>1, <2>3, StoppedOpens, HaltedStopped
  <1>5. CASE w.op # "pause" /\ ClosesPauses(w)
    <2>1. pauses' = CloseAt(pauses, now)
      BY <1>1, <1>5 DEF NewPauses, CloseAt
    <2>2. Log(CloseAt(pauses, now), FALSE)
      BY <1>1, <1>2, LogCloses
    <2> QED BY <1>1, <1>3, <1>5, <2>1, <2>2, StoppedCloses, HaltedStopped
  <1>6. CASE w.op # "pause" /\ ~ClosesPauses(w)
    <2>1. pauses' = pauses
      BY <1>1, <1>6 DEF NewPauses
    <2> QED BY <1>3, <1>6, <2>1, HaltedStopped
  <1> QED BY <1>4, <1>5, <1>6

\* Slots change places only when they are reordered.
LEMMA CommitDistinct ==
  ASSUME Inv, Tidy, NEW h \in Handlers, Commit(h)
  PROVE  Distinct(rows')
  <1> DEFINE w == work[h]
  <1>1. /\ rows' = NewRows(rows, w) /\ Allowed(w) /\ w \in Requests /\ Distinct(rows)
        /\ w.seen.at \in Slots /\ \A s \in Slots : rows[s].pos \in Slots
    BY CommitFacts DEF Tidy, Inv, TypeOK, Rows, Sane, Anchors
  <1>2. CASE w.op # "reorder"
    <2>1. \A s \in Slots : Closed(rows, w)[s].pos = rows[s].pos
      BY DEF Closed, Put
    <2>2. \A s \in Slots : rows'[s].pos = rows[s].pos
      BY <1>1, <1>2, <2>1 DEF NewRows, Begun, Put, Skipped
    <2> QED BY <1>1, <2>2 DEF Distinct
  <1>3. CASE w.op = "reorder"
    <2>1. \A s \in Slots : rows'[s] = IF s \in w.listed THEN w.saved[s] ELSE rows[s]
      BY <1>1, <1>3 DEF NewRows, Reordered
    <2>2. /\ w.listed = {s \in Slots : rows[s].pos > w.seen.at}
          /\ \A s \in w.listed : w.saved[s].pos > w.seen.at
          /\ \A s, t \in w.listed : w.saved[s].pos = w.saved[t].pos => s = t
      BY <1>1, <1>3 DEF Allowed, Behind
    <2>3. \A s \in Slots \ w.listed : ~(rows[s].pos > w.seen.at)
      BY <2>2
    <2> QED BY <1>1, <2>1, <2>2, <2>3 DEF Distinct
  <1> QED BY <1>2, <1>3

\* What a commit makes of the rows, the clock and the log, with everything the
\* page showed before it.
CommitShown(w, a) ==
  /\ w \in Requests /\ w.time = now /\ now \in Nat /\ now' = now /\ Allowed(w)
  /\ Live /\ status' = (IF w.op = "end" THEN "COMPLETED" ELSE "LIVE")
  /\ Settled = w.seen /\ Sane(w.seen) /\ Settled' = a
  /\ rows \in [Slots -> Rows] /\ rows' = NewRows(rows, w) /\ Distinct(rows) /\ Distinct(rows')
  /\ Halted' = Halted

LEMMA RunsFrom ==
  ASSUME NEW a, NEW at, NEW base \in Nat, now \in Nat, now' = now, Settled' = a,
         a = Running(at, now, base)
  PROVE  Settled'.at = at /\ Settled'.paused = FALSE /\ Elapsed(Settled, now)' = base
  <1>1. Elapsed(Settled, now)' = NonNeg(base + now - now)
    BY DEF Elapsed, Running, NonNeg
  <1> QED BY <1>1 DEF Running, NonNeg

LEMMA OrderAdvances ==
  ASSUME NEW w, NEW a, CommitShown(w, a), w.op = "advance", a = NewAnchor(w)
  PROVE  Order!Next
  <1>1. a = Running(w.seen.at + 1, now, 0)
    BY DEF CommitShown, NewAnchor
  <1>2. Settled'.at = w.seen.at + 1 /\ Settled'.paused = FALSE /\ Elapsed(Settled, now)' = 0
    BY <1>1, RunsFrom DEF CommitShown
  <1>3. Live' /\ Live /\ status = "LIVE" /\ status' = "LIVE" /\ w.seen.at < Last
    BY DEF CommitShown, Live, Allowed
  <1>4. rows' = [s \in Slots |->
                   IF rows[s].pos = w.seen.at + 1 THEN [rows[s] EXCEPT !.status = "IN_PROGRESS"]
                   ELSE Order!Set(w.seen.at, "COMPLETED", Elapsed(Settled, now))[s]]
    <2>1. rows' = Begun(Put(rows, w.seen.at, "COMPLETED", Elapsed(w.seen, now)), w.seen.at + 1)
      BY DEF CommitShown, NewRows, Closed
    <2>2. w.seen.at \in Nat /\ \A s \in Slots : rows[s] \in Rows
      BY SessionAssumption DEF CommitShown, Sane, Anchors, Slots
    <2> QED BY <2>1, <2>2 DEF CommitShown, Begun, Put, Rows, Order!Set
  <1> QED BY <1>2, <1>3, <1>4, LastSlotIsLast DEF CommitShown, Order!Next, Order!Advance

LEMMA OrderGoesBack ==
  ASSUME NEW w, NEW a, CommitShown(w, a), w.op = "rewind", a = NewAnchor(w)
  PROVE  Order!Next
  <1>1. a = Running(w.seen.at - 1, now, 0)
    BY DEF CommitShown, NewAnchor
  <1>2. Settled'.at = w.seen.at - 1 /\ Settled'.paused = FALSE /\ Elapsed(Settled, now)' = 0
    BY <1>1, RunsFrom DEF CommitShown
  <1>3. Live' /\ Live /\ status = "LIVE" /\ status' = "LIVE" /\ w.seen.at > 0
    BY DEF CommitShown, Live, Allowed
  <1>4. rows' = [s \in Slots |->
                   IF rows[s].pos = w.seen.at - 1
                   THEN Order!Set(w.seen.at - 1, "IN_PROGRESS", 0)[s]
                   ELSE Order!Set(w.seen.at, "PENDING", 0)[s]]
    <2>1. rows' = Put(Put(rows, w.seen.at, "PENDING", 0), w.seen.at - 1, "IN_PROGRESS", 0)
      BY DEF CommitShown, NewRows, Closed
    <2>2. w.seen.at \in Nat /\ \A s \in Slots : rows[s] \in Rows
      BY SessionAssumption DEF CommitShown, Sane, Anchors, Slots
    <2> QED BY <2>1, <2>2 DEF Put, Rows, Order!Set
  <1> QED BY <1>2, <1>3, <1>4 DEF CommitShown, Order!Next, Order!Back

LEMMA OrderPauses ==
  ASSUME NEW w, NEW a, CommitShown(w, a), w.op \in {"pause", "resume"}, a = NewAnchor(w)
  PROVE  Order!Next
  <1>1. /\ Live' /\ Live /\ status = "LIVE" /\ status' = "LIVE" /\ rows' = rows
        /\ now \in Nat /\ w.time = now /\ now' = now /\ Settled' = a /\ Settled = w.seen
        /\ Sane(w.seen)
    BY DEF CommitShown, Live, NewRows
  <1>2. /\ w.seen.base \in Nat /\ w.seen.started \in Nat /\ w.seen.pausedAt \in Nat
        /\ w.seen.paused \in BOOLEAN /\ w.seen.started <= now
    BY <1>1 DEF Sane, Anchors
  <1>3. Elapsed(w.seen, now) = w.seen.base +
          (IF w.seen.paused THEN w.seen.pausedAt ELSE now) - w.seen.started
    BY <1>1, ElapsedSane
  <1>4. CASE w.op = "pause"
    <2>1. ~w.seen.paused /\ a = Paused(w)
      BY <1>4 DEF CommitShown, Allowed, NewAnchor
    <2>2. a.at = w.seen.at /\ a.paused = TRUE /\ Elapsed(a, now) = Elapsed(w.seen, now)
      BY <1>1, <2>1 DEF Paused, Elapsed
    <2>3. Elapsed(Settled, now)' = Elapsed(Settled, now)
      BY <1>1, <2>2 DEF Elapsed
    <2> QED BY <1>1, <2>1, <2>2, <2>3 DEF CommitShown, Order!Next, Order!Pause
  <1>5. CASE w.op = "resume"
    <2> DEFINE base == w.seen.base + w.seen.pausedAt - w.seen.started
    <2>1. w.seen.paused /\ a = Running(w.seen.at, now, base)
      BY <1>1, <1>5 DEF CommitShown, Allowed, NewAnchor, Resumed
    <2>2. base \in Nat /\ base = Elapsed(w.seen, now)
      BY <1>1, <1>2, <1>3, <2>1 DEF Sane
    <2> HIDE DEF base
    <2>3. /\ Settled'.at = w.seen.at /\ Settled'.paused = FALSE
          /\ Elapsed(Settled, now)' = base
      BY <1>1, <2>1, <2>2, RunsFrom
    <2>4. Elapsed(Settled, now) = Elapsed(w.seen, now)
      BY <1>1
    <2> QED BY <1>1, <2>1, <2>2, <2>3, <2>4 DEF CommitShown, Order!Next, Order!Pause
  <1> QED BY <1>4, <1>5

LEMMA OrderAdjusts ==
  ASSUME NEW w, NEW a, CommitShown(w, a), w.op = "adjust", a = NewAnchor(w)
  PROVE  Order!Next
  <1>1. /\ Live' /\ Live /\ status = "LIVE" /\ status' = "LIVE" /\ rows' = rows
        /\ now \in Nat /\ w.time = now /\ now' = now /\ Settled' = a /\ Settled = w.seen
        /\ Sane(w.seen) /\ ~w.seen.paused /\ w.delta \in Deltas
    BY DEF CommitShown, Live, NewRows, Allowed
  <1> DEFINE e == Elapsed(w.seen, now)
             b == NonNeg(e - w.delta)
  <1>2. e \in Nat /\ w.delta \in Int
    BY <1>1, ElapsedSane, SessionAssumption
  <1>3. b \in Nat /\ b = IF w.delta > e THEN 0 ELSE e - w.delta
    BY <1>2 DEF NonNeg
  <1>4. a.at = w.seen.at /\ a.paused = FALSE /\ a.base = b /\ a.started = now
    <2>1. a = Adjusted(w)
      BY DEF NewAnchor
    <2> QED BY <1>1, <2>1 DEF Adjusted, Left, Sane, Anchors
  <1>5. Elapsed(Settled, now)' = b
    <2>1. Elapsed(Settled, now)' = NonNeg(b + now - now)
      BY <1>1, <1>4 DEF Elapsed, NonNeg
    <2> HIDE DEF b
    <2> QED BY <1>1, <1>3, <2>1 DEF NonNeg
  <1>6. Elapsed(Settled, now) = e
    BY <1>1
  <1> HIDE DEF b, e
  <1>7. Elapsed(Settled, now)' = IF w.delta > Elapsed(Settled, now) THEN 0
                                 ELSE Elapsed(Settled, now) - w.delta
    BY <1>3, <1>5, <1>6
  <1>8. Halted' = Halted /\ Settled'.at = Settled.at /\ Settled'.paused = FALSE
        /\ Settled.paused = FALSE
    BY <1>1, <1>4 DEF CommitShown, Sane, Anchors
  <1>9. Order!Adjust
    BY <1>1, <1>7, <1>8 DEF Order!Adjust
  <1> QED BY <1>9 DEF Order!Next

LEMMA OrderReorders ==
  ASSUME NEW w, NEW a, CommitShown(w, a), w.op = "reorder", a = w.seen
  PROVE  Order!Next
  <1>1. /\ Live' /\ Live /\ status = "LIVE" /\ status' = "LIVE" /\ now' = now
        /\ Settled' = Settled /\ Settled = w.seen /\ Sane(w.seen)
        /\ w \in Requests /\ rows \in [Slots -> Rows]
        /\ rows' = Reordered(rows, w) /\ Distinct(rows')
    BY DEF CommitShown, Live, NewRows
  <1>2. /\ w.listed = {s \in Slots : rows[s].pos > w.seen.at}
        /\ \A s \in w.listed :
             /\ w.saved[s].status = rows[s].status /\ w.saved[s].secs = rows[s].secs
             /\ w.saved[s].pos > w.seen.at
    BY DEF CommitShown, Allowed, Behind
  <1>3. /\ w.seen.at \in Nat /\ \A s \in Slots : rows[s].pos \in Nat
        /\ \A s \in Slots : rows[s] \in Rows /\ w.saved[s] \in Rows
        /\ \A s \in Slots : rows[s].pos \in 0 .. Last /\ w.saved[s].pos \in 0 .. Last
    <2>1. w.seen.at \in Slots /\ \A s \in Slots : rows[s] \in Rows /\ w.saved[s] \in Rows
      BY <1>1 DEF Sane, Anchors, Requests
    <2>2. \A s \in Slots : rows[s].pos \in Slots /\ w.saved[s].pos \in Slots
      BY <2>1 DEF Rows
    <2>3. Slots = 0 .. Last /\ Slots \subseteq Nat
      BY SlotsNat DEF Slots
    <2> QED BY <2>1, <2>2, <2>3
  <1>4. ASSUME NEW s \in Slots
        PROVE  /\ rows'[s] = [rows[s] EXCEPT !.pos = rows'[s].pos]
               /\ IF rows[s].pos <= w.seen.at THEN rows'[s] = rows[s]
                  ELSE rows'[s].pos \in w.seen.at + 1 .. Order!LastSlot
    <2>1. CASE s \in w.listed
      <3>1. rows'[s] = w.saved[s]
        BY <1>1, <2>1 DEF Reordered
      <3>2. w.saved[s] = [rows[s] EXCEPT !.pos = w.saved[s].pos]
        BY <1>2, <1>3, <2>1 DEF Rows
      <3>3. ~(rows[s].pos <= w.seen.at) /\ w.saved[s].pos \in w.seen.at + 1 .. Last
        BY <1>2, <1>3, <2>1, SessionAssumption
      <3> QED BY <3>1, <3>2, <3>3, LastSlotIsLast
    <2>2. CASE s \notin w.listed
      <3>1. rows'[s] = rows[s] /\ rows[s].pos <= w.seen.at
        BY <1>1, <1>2, <1>3, <2>2 DEF Reordered
      <3> QED BY <3>1, <1>3 DEF Rows
    <2> QED BY <2>1, <2>2
  <1>5. Elapsed(Settled, now)' = Elapsed(Settled, now)
    BY <1>1 DEF Elapsed
  <1>6. Order!Reorder
    BY <1>1, <1>4, <1>5 DEF CommitShown, Distinct, Order!Reorder
  <1> QED BY <1>6 DEF Order!Next

LEMMA OrderEnds ==
  ASSUME NEW w, NEW a, CommitShown(w, a), w.op = "end"
  PROVE  Order!Next
  <1>1. /\ ~Live' /\ Live /\ status = "LIVE" /\ status' = "COMPLETED"
    BY DEF CommitShown, Live
  <1>2. rows' = [s \in Slots |->
                   IF rows[s].pos # w.seen.at /\ rows[s].status = "PENDING"
                   THEN [rows[s] EXCEPT !.status = "SKIPPED"]
                   ELSE Order!Set(w.seen.at, "COMPLETED", Elapsed(Settled, now))[s]]
    <2>1. rows' = Skipped(Put(rows, w.seen.at, "COMPLETED", Elapsed(w.seen, now)))
      BY DEF CommitShown, NewRows, Closed
    <2>2. w.seen.at \in Nat /\ \A s \in Slots : rows[s] \in Rows
      BY SessionAssumption DEF CommitShown, Sane, Anchors, Slots
    <2> QED BY <2>1, <2>2 DEF CommitShown, Skipped, Put, Rows, Order!Set
  <1> QED BY <1>1, <1>2 DEF CommitShown, Order!Next, Order!Finish

LEMMA OrderCommits ==
  ASSUME Inv, Tidy, NEW h \in Handlers, Commit(h)
  PROVE  Tidy' /\ Order!Next
  <1> DEFINE w == work[h]
             a == IF w.op = "reorder" THEN w.seen ELSE NewAnchor(w)
  <1>1. CommitShown(w, a)
    BY CommitFacts, CommitHalted, CommitDistinct
    DEF CommitShown, Live, Tidy, Inv, TypeOK
  <1>2. w.op \in Ops
    BY <1>1 DEF CommitShown, Requests
  <1>3. Order!Next
    <2> HIDE DEF w
    <2> QED BY <1>1, <1>2, OrderAdvances, OrderGoesBack, OrderPauses, OrderAdjusts,
               OrderReorders, OrderEnds DEF Ops
  <1>4. Log(pauses, Live /\ Settled.paused)'
    <2>0. /\ Settled' = a /\ Live' = (w.op # "end") /\ Settled = w.seen /\ Allowed(w)
          /\ now' = now /\ Log(pauses, w.seen.paused) /\ w.seen.paused \in BOOLEAN
      BY <1>1 DEF CommitShown, Live, Tidy, Log, Sane, Anchors
    <2>1. IF w.op = "pause" THEN Log(pauses', TRUE)
          ELSE IF ClosesPauses(w) THEN Log(pauses', FALSE) ELSE pauses' = pauses
      BY CommitHalted
    <2>2. CASE w.op = "pause"
      <3>1. Live' /\ Settled'.paused = TRUE /\ Log(pauses', TRUE)
        BY <2>0, <2>1, <2>2 DEF NewAnchor, Paused
      <3> QED BY <2>0, <3>1 DEF Log
    <2>3. CASE w.op # "pause" /\ ClosesPauses(w)
      <3>1. ~(Live' /\ Settled'.paused)
        BY <2>0, <2>3 DEF ClosesPauses, NewAnchor, Running, Resumed
      <3>2. Log(pauses', FALSE)
        BY <2>1, <2>3
      <3> QED BY <2>0, <3>1, <3>2 DEF Log
    <2>4. CASE w.op # "pause" /\ ~ClosesPauses(w)
      <3>1. (Live' /\ Settled'.paused) <=> w.seen.paused
        BY <1>2, <2>0, <2>4 DEF ClosesPauses, NewAnchor, Running, Adjusted, Allowed, Ops
      <3>2. pauses' = pauses
        BY <2>1, <2>4
      <3> QED BY <2>0, <3>1, <3>2 DEF Log
    <2> QED BY <2>2, <2>3, <2>4
  <1> QED BY <1>3, <1>4, CommitFacts, CommitDistinct DEF Tidy

\* One step of a service whose operators take turns.
LEMMA OrderStep ==
  ASSUME PausedOps = {}, Inv, orderly => Tidy, [Next]_vars, orderly'
  PROVE  Tidy' /\ [Order!Next]_(Order!vars)
  <1>1. orderly
    BY DEF Next, vars, Start, Second, Read, ReadAdjust, ReadReorder, Takes, SetAnchor,
           Commit, Rollback, HangUp
  <1>2. CASE UNCHANGED vars
    <2>1. Settled' = Settled
      BY <1>2 DEF vars, Settled
    <2>2. /\ UNCHANGED Order!vars
          /\ Log(pauses, Live /\ Settled.paused) => Log(pauses, Live /\ Settled.paused)'
          /\ Distinct(rows) => Distinct(rows)'
      BY <1>2, <2>1, OrderStays DEF vars
    <2>3. Stage'
      BY <1>1, <1>2 DEF vars, Tidy, Stage, Alone
    <2>4. ASSUME NEW h \in Handlers PROVE Turn(h)'
      <3>1. work' = work /\ Turn(h)
        BY <1>1, <1>2 DEF vars, Tidy
      <3>2. NewAnchor(work[h])' = NewAnchor(work[h])
        BY <3>1 DEF NewAnchor, Running, Resumed, Paused, Adjusted, Left, Completed, Elapsed,
                    NonNeg
      <3>3. Allowed(work[h])' <=> Allowed(work[h])
        BY <1>2 DEF vars, Allowed, Behind
      <3> QED BY <1>2, <3>1, <3>2, <3>3 DEF vars, Turn
    <2> QED BY <1>1, <2>2, <2>3, <2>4 DEF Tidy
  <1>3. CASE Start
    BY <1>1, <1>3, OrderStarts
  <1>4. CASE Second
    BY <1>1, <1>4, OrderTicks DEF Second
  <1>5. CASE \E h \in Handlers :
               \/ \E op \in Ops : Read(h, op)
               \/ \E delta \in Deltas : ReadAdjust(h, delta)
               \/ \E order \in [Slots -> Slots] : ReadReorder(h, order)
    <2>1. Alone
      BY <1>5 DEF Read, ReadAdjust, ReadReorder, Takes
    <2> QED BY <1>1, <1>5, <2>1, OrderReads
  <1>6. ASSUME NEW h \in Handlers, SetAnchor(h) PROVE Tidy' /\ UNCHANGED Order!vars
    BY <1>1, <1>6, OrderSets
  <1>7. ASSUME NEW h \in Handlers, Commit(h) PROVE Tidy' /\ Order!Next
    BY <1>1, <1>7, OrderCommits
  <1>8. ASSUME NEW h \in Handlers, Rollback(h) \/ HangUp(h) PROVE FALSE
    BY <1>8 DEF Rollback, HangUp
  <1> QED BY <1>2, <1>3, <1>4, <1>5, <1>6, <1>7, <1>8 DEF Next

\* As long as operators take turns and nothing fails, a service does only what
\* the running order does: every start, second, advance, step back, pause,
\* adjustment, reordering and end of it, and in between the page shows no change.
THEOREM OrderFollowed == PausedOps = {} => (Spec => FollowsRunningOrder)
  <1> SUFFICES ASSUME PausedOps = {} PROVE Spec => FollowsRunningOrder
    OBVIOUS
  <1>1. Init => Inv /\ (orderly => Tidy) /\ Order!Init
    BY InitInv, OrderInit
  <1>2. Inv /\ (orderly => Tidy) /\ [Next]_vars => Inv' /\ (orderly => Tidy)'
    BY NextInv, OrderStep
  <1>3. Inv /\ (orderly => Tidy) /\ [Next]_vars =>
          [orderly' => [Order!Next]_(Order!vars)]_vars
    BY OrderStep
  <1> QED BY <1>1, <1>2, <1>3, PTL DEF Spec, FollowsRunningOrder
=============================================================================
