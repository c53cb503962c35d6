--------------------------- MODULE ServiceSession ---------------------------
(***************************************************************************)
(* One live service: its slots, its pauses and its clock.                  *)
(*                                                                         *)
(* The clock is an anchor in Redis (the slot that runs, since when, the    *)
(* seconds it had by then, whether it is paused); slots and pauses are     *)
(* rows of the church's schema.  Operators on several devices send         *)
(* requests.  A request reads the anchor and the time, writes its rows     *)
(* inside a transaction, sets the anchor, and is committed after that: the *)
(* anchor is seen by others before the rows are, and nothing compares it   *)
(* with what the request read.                                             *)
(***************************************************************************)
EXTENDS Integers, Sequences, FiniteSets

CONSTANTS
  Last,       \* the last position: Last + 1 slots
  Handlers,   \* requests being handled at once
  PausedOps,  \* what operators do during a pause, beside resuming and going on
  Deltas,     \* seconds an operator takes off the clock; negative: adds
  MaxNow,     \* bound: seconds
  MaxPauses,  \* bound
  MaxTaken,   \* bound: seconds added to clocks
  MaxAsked    \* bound: requests

ASSUME SessionAssumption ==
  /\ Last \in Nat /\ MaxNow \in Nat /\ MaxPauses \in Nat /\ MaxTaken \in Nat /\ MaxAsked \in Nat
  /\ PausedOps \subseteq {"rewind", "adjust"} /\ Deltas \subseteq Int

VARIABLES
  status,   \* of the session's row and its programme's, DRAFT before there is one
  rows,     \* service_session_slots: position, status, actual_seconds
  anchor,   \* SessionAnchor in Redis
  pauses,   \* service_pause_entries: paused_at, resumed_at
  now,      \* seconds since session.started_at
  work,     \* the request in progress on each handler
  taken,    \* history: seconds operators added to clocks
  asked,    \* bound: requests so far
  orderly   \* history: requests came one after another, within their second

vars == <<status, rows, anchor, pauses, now, work, taken, asked, orderly>>

Slots == 0 .. Last
Open == -1
SlotStatus == {"PENDING", "IN_PROGRESS", "COMPLETED", "SKIPPED"}
Ops == {"advance", "rewind", "pause", "resume", "adjust", "reorder", "end"}

Anchors ==
  [status : {"NONE", "LIVE", "COMPLETED"}, at : Slots, started : Nat, base : Nat,
   paused : BOOLEAN, pausedAt : Nat]

NoAnchor == [status |-> "NONE", at |-> 0, started |-> 0, base |-> 0,
             paused |-> FALSE, pausedAt |-> 0]

Rows == [pos : Slots, status : SlotStatus, secs : Nat]

Unstarted == [s \in Slots |-> [pos |-> s, status |-> "PENDING", secs |-> 0]]

\* phase: the anchor is read, or set as well.
Requests ==
  [phase : {"idle", "read", "set"}, op : Ops, seen : Anchors, time : Nat,
   delta : Int, listed : SUBSET Slots, saved : [Slots -> Rows]]

Idle == [phase |-> "idle", op |-> "end", seen |-> NoAnchor, time |-> 0,
         delta |-> 0, listed |-> {}, saved |-> Unstarted]

Init ==
  /\ status = "DRAFT"
  /\ rows = Unstarted
  /\ anchor = NoAnchor
  /\ pauses = <<>>
  /\ now = 0
  /\ work = [h \in Handlers |-> Idle]
  /\ taken = 0 /\ asked = 0 /\ orderly = TRUE

Alone == \A h \in Handlers : work[h].phase = "idle"
Ends(h) == work' = [work EXCEPT ![h] = Idle]

-----------------------------------------------------------------------------
(* The clock.                                                              *)

\* Seeded bug: the clock may run below zero.
Unbounded(n) == n

NonNeg(n) == IF n < 0 THEN 0 ELSE n

Elapsed(a, t) ==
  NonNeg(a.base + (IF a.paused THEN a.pausedAt ELSE t) - a.started)

Running(at, started, base) ==
  [status |-> "LIVE", at |-> at, started |-> started, base |-> base,
   paused |-> FALSE, pausedAt |-> 0]

\* Seeded bug: the slot's start is kept.
ResumedFromStart(w) ==
  Running(w.seen.at, w.seen.started, w.seen.base + w.seen.pausedAt - w.seen.started)

Resumed(w) == Running(w.seen.at, w.time, w.seen.base + w.seen.pausedAt - w.seen.started)

Paused(w) ==
  [status |-> "LIVE", at |-> w.seen.at, started |-> w.seen.started, base |-> w.seen.base,
   paused |-> TRUE, pausedAt |-> w.time]

Left(w) == NonNeg(Elapsed(w.seen, w.time) - w.delta)

\* During a pause neither the start nor the pause is moved.
Adjusted(w) ==
  [status |-> "LIVE", at |-> w.seen.at,
   started |-> IF w.seen.paused THEN w.seen.started ELSE w.time,
   base |-> Left(w), paused |-> w.seen.paused, pausedAt |-> w.seen.pausedAt]

Completed(w) ==
  [status |-> "COMPLETED", at |-> w.seen.at, started |-> w.seen.started,
   base |-> w.seen.base, paused |-> w.seen.paused, pausedAt |-> w.seen.pausedAt]

NewAnchor(w) ==
  CASE w.op = "advance" -> Running(w.seen.at + 1, w.time, 0)
    [] w.op = "rewind" -> Running(w.seen.at - 1, w.time, 0)
    [] w.op = "pause" -> Paused(w)
    [] w.op = "resume" -> Resumed(w)
    [] w.op = "adjust" -> Adjusted(w)
    [] w.op = "end" -> Completed(w)

-----------------------------------------------------------------------------
(* The rows.                                                               *)

\* UPDATE ... WHERE position = p, whichever slots stand there by then.
Put(r, p, st, secs) ==
  [s \in Slots |-> IF r[s].pos = p THEN [pos |-> p, status |-> st, secs |-> secs] ELSE r[s]]

Begun(r, p) ==
  [s \in Slots |-> IF r[s].pos = p THEN [pos |-> p, status |-> "IN_PROGRESS", secs |-> r[s].secs]
                   ELSE r[s]]

Skipped(r) ==
  [s \in Slots |-> IF r[s].status = "PENDING"
                   THEN [pos |-> r[s].pos, status |-> "SKIPPED", secs |-> r[s].secs] ELSE r[s]]

\* The first UPDATE of the request.
Closed(r, w) ==
  IF w.op = "rewind" THEN Put(r, w.seen.at, "PENDING", 0)
  ELSE Put(r, w.seen.at, "COMPLETED", Elapsed(w.seen, w.time))

\* The slots behind the one that ran are saved whole, as they were read.
Reordered(r, w) == [s \in Slots |-> IF s \in w.listed THEN w.saved[s] ELSE r[s]]

NewRows(r, w) ==
  CASE w.op = "advance" -> Begun(Closed(r, w), w.seen.at + 1)
    [] w.op = "rewind" -> Put(Closed(r, w), w.seen.at - 1, "IN_PROGRESS", 0)
    [] w.op = "reorder" -> Reordered(r, w)
    [] w.op = "end" -> Skipped(Closed(r, w))
    [] OTHER -> r

\* Seeded bug: a service that ends during a pause leaves its entry open.
ClosesBeforeEnd(w) ==
  w.op = "resume" \/ (w.op = "advance" /\ w.seen.paused)

ClosesPauses(w) ==
  w.op \in {"resume", "end"} \/ (w.op = "advance" /\ w.seen.paused)

NewPauses(w) ==
  IF w.op = "pause" THEN Append(pauses, [from |-> w.time, until |-> Open])
  ELSE IF ClosesPauses(w)
  THEN [i \in DOMAIN pauses |->
          [from |-> pauses[i].from,
           until |-> IF pauses[i].until = Open THEN w.time ELSE pauses[i].until]]
  ELSE pauses

-----------------------------------------------------------------------------
(* A request: it reads, sets the anchor, and is committed.                 *)

\* The unique key of the programme lets one of two starts through; nobody
\* knows the session's code before its answer.
Start ==
  /\ status = "DRAFT"
  /\ status' = "LIVE"
  /\ rows' = Begun(rows, 0)
  /\ anchor' = Running(0, 0, 0)
  /\ UNCHANGED <<pauses, now, work, taken, orderly, asked>>

May(op) ==
  CASE op = "advance" -> anchor.at < Last
    [] op = "rewind" -> anchor.at > 0 /\ (anchor.paused => op \in PausedOps)
    [] op = "pause" -> ~anchor.paused /\ Len(pauses) < MaxPauses
    [] op = "resume" -> anchor.paused
    [] op = "adjust" -> anchor.paused => op \in PausedOps
    [] OTHER -> TRUE

Takes(h, op, delta, listed, saved) ==
  /\ work[h].phase = "idle"
  /\ anchor.status = "LIVE" /\ May(op)
  /\ asked < MaxAsked /\ asked' = asked + 1
  /\ work' = [work EXCEPT ![h] = [phase |-> "read", op |-> op, seen |-> anchor, time |-> now,
                                  delta |-> delta, listed |-> listed, saved |-> saved]]
  /\ orderly' = (orderly /\ Alone)
  /\ UNCHANGED <<status, rows, anchor, pauses, now, taken>>

Read(h, op) ==
  /\ op \notin {"adjust", "reorder"}
  /\ Takes(h, op, 0, {}, Unstarted)

ReadAdjust(h, delta) ==
  /\ delta < 0 => taken - delta <= MaxTaken
  /\ Takes(h, "adjust", delta, {}, Unstarted)

Behind(a) == {s \in Slots : rows[s].pos > a.at}

ReadReorder(h, order) ==
  /\ \A s \in Behind(anchor) : order[s] > anchor.at
  /\ \A s \in Slots \ Behind(anchor) : order[s] = s
  /\ \A s, t \in Behind(anchor) : order[s] = order[t] => s = t
  /\ Takes(h, "reorder", 0, Behind(anchor),
           [s \in Slots |-> [pos |-> order[s], status |-> rows[s].status,
                             secs |-> rows[s].secs]])

\* The rows a request has updated stay locked until it is committed.
Updates(w) ==
  CASE w.op \in {"advance", "rewind", "end"} ->
         {s \in Slots : \/ rows[s].pos = w.seen.at \/ w.op = "end"
                        \/ rows[s].pos = w.seen.at + (IF w.op = "advance" THEN 1 ELSE -1)}
    [] w.op = "reorder" -> w.listed
    [] OTHER -> {}

Waits(h) ==
  \E g \in Handlers \ {h} :
    work[g].phase = "set" /\ Updates(work[g]) \cap Updates(work[h]) # {}

SetAnchor(h) ==
  LET w == work[h] IN
  /\ w.phase = "read" /\ ~Waits(h)
  /\ anchor' = IF w.op = "reorder" THEN anchor ELSE NewAnchor(w)
  /\ taken' = IF w.op = "adjust" /\ w.delta < 0 THEN taken - w.delta ELSE taken
  /\ work' = [work EXCEPT ![h] = [@ EXCEPT !.phase = "set"]]
  /\ UNCHANGED <<status, rows, pauses, now, orderly, asked>>

Commit(h) ==
  LET w == work[h] IN
  /\ w.phase = "set"
  /\ rows' = NewRows(rows, w)
  /\ pauses' = NewPauses(w)
  /\ status' = IF w.op = "end" THEN "COMPLETED" ELSE status
  /\ Ends(h)
  /\ UNCHANGED <<anchor, now, taken, orderly, asked>>

\* The write of the action log fails: the rows are rolled back.
Rollback(h) ==
  /\ work[h].phase # "idle"
  /\ Ends(h)
  /\ orderly' = FALSE
  /\ UNCHANGED <<status, rows, anchor, pauses, now, taken, asked>>

\* The client goes in the middle: the first write is committed, no other.
HangUp(h) ==
  LET w == work[h] IN
  /\ w.phase = "read" /\ ~Waits(h)
  /\ rows' = IF w.op \in {"advance", "rewind", "end"} THEN Closed(rows, w) ELSE rows
  /\ pauses' = IF w.op \in {"pause", "resume"} THEN NewPauses(w) ELSE pauses
  /\ Ends(h)
  /\ orderly' = FALSE
  /\ UNCHANGED <<status, anchor, now, taken, asked>>

Second ==
  /\ status # "DRAFT" /\ now < MaxNow
  /\ now' = now + 1
  /\ orderly' = (orderly /\ Alone)
  /\ UNCHANGED <<status, rows, anchor, pauses, work, taken, asked>>

Next ==
  \/ Start
  \/ Second
  \/ \E h \in Handlers :
       \/ \E op \in Ops : Read(h, op)
       \/ \E delta \in Deltas : ReadAdjust(h, delta)
       \/ \E order \in [Slots -> Slots] : ReadReorder(h, order)
       \/ SetAnchor(h) \/ Commit(h) \/ Rollback(h) \/ HangUp(h)

Spec == Init /\ [][Next]_vars

-----------------------------------------------------------------------------
\* Every variable has its type; seconds are never negative.
TypeOK ==
  /\ status \in {"DRAFT", "LIVE", "COMPLETED"}
  /\ rows \in [Slots -> Rows]
  /\ anchor \in Anchors
  /\ pauses \in Seq([from : Nat, until : Nat \cup {Open}])
  /\ now \in Nat /\ taken \in Nat /\ asked \in Nat
  /\ work \in [Handlers -> Requests]
  /\ orderly \in BOOLEAN

\* No slot is reported longer than the service has lasted and the seconds
\* operators have added, however requests overtake one another, fail, or set
\* the clock from an anchor that is no longer there.
NeverLongerThanService ==
  \A s \in Slots : rows[s].secs <= now + taken

\* What buildSessionReport adds up of the pause log: the seconds up to now that
\* lie in an entry, those of two entries counted twice.
Halted ==
  Cardinality({m \in (DOMAIN pauses) \X (0 .. now - 1) :
                 /\ pauses[m[1]].from <= m[2]
                 /\ pauses[m[1]].until = Open \/ m[2] < pauses[m[1]].until})

\* What others see of the clock once the requests under way are committed.
Settled ==
  IF \E h \in Handlers : work[h].phase = "set" /\ work[h].op # "reorder"
  THEN LET h == CHOOSE h \in Handlers : work[h].phase = "set" /\ work[h].op # "reorder"
       IN work[h].seen
  ELSE anchor

Live == status = "LIVE"

Order == INSTANCE RunningOrder
  WITH stage <- status,
       at <- IF Live THEN Settled.at ELSE 0,
       ran <- IF Live THEN Elapsed(Settled, now) ELSE 0,
       paused <- IF Live THEN Settled.paused ELSE FALSE,
       halted <- Halted

\* As long as operators take turns and nothing fails, a service is the running
\* order the live page shows: one slot at a time, its clock counting every
\* second that is not a pause, the log of pauses every other.
FollowsRunningOrder ==
  Order!Init /\ [][orderly' => [Order!Next]_(Order!vars)]_vars
=============================================================================
