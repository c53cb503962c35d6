---------------------------- MODULE LedgerDocuments ----------------------------
(***************************************************************************)
(* The documents that write a journal entry by themselves: petty-cash      *)
(* replenishments, finance requests of a department, offerings, rows of a  *)
(* bank statement and recurring entries.  petty-cash.service.ts,           *)
(* finance-request.service.ts, offering.service.ts,                        *)
(* reconciliation.service.ts and recurring-entry.scheduler.ts.             *)
(*                                                                         *)
(* Every request is one transaction.  It reads its documents, saves them   *)
(* whole, and writes an entry and then its lines under an idempotency key  *)
(* that is unique in the database.  What the operations of the five kinds  *)
(* have in common is the order of those stages, which is all they differ   *)
(* in beside their guards: Stages.                                         *)
(*                                                                         *)
(* Documents of different kinds have different keys and share nothing, so  *)
(* a behaviour is about documents of one kind.                             *)
(***************************************************************************)
EXTENDS Integers, FiniteSets, Sequences, SequencesExt

CONSTANTS Docs,      \* documents
          Handlers,  \* requests and scheduler runs that may be open at once
          Interval,  \* days between two entries of a recurring entry
          LastDay,   \* bound on the days of a behaviour
          Dates,     \* due dates an admin may type
          None

ASSUME DaysAssumption == Interval \in Nat \ {0} /\ LastDay \in Nat /\ Dates \subseteq Int
ASSUME DocsAssumption == IsFiniteSet(Docs)

VARIABLES kind,     \* the kind of the documents
          rows,     \* the committed documents
          entries,  \* the committed journal entries of the documents
          work,     \* the open requests
          open,     \* whether the month's accounting period is open
          day,      \* today
          clashed,  \* documents saved as they were read before another commit,
                    \* and recurring entries an admin gave another due date
          torn,     \* documents a client hung up on half-way
          deleted   \* documents whose only entry was declined and deleted

vars == <<kind, rows, entries, work, open, day, clashed, torn, deleted>>

Kinds == {"petty_cash", "request", "offering", "bank_row", "recurring"}

Statuses == {"PENDING", "APPROVED", "REJECTED", "RECONCILED", "CONFIRMED", "SKIPPED", "POSTED"}

\* wanted: an offering is reconciled with an entry.  due and active are a
\* recurring entry's.
Rows == [status : Statuses, wanted : BOOLEAN, due : Int, active : BOOLEAN]

Fresh == [status |-> "PENDING", wanted |-> FALSE, due |-> 0, active |-> TRUE]

Entry == [doc : Docs, day : 0 .. LastDay, key : Seq(Docs \cup Nat \cup Handlers), lines : BOOLEAN]

-----------------------------------------------------------------------------
(* The operations.                                                         *)

OpsOf(k) ==
    CASE k = "petty_cash" -> {"reject", "approve_and_enter"}
      [] k = "request"    -> {"reject", "approve", "attach_proof", "attach_and_enter"}
      [] k = "offering"   -> {"reconcile", "reconcile_and_enter"}
      [] k = "bank_row"   -> {"confirm", "skip", "post"}
      [] k = "recurring"  -> {"reschedule", "stop", "generate"}

Ops == UNION {OpsOf(k) : k \in Kinds}

ASSUME NoneAssumption == None \notin Ops \cup Rows \cup Dates

\* What an operation does after it has read its documents, in order.  Nothing
\* cuts the scheduler off between an entry and its lines, so it enters both.
Stages(op) ==
    CASE op = "approve_and_enter"            -> <<"check", "save", "enter", "lines">>
      [] op = "attach_and_enter"             -> <<"check", "enter", "lines", "save">>
      [] op = "reconcile_and_enter"          -> <<"save", "check", "enter", "lines">>
      [] op = "post"                         -> <<"check", "enter", "lines", "save">>
      [] op = "generate"                     -> <<"check", "enter", "save">>
      [] OTHER                               -> <<"save">>

\* Operations that go on with the next document inside a savepoint each.
Batched == {"post", "generate"}

\* The check of a post is made once, for all its rows.
LoopsTo(op) == IF op = "post" THEN 2 ELSE 1

\* The statuses an operation starts from.
StartsFrom(op) ==
    CASE op \in {"attach_proof", "attach_and_enter"} -> {"APPROVED"}
      [] op = "post"                                 -> {"CONFIRMED"}
      [] OTHER                                       -> {"PENDING"}

\* Seeded bug: a decided document can be decided again.
MayAgain(op, r) == op = "generate" => r.active /\ r.due <= day

\* The guards on the document that was read.
May(op, r) ==
    /\ r.status \in StartsFrom(op)
    /\ op = "generate" => r.active /\ r.due <= day

\* Seeded bug: the next due date is counted from the last one.
NextDueFromDue(r) == r.due + Interval

NextDue(r) == day + Interval

\* The document an operation saves, from the one it read.
Saved(op, r, date) ==
    CASE op \in {"approve", "approve_and_enter"} -> [r EXCEPT !.status = "APPROVED"]
      [] op = "reject"                           -> [r EXCEPT !.status = "REJECTED"]
      [] op = "reconcile"                        -> [r EXCEPT !.status = "RECONCILED"]
      [] op = "reconcile_and_enter"              -> [r EXCEPT !.status = "RECONCILED",
                                                              !.wanted = TRUE]
      [] op = "confirm"                          -> [r EXCEPT !.status = "CONFIRMED"]
      [] op = "skip"                             -> [r EXCEPT !.status = "SKIPPED"]
      [] op = "post"                             -> [r EXCEPT !.status = "POSTED"]
      [] op = "reschedule"                       -> [r EXCEPT !.due = date]
      [] op = "stop"                             -> [r EXCEPT !.active = FALSE]
      [] op = "generate"                         -> [r EXCEPT !.due = NextDue(r)]
      [] OTHER                                   -> r

\* Seeded bug: the key is made anew by every request.
FreshKey(h, d) == <<d, h>>

\* The idempotency key: one per document, for a recurring entry one per day.
Key(h, d) == IF kind = "recurring" THEN <<d, day>> ELSE <<d>>

-----------------------------------------------------------------------------
(* Requests.                                                               *)

\* todo: documents left, the first in hand; seen: what was read; found: those
\* with an entry at the check; saved and new: uncommitted writes; date: the due
\* date an admin typed.
Requests == [op : Ops \cup {None}, todo : Seq(Docs), pc : 1 .. 4, seen : [Docs -> Rows],
             found : SUBSET Docs, allowed : BOOLEAN, saved : [Docs -> Rows \cup {None}],
             new : SUBSET Entry, date : Dates \cup {None}]

Nothing == [d \in Docs |-> None]

Idle == [op |-> None, todo |-> <<>>, pc |-> 1, seen |-> [d \in Docs |-> Fresh], found |-> {},
         allowed |-> FALSE, saved |-> Nothing, new |-> {}, date |-> None]

At(w) == Head(w.todo)

TypeOK ==
    /\ kind \in Kinds
    /\ rows \in [Docs -> Rows]
    /\ entries \subseteq Entry
    /\ work \in [Handlers -> Requests]
    /\ open \in BOOLEAN
    /\ day \in 0 .. LastDay
    /\ clashed \subseteq Docs /\ torn \subseteq Docs /\ deleted \subseteq Docs

Init ==
    /\ kind \in Kinds
    /\ rows = [d \in Docs |-> Fresh]
    /\ entries = {}
    /\ work = [h \in Handlers |-> Idle]
    /\ open = TRUE
    /\ day = 0
    /\ clashed = {} /\ torn = {} /\ deleted = {}

Stage(h) == Stages(work[h].op)[work[h].pc]

Busy(h) == work[h].op # None

AtStage(h, s) == Busy(h) /\ work[h].todo # <<>> /\ Stage(h) = s

\* The document in hand is finished.
NextDoc(w) == [w EXCEPT !.todo = Tail(@), !.pc = LoopsTo(w.op), !.found = @ \ {At(w)}]

After(w) == IF w.pc = Len(Stages(w.op)) THEN NextDoc(w) ELSE [w EXCEPT !.pc = @ + 1]

Reset(h) == work' = [work EXCEPT ![h] = Idle]

Read(ds) == [d \in Docs |-> IF d \in ds THEN rows[d] ELSE Fresh]

\* An operation on one document reads it.
Begin(h, op, d, date) ==
    /\ ~Busy(h) /\ op \in OpsOf(kind) \ Batched
    /\ IF op = "reschedule" THEN date \in Dates ELSE date = None
    /\ May(op, rows[d])
    /\ work' = [work EXCEPT ![h] = [Idle EXCEPT !.op = op, !.todo = <<d>>,
                                                !.seen = Read({d}), !.date = date]]
    /\ UNCHANGED <<kind, rows, entries, open, day, clashed, torn, deleted>>

\* postConfirmedRows reads the confirmed rows and the scheduler what is due, in
\* any order; the scheduler leaves it at that when no period is open.  Every
\* instance of the application runs it, one at a time: the lock outlives a run.
BeginBatch(h, op) ==
    /\ ~Busy(h) /\ op \in OpsOf(kind) \cap Batched
    /\ op = "generate" => open /\ \A g \in Handlers : work[g].op # "generate"
    /\ \E todo \in SetToSeqs({d \in Docs : May(op, rows[d])}) :
          /\ todo # <<>>
          /\ work' = [work EXCEPT ![h] = [Idle EXCEPT !.op = op, !.todo = todo,
                                                            !.seen = Read(ToSet(todo))]]
    /\ UNCHANGED <<kind, rows, entries, open, day, clashed, torn, deleted>>

\* Seeded bug: approving goes on when there is neither entry nor period.
PeriodIgnored(op, found) == TRUE

\* The period must be open for an entry that is to be made now; the offering's
\* is checked before its entry is looked for; posting bank rows checks nothing.
PeriodAllows(op, found) ==
    CASE op \in {"approve_and_enter", "attach_and_enter"} -> open \/ found
      [] op = "reconcile_and_enter"                       -> open
      [] OTHER                                            -> TRUE

HasEntry(h, d) == \E e \in entries : e.key = Key(h, d)

Check(h) ==
    LET w == work[h]
        found == {d \in ToSet(w.todo) : HasEntry(h, d)}
    IN  /\ AtStage(h, "check")
        /\ PeriodAllows(w.op, At(w) \in found)
        /\ work' = [work EXCEPT ![h] =
                      After([w EXCEPT !.found = found,
                                      !.allowed = open \/ w.op \in Batched])]
        /\ UNCHANGED <<kind, rows, entries, open, day, clashed, torn, deleted>>

\* Saving a document waits for whoever has saved it and not committed.
SaveDoc(h) ==
    LET w == work[h]
        d == At(w)
    IN  /\ AtStage(h, "save")
        /\ \A g \in Handlers \ {h} : work[g].saved[d] = None
        /\ work' = [work EXCEPT ![h] =
                      After([w EXCEPT !.saved[d] = Saved(w.op, w.seen[d], w.date)])]
        /\ clashed' = IF rows[d] # w.seen[d] \/ w.op = "reschedule"
                         THEN clashed \cup {d} ELSE clashed
        /\ UNCHANGED <<kind, rows, entries, open, day, torn, deleted>>

\* An entry was there at the check: nothing is entered for this document.
SkipEntry(h) ==
    LET w == work[h]
    IN  /\ AtStage(h, "enter") /\ (At(w) \in w.found \/ ~w.allowed)
        /\ work' = [work EXCEPT ![h] =
                      IF w.op = "attach_and_enter" THEN [w EXCEPT !.pc = @ + 2] ELSE NextDoc(w)]
        /\ UNCHANGED <<kind, rows, entries, open, day, clashed, torn, deleted>>

\* Inserting a key waits for whoever has inserted it and not committed.
KeyHeld(h, d) ==
    \E g \in Handlers \ {h} : \E e \in work[g].new : e.key = Key(h, d)

Enter(h) ==
    LET w == work[h]
        e == [doc |-> At(w), day |-> day, key |-> Key(h, At(w)), lines |-> w.op = "generate"]
    IN  /\ AtStage(h, "enter") /\ At(w) \notin w.found /\ w.allowed
        /\ ~KeyHeld(h, At(w)) /\ ~HasEntry(h, At(w))
        /\ work' = [work EXCEPT ![h] = After([w EXCEPT !.new = @ \cup {e}])]
        /\ UNCHANGED <<kind, rows, entries, open, day, clashed, torn, deleted>>

\* The key is taken: the unique index refuses it, which ends the request; a
\* batch goes back to its savepoint and on to the next document.
Duplicate(h) ==
    LET w == work[h]
    IN  /\ AtStage(h, "enter") /\ At(w) \notin w.found /\ w.allowed
        /\ ~KeyHeld(h, At(w)) /\ HasEntry(h, At(w))
        /\ work' = [work EXCEPT ![h] = IF w.op \in Batched THEN NextDoc(w) ELSE Idle]
        /\ UNCHANGED <<kind, rows, entries, open, day, clashed, torn, deleted>>

\* One recurring entry fails, say because an account of it is gone: the
\* scheduler goes back to its savepoint and on to the next.
FailOne(h) ==
    LET w == work[h]
    IN  /\ AtStage(h, "enter") \/ AtStage(h, "save")
        /\ w.op = "generate"
        /\ work' = [work EXCEPT ![h] = NextDoc([w EXCEPT !.new = {e \in @ : e.doc # At(w)}])]
        /\ UNCHANGED <<kind, rows, entries, open, day, clashed, torn, deleted>>

WriteLines(h) ==
    LET w == work[h]
    IN  /\ AtStage(h, "lines")
        /\ work' = [work EXCEPT ![h] =
                      After([w EXCEPT !.new =
                               {IF e.doc = At(w) THEN [e EXCEPT !.lines = TRUE] ELSE e : e \in @}])]
        /\ UNCHANGED <<kind, rows, entries, open, day, clashed, torn, deleted>>

\* Seeded bug: the documents that were not saved are written as nothing.
WrittenUnsaved(h) ==
    /\ rows' = work[h].saved
    /\ entries' = entries \cup work[h].new

\* What a commit writes.
Written(h) ==
    /\ rows' = [d \in Docs |-> IF work[h].saved[d] = None THEN rows[d] ELSE work[h].saved[d]]
    /\ entries' = entries \cup work[h].new

Commit(h) ==
    /\ Busy(h) /\ work[h].todo = <<>>
    /\ Written(h) /\ Reset(h)
    /\ UNCHANGED <<kind, open, day, clashed, torn, deleted>>

\* An error, a closed period, a deadlock or a lost connection: all of it is
\* rolled back.
Rollback(h) ==
    /\ Busy(h)
    /\ Reset(h)
    /\ UNCHANGED <<kind, rows, entries, open, day, clashed, torn, deleted>>

\* The client of a request hangs up: what it has written so far is committed.
HangUp(h) ==
    /\ Busy(h) /\ work[h].todo # <<>> /\ work[h].op # "generate"
    /\ work[h].saved # Nothing \/ work[h].new # {}
    /\ Written(h) /\ Reset(h)
    /\ torn' = torn \cup {At(work[h])}
    /\ UNCHANGED <<kind, open, day, clashed, deleted>>

-----------------------------------------------------------------------------
(* What goes on around the documents.                                      *)

\* The journal: an entry is declined, which makes it a draft, and deleted.
DeleteEntry(e) ==
    /\ e \in entries
    /\ entries' = entries \ {e}
    /\ deleted' = IF kind = "recurring" THEN deleted ELSE deleted \cup {e.doc}
    /\ UNCHANGED <<kind, rows, work, open, day, clashed, torn>>

\* The month's period is closed or opened again.  The scheduler reads it once,
\* when it begins: turning it between two runs is as good as at any time.
TurnPeriod ==
    /\ kind = "recurring" => \A h \in Handlers : ~Busy(h)
    /\ open' = ~open
    /\ UNCHANGED <<kind, rows, entries, work, day, clashed, torn, deleted>>

\* Open transactions are over by the next day.
NextDay ==
    /\ kind = "recurring" /\ day < LastDay
    /\ \A h \in Handlers : ~Busy(h)
    /\ day' = day + 1
    /\ UNCHANGED <<kind, rows, entries, work, open, clashed, torn, deleted>>

Next ==
    \/ \E h \in Handlers, op \in Ops, d \in Docs, date \in Dates \cup {None} : Begin(h, op, d, date)
    \/ \E h \in Handlers, op \in Batched : BeginBatch(h, op)
    \/ \E h \in Handlers : Check(h) \/ SaveDoc(h) \/ SkipEntry(h) \/ Enter(h) \/ Duplicate(h)
                           \/ FailOne(h) \/ WriteLines(h) \/ Commit(h) \/ Rollback(h) \/ HangUp(h)
    \/ \E e \in entries : DeleteEntry(e)
    \/ TurnPeriod \/ NextDay

Spec == Init /\ [][Next]_vars

-----------------------------------------------------------------------------
(* Properties.                                                             *)

\* The status that says the document's money is in the journal, or may be.
AgreedStatus ==
    CASE kind \in {"petty_cash", "request"} -> "APPROVED"
      [] kind = "offering"                  -> "RECONCILED"
      [] kind = "bank_row"                  -> "POSTED"
      [] OTHER                              -> "PENDING"

\* An entry in the journal belongs to a document that is approved, reconciled
\* or posted and has its lines.  The exceptions: a decision saved over another
\* one that was made meanwhile, and a client that hung up half-way.
EntryOfAgreed ==
    \A e \in entries :
        \/ rows[e.doc].status = AgreedStatus /\ e.lines
        \/ e.doc \in clashed \cup torn

\* A replenishment that is approved, an offering reconciled with an entry and
\* a bank row that is posted have their entry, exactly one, unless the client
\* hung up half-way or the entry was declined and deleted.
MustHaveEntry(d) ==
    \/ kind = "petty_cash" /\ rows[d].status = "APPROVED"
    \/ kind = "offering" /\ rows[d].wanted
    \/ kind = "bank_row" /\ rows[d].status = "POSTED"

EntryOnce ==
    \A d \in Docs :
        LET mine == {e \in entries : e.doc = d}
        IN  /\ kind # "recurring" => Cardinality(mine) <= 1
            /\ MustHaveEntry(d) => mine # {} \/ d \in torn \cup deleted

\* Two entries of a recurring entry are an interval apart, however late or often
\* the scheduler runs, unless an admin moved the due date or saved the entry as
\* it was before the scheduler had.
SpacedOut ==
    \A e, f \in entries :
        kind = "recurring" /\ e.doc = f.doc /\ e.day < f.day
            => f.day - e.day >= Interval \/ e.doc \in clashed
=============================================================================
