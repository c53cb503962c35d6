------------------------------ MODULE Journal -------------------------------
(***************************************************************************)
(* One church's books: journal entries, the admins who record, approve,    *)
(* decline and void them, and the balance kept in each account's row.      *)
(*                                                                         *)
(* A request is one READ COMMITTED transaction.  Approving and voiding     *)
(* lock the entry's row and then its accounts' rows; declining, sending    *)
(* back, deleting and editing read first and save later without a lock,    *)
(* and a save writes over whatever was committed in between.  Writes count *)
(* from the commit on.  A client that hangs up in the middle of a request  *)
(* commits what the request has written by then.                           *)
(***************************************************************************)
EXTENDS Integers, FiniteSets

CONSTANTS
  Keys,          \* idempotency keys: the entries people record
  Accounts,
  Lines,         \* what posting the entry of a key adds to each account
  Admins,
  Author,        \* who records the entry of a key
  Handlers,      \* requests being handled at once
  Edited,        \* accounts whose details an admin edits meanwhile
  MaxReversals,  \* bound: reversals of reversals
  MaxSubmits,    \* bound: times the entry of a key is recorded or sent back for approval
  Nothing

ASSUME JournalAssumption ==
  /\ Lines \in [Keys -> [Accounts -> Int]]
  /\ Author \in [Keys -> Admins]
  /\ Edited \subseteq Accounts
  /\ MaxReversals \in Nat /\ MaxSubmits \in [Keys -> Nat]

VARIABLES
  entries,  \* finance_journal_entries.status, or "none"
  lines,    \* whether the entry has its rows in finance_journal_entry_lines
  balance,  \* finance_accounts.current_balance
  period,   \* the status of the accounting period
  work,     \* the request in progress on each Handlers slot
  submits,  \* history: how often the entry of a key was put up for approval
  posts,    \* history: how often it was approved
  torn      \* history: some client hung up between two writes of a posting

vars == <<entries, lines, balance, period, work, submits, posts, torn>>

-----------------------------------------------------------------------------
\* <<k, 0>> is what was recorded under k, <<k, i + 1>> the reversal of <<k, i>>.
Entries == Keys \X (0 .. MaxReversals)

Reversal(e) == <<e[1], e[2] + 1>>

\* A reversal has the lines of what it reverses with debit and credit swapped.
Effect(e, a) == IF e[2] % 2 = 0 THEN Lines[e[1]][a] ELSE -Lines[e[1]][a]

Touches(e) == {a \in Accounts : Lines[e[1]][a] # 0}

\* Seeded bug: the status of a request for money.
DeclinedAsRequest == "REJECTED"

Declined == "DRAFT"

EntryStatus == {"none", "DRAFT", "PENDING_APPROVAL", "POSTED", "VOIDED"}

Zero == [a \in Accounts |-> 0]

\* got: the accounts locked so far; seen: what the request read of balances.
Idle == [op |-> "idle", item |-> Nothing, got |-> {}, seen |-> Zero]

Locking == {"create", "approve", "void"}
Declining == {"reject", "resubmit", "delete"}

Requests ==
  [op : {"idle", "edit"} \cup Locking \cup Declining,
   item : Entries \cup Accounts \cup {Nothing},
   got : SUBSET Accounts, seen : [Accounts -> Int]]

Busy(h) == work[h].op # "idle"
Takes(h, op, item) ==
  /\ ~Busy(h)
  /\ work' = [work EXCEPT ![h] = [op |-> op, item |-> item, got |-> {}, seen |-> Zero]]
Ends(h) == work' = [work EXCEPT ![h] = Idle]

EntryHeld(e) == \E g \in Handlers : work[g].op \in {"approve", "void"} /\ work[g].item = e
AccountHeld(a) == \E g \in Handlers : a \in work[g].got

Init ==
  /\ entries = [e \in Entries |-> "none"]
  /\ lines = [e \in Entries |-> FALSE]
  /\ balance = Zero
  /\ period = "OPEN"
  /\ work = [h \in Handlers |-> Idle]
  /\ submits = [k \in Keys |-> 0]
  /\ posts = [k \in Keys |-> 0]
  /\ torn = FALSE

-----------------------------------------------------------------------------
(* Requests that lock: they wait for the rows one by one, in any order.    *)

StartCreate(h, k) ==
  /\ submits[k] < MaxSubmits[k]
  /\ period = "OPEN"
  /\ Takes(h, "create", <<k, 0>>)
  /\ UNCHANGED <<entries, lines, balance, period, submits, posts, torn>>

\* Seeded bug: the entry's row is not locked.
MayApproveUnlocked(e, admin) ==
  entries[e] = "PENDING_APPROVAL" /\ admin # Author[e[1]] /\ lines[e]

\* Seeded bug: whether the entry has lines makes no difference.
MayApproveLineless(e, admin) ==
  ~EntryHeld(e) /\ entries[e] = "PENDING_APPROVAL" /\ admin # Author[e[1]]

\* An entry without lines fails on an empty IN () and changes nothing.
MayApprove(e, admin) ==
  ~EntryHeld(e) /\ entries[e] = "PENDING_APPROVAL" /\ admin # Author[e[1]] /\ lines[e]

StartApprove(h, e, admin) ==
  /\ MayApprove(e, admin)
  /\ period = "OPEN"
  /\ Takes(h, "approve", e)
  /\ UNCHANGED <<entries, lines, balance, period, submits, posts, torn>>

StartVoid(h, e) ==
  /\ e[2] < MaxReversals
  /\ ~EntryHeld(e)
  /\ entries[e] = "POSTED"
  /\ period = "OPEN"
  /\ entries[Reversal(e)] = "none"
  /\ lines[e]
  /\ Takes(h, "void", e)
  /\ UNCHANGED <<entries, lines, balance, period, submits, posts, torn>>

\* Seeded bug: a plain SELECT.
Readable(a) == TRUE

\* FOR UPDATE waits for whoever holds the row.
Granted(a) == ~AccountHeld(a)

LockAccount(h, a) ==
  /\ work[h].op \in Locking
  /\ a \in Touches(work[h].item) \ work[h].got
  /\ Granted(a)
  /\ work' = [work EXCEPT ![h] =
                 [op |-> @.op, item |-> @.item, got |-> @.got \cup {a},
                  seen |-> [@.seen EXCEPT ![a] = balance[a]]]]
  /\ UNCHANGED <<entries, lines, balance, period, submits, posts, torn>>

Ready(h, op) == work[h].op = op /\ work[h].got = Touches(work[h].item)

\* The balances once the request has saved those of the accounts in S.
Moved(h, S) ==
  [a \in Accounts |->
     IF a \notin S THEN balance[a]
     ELSE IF work[h].op = "approve" THEN work[h].seen[a] + Effect(work[h].item, a)
     ELSE work[h].seen[a] - Effect(work[h].item, a)]

\* CHECK (current_balance >= -0.01).
Covered(h, S) == \A a \in S : Moved(h, S)[a] >= 0

Overdrawn(h) == ~Covered(h, Touches(work[h].item))

\* Seeded bug: a reversal starts as any other entry does.
Submitted == "PENDING_APPROVAL"

ReversalStatus == "POSTED"

\* The unique key refuses a second entry of the same key.
CommitCreate(h) ==
  LET e == work[h].item IN
  /\ Ready(h, "create")
  /\ IF entries[e] = "none"
     THEN /\ entries' = [entries EXCEPT ![e] = "PENDING_APPROVAL"]
          /\ lines' = [lines EXCEPT ![e] = TRUE]
          /\ submits' = [submits EXCEPT ![e[1]] = @ + 1]
     ELSE UNCHANGED <<entries, lines, submits>>
  /\ Ends(h)
  /\ UNCHANGED <<balance, period, posts, torn>>

CommitApprove(h) ==
  LET e == work[h].item IN
  /\ Ready(h, "approve")
  /\ Covered(h, Touches(e))
  /\ balance' = Moved(h, Touches(e))
  /\ entries' = [entries EXCEPT ![e] = "POSTED"]
  /\ posts' = [posts EXCEPT ![e[1]] = @ + 1]
  /\ Ends(h)
  /\ UNCHANGED <<lines, period, submits, torn>>

CommitVoid(h) ==
  LET e == work[h].item IN
  /\ Ready(h, "void")
  /\ Covered(h, Touches(e))
  /\ balance' = Moved(h, Touches(e))
  /\ entries' = [entries EXCEPT ![e] = "VOIDED", ![Reversal(e)] = ReversalStatus]
  /\ lines' = [lines EXCEPT ![Reversal(e)] = TRUE]
  /\ Ends(h)
  /\ UNCHANGED <<period, submits, posts, torn>>

\* An account would go below zero: the database refuses, all is rolled back.
Refused(h) ==
  /\ Ready(h, "approve") \/ Ready(h, "void")
  /\ Overdrawn(h)
  /\ Ends(h)
  /\ UNCHANGED <<entries, lines, balance, period, submits, posts, torn>>

\* h waits for accounts that are all held by requests that wait in turn.
Deadlocked(h) ==
  \E S \in SUBSET Handlers :
    /\ h \in S
    /\ \A g \in S :
         /\ work[g].op \in Locking
         /\ work[g].got # Touches(work[g].item)
         /\ \A a \in Touches(work[g].item) \ work[g].got :
              \E other \in S \ {g} : a \in work[other].got

Victim(h) ==
  /\ Deadlocked(h)
  /\ Ends(h)
  /\ UNCHANGED <<entries, lines, balance, period, submits, posts, torn>>

-----------------------------------------------------------------------------
(* Requests that read, check, and save later.                              *)

StartReject(h, e) ==
  /\ entries[e] = "PENDING_APPROVAL"
  /\ Takes(h, "reject", e)
  /\ UNCHANGED <<entries, lines, balance, period, submits, posts, torn>>

StartResubmit(h, e) ==
  /\ submits[e[1]] < MaxSubmits[e[1]]
  /\ entries[e] = "DRAFT"
  /\ Takes(h, "resubmit", e)
  /\ UNCHANGED <<entries, lines, balance, period, submits, posts, torn>>

StartDelete(h, e) ==
  /\ entries[e] = "DRAFT"
  /\ Takes(h, "delete", e)
  /\ UNCHANGED <<entries, lines, balance, period, submits, posts, torn>>

SaveReject(h) ==
  LET e == work[h].item IN
  /\ work[h].op = "reject" /\ ~EntryHeld(e)
  /\ entries' = [entries EXCEPT ![e] = Declined]
  /\ Ends(h)
  /\ UNCHANGED <<lines, balance, period, submits, posts, torn>>

SaveResubmit(h) ==
  LET e == work[h].item IN
  /\ work[h].op = "resubmit" /\ ~EntryHeld(e)
  /\ entries' = [entries EXCEPT ![e] = "PENDING_APPROVAL"]
  /\ submits' = [submits EXCEPT ![e[1]] = @ + 1]
  /\ Ends(h)
  /\ UNCHANGED <<lines, balance, period, posts, torn>>

\* Whoever else is about to save the row finds none; the insert that the save
\* then tries has no period and is refused.
SaveDelete(h) ==
  LET e == work[h].item IN
  /\ work[h].op = "delete" /\ ~EntryHeld(e)
  /\ entries' = [entries EXCEPT ![e] = "none"]
  /\ lines' = [lines EXCEPT ![e] = FALSE]
  /\ work' = [g \in Handlers |->
                IF work[g].op \in Declining /\ work[g].item = e THEN Idle ELSE work[g]]
  /\ UNCHANGED <<balance, period, submits, posts, torn>>

\* AccountService.update: the whole row as it was read, balance included.
StartEdit(h, a) ==
  /\ ~Busy(h)
  /\ work' = [work EXCEPT ![h] = [op |-> "edit", item |-> a, got |-> {},
                                  seen |-> [Zero EXCEPT ![a] = balance[a]]]]
  /\ UNCHANGED <<entries, lines, balance, period, submits, posts, torn>>

SaveEdit(h) ==
  LET a == work[h].item IN
  /\ work[h].op = "edit" /\ ~AccountHeld(a)
  /\ balance' = [balance EXCEPT ![a] = work[h].seen[a]]
  /\ Ends(h)
  /\ UNCHANGED <<entries, lines, period, submits, posts, torn>>

ClosePeriod ==
  /\ period = "OPEN"
  /\ period' = "CLOSED"
  /\ UNCHANGED <<entries, lines, balance, work, submits, posts, torn>>

ReopenPeriod ==
  /\ period = "CLOSED"
  /\ period' = "OPEN"
  /\ UNCHANGED <<entries, lines, balance, work, submits, posts, torn>>

-----------------------------------------------------------------------------
(* What the middleware does when the client goes before the answer: the    *)
(* transaction ends there and is committed.                                *)

HangUp(h) ==
  /\ Busy(h)
  /\ Ends(h)
  /\ UNCHANGED <<entries, lines, balance, period, submits, posts, torn>>

\* Some accounts are saved and the entry is not.
TearPosting(h, S) ==
  /\ Ready(h, "approve") \/ Ready(h, "void")
  /\ ~torn  \* bound: one torn posting
  /\ S \subseteq Touches(work[h].item) /\ S # {}
  /\ Covered(h, S)
  /\ balance' = Moved(h, S)
  /\ torn' = TRUE
  /\ Ends(h)
  /\ UNCHANGED <<entries, lines, period, submits, posts>>

\* The accounts and the reversal are saved and the voided entry is not.
TearVoid(h, withLines) ==
  LET e == work[h].item IN
  /\ ~torn  \* bound
  /\ Ready(h, "void")
  /\ Covered(h, Touches(e))
  /\ balance' = Moved(h, Touches(e))
  /\ entries' = [entries EXCEPT ![Reversal(e)] = ReversalStatus]
  /\ lines' = [lines EXCEPT ![Reversal(e)] = withLines]
  /\ torn' = TRUE
  /\ Ends(h)
  /\ UNCHANGED <<period, submits, posts>>

\* The entry is saved and its lines are not.
TearCreate(h) ==
  LET e == work[h].item IN
  /\ Ready(h, "create")
  /\ entries[e] = "none"
  /\ entries' = [entries EXCEPT ![e] = "PENDING_APPROVAL"]
  /\ submits' = [submits EXCEPT ![e[1]] = @ + 1]
  /\ Ends(h)
  /\ UNCHANGED <<lines, balance, period, posts, torn>>

-----------------------------------------------------------------------------
Start(h) ==
  \/ \E k \in Keys : StartCreate(h, k)
  \/ \E e \in Entries, admin \in Admins : StartApprove(h, e, admin)
  \/ \E e \in Entries : StartVoid(h, e)
  \/ \E e \in Entries : StartReject(h, e) \/ StartResubmit(h, e) \/ StartDelete(h, e)
  \/ \E a \in Edited : StartEdit(h, a)

Save(h) ==
  \/ SaveReject(h) \/ SaveResubmit(h) \/ SaveDelete(h) \/ SaveEdit(h)

Finish(h) ==
  \/ CommitCreate(h) \/ CommitApprove(h) \/ CommitVoid(h) \/ Refused(h)

Tear(h) ==
  \/ \E S \in SUBSET Accounts : TearPosting(h, S)
  \/ \E withLines \in BOOLEAN : TearVoid(h, withLines)
  \/ TearCreate(h)

Next ==
  \/ \E h \in Handlers :
       \/ Start(h)
       \/ \E a \in Accounts : LockAccount(h, a)
       \/ Finish(h) \/ Save(h) \/ Victim(h) \/ HangUp(h) \/ Tear(h)
  \/ ClosePeriod
  \/ ReopenPeriod

Spec == Init /\ [][Next]_vars

-----------------------------------------------------------------------------
\* Every variable has its type: statuses, whole balances, requests.
TypeOK ==
  /\ entries \in [Entries -> EntryStatus]
  /\ lines \in [Entries -> BOOLEAN]
  /\ balance \in [Accounts -> Int]
  /\ period \in {"OPEN", "CLOSED"}
  /\ work \in [Handlers -> Requests]
  /\ submits \in [Keys -> Nat]
  /\ posts \in [Keys -> Nat]
  /\ torn \in BOOLEAN

\* Between two commits an account moves by exactly the lines of the entry that
\* is posted or voided there, whatever else is being approved, declined or
\* sent back meanwhile: no posting is lost, none counts twice.  An account that
\* is edited meanwhile, and a request cut between its writes, are set apart.
MovesWithEntries(accounts) ==
  \A a \in accounts :
    /\ \A e \in Entries :
         entries[e] = "PENDING_APPROVAL" /\ entries'[e] = "POSTED"
           => balance'[a] = balance[a] + Effect(e, a)
    /\ \A e \in Entries :
         entries[e] = "POSTED" /\ entries'[e] = "VOIDED"
           => balance'[a] = balance[a] - Effect(e, a)
    /\ torn' = torn /\ balance'[a] # balance[a]
         => \E e \in Entries :
              \/ entries[e] = "PENDING_APPROVAL" /\ entries'[e] = "POSTED"
              \/ entries[e] = "POSTED" /\ entries'[e] = "VOIDED"

NoPostingLost == [][MovesWithEntries(Accounts \ Edited)]_vars

\* The same of every account, as the documentation of the row locks has it.
NoUpdateLost == [][MovesWithEntries(Accounts)]_vars

\* Each approval answers a submission of its own, although an entry may be
\* declined, sent back and approved by several people at once, even over one
\* another.
ApprovedAsSubmitted ==
  \A k \in Keys :
    posts[k] + (IF entries[<<k, 0>>] = "PENDING_APPROVAL" THEN 1 ELSE 0) <= submits[k]

\* A voided entry has its reversal in the books, even when a client hung up on
\* another attempt to void it.
VoidedIsReversed ==
  \A e \in Entries :
    entries[e] = "VOIDED" =>
      e[2] < MaxReversals /\ entries[Reversal(e)] \in {"POSTED", "VOIDED"}

\* What people recorded and approved has its lines, even when the client of
\* the request that recorded it hung up before they were written.
PostedHasLines ==
  \A k \in Keys : entries[<<k, 0>>] \in {"POSTED", "VOIDED"} => lines[<<k, 0>>]
=============================================================================
