--------------------------- MODULE JournalProofs ----------------------------
(* No posting is lost and every approval answers a submission, for every     *)
(* set of entries, accounts and requests, whatever hangs up or is edited.    *)
EXTENDS Journal, TLAPS

\* What a request works on, by its kind.
Kind(w) ==
  /\ w.op \in Locking \cup Declining => w.item \in Entries
  /\ w.op \in Declining \cup {"create"} => w.item[2] = 0
  /\ w.op = "edit" => w.item \in Edited
  /\ w.op \notin Locking => w.got = {}

\* What a request that holds its entry may rely on.
Relies(w) ==
  /\ w.op = "approve" => entries[w.item] = "PENDING_APPROVAL" /\ lines[w.item]
  /\ w.op = "void" =>
       /\ w.item[2] < MaxReversals
       /\ entries[w.item] = "POSTED"
       /\ entries[Reversal(w.item)] = "none"

\* What it read of the accounts it holds is what they still are.
Fresh(w) == \A a \in w.got : w.seen[a] = balance[a]

Holders == {"approve", "void"}

Apart ==
  \A g, h \in Handlers : g # h =>
    /\ work[g].got \cap work[h].got = {}
    /\ work[g].op \in Holders /\ work[h].op \in Holders => work[g].item # work[h].item

\* Reversals are posted from the start and are never declined.
ReversalsStand ==
  \A e \in Entries : e[2] > 0 => entries[e] \in {"none", "POSTED", "VOIDED"}

Inv ==
  /\ TypeOK
  /\ \A h \in Handlers : Kind(work[h]) /\ Relies(work[h]) /\ Fresh(work[h])
  /\ Apart
  /\ ReversalsStand
  /\ VoidedIsReversed
  /\ PostedHasLines
  /\ ApprovedAsSubmitted

-----------------------------------------------------------------------------
LEMMA EntryParts ==
  /\ \A e \in Entries : e[1] \in Keys /\ e[2] \in 0 .. MaxReversals /\ e = <<e[1], e[2]>>
  /\ \A k \in Keys : <<k, 0>> \in Entries /\ <<k, 0>>[1] = k /\ <<k, 0>>[2] = 0
  BY JournalAssumption DEF Entries

LEMMA ReversalParts ==
  ASSUME NEW e \in Entries, e[2] < MaxReversals
  PROVE  /\ Reversal(e) \in Entries /\ Reversal(e)[1] = e[1]
         /\ Reversal(e)[2] = e[2] + 1 /\ Reversal(e)[2] > 0 /\ Reversal(e) # e
  <1>1. e[1] \in Keys /\ e[2] \in Nat /\ MaxReversals \in Nat
    BY EntryParts, JournalAssumption
  <1>2. e[2] + 1 \in 0 .. MaxReversals
    BY <1>1
  <1> QED BY <1>1, <1>2 DEF Reversal, Entries

LEMMA ReversalOnce ==
  ASSUME NEW d \in Entries, NEW e \in Entries, Reversal(d) = Reversal(e)
  PROVE  d = e
  <1>1. d[1] = e[1] /\ d[2] + 1 = e[2] + 1
    BY DEF Reversal
  <1>2. d[2] \in Nat /\ e[2] \in Nat
    BY EntryParts, JournalAssumption
  <1>3. d[2] = e[2]
    BY <1>1, <1>2
  <1> QED BY <1>1, <1>3, EntryParts

LEMMA EffectType ==
  ASSUME NEW e \in Entries, NEW a \in Accounts
  PROVE  Effect(e, a) \in Int /\ (a \notin Touches(e) => Effect(e, a) = 0)
  <1>1. Lines[e[1]][a] \in Int
    BY EntryParts, JournalAssumption
  <1>2. a \notin Touches(e) => Lines[e[1]][a] = 0
    BY DEF Touches
  <1> QED BY <1>1, <1>2 DEF Effect

LEMMA TouchesType == ASSUME NEW e PROVE Touches(e) \subseteq Accounts
  BY DEF Touches

LEMMA InitInv == Init => Inv
  <1> SUFFICES ASSUME Init PROVE Inv
    OBVIOUS
  <1>1. TypeOK
    <2>1. Zero \in [Accounts -> Int] /\ Idle \in Requests
      BY DEF Zero, Idle, Requests
    <2> QED BY <2>1 DEF Init, TypeOK, EntryStatus, Declined
  <1>2. \A h \in Handlers : Kind(work[h]) /\ Relies(work[h]) /\ Fresh(work[h])
    BY DEF Init, Idle, Kind, Relies, Fresh, Locking, Declining
  <1>3. Apart /\ ReversalsStand /\ VoidedIsReversed
    BY DEF Init, Idle, Apart, Holders, ReversalsStand, VoidedIsReversed
  <1>4. PostedHasLines /\ ApprovedAsSubmitted
    BY EntryParts DEF Init, PostedHasLines, ApprovedAsSubmitted
  <1> QED BY <1>1, <1>2, <1>3, <1>4 DEF Inv

\* The moved balances, and what they are under the locks.
LEMMA MovedUnderLock ==
  ASSUME Inv, NEW h \in Handlers, work[h].op \in Holders,
         NEW S \in SUBSET work[h].got
  PROVE  /\ Moved(h, S) \in [Accounts -> Int]
         /\ \A a \in Accounts :
              Moved(h, S)[a] =
                IF a \notin S THEN balance[a]
                ELSE IF work[h].op = "approve" THEN balance[a] + Effect(work[h].item, a)
                ELSE balance[a] - Effect(work[h].item, a)
  <1>1. work[h].item \in Entries
    BY DEF Inv, Kind, Holders, Locking
  <1>2. \A a \in Accounts : Effect(work[h].item, a) \in Int
    BY <1>1, EffectType
  <1>3. \A a \in S : work[h].seen[a] = balance[a]
    BY DEF Inv, Fresh
  <1>4. balance \in [Accounts -> Int]
    BY DEF Inv, TypeOK
  <1> QED BY <1>2, <1>3, <1>4 DEF Moved

\* A request that moves on without touching anything but its own state.
LEMMA AssignInv ==
  ASSUME Inv, NEW h \in Handlers, NEW w \in Requests,
         work' = [work EXCEPT ![h] = w],
         Kind(w), Relies(w), Fresh(w),
         \A g \in Handlers \ {h} :
           /\ work[g].got \cap w.got = {}
           /\ work[g].op \in Holders /\ w.op \in Holders => work[g].item # w.item,
         UNCHANGED <<entries, lines, balance, period, submits, posts, torn>>
  PROVE  Inv'
  <1>1. TypeOK'
    BY DEF Inv, TypeOK
  <1>2. work'[h] = w /\ \A g \in Handlers : g # h => work'[g] = work[g]
    BY DEF Inv, TypeOK
  <1>3. \A g \in Handlers : Kind(work'[g]) /\ Relies(work'[g]) /\ Fresh(work'[g])
    BY <1>2 DEF Inv
  <1>4. \A g \in Handlers : (Kind(work[g]) /\ Relies(work[g]) /\ Fresh(work[g]))'
    BY <1>3 DEF Kind, Relies, Fresh
  <1>5. Apart'
    <2> SUFFICES ASSUME NEW g \in Handlers, NEW k \in Handlers, g # k
                 PROVE  /\ work'[g].got \cap work'[k].got = {}
                        /\ work'[g].op \in Holders /\ work'[k].op \in Holders
                             => work'[g].item # work'[k].item
      BY DEF Apart
    <2>1. CASE g # h /\ k # h
      BY <1>2, <2>1 DEF Inv, Apart
    <2>2. CASE g = h
      BY <1>2, <2>2
    <2>3. CASE k = h
      BY <1>2, <2>3
    <2> QED BY <2>1, <2>2, <2>3
  <1> QED BY <1>1, <1>4, <1>5 DEF Inv, ReversalsStand, VoidedIsReversed,
              PostedHasLines, ApprovedAsSubmitted

\* A request that ends and changes nothing.
LEMMA EndsInv ==
  ASSUME Inv, NEW h \in Handlers, Ends(h),
         UNCHANGED <<entries, lines, balance, period, submits, posts, torn>>
  PROVE  Inv'
  <1>1. Idle \in Requests /\ Idle.got = {} /\ Idle.op = "idle"
    BY DEF Idle, Zero, Requests
  <1>2. Kind(Idle) /\ Relies(Idle) /\ Fresh(Idle)
    BY <1>1 DEF Kind, Relies, Fresh, Locking, Declining
  <1>3. Idle.op \notin Holders
    BY <1>1 DEF Holders
  <1> QED BY <1>1, <1>2, <1>3, AssignInv DEF Ends

-----------------------------------------------------------------------------
\* A request that takes up something and holds no account yet.
LEMMA TakesInv ==
  ASSUME Inv, NEW h \in Handlers, NEW op \in Locking \cup Declining,
         NEW e \in Entries, Takes(h, op, e),
         op \in Declining \cup {"create"} => e[2] = 0,
         op \in Holders => ~EntryHeld(e),
         Relies([op |-> op, item |-> e, got |-> {}, seen |-> Zero]),
         UNCHANGED <<entries, lines, balance, period, submits, posts, torn>>
  PROVE  Inv'
  <1> DEFINE w == [op |-> op, item |-> e, got |-> {}, seen |-> Zero]
  <1>2. w \in Requests /\ w.op = op /\ w.item = e /\ w.got = {}
    BY DEF Requests, Zero
  <1>3. Kind(w) /\ Fresh(w)
    BY <1>2 DEF Kind, Fresh, Locking, Declining
  <1>4. \A g \in Handlers : work[g].op \in Holders /\ op \in Holders => work[g].item # e
    BY DEF EntryHeld, Holders
  <1>5. work' = [work EXCEPT ![h] = w] /\ Relies(w)
    BY DEF Takes
  <1> HIDE DEF w
  <1> QED BY <1>2, <1>3, <1>4, <1>5, AssignInv

LEMMA StartInv ==
  ASSUME Inv, NEW h \in Handlers, Start(h)
  PROVE  Inv'
  <1>0. \A e \in Entries : entries[e] \in {"PENDING_APPROVAL", "DRAFT"} => e[2] = 0
    <2> SUFFICES ASSUME NEW e \in Entries, entries[e] \in {"PENDING_APPROVAL", "DRAFT"}
                 PROVE  e[2] = 0
      OBVIOUS
    <2>1. ~(e[2] > 0)
      BY DEF Inv, ReversalsStand
    <2> QED BY <2>1, EntryParts, JournalAssumption
  <1>1. ASSUME NEW k \in Keys, StartCreate(h, k) PROVE Inv'
    <2>1. Relies([op |-> "create", item |-> <<k, 0>>, got |-> {}, seen |-> Zero])
      BY DEF Relies, Idle
    <2> QED BY <1>1, <2>1, EntryParts, TakesInv DEF StartCreate, Locking, Declining, Holders
  <1>2. ASSUME NEW e \in Entries, NEW admin \in Admins, StartApprove(h, e, admin) PROVE Inv'
    <2>1. entries[e] = "PENDING_APPROVAL" /\ lines[e] /\ ~EntryHeld(e)
      BY <1>2 DEF StartApprove, MayApprove
    <2>2. Relies([op |-> "approve", item |-> e, got |-> {}, seen |-> Zero])
      BY <2>1 DEF Relies, Idle
    <2> QED BY <1>2, <2>1, <2>2, TakesInv DEF StartApprove, Locking, Declining, Holders
  <1>3. ASSUME NEW e \in Entries, StartVoid(h, e) PROVE Inv'
    <2>1. Relies([op |-> "void", item |-> e, got |-> {}, seen |-> Zero])
      BY <1>3 DEF StartVoid, Relies, Idle
    <2> QED BY <1>3, <2>1, TakesInv DEF StartVoid, Locking, Declining, Holders
  <1>4. ASSUME NEW e \in Entries, StartReject(h, e) \/ StartResubmit(h, e) \/ StartDelete(h, e)
        PROVE  Inv'
    <2>1. PICK op \in Declining : Takes(h, op, e)
      BY <1>4 DEF StartReject, StartResubmit, StartDelete, Declining
    <2>2. Relies([op |-> op, item |-> e, got |-> {}, seen |-> Zero])
      BY DEF Relies, Idle, Declining
    <2>3. e[2] = 0
      BY <1>0, <1>4 DEF StartReject, StartResubmit, StartDelete
    <2>4. op \notin Holders
      BY DEF Holders, Declining
    <2>5. UNCHANGED <<entries, lines, balance, period, submits, posts, torn>>
      BY <1>4 DEF StartReject, StartResubmit, StartDelete
    <2> QED BY <2>1, <2>2, <2>3, <2>4, <2>5, TakesInv
  <1>5. ASSUME NEW a \in Edited, StartEdit(h, a) PROVE Inv'
    <2> DEFINE w == [op |-> "edit", item |-> a, got |-> {},
                     seen |-> [Zero EXCEPT ![a] = balance[a]]]
    <2>1. balance[a] \in Int /\ a \in Accounts
      BY JournalAssumption DEF Inv, TypeOK
    <2>3. w \in Requests /\ w.op = "edit" /\ w.item = a /\ w.got = {}
      BY <2>1 DEF Requests, Zero
    <2>4. Kind(w) /\ Relies(w) /\ Fresh(w) /\ w.op \notin Holders
      BY <2>3 DEF Kind, Relies, Fresh, Locking, Declining, Holders
    <2>5. work' = [work EXCEPT ![h] = w]
      BY <1>5 DEF StartEdit
    <2>6. UNCHANGED <<entries, lines, balance, period, submits, posts, torn>>
      BY <1>5 DEF StartEdit
    <2> HIDE DEF w
    <2> QED BY <2>3, <2>4, <2>5, <2>6, AssignInv
  <1> QED BY <1>1, <1>2, <1>3, <1>4, <1>5 DEF Start

LEMMA LockInv ==
  ASSUME Inv, NEW h \in Handlers, NEW a \in Accounts, LockAccount(h, a)
  PROVE  Inv'
  <1> DEFINE w == [op |-> work[h].op, item |-> work[h].item, got |-> work[h].got \cup {a},
                   seen |-> [work[h].seen EXCEPT ![a] = balance[a]]]
  <1>1. work' = [work EXCEPT ![h] = w]
    BY DEF LockAccount, Inv, TypeOK
  <1>2. UNCHANGED <<entries, lines, balance, period, submits, posts, torn>>
    BY DEF LockAccount
  <1>3. balance[a] \in Int /\ work[h].op \in Locking /\ work[h] \in Requests
    BY DEF Inv, TypeOK, LockAccount
  <1>5. /\ w \in Requests
        /\ w.op = work[h].op /\ w.item = work[h].item /\ w.got = work[h].got \cup {a}
        /\ w.seen[a] = balance[a] /\ \A b \in Accounts : b # a => w.seen[b] = work[h].seen[b]
    BY <1>3 DEF Requests
  <1> HIDE DEF w
  <1>6. Kind(w)
    BY <1>3, <1>5 DEF Inv, Kind
  <1>7. Relies(w)
    BY <1>5 DEF Inv, Relies
  <1>8. Fresh(w)
    BY <1>3, <1>5 DEF Inv, Fresh, Requests
  <1>9. \A g \in Handlers : a \notin work[g].got
    BY DEF LockAccount, Granted, AccountHeld
  <1>10. \A g \in Handlers \ {h} :
           /\ work[g].got \cap w.got = {}
           /\ work[g].op \in Holders /\ w.op \in Holders => work[g].item # w.item
    BY <1>5, <1>9 DEF Inv, Apart
  <1> QED BY <1>1, <1>2, <1>5, <1>6, <1>7, <1>8, <1>10, AssignInv

-----------------------------------------------------------------------------
\* What the other requests rely on is left as it is.
Undisturbed(h) ==
  \A g \in Handlers \ {h} :
    /\ work[g].op = "approve" =>
         /\ entries'[work[g].item] = entries[work[g].item]
         /\ lines'[work[g].item] = lines[work[g].item]
    /\ work[g].op = "void" =>
         /\ entries'[work[g].item] = entries[work[g].item]
         /\ entries'[Reversal(work[g].item)] = entries[Reversal(work[g].item)]
    /\ \A a \in work[g].got : balance'[a] = balance[a]

\* A request that ends and leaves something behind.
LEMMA LeaveInv ==
  ASSUME Inv, NEW h \in Handlers, Undisturbed(h),
         work' \in [Handlers -> Requests], work'[h] = Idle,
         \A g \in Handlers : work'[g] = work[g] \/ work'[g] = Idle,
         entries' \in [Entries -> EntryStatus], lines' \in [Entries -> BOOLEAN],
         balance' \in [Accounts -> Int], period' = period,
         submits' \in [Keys -> Nat], posts' \in [Keys -> Nat], torn' \in BOOLEAN,
         ReversalsStand', VoidedIsReversed', PostedHasLines', ApprovedAsSubmitted'
  PROVE  Inv'
  <1>0. Idle \in Requests /\ Idle.got = {} /\ Idle.op = "idle"
    BY DEF Idle, Zero, Requests
  <1>1. TypeOK'
    BY DEF Inv, TypeOK
  <1>3. \A g \in Handlers : (Kind(work[g]) /\ Relies(work[g]) /\ Fresh(work[g]))'
    <2> SUFFICES ASSUME NEW g \in Handlers
                 PROVE  (Kind(work[g]) /\ Relies(work[g]) /\ Fresh(work[g]))'
      OBVIOUS
    <2>1. CASE work'[g] = Idle
      BY <1>0, <2>1 DEF Kind, Relies, Fresh, Locking, Declining
    <2>2. CASE g # h /\ work'[g] = work[g]
      <3>1. Kind(work[g]) /\ Relies(work[g]) /\ Fresh(work[g])
        BY DEF Inv
      <3> QED BY <2>2, <3>1 DEF Kind, Relies, Fresh, Undisturbed
    <2> QED BY <2>1, <2>2
  <1>4. Apart'
    <2> SUFFICES ASSUME NEW g \in Handlers, NEW k \in Handlers, g # k
                 PROVE  /\ work'[g].got \cap work'[k].got = {}
                        /\ work'[g].op \in Holders /\ work'[k].op \in Holders
                             => work'[g].item # work'[k].item
      BY DEF Apart
    <2>1. CASE work'[g] = work[g] /\ work'[k] = work[k]
      BY <2>1 DEF Inv, Apart
    <2>2. CASE work'[g] = Idle \/ work'[k] = Idle
      BY <1>0, <2>2 DEF Holders
    <2> QED BY <2>1, <2>2
  <1> QED BY <1>1, <1>3, <1>4 DEF Inv

LEMMA EndsParts ==
  ASSUME Inv, NEW h \in Handlers, Ends(h)
  PROVE  /\ work' \in [Handlers -> Requests] /\ work'[h] = Idle
         /\ \A g \in Handlers : work'[g] = work[g] \/ work'[g] = Idle
  <1>1. Idle \in Requests
    BY DEF Idle, Zero, Requests
  <1> QED BY <1>1 DEF Ends, Inv, TypeOK

\* The facts about the request at hand that its last step needs.
LEMMA HolderFacts ==
  ASSUME Inv, NEW h \in Handlers, work[h].op \in Locking \cup Declining
  PROVE  /\ work[h].item \in Entries /\ work[h].item[1] \in Keys
         /\ work[h].item[2] \in 0 .. MaxReversals
         /\ work[h].op \notin Holders => work[h].item[2] = 0 /\ work[h].item = <<work[h].item[1], 0>>
         /\ \A g \in Handlers \ {h} : work[g].op \in Holders =>
              /\ work[g].item \in Entries
              /\ work[h].op \in Holders => work[g].item # work[h].item
  <1>1. work[h].item \in Entries
    BY DEF Inv, Kind
  <1>2. work[h].op \notin Holders => work[h].item[2] = 0
    BY DEF Inv, Kind, Holders, Locking, Declining
  <1>3. \A g \in Handlers \ {h} : work[g].op \in Holders =>
              /\ work[g].item \in Entries
              /\ work[h].op \in Holders => work[g].item # work[h].item
    BY DEF Inv, Kind, Apart, Holders, Locking
  <1> QED BY <1>1, <1>2, <1>3, EntryParts

\* Accounts the request holds are held by nobody else.
LEMMA MovedApart ==
  ASSUME Inv, NEW h \in Handlers, work[h].op \in Holders,
         NEW S \in SUBSET work[h].got, balance' = Moved(h, S)
  PROVE  /\ balance' \in [Accounts -> Int]
         /\ \A g \in Handlers \ {h} : \A a \in work[g].got : balance'[a] = balance[a]
  <1>1. \A g \in Handlers \ {h} : \A a \in work[g].got : a \in Accounts /\ a \notin S
    BY DEF Inv, Apart, TypeOK, Requests
  <1> QED BY <1>1, MovedUnderLock

LEMMA CommitApproveInv ==
  ASSUME Inv, NEW h \in Handlers, CommitApprove(h)
  PROVE  Inv'
  <1> DEFINE e == work[h].item
  <1>1. /\ work[h].op = "approve" /\ work[h].op \in Holders /\ work[h].op \in Locking
        /\ work[h].got = Touches(e) /\ Ends(h)
        /\ balance' = Moved(h, work[h].got)
    BY DEF CommitApprove, Ready, Holders, Locking
  <1>2. /\ entries' = [entries EXCEPT ![e] = "POSTED"]
        /\ posts' = [posts EXCEPT ![e[1]] = @ + 1]
        /\ UNCHANGED <<lines, period, submits, torn>>
    BY DEF CommitApprove
  <1>3. e \in Entries /\ e[1] \in Keys /\ e[2] \in 0 .. MaxReversals
    BY <1>1, HolderFacts
  <1>4. entries[e] = "PENDING_APPROVAL" /\ lines[e]
    BY <1>1 DEF Inv, Relies
  <1>5. e[2] = 0 /\ e = <<e[1], 0>>
    <2>1. ~(e[2] > 0)
      BY <1>3, <1>4 DEF Inv, ReversalsStand
    <2>2. e[2] = 0
      BY <1>3, <2>1, JournalAssumption
    <2> QED BY <1>3, <2>2, EntryParts
  <1>6. TypeOK
    BY DEF Inv
  <1>7. Undisturbed(h)
    <2> SUFFICES ASSUME NEW g \in Handlers \ {h}
                 PROVE  /\ work[g].op = "approve" =>
                             /\ entries'[work[g].item] = entries[work[g].item]
                             /\ lines'[work[g].item] = lines[work[g].item]
                        /\ work[g].op = "void" =>
                             /\ entries'[work[g].item] = entries[work[g].item]
                             /\ entries'[Reversal(work[g].item)]
                                  = entries[Reversal(work[g].item)]
                        /\ \A a \in work[g].got : balance'[a] = balance[a]
      BY DEF Undisturbed
    <2>1. \A a \in work[g].got : balance'[a] = balance[a]
      BY <1>1, MovedApart
    <2>2. work[g].op \in Holders => work[g].item \in Entries /\ work[g].item # e
      BY <1>1, HolderFacts
    <2>3. work[g].op = "void" => Reversal(work[g].item) # e
      <3> SUFFICES ASSUME work[g].op = "void" PROVE Reversal(work[g].item) # e
        OBVIOUS
      <3>1. work[g].item[2] < MaxReversals
        BY DEF Inv, Relies
      <3> QED BY <1>5, <2>2, <3>1, ReversalParts DEF Holders
    <2> QED BY <1>2, <1>6, <2>1, <2>2, <2>3 DEF TypeOK, Holders
  <1>8. /\ entries' \in [Entries -> EntryStatus] /\ posts' \in [Keys -> Nat]
        /\ balance' \in [Accounts -> Int]
        /\ \A d \in Entries : d # e => entries'[d] = entries[d]
        /\ entries'[e] = "POSTED"
    BY <1>1, <1>2, <1>3, <1>6, MovedApart DEF TypeOK, EntryStatus
  <1>9. ReversalsStand'
    BY <1>8 DEF Inv, ReversalsStand
  <1>10. VoidedIsReversed'
    <2> SUFFICES ASSUME NEW d \in Entries, entries'[d] = "VOIDED"
                 PROVE  d[2] < MaxReversals /\ entries'[Reversal(d)] \in {"POSTED", "VOIDED"}
      BY DEF VoidedIsReversed
    <2>1. d[2] < MaxReversals /\ entries[Reversal(d)] \in {"POSTED", "VOIDED"}
      BY <1>8 DEF Inv, VoidedIsReversed
    <2> QED BY <1>8, <2>1, ReversalParts
  <1>11. PostedHasLines'
    BY <1>2, <1>4, <1>8, EntryParts DEF Inv, PostedHasLines
  <1>12. ApprovedAsSubmitted'
    <2> SUFFICES ASSUME NEW k \in Keys
                 PROVE  posts'[k] + (IF entries'[<<k, 0>>] = "PENDING_APPROVAL" THEN 1 ELSE 0)
                          <= submits'[k]
      BY DEF ApprovedAsSubmitted
    <2>1. posts[k] + (IF entries[<<k, 0>>] = "PENDING_APPROVAL" THEN 1 ELSE 0) <= submits[k]
      BY DEF Inv, ApprovedAsSubmitted
    <2>2. posts[k] \in Nat /\ submits[k] \in Nat /\ submits'[k] = submits[k]
      BY <1>2, <1>6 DEF TypeOK
    <2>3. CASE k = e[1]
      BY <1>2, <1>3, <1>4, <1>5, <1>6, <1>8, <2>1, <2>2, <2>3 DEF TypeOK
    <2>4. CASE k # e[1]
      <3>1. <<k, 0>> # e /\ <<k, 0>> \in Entries
        BY <1>5, <2>4, EntryParts
      <3>2. posts'[k] = posts[k]
        BY <1>2, <1>6, <2>4 DEF TypeOK
      <3> QED BY <1>8, <2>1, <2>2, <3>1, <3>2
    <2> QED BY <2>3, <2>4
  <1> QED BY <1>1, <1>2, <1>6, <1>7, <1>8, <1>9, <1>10, <1>11, <1>12,
             EndsParts, LeaveInv DEF TypeOK

\* What voiding e does, with the entry itself still to be saved when it is
\* torn: `last` is the status e is left with.
LEMMA VoidInv ==
  ASSUME Inv, NEW h \in Handlers, Ready(h, "void"), NEW e \in Entries, e = work[h].item,
         NEW last \in {"POSTED", "VOIDED"}, NEW has \in BOOLEAN,
         Ends(h), balance' = Moved(h, Touches(e)),
         entries' = [entries EXCEPT ![e] = last, ![Reversal(e)] = "POSTED"],
         lines' = [lines EXCEPT ![Reversal(e)] = has],
         UNCHANGED <<period, submits, posts>>, torn' \in BOOLEAN
  PROVE  Inv'
  <1> DEFINE r == Reversal(e)
  <1>1. /\ work[h].op = "void" /\ work[h].op \in Holders /\ work[h].op \in Locking
        /\ work[h].got = Touches(e)
    BY DEF Ready, Holders, Locking
  <1>2. e[2] < MaxReversals /\ entries[e] = "POSTED" /\ entries[r] = "none"
    BY <1>1 DEF Inv, Relies
  <1>3. r \in Entries /\ r # e /\ r[2] > 0
    BY <1>2, ReversalParts
  <1>4. TypeOK
    BY DEF Inv
  <1> HIDE DEF r
  <1>5. entries' = [entries EXCEPT ![e] = last, ![r] = "POSTED"]
        /\ lines' = [lines EXCEPT ![r] = has]
    BY DEF r
  <1>6. /\ entries' \in [Entries -> EntryStatus] /\ lines' \in [Entries -> BOOLEAN]
        /\ entries'[e] = last /\ entries'[r] = "POSTED"
        /\ \A d \in Entries : d # e /\ d # r => entries'[d] = entries[d]
        /\ \A d \in Entries : d # r => lines'[d] = lines[d]
    <2>1. entries \in [Entries -> EntryStatus] /\ lines \in [Entries -> BOOLEAN]
      BY <1>4 DEF TypeOK
    <2>2. last \in EntryStatus /\ "POSTED" \in EntryStatus
      BY DEF EntryStatus
    <2> DEFINE mid == [entries EXCEPT ![e] = last]
    <2>a. mid \in [Entries -> EntryStatus]
      BY <2>1, <2>2
    <2>b. entries' = [mid EXCEPT ![r] = "POSTED"]
      BY <1>5
    <2> HIDE DEF mid
    <2>3. entries' \in [Entries -> EntryStatus] /\ lines' \in [Entries -> BOOLEAN]
      <3>1. entries' \in [Entries -> EntryStatus]
        BY <1>3, <2>a, <2>b, <2>2
      <3>2. lines' \in [Entries -> BOOLEAN]
        BY <1>3, <1>5, <2>1
      <3> QED BY <3>1, <3>2
    <2>4. entries'[e] = last /\ entries'[r] = "POSTED"
      BY <1>3, <1>5, <2>1
    <2>5. \A d \in Entries : d # e /\ d # r => entries'[d] = entries[d]
      BY <1>5, <2>1
    <2>6. \A d \in Entries : d # r => lines'[d] = lines[d]
      BY <1>5, <2>1
    <2> QED BY <2>3, <2>4, <2>5, <2>6
  <1>7. Undisturbed(h)
    <2> SUFFICES ASSUME NEW g \in Handlers \ {h}
                 PROVE  /\ work[g].op = "approve" =>
                             /\ entries'[work[g].item] = entries[work[g].item]
                             /\ lines'[work[g].item] = lines[work[g].item]
                        /\ work[g].op = "void" =>
                             /\ entries'[work[g].item] = entries[work[g].item]
                             /\ entries'[Reversal(work[g].item)]
                                  = entries[Reversal(work[g].item)]
                        /\ \A a \in work[g].got : balance'[a] = balance[a]
      BY DEF Undisturbed
    <2>1. \A a \in work[g].got : balance'[a] = balance[a]
      BY <1>1, MovedApart
    <2>2. work[g].op \in Holders => work[g].item \in Entries /\ work[g].item # e
      BY <1>1, HolderFacts
    <2>3. work[g].op \in Holders => work[g].item # r
      <3>1. Relies(work[g])
        BY DEF Inv
      <3>2. work[g].op \in Holders => entries[work[g].item] # "none"
        BY <3>1 DEF Relies, Holders
      <3> QED BY <1>2, <3>2
    <2>4. work[g].op = "void" =>
            /\ Reversal(work[g].item) \in Entries
            /\ Reversal(work[g].item) # r /\ Reversal(work[g].item) # e
      <3> SUFFICES ASSUME work[g].op = "void"
                   PROVE  /\ Reversal(work[g].item) \in Entries
                          /\ Reversal(work[g].item) # r /\ Reversal(work[g].item) # e
        OBVIOUS
      <3>1. work[g].item[2] < MaxReversals /\ entries[Reversal(work[g].item)] = "none"
        BY DEF Inv, Relies
      <3> QED BY <1>2, <2>2, <3>1, ReversalParts, ReversalOnce DEF Holders, r
    <2> QED BY <1>6, <2>1, <2>2, <2>3, <2>4 DEF Holders
  <1>8. balance' \in [Accounts -> Int]
    BY <1>1, MovedApart
  <1>9. ReversalsStand'
    BY <1>6 DEF Inv, ReversalsStand
  <1>10. VoidedIsReversed'
    <2> SUFFICES ASSUME NEW d \in Entries, entries'[d] = "VOIDED"
                 PROVE  d[2] < MaxReversals /\ entries'[Reversal(d)] \in {"POSTED", "VOIDED"}
      BY DEF VoidedIsReversed
    <2>1. CASE d = e
      BY <1>2, <1>6, <2>1 DEF r
    <2>2. CASE d # e
      <3>1. d # r /\ entries[d] = "VOIDED"
        BY <1>6, <2>2
      <3>2. d[2] < MaxReversals /\ entries[Reversal(d)] \in {"POSTED", "VOIDED"}
        BY <3>1 DEF Inv, VoidedIsReversed
      <3> QED BY <1>6, <3>2, ReversalParts
    <2> QED BY <2>1, <2>2
  <1>11. \A k \in Keys : <<k, 0>> \in Entries /\ <<k, 0>> # r
    <2> SUFFICES ASSUME NEW k \in Keys PROVE <<k, 0>> \in Entries /\ <<k, 0>> # r
      OBVIOUS
    <2>1. <<k, 0>> \in Entries /\ <<k, 0>>[2] = 0
      BY EntryParts
    <2>2. ~(<<k, 0>>[2] > 0)
      BY <2>1
    <2> QED BY <1>3, <2>1, <2>2
  <1>12. PostedHasLines'
    <2> SUFFICES ASSUME NEW k \in Keys, entries'[<<k, 0>>] \in {"POSTED", "VOIDED"}
                 PROVE  lines'[<<k, 0>>]
      BY DEF PostedHasLines
    <2>1. entries[<<k, 0>>] \in {"POSTED", "VOIDED"}
      BY <1>2, <1>6, <1>11
    <2> QED BY <1>6, <1>11, <2>1 DEF Inv, PostedHasLines
  <1>13. ApprovedAsSubmitted'
    <2> SUFFICES ASSUME NEW k \in Keys
                 PROVE  posts'[k] + (IF entries'[<<k, 0>>] = "PENDING_APPROVAL" THEN 1 ELSE 0)
                          <= submits'[k]
      BY DEF ApprovedAsSubmitted
    <2>1. posts[k] + (IF entries[<<k, 0>>] = "PENDING_APPROVAL" THEN 1 ELSE 0) <= submits[k]
      BY DEF Inv, ApprovedAsSubmitted
    <2>2. entries'[<<k, 0>>] = "PENDING_APPROVAL" => entries[<<k, 0>>] = "PENDING_APPROVAL"
      BY <1>6, <1>11
    <2>3. posts[k] \in Nat /\ submits[k] \in Nat
      BY <1>4 DEF TypeOK
    <2> QED BY <2>1, <2>2, <2>3
  <1> QED BY <1>4, <1>6, <1>7, <1>8, <1>9, <1>10, <1>12, <1>13, EndsParts, LeaveInv DEF TypeOK

LEMMA CommitVoidInv ==
  ASSUME Inv, NEW h \in Handlers, CommitVoid(h)
  PROVE  Inv'
  <1>1. work[h].op \in Locking
    BY DEF CommitVoid, Ready, Locking
  <1>2. work[h].item \in Entries
    BY <1>1, HolderFacts
  <1>3. torn' = torn /\ torn \in BOOLEAN
    BY DEF CommitVoid, Inv, TypeOK
  <1> QED BY <1>2, <1>3, VoidInv DEF CommitVoid, ReversalStatus

\* Recording an entry, with its lines still to be saved when it is torn.
LEMMA CreateInv ==
  ASSUME Inv, NEW h \in Handlers, Ready(h, "create"), NEW e \in Entries, e = work[h].item,
         NEW has \in BOOLEAN, Ends(h),
         entries[e] = "none",
         entries' = [entries EXCEPT ![e] = "PENDING_APPROVAL"],
         lines' = [lines EXCEPT ![e] = has],
         submits' = [submits EXCEPT ![e[1]] = @ + 1],
         UNCHANGED <<balance, period, posts, torn>>
  PROVE  Inv'
  <1>1. work[h].op = "create" /\ work[h].op \in Locking /\ work[h].op \notin Holders
    BY DEF Ready, Locking, Holders
  <1>2. e[1] \in Keys /\ e[2] = 0 /\ e = <<e[1], 0>>
    BY <1>1, HolderFacts
  <1>3. TypeOK
    BY DEF Inv
  <1>4. /\ entries' \in [Entries -> EntryStatus] /\ lines' \in [Entries -> BOOLEAN]
        /\ submits' \in [Keys -> Nat]
        /\ entries'[e] = "PENDING_APPROVAL"
        /\ \A d \in Entries : d # e => entries'[d] = entries[d] /\ lines'[d] = lines[d]
    BY <1>2, <1>3 DEF TypeOK, EntryStatus
  <1>5. Undisturbed(h)
    <2> SUFFICES ASSUME NEW g \in Handlers \ {h}
                 PROVE  /\ work[g].op = "approve" =>
                             /\ entries'[work[g].item] = entries[work[g].item]
                             /\ lines'[work[g].item] = lines[work[g].item]
                        /\ work[g].op = "void" =>
                             /\ entries'[work[g].item] = entries[work[g].item]
                             /\ entries'[Reversal(work[g].item)]
                                  = entries[Reversal(work[g].item)]
      BY DEF Undisturbed, Inv, TypeOK, Requests
    <2>1. Relies(work[g]) /\ (work[g].op \in Holders => work[g].item \in Entries)
      BY <1>1, HolderFacts DEF Inv
    <2>2. work[g].op \in Holders => work[g].item # e
      BY <2>1 DEF Relies, Holders
    <2>3. work[g].op = "void" =>
            Reversal(work[g].item) \in Entries /\ Reversal(work[g].item)[2] > 0
      BY <2>1, ReversalParts DEF Relies, Holders
    <2>4. work[g].op = "void" => Reversal(work[g].item) # e
      BY <1>2, <2>3
    <2> QED BY <1>4, <2>1, <2>2, <2>3, <2>4 DEF Holders
  <1>6. ReversalsStand'
    BY <1>2, <1>4 DEF Inv, ReversalsStand
  <1>7. VoidedIsReversed'
    <2> SUFFICES ASSUME NEW d \in Entries, entries'[d] = "VOIDED"
                 PROVE  d[2] < MaxReversals /\ entries'[Reversal(d)] \in {"POSTED", "VOIDED"}
      BY DEF VoidedIsReversed
    <2>1. d[2] < MaxReversals /\ entries[Reversal(d)] \in {"POSTED", "VOIDED"}
      BY <1>4 DEF Inv, VoidedIsReversed
    <2> QED BY <1>4, <2>1, ReversalParts
  <1>8. PostedHasLines'
    <2> SUFFICES ASSUME NEW k \in Keys, entries'[<<k, 0>>] \in {"POSTED", "VOIDED"}
                 PROVE  lines'[<<k, 0>>]
      BY DEF PostedHasLines
    <2>1. <<k, 0>> \in Entries /\ <<k, 0>> # e
      BY <1>4, EntryParts
    <2> QED BY <1>4, <2>1 DEF Inv, PostedHasLines
  <1>9. ApprovedAsSubmitted'
    <2> SUFFICES ASSUME NEW k \in Keys
                 PROVE  posts'[k] + (IF entries'[<<k, 0>>] = "PENDING_APPROVAL" THEN 1 ELSE 0)
                          <= submits'[k]
      BY DEF ApprovedAsSubmitted
    <2>1. posts[k] + (IF entries[<<k, 0>>] = "PENDING_APPROVAL" THEN 1 ELSE 0) <= submits[k]
      BY DEF Inv, ApprovedAsSubmitted
    <2>2. posts[k] \in Nat /\ submits[k] \in Nat
      BY <1>3 DEF TypeOK
    <2>3. CASE k = e[1]
      BY <1>2, <1>3, <2>1, <2>2, <2>3 DEF TypeOK
    <2>4. CASE k # e[1]
      <3>1. <<k, 0>> # e /\ <<k, 0>> \in Entries
        BY <1>2, <2>4, EntryParts
      <3>2. submits'[k] = submits[k]
        BY <1>2, <1>3, <2>4 DEF TypeOK
      <3> QED BY <1>4, <2>1, <2>2, <3>1, <3>2
    <2> QED BY <2>3, <2>4
  <1> QED BY <1>3, <1>4, <1>5, <1>6, <1>7, <1>8, <1>9, EndsParts, LeaveInv DEF TypeOK

LEMMA CommitCreateInv ==
  ASSUME Inv, NEW h \in Handlers, CommitCreate(h)
  PROVE  Inv'
  <1>1. work[h].op \in Locking /\ Ready(h, "create")
    BY DEF CommitCreate, Ready, Locking
  <1>2. work[h].item \in Entries
    BY <1>1, HolderFacts
  <1>3. CASE entries[work[h].item] = "none"
    BY <1>1, <1>2, <1>3, CreateInv DEF CommitCreate
  <1>4. CASE entries[work[h].item] # "none"
    BY <1>4, EndsInv DEF CommitCreate
  <1> QED BY <1>3, <1>4

LEMMA TearInv ==
  ASSUME Inv, NEW h \in Handlers, Tear(h)
  PROVE  Inv'
  <1>1. ASSUME NEW S \in SUBSET Accounts, TearPosting(h, S) PROVE Inv'
    <2>1. work[h].op \in Holders /\ S \in SUBSET work[h].got /\ balance' = Moved(h, S)
      BY <1>1 DEF TearPosting, Ready, Holders
    <2>2. /\ balance' \in [Accounts -> Int]
          /\ \A g \in Handlers \ {h} : \A a \in work[g].got : balance'[a] = balance[a]
      BY <2>1, MovedApart
    <2>3. torn' \in BOOLEAN /\ Ends(h) /\ UNCHANGED <<entries, lines, period, submits, posts>>
      BY <1>1 DEF TearPosting
    <2>4. Undisturbed(h)
      BY <2>2, <2>3 DEF Undisturbed
    <2>5. ReversalsStand' /\ VoidedIsReversed' /\ PostedHasLines' /\ ApprovedAsSubmitted'
      BY <2>3 DEF Inv, ReversalsStand, VoidedIsReversed, PostedHasLines, ApprovedAsSubmitted
    <2> QED BY <2>2, <2>3, <2>4, <2>5, EndsParts, LeaveInv DEF Inv, TypeOK
  <1>2. ASSUME NEW withLines \in BOOLEAN, TearVoid(h, withLines) PROVE Inv'
    <2> DEFINE e == work[h].item
    <2>1. work[h].op = "void" /\ work[h].op \in Locking
      BY <1>2 DEF TearVoid, Ready, Locking
    <2>2. e \in Entries /\ entries[e] = "POSTED"
      BY <2>1, HolderFacts DEF Inv, Relies
    <2>3. entries' = [entries EXCEPT ![e] = "POSTED", ![Reversal(e)] = "POSTED"]
      BY <1>2, <2>2 DEF TearVoid, ReversalStatus, Inv, TypeOK
    <2>4. /\ lines' = [lines EXCEPT ![Reversal(e)] = withLines]
          /\ balance' = Moved(h, Touches(e)) /\ Ends(h) /\ Ready(h, "void")
          /\ UNCHANGED <<period, submits, posts>> /\ torn' \in BOOLEAN
      BY <1>2 DEF TearVoid
    <2> HIDE DEF e
    <2> QED BY <2>2, <2>3, <2>4, VoidInv DEF e
  <1>3. ASSUME TearCreate(h) PROVE Inv'
    <2>1. work[h].op \in Locking /\ Ready(h, "create")
      BY <1>3 DEF TearCreate, Ready, Locking
    <2>2. work[h].item \in Entries
      BY <2>1, HolderFacts
    <2>3. lines' = [lines EXCEPT ![work[h].item] = lines[work[h].item]]
          /\ lines[work[h].item] \in BOOLEAN
      BY <1>3, <2>2 DEF TearCreate, Inv, TypeOK
    <2> QED BY <1>3, <2>1, <2>2, <2>3, CreateInv DEF TearCreate
  <1> QED BY <1>1, <1>2, <1>3 DEF Tear

-----------------------------------------------------------------------------
\* A save that gives an entry the status `to`, or removes it.
LEMMA StatusInv ==
  ASSUME Inv, NEW h \in Handlers, work[h].op \in Declining, ~EntryHeld(work[h].item),
         NEW to \in {"none", "DRAFT", "PENDING_APPROVAL"},
         entries' = [entries EXCEPT ![work[h].item] = to],
         lines' = lines \/ lines' = [lines EXCEPT ![work[h].item] = FALSE],
         work' \in [Handlers -> Requests], work'[h] = Idle,
         \A g \in Handlers : work'[g] = work[g] \/ work'[g] = Idle,
         submits' = IF to = "PENDING_APPROVAL"
                      THEN [submits EXCEPT ![work[h].item[1]] = @ + 1] ELSE submits,
         UNCHANGED <<balance, period, posts, torn>>
  PROVE  Inv'
  <1> DEFINE e == work[h].item
  <1>1. work[h].op \notin Holders
    BY DEF Declining, Holders
  <1>2. e \in Entries /\ e[1] \in Keys /\ e[2] = 0 /\ e = <<e[1], 0>>
    BY <1>1, HolderFacts
  <1>3. TypeOK
    BY DEF Inv
  <1>4. /\ entries' \in [Entries -> EntryStatus] /\ lines' \in [Entries -> BOOLEAN]
        /\ submits' \in [Keys -> Nat]
        /\ entries'[e] = to
        /\ \A d \in Entries : d # e => entries'[d] = entries[d] /\ lines'[d] = lines[d]
    <2>1. /\ entries \in [Entries -> EntryStatus] /\ lines \in [Entries -> BOOLEAN]
          /\ submits \in [Keys -> Nat] /\ to \in EntryStatus
      BY <1>3 DEF TypeOK, EntryStatus, Declined
    <2>2. /\ entries' \in [Entries -> EntryStatus] /\ entries'[e] = to
          /\ \A d \in Entries : d # e => entries'[d] = entries[d]
      BY <1>2, <2>1
    <2>3. lines' \in [Entries -> BOOLEAN] /\ \A d \in Entries : d # e => lines'[d] = lines[d]
      BY <1>2, <2>1
    <2>4. submits' \in [Keys -> Nat]
      BY <1>2, <2>1
    <2> QED BY <2>2, <2>3, <2>4
  <1>5. Undisturbed(h)
    <2> SUFFICES ASSUME NEW g \in Handlers \ {h}
                 PROVE  /\ work[g].op = "approve" =>
                             /\ entries'[work[g].item] = entries[work[g].item]
                             /\ lines'[work[g].item] = lines[work[g].item]
                        /\ work[g].op = "void" =>
                             /\ entries'[work[g].item] = entries[work[g].item]
                             /\ entries'[Reversal(work[g].item)]
                                  = entries[Reversal(work[g].item)]
      BY DEF Undisturbed, Inv, TypeOK, Requests
    <2>1. Relies(work[g]) /\ (work[g].op \in Holders => work[g].item \in Entries)
      BY HolderFacts DEF Inv
    <2>2. work[g].op \in Holders => work[g].item # e
      BY DEF EntryHeld, Holders
    <2>3. work[g].op = "void" =>
            Reversal(work[g].item) \in Entries /\ Reversal(work[g].item)[2] > 0
      BY <2>1, ReversalParts DEF Relies, Holders
    <2>4. work[g].op = "void" => Reversal(work[g].item) # e
      BY <1>2, <2>3
    <2> QED BY <1>4, <2>1, <2>2, <2>3, <2>4 DEF Holders
  <1>6. ReversalsStand'
    BY <1>2, <1>4 DEF Inv, ReversalsStand
  <1>7. VoidedIsReversed'
    <2> SUFFICES ASSUME NEW d \in Entries, entries'[d] = "VOIDED"
                 PROVE  d[2] < MaxReversals /\ entries'[Reversal(d)] \in {"POSTED", "VOIDED"}
      BY DEF VoidedIsReversed
    <2>1. d[2] < MaxReversals /\ entries[Reversal(d)] \in {"POSTED", "VOIDED"}
      BY <1>4 DEF Inv, VoidedIsReversed
    <2>2. Reversal(d) \in Entries /\ Reversal(d)[2] > 0
      BY <2>1, ReversalParts
    <2>3. Reversal(d) # e
      BY <1>2, <2>2
    <2> QED BY <1>4, <2>1, <2>2, <2>3
  <1>8. PostedHasLines'
    <2> SUFFICES ASSUME NEW k \in Keys, entries'[<<k, 0>>] \in {"POSTED", "VOIDED"}
                 PROVE  lines'[<<k, 0>>]
      BY DEF PostedHasLines
    <2>1. <<k, 0>> \in Entries /\ <<k, 0>> # e
      BY <1>4, EntryParts
    <2> QED BY <1>4, <2>1 DEF Inv, PostedHasLines
  <1>9. ApprovedAsSubmitted'
    <2> SUFFICES ASSUME NEW k \in Keys
                 PROVE  posts'[k] + (IF entries'[<<k, 0>>] = "PENDING_APPROVAL" THEN 1 ELSE 0)
                          <= submits'[k]
      BY DEF ApprovedAsSubmitted
    <2>1. posts[k] + (IF entries[<<k, 0>>] = "PENDING_APPROVAL" THEN 1 ELSE 0) <= submits[k]
      BY DEF Inv, ApprovedAsSubmitted
    <2>2. posts[k] \in Nat /\ submits[k] \in Nat
      BY <1>3 DEF TypeOK
    <2>3. CASE k = e[1]
      <3>1. submits'[k] = IF to = "PENDING_APPROVAL" THEN submits[k] + 1 ELSE submits[k]
        BY <1>2, <1>3, <2>3 DEF TypeOK
      <3> QED BY <1>2, <1>4, <2>1, <2>2, <2>3, <3>1
    <2>4. CASE k # e[1]
      <3>1. <<k, 0>> # e /\ <<k, 0>> \in Entries
        BY <1>2, <2>4, EntryParts
      <3>2. submits'[k] = submits[k]
        BY <1>2, <1>3, <2>4 DEF TypeOK
      <3> QED BY <1>4, <2>1, <2>2, <3>1, <3>2
    <2> QED BY <2>3, <2>4
  <1> QED BY <1>3, <1>4, <1>5, <1>6, <1>7, <1>8, <1>9, LeaveInv DEF TypeOK

LEMMA SaveInv ==
  ASSUME Inv, NEW h \in Handlers, Save(h)
  PROVE  Inv'
  <1>1. CASE SaveReject(h)
    <2>1. work[h].op \in Declining /\ ~EntryHeld(work[h].item) /\ Ends(h)
      BY <1>1 DEF SaveReject, Declining
    <2> QED BY <1>1, <2>1, EndsParts, StatusInv DEF SaveReject, Declined
  <1>2. CASE SaveResubmit(h)
    <2>1. work[h].op \in Declining /\ ~EntryHeld(work[h].item) /\ Ends(h)
      BY <1>2 DEF SaveResubmit, Declining
    <2> QED BY <1>2, <2>1, EndsParts, StatusInv DEF SaveResubmit
  <1>3. CASE SaveDelete(h)
    <2>1. work[h].op \in Declining /\ ~EntryHeld(work[h].item)
      BY <1>3 DEF SaveDelete, Declining
    <2>2. Idle \in Requests
      BY DEF Idle, Zero, Requests
    <2>3. /\ work' \in [Handlers -> Requests] /\ work'[h] = Idle
          /\ \A g \in Handlers : work'[g] = work[g] \/ work'[g] = Idle
      BY <1>3, <2>1, <2>2 DEF SaveDelete, Inv, TypeOK
    <2> QED BY <1>3, <2>1, <2>3, StatusInv DEF SaveDelete
  <1>4. CASE SaveEdit(h)
    <2> DEFINE a == work[h].item
    <2>1. a \in Accounts /\ work[h].seen[a] \in Int
      <3>1. a \in Edited
        BY <1>4 DEF SaveEdit, Inv, Kind
      <3> QED BY <3>1, JournalAssumption DEF Inv, TypeOK, Requests
    <2>2. balance' \in [Accounts -> Int] /\ \A b \in Accounts : b # a => balance'[b] = balance[b]
      BY <1>4, <2>1 DEF SaveEdit, Inv, TypeOK
    <2>3. \A g \in Handlers : \A b \in work[g].got : b \in Accounts /\ b # a
      BY <1>4 DEF SaveEdit, AccountHeld, Inv, TypeOK, Requests
    <2>4. Ends(h) /\ UNCHANGED <<entries, lines, period, submits, posts, torn>>
      BY <1>4 DEF SaveEdit
    <2>5. Undisturbed(h)
      BY <2>2, <2>3, <2>4 DEF Undisturbed
    <2>6. ReversalsStand' /\ VoidedIsReversed' /\ PostedHasLines' /\ ApprovedAsSubmitted'
      BY <2>4 DEF Inv, ReversalsStand, VoidedIsReversed, PostedHasLines, ApprovedAsSubmitted
    <2> QED BY <2>2, <2>4, <2>5, <2>6, EndsParts, LeaveInv DEF Inv, TypeOK
  <1> QED BY <1>1, <1>2, <1>3, <1>4 DEF Save

LEMMA NextInv == Inv /\ [Next]_vars => Inv'
  <1> SUFFICES ASSUME Inv, [Next]_vars PROVE Inv'
    OBVIOUS
  <1>1. ASSUME UNCHANGED <<entries, lines, balance, work, submits, posts, torn>>,
               period' \in {"OPEN", "CLOSED"}
        PROVE  Inv'
    BY <1>1 DEF Inv, TypeOK, Kind, Relies, Fresh, Apart, ReversalsStand,
                VoidedIsReversed, PostedHasLines, ApprovedAsSubmitted
  <1>2. CASE UNCHANGED vars \/ ClosePeriod \/ ReopenPeriod
    BY <1>1, <1>2 DEF vars, ClosePeriod, ReopenPeriod, Inv, TypeOK
  <1>3. ASSUME NEW h \in Handlers,
               \/ Start(h)
               \/ \E a \in Accounts : LockAccount(h, a)
               \/ Finish(h) \/ Save(h) \/ Victim(h) \/ HangUp(h) \/ Tear(h)
        PROVE  Inv'
    <2>1. CASE Victim(h) \/ HangUp(h) \/ Refused(h)
      BY <2>1, EndsInv DEF Victim, HangUp, Refused
    <2>2. CASE CommitCreate(h) \/ CommitApprove(h) \/ CommitVoid(h)
      BY <2>2, CommitCreateInv, CommitApproveInv, CommitVoidInv
    <2> QED BY <1>3, <2>1, <2>2, StartInv, LockInv, SaveInv, TearInv DEF Finish
  <1> QED BY <1>2, <1>3 DEF Next

\* Everything above holds of every state.
LEMMA InvHolds == Spec => []Inv
  <1> QED BY InitInv, NextInv, PTL DEF Spec

\* The variables have their types.
THEOREM TypesHold == Spec => []TypeOK
  <1>1. Inv => TypeOK
    BY DEF Inv
  <1> QED BY <1>1, InvHolds, PTL

\* However often an entry is declined and sent back, by however many people at
\* once, each approval answers a submission of its own.
THEOREM ApprovalsHold == Spec => []ApprovedAsSubmitted
  <1>1. Inv => ApprovedAsSubmitted
    BY DEF Inv
  <1> QED BY <1>1, InvHolds, PTL

\* A voided entry has its reversal.
THEOREM ReversalsHold == Spec => []VoidedIsReversed
  <1>1. Inv => VoidedIsReversed
    BY DEF Inv
  <1> QED BY <1>1, InvHolds, PTL

\* What is posted has its lines.
THEOREM LinesHold == Spec => []PostedHasLines
  <1>1. Inv => PostedHasLines
    BY DEF Inv
  <1> QED BY <1>1, InvHolds, PTL

-----------------------------------------------------------------------------
Posting(e) == entries[e] = "PENDING_APPROVAL" /\ entries'[e] = "POSTED"
Voiding(e) == entries[e] = "POSTED" /\ entries'[e] = "VOIDED"

\* What a step owes account a.
MovesOf(a) ==
  /\ \A e \in Entries : Posting(e) => balance'[a] = balance[a] + Effect(e, a)
  /\ \A e \in Entries : Voiding(e) => balance'[a] = balance[a] - Effect(e, a)
  /\ torn' = torn /\ balance'[a] # balance[a]
       => \E e \in Entries : Posting(e) \/ Voiding(e)

\* A step that posts and voids nothing may leave the account as it is, or be torn.
LEMMA QuietMoves ==
  ASSUME NEW a \in Accounts,
         balance'[a] = balance[a] \/ torn' # torn,
         \A e \in Entries :
           \/ entries'[e] \in {entries[e], "none", "DRAFT", "PENDING_APPROVAL"}
           \/ entries[e] = "none"
  PROVE  MovesOf(a)
  <1>1. \A e \in Entries : ~Posting(e) /\ ~Voiding(e)
    BY DEF Posting, Voiding
  <1> QED BY <1>1 DEF MovesOf

LEMMA ApproveMoves ==
  ASSUME Inv, NEW a \in Accounts, NEW h \in Handlers, CommitApprove(h)
  PROVE  MovesOf(a)
  <1> DEFINE e == work[h].item
  <1>1. /\ work[h].op = "approve" /\ work[h].op \in Holders /\ work[h].op \in Locking
        /\ work[h].got = Touches(e) /\ balance' = Moved(h, work[h].got)
        /\ entries' = [entries EXCEPT ![e] = "POSTED"]
    BY DEF CommitApprove, Ready, Holders, Locking
  <1>2. e \in Entries /\ entries[e] = "PENDING_APPROVAL"
    BY <1>1, HolderFacts DEF Inv, Relies
  <1>3. /\ entries \in [Entries -> EntryStatus] /\ balance[a] \in Int
        /\ \A d \in Entries : d # e => entries'[d] = entries[d]
    BY <1>1 DEF Inv, TypeOK
  <1>4. balance'[a] = balance[a] + Effect(e, a)
    <2>1. a \notin Touches(e) => Effect(e, a) = 0
      BY <1>2, EffectType
    <2>2. balance'[a] = IF a \notin work[h].got THEN balance[a] ELSE balance[a] + Effect(e, a)
      BY <1>1, MovedUnderLock
    <2> QED BY <1>1, <1>3, <2>1, <2>2
  <1>5. entries'[e] = "POSTED"
    BY <1>1, <1>2, <1>3
  <1>6. \A d \in Entries : Posting(d) => d = e
    BY <1>3 DEF Posting
  <1>7. \A d \in Entries : ~Voiding(d)
    BY <1>3, <1>5 DEF Voiding
  <1>8. Posting(e)
    BY <1>2, <1>5 DEF Posting
  <1> HIDE DEF e
  <1> QED BY <1>2, <1>4, <1>6, <1>7, <1>8 DEF MovesOf

LEMMA VoidMoves ==
  ASSUME Inv, NEW a \in Accounts, NEW h \in Handlers, CommitVoid(h)
  PROVE  MovesOf(a)
  <1> DEFINE e == work[h].item
             r == Reversal(e)
  <1>1. /\ work[h].op = "void" /\ work[h].op \in Holders /\ work[h].op \in Locking
        /\ work[h].got = Touches(e) /\ balance' = Moved(h, work[h].got)
        /\ entries' = [entries EXCEPT ![e] = "VOIDED", ![r] = "POSTED"]
    BY DEF CommitVoid, ReversalStatus, Ready, Holders, Locking
  <1>2. /\ e \in Entries /\ entries[e] = "POSTED" /\ entries[r] = "none"
        /\ e[2] < MaxReversals
    BY <1>1, HolderFacts DEF Inv, Relies
  <1>3. r \in Entries /\ r # e
    BY <1>2, ReversalParts
  <1>4. /\ entries \in [Entries -> EntryStatus] /\ balance[a] \in Int
    BY DEF Inv, TypeOK
  <1>5. balance'[a] = balance[a] - Effect(e, a)
    <2>1. a \notin Touches(e) => Effect(e, a) = 0
      BY <1>2, EffectType
    <2>2. balance'[a] = IF a \notin work[h].got THEN balance[a] ELSE balance[a] - Effect(e, a)
      BY <1>1, MovedUnderLock
    <2> QED BY <1>1, <1>4, <2>1, <2>2
  <1> HIDE DEF r, e
  <1>6. /\ \A d \in Entries : d # e /\ d # r => entries'[d] = entries[d]
        /\ entries'[e] = "VOIDED" /\ entries'[r] = "POSTED"
    BY <1>1, <1>2, <1>3, <1>4
  <1>7. \A d \in Entries : Voiding(d) => d = e
    BY <1>2, <1>6 DEF Voiding
  <1>8. \A d \in Entries : ~Posting(d)
    BY <1>2, <1>6 DEF Posting
  <1>9. Voiding(e)
    BY <1>2, <1>6 DEF Voiding
  <1> QED BY <1>2, <1>5, <1>7, <1>8, <1>9 DEF MovesOf

LEMMA SaveMoves ==
  ASSUME Inv, NEW a \in Accounts \ Edited, NEW h \in Handlers, Save(h)
  PROVE  MovesOf(a)
  <1>1. CASE SaveReject(h) \/ SaveResubmit(h) \/ SaveDelete(h)
    <2>1. PICK to \in {"none", "DRAFT", "PENDING_APPROVAL"} :
            entries' = [entries EXCEPT ![work[h].item] = to]
      BY <1>1 DEF SaveReject, SaveResubmit, SaveDelete, Declined
    <2>2. \A e \in Entries : entries'[e] \in {entries[e], to}
      BY <2>1 DEF Inv, TypeOK
    <2>3. balance' = balance
      BY <1>1 DEF SaveReject, SaveResubmit, SaveDelete
    <2> QED BY <2>2, <2>3, QuietMoves
  <1>2. CASE SaveEdit(h)
    <2>1. work[h].item \in Edited
      BY <1>2 DEF SaveEdit, Inv, Kind
    <2>2. balance'[a] = balance[a] /\ entries' = entries
      BY <1>2, <2>1 DEF SaveEdit, Inv, TypeOK
    <2> QED BY <2>2, QuietMoves
  <1> QED BY <1>1, <1>2 DEF Save

LEMMA TearMoves ==
  ASSUME Inv, NEW a \in Accounts, NEW h \in Handlers, Tear(h)
  PROVE  MovesOf(a)
  <1>1. ASSUME NEW S \in SUBSET Accounts, TearPosting(h, S) PROVE MovesOf(a)
    BY <1>1, QuietMoves DEF TearPosting
  <1>2. ASSUME NEW withLines \in BOOLEAN, TearVoid(h, withLines) PROVE MovesOf(a)
    <2>1. /\ torn' # torn
          /\ entries' = [entries EXCEPT ![Reversal(work[h].item)] = ReversalStatus]
      BY <1>2 DEF TearVoid
    <2>2. entries[Reversal(work[h].item)] = "none"
      BY <1>2 DEF TearVoid, Ready, Inv, Relies
    <2>3. \A e \in Entries : entries'[e] = entries[e] \/ entries[e] = "none"
      BY <2>1, <2>2 DEF Inv, TypeOK
    <2> QED BY <2>1, <2>3, QuietMoves
  <1>3. ASSUME TearCreate(h) PROVE MovesOf(a)
    <2>1. /\ balance' = balance
          /\ entries' = [entries EXCEPT ![work[h].item] = "PENDING_APPROVAL"]
      BY <1>3 DEF TearCreate
    <2>2. \A e \in Entries : entries'[e] \in {entries[e], "PENDING_APPROVAL"}
      BY <2>1 DEF Inv, TypeOK
    <2> QED BY <2>1, <2>2, QuietMoves
  <1> QED BY <1>1, <1>2, <1>3 DEF Tear

LEMMA FinishMoves ==
  ASSUME Inv, NEW a \in Accounts, NEW h \in Handlers, Finish(h)
  PROVE  MovesOf(a)
  <1>1. CASE CommitCreate(h)
    <2>1. /\ balance' = balance
          /\ \/ entries' = entries
             \/ entries' = [entries EXCEPT ![work[h].item] = "PENDING_APPROVAL"]
      BY <1>1 DEF CommitCreate
    <2>2. \A e \in Entries : entries'[e] \in {entries[e], "PENDING_APPROVAL"}
      BY <2>1 DEF Inv, TypeOK
    <2> QED BY <2>1, <2>2, QuietMoves
  <1>2. CASE Refused(h)
    BY <1>2, QuietMoves DEF Refused
  <1> QED BY <1>1, <1>2, ApproveMoves, VoidMoves DEF Finish

LEMMA MovesStep ==
  ASSUME Inv, [Next]_vars
  PROVE  MovesWithEntries(Accounts \ Edited)
  <1> SUFFICES ASSUME NEW a \in Accounts \ Edited PROVE MovesOf(a)
    BY DEF MovesWithEntries, MovesOf, Posting, Voiding
  <1>1. CASE UNCHANGED vars \/ ClosePeriod \/ ReopenPeriod
    BY <1>1, QuietMoves DEF vars, ClosePeriod, ReopenPeriod
  <1>2. ASSUME NEW h \in Handlers,
               \/ Start(h) \/ Victim(h) \/ HangUp(h)
               \/ \E b \in Accounts : LockAccount(h, b)
        PROVE  MovesOf(a)
    <2>1. UNCHANGED <<entries, balance>>
      BY <1>2 DEF Start, StartCreate, StartApprove, StartVoid, StartReject, StartResubmit,
                  StartDelete, StartEdit, Victim, HangUp, LockAccount
    <2> QED BY <2>1, QuietMoves
  <1> QED BY <1>1, <1>2, SaveMoves, TearMoves, FinishMoves DEF Next

\* Between two commits an account that nobody edits moves by the lines of the
\* entry posted or voided there: no posting is lost and none counts twice.
THEOREM PostingsHold == Spec => NoPostingLost
  <1>1. Inv /\ [Next]_vars => [MovesWithEntries(Accounts \ Edited)]_vars
    BY MovesStep
  <1> QED BY <1>1, InvHolds, PTL DEF Spec, NoPostingLost
=============================================================================
