--------------------------- MODULE GivingProofs ----------------------------
(* For every set of gifts, claims, pledges, vendors and handlers: a gift is  *)
(* recorded at most once, however the webhooks are repeated and whatever is  *)
(* rolled back, and a pledge that completed by itself was paid, whatever was *)
(* reviewed, credited or declined meanwhile.                                 *)
EXTENDS Giving, FiniteSetTheorems, TLAPS

\* The handlers that owe a gift its record, and those that review a claim.
Crediting == {"credit", "credited", "credits"}
Reviewing == {"review", "reviewed", "reviews", "decline"}

\* What a handler works on.
Held(w) ==
  /\ w.op \in Crediting => w.item \in Gifts
  /\ w.op \in Reviewing => w.item \in Claims
  /\ w.op = "status" => w.item \in Pledges

Typed == TypeOK /\ \A h \in Handlers : Held(work[h])

LEMMA TypedInit == Init => Typed
  BY DEF Init, Typed, TypeOK, Session, ClaimStatus, Held, Idle, Work,
         PledgeStatus, Crediting, Reviewing

LEMMA IdleType == Idle \in Work /\ Held(Idle)
  BY DEF Idle, Work, PledgeStatus, Held, Crediting, Reviewing

\* A handler that takes up, or goes on with, something of the right kind.
LEMMA AssignTyped ==
  ASSUME Typed, NEW h \in Handlers, NEW w \in Work, Held(w),
         work' = [work EXCEPT ![h] = w]
  PROVE  work' \in [Handlers -> Work] /\ \A k \in Handlers : Held(work'[k])
  BY DEF Typed, TypeOK

LEMMA StartTyped ==
  ASSUME Typed, NEW h \in Handlers, Start(h)
  PROVE  Typed'
  <1>1. PICK w \in Work : Held(w) /\ work' = [work EXCEPT ![h] = w]
    <2>1. ASSUME NEW c \in Claims, ReviewRead(h, c)
          PROVE  \E w \in Work : Held(w) /\ work' = [work EXCEPT ![h] = w]
      <3>1. PICK op \in {"review", "decline"} : Assign(h, op, c, "ACTIVE")
        BY <2>1 DEF ReviewRead
      <3> DEFINE w == [op |-> op, item |-> c, to |-> "ACTIVE"]
      <3>2. w \in Work /\ Held(w)
        BY DEF Work, Held, Crediting, Reviewing, PledgeStatus, Payments
      <3> QED BY <3>1, <3>2 DEF Assign
    <2>2. ASSUME NEW p \in Pledges, StatusRead(h, p)
          PROVE  \E w \in Work : Held(w) /\ work' = [work EXCEPT ![h] = w]
      <3>1. PICK to \in PledgeStatus : Assign(h, "status", p, to)
        BY <2>2 DEF StatusRead
      <3> DEFINE w == [op |-> "status", item |-> p, to |-> to]
      <3>2. w \in Work /\ Held(w)
        BY DEF Work, Held, Crediting, Reviewing
      <3> QED BY <3>1, <3>2 DEF Assign
    <2> QED BY <2>1, <2>2 DEF Start
  <1>2. UNCHANGED <<catalog, config, sessions, vendor, records, claims, pledges,
                    counted, closed, dropped>>
    BY DEF Start, ReviewRead, StatusRead
  <1> QED BY <1>1, <1>2, AssignTyped DEF Typed, TypeOK

\* The step of a review or a credit that only moves its handler on.
LEMMA MoveTyped ==
  ASSUME Typed, NEW h \in Handlers, NEW op, NEW to \in PledgeStatus,
         \/ op \in Crediting /\ work[h].op \in Crediting
         \/ op \in {"reviewed", "reviews"} /\ work[h].op \in Reviewing,
         Assign(h, op, work[h].item, to),
         UNCHANGED <<catalog, config, sessions, vendor, records, claims, pledges,
                     counted, closed, dropped>>
  PROVE  Typed'
  <1> DEFINE w == [op |-> op, item |-> work[h].item, to |-> to]
  <1>1. work[h] \in Work /\ Held(work[h])
    BY DEF Typed, TypeOK
  <1>2. w \in Work /\ Held(w)
    BY <1>1 DEF Work, Held, Crediting, Reviewing
  <1> QED BY <1>2, AssignTyped DEF Assign, Typed, TypeOK

LEMMA ContinueTyped ==
  ASSUME Typed, NEW h \in Handlers, Continue(h)
  PROVE  Typed'
  <1>0. work[h] \in Work /\ Held(work[h])
    BY DEF Typed, TypeOK
  <1>1. CASE CreditPledge(h) \/ ReviewWrite(h) \/ AddUp(h)
    <2>1. CASE CreditPledge(h)
      BY <2>1, MoveTyped DEF CreditPledge, WriteThenLook, Crediting, PledgeStatus
    <2>2. CASE ReviewWrite(h)
      BY <2>2, MoveTyped DEF ReviewWrite, WriteThenLook, Reviewing, PledgeStatus
    <2>3. CASE AddUp(h)
      BY <2>3, MoveTyped DEF AddUp, Crediting, Reviewing, PledgeStatus
    <2> QED BY <1>1, <2>1, <2>2, <2>3
  <1>2. ASSUME work' = [work EXCEPT ![h] = Idle]
        PROVE  work' \in [Handlers -> Work] /\ \A k \in Handlers : Held(work'[k])
    BY <1>2, IdleType, AssignTyped
  <1>3. CASE CreditTithe(h)
    BY <1>0, <1>2, <1>3 DEF CreditTithe, Typed, TypeOK, Held, Crediting, Payments
  <1>4. CASE CreditCommit(h) \/ ReviewCommit(h)
    <2>1. work[h].item \in Payments /\ Commit(h)
      BY <1>0, <1>4 DEF CreditCommit, ReviewCommit, Held, Crediting, Reviewing, Payments
    <2>2. pledges' \in [Pledges -> PledgeStatus]
      BY <2>1 DEF Commit, Typed, TypeOK, PledgeStatus
    <2>3. counted' \in SUBSET Payments
      BY <2>1 DEF Commit, Typed, TypeOK
    <2>4. work' = [work EXCEPT ![h] = Idle]
      BY <2>1 DEF Commit
    <2>5. records' \in [Gifts -> Nat]
      BY <1>4 DEF CreditCommit, ReviewCommit, Typed, TypeOK
    <2>6. claims' \in [Claims -> {"none", "PENDING", "CONFIRMED", "DECLINED"}]
      BY <1>4 DEF CreditCommit, ReviewCommit, Typed, TypeOK, ClaimStatus
    <2>7. UNCHANGED <<catalog, config, sessions, vendor, closed, dropped>>
      BY <1>4 DEF CreditCommit, ReviewCommit
    <2> QED BY <1>2, <2>2, <2>3, <2>4, <2>5, <2>6, <2>7 DEF Typed, TypeOK, ClaimStatus
  <1>6. CASE Decline(h)
    BY <1>0, <1>2, <1>6 DEF Decline, Typed, TypeOK, ClaimStatus
  <1>7. CASE StatusSave(h)
    BY <1>0, <1>2, <1>7 DEF StatusSave, Typed, TypeOK, Held, Work
  <1> QED BY <1>1, <1>3, <1>4, <1>6, <1>7 DEF Continue

LEMMA AbortTyped ==
  ASSUME Typed, NEW h \in Handlers, Abort(h)
  PROVE  Typed'
  <1>1. work' \in [Handlers -> Work] /\ \A k \in Handlers : Held(work'[k])
    BY IdleType, AssignTyped DEF Abort
  <1>2. dropped' \in SUBSET Gifts
    BY DEF Abort, Typed, TypeOK, Held, Crediting
  <1> QED BY <1>1, <1>2 DEF Abort, Typed, TypeOK

LEMMA PaidTyped ==
  ASSUME Typed, NEW g \in Gifts, NEW h \in Handlers, WebhookPaid(h, g)
  PROVE  Typed'
  <1> DEFINE w == [op |-> "credit", item |-> g, to |-> "ACTIVE"]
  <1>1. w \in Work /\ Held(w)
    BY DEF Work, Held, Crediting, Reviewing, PledgeStatus, Payments
  <1>2. work' \in [Handlers -> Work] /\ \A k \in Handlers : Held(work'[k])
    BY <1>1, AssignTyped DEF WebhookPaid, Assign
  <1> QED BY <1>2 DEF WebhookPaid, Typed, TypeOK, Session

LEMMA TypedNext == Typed /\ [Next]_vars => Typed'
  <1> SUFFICES ASSUME Typed, [Next]_vars PROVE Typed'
    OBVIOUS
  <1>1. CASE UNCHANGED vars
    BY <1>1 DEF vars, Typed, TypeOK
  <1>2. ASSUME NEW p \in Providers, SwitchProvider(p) \/ SwitchPlatform(p)
        PROVE  Typed'
    BY <1>2 DEF SwitchProvider, SwitchPlatform, Typed, TypeOK
  <1>3. ASSUME NEW g \in Gifts, NEW p \in Providers,
               NEW to \in Pledges \cup {General}, StartGift(g, p, to)
        PROVE  Typed'
    BY <1>3 DEF StartGift, Typed, TypeOK, Session
  <1>4. ASSUME NEW g \in Gifts, NEW event \in {"paid", "declined"},
               MemberPays(g, event)
        PROVE  Typed'
    BY <1>4 DEF MemberPays, Typed, TypeOK
  <1>5. ASSUME NEW g \in Gifts, WebhookFailed(g)
        PROVE  Typed'
    BY <1>5 DEF WebhookFailed, Failed, Typed, TypeOK, Session
  <1>6. ASSUME NEW c \in Claims, Submit(c)
        PROVE  Typed'
    BY <1>6 DEF Submit, Typed, TypeOK, ClaimStatus
  <1> QED BY <1>1, <1>2, <1>3, <1>4, <1>5, <1>6, PaidTyped, StartTyped,
             ContinueTyped, AbortTyped DEF Next, Deliver

LEMMA TypedAlways == Spec => []Typed
  BY TypedInit, TypedNext, PTL DEF Spec

\* Every variable of giving keeps its type, and what the histories name are
\* payments, pledges and gifts.
THEOREM TypeCorrect == Spec => []TypeOK
  BY TypedAlways, PTL DEF Typed

-----------------------------------------------------------------------------
\* A handler that owes a gift its record is the only one that does: the session
\* it locked was pending, is completed now, and nothing was recorded for it.
Owed ==
  /\ \A h \in Handlers : work[h].op \in Crediting =>
       /\ sessions[work[h].item].status = "completed"
       /\ records[work[h].item] = 0
  /\ \A h, k \in Handlers :
       work[h].op \in Crediting /\ work[k].op \in Crediting =>
         h = k \/ work[h].item # work[k].item

\* A session nobody completed has no record.
Books == RecordedOnce /\ Owed

LEMMA BooksInit == Init => Books
  BY DEF Init, Books, RecordedOnce, Owed, Idle, Crediting

\* A step that leaves the sessions and the books alone and gives no handler a
\* gift it did not have.
LEMMA BooksKept ==
  ASSUME Books, UNCHANGED <<sessions, records>>,
         \A h \in Handlers : work'[h].op \in Crediting =>
           work[h].op \in Crediting /\ work'[h].item = work[h].item
  PROVE  Books'
  BY DEF Books, RecordedOnce, Owed

LEMMA BooksSessions ==
  ASSUME Typed, Books, NEW g \in Gifts,
         \/ \E p \in Providers, to \in Pledges \cup {General} : StartGift(g, p, to)
         \/ WebhookFailed(g)
  PROVE  Books'
  <1>1. /\ sessions[g].status # "completed"
        /\ sessions'[g].status # "completed"
        /\ \A f \in Gifts \ {g} : sessions'[f] = sessions[f]
        /\ UNCHANGED <<work, records>>
    BY DEF StartGift, WebhookFailed, Failed, Typed, TypeOK, Session
  <1>2. \A h \in Handlers : work[h].op \in Crediting => work[h].item \in Gifts \ {g}
    BY <1>1 DEF Books, Owed, Typed, Held
  <1> QED BY <1>1, <1>2 DEF Books, RecordedOnce, Owed

LEMMA BooksPaid ==
  ASSUME Typed, Books, NEW g \in Gifts, NEW h \in Handlers, WebhookPaid(h, g)
  PROVE  Books'
  <1>1. /\ sessions[g].status = "pending" /\ sessions'[g].status = "completed"
        /\ \A f \in Gifts \ {g} : sessions'[f] = sessions[f]
        /\ work'[h].op = "credit" /\ work'[h].item = g
        /\ \A k \in Handlers \ {h} : work'[k] = work[k]
        /\ UNCHANGED records
    BY DEF WebhookPaid, Creditable, Assign, Typed, TypeOK
  <1>2. records[g] = 0
    <2>1. records[g] \in Nat
      BY DEF Typed, TypeOK
    <2>2. records[g] <= 1 /\ records[g] # 1
      BY <1>1 DEF Books, RecordedOnce
    <2> QED BY <2>1, <2>2
  <1>3. \A k \in Handlers : work[k].op \in Crediting => work[k].item \in Gifts \ {g}
    BY <1>1 DEF Books, Owed, Typed, Held
  <1>4. RecordedOnce'
    BY <1>1, <1>2 DEF Books, RecordedOnce
  <1>5. Owed'
    BY <1>1, <1>2, <1>3 DEF Books, Owed
  <1> QED BY <1>4, <1>5 DEF Books

LEMMA BooksCredit ==
  ASSUME Typed, Books, NEW h \in Handlers, CreditTithe(h) \/ CreditCommit(h)
  PROVE  Books'
  <1> DEFINE g == work[h].item
  <1>1. /\ work[h].op \in Crediting /\ g \in Gifts
        /\ records' = [records EXCEPT ![g] = @ + 1]
        /\ work' = [work EXCEPT ![h] = Idle]
        /\ UNCHANGED sessions
    BY DEF CreditTithe, CreditCommit, Commit, Crediting, Typed, Held
  <1>2. /\ records \in [Gifts -> Nat] /\ work \in [Handlers -> Work]
        /\ records[g] = 0 /\ sessions[g].status = "completed"
    BY <1>1 DEF Books, Owed, Typed, TypeOK
  <1>3. RecordedOnce'
    BY <1>1, <1>2 DEF Books, RecordedOnce
  <1>4. \A k \in Handlers : work'[k].op \in Crediting =>
          k # h /\ work'[k] = work[k] /\ work[k].item # g /\ work[k].item \in Gifts
    BY <1>1, <1>2 DEF Books, Owed, Idle, Crediting, Typed, Held
  <1>5. Owed'
    BY <1>1, <1>2, <1>4 DEF Books, Owed
  <1> QED BY <1>3, <1>5 DEF Books

LEMMA BooksNext == Typed /\ Books /\ [Next]_vars => Books'
  <1> SUFFICES ASSUME Typed, Books, [Next]_vars PROVE Books'
    OBVIOUS
  <1>0. work \in [Handlers -> Work]
    BY DEF Typed, TypeOK
  <1>1. CASE UNCHANGED vars
    BY <1>1, BooksKept DEF vars
  <1>2. ASSUME NEW p \in Providers, SwitchProvider(p) \/ SwitchPlatform(p)
        PROVE  Books'
    BY <1>2, BooksKept DEF SwitchProvider, SwitchPlatform
  <1>3. ASSUME NEW g \in Gifts, NEW event \in {"paid", "declined"},
               MemberPays(g, event)
        PROVE  Books'
    BY <1>3, BooksKept DEF MemberPays
  <1>4. ASSUME NEW c \in Claims, Submit(c)
        PROVE  Books'
    BY <1>4, BooksKept DEF Submit
  <1>5. ASSUME NEW h \in Handlers, Start(h)
        PROVE  Books'
    BY <1>0, <1>5, BooksKept DEF Start, ReviewRead, StatusRead, Assign, Crediting
  <1>6. ASSUME NEW h \in Handlers, Continue(h)
        PROVE  Books'
    <2>1. CASE CreditPledge(h) \/ ReviewWrite(h) \/ AddUp(h)
      BY <1>0, <2>1, BooksKept DEF CreditPledge, ReviewWrite, AddUp, WriteThenLook,
                                   Assign, Crediting
    <2>2. CASE ReviewCommit(h) \/ Decline(h) \/ StatusSave(h)
      BY <1>0, <2>2, BooksKept DEF ReviewCommit, Commit, Decline, StatusSave, Idle,
                                   Crediting
    <2> QED BY <1>6, <2>1, <2>2, BooksCredit DEF Continue
  <1>7. ASSUME NEW h \in Handlers, Abort(h)
        PROVE  Books'
    BY <1>0, <1>7, BooksKept DEF Abort, Idle, Crediting
  <1> QED BY <1>1, <1>2, <1>3, <1>4, <1>5, <1>6, <1>7, BooksSessions, BooksPaid
          DEF Next, Deliver

\* A gift is entered in the books at most once, however often and however
\* concurrently its webhook is delivered and whatever is rolled back.
THEOREM RecordHolds == Spec => []RecordedOnce
  <1>1. Books => RecordedOnce
    BY DEF Books
  <1> QED BY <1>1, BooksInit, BooksNext, TypedAlways, PTL DEF Spec


-----------------------------------------------------------------------------
(* Sums over a finite set, by induction on its subsets: a claim that fails *)
(* for some subset fails for one none of whose proper subsets it fails for. *)

AnyOf(s) == CHOOSE x \in s : TRUE

\* g adds up f over every subset of U, taking out one element at a time.
Adds(g, f, U) ==
  g = [s \in SUBSET U |-> IF s = {} THEN 0 ELSE f[AnyOf(s)] + g[s \ {AnyOf(s)}]]

\* The library's sum is what one such function says of the set.
LEMMA SumIsChosen ==
  ASSUME NEW f, NEW S
  PROVE SumFunctionOnSet(f, S) = (CHOOSE g : Adds(g, f, S))[S]
  BY Zenon DEF SumFunctionOnSet, FoldFunctionOnSet, MapThenFoldSet, Adds, AnyOf

\* Among some subsets of a finite set there is one that contains no other: what
\* fails for none of its proper subsets is where a proof by induction bites.
LEMMA Least ==
  ASSUME NEW S, IsFiniteSet(S), NEW F, F \subseteq SUBSET S, F # {}
  PROVE  \E T \in F : \A U \in F : U \subseteq T => U = T
  <1>1. FiniteSubsetsOf(S) = SUBSET S
    BY FS_FiniteSubsetsOfFinite
  <1>2. IsWellFoundedOn(StrictSubsetOrdering(S), SUBSET S)
    BY <1>1, FS_StrictSubsetOrderingWellFounded
  <1>3. PICK T \in F : \A U \in F : ~(<<U, T>> \in StrictSubsetOrdering(S))
    BY <1>2, WFMin
  <1> QED BY <1>3 DEF StrictSubsetOrdering

LEMMA AnyOfIn == ASSUME NEW s, s # {} PROVE AnyOf(s) \in s
  BY DEF AnyOf

LEMMA AddsAt ==
  ASSUME NEW g, NEW f, NEW U, Adds(g, f, U), NEW s \in SUBSET U
  PROVE  g[s] = IF s = {} THEN 0 ELSE f[AnyOf(s)] + g[s \ {AnyOf(s)}]
  <1> DEFINE G(t) == IF t = {} THEN 0 ELSE f[AnyOf(t)] + g[t \ {AnyOf(t)}]
  <1>1. g = [t \in SUBSET U |-> G(t)]
    BY DEF Adds
  <1>2. g[s] = G(s)
    <2> HIDE DEF G
    <2> QED BY <1>1
  <1> QED BY <1>2

\* Two ways to add up f agree on what both cover.
LEMMA AddsAgree ==
  ASSUME NEW f, NEW U, NEW V, IsFiniteSet(U), NEW g, NEW h,
         Adds(g, f, U), Adds(h, f, V), NEW s, s \subseteq U, s \subseteq V
  PROVE  g[s] = h[s]
  <1> DEFINE F == {t \in SUBSET U : t \subseteq V /\ g[t] # h[t]}
  <1> SUFFICES F = {}
    OBVIOUS
  <1> SUFFICES ASSUME F # {} PROVE FALSE
    OBVIOUS
  <1>1. PICK t \in F : \A u \in F : u \subseteq t => u = t
    <2>1. F \subseteq SUBSET U
      OBVIOUS
    <2> HIDE DEF F
    <2> QED BY <2>1, Least
  <1>2. /\ g[t] = IF t = {} THEN 0 ELSE f[AnyOf(t)] + g[t \ {AnyOf(t)}]
        /\ h[t] = IF t = {} THEN 0 ELSE f[AnyOf(t)] + h[t \ {AnyOf(t)}]
    BY AddsAt
  <1>3. t # {}
    BY <1>2
  <1>4. AnyOf(t) \in t
    BY <1>3, AnyOfIn
  <1>5. t \ {AnyOf(t)} \notin F
    BY <1>1, <1>4
  <1> QED BY <1>2, <1>5

\* f can be added up over every finite set.
LEMMA AddsExists ==
  ASSUME NEW f, NEW S, IsFiniteSet(S)
  PROVE  \E g : Adds(g, f, S)
  <1> DEFINE F == {U \in SUBSET S : ~ \E g : Adds(g, f, U)}
  <1> SUFFICES F = {}
    OBVIOUS
  <1> SUFFICES ASSUME F # {} PROVE FALSE
    OBVIOUS
  <1>1. PICK U \in F : \A V \in F : V \subseteq U => V = U
    <2>1. F \subseteq SUBSET S
      OBVIOUS
    <2> HIDE DEF F
    <2> QED BY <2>1, Least
  <1>2. IsFiniteSet(U)
    BY FS_Subset
  <1> DEFINE Of(V) == CHOOSE g : Adds(g, f, V)
             Sum(s) == IF s = {} THEN 0 ELSE f[AnyOf(s)] + Of(s \ {AnyOf(s)})[s \ {AnyOf(s)}]
             G == [s \in SUBSET U |-> Sum(s)]
  <1>3. ASSUME NEW V, V \subseteq U, V # U
        PROVE  Adds(Of(V), f, V)
    <2>1. \E g : Adds(g, f, V)
      BY <1>1, <1>3
    <2> HIDE DEF Adds
    <2> QED BY <2>1
  <1> HIDE DEF Of
  <1>4. ASSUME NEW s \in SUBSET U, s # U
        PROVE  G[s] = Of(s)[s]
    <2>1. Adds(Of(s), f, s)
      BY <1>3, <1>4
    <2>2. Of(s)[s] = IF s = {} THEN 0 ELSE f[AnyOf(s)] + Of(s)[s \ {AnyOf(s)}]
      BY <2>1, AddsAt
    <2>3. s # {} => Of(s)[s \ {AnyOf(s)}] = Of(s \ {AnyOf(s)})[s \ {AnyOf(s)}]
      <3> SUFFICES ASSUME s # {} PROVE Of(s)[s \ {AnyOf(s)}] = Of(s \ {AnyOf(s)})[s \ {AnyOf(s)}]
        OBVIOUS
      <3>1. AnyOf(s) \in s
        BY AnyOfIn
      <3>2. Adds(Of(s \ {AnyOf(s)}), f, s \ {AnyOf(s)})
        BY <1>3, <3>1
      <3>3. IsFiniteSet(s)
        BY <1>2, FS_Subset
      <3> QED BY <2>1, <3>2, <3>3, AddsAgree
    <2> QED BY <2>2, <2>3
  <1>5. Adds(G, f, U)
    <2>1. ASSUME NEW s \in SUBSET U, s # {}
          PROVE  Of(s \ {AnyOf(s)})[s \ {AnyOf(s)}] = G[s \ {AnyOf(s)}]
      <3>1. AnyOf(s) \in s
        BY <2>1, AnyOfIn
      <3> HIDE DEF G
      <3> QED BY <1>4, <3>1
    <2> DEFINE T(s) == IF s = {} THEN 0 ELSE f[AnyOf(s)] + G[s \ {AnyOf(s)}]
    <2>2. \A s \in SUBSET U : Sum(s) = T(s)
      <3> HIDE DEF G
      <3> QED BY <2>1
    <2>3. G = [s \in SUBSET U |-> T(s)]
      <3> HIDE DEF Sum, T
      <3> QED BY <2>2
    <2> HIDE DEF G
    <2> QED BY <2>3 DEF Adds
  <1> QED BY <1>1, <1>5

LEMMA SumAdds ==
  ASSUME NEW f, NEW U, IsFiniteSet(U), NEW g, Adds(g, f, U), NEW S \in SUBSET U
  PROVE  SumFunctionOnSet(f, S) = g[S]
  <1>1. IsFiniteSet(S)
    BY FS_Subset
  <1> DEFINE h == CHOOSE k : Adds(k, f, S)
  <1>2. Adds(h, f, S)
    <2>1. \E k : Adds(k, f, S)
      BY <1>1, AddsExists
    <2> HIDE DEF Adds
    <2> QED BY <2>1
  <1>3. SumFunctionOnSet(f, S) = h[S]
    BY SumIsChosen
  <1> HIDE DEF h
  <1> QED BY <1>1, <1>2, <1>3, AddsAgree

LEMMA SumEmpty == ASSUME NEW f PROVE SumFunctionOnSet(f, {}) = 0
  <1>1. IsFiniteSet({})
    BY FS_EmptySet
  <1>2. PICK g : Adds(g, f, {})
    BY <1>1, AddsExists
  <1> QED BY <1>1, <1>2, SumAdds, AddsAt

LEMMA SumAny ==
  ASSUME NEW f, NEW S, IsFiniteSet(S), S # {}
  PROVE  SumFunctionOnSet(f, S) = f[AnyOf(S)] + SumFunctionOnSet(f, S \ {AnyOf(S)})
  <1>1. PICK g : Adds(g, f, S)
    BY AddsExists
  <1>2. g[S] = f[AnyOf(S)] + g[S \ {AnyOf(S)}]
    BY <1>1, AddsAt
  <1> QED BY <1>1, <1>2, SumAdds

LEMMA SumType ==
  ASSUME NEW S, IsFiniteSet(S), NEW f, \A x \in S : f[x] \in Nat
  PROVE  SumFunctionOnSet(f, S) \in Nat
  <1> DEFINE F == {U \in SUBSET S : SumFunctionOnSet(f, U) \notin Nat}
  <1> SUFFICES ASSUME F # {} PROVE FALSE
    OBVIOUS
  <1>1. PICK U \in F : \A V \in F : V \subseteq U => V = U
    <2>1. F \subseteq SUBSET S
      OBVIOUS
    <2> HIDE DEF F
    <2> QED BY <2>1, Least
  <1>2. U # {}
    BY SumEmpty
  <1>3. AnyOf(U) \in U
    BY <1>2, AnyOfIn
  <1>4. U \ {AnyOf(U)} \notin F
    BY <1>1, <1>3
  <1>5. SumFunctionOnSet(f, U) = f[AnyOf(U)] + SumFunctionOnSet(f, U \ {AnyOf(U)})
    BY <1>2, SumAny, FS_Subset
  <1> QED BY <1>3, <1>4, <1>5

\* Whichever element is taken out first, the sum is the same.
LEMMA SumRemove ==
  ASSUME NEW S, IsFiniteSet(S), NEW f, \A x \in S : f[x] \in Nat, NEW x \in S
  PROVE  SumFunctionOnSet(f, S) = f[x] + SumFunctionOnSet(f, S \ {x})
  <1> DEFINE Sum(U) == SumFunctionOnSet(f, U)
             F == {U \in SUBSET S : \E y \in U : Sum(U) # f[y] + Sum(U \ {y})}
  <1> SUFFICES ASSUME F # {} PROVE FALSE
    OBVIOUS
  <1>1. PICK U \in F : \A V \in F : V \subseteq U => V = U
    <2>1. F \subseteq SUBSET S
      OBVIOUS
    <2> HIDE DEF F
    <2> QED BY <2>1, Least
  <1>2. PICK y \in U : Sum(U) # f[y] + Sum(U \ {y})
    OBVIOUS
  <1> DEFINE a == AnyOf(U)
  <1>3. a \in U /\ Sum(U) = f[a] + Sum(U \ {a})
    BY SumAny, AnyOfIn, FS_Subset
  <1>4. \A V \in SUBSET S : Sum(V) \in Nat
    BY SumType, FS_Subset
  <1>5. U \ {a} \notin F /\ U \ {y} \notin F
    BY <1>1, <1>3
  <1> HIDE DEF Sum
  <1>6. a # y
    BY <1>2, <1>3
  <1>7. Sum(U \ {a}) = f[y] + Sum((U \ {a}) \ {y})
    BY <1>3, <1>5, <1>6
  <1>8. Sum(U \ {y}) = f[a] + Sum((U \ {y}) \ {a})
    BY <1>3, <1>5, <1>6
  <1>9. (U \ {a}) \ {y} = (U \ {y}) \ {a}
    OBVIOUS
  <1>10. /\ f[a] \in Nat /\ f[y] \in Nat
         /\ Sum((U \ {y}) \ {a}) \in Nat
    BY <1>3, <1>4
  <1> HIDE DEF F, a
  <1> DEFINE W == Sum((U \ {y}) \ {a})
  <1>11. Sum(U) = f[a] + (f[y] + W)
    BY <1>3, <1>7, <1>9
  <1>12. f[y] + Sum(U \ {y}) = f[y] + (f[a] + W)
    BY <1>8
  <1> HIDE DEF W
  <1>13. W \in Nat
    BY <1>10 DEF W
  <1>14. Sum(U) = f[y] + Sum(U \ {y})
    BY <1>10, <1>11, <1>12, <1>13
  <1> QED BY <1>2, <1>14

LEMMA SumPart ==
  ASSUME NEW S, IsFiniteSet(S), NEW f, \A y \in S : f[y] \in Nat, NEW x \in S, NEW A
  PROVE  SumFunctionOnSet(f, S \cap A) =
           (IF x \in A THEN f[x] ELSE 0) + SumFunctionOnSet(f, (S \ {x}) \cap A)
  <1>1. IsFiniteSet(S \cap A) /\ IsFiniteSet((S \ {x}) \cap A)
    BY FS_Subset
  <1>2. CASE x \in A
    <2>1. (S \cap A) \ {x} = (S \ {x}) \cap A
      OBVIOUS
    <2> QED BY <1>1, <1>2, <2>1, SumRemove
  <1>3. CASE x \notin A
    <2>1. (S \ {x}) \cap A = S \cap A
      BY <1>3
    <2>2. SumFunctionOnSet(f, S \cap A) \in Nat
      BY <1>1, SumType
    <2> QED BY <1>3, <2>1, <2>2
  <1> QED BY <1>2, <1>3

\* Whatever adds something to one sum adds as much to the other one.
LEMMA SumBound ==
  ASSUME NEW S, IsFiniteSet(S), NEW f, NEW g, NEW A \in SUBSET S, NEW B \in SUBSET S,
         \A x \in S : f[x] \in Nat /\ g[x] \in Nat,
         \A x \in A : f[x] = 0 \/ (x \in B /\ f[x] <= g[x])
  PROVE  SumFunctionOnSet(f, A) <= SumFunctionOnSet(g, B)
  <1> DEFINE a(U) == SumFunctionOnSet(f, U \cap A)
             b(U) == SumFunctionOnSet(g, U \cap B)
             F == {U \in SUBSET S : ~(a(U) <= b(U))}
  <1> SUFFICES F = {}
    <2>1. S \cap A = A /\ S \cap B = B
      OBVIOUS
    <2> QED BY <2>1
  <1> SUFFICES ASSUME F # {} PROVE FALSE
    OBVIOUS
  <1>1. PICK U \in F : \A V \in F : V \subseteq U => V = U
    <2>1. F \subseteq SUBSET S
      OBVIOUS
    <2> HIDE DEF F
    <2> QED BY <2>1, Least
  <1>2. U # {}
    <2>1. {} \cap A = {} /\ {} \cap B = {}
      OBVIOUS
    <2> QED BY <2>1, SumEmpty
  <1>3. PICK x \in U : TRUE
    BY <1>2
  <1>4. /\ a(U) = (IF x \in A THEN f[x] ELSE 0) + a(U \ {x})
        /\ b(U) = (IF x \in B THEN g[x] ELSE 0) + b(U \ {x})
    <2>1. /\ IsFiniteSet(U) /\ \A y \in U : f[y] \in Nat /\ g[y] \in Nat
      BY FS_Subset
    <2> HIDE DEF F
    <2>2. a(U) = (IF x \in A THEN f[x] ELSE 0) + a(U \ {x})
      BY <2>1, SumPart
    <2>3. b(U) = (IF x \in B THEN g[x] ELSE 0) + b(U \ {x})
      BY <2>1, SumPart
    <2> QED BY <2>2, <2>3
  <1>5. a(U \ {x}) <= b(U \ {x})
    <2>1. U \ {x} \notin F
      BY <1>1
    <2> HIDE DEF a, b
    <2> QED BY <2>1
  <1>6. a(U \ {x}) \in Nat /\ b(U \ {x}) \in Nat
    BY SumType, FS_Subset
  <1>7. /\ f[x] \in Nat /\ g[x] \in Nat
        /\ x \in A => f[x] = 0 \/ (x \in B /\ f[x] <= g[x])
    OBVIOUS
  <1> HIDE DEF a, b
  <1>8. a(U) <= b(U)
    BY <1>4, <1>5, <1>6, <1>7
  <1> QED BY <1>1, <1>8

-----------------------------------------------------------------------------
\* What every payment is for, and whether those of S pay what p promises.
Purposes == [x \in Payments |-> Purpose(x)]
Pays(P, p, S) == SumFunctionOnSet(Amount, {x \in S : P[x] = p}) >= Total[p]

\* What is committed was counted, and what a gift is for was settled before it
\* could be: its session has started.
Entered ==
  /\ \A x \in Payments : Rows(x) # 0 => x \in counted
  /\ \A g \in counted \cap Gifts : sessions[g].status # "none"
  /\ \A h \in Handlers : work[h].op \in {"credited", "credits"} =>
       Purposes[work[h].item] # General

\* A handler that will complete a pledge has seen it paid by what was counted
\* and what the handler itself writes; nothing is ever taken off either.
Funded ==
  /\ \A h \in Handlers :
       work[h].op \in {"credits", "reviews"} /\ work[h].to = "COMPLETED" =>
         Pays(Purposes, Purposes[work[h].item], counted \cup {work[h].item})
  /\ \A p \in Pledges :
       pledges[p] = "COMPLETED" => p \in closed \/ Pays(Purposes, p, counted)

LEMMA AmountNat == \A x \in Payments : Amount[x] \in Nat
  BY GivingAssumption

LEMMA FundedPaid == Typed /\ Funded => CompletedWasPaid
  <1> SUFFICES ASSUME Typed, Funded, NEW p \in Pledges, pledges[p] = "COMPLETED",
                      p \notin closed
               PROVE  SumFunctionOnSet(Amount, counted \cap Among(p)) >= Total[p]
    BY DEF CompletedWasPaid
  <1>1. Pays(Purposes, p, counted)
    BY DEF Funded
  <1>2. {x \in counted : Purposes[x] = p} = counted \cap Among(p)
    BY DEF Purposes, Among, Typed, TypeOK
  <1> QED BY <1>1, <1>2 DEF Pays

\* More payments, none of whose purposes changed, pay as much.
LEMMA PaysMore ==
  ASSUME NEW P, NEW Q, NEW p \in Pledges,
         NEW S \in SUBSET Payments, NEW T \in SUBSET Payments, S \subseteq T,
         \A x \in S : Q[x] = P[x], Pays(P, p, S)
  PROVE  Pays(Q, p, T)
  <1> DEFINE A == {x \in S : P[x] = p}
             B == {x \in T : Q[x] = p}
  <1>1. A \in SUBSET Payments /\ B \in SUBSET Payments /\ A \subseteq B
    OBVIOUS
  <1>2. IsFiniteSet(Payments) /\ IsFiniteSet(A) /\ IsFiniteSet(B)
    BY <1>1, FS_Subset, GivingAssumption
  <1>3. \A x \in A : Amount[x] = 0 \/ (x \in B /\ Amount[x] <= Amount[x])
    BY <1>1, AmountNat
  <1> HIDE DEF A, B
  <1>4. SumFunctionOnSet(Amount, A) <= SumFunctionOnSet(Amount, B)
    BY <1>1, <1>2, <1>3, AmountNat, SumBound
  <1>5. SumFunctionOnSet(Amount, A) \in Nat /\ SumFunctionOnSet(Amount, B) \in Nat
    BY <1>1, <1>2, AmountNat, SumType
  <1>6. Total[p] \in Nat
    BY GivingAssumption
  <1> QED BY <1>4, <1>5, <1>6 DEF Pays, A, B

LEMMA RowsOnce == Typed /\ Books => \A x \in Payments : Rows(x) \in {0, 1}
  <1> SUFFICES ASSUME Typed, Books, NEW x \in Payments PROVE Rows(x) \in {0, 1}
    OBVIOUS
  <1>1. CASE x \in Gifts
    <2>1. records[x] \in Nat /\ records[x] <= 1
      BY <1>1 DEF Typed, TypeOK, Books, RecordedOnce
    <2> QED BY <1>1, <2>1 DEF Rows
  <1>2. CASE x \notin Gifts
    BY <1>2 DEF Rows
  <1> QED BY <1>1, <1>2

\* What a handler adds up is at most what was counted and what it writes.
LEMMA ConfirmedPays ==
  ASSUME Typed, Books, Entered, NEW x \in Payments,
         Purpose(x) \in Pledges, ConfirmedWith(x) >= Total[Purpose(x)]
  PROVE  Pays(Purposes, Purpose(x), counted \cup {x})
  <1> DEFINE p == Purpose(x)
             f == [y \in Payments |-> Amount[y] * Rows(y)]
             A == Among(p) \ {x}
             B == {y \in counted \cup {x} : Purposes[y] = p}
  <1>1. /\ A \in SUBSET Payments /\ B \in SUBSET Payments /\ x \in B
        /\ \A y \in A : y \in counted => y \in B \ {x}
    BY DEF Among, Purposes, Typed, TypeOK
  <1>2. IsFiniteSet(Payments) /\ IsFiniteSet(A) /\ IsFiniteSet(B) /\ IsFiniteSet(B \ {x})
    BY <1>1, FS_Subset, GivingAssumption
  <1>3. \A y \in Payments : f[y] \in Nat /\ f[y] <= Amount[y] /\ (y \notin counted => f[y] = 0)
    <2> SUFFICES ASSUME NEW y \in Payments
                 PROVE  f[y] \in Nat /\ f[y] <= Amount[y] /\ (y \notin counted => f[y] = 0)
      OBVIOUS
    <2>1. f[y] = Amount[y] * Rows(y) /\ Amount[y] \in Nat /\ Rows(y) \in {0, 1}
      BY AmountNat, RowsOnce
    <2>2. y \notin counted => Rows(y) = 0
      BY DEF Entered
    <2> HIDE DEF f
    <2>3. CASE Rows(y) = 0
      BY <2>1, <2>3
    <2>4. CASE Rows(y) = 1
      BY <2>1, <2>2, <2>4
    <2> QED BY <2>1, <2>3, <2>4
  <1>4. ConfirmedWith(x) = SumFunctionOnSet(f, A) + Amount[x]
    BY DEF ConfirmedWith
  <1> HIDE DEF f, A, B
  <1>5. SumFunctionOnSet(f, A) <= SumFunctionOnSet(Amount, B \ {x})
    <2>1. B \ {x} \in SUBSET Payments
      BY <1>1
    <2>2. \A y \in Payments : f[y] \in Nat /\ Amount[y] \in Nat
      BY <1>3, AmountNat
    <2>3. \A y \in A : f[y] = 0 \/ (y \in B \ {x} /\ f[y] <= Amount[y])
      BY <1>1, <1>3
    <2> QED BY <1>1, <1>2, <2>1, <2>2, <2>3, SumBound
  <1>6. SumFunctionOnSet(Amount, B) = Amount[x] + SumFunctionOnSet(Amount, B \ {x})
    BY <1>1, <1>2, AmountNat, SumRemove
  <1>7. /\ SumFunctionOnSet(f, A) \in Nat /\ SumFunctionOnSet(Amount, B \ {x}) \in Nat
        /\ Amount[x] \in Nat /\ Total[p] \in Nat
    <2>1. SumFunctionOnSet(f, A) \in Nat
      BY <1>1, <1>2, <1>3, SumType
    <2>2. SumFunctionOnSet(Amount, B \ {x}) \in Nat
      BY <1>1, <1>2, AmountNat, SumType
    <2> QED BY <2>1, <2>2, AmountNat, GivingAssumption
  <1>8. SumFunctionOnSet(Amount, B) >= Total[p]
    BY <1>4, <1>5, <1>6, <1>7
  <1> QED BY <1>8 DEF Pays, B

-----------------------------------------------------------------------------
\* A session that has started stays started, and keeps its pledge.
LEMMA SessionsKept ==
  ASSUME Typed, [Next]_vars
  PROVE  \A g \in Gifts : sessions[g].status # "none" =>
           sessions'[g].status # "none" /\ sessions'[g].pledge = sessions[g].pledge
  <1>1. CASE UNCHANGED sessions
    BY <1>1
  <1>2. ASSUME NEW g \in Gifts, NEW p \in Providers,
               NEW to \in Pledges \cup {General}, StartGift(g, p, to)
        PROVE  \A f \in Gifts \ {g} : sessions'[f] = sessions[f]
    BY <1>2 DEF StartGift, Typed, TypeOK
  <1>3. ASSUME NEW g \in Gifts, NEW p \in Providers,
               NEW to \in Pledges \cup {General}, StartGift(g, p, to)
        PROVE  sessions[g].status = "none"
    BY <1>3 DEF StartGift
  <1>4. ASSUME NEW g \in Gifts, WebhookFailed(g) \/ \E h \in Handlers : WebhookPaid(h, g)
        PROVE  /\ \A f \in Gifts \ {g} : sessions'[f] = sessions[f]
               /\ sessions'[g].status # "none" /\ sessions'[g].pledge = sessions[g].pledge
    BY <1>4 DEF WebhookFailed, WebhookPaid, Failed, Typed, TypeOK, Session
  <1>5. \/ UNCHANGED sessions
        \/ \E g \in Gifts, p \in Providers, to \in Pledges \cup {General} :
             StartGift(g, p, to)
        \/ \E g \in Gifts : WebhookFailed(g) \/ \E h \in Handlers : WebhookPaid(h, g)
    BY DEF Next, vars, SwitchProvider, SwitchPlatform, MemberPays, Deliver, Submit,
           Start, ReviewRead, StatusRead, Continue, CreditTithe, CreditPledge, AddUp,
           CreditCommit, ReviewWrite, ReviewCommit, Decline, StatusSave, Abort
  <1> QED BY <1>1, <1>2, <1>3, <1>4, <1>5

\* Neither what was counted nor what a handler holds changes its purpose.
LEMMA PurposesKept ==
  ASSUME Typed, Books, Entered, [Next]_vars
  PROVE  /\ \A x \in counted : Purposes'[x] = Purposes[x]
         /\ \A h \in Handlers : work[h].op \in Crediting \cup Reviewing =>
              work[h].item \in Payments /\ Purposes'[work[h].item] = Purposes[work[h].item]
         /\ \A g \in counted \cap Gifts : sessions'[g].status # "none"
  <1>1. ASSUME NEW x \in Payments, x \in Gifts => sessions[x].status # "none"
        PROVE  Purposes'[x] = Purposes[x]
    BY <1>1, SessionsKept DEF Purposes, Purpose
  <1>2. \A x \in counted : x \in Gifts => sessions[x].status # "none"
    BY DEF Entered
  <1>3. ASSUME NEW h \in Handlers, work[h].op \in Crediting \cup Reviewing
        PROVE  /\ work[h].item \in Payments
               /\ work[h].item \in Gifts => sessions[work[h].item].status # "none"
    <2>1. CASE work[h].op \in Crediting
      BY <2>1 DEF Typed, Held, Payments, Books, Owed
    <2>2. CASE work[h].op \in Reviewing
      BY <2>2, GivingAssumption DEF Typed, Held, Payments
    <2> QED BY <1>3, <2>1, <2>2
  <1>4. counted \subseteq Payments
    BY DEF Typed, TypeOK
  <1> QED BY <1>1, <1>2, <1>3, <1>4, SessionsKept

LEMMA EnteredStep ==
  ASSUME Entered, counted \subseteq counted',
         \A g \in Gifts : records'[g] = records[g] \/ g \in counted',
         \A c \in Claims : \/ claims'[c] = claims[c] \/ claims'[c] # "CONFIRMED"
                           \/ c \in counted',
         \A g \in counted' \cap Gifts : sessions'[g].status # "none",
         \A h \in Handlers : work'[h].op \in {"credited", "credits"} =>
           Purposes'[work'[h].item] # General
  PROVE  Entered'
  <1>1. \A x \in Payments : Rows(x)' # 0 => x \in counted'
    BY DEF Entered, Rows, Payments
  <1> QED BY <1>1 DEF Entered

\* A handler that writes a payment writes it towards a pledge.
LEMMA WriterPurpose ==
  ASSUME Typed, Entered, NEW h \in Handlers,
         work[h].op \in {"credited", "credits", "reviewed", "reviews"}
  PROVE  /\ work[h].item \in Payments
         /\ Purposes[work[h].item] = Purpose(work[h].item)
         /\ Purpose(work[h].item) \in Pledges
  <1>1. CASE work[h].op \in {"credited", "credits"}
    <2>1. work[h].item \in Gifts
      BY <1>1 DEF Typed, Held, Crediting
    <2>2. Purposes[work[h].item] # General
      BY <1>1 DEF Entered
    <2> QED BY <2>1, <2>2 DEF Purposes, Purpose, Payments, Typed, TypeOK, Session
  <1>2. CASE work[h].op \in {"reviewed", "reviews"}
    <2>1. work[h].item \in Claims
      BY <1>2 DEF Typed, Held, Reviewing
    <2> QED BY <2>1, GivingAssumption DEF Purposes, Purpose, Payments
  <1> QED BY <1>1, <1>2

\* Funded goes on holding when no handler is given a decision that was not paid
\* for, nor a pledge completed.
LEMMA FundedStep ==
  ASSUME Typed, Typed', Entered, Funded, counted \subseteq counted',
         closed \subseteq closed',
         \A x \in counted : Purposes'[x] = Purposes[x],
         \A h \in Handlers :
           work'[h].op \in {"credits", "reviews"} /\ work'[h].to = "COMPLETED" =>
             \/ /\ work'[h] = work[h]
                /\ Purposes'[work[h].item] = Purposes[work[h].item]
             \/ Pays(Purposes', Purposes'[work'[h].item], counted' \cup {work'[h].item}),
         \A p \in Pledges : pledges'[p] = "COMPLETED" =>
           \/ pledges[p] = "COMPLETED" \/ p \in closed' \/ Pays(Purposes', p, counted')
  PROVE  Funded'
  <1>0. counted \in SUBSET Payments /\ counted' \in SUBSET Payments
    BY DEF Typed, TypeOK
  <1>1. ASSUME NEW p \in Pledges, pledges'[p] = "COMPLETED"
        PROVE  p \in closed' \/ Pays(Purposes', p, counted')
    <2>1. CASE pledges[p] = "COMPLETED" /\ p \notin closed
      <3>1. Pays(Purposes, p, counted)
        BY <2>1 DEF Funded
      <3> QED BY <1>0, <3>1, PaysMore
    <2> QED BY <1>1, <2>1
  <1>2. ASSUME NEW h \in Handlers, work'[h] = work[h],
               work[h].op \in {"credits", "reviews"}, work[h].to = "COMPLETED",
               Purposes'[work[h].item] = Purposes[work[h].item]
        PROVE  Pays(Purposes', Purposes'[work[h].item], counted' \cup {work[h].item})
    <2> DEFINE x == work[h].item
               S == counted \cup {x}
               T == counted' \cup {x}
    <2>1. x \in Payments /\ Purposes[x] \in Pledges
      BY <1>2, WriterPurpose
    <2>2. Pays(Purposes, Purposes[x], S)
      BY <1>2 DEF Funded
    <2>4. /\ S \in SUBSET Payments /\ T \in SUBSET Payments /\ S \subseteq T
          /\ \A y \in S : Purposes'[y] = Purposes[y]
      BY <1>0, <1>2, <2>1
    <2> HIDE DEF x, S, T
    <2>5. Pays(Purposes', Purposes[x], T)
      BY <2>1, <2>2, <2>4, PaysMore
    <2> QED BY <1>2, <2>5 DEF x, T
  <1> QED BY <1>1, <1>2 DEF Funded

Inv == Typed /\ Books /\ Entered /\ Funded

LEMMA FundedInit == Init => Entered /\ Funded
  BY DEF Init, Entered, Funded, Rows, Payments, Idle

\* Nothing is entered, nothing is completed, and no handler gets further.
LEMMA QuietStep ==
  ASSUME Inv, Typed', [Next]_vars,
         UNCHANGED <<records, pledges, counted, closed>>,
         \A c \in Claims : claims'[c] = claims[c] \/ claims'[c] # "CONFIRMED",
         \A h \in Handlers :
           work'[h] = work[h] \/ work'[h].op \notin {"credited", "credits", "reviews"}
  PROVE  (Entered /\ Funded)'
  <1>1. Typed /\ Books /\ Entered /\ Funded
    BY DEF Inv
  <1>2. \A h \in Handlers : work'[h].op \in {"credited", "credits", "reviews"} =>
          work'[h] = work[h] /\ Purposes'[work[h].item] = Purposes[work[h].item]
    BY <1>1, PurposesKept DEF Crediting, Reviewing
  <1>3. \A h \in Handlers : work'[h].op \in {"credited", "credits"} =>
          Purposes'[work'[h].item] # General
    BY <1>1, <1>2 DEF Entered
  <1>4. Entered'
    BY <1>1, <1>3, EnteredStep, PurposesKept
  <1>5. Funded'
    BY <1>1, <1>2, FundedStep, PurposesKept
  <1> QED BY <1>4, <1>5

LEMMA FundedQuiet ==
  ASSUME Inv, Typed', [Next]_vars,
         \/ UNCHANGED vars
         \/ \E p \in Providers : SwitchProvider(p) \/ SwitchPlatform(p)
         \/ \E g \in Gifts, p \in Providers, to \in Pledges \cup {General} :
              StartGift(g, p, to)
         \/ \E g \in Gifts, event \in {"paid", "declined"} : MemberPays(g, event)
         \/ \E g \in Gifts : Deliver(g)
         \/ \E c \in Claims : Submit(c)
         \/ \E h \in Handlers : Start(h) \/ Decline(h) \/ Abort(h)
  PROVE  (Entered /\ Funded)'
  <1>0. work \in [Handlers -> Work] /\ claims \in [Claims -> ClaimStatus]
    BY DEF Inv, Typed, TypeOK
  <1>1. UNCHANGED <<records, pledges, counted, closed>>
    BY DEF vars, SwitchProvider, SwitchPlatform, StartGift, MemberPays, Deliver,
           WebhookFailed, WebhookPaid, Submit, Start, ReviewRead, StatusRead, Decline, Abort
  <1>2. \A c \in Claims : claims'[c] = claims[c] \/ claims'[c] # "CONFIRMED"
    BY <1>0 DEF vars, SwitchProvider, SwitchPlatform, StartGift, MemberPays, Deliver,
           WebhookFailed, WebhookPaid, Submit, Start, ReviewRead, StatusRead, Decline, Abort
  <1>3. \A h \in Handlers :
          work'[h] = work[h] \/ work'[h].op \notin {"credited", "credits", "reviews"}
    <2>1. CASE UNCHANGED work
      BY <2>1
    <2>2. ASSUME NEW h \in Handlers, Start(h) \/ Decline(h) \/ Abort(h)
          PROVE  \A k \in Handlers :
            work'[k] = work[k] \/ work'[k].op \notin {"credited", "credits", "reviews"}
      BY <1>0, <2>2 DEF Start, ReviewRead, StatusRead, Decline, Abort, Assign, Idle
    <2>3. ASSUME NEW g \in Gifts, NEW h \in Handlers, WebhookPaid(h, g)
          PROVE  \A k \in Handlers :
            work'[k] = work[k] \/ work'[k].op \notin {"credited", "credits", "reviews"}
      BY <1>0, <2>3 DEF WebhookPaid, Assign
    <2>4. \/ UNCHANGED work
          \/ \E h \in Handlers : Start(h) \/ Decline(h) \/ Abort(h)
          \/ \E g \in Gifts, h \in Handlers : WebhookPaid(h, g)
      BY DEF vars, SwitchProvider, SwitchPlatform, StartGift, MemberPays, Deliver,
             WebhookFailed, Submit
    <2> QED BY <2>1, <2>2, <2>3, <2>4
  <1> QED BY <1>1, <1>2, <1>3, QuietStep

LEMMA FundedTithe ==
  ASSUME Inv, Typed', [Next]_vars, NEW h \in Handlers, CreditTithe(h)
  PROVE  (Entered /\ Funded)'
  <1> DEFINE g == work[h].item
  <1>1. Typed /\ Books /\ Entered /\ Funded
    BY DEF Inv
  <1>2. /\ g \in Gifts /\ work[h].op \in Crediting
        /\ records' = [records EXCEPT ![g] = @ + 1] /\ counted' = counted \cup {g}
        /\ work' = [work EXCEPT ![h] = Idle] /\ work \in [Handlers -> Work]
        /\ UNCHANGED <<sessions, claims, pledges, closed>>
    BY <1>1 DEF CreditTithe, Typed, TypeOK, Held, Crediting
  <1>3. sessions[g].status = "completed"
    BY <1>1, <1>2 DEF Books, Owed
  <1>4. \A k \in Handlers : work'[k].op \in {"credited", "credits", "reviews"} =>
          work'[k] = work[k] /\ Purposes'[work[k].item] = Purposes[work[k].item]
    BY <1>1, <1>2, PurposesKept DEF Crediting, Reviewing, Idle
  <1>5. \A k \in Handlers : work'[k].op \in {"credited", "credits"} =>
          Purposes'[work'[k].item] # General
    BY <1>1, <1>4 DEF Entered
  <1>6. /\ \A f \in Gifts : records'[f] = records[f] \/ f \in counted'
        /\ \A f \in counted' \cap Gifts : sessions'[f].status # "none"
    BY <1>1, <1>2, <1>3 DEF Typed, TypeOK, Entered
  <1>7. Entered'
    BY <1>1, <1>2, <1>5, <1>6, EnteredStep
  <1>8. Funded'
    BY <1>1, <1>2, <1>4, FundedStep, PurposesKept
  <1> QED BY <1>7, <1>8

\* A handler that writes has decided nothing yet.
LEMMA FundedWrite ==
  ASSUME Inv, Typed', [Next]_vars, NEW h \in Handlers,
         CreditPledge(h) \/ ReviewWrite(h)
  PROVE  (Entered /\ Funded)'
  <1> DEFINE x == work[h].item
  <1>1. Typed /\ Books /\ Entered /\ Funded
    BY DEF Inv
  <1>2. /\ work[h].op \in Crediting \cup Reviewing
        /\ work'[h].item = x /\ work'[h].to = "ACTIVE"
        /\ \A k \in Handlers \ {h} : work'[k] = work[k]
        /\ UNCHANGED <<records, sessions, claims, pledges, counted, closed>>
    BY <1>1 DEF CreditPledge, ReviewWrite, WriteThenLook, Assign, Typed, TypeOK,
                Crediting, Reviewing
  <1>3. work'[h].op \in {"credited", "credits"} => Purposes'[x] # General
    <2>1. CASE CreditPledge(h)
      <3>1. Purpose(x) # General /\ work[h].op \in Crediting
        BY <2>1 DEF CreditPledge, Crediting
      <3>2. x \in Payments /\ Purposes'[x] = Purposes[x]
        BY <1>1, <3>1, PurposesKept
      <3> QED BY <3>1, <3>2 DEF Purposes
    <2>2. CASE ReviewWrite(h)
      BY <1>1, <2>2 DEF ReviewWrite, WriteThenLook, Assign, Typed, TypeOK
    <2> QED BY <2>1, <2>2
  <1>4. \A k \in Handlers \ {h} : work'[k].op \in {"credited", "credits", "reviews"} =>
          work'[k] = work[k] /\ Purposes'[work[k].item] = Purposes[work[k].item]
    BY <1>1, <1>2, PurposesKept DEF Crediting, Reviewing
  <1>5. \A k \in Handlers : work'[k].op \in {"credited", "credits"} =>
          Purposes'[work'[k].item] # General
    BY <1>1, <1>2, <1>3, <1>4 DEF Entered
  <1>6. Entered'
    BY <1>1, <1>2, <1>5, EnteredStep DEF Entered
  <1>7. \A k \in Handlers :
          work'[k].op \in {"credits", "reviews"} /\ work'[k].to = "COMPLETED" =>
            work'[k] = work[k] /\ Purposes'[work[k].item] = Purposes[work[k].item]
    BY <1>2, <1>4
  <1>8. Funded'
    BY <1>1, <1>2, <1>7, FundedStep, PurposesKept
  <1> QED BY <1>6, <1>8

LEMMA FundedAddUp ==
  ASSUME Inv, Typed', [Next]_vars, NEW h \in Handlers, AddUp(h)
  PROVE  (Entered /\ Funded)'
  <1> DEFINE x == work[h].item
  <1>1. Typed /\ Books /\ Entered /\ Funded
    BY DEF Inv
  <1>2. /\ work[h].op \in {"credited", "reviewed"} /\ work'[h].item = x
        /\ work'[h].op = IF work[h].op = "credited" THEN "credits" ELSE "reviews"
        /\ work'[h].to = "COMPLETED" => ConfirmedWith(x) >= Total[Purpose(x)]
        /\ \A k \in Handlers \ {h} : work'[k] = work[k]
        /\ UNCHANGED <<records, sessions, claims, pledges, counted, closed>>
    BY <1>1 DEF AddUp, Assign, Typed, TypeOK
  <1>3. x \in Payments /\ Purposes[x] = Purpose(x) /\ Purpose(x) \in Pledges
    BY <1>1, <1>2, WriterPurpose
  <1>4. Purposes' = Purposes
    BY <1>2 DEF Purposes, Purpose
  <1>5. work'[h].to = "COMPLETED" => Pays(Purposes, Purposes[x], counted \cup {x})
    BY <1>1, <1>2, <1>3, ConfirmedPays
  <1>6. \A k \in Handlers : work'[k].op \in {"credited", "credits"} =>
          Purposes'[work'[k].item] # General
    BY <1>1, <1>2, <1>3, <1>4, GivingAssumption DEF Entered
  <1>7. Entered'
    BY <1>1, <1>2, <1>6, EnteredStep DEF Entered
  <1>8. \A k \in Handlers :
          work'[k].op \in {"credits", "reviews"} /\ work'[k].to = "COMPLETED" =>
            \/ /\ work'[k] = work[k]
               /\ Purposes'[work[k].item] = Purposes[work[k].item]
            \/ Pays(Purposes', Purposes'[work'[k].item], counted' \cup {work'[k].item})
    BY <1>2, <1>4, <1>5
  <1>9. Funded'
    BY <1>1, <1>2, <1>4, <1>8, FundedStep
  <1> QED BY <1>7, <1>9

\* The commit of a handler counts what it wrote, and that is what its decision
\* to complete the pledge rested on.
LEMMA FundedCommit ==
  ASSUME Inv, Typed', [Next]_vars, NEW h \in Handlers,
         CreditCommit(h) \/ ReviewCommit(h)
  PROVE  (Entered /\ Funded)'
  <1> DEFINE x == work[h].item
  <1>1. Typed /\ Books /\ Entered /\ Funded
    BY DEF Inv
  <1>2. /\ work[h].op \in {"credits", "reviews"} /\ counted' = counted \cup {x}
        /\ work' = [work EXCEPT ![h] = Idle] /\ work \in [Handlers -> Work]
        /\ \A p \in Pledges : pledges'[p] = "COMPLETED" =>
             pledges[p] = "COMPLETED" \/ (work[h].to = "COMPLETED" /\ p = Purpose(x))
        /\ UNCHANGED <<sessions, closed>>
    BY <1>1 DEF CreditCommit, ReviewCommit, Commit, Typed, TypeOK
  <1>3. x \in Payments /\ Purposes[x] = Purpose(x) /\ Purpose(x) \in Pledges
    BY <1>1, <1>2, WriterPurpose
  <1>4. Purposes' = Purposes
    BY <1>2 DEF Purposes, Purpose
  <1>5. /\ \A g \in Gifts : records'[g] = records[g] \/ g \in counted'
        /\ \A c \in Claims : claims'[c] = claims[c] \/ c \in counted'
    BY <1>1, <1>2 DEF CreditCommit, ReviewCommit, Typed, TypeOK
  <1>6. x \in Gifts => sessions[x].status # "none"
    <2>1. CASE work[h].op = "credits"
      BY <1>1, <2>1 DEF Books, Owed, Crediting
    <2>2. CASE work[h].op = "reviews"
      BY <1>1, <2>2, GivingAssumption DEF Typed, Held, Reviewing
    <2> QED BY <1>2, <2>1, <2>2
  <1>7. \A k \in Handlers : work'[k].op \in {"credited", "credits", "reviews"} =>
          work'[k] = work[k]
    BY <1>2 DEF Idle
  <1>8. Entered'
    <2>1. \A g \in counted' \cap Gifts : sessions'[g].status # "none"
      BY <1>1, <1>2, <1>6 DEF Entered
    <2>2. \A k \in Handlers : work'[k].op \in {"credited", "credits"} =>
            Purposes'[work'[k].item] # General
      BY <1>1, <1>4, <1>7 DEF Entered
    <2> QED BY <1>1, <1>2, <1>5, <2>1, <2>2, EnteredStep
  <1>9. work[h].to = "COMPLETED" => Pays(Purposes', Purpose(x), counted')
    BY <1>1, <1>2, <1>3, <1>4 DEF Funded
  <1>10. \A p \in Pledges : pledges'[p] = "COMPLETED" =>
           pledges[p] = "COMPLETED" \/ Pays(Purposes', p, counted')
    BY <1>2, <1>9
  <1>11. Funded'
    BY <1>1, <1>2, <1>4, <1>7, <1>10, FundedStep
  <1> QED BY <1>8, <1>11

\* An admin's own word completes a pledge as well.
LEMMA FundedStatus ==
  ASSUME Inv, Typed', [Next]_vars, NEW h \in Handlers, StatusSave(h)
  PROVE  (Entered /\ Funded)'
  <1>1. Typed /\ Books /\ Entered /\ Funded
    BY DEF Inv
  <1>2. /\ work' = [work EXCEPT ![h] = Idle] /\ work \in [Handlers -> Work]
        /\ closed \subseteq closed'
        /\ \A p \in Pledges : pledges'[p] = "COMPLETED" =>
             pledges[p] = "COMPLETED" \/ p \in closed'
        /\ UNCHANGED <<records, sessions, claims, counted>>
    BY <1>1 DEF StatusSave, Typed, TypeOK
  <1>3. Purposes' = Purposes
    BY <1>2 DEF Purposes, Purpose
  <1>4. \A k \in Handlers : work'[k].op \in {"credited", "credits", "reviews"} =>
          work'[k] = work[k]
    BY <1>2 DEF Idle
  <1>5. \A k \in Handlers : work'[k].op \in {"credited", "credits"} =>
          Purposes'[work'[k].item] # General
    BY <1>1, <1>3, <1>4 DEF Entered
  <1>6. Entered'
    BY <1>1, <1>2, <1>5, EnteredStep DEF Entered
  <1>7. Funded'
    BY <1>1, <1>2, <1>3, <1>4, FundedStep
  <1> QED BY <1>6, <1>7

LEMMA InvNext == Inv /\ [Next]_vars => Inv'
  <1> SUFFICES ASSUME Inv, [Next]_vars PROVE Inv'
    OBVIOUS
  <1>1. Typed' /\ Books'
    BY TypedNext, BooksNext DEF Inv
  <1>2. ASSUME NEW h \in Handlers, Continue(h)
        PROVE  (Entered /\ Funded)'
    BY <1>1, <1>2, FundedQuiet, FundedTithe, FundedWrite, FundedAddUp, FundedCommit,
       FundedStatus DEF Continue
  <1>3. (Entered /\ Funded)'
    BY <1>1, <1>2, FundedQuiet DEF Next
  <1> QED BY <1>1, <1>3 DEF Inv

\* A pledge that no admin closed is completed only when what it promises was
\* paid: the sum was read before the commit and may be stale by then, but every
\* payment in it was committed once, and what was counted is never uncounted.
THEOREM CompletedPaid == Spec => []CompletedWasPaid
  <1>1. Init => Inv
    BY TypedInit, BooksInit, FundedInit DEF Inv
  <1>2. Inv => CompletedWasPaid
    BY FundedPaid DEF Inv
  <1>3. Spec => []Inv
    BY <1>1, InvNext, PTL DEF Spec
  <1> QED BY <1>2, <1>3, PTL

=============================================================================
