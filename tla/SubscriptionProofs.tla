------------------------- MODULE SubscriptionProofs -------------------------
(* Safety of subscriptions and branch links for every set of churches,      *)
(* plans, sessions, requests and handlers.  Every writer saves a whole row  *)
(* it read earlier, so what is true of the table must be true of each row   *)
(* a handler or the lapse job still holds.                                  *)
EXTENDS BranchLinks, TLAPS

Refs == Sessions \cup Requests \cup Churches \cup {Nobody, NoRef}

\* f and a stand for the histories funded and agreed.
Supported(c, p, f, a) ==
  \/ <<c, p>> \in f
  \/ /\ \E o \in Churches : <<o, c, TRUE>> \in a
     /\ \E o \in Churches : <<o, p>> \in f

\* A row that may stand in the table as church c's.
Lawful(c, row, f, a) ==
  /\ row \in Sub
  /\ row.status = "CANCELED" => row.plan = Free
  /\ row.status = "PAST_DUE" => row.end # NoDay
  /\ row.plan # Free => Supported(c, row.plan, f, a)
  /\ row.sponsor # Nobody => <<row.sponsor, c, TRUE>> \in a

Consented(c, p, a) == p # Nobody => \E b \in BOOLEAN : <<p, c, b>> \in a

-----------------------------------------------------------------------------
\* The handlers that will save the row they hold, and those that answer a link
\* request.
Billed == {"charge", "stopped", "created", "cancel", "cancelling", "grant",
           "discount", "unsponsoring"}

Accepting == {"accept", "respond", "sponsor", "sponsoring"}

Answering == {"revoke", "decline"} \cup Accepting

\* A sponsoring handler has the parent's plan in the row and not yet the status.
Held(w, rq, f, a) ==
  /\ w.op \in Billed => Lawful(w.church, w.row, f, a)
  /\ w.op # "idle" => w.church \in Churches
  /\ w.op \in {"charge", "stopped", "created"} => w.ref \in Sessions
  /\ w.op = "charge" => w.church = Buyer[w.ref]
  /\ w.op \in Answering => /\ w.ref \in Requests
                           /\ rq[w.ref].status # "none"
                           /\ rq[w.ref].to = w.church
  /\ w.op \in Accepting =>
       <<rq[w.ref].from, w.church, rq[w.ref].sponsor>> \in a
  /\ w.op \in {"sponsor", "sponsoring"} => rq[w.ref].sponsor = TRUE
  /\ w.op = "sponsoring" => /\ w.row \in Sub
                            /\ Supported(w.church, w.row.plan, f, a)
  /\ w.op = "edit" => /\ w.ref \in Churches \cup {Nobody}
                      /\ Consented(w.church, w.ref, a)

Rows == \A c \in Churches : Lawful(c, subs[c], funded, agreed)

Links == \A c \in Churches : Consented(c, parent[c], agreed)

Handled == \A h \in Handlers : Held(work[h], requests, funded, agreed)

\* The rows the lapse job still has to save.
Nightly == \A c \in Churches : cron.rows[c] # NoSub =>
  /\ Lawful(c, cron.rows[c], funded, agreed)
  /\ cron.pc = "lapsed" => cron.rows[c].end # NoDay

Asked == \A q \in Requests : requests[q].status # "none" =>
  requests[q].from \in Churches /\ requests[q].to \in Churches

Inv == TypeOK /\ Rows /\ Links /\ Handled /\ Nightly /\ Asked

\* The histories only grow, and a request stays what it was when it was made.
Grows ==
  /\ funded \subseteq funded' /\ agreed \subseteq agreed'
  /\ \A q \in Requests : requests[q].status # "none" =>
       /\ requests'[q].status # "none"
       /\ requests'[q].from = requests[q].from
       /\ requests'[q].to = requests[q].to
       /\ requests'[q].sponsor = requests[q].sponsor

-----------------------------------------------------------------------------
LEMMA LawfulGrows ==
  ASSUME NEW c, NEW row, NEW f, NEW a, NEW g, NEW b, f \subseteq g, a \subseteq b,
         Lawful(c, row, f, a)
  PROVE  Lawful(c, row, g, b)
  BY DEF Lawful, Supported

LEMMA HeldGrows ==
  ASSUME NEW w, Grows, Held(w, requests, funded, agreed)
  PROVE  Held(w, requests', funded', agreed')
  <1>1. w.op \in Billed => Lawful(w.church, w.row, funded', agreed')
    BY LawfulGrows DEF Held, Grows
  <1>2. w.op = "sponsoring" => Supported(w.church, w.row.plan, funded', agreed')
    BY DEF Held, Grows, Supported
  <1>3. w.op = "edit" => Consented(w.church, w.ref, agreed')
    BY DEF Held, Grows, Consented
  <1> QED BY <1>1, <1>2, <1>3 DEF Held, Grows, Accepting, Answering

\* To keep the invariant a step need only account for what it wrote.
LEMMA StepLemma ==
  ASSUME Inv, TypeOK', Grows, Asked',
         \A h \in Handlers : \/ work'[h] = work[h]
                             \/ Held(work'[h], requests', funded', agreed'),
         \A c \in Churches : \/ subs'[c] = subs[c]
                             \/ Lawful(c, subs'[c], funded', agreed'),
         \A c \in Churches : \/ parent'[c] = parent[c]
                             \/ Consented(c, parent'[c], agreed'),
         \A c \in Churches :
           \/ cron'.rows[c] = NoSub
           \/ cron'.rows[c] = cron.rows[c] /\ cron'.pc = cron.pc
           \/ /\ Lawful(c, cron'.rows[c], funded', agreed')
              /\ cron'.pc = "lapsed" => cron'.rows[c].end # NoDay
  PROVE  Inv'
  <1> USE DEF Inv
  <1>1. Rows'
    BY LawfulGrows DEF Rows, Grows
  <1>2. Links'
    BY DEF Links, Consented, Grows
  <1>3. Handled'
    BY HeldGrows DEF Handled
  <1>4. Nightly'
    BY LawfulGrows DEF Nightly, Grows
  <1> QED BY <1>1, <1>2, <1>3, <1>4

LEMMA HeldIdle ==
  ASSUME NEW rq, NEW f, NEW a
  PROVE  Held(Idle, rq, f, a)
  BY DEF Held, Idle, Billed, Answering, Accepting

LEMMA IdleType == Idle \in Work
  BY DEF Idle, Work, Ops

\* A read: one handler takes up a row that stands in the table.
LEMMA HoldLemma ==
  ASSUME TypeOK, NEW h \in Handlers, NEW op \in Ops, NEW c \in Churches,
         NEW ref \in Refs, Hold(h, op, c, ref)
  PROVE  /\ work' \in [Handlers -> Work]
         /\ work'[h] = [op |-> op, church |-> c, row |-> subs[c], ref |-> ref]
         /\ \A g \in Handlers \ {h} : work'[g] = work[g]
  BY DEF Hold, Work, TypeOK, BillingTypeOK, Refs

\* A save: the row stands in the table and the handler is done.
LEMMA SaveLemma ==
  ASSUME TypeOK, NEW h \in Handlers, NEW row \in Sub, Save(h, row),
         work[h].church \in Churches
  PROVE  /\ subs' \in [Churches -> Sub]
         /\ subs'[work[h].church] = row
         /\ \A c \in Churches \ {work[h].church} : subs'[c] = subs[c]
         /\ work' \in [Handlers -> Work]
         /\ work'[h] = Idle
         /\ \A g \in Handlers \ {h} : work'[g] = work[g]
  BY IdleType DEF Save, Answer, TypeOK, BillingTypeOK


-----------------------------------------------------------------------------
LEMMA InvInit == Init => Inv
  <1> SUFFICES ASSUME Init PROVE Inv
    OBVIOUS
  <1> USE SubscriptionAssumption DEF Init, BillingInit
  <1>1. NewSub \in Sub
    BY DEF NewSub, Sub, Status
  <1>2. NoCron \in [pc: {"idle", "lapsed", "review"}, at: 0..MaxDay,
                    rows: [Churches -> Sub \cup {NoSub}]]
    BY DEF NoCron
  <1>3. NewRequest \in Request
    BY DEF NewRequest, Request
  <1>4. TypeOK
    BY <1>1, <1>2, <1>3, IdleType DEF TypeOK, BillingTypeOK
  <1>5. Rows /\ Links /\ Handled /\ Nightly /\ Asked
    BY <1>1, HeldIdle
    DEF Rows, Links, Handled, Nightly, Asked, Lawful, Consented, NewSub, NoCron,
        NewRequest
  <1> QED BY <1>4, <1>5 DEF Inv

-----------------------------------------------------------------------------
(* Steps that touch neither a subscription nor a handler *)

LEMMA InvCheckout ==
  ASSUME Inv, NEW s \in Sessions, Checkout(s), UNCHANGED linkVars
  PROVE  Inv'
  <1> USE DEF linkVars
  <1>1. /\ UNCHANGED <<now, subs, work, cron, funded, credits, crashes>>
        /\ UNCHANGED linkVars
    BY DEF Checkout, StartCheckout, VendorPays, VendorDeclines, VendorStops,
           ChargeFailed, RefundSession
  <1>2. sessions' \in [Sessions -> {"none", "PENDING", "COMPLETED", "FAILED", "REFUNDED"}]
    BY DEF Inv, TypeOK, BillingTypeOK, Checkout, StartCheckout, VendorPays,
           VendorDeclines, VendorStops, ChargeFailed, RefundSession
  <1>3. vendor' \in [Sessions -> [events: SUBSET Events, due: Days \cup {NoDay}]]
    <2>1. ASSUME NEW e \in SUBSET Events, NEW due \in Days \cup {NoDay}, Emit(s, e, due)
          PROVE  vendor' \in [Sessions -> [events: SUBSET Events, due: Days \cup {NoDay}]]
      BY <2>1 DEF Emit, Inv, TypeOK, BillingTypeOK
    <2>2. now + Period \in Days
      BY SubscriptionAssumption DEF Inv, TypeOK, BillingTypeOK, Days
    <2>3. vendor[s].due \in Days \cup {NoDay}
      BY DEF Inv, TypeOK, BillingTypeOK
    <2>4. CASE vendor' = vendor
      BY <2>4 DEF Inv, TypeOK, BillingTypeOK
    <2>5. CASE VendorPays(s)
      BY <2>1, <2>2, <2>5 DEF VendorPays, Events
    <2>6. CASE VendorDeclines(s)
      BY <2>1, <2>6 DEF VendorDeclines, Events
    <2>7. CASE VendorStops(s)
      BY <2>1, <2>3, <2>7 DEF VendorStops, Events
    <2> QED BY <2>4, <2>5, <2>6, <2>7
            DEF Checkout, StartCheckout, ChargeFailed, RefundSession
  <1>4. TypeOK' /\ Asked'
    BY <1>1, <1>2, <1>3 DEF Inv, TypeOK, BillingTypeOK, Asked
  <1> QED BY <1>1, <1>4, StepLemma DEF Grows, Nightly

LEMMA InvClock ==
  ASSUME Inv, Tick \/ Crash, UNCHANGED linkVars
  PROVE  Inv'
  <1> USE DEF linkVars
  <1>1. CASE Tick
    <2>1. TypeOK' /\ Asked'
      BY <1>1, SubscriptionAssumption DEF Tick, Inv, TypeOK, BillingTypeOK, Asked
    <2> QED BY <1>1, <2>1, StepLemma DEF Tick, Grows
  <1>2. CASE Crash
    <2>1. /\ NoCron \in [pc: {"idle", "lapsed", "review"}, at: 0..MaxDay,
                         rows: [Churches -> Sub \cup {NoSub}]]
          /\ \A c \in Churches : NoCron.rows[c] = NoSub
      BY SubscriptionAssumption DEF NoCron
    <2>2. TypeOK' /\ Asked'
      BY <1>2, <2>1, IdleType, SubscriptionAssumption
      DEF Crash, Inv, TypeOK, BillingTypeOK, Asked
    <2> QED BY <1>2, <2>1, <2>2, HeldIdle, StepLemma DEF Crash, Grows
  <1> QED BY <1>1, <1>2

-----------------------------------------------------------------------------
(* Reading a subscription *)

LEMMA InvRead ==
  ASSUME Inv, NEW h \in Handlers, NEW op \in Ops, NEW c \in Churches, NEW ref \in Refs,
         Hold(h, op, c, ref),
         op \in {"charge", "stopped", "created", "cancel", "grant", "discount"},
         op \in {"charge", "stopped", "created"} => ref \in Sessions,
         op = "charge" => c = Buyer[ref],
         UNCHANGED <<now, subs, sessions, vendor, cron, funded, credits, crashes>>,
         UNCHANGED linkVars
  PROVE  Inv'
  <1>0. TypeOK
    BY DEF Inv
  <1> DEFINE w == [op |-> op, church |-> c, row |-> subs[c], ref |-> ref]
  <1>1. /\ work' \in [Handlers -> Work] /\ work'[h] = w
        /\ \A g \in Handlers \ {h} : work'[g] = work[g]
    BY <1>0, HoldLemma
  <1>2. Held(w, requests', funded', agreed')
    BY DEF Held, Billed, Answering, Accepting, Inv, Rows, linkVars
  <1>3. TypeOK' /\ Asked'
    BY <1>1 DEF Inv, TypeOK, BillingTypeOK, Asked, linkVars
  <1> QED BY <1>1, <1>2, <1>3, StepLemma DEF Grows, linkVars

LEMMA InvStart ==
  ASSUME Inv, NEW h \in Handlers, Start(h), UNCHANGED linkVars
  PROVE  Inv'
  <1>1. ASSUME NEW s \in Sessions, ChargeRead(h, s)
        PROVE  Inv'
    <2>1. Buyer[s] \in Churches
      BY SubscriptionAssumption
    <2> QED BY <1>1, <2>1, InvRead DEF ChargeRead, Ops, Refs
  <1>2. ASSUME NEW s \in Sessions, StoppedRead(h, s)
        PROVE  Inv'
    <2>1. PICK c \in Churches : Hold(h, "stopped", c, s)
      BY <1>2 DEF StoppedRead
    <2> QED BY <1>2, <2>1, InvRead DEF StoppedRead, Ops, Refs
  <1>3. ASSUME NEW s \in Sessions, CreatedRead(h, s)
        PROVE  Inv'
    <2>1. Buyer[s] \in Churches
      BY SubscriptionAssumption
    <2> QED BY <1>3, <2>1, InvRead DEF CreatedRead, Ops, Refs
  <1>4. ASSUME NEW c \in Churches, CancelRead(h, c)
        PROVE  Inv'
    BY <1>4, InvRead DEF CancelRead, Ops, Refs
  <1>5. ASSUME NEW c \in Churches, GrantRead(h, c)
        PROVE  Inv'
    BY <1>5, InvRead DEF GrantRead, Ops, Refs
  <1>6. ASSUME NEW c \in Churches, DiscountRead(h, c)
        PROVE  Inv'
    BY <1>6, InvRead DEF DiscountRead, Ops, Refs
  <1> QED BY <1>1, <1>2, <1>3, <1>4, <1>5, <1>6 DEF Start

-----------------------------------------------------------------------------
(* Saving a subscription *)

LEMMA InvSave ==
  ASSUME Inv, NEW h \in Handlers, NEW row, Save(h, row),
         work[h].church \in Churches,
         Lawful(work[h].church, row, funded', agreed'),
         funded \subseteq funded', funded' \in SUBSET (Churches \X Plans),
         sessions' \in [Sessions -> {"none", "PENDING", "COMPLETED", "FAILED", "REFUNDED"}],
         credits' \in [Sessions -> Nat],
         UNCHANGED <<now, vendor, cron, crashes>>, UNCHANGED linkVars
  PROVE  Inv'
  <1> USE DEF linkVars
  <1>0. TypeOK /\ row \in Sub
    BY DEF Inv, Lawful
  <1>1. /\ subs' \in [Churches -> Sub]
        /\ subs'[work[h].church] = row
        /\ \A c \in Churches \ {work[h].church} : subs'[c] = subs[c]
        /\ work' \in [Handlers -> Work]
        /\ work'[h] = Idle
        /\ \A g \in Handlers \ {h} : work'[g] = work[g]
    BY <1>0, SaveLemma
  <1>2. TypeOK' /\ Asked'
    BY <1>1 DEF Inv, TypeOK, BillingTypeOK, Asked
  <1> QED BY <1>1, <1>2, HeldIdle, StepLemma DEF Grows



\* Every row a handler is about to save is one that may stand in the table.
LEMMA InvContinue ==
  ASSUME Inv, NEW h \in Handlers, Continue(h), UNCHANGED linkVars
  PROVE  Inv'
  <1> DEFINE c == work[h].church
             row == work[h].row
             s == work[h].ref
  <1>1. /\ TypeOK /\ Held(work[h], requests, funded, agreed)
        /\ UNCHANGED <<requests, agreed>>
    BY DEF Inv, Handled, linkVars
  <1>2. /\ now + Period \in Days /\ Free \in Plans
        /\ NoDay \notin Days /\ \A d \in Days : d # NoDay
        /\ Bought \in [Sessions -> Plans]
    BY <1>1, SubscriptionAssumption DEF TypeOK, BillingTypeOK, Days
  <1>3. CASE ChargeCommit(h)
    <2> DEFINE new == [row EXCEPT !.plan = Bought[s], !.status = "ACTIVE",
                                  !.end = now + Period]
    <2>1. /\ work[h].op = "charge" /\ Save(h, new)
          /\ funded' = funded \cup {<<Buyer[s], Bought[s]>>}
          /\ sessions' = [sessions EXCEPT ![s] = "COMPLETED"]
          /\ credits' = [credits EXCEPT ![s] = @ + 1]
          /\ UNCHANGED <<now, vendor, cron, crashes>>
      BY <1>3 DEF ChargeCommit
    <2>2. /\ c \in Churches /\ s \in Sessions /\ c = Buyer[s]
          /\ Lawful(c, row, funded, agreed)
      BY <1>1, <2>1 DEF Held, Billed
    <2>3. new \in Sub /\ new.plan = Bought[s] /\ new.status = "ACTIVE"
          /\ new.sponsor = row.sponsor
      BY <1>2, <2>2 DEF Lawful, Sub, Status
    <2>4. Lawful(c, new, funded', agreed')
      BY <1>1, <2>1, <2>2, <2>3 DEF Lawful, Supported
    <2>5. /\ funded' \in SUBSET (Churches \X Plans)
          /\ sessions' \in [Sessions -> {"none", "PENDING", "COMPLETED", "FAILED", "REFUNDED"}]
          /\ credits' \in [Sessions -> Nat]
      BY <1>1, <1>2, <2>1, <2>2 DEF TypeOK, BillingTypeOK
    <2> HIDE DEF new
    <2> QED BY <2>1, <2>2, <2>4, <2>5, InvSave
  <1>4. ASSUME NEW new, Save(h, new), c \in Churches,
               Lawful(c, new, funded, agreed),
               UNCHANGED <<now, sessions, vendor, cron, funded, credits, crashes>>
        PROVE  Inv'
    BY <1>1, <1>4, InvSave DEF TypeOK, BillingTypeOK
  <1>5. work[h].op \in Billed => c \in Churches /\ Lawful(c, row, funded, agreed)
    BY <1>1 DEF Held, Billed
  <1>6. CASE StoppedSave(h)
    <2>1. Lawful(c, ToFree(row), funded, agreed)
      BY <1>2, <1>5, <1>6 DEF StoppedSave, Billed, ToFree, Lawful, Sub, Status
    <2> QED BY <1>4, <1>5, <1>6, <2>1 DEF StoppedSave, Billed
  <1>7. CASE CreatedSave(h)
    <2>1. s \in Sessions /\ vendor[s].due \in Days \cup {NoDay}
      BY <1>1, <1>7 DEF CreatedSave, Held, TypeOK, BillingTypeOK
    <2>2. Lawful(c, [row EXCEPT !.code = s, !.end = PeriodEnd(row, vendor[s].due)],
                 funded, agreed)
      BY <1>2, <1>5, <1>7, <2>1 DEF CreatedSave, Billed, PeriodEnd, Lawful, Sub
    <2> QED BY <1>4, <1>5, <1>7, <2>2 DEF CreatedSave, Billed
  <1>8. CASE CancelSave(h)
    <2>1. /\ Lawful(c, [row EXCEPT !.cancelAt = TRUE], funded, agreed)
          /\ Lawful(c, [ToFree(row) EXCEPT !.cancelAt = FALSE], funded, agreed)
      BY <1>2, <1>5, <1>8 DEF CancelSave, Billed, ToFree, Lawful, Sub, Status
    <2> QED BY <1>4, <1>5, <1>8, <2>1 DEF CancelSave, Billed
  <1>9. CASE DiscountSave(h)
    BY <1>4, <1>5, <1>9 DEF DiscountSave, Billed
  <1>10. CASE GrantSave(h)
    <2>1. PICK p \in Plans : /\ Save(h, Granted(row, p))
                             /\ funded' = funded \cup {<<c, p>>}
      BY <1>10 DEF GrantSave
    <2>2. c \in Churches /\ Lawful(c, row, funded, agreed)
      BY <1>5, <1>10 DEF GrantSave, Billed
    <2>3. Lawful(c, Granted(row, p), funded', agreed')
      BY <1>1, <2>1, <2>2 DEF Granted, Lawful, Supported, Sub, Status
    <2>4. funded' \in SUBSET (Churches \X Plans)
      BY <1>1, <2>1, <2>2 DEF TypeOK, BillingTypeOK
    <2> QED BY <1>1, <1>10, <2>1, <2>2, <2>3, <2>4, InvSave
            DEF GrantSave, TypeOK, BillingTypeOK
  <1>11. CASE CancelAtVendor(h)
    <2>1. work[h] \in Work /\ work[h].op = "cancel"
      BY <1>1, <1>11 DEF CancelAtVendor, TypeOK
    <2>2. /\ work'[h] = [work[h] EXCEPT !.op = "cancelling"]
          /\ work' \in [Handlers -> Work]
          /\ \A g \in Handlers \ {h} : work'[g] = work[g]
      BY <1>1, <1>11, <2>1 DEF CancelAtVendor, TypeOK, Work, Ops
    <2>3. Held(work'[h], requests', funded', agreed')
      BY <1>1, <1>11, <2>1, <2>2
      DEF CancelAtVendor, Held, Billed, Answering, Accepting, Work
    <2>4. vendor' \in [Sessions -> [events: SUBSET Events, due: Days \cup {NoDay}]]
      BY <1>1, <1>11 DEF CancelAtVendor, Emit, Events, TypeOK, BillingTypeOK
    <2>5. TypeOK' /\ Asked'
      BY <1>1, <1>11, <2>2, <2>4
      DEF CancelAtVendor, Inv, TypeOK, BillingTypeOK, Asked, linkVars
    <2> QED BY <1>1, <1>11, <2>2, <2>3, <2>5, StepLemma
            DEF CancelAtVendor, Grows, linkVars
  <1> QED BY <1>3, <1>6, <1>7, <1>8, <1>9, <1>10, <1>11 DEF Continue


-----------------------------------------------------------------------------
(* The lapse job *)

LEMMA InvCronSave ==
  ASSUME Inv, NEW c \in Churches, NEW row, CronSave(c, row),
         Lawful(c, row, funded, agreed),
         UNCHANGED <<now, sessions, vendor, work, funded, credits, crashes>>,
         UNCHANGED linkVars
  PROVE  Inv'
  <1> USE DEF linkVars
  <1>1. /\ subs' = [subs EXCEPT ![c] = row]
        /\ cron' = [cron EXCEPT !.rows[c] = NoSub]
        /\ row \in Sub /\ subs \in [Churches -> Sub]
        /\ cron \in [pc: {"idle", "lapsed", "review"}, at: 0..MaxDay,
                     rows: [Churches -> Sub \cup {NoSub}]]
    BY DEF Inv, TypeOK, BillingTypeOK, CronSave, Lawful
  <1>2. /\ subs' \in [Churches -> Sub]
        /\ cron' \in [pc: {"idle", "lapsed", "review"}, at: 0..MaxDay,
                      rows: [Churches -> Sub \cup {NoSub}]]
        /\ cron'.pc = cron.pc /\ cron'.rows[c] = NoSub
        /\ \A d \in Churches \ {c} : cron'.rows[d] = cron.rows[d]
    BY <1>1
  <1>3. TypeOK' /\ Asked'
    BY <1>2 DEF Inv, TypeOK, BillingTypeOK, Asked
  <1> QED BY <1>1, <1>2, <1>3, StepLemma DEF Grows

\* The rows a query returns are rows of the table.
LEMMA SnapshotLemma ==
  ASSUME Inv, NEW found \in SUBSET Churches
  PROVE  /\ Snapshot(found) \in [Churches -> Sub \cup {NoSub}]
         /\ \A c \in Churches :
              \/ Snapshot(found)[c] = NoSub
              \/ c \in found /\ Snapshot(found)[c] = subs[c]
  BY DEF Snapshot, Inv, TypeOK, BillingTypeOK

LEMMA InvCron ==
  ASSUME Inv, CronStep, UNCHANGED linkVars
  PROVE  Inv'
  <1> USE DEF linkVars
  <1>1. ASSUME CronStart \/ CronReview
        PROVE  Inv'
    <2>1. PICK found \in SUBSET Churches :
            /\ cron'.rows = Snapshot(found)
            /\ cron'.pc = "lapsed" => \A c \in found : Lapsed(c)
            /\ cron' \in [pc: {"lapsed", "review"}, at: 0..MaxDay,
                          rows: {Snapshot(found)}]
      <3>1. CASE CronStart
        <4>1. cron' = [pc |-> "lapsed", at |-> now,
                       rows |-> Snapshot({c \in Churches : Lapsed(c)})]
          BY <3>1 DEF CronStart
        <4>2. now \in 0..MaxDay
          BY DEF Inv, TypeOK, BillingTypeOK
        <4> QED BY <4>1, <4>2
      <3>2. CASE CronReview
        <4>1. cron' = [cron EXCEPT !.pc = "review",
                                   !.rows = Snapshot({c \in Churches : GraceOver(c)})]
          BY <3>2 DEF CronReview
        <4>2. cron \in [pc: {"idle", "lapsed", "review"}, at: 0..MaxDay,
                        rows: [Churches -> Sub \cup {NoSub}]]
          BY DEF Inv, TypeOK, BillingTypeOK
        <4>3. /\ cron'.pc = "review" /\ cron'.at = cron.at
              /\ cron'.rows = Snapshot({c \in Churches : GraceOver(c)})
              /\ cron' = [pc |-> cron'.pc, at |-> cron'.at, rows |-> cron'.rows]
          BY <4>1, <4>2
        <4> QED BY <4>2, <4>3
      <3> QED BY <1>1, <3>1, <3>2
    <2>2. UNCHANGED <<now, subs, sessions, vendor, work, funded, credits, crashes>>
      BY <1>1 DEF CronStart, CronReview
    <2>3. TypeOK' /\ Asked'
      BY <2>1, <2>2, SnapshotLemma DEF Inv, TypeOK, BillingTypeOK, Asked
    <2>4. \A c \in Churches :
            \/ cron'.rows[c] = NoSub
            \/ /\ Lawful(c, cron'.rows[c], funded', agreed')
               /\ cron'.pc = "lapsed" => cron'.rows[c].end # NoDay
      BY <2>1, <2>2, SnapshotLemma DEF Inv, Rows, Lapsed
    <2> QED BY <2>2, <2>3, <2>4, StepLemma DEF Grows
  <1>2. ASSUME NEW c \in Churches, CronLapse(c)
        PROVE  Inv'
    <2> DEFINE row == cron.rows[c]
    <2>1. Lawful(c, row, funded, agreed) /\ row.end # NoDay
      BY <1>2 DEF CronLapse, CronSave, Inv, Nightly
    <2>2. /\ Lawful(c, Downgraded(row), funded, agreed)
          /\ Lawful(c, [row EXCEPT !.status = "PAST_DUE"], funded, agreed)
      BY <2>1, SubscriptionAssumption DEF Downgraded, ToFree, Lawful, Sub, Status
    <2> QED BY <1>2, <2>2, InvCronSave DEF CronLapse
  <1>3. ASSUME NEW c \in Churches, CronDowngrade(c)
        PROVE  Inv'
    <2>1. Lawful(c, cron.rows[c], funded, agreed)
      BY <1>3 DEF CronDowngrade, CronSave, Inv, Nightly
    <2>2. Lawful(c, Downgraded(cron.rows[c]), funded, agreed)
      BY <2>1, SubscriptionAssumption DEF Downgraded, ToFree, Lawful, Sub, Status
    <2> QED BY <1>3, <2>2, InvCronSave DEF CronDowngrade
  <1>4. CASE CronEnd
    <2>1. /\ NoCron \in [pc: {"idle", "lapsed", "review"}, at: 0..MaxDay,
                         rows: [Churches -> Sub \cup {NoSub}]]
          /\ \A c \in Churches : NoCron.rows[c] = NoSub
      BY SubscriptionAssumption DEF NoCron
    <2>2. TypeOK' /\ Asked'
      BY <1>4, <2>1 DEF CronEnd, Inv, TypeOK, BillingTypeOK, Asked
    <2> QED BY <1>4, <2>1, <2>2, StepLemma DEF CronEnd, Grows
  <1> QED BY <1>1, <1>2, <1>3, <1>4 DEF CronStep


-----------------------------------------------------------------------------
(* Branch links *)

\* A handler that starts, or goes on to its next await, in the state w.
LEMMA InvMove ==
  ASSUME Inv, NEW h \in Handlers, NEW w \in Work,
         work' = [work EXCEPT ![h] = w],
         Held(w, requests', funded', agreed'),
         Grows, Asked',
         requests' \in [Requests -> Request],
         agreed' \in SUBSET (Churches \X Churches \X BOOLEAN),
         parent' \in [Churches -> Churches \cup {Nobody}],
         \A c \in Churches : \/ parent'[c] = parent[c]
                             \/ Consented(c, parent'[c], agreed'),
         UNCHANGED subs, Untouched
  PROVE  Inv'
  <1> USE DEF Untouched
  <1>1. /\ work' \in [Handlers -> Work] /\ work'[h] = w
        /\ \A g \in Handlers \ {h} : work'[g] = work[g]
    BY DEF Inv, TypeOK
  <1>2. TypeOK'
    BY <1>1 DEF Inv, TypeOK, BillingTypeOK
  <1> QED BY <1>1, <1>2, StepLemma

LEMMA InvOffer ==
  ASSUME Inv, NEW q \in Requests, NEW p \in Churches, NEW c \in Churches,
         NEW sponsored \in BOOLEAN, OfferLink(q, p, c, sponsored)
  PROVE  Inv'
  <1>1. /\ requests[q].status = "none"
        /\ requests' = [requests EXCEPT ![q] =
             [from |-> p, to |-> c, sponsor |-> sponsored, status |-> "PENDING"]]
        /\ requests \in [Requests -> Request]
        /\ UNCHANGED <<billingVars, parent, agreed>>
    BY DEF OfferLink, Inv, TypeOK
  <1>2. requests' \in [Requests -> Request] /\ Asked'
    BY <1>1 DEF Request, Inv, Asked
  <1>3. TypeOK' /\ Grows
    BY <1>1, <1>2 DEF Inv, TypeOK, BillingTypeOK, billingVars, Grows
  <1> QED BY <1>1, <1>2, <1>3, StepLemma DEF billingVars

LEMMA InvLinkStart ==
  ASSUME Inv, NEW h \in Handlers, LinkStart(h)
  PROVE  Inv'
  <1>0. TypeOK /\ Asked /\ Links
    BY DEF Inv
  <1>1. ASSUME NEW q \in Requests, CloseRead(h, q)
        PROVE  Inv'
    <2>1. PICK op \in {"revoke", "decline"} : Begin(h, op, requests[q].to, q)
      BY <1>1 DEF CloseRead
    <2> DEFINE w == [op |-> op, church |-> requests[q].to, row |-> NoSub, ref |-> q]
    <2>2. w \in Work
      BY <1>0, <1>1 DEF CloseRead, Asked, Work, Ops
    <2>3. Held(w, requests, funded, agreed)
      BY <1>0, <1>1 DEF CloseRead, Asked, Held, Billed, Answering, Accepting
    <2> HIDE DEF w
    <2>4. work' = [work EXCEPT ![h] = w]
      BY <2>1 DEF Begin, w
    <2> QED BY <1>0, <1>1, <2>2, <2>3, <2>4, InvMove
            DEF CloseRead, linkVars, Grows, Untouched, TypeOK, Asked
  <1>2. ASSUME NEW q \in Requests, AcceptRead(h, q)
        PROVE  Inv'
    <2> DEFINE w == [op |-> "accept", church |-> requests[q].to, row |-> NoSub,
                     ref |-> q]
    <2>1. w \in Work
      BY <1>0, <1>2 DEF AcceptRead, Asked, Work, Ops
    <2>2. /\ requests[q].from \in Churches /\ requests[q].to \in Churches
          /\ requests[q].sponsor \in BOOLEAN
          /\ agreed' = agreed \cup
               {<<requests[q].from, requests[q].to, requests[q].sponsor>>}
      BY <1>0, <1>2 DEF AcceptRead, Asked, TypeOK, Request
    <2>3. Held(w, requests, funded, agreed')
      BY <1>0, <1>2, <2>2 DEF AcceptRead, Held, Billed, Answering, Accepting
    <2>4. agreed' \in SUBSET (Churches \X Churches \X BOOLEAN)
      BY <1>0, <2>2 DEF TypeOK
    <2> HIDE DEF w
    <2>5. work' = [work EXCEPT ![h] = w]
      BY <1>2 DEF AcceptRead, Begin, w
    <2> QED BY <1>0, <1>2, <2>1, <2>2, <2>3, <2>4, <2>5, InvMove
            DEF AcceptRead, Grows, Untouched, TypeOK, Asked
  <1>3. ASSUME NEW c \in Churches, UnlinkRead(h, c)
        PROVE  Inv'
    <2> DEFINE w == [op |-> "unlink", church |-> c, row |-> NoSub, ref |-> parent[c]]
    <2>1. w \in Work
      BY <1>0 DEF TypeOK, Work, Ops
    <2>2. Held(w, requests, funded, agreed)
      BY DEF Held, Billed, Answering, Accepting
    <2> HIDE DEF w
    <2>3. work' = [work EXCEPT ![h] = w]
      BY <1>3 DEF UnlinkRead, Begin, w
    <2> QED BY <1>0, <1>3, <2>1, <2>2, <2>3, InvMove
            DEF UnlinkRead, linkVars, Grows, Untouched, TypeOK, Asked
  <1>4. ASSUME NEW c \in Churches, EditRead(h, c)
        PROVE  Inv'
    <2> DEFINE w == [op |-> "edit", church |-> c, row |-> NoSub, ref |-> parent[c]]
    <2>1. w \in Work
      BY <1>0 DEF TypeOK, Work, Ops
    <2>2. Held(w, requests, funded, agreed)
      BY <1>0 DEF Held, Billed, Answering, Accepting, Links, TypeOK
    <2> HIDE DEF w
    <2>3. work' = [work EXCEPT ![h] = w]
      BY <1>4 DEF EditRead, Begin, w
    <2> QED BY <1>0, <1>4, <2>1, <2>2, <2>3, InvMove
            DEF EditRead, linkVars, Grows, Untouched, TypeOK, Asked
  <1> QED BY <1>1, <1>2, <1>3, <1>4 DEF LinkStart


LEMMA InvLinkContinue ==
  ASSUME Inv, NEW h \in Handlers, LinkContinue(h)
  PROVE  Inv'
  <1> DEFINE c == work[h].church
             q == work[h].ref
  <1>0. /\ TypeOK /\ Asked /\ Links /\ Rows
        /\ Held(work[h], requests, funded, agreed)
        /\ work[h] \in Work
        /\ requests \in [Requests -> Request]
        /\ agreed \in SUBSET (Churches \X Churches \X BOOLEAN)
        /\ parent \in [Churches -> Churches \cup {Nobody}]
        /\ subs \in [Churches -> Sub]
    BY DEF Inv, Handled, TypeOK, BillingTypeOK
  <1>1. work[h].op \in Answering =>
          /\ q \in Requests /\ c \in Churches /\ requests[q].to = c
          /\ requests[q].from \in Churches
          /\ requests[q].status # "none"
    BY <1>0 DEF Held, Answering, Accepting, Asked
  <1>2. \A op \in Ops : [work[h] EXCEPT !.op = op] \in Work
    BY <1>0 DEF Work
  <1>3. ASSUME Answer(h), UNCHANGED <<parent, agreed>>, UNCHANGED subs, Untouched,
               Grows, Asked', requests' \in [Requests -> Request]
        PROVE  Inv'
    BY <1>0, <1>3, IdleType, HeldIdle, InvMove DEF Answer
  <1>4. ASSUME NEW status \in {"ACCEPTED", "DECLINED", "REVOKED"},
               requests' = [requests EXCEPT ![q].status = status],
               work[h].op \in Answering, UNCHANGED <<funded, agreed>>
        PROVE  Grows /\ Asked' /\ requests' \in [Requests -> Request]
    BY <1>0, <1>1, <1>4 DEF Request, Grows, Asked
  <1>5. CASE CloseSave(h)
    <2>1. PICK status \in {"DECLINED", "REVOKED"} :
            requests' = [requests EXCEPT ![q].status = status]
      BY <1>5 DEF CloseSave
    <2>2. Grows /\ Asked' /\ requests' \in [Requests -> Request]
      BY <1>4, <1>5, <2>1 DEF CloseSave, Untouched, Answering
    <2> QED BY <1>3, <1>5, <2>2 DEF CloseSave
  <1>6. CASE AcceptLink(h)
    <2> DEFINE w == [work[h] EXCEPT !.op = "respond"]
    <2>1. /\ work[h].op = "accept" /\ w.op = "respond"
          /\ w.church = c /\ w.ref = q
          /\ parent' = [parent EXCEPT ![requests[q].to] = requests[q].from]
          /\ UNCHANGED <<subs, requests, agreed>> /\ Untouched
      BY <1>0, <1>6 DEF AcceptLink, LinkTarget, Work
    <2>2. w \in Work
      BY <1>2 DEF Ops
    <2>3. Held(w, requests, funded, agreed)
      BY <1>0, <2>1 DEF Held, Billed, Answering, Accepting
    <2>4. /\ parent' \in [Churches -> Churches \cup {Nobody}]
          /\ \A d \in Churches : \/ parent'[d] = parent[d]
                                 \/ Consented(d, parent'[d], agreed')
      <3>1. <<requests[q].from, c, requests[q].sponsor>> \in agreed
        BY <1>0, <2>1 DEF Held, Accepting
      <3>2. requests[q].sponsor \in BOOLEAN
        BY <1>0, <1>1, <2>1 DEF Request, Answering, Accepting
      <3> QED BY <1>0, <1>1, <2>1, <3>1, <3>2 DEF Consented, Answering, Accepting
    <2> HIDE DEF w
    <2>5. work' = [work EXCEPT ![h] = w]
      BY <1>0, <1>6 DEF AcceptLink, Go, w, TypeOK
    <2> QED BY <1>0, <2>1, <2>2, <2>3, <2>4, <2>5, InvMove
            DEF Grows, Untouched, Asked
  <1>7. CASE AcceptRespond(h)
    <2>1. /\ work[h].op = "respond"
          /\ requests' = [requests EXCEPT ![q].status = "ACCEPTED"]
          /\ UNCHANGED <<subs, parent, agreed>> /\ Untouched
      BY <1>7 DEF AcceptRespond
    <2>2. Grows /\ Asked' /\ requests' \in [Requests -> Request]
      BY <1>4, <2>1 DEF Untouched, Answering, Accepting
    <2>3. CASE Answer(h)
      BY <1>3, <2>1, <2>2, <2>3
    <2>4. CASE Go(h, "sponsor") /\ requests[q].sponsor
      <3> DEFINE w == [work[h] EXCEPT !.op = "sponsor"]
      <3>1. w \in Work
        BY <1>2 DEF Ops
      <3>2. Held(w, requests, funded, agreed)
        BY <1>0, <1>1, <2>1, <2>4
        DEF Held, Billed, Answering, Accepting, Work, Request
      <3>3. Held(w, requests', funded', agreed')
        BY <2>2, <3>2, HeldGrows
      <3> HIDE DEF w
      <3>4. work' = [work EXCEPT ![h] = w]
        BY <1>0, <2>4 DEF Go, w, TypeOK
      <3> QED BY <1>0, <2>1, <2>2, <3>1, <3>3, <3>4, InvMove
    <2> QED BY <1>7, <2>3, <2>4 DEF AcceptRespond, WantsSponsor
  <1>8. CASE SponsorRead(h)
    <2> DEFINE p == requests[q].from
    <2>1. /\ work[h].op = "sponsor" /\ c \in Churches /\ p \in Churches
          /\ UNCHANGED <<subs, requests, parent, agreed>> /\ Untouched
          /\ Grows /\ Asked' /\ requests' \in [Requests -> Request]
      BY <1>0, <1>1, <1>8
      DEF SponsorRead, linkVars, Answering, Accepting, Grows, Untouched, Asked
    <2>2. CASE subs[p].plan = Free
      BY <1>3, <1>8, <2>1, <2>2 DEF SponsorRead
    <2>3. CASE subs[p].plan # Free
      <3> DEFINE row == [subs[c] EXCEPT !.plan = subs[p].plan]
                 w == [work[h] EXCEPT !.op = "sponsoring", !.row = row]
      <3>1. row \in Sub /\ row.plan = subs[p].plan
        BY <1>0, <2>1 DEF Sub
      <3>2. /\ w \in Work /\ w.op = "sponsoring" /\ w.row = row
            /\ w.church = c /\ w.ref = q
        BY <1>0, <3>1 DEF Work, Ops
      <3>3. Supported(c, row.plan, funded, agreed)
        <4>1. Supported(p, row.plan, funded, agreed)
          BY <1>0, <2>1, <2>3, <3>1 DEF Rows, Lawful
        <4>2. <<p, c, TRUE>> \in agreed
          BY <1>0, <2>1 DEF Held, Accepting
        <4> QED BY <2>1, <4>1, <4>2 DEF Supported
      <3>4. Held(w, requests', funded', agreed')
        <4> HIDE DEF row, w
        <4> QED BY <1>0, <2>1, <3>1, <3>2, <3>3
                DEF Held, Billed, Answering, Accepting, Untouched
      <3>5. work' = [work EXCEPT ![h] = w]
        BY <1>0, <1>8, <2>3 DEF SponsorRead, TypeOK
      <3> HIDE DEF w
      <3> QED BY <1>0, <2>1, <3>2, <3>4, <3>5, InvMove
    <2> QED BY <2>2, <2>3
  <1>9. CASE SponsorSave(h)
    <2> DEFINE row == [work[h].row EXCEPT !.status = "ACTIVE", !.cancelAt = FALSE,
                                          !.sponsor = requests[q].from]
    <2>1. /\ work[h].op = "sponsoring" /\ Save(h, row)
          /\ UNCHANGED linkVars /\ Untouched
      BY <1>9 DEF SponsorSave
    <2>2. /\ c \in Churches /\ requests[q].from \in Churches
          /\ work[h].row \in Sub
          /\ Supported(c, work[h].row.plan, funded, agreed)
          /\ <<requests[q].from, c, TRUE>> \in agreed
      BY <1>0, <1>1, <2>1 DEF Held, Answering, Accepting
    <2>3. Lawful(c, row, funded, agreed)
      BY <2>2 DEF Lawful, Sub, Status
    <2> HIDE DEF row
    <2> QED BY <1>0, <2>1, <2>2, <2>3, InvSave
            DEF Untouched, linkVars, TypeOK, BillingTypeOK
  <1>10. CASE UnlinkSave(h)
    <2> DEFINE w == [work[h] EXCEPT !.op = "unsponsor"]
    <2>1. /\ work[h].op = "unlink" /\ c \in Churches
          /\ parent' = [parent EXCEPT ![c] = Nobody]
          /\ UNCHANGED <<subs, requests, agreed>> /\ Untouched
      BY <1>0, <1>10 DEF UnlinkSave, Held
    <2>2. w \in Work
      BY <1>2 DEF Ops
    <2>3. Held(w, requests, funded, agreed)
      BY <1>0, <2>1 DEF Held, Billed, Answering, Accepting, Work
    <2>4. /\ parent' \in [Churches -> Churches \cup {Nobody}]
          /\ \A d \in Churches : \/ parent'[d] = parent[d]
                                 \/ Consented(d, parent'[d], agreed')
      BY <1>0, <2>1 DEF Consented
    <2> HIDE DEF w
    <2>5. work' = [work EXCEPT ![h] = w]
      BY <1>0, <1>10 DEF UnlinkSave, Go, w, TypeOK
    <2> QED BY <1>0, <2>1, <2>2, <2>3, <2>4, <2>5, InvMove
            DEF Grows, Untouched, Asked
  <1>11. CASE UnsponsorRead(h)
    <2>1. /\ work[h].op = "unsponsor" /\ c \in Churches
          /\ UNCHANGED <<subs, requests, parent, agreed>> /\ Untouched
          /\ Grows /\ Asked' /\ requests' \in [Requests -> Request]
      BY <1>0, <1>11 DEF UnsponsorRead, Held, linkVars, Grows, Untouched, Asked
    <2>2. CASE Answer(h)
      BY <1>3, <2>1, <2>2
    <2>3. CASE Take(h, "unsponsoring")
      <3> DEFINE w == [work[h] EXCEPT !.op = "unsponsoring", !.row = subs[c]]
      <3>1. /\ w \in Work /\ w.op = "unsponsoring" /\ w.row = subs[c]
            /\ w.church = c
        BY <1>0, <2>1 DEF Work, Ops
      <3>2. Held(w, requests', funded', agreed')
        <4> HIDE DEF w
        <4> QED BY <1>0, <2>1, <3>1
                DEF Held, Billed, Answering, Accepting, Rows, Untouched
      <3>3. work' = [work EXCEPT ![h] = w]
        BY <1>0, <2>3 DEF Take, TypeOK
      <3> HIDE DEF w
      <3> QED BY <1>0, <2>1, <3>1, <3>2, <3>3, InvMove
    <2> QED BY <1>11, <2>2, <2>3 DEF UnsponsorRead
  <1>12. CASE UnsponsorSave(h)
    <2> DEFINE row == [ToFree(work[h].row) EXCEPT !.sponsor = Nobody]
    <2>1. /\ work[h].op = "unsponsoring" /\ Save(h, row)
          /\ UNCHANGED linkVars /\ Untouched
      BY <1>12 DEF UnsponsorSave
    <2>2. c \in Churches /\ Lawful(c, work[h].row, funded, agreed)
      BY <1>0, <2>1 DEF Held, Billed
    <2>3. Lawful(c, row, funded, agreed)
      BY <2>2, SubscriptionAssumption DEF Lawful, ToFree, Sub, Status
    <2> HIDE DEF row
    <2> QED BY <1>0, <2>1, <2>2, <2>3, InvSave
            DEF Untouched, linkVars, TypeOK, BillingTypeOK
  <1>13. CASE EditSave(h)
    <2>1. /\ work[h].op = "edit" /\ c \in Churches /\ q \in Churches \cup {Nobody}
          /\ Consented(c, q, agreed)
          /\ parent' = [parent EXCEPT ![c] = q]
          /\ Answer(h) /\ UNCHANGED <<subs, requests, agreed>> /\ Untouched
      BY <1>0, <1>13 DEF EditSave, Held
    <2>2. /\ parent' \in [Churches -> Churches \cup {Nobody}]
          /\ \A d \in Churches : \/ parent'[d] = parent[d]
                                 \/ Consented(d, parent'[d], agreed')
      BY <1>0, <2>1
    <2> QED BY <1>0, <2>1, <2>2, IdleType, HeldIdle, InvMove
            DEF Answer, Grows, Untouched, Asked
  <1> QED BY <1>5, <1>6, <1>7, <1>8, <1>9, <1>10, <1>11, <1>12, <1>13
          DEF LinkContinue

-----------------------------------------------------------------------------
LEMMA InvNext == Inv /\ [Next]_vars => Inv'
  <1> SUFFICES ASSUME Inv, [Next]_vars PROVE Inv'
    OBVIOUS
  <1>1. CASE UNCHANGED vars
    <2>1. TypeOK' /\ Asked'
      BY <1>1 DEF vars, billingVars, linkVars, Inv, TypeOK, BillingTypeOK, Asked
    <2> QED BY <1>1, <2>1, StepLemma DEF vars, billingVars, linkVars, Grows
  <1>2. CASE BillingNext /\ UNCHANGED linkVars
    BY <1>2, InvCheckout, InvClock, InvStart, InvContinue, InvCron DEF BillingNext
  <1>3. CASE LinkNext
    BY <1>3, InvOffer, InvLinkStart, InvLinkContinue DEF LinkNext
  <1> QED BY <1>1, <1>2, <1>3 DEF Next

LEMMA InvAlways == Spec => []Inv
  BY InvInit, InvNext, PTL DEF Spec

\* Every variable of billing and of the branch links keeps its type, the rows
\* held by handlers and by the lapse job included.
THEOREM TypeCorrect == Spec => []TypeOK
  BY InvAlways, PTL DEF Inv

\* Whatever stale rows the webhooks, the church, the console and the lapse job
\* save in whatever order, a canceled subscription is on Free.
THEOREM CanceledHolds == Spec => []CanceledIsFree
  <1>1. Inv => CanceledIsFree
    BY DEF Inv, Rows, Lawful, CanceledIsFree
  <1> QED BY <1>1, InvAlways, PTL

\* A past-due church always has a period whose end the lapse job counts from.
THEOREM PastDueHolds == Spec => []PastDueHasEnd
  <1>1. Inv => PastDueHasEnd
    BY DEF Inv, Rows, Lawful, PastDueHasEnd
  <1> QED BY <1>1, InvAlways, PTL

\* No interleaving of payments, grants, sponsorships and stale saves puts a
\* church on a plan nobody paid for, granted or sponsored.
THEOREM FundingHolds == Spec => []PlanIsFunded
  <1>1. Inv => PlanIsFunded
    BY DEF Inv, Rows, Lawful, Supported, PlanIsFunded
  <1> QED BY <1>1, InvAlways, PTL

\* No church becomes a branch, or a sponsored one, without having accepted it.
THEOREM ConsentHolds == Spec => []LinkedByConsent
  <1>1. Inv => LinkedByConsent
    BY DEF Inv, Rows, Links, Lawful, Consented, LinkedByConsent
  <1> QED BY <1>1, InvAlways, PTL


-----------------------------------------------------------------------------
(* A session is credited once *)

\* A handler that has read a session holds its row lock until it commits: the
\* session is still pending, and nobody else has read it.
Locked ==
  /\ \A h \in Handlers : work[h].op = "charge" => sessions[work[h].ref] = "PENDING"
  /\ \A g, h \in Handlers : work[g].op = "charge" /\ work[h].op = "charge" =>
       g = h \/ work[g].ref # work[h].ref

Ledger == CreditedOnce /\ Locked

\* No handler takes up a session.
NoCharge == \A h \in Handlers : work'[h].op = "charge" => work'[h] = work[h]

LEMMA NoChargeLemma ==
  ASSUME Inv, Ledger, NoCharge, UNCHANGED <<sessions, credits>>
  PROVE  Ledger'
  BY DEF Ledger, NoCharge, Locked, CreditedOnce

LEMMA NoChargeLinks ==
  ASSUME Inv, LinkNext
  PROVE  NoCharge /\ UNCHANGED <<sessions, credits>>
  <1>0. work \in [Handlers -> Work]
    BY DEF Inv, TypeOK
  <1>1. ASSUME NEW h \in Handlers, LinkStart(h)
        PROVE  NoCharge /\ UNCHANGED <<sessions, credits>>
    BY <1>0, <1>1 DEF LinkStart, CloseRead, AcceptRead, UnlinkRead, EditRead,
                      Begin, NoCharge, Untouched
  <1>2. ASSUME NEW h \in Handlers, LinkContinue(h)
        PROVE  NoCharge /\ UNCHANGED <<sessions, credits>>
    <2>1. CASE CloseSave(h) \/ AcceptLink(h) \/ AcceptRespond(h) \/ UnlinkSave(h)
               \/ EditSave(h) \/ UnsponsorRead(h)
      BY <1>0, <2>1 DEF CloseSave, AcceptLink, AcceptRespond, UnlinkSave, EditSave,
                        UnsponsorRead, Answer, Go, Take, Idle, NoCharge, Untouched, Work
    <2>2. CASE SponsorRead(h)
      BY <1>0, <2>2 DEF SponsorRead, Answer, Idle, NoCharge, Untouched, Work
    <2>3. CASE SponsorSave(h) \/ UnsponsorSave(h)
      BY <1>0, <2>3 DEF SponsorSave, UnsponsorSave, Save, Answer, Idle, NoCharge,
                        Untouched
    <2> QED BY <1>2, <2>1, <2>2, <2>3 DEF LinkContinue
  <1> QED BY <1>1, <1>2 DEF LinkNext, OfferLink, billingVars, NoCharge

LEMMA LedgerNext == Inv /\ Ledger /\ [Next]_vars => Ledger'
  <1> SUFFICES ASSUME Inv, Ledger, [Next]_vars PROVE Ledger'
    OBVIOUS
  <1>0. /\ work \in [Handlers -> Work]
        /\ sessions \in [Sessions -> {"none", "PENDING", "COMPLETED", "FAILED", "REFUNDED"}]
        /\ credits \in [Sessions -> Nat]
        /\ \A h \in Handlers : work[h].op = "charge" => work[h].ref \in Sessions
    BY DEF Inv, TypeOK, BillingTypeOK, Handled, Held
  <1>1. CASE UNCHANGED vars \/ CronStep \/ Tick \/ Crash
    <2>1. CASE UNCHANGED vars
      BY <2>1, NoChargeLemma DEF vars, billingVars, NoCharge
    <2>2. CASE CronStep \/ Tick
      <3>1. UNCHANGED <<work, sessions, credits>>
        BY <2>2 DEF CronStep, CronStart, CronLapse, CronDowngrade, CronReview, CronEnd,
                    CronSave, Tick
      <3> QED BY <3>1, NoChargeLemma DEF NoCharge
    <2>3. CASE Crash
      BY <2>3, NoChargeLemma DEF Crash, NoCharge, Idle
    <2> QED BY <1>1, <2>1, <2>2, <2>3
  <1>2. CASE LinkNext
    BY <1>2, NoChargeLinks, NoChargeLemma
  <1>3. ASSUME NEW s \in Sessions, Checkout(s)
        PROVE  Ledger'
    <2>1. CASE VendorPays(s) \/ VendorDeclines(s) \/ VendorStops(s)
      BY <2>1, NoChargeLemma DEF VendorPays, VendorDeclines, VendorStops, NoCharge
    <2>2. CASE StartCheckout(s) \/ ChargeFailed(s) \/ RefundSession(s)
      BY <1>0, <2>2 DEF StartCheckout, ChargeFailed, RefundSession, Creditable,
                        Ledger, Locked, CreditedOnce
    <2> QED BY <1>3, <2>1, <2>2 DEF Checkout
  <1>4. ASSUME NEW h \in Handlers, Start(h)
        PROVE  Ledger'
    <2>1. ASSUME NEW s \in Sessions, ChargeRead(h, s)
          PROVE  Ledger'
      BY <1>0, <2>1 DEF ChargeRead, Creditable, Hold, Ledger, Locked, CreditedOnce
    <2>2. ASSUME ~\E s \in Sessions : ChargeRead(h, s)
          PROVE  NoCharge /\ UNCHANGED <<sessions, credits>>
      BY <1>0, <1>4, <2>2 DEF Start, StoppedRead, CreatedRead, CancelRead, GrantRead,
                              DiscountRead, Hold, NoCharge
    <2> QED BY <2>1, <2>2, NoChargeLemma
  <1>5. ASSUME NEW h \in Handlers, Continue(h)
        PROVE  Ledger'
    <2>1. CASE ChargeCommit(h)
      <3> DEFINE s == work[h].ref
      <3>1. /\ work[h].op = "charge" /\ s \in Sessions
            /\ sessions' = [sessions EXCEPT ![s] = "COMPLETED"]
            /\ credits' = [credits EXCEPT ![s] = @ + 1]
            /\ work' = [work EXCEPT ![h] = Idle]
        BY <1>0, <2>1 DEF ChargeCommit, Save, Answer
      <3>2. CreditedOnce'
        BY <1>0, <3>1 DEF Ledger, Locked, CreditedOnce
      <3>3. Locked'
        BY <1>0, <3>1 DEF Ledger, Locked, Idle
      <3> QED BY <3>2, <3>3 DEF Ledger
    <2>2. CASE CancelAtVendor(h)
      BY <1>0, <2>2, NoChargeLemma DEF CancelAtVendor, NoCharge, Work
    <2>3. CASE work' = [work EXCEPT ![h] = Idle] /\ UNCHANGED <<sessions, credits>>
      <3>1. NoCharge
        BY <1>0, <2>3 DEF NoCharge, Idle
      <3> QED BY <2>3, <3>1, NoChargeLemma
    <2>4. CASE StoppedSave(h) \/ CreatedSave(h)
      BY <2>3, <2>4 DEF StoppedSave, CreatedSave, Save, Answer
    <2>5. CASE CancelSave(h) \/ DiscountSave(h)
      BY <2>3, <2>5 DEF CancelSave, DiscountSave, Save, Answer
    <2>6. CASE GrantSave(h)
      BY <2>3, <2>6 DEF GrantSave, Save, Answer
    <2> QED BY <1>5, <2>1, <2>2, <2>4, <2>5, <2>6 DEF Continue
  <1> QED BY <1>1, <1>2, <1>3, <1>4, <1>5 DEF Next, BillingNext

\* A checkout session buys one period, however often, however concurrently and
\* in whatever order its webhooks are delivered, and whenever the process ends.
THEOREM CreditHolds == Spec => []CreditedOnce
  <1>1. Init => Ledger
    BY DEF Init, BillingInit, Ledger, Locked, CreditedOnce, Idle
  <1>2. Ledger => CreditedOnce
    BY DEF Ledger
  <1> QED BY <1>1, <1>2, LedgerNext, InvAlways, PTL DEF Spec

=============================================================================
