--------------------------- MODULE Subscriptions ---------------------------
(***************************************************************************)
(* A church's subscription row and everyone who writes it: the checkout    *)
(* webhooks, the church itself, the platform console and the nightly lapse *)
(* job.  Every writer reads the row, awaits something, and saves the whole *)
(* entity it read, so two of them can undo each other.                     *)
(*                                                                         *)
(* The payment vendor is external: an event it has emitted may be          *)
(* delivered at any time, any number of times and in any order.            *)
(***************************************************************************)
EXTENDS Naturals, FiniteSets

CONSTANTS
  Churches,
  Plans, Free,     \* Free is the plan that costs nothing
  Sessions,        \* checkout sessions, by the vendor's reference
  Buyer, Bought,   \* the church and the plan of each session
  Handlers,        \* requests and webhooks being handled at once
  Nobody, NoDay, NoCode, NoSub, NoRef,
  Period, Grace,   \* days
  Enabled,         \* which of AllOps happen in this instance
  MaxDay,          \* bound: the clock stops there
  MaxCrashes       \* bound: process crashes

AllOps == {"decline", "recur", "stop", "cancel", "grant", "discount", "refund",
           "cron", "edit"}

Days == 0..(MaxDay + Period)

Status == {"ACTIVE", "PAST_DUE", "CANCELED"}

\* `code` is billingProviderSubscriptionId, the vendor's recurring subscription,
\* named here after the session that created it.
Sub == [plan: Plans, status: Status, end: Days \cup {NoDay}, cancelAt: BOOLEAN,
        sponsor: Churches \cup {Nobody}, code: Sessions \cup {NoCode}]

ASSUME SubscriptionAssumption ==
  /\ Free \in Plans
  /\ Buyer \in [Sessions -> Churches]
  /\ Bought \in [Sessions -> Plans]
  /\ Nobody \notin Churches
  /\ NoDay \notin Nat
  /\ NoCode \notin Sessions
  /\ NoSub \notin Sub
  /\ Period \in Nat \ {0} /\ Grace \in Nat \ {0}
  /\ Enabled \subseteq AllOps
  /\ MaxDay \in Nat /\ MaxCrashes \in Nat

VARIABLES
  now,
  subs,      \* public.subscriptions, one row per church
  sessions,  \* public.billing_checkout_sessions: the status of each
  vendor,    \* what the vendor has emitted about each session
  work,      \* the handler in progress on each Handlers slot
  cron,      \* the lapse job: its clock and the rows it read
  funded,    \* history: <<church, plan>> that was paid for or granted
  credits,   \* history: how many periods each session has bought
  crashes

billingVars == <<now, subs, sessions, vendor, work, cron, funded, credits,
                 crashes>>

-----------------------------------------------------------------------------
Events == {"paid", "declined", "created", "stopped"}

Idle == [op |-> "idle", church |-> Nobody, row |-> NoSub, ref |-> NoRef]

NoCron == [pc |-> "idle", at |-> 0, rows |-> [c \in Churches |-> NoSub]]

\* What ensureSubscription inserted when the church was provisioned.
NewSub == [plan |-> Free, status |-> "ACTIVE", end |-> NoDay, cancelAt |-> FALSE,
           sponsor |-> Nobody, code |-> NoCode]

BillingTypeOK ==
  /\ now \in 0..MaxDay
  /\ subs \in [Churches -> Sub]
  /\ sessions \in [Sessions ->
       {"none", "PENDING", "COMPLETED", "FAILED", "REFUNDED"}]
  /\ vendor \in [Sessions -> [events: SUBSET Events, due: Days \cup {NoDay}]]
  /\ cron \in [pc: {"idle", "lapsed", "review"}, at: 0..MaxDay,
               rows: [Churches -> Sub \cup {NoSub}]]
  /\ funded \in SUBSET (Churches \X Plans)
  /\ credits \in [Sessions -> Nat]
  /\ crashes \in 0..MaxCrashes

BillingInit ==
  /\ now = 0
  /\ subs = [c \in Churches |-> NewSub]
  /\ sessions = [s \in Sessions |-> "none"]
  /\ vendor = [s \in Sessions |-> [events |-> {}, due |-> NoDay]]
  /\ work = [h \in Handlers |-> Idle]
  /\ cron = NoCron
  /\ funded = {}
  /\ credits = [s \in Sessions |-> 0]
  /\ crashes = 0

-----------------------------------------------------------------------------
(* Reading a subscription, and saving what was read *)

Hold(h, op, c, ref) ==
  /\ work[h].op = "idle"
  /\ work' = [work EXCEPT ![h] =
       [op |-> op, church |-> c, row |-> subs[c], ref |-> ref]]

Answer(h) == work' = [work EXCEPT ![h] = Idle]

\* save(subscription) of the entity h holds, with the fields it assigned.
Save(h, row) ==
  /\ subs' = [subs EXCEPT ![work[h].church] = row]
  /\ Answer(h)

\* Seeded bug: the plan's name is written into the status as well.
ToFreeStatus(row) == [row EXCEPT !.plan = Free, !.status = Free]

ToFree(row) == [row EXCEPT !.plan = Free, !.status = "CANCELED"]

WithinPeriod(row) == row.end # NoDay /\ row.end > now

-----------------------------------------------------------------------------
(* The vendor *)

\* initiateSubscriptionCheckout.
StartCheckout(s) ==
  /\ sessions[s] = "none"
  /\ sessions' = [sessions EXCEPT ![s] = "PENDING"]
  /\ UNCHANGED <<now, subs, vendor, work, cron, funded, credits, crashes>>

Emit(s, events, due) ==
  vendor' = [vendor EXCEPT ![s] = [events |-> @.events \cup events, due |-> due]]

\* External: the customer pays; Paystack also creates a recurring subscription,
\* and may or may not say when it will charge next.
VendorPays(s) ==
  /\ sessions[s] # "none" /\ "paid" \notin vendor[s].events
  /\ \/ Emit(s, {"paid"}, NoDay)
     \/ /\ "recur" \in Enabled
        /\ \E due \in {NoDay, now + Period} : Emit(s, {"paid", "created"}, due)
  /\ UNCHANGED <<now, subs, sessions, work, cron, funded, credits, crashes>>

\* External: an attempt is declined, before the customer pays or for good.
VendorDeclines(s) ==
  /\ "decline" \in Enabled
  /\ sessions[s] # "none" /\ vendor[s].events = {}
  /\ Emit(s, {"declined"}, NoDay)
  /\ UNCHANGED <<now, subs, sessions, work, cron, funded, credits, crashes>>

\* External: the recurring subscription ends, in the vendor's own portal.
VendorStops(s) ==
  /\ "stop" \in Enabled
  /\ "created" \in vendor[s].events
  /\ "stopped" \notin vendor[s].events
  /\ Emit(s, {"stopped"}, vendor[s].due)
  /\ UNCHANGED <<now, subs, sessions, work, cron, funded, credits, crashes>>

-----------------------------------------------------------------------------
(* CheckoutService.handleWebhookEvent *)

\* Seeded bug: neither the row lock nor the status guard.
NoGuard(s) == TRUE

\* The session is found PENDING under a row lock: nobody else is inside.
Creditable(s) ==
  /\ sessions[s] = "PENDING"
  /\ \A g \in Handlers : work[g].op = "charge" => work[g].ref # s

\* applyChargeSucceeded, the reads of its transaction ...
ChargeRead(h, s) ==
  /\ "paid" \in vendor[s].events
  /\ Creditable(s)
  /\ Hold(h, "charge", Buyer[s], s)
  /\ UNCHANGED <<now, subs, sessions, vendor, cron, funded, credits, crashes>>

\* ... and its commit.
ChargeCommit(h) ==
  /\ work[h].op = "charge"
  /\ LET s == work[h].ref IN
       /\ sessions' = [sessions EXCEPT ![s] = "COMPLETED"]
       /\ Save(h, [work[h].row EXCEPT !.plan = Bought[s], !.status = "ACTIVE",
                                      !.end = now + Period])
       /\ credits' = [credits EXCEPT ![s] = @ + 1]
       /\ funded' = funded \cup {<<Buyer[s], Bought[s]>>}
  /\ UNCHANGED <<now, vendor, cron, crashes>>

\* charge.failed: one conditional UPDATE, which waits for the row lock.
ChargeFailed(s) ==
  /\ "declined" \in vendor[s].events
  /\ Creditable(s)
  /\ sessions' = [sessions EXCEPT ![s] = "FAILED"]
  /\ UNCHANGED <<now, subs, vendor, work, cron, funded, credits, crashes>>

\* applySubscriptionCanceled finds the church by the vendor's subscription.
StoppedRead(h, s) ==
  /\ "stopped" \in vendor[s].events
  /\ \E c \in Churches : subs[c].code = s /\ Hold(h, "stopped", c, s)
  /\ UNCHANGED <<now, subs, sessions, vendor, cron, funded, credits, crashes>>

StoppedSave(h) ==
  /\ work[h].op = "stopped"
  /\ Save(h, ToFree(work[h].row))
  /\ UNCHANGED <<now, sessions, vendor, cron, funded, credits, crashes>>

\* applySubscriptionCreated finds it by the tenant id in the payload.
CreatedRead(h, s) ==
  /\ "created" \in vendor[s].events
  /\ Hold(h, "created", Buyer[s], s)
  /\ UNCHANGED <<now, subs, sessions, vendor, cron, funded, credits, crashes>>

\* Seeded bug: a payload without a date clears the one on file.
VendorDate(row, due) == due

\* The vendor's own date is trusted over ours when it gives one.
PeriodEnd(row, due) == IF due = NoDay THEN row.end ELSE due

CreatedSave(h) ==
  /\ work[h].op = "created"
  /\ LET s == work[h].ref IN
       Save(h, [work[h].row EXCEPT
                  !.code = s, !.end = PeriodEnd(work[h].row, vendor[s].due)])
  /\ UNCHANGED <<now, sessions, vendor, cron, funded, credits, crashes>>

-----------------------------------------------------------------------------
(* The church and the platform console *)

\* cancelSubscription, up to its call of the vendor.
CancelRead(h, c) ==
  /\ "cancel" \in Enabled
  /\ subs[c].plan # Free /\ subs[c].sponsor = Nobody
  /\ Hold(h, "cancel", c, NoRef)
  /\ UNCHANGED <<now, subs, sessions, vendor, cron, funded, credits, crashes>>

\* The call to the vendor: made when there is something to cancel, and allowed
\* to fail.  External: Paystack disables the subscription and says so in an
\* event of its own; the other two vendors do nothing.
CancelAtVendor(h) ==
  /\ work[h].op = "cancel"
  /\ work' = [work EXCEPT ![h].op = "cancelling"]
  /\ LET code == work[h].row.code IN
     \/ /\ code \in Sessions
        /\ Emit(code, {"stopped"}, vendor[code].due)
     \/ UNCHANGED vendor
  /\ UNCHANGED <<now, subs, sessions, cron, funded, credits, crashes>>

\* What is left of the paid period is kept; otherwise the church is on Free.
CancelSave(h) ==
  /\ work[h].op = "cancelling"
  /\ LET row == work[h].row IN
       Save(h, IF WithinPeriod(row) THEN [row EXCEPT !.cancelAt = TRUE]
               ELSE [ToFree(row) EXCEPT !.cancelAt = FALSE])
  /\ UNCHANGED <<now, sessions, vendor, cron, funded, credits, crashes>>

\* PlatformTenantService.changeTenantPlan.
GrantRead(h, c) ==
  /\ "grant" \in Enabled
  /\ Hold(h, "grant", c, NoRef)
  /\ UNCHANGED <<now, subs, sessions, vendor, cron, funded, credits, crashes>>

\* Seeded bug: the plan alone is changed.
PlanOnly(row, p) == [row EXCEPT !.plan = p]

\* The platform's word is a grant of access: the status is put right with it.
Granted(row, p) == [row EXCEPT !.plan = p, !.status = "ACTIVE"]

GrantSave(h) ==
  /\ work[h].op = "grant"
  /\ \E p \in Plans :
       /\ Save(h, Granted(work[h].row, p))
       /\ funded' = funded \cup {<<work[h].church, p>>}
  /\ UNCHANGED <<now, sessions, vendor, cron, credits, crashes>>

\* applyDiscount and removeDiscount assign only the discount, and save the rest
\* as they read it.
DiscountRead(h, c) ==
  /\ "discount" \in Enabled
  /\ Hold(h, "discount", c, NoRef)
  /\ UNCHANGED <<now, subs, sessions, vendor, cron, funded, credits, crashes>>

DiscountSave(h) ==
  /\ work[h].op = "discount"
  /\ Save(h, work[h].row)
  /\ UNCHANGED <<now, sessions, vendor, cron, funded, credits, crashes>>

\* refundCheckoutSession leaves the plan alone, deliberately.
RefundSession(s) ==
  /\ "refund" \in Enabled
  /\ sessions[s] = "COMPLETED"
  /\ sessions' = [sessions EXCEPT ![s] = "REFUNDED"]
  /\ UNCHANGED <<now, subs, vendor, work, cron, funded, credits, crashes>>

-----------------------------------------------------------------------------
(* SubscriptionLapseScheduler.processLapsedSubscriptions *)

\* The rows a query returned, held while the loop goes through them.
Snapshot(found) == [c \in Churches |-> IF c \in found THEN subs[c] ELSE NoSub]

Lapsed(c) ==
  subs[c].status = "ACTIVE" /\ subs[c].end # NoDay /\ subs[c].end < now

CronStart ==
  /\ "cron" \in Enabled
  /\ cron.pc = "idle"
  /\ cron' = [pc |-> "lapsed", at |-> now,
              rows |-> Snapshot({c \in Churches : Lapsed(c)})]
  /\ UNCHANGED <<now, subs, sessions, vendor, work, funded, credits, crashes>>

\* downgradeToFree keeps the sponsor and the period's end.
Downgraded(row) == [ToFree(row) EXCEPT !.cancelAt = FALSE]

CronSave(c, row) ==
  /\ cron.rows[c] # NoSub
  /\ subs' = [subs EXCEPT ![c] = row]
  /\ cron' = [cron EXCEPT !.rows[c] = NoSub]

\* handleNewlyLapsed: whoever asked to stop is stopped, the rest are warned.
CronLapse(c) ==
  /\ cron.pc = "lapsed"
  /\ LET row == cron.rows[c] IN
       CronSave(c, IF row.cancelAt THEN Downgraded(row)
                   ELSE [row EXCEPT !.status = "PAST_DUE"])
  /\ UNCHANGED <<now, sessions, vendor, work, funded, credits, crashes>>

\* Seeded bug: only a church with a recurring subscription is looked at.
GraceOverIfRecurring(c) ==
  /\ subs[c].status = "PAST_DUE" /\ subs[c].end # NoDay
  /\ cron.at >= subs[c].end + Grace
  /\ subs[c].code # NoCode

\* The past-due rows that are not skipped: the period's end is known and the
\* days of grace are over by the clock the job started with.
GraceOver(c) ==
  /\ subs[c].status = "PAST_DUE" /\ subs[c].end # NoDay
  /\ cron.at >= subs[c].end + Grace

CronReview ==
  /\ cron.pc = "lapsed"
  /\ \A c \in Churches : cron.rows[c] = NoSub
  /\ cron' = [cron EXCEPT !.pc = "review", !.rows = Snapshot({c \in Churches : GraceOver(c)})]
  /\ UNCHANGED <<now, subs, sessions, vendor, work, funded, credits, crashes>>

CronDowngrade(c) ==
  /\ cron.pc = "review"
  /\ CronSave(c, Downgraded(cron.rows[c]))
  /\ UNCHANGED <<now, sessions, vendor, work, funded, credits, crashes>>

CronEnd ==
  /\ cron.pc = "review"
  /\ \A c \in Churches : cron.rows[c] = NoSub
  /\ cron' = NoCron
  /\ UNCHANGED <<now, subs, sessions, vendor, work, funded, credits, crashes>>

-----------------------------------------------------------------------------
Tick ==
  /\ now < MaxDay
  /\ now' = now + 1
  /\ UNCHANGED <<subs, sessions, vendor, work, cron, funded, credits, crashes>>

\* Handlers and the job are gone; a transaction that had not committed too.
Crash ==
  /\ crashes < MaxCrashes
  /\ crashes' = crashes + 1
  /\ work' = [h \in Handlers |-> Idle]
  /\ cron' = NoCron
  /\ UNCHANGED <<now, subs, sessions, vendor, funded, credits>>

Checkout(s) ==
  \/ StartCheckout(s)
  \/ VendorPays(s)
  \/ VendorDeclines(s)
  \/ VendorStops(s)
  \/ ChargeFailed(s)
  \/ RefundSession(s)

Start(h) ==
  \/ \E s \in Sessions : ChargeRead(h, s) \/ StoppedRead(h, s) \/ CreatedRead(h, s)
  \/ \E c \in Churches : CancelRead(h, c) \/ GrantRead(h, c) \/ DiscountRead(h, c)

Continue(h) ==
  \/ ChargeCommit(h)
  \/ StoppedSave(h)
  \/ CreatedSave(h)
  \/ CancelAtVendor(h)
  \/ CancelSave(h)
  \/ GrantSave(h)
  \/ DiscountSave(h)

CronStep ==
  \/ CronStart
  \/ \E c \in Churches : CronLapse(c) \/ CronDowngrade(c)
  \/ CronReview
  \/ CronEnd

BillingNext ==
  \/ \E s \in Sessions : Checkout(s)
  \/ \E h \in Handlers : Start(h) \/ Continue(h)
  \/ CronStep
  \/ Tick
  \/ Crash

=============================================================================
