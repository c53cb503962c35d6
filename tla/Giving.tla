------------------------------- MODULE Giving -------------------------------
(***************************************************************************)
(* Gifts paid online and the pledges they, and the payments members report, *)
(* count towards, in one church.  The webhook completes a checkout session *)
(* in one transaction and records the gift in another; finance reviews     *)
(* reported payments meanwhile, and each review adds up what is confirmed  *)
(* of the pledge as its own transaction sees it.                           *)
(*                                                                         *)
(* A transaction is READ COMMITTED: each of its statements sees what was   *)
(* committed when it ran, and what the transaction itself wrote.  Here a   *)
(* write counts from the commit on, and a claim that is being written is   *)
(* locked until then.                                                      *)
(***************************************************************************)
EXTENDS Naturals, FiniteSets, Functions

CONSTANTS
  Gifts,      \* checkout sessions
  Claims,     \* payments members report
  Pledges,
  General,    \* the pledge of a gift to none, which becomes a tithe record
  Toward,     \* the pledge of every claim
  Amount,     \* what every gift and claim is worth
  Total,      \* what every pledge promises
  Providers,  \* the payment vendors
  Handlers,   \* webhooks and requests being handled at once
  Nothing

Payments == Gifts \cup Claims

ASSUME GivingAssumption ==
  /\ IsFiniteSet(Payments) /\ Gifts \cap Claims = {}
  /\ General \notin Pledges
  /\ Toward \in [Claims -> Pledges]
  /\ Amount \in [Payments -> Nat \ {0}]
  /\ Total \in [Pledges -> Nat \ {0}]
  /\ Nothing \notin Providers \cup Payments \cup Pledges

VARIABLES
  catalog,    \* giving_providers.isActive, the platform's word
  config,     \* tenant_giving_provider_configs.isActive, the church's
  sessions,   \* giving_checkout_sessions: status, provider and pledge
  vendor,     \* what the vendor reports, again and again, of each gift
  records,    \* how many tithe records or contributions each gift has
  claims,     \* finance_pledge_contributions that members reported
  pledges,    \* finance_pledges.status
  work,       \* the handler in progress on each Handlers slot
  counted,    \* history: payments that were once recorded or confirmed
  closed,     \* history: pledges an admin has set COMPLETED
  dropped     \* history: gifts whose second transaction failed

vars == <<catalog, config, sessions, vendor, records, claims, pledges, work,
          counted, closed, dropped>>

-----------------------------------------------------------------------------
PledgeStatus == {"ACTIVE", "COMPLETED", "CANCELLED"}

Idle == [op |-> "idle", item |-> Nothing, to |-> "ACTIVE"]

\* `to` is the status the pledge will be given, ACTIVE when it is left alone.
\* "credit" and "review" have not written yet; "credited" and "reviewed" have,
\* and have seen the pledge active; "credits" and "reviews" have only to commit.
Work == [op: {"idle", "credit", "credited", "credits", "review", "reviewed",
              "reviews", "decline", "status"},
         item: Payments \cup Pledges \cup {Nothing}, to: PledgeStatus]

Session == [status: {"none", "pending", "completed", "failed"},
            via: Providers \cup {Nothing},
            pledge: Pledges \cup {General}]

ClaimStatus == {"none", "PENDING", "CONFIRMED", "DECLINED"}

TypeOK ==
  /\ catalog \in [Providers -> BOOLEAN]
  /\ config \in [Providers -> BOOLEAN]
  /\ sessions \in [Gifts -> Session]
  /\ vendor \in [Gifts -> SUBSET {"paid", "declined"}]
  /\ records \in [Gifts -> Nat]
  /\ claims \in [Claims -> ClaimStatus]
  /\ pledges \in [Pledges -> PledgeStatus]
  /\ work \in [Handlers -> Work]
  /\ counted \in SUBSET Payments
  /\ closed \in SUBSET Pledges
  /\ dropped \in SUBSET Gifts

Init ==
  /\ catalog \in [Providers -> BOOLEAN]
  /\ config \in [Providers -> BOOLEAN]
  /\ sessions = [g \in Gifts |->
                   [status |-> "none", via |-> Nothing, pledge |-> General]]
  /\ vendor = [g \in Gifts |-> {}]
  /\ records = [g \in Gifts |-> 0]
  /\ claims = [c \in Claims |-> "none"]
  /\ pledges = [p \in Pledges |-> "ACTIVE"]
  /\ work = [h \in Handlers |-> Idle]
  /\ counted = {}
  /\ closed = {}
  /\ dropped = {}

-----------------------------------------------------------------------------
(* The payment vendors *)

\* upsertConfig and setActive, and the deactivateSiblings of another provider's.
\* Each provider goes on and off by itself: two admins who set up
\* two of them at once leave both on.
SwitchProvider(p) ==
  /\ config' = [config EXCEPT ![p] = ~@]
  /\ UNCHANGED <<catalog, sessions, vendor, records, claims, pledges, work,
                 counted, closed, dropped>>

\* PlatformGivingProviderService.setActive never touches a church's own config.
SwitchPlatform(p) ==
  /\ catalog' = [catalog EXCEPT ![p] = ~@]
  /\ UNCHANGED <<config, sessions, vendor, records, claims, pledges, work,
                 counted, closed, dropped>>

\* initiateCheckout.  What its cached provider may be late by is as well a
\* session that was started earlier.
StartGift(g, p, to) ==
  /\ sessions[g].status = "none"
  /\ config[p] /\ catalog[p]
  /\ to \in Pledges => pledges[to] = "ACTIVE"
  /\ sessions' = [sessions EXCEPT ![g] =
                    [status |-> "pending", via |-> p, pledge |-> to]]
  /\ UNCHANGED <<catalog, config, vendor, records, claims, pledges, work,
                 counted, closed, dropped>>

\* External: an attempt is declined; the member may try again, and pays once.
MemberPays(g, event) ==
  /\ sessions[g].status # "none"
  /\ "paid" \notin vendor[g] /\ event \notin vendor[g]
  /\ vendor' = [vendor EXCEPT ![g] = @ \cup {event}]
  /\ UNCHANGED <<catalog, config, sessions, records, claims, pledges, work,
                 counted, closed, dropped>>

-----------------------------------------------------------------------------
(* GivingCheckoutService.handleWebhook *)

\* Seeded bug: the platform's word is asked for here as well.
AcceptsOffered(p) == config[p] /\ catalog[p]

\* The church's own config only: money that was charged is to be credited.
Accepts(p) == config[p]

\* Seeded bug: the session is found whatever its status is.
Known(g) == sessions[g].status # "none"

\* Found PENDING, under a row lock that is held until it is COMPLETED.
Creditable(g) == sessions[g].status = "pending"

Assign(h, op, item, to) ==
  work' = [work EXCEPT ![h] = [op |-> op, item |-> item, to |-> to]]

\* Seeded bug: the status is taken from the wrong enumeration.
Refused == "DECLINED"

Failed == "failed"

WebhookFailed(g) ==
  /\ "declined" \in vendor[g]
  /\ Accepts(sessions[g].via)
  /\ sessions[g].status = "pending"
  /\ sessions' = [sessions EXCEPT ![g].status = Failed]
  /\ UNCHANGED <<catalog, config, vendor, records, claims, pledges, work,
                 counted, closed, dropped>>

\* The first transaction.
WebhookPaid(h, g) ==
  /\ work[h].op = "idle"
  /\ "paid" \in vendor[g]
  /\ Accepts(sessions[g].via)
  /\ Creditable(g)
  /\ sessions' = [sessions EXCEPT ![g].status = "completed"]
  /\ Assign(h, "credit", g, "ACTIVE")
  /\ UNCHANGED <<catalog, config, vendor, records, claims, pledges, counted,
                 closed, dropped>>

\* The second one, in the church's schema, when no pledge was named.
CreditTithe(h) ==
  /\ work[h].op = "credit"
  /\ LET g == work[h].item IN
       /\ sessions[g].pledge = General
       /\ records' = [records EXCEPT ![g] = @ + 1]
       /\ counted' = counted \cup {g}
  /\ work' = [work EXCEPT ![h] = Idle]
  /\ UNCHANGED <<catalog, config, sessions, vendor, claims, pledges, closed,
                 dropped>>

-----------------------------------------------------------------------------
(* PledgeService.maybeAutoCompletePledge, in the transaction of its caller *)

\* Seeded bug: whatever was reported counts.
Reported(x) ==
  IF x \in Gifts THEN records[x]
  ELSE IF claims[x] \in {"PENDING", "CONFIRMED"} THEN 1 ELSE 0

\* How often payment x counts among the confirmed contributions.
Rows(x) ==
  IF x \in Gifts THEN records[x] ELSE IF claims[x] = "CONFIRMED" THEN 1 ELSE 0

Purpose(x) == IF x \in Gifts THEN sessions[x].pledge ELSE Toward[x]

Among(p) == {x \in Payments : Purpose(x) = p}

\* What a transaction that itself wrote x adds up: what is committed, and x.
ConfirmedWith(x) ==
  SumFunctionOnSet([y \in Payments |-> Amount[y] * Rows(y)],
                   Among(Purpose(x)) \ {x}) + Amount[x]

\* The writes of recordConfirmedContribution and confirmContribution, and the
\* first read of maybeAutoCompletePledge.
WriteThenLook(h, next, last) ==
  LET x == work[h].item IN
  Assign(h, IF pledges[Purpose(x)] = "ACTIVE" THEN next ELSE last, x, "ACTIVE")

\* Its second read, the sum, and what it decides.
AddUp(h) ==
  /\ work[h].op \in {"credited", "reviewed"}
  /\ LET x == work[h].item
         op == IF work[h].op = "credited" THEN "credits" ELSE "reviews" IN
       Assign(h, op, x,
              IF ConfirmedWith(x) >= Total[Purpose(x)] THEN "COMPLETED" ELSE "ACTIVE")
  /\ UNCHANGED <<catalog, config, sessions, vendor, records, claims, pledges,
                 counted, closed, dropped>>

\* save(pledge), if it was decided, and the commit.
Commit(h) ==
  /\ pledges' = IF work[h].to = "COMPLETED"
                THEN [pledges EXCEPT ![Purpose(work[h].item)] = "COMPLETED"]
                ELSE pledges
  /\ counted' = counted \cup {work[h].item}
  /\ work' = [work EXCEPT ![h] = Idle]

CreditPledge(h) ==
  /\ work[h].op = "credit"
  /\ Purpose(work[h].item) # General
  /\ WriteThenLook(h, "credited", "credits")
  /\ UNCHANGED <<catalog, config, sessions, vendor, records, claims, pledges,
                 counted, closed, dropped>>

CreditCommit(h) ==
  /\ work[h].op = "credits"
  /\ records' = [records EXCEPT ![work[h].item] = @ + 1]
  /\ Commit(h)
  /\ UNCHANGED <<catalog, config, sessions, vendor, claims, closed, dropped>>

-----------------------------------------------------------------------------
(* Reported payments, and finance *)

\* submitContribution
Submit(c) ==
  /\ claims[c] = "none"
  /\ pledges[Toward[c]] = "ACTIVE"
  /\ claims' = [claims EXCEPT ![c] = "PENDING"]
  /\ UNCHANGED <<catalog, config, sessions, vendor, records, pledges, work,
                 counted, closed, dropped>>

\* confirmContribution and declineContribution find the claim pending ...
ReviewRead(h, c) ==
  /\ work[h].op = "idle"
  /\ claims[c] = "PENDING"
  /\ \E op \in {"review", "decline"} : Assign(h, op, c, "ACTIVE")
  /\ UNCHANGED <<catalog, config, sessions, vendor, records, claims, pledges,
                 counted, closed, dropped>>

\* ... and write it once nobody else is writing it.
Unlocked(c) ==
  \A g \in Handlers : work[g].op \in {"reviewed", "reviews"} => work[g].item # c

ReviewWrite(h) ==
  /\ work[h].op = "review"
  /\ Unlocked(work[h].item)
  /\ WriteThenLook(h, "reviewed", "reviews")
  /\ UNCHANGED <<catalog, config, sessions, vendor, records, claims, pledges,
                 counted, closed, dropped>>

ReviewCommit(h) ==
  /\ work[h].op = "reviews"
  /\ claims' = [claims EXCEPT ![work[h].item] = "CONFIRMED"]
  /\ Commit(h)
  /\ UNCHANGED <<catalog, config, sessions, vendor, records, closed, dropped>>

Decline(h) ==
  /\ work[h].op = "decline"
  /\ Unlocked(work[h].item)
  /\ claims' = [claims EXCEPT ![work[h].item] = "DECLINED"]
  /\ work' = [work EXCEPT ![h] = Idle]
  /\ UNCHANGED <<catalog, config, sessions, vendor, records, pledges, counted,
                 closed, dropped>>

\* updatePledgeStatus: refused on a pledge that is not active any more.
StatusRead(h, p) ==
  /\ work[h].op = "idle"
  /\ pledges[p] = "ACTIVE"
  /\ \E to \in PledgeStatus : Assign(h, "status", p, to)
  /\ UNCHANGED <<catalog, config, sessions, vendor, records, claims, pledges,
                 counted, closed, dropped>>

StatusSave(h) ==
  /\ work[h].op = "status"
  /\ LET p == work[h].item IN
       /\ pledges' = [pledges EXCEPT ![p] = work[h].to]
       /\ closed' = IF work[h].to = "COMPLETED" THEN closed \cup {p} ELSE closed
  /\ work' = [work EXCEPT ![h] = Idle]
  /\ UNCHANGED <<catalog, config, sessions, vendor, records, claims, counted,
                 dropped>>

\* A statement fails or the process dies: the transaction is rolled back.
Abort(h) ==
  /\ work[h].op # "idle"
  /\ dropped' = IF work[h].op \in {"credit", "credited", "credits"}
                THEN dropped \cup {work[h].item} ELSE dropped
  /\ work' = [work EXCEPT ![h] = Idle]
  /\ UNCHANGED <<catalog, config, sessions, vendor, records, claims, pledges,
                 counted, closed>>

-----------------------------------------------------------------------------
Start(h) ==
  \/ \E c \in Claims : ReviewRead(h, c)
  \/ \E p \in Pledges : StatusRead(h, p)

Continue(h) ==
  \/ CreditTithe(h)
  \/ CreditPledge(h)
  \/ AddUp(h)
  \/ CreditCommit(h)
  \/ ReviewWrite(h)
  \/ ReviewCommit(h)
  \/ Decline(h)
  \/ StatusSave(h)

Deliver(g) == WebhookFailed(g) \/ \E h \in Handlers : WebhookPaid(h, g)

Next ==
  \/ \E p \in Providers : SwitchProvider(p) \/ SwitchPlatform(p)
  \/ \E g \in Gifts, p \in Providers, to \in Pledges \cup {General} :
       StartGift(g, p, to)
  \/ \E g \in Gifts, event \in {"paid", "declined"} : MemberPays(g, event)
  \/ \E g \in Gifts : Deliver(g)
  \/ \E c \in Claims : Submit(c)
  \/ \E h \in Handlers : Start(h) \/ Continue(h) \/ Abort(h)

Spec == Init /\ [][Next]_vars

\* A handler that has started goes on, and the vendor repeats a webhook that
\* was not answered 200, so one of its deliveries finds a free handler.
Fairness ==
  /\ \A h \in Handlers : WF_vars(Continue(h))
  /\ \A g \in Gifts : SF_vars(Deliver(g))

FairSpec == Spec /\ Fairness

-----------------------------------------------------------------------------
(* What giving promises *)

\* A gift is entered in the church's books at most once, and only when its
\* session was completed, however often and however concurrently the vendor
\* reports it and whatever is rolled back.
RecordedOnce ==
  \A g \in Gifts :
    /\ records[g] <= 1
    /\ records[g] = 1 => sessions[g].status = "completed"

\* A pledge that no admin closed is COMPLETED only when what it promises was
\* paid, in gifts recorded and claims confirmed, whatever was declined after.
CompletedWasPaid ==
  \A p \in Pledges : pledges[p] = "COMPLETED" =>
    \/ p \in closed
    \/ SumFunctionOnSet(Amount, counted \cap Among(p)) >= Total[p]

\* A member who was charged is credited even if the platform takes the vendor
\* out of its catalog meanwhile, as long as the church leaves its own settings
\* alone, unless a declined attempt closed the session or a write failed.
Settled(g) ==
  records[g] = 1 \/ sessions[g].status = "failed" \/ g \in dropped

PaidIsCredited ==
  \A g \in Gifts :
    (\A p \in Providers : <>[]config[p]) => [](("paid" \in vendor[g]) => <>Settled(g))

=============================================================================
