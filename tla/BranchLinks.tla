---------------------------- MODULE BranchLinks ----------------------------
(***************************************************************************)
(* How one church becomes, and stops being, a branch of another, and the   *)
(* sponsorship of its plan that may come with it.  Accepting, unlinking    *)
(* and leaving each write two tables one after the other, with no          *)
(* transaction around them, and meet everything Subscriptions does to the  *)
(* same row.                                                               *)
(***************************************************************************)
EXTENDS Subscriptions

CONSTANTS Requests   \* the ids of link requests

VARIABLES
  parent,    \* tenants.parentTenantId
  requests,  \* public.tenant_branch_link_requests
  agreed     \* history: <<parent, branch, sponsored>> the branch accepted

linkVars == <<parent, requests, agreed>>

vars == <<billingVars, linkVars>>

Ops == {"idle", "charge", "stopped", "created", "cancel", "cancelling", "grant",
        "discount", "revoke", "decline", "accept", "respond", "sponsor", "sponsoring",
        "unlink", "unsponsor", "unsponsoring", "edit"}

Work == [op: Ops, church: Churches \cup {Nobody}, row: Sub \cup {NoSub},
         ref: Sessions \cup Requests \cup Churches \cup {Nobody, NoRef}]

Request == [from: Churches \cup {Nobody}, to: Churches \cup {Nobody},
            sponsor: BOOLEAN,
            status: {"none", "PENDING", "ACCEPTED", "DECLINED", "REVOKED"}]

NewRequest == [from |-> Nobody, to |-> Nobody, sponsor |-> FALSE, status |-> "none"]

TypeOK ==
  /\ BillingTypeOK
  /\ work \in [Handlers -> Work]
  /\ parent \in [Churches -> Churches \cup {Nobody}]
  /\ requests \in [Requests -> Request]
  /\ agreed \in SUBSET (Churches \X Churches \X BOOLEAN)

Init ==
  /\ BillingInit
  /\ parent = [c \in Churches |-> Nobody]
  /\ requests = [q \in Requests |-> NewRequest]
  /\ agreed = {}

-----------------------------------------------------------------------------
Begin(h, op, c, ref) ==
  /\ work[h].op = "idle"
  /\ work' = [work EXCEPT ![h] =
       [op |-> op, church |-> c, row |-> NoSub, ref |-> ref]]

\* The next await of the same handler.
Go(h, op) == work' = [work EXCEPT ![h].op = op]

\* The handler reads the subscription of the church it works on.
Take(h, op) ==
  work' = [work EXCEPT ![h].op = op, ![h].row = subs[work[h].church]]

Untouched == UNCHANGED <<now, sessions, vendor, cron, funded, credits, crashes>>

\* createLinkRequest: what it checks is checked again when it is accepted.
OfferLink(q, p, c, sponsored) ==
  /\ requests[q].status = "none"
  /\ c # p /\ parent[c] = Nobody
  /\ \A other \in Requests : requests[other].status = "PENDING" =>
       requests[other].from # p \/ requests[other].to # c
  /\ requests' = [requests EXCEPT ![q] =
       [from |-> p, to |-> c, sponsor |-> sponsored, status |-> "PENDING"]]
  /\ UNCHANGED <<billingVars, parent, agreed>>

\* revokeLinkRequest and declineLinkRequest: read it pending, save it closed.
CloseRead(h, q) ==
  /\ requests[q].status = "PENDING"
  /\ \E op \in {"revoke", "decline"} : Begin(h, op, requests[q].to, q)
  /\ UNCHANGED <<subs, linkVars>> /\ Untouched

CloseSave(h) ==
  /\ work[h].op \in {"revoke", "decline"}
  /\ requests' = [requests EXCEPT ![work[h].ref].status =
       IF work[h].op = "revoke" THEN "REVOKED" ELSE "DECLINED"]
  /\ Answer(h)
  /\ UNCHANGED <<subs, parent, agreed>> /\ Untouched

-----------------------------------------------------------------------------
(* acceptLinkRequest *)

\* Only the branch itself gets here, with a request that is still pending.
AcceptRead(h, q) ==
  /\ requests[q].status = "PENDING"
  /\ parent[requests[q].to] = Nobody
  /\ Begin(h, "accept", requests[q].to, q)
  /\ agreed' = agreed \cup
       {<<requests[q].from, requests[q].to, requests[q].sponsor>>}
  /\ UNCHANGED <<subs, parent, requests>> /\ Untouched

\* Seeded bug: the sponsor is linked instead, and the branch becomes the parent.
LinkOther(h) ==
  LET q == requests[work[h].ref] IN parent' = [parent EXCEPT ![q.from] = q.to]

\* save(target)
LinkTarget(h) ==
  LET q == requests[work[h].ref] IN parent' = [parent EXCEPT ![q.to] = q.from]

AcceptLink(h) ==
  /\ work[h].op = "accept"
  /\ LinkTarget(h)
  /\ Go(h, "respond")
  /\ UNCHANGED <<subs, requests, agreed>> /\ Untouched

\* Seeded bug: every branch is sponsored, asked for or not.
SponsorAlways(q) == TRUE

WantsSponsor(q) == requests[q].sponsor

\* save(request)
AcceptRespond(h) ==
  /\ work[h].op = "respond"
  /\ requests' = [requests EXCEPT ![work[h].ref].status = "ACCEPTED"]
  /\ IF WantsSponsor(work[h].ref) THEN Go(h, "sponsor") ELSE Answer(h)
  /\ UNCHANGED <<subs, parent, agreed>> /\ Untouched

\* applySponsorship: a parent on Free has nothing to give.
SponsorRead(h) ==
  /\ work[h].op = "sponsor"
  /\ LET p == requests[work[h].ref].from IN
       IF subs[p].plan = Free THEN Answer(h)
       ELSE work' = [work EXCEPT ![h].op = "sponsoring",
               ![h].row = [subs[work[h].church] EXCEPT !.plan = subs[p].plan]]
  /\ UNCHANGED <<subs, linkVars>> /\ Untouched

SponsorSave(h) ==
  /\ work[h].op = "sponsoring"
  /\ Save(h, [work[h].row EXCEPT !.status = "ACTIVE", !.cancelAt = FALSE,
                                 !.sponsor = requests[work[h].ref].from])
  /\ UNCHANGED linkVars /\ Untouched

-----------------------------------------------------------------------------
(* unlinkBranch, by the parent, and leaveParent, by the branch *)

UnlinkRead(h, c) ==
  /\ parent[c] # Nobody
  /\ Begin(h, "unlink", c, parent[c])
  /\ UNCHANGED <<subs, linkVars>> /\ Untouched

UnlinkSave(h) ==
  /\ work[h].op = "unlink"
  /\ parent' = [parent EXCEPT ![work[h].church] = Nobody]
  /\ Go(h, "unsponsor")
  /\ UNCHANGED <<subs, requests, agreed>> /\ Untouched

\* revokeSponsorshipIfSponsoredBy
UnsponsorRead(h) ==
  /\ work[h].op = "unsponsor"
  /\ IF subs[work[h].church].sponsor = work[h].ref THEN Take(h, "unsponsoring")
     ELSE Answer(h)
  /\ UNCHANGED <<subs, linkVars>> /\ Untouched

UnsponsorSave(h) ==
  /\ work[h].op = "unsponsoring"
  /\ Save(h, [ToFree(work[h].row) EXCEPT !.sponsor = Nobody])
  /\ UNCHANGED linkVars /\ Untouched

\* The console's updateTenant and the branch's own updateSharingConsent save a
\* whole tenant, its parent included.
EditRead(h, c) ==
  /\ "edit" \in Enabled
  /\ Begin(h, "edit", c, parent[c])
  /\ UNCHANGED <<subs, linkVars>> /\ Untouched

EditSave(h) ==
  /\ work[h].op = "edit"
  /\ parent' = [parent EXCEPT ![work[h].church] = work[h].ref]
  /\ Answer(h)
  /\ UNCHANGED <<subs, requests, agreed>> /\ Untouched

-----------------------------------------------------------------------------
LinkStart(h) ==
  \/ \E q \in Requests : CloseRead(h, q) \/ AcceptRead(h, q)
  \/ \E c \in Churches : UnlinkRead(h, c) \/ EditRead(h, c)

LinkContinue(h) ==
  \/ CloseSave(h)
  \/ AcceptLink(h)
  \/ AcceptRespond(h)
  \/ SponsorRead(h)
  \/ SponsorSave(h)
  \/ UnlinkSave(h)
  \/ UnsponsorRead(h)
  \/ UnsponsorSave(h)
  \/ EditSave(h)

LinkNext ==
  \/ \E q \in Requests, p, c \in Churches, sponsored \in BOOLEAN :
       OfferLink(q, p, c, sponsored)
  \/ \E h \in Handlers : LinkStart(h) \/ LinkContinue(h)

Next ==
  \/ BillingNext /\ UNCHANGED linkVars
  \/ LinkNext

Spec == Init /\ [][Next]_vars

\* The lapse job is started every night and a handler that started goes on.
Fairness ==
  /\ WF_vars(CronStep /\ UNCHANGED linkVars)
  /\ \A h \in Handlers :
       WF_vars((Continue(h) /\ UNCHANGED linkVars) \/ LinkContinue(h))

FairSpec == Spec /\ Fairness

-----------------------------------------------------------------------------
(* What billing promises *)

\* A checkout session buys one period, however often and however concurrently
\* the vendor delivers its webhooks, and one that bought a period is not taken
\* for a failed one.
CreditedOnce ==
  \A s \in Sessions :
    /\ credits[s] <= 1
    /\ credits[s] = 1 <=> sessions[s] \in {"COMPLETED", "REFUNDED"}

\* A church is on a paid plan only if it paid for it or was granted it, or
\* accepted to be sponsored by a church when somebody had that plan; no order
\* of saves of stale rows conjures up a plan.
PlanIsFunded ==
  \A c \in Churches : subs[c].plan # Free =>
    \/ <<c, subs[c].plan>> \in funded
    \/ /\ \E p \in Churches : <<p, c, TRUE>> \in agreed
       /\ \E o \in Churches : <<o, subs[c].plan>> \in funded

\* A subscription that is CANCELED confers nothing, which is what the plan guard
\* relies on: it reads the plan and never looks at the status.
CanceledIsFree ==
  \A c \in Churches : subs[c].status = "CANCELED" => subs[c].plan = Free

\* A past-due church has a period whose end the lapse job can count from; one
\* without would be skipped every night and keep its plan for ever.
PastDueHasEnd ==
  \A c \in Churches : subs[c].status = "PAST_DUE" => subs[c].end # NoDay

\* A church is somebody's branch, or sponsored by somebody, only if it accepted
\* that itself, even after stale saves from the console.
LinkedByConsent ==
  \A c \in Churches :
    /\ parent[c] # Nobody => \E b \in BOOLEAN : <<parent[c], c, b>> \in agreed
    /\ subs[c].sponsor # Nobody => <<subs[c].sponsor, c, TRUE>> \in agreed

\* A church that does not renew does not keep its plan: once the days of grace
\* are over the nightly job ends it, unless somebody is writing the row again
\* and again.
Overdue(c) ==
  /\ subs[c].status # "CANCELED"
  /\ subs[c].end # NoDay /\ subs[c].end + Grace <= now

Writing(c) == \E h \in Handlers : work[h].church = c

LapsedSettles == \A c \in Churches : Overdue(c) ~> (~Overdue(c) \/ Writing(c))

=============================================================================
