---------------------------- MODULE PlanAccess ----------------------------
(***************************************************************************)
(* Whether one church may use a metered feature of its plan: the guard     *)
(* that resolves the plan through a cache filled without a lock, the usage *)
(* counter that is raised only after the handler succeeded, and the plan   *)
(* changes that invalidate the cache, some of them under the wrong key.    *)
(* Other churches have cache keys and counter rows of their own.           *)
(***************************************************************************)
EXTENDS Naturals, FiniteSets

CONSTANTS
  Plans,
  Offers,      \* what a plan may say of the feature: [has, limit]
  NoLimit,     \* a plan that includes the feature without a cap
  Requests,    \* slots for concurrent requests of the church
  Nothing,
  MaxChanges,  \* bound: changes of plan and edits of plans
  MaxCreated   \* bound: successful uses

Offer == [has: BOOLEAN, limit: (Nat \ {0}) \cup {NoLimit}]

ASSUME AccessAssumption ==
  /\ NoLimit \notin Nat
  /\ Offers \subseteq Offer /\ Offers # {}
  /\ Nothing \notin Plans \cup Offer
  /\ IsFiniteSet(Requests)
  /\ MaxChanges \in Nat /\ MaxCreated \in Nat

VARIABLES
  planId,   \* subscriptions.planId of the church
  catalog,  \* public.plans: what each plan offers
  cache,    \* tenant:<id>:plan-features:<id> in Redis
  req,      \* the requests in progress
  used,     \* feature_usages.count
  dels,     \* invalidations of the cache under way
  editing,  \* the plan edit that has saved and not yet found its subscribers
  offered,  \* history: everything any plan has ever offered
  created,  \* history: how many times the handler succeeded
  changes

vars == <<planId, catalog, cache, req, used, dels, editing, offered, created,
          changes>>

-----------------------------------------------------------------------------
\* `seen` is the plan id a resolution has read, `plan` what it resolved to, and
\* `fill` the cache write it fired and did not wait for.
Idle == [pc |-> "idle", seen |-> Nothing, plan |-> Nothing, fill |-> Nothing]

Request == [pc: {"idle", "guard", "guardPlan", "decide", "handler",
                 "consume", "consumePlan", "spend", "over"},
            seen: Plans \cup {Nothing}, plan: Offer \cup {Nothing},
            fill: Offer \cup {Nothing}]

TypeOK ==
  /\ planId \in Plans
  /\ catalog \in [Plans -> Offer]
  /\ cache \in Offer \cup {Nothing}
  /\ req \in [Requests -> Request]
  /\ used \in Nat
  /\ dels \in Nat
  /\ editing \in Plans \cup {Nothing}
  /\ offered \in SUBSET Offer
  /\ created \in 0..MaxCreated
  /\ changes \in 0..MaxChanges

Init ==
  /\ planId \in Plans
  /\ catalog \in [Plans -> Offers]
  /\ cache = Nothing
  /\ req = [r \in Requests |-> Idle]
  /\ used = 0
  /\ dels = 0
  /\ editing = Nothing
  /\ offered = {catalog[p] : p \in Plans}
  /\ created = 0
  /\ changes = 0

Data == <<planId, catalog, dels, editing, offered, changes>>

At(r, pc) == req[r].pc = pc

Goto(r, pc) == req' = [req EXCEPT ![r].pc = pc]

-----------------------------------------------------------------------------
(* PlanFeatureResolverService.resolve, called by the guard and again by the *)
(* interceptor                                                              *)

Resolving == {"guard", "consume"}

\* Where a resolution that missed goes on, and where it ends.
Fetching == [guard |-> "guardPlan", consume |-> "consumePlan"]
Resolved == [guard |-> "decide", consume |-> "spend"]

\* Seeded bug: a hit is written back, which starts its 300 seconds again.
HitSlides(r, pc) ==
  /\ At(r, pc) /\ cache # Nothing
  /\ req' = [req EXCEPT ![r].pc = Resolved[pc], ![r].plan = cache, ![r].fill = cache]

Hit(r, pc) ==
  /\ At(r, pc) /\ cache # Nothing
  /\ req' = [req EXCEPT ![r].pc = Resolved[pc], ![r].plan = cache]

\* A miss reads the subscription ...
Miss(r, pc) ==
  /\ At(r, pc) /\ cache = Nothing
  /\ req' = [req EXCEPT ![r].pc = Fetching[pc], ![r].seen = planId]

\* Seeded bug: the absence of a cap is resolved to a cap of zero.
CapOrZero(p) ==
  IF catalog[p].limit = NoLimit THEN [catalog[p] EXCEPT !.limit = 0] ELSE catalog[p]

Features(p) == catalog[p]

\* ... and then the plan it names; getOrSet does not wait for its own set.
Fetch(r, pc) ==
  /\ At(r, Fetching[pc])
  /\ LET offer == Features(req[r].seen) IN
       req' = [req EXCEPT ![r].pc = Resolved[pc], ![r].seen = Nothing,
                          ![r].plan = offer, ![r].fill = offer]

Resolve(r) ==
  /\ \E pc \in Resolving : Hit(r, pc) \/ Miss(r, pc) \/ Fetch(r, pc)
  /\ UNCHANGED <<cache, used, created>> /\ UNCHANGED Data

FillLands(r) ==
  /\ req[r].fill # Nothing
  /\ cache' = req[r].fill
  /\ req' = [req EXCEPT ![r].fill = Nothing]
  /\ UNCHANGED <<used, created>> /\ UNCHANGED Data

-----------------------------------------------------------------------------
(* One request *)

Arrive(r) ==
  /\ At(r, "idle")
  /\ Goto(r, "guard")
  /\ UNCHANGED <<cache, used, created>> /\ UNCHANGED Data

\* PlanGuard.canActivate: the feature is in the plan and a use is left.
Allowed(plan) == plan.has /\ (plan.limit # NoLimit => used < plan.limit)

Decide(r) ==
  /\ At(r, "decide")
  /\ Goto(r, IF Allowed(req[r].plan) THEN "handler" ELSE "over")
  /\ UNCHANGED <<cache, used, created>> /\ UNCHANGED Data

\* Seeded bug: the use is counted whatever became of the handler.
CountsAlways == {"consume"}

\* The interceptor's tap() runs only when the handler did not throw.
AfterFailure == {"over"}

HandlerFails(r) ==
  /\ At(r, "handler")
  /\ \E pc \in AfterFailure : Goto(r, pc)
  /\ UNCHANGED <<cache, used, created>> /\ UNCHANGED Data

HandlerSucceeds(r) ==
  /\ At(r, "handler")
  /\ created < MaxCreated
  /\ created' = created + 1
  /\ Goto(r, "consume")
  /\ UNCHANGED <<cache, used>> /\ UNCHANGED Data

\* Seeded bug: one use too many.
OneMore(limit) == used <= limit

Left(limit) == used < limit

\* tryConsume: one conditional upsert, whose answer nobody looks at.
Spend(r) ==
  /\ At(r, "spend")
  /\ LET limit == req[r].plan.limit IN
       used' = IF limit # NoLimit /\ Left(limit) THEN used + 1 ELSE used
  /\ Goto(r, "over")
  /\ UNCHANGED <<cache, created>> /\ UNCHANGED Data

\* The slot is free again once the cache write it fired has landed.
Leave(r) ==
  /\ At(r, "over") /\ req[r].fill = Nothing
  /\ req' = [req EXCEPT ![r] = Idle]
  /\ UNCHANGED <<cache, used, created>> /\ UNCHANGED Data

-----------------------------------------------------------------------------
(* Changes of plan *)

\* A save of the subscription, followed by a del.  A church's own request and
\* the console (delTenantCache) delete the church's key; a webhook and the lapse
\* job have no tenant in their context and delete tenant:global:..., where
\* nothing is.
ChangePlan(p, scoped) ==
  /\ changes < MaxChanges
  /\ p # planId
  /\ planId' = p
  /\ dels' = IF scoped THEN dels + 1 ELSE dels
  /\ changes' = changes + 1
  /\ UNCHANGED <<catalog, cache, req, used, editing, offered, created>>

Invalidate ==
  /\ dels > 0
  /\ dels' = dels - 1
  /\ cache' = Nothing
  /\ UNCHANGED <<planId, catalog, req, used, editing, offered, created, changes>>

\* PlatformPlanService.updatePlan: save the plan ...
EditPlan(p, offer) ==
  /\ changes < MaxChanges
  /\ editing = Nothing
  /\ offer # catalog[p]
  /\ catalog' = [catalog EXCEPT ![p] = offer]
  /\ offered' = offered \cup {offer}
  /\ editing' = p
  /\ changes' = changes + 1
  /\ UNCHANGED <<planId, cache, req, used, dels, created>>

\* ... and then find its subscribers, whose keys are deleted.
FindSubscribers ==
  /\ editing # Nothing
  /\ dels' = IF planId = editing THEN dels + 1 ELSE dels
  /\ editing' = Nothing
  /\ UNCHANGED <<planId, catalog, cache, req, used, offered, created, changes>>

\* The 300 seconds of the entry are over.
Expire ==
  /\ cache # Nothing
  /\ cache' = Nothing
  /\ UNCHANGED <<req, used, created>> /\ UNCHANGED Data

-----------------------------------------------------------------------------
RequestStep(r) ==
  \/ Resolve(r)
  \/ Decide(r)
  \/ HandlerFails(r)
  \/ HandlerSucceeds(r)
  \/ Spend(r)
  \/ Leave(r)

Background ==
  \/ \E r \in Requests : FillLands(r)
  \/ Invalidate
  \/ FindSubscribers
  \/ Expire

Next ==
  \/ \E r \in Requests : Arrive(r) \/ RequestStep(r)
  \/ \E p \in Plans : \/ \E scoped \in BOOLEAN : ChangePlan(p, scoped)
                      \/ \E offer \in Offers : EditPlan(p, offer)
  \/ Background

Spec == Init /\ [][Next]_vars

\* Redis writes land and entries expire; a request that started goes on.
Fairness ==
  /\ \A r \in Requests : WF_vars(RequestStep(r)) /\ WF_vars(FillLands(r))
  /\ WF_vars(Expire) /\ WF_vars(Invalidate) /\ WF_vars(FindSubscribers)

FairSpec == Spec /\ Fairness

-----------------------------------------------------------------------------
(* What metering promises *)

Limits == {o.limit : o \in offered} \ {NoLimit}

\* The counter never passes the largest cap there has been, however many
\* requests passed the guard together and whatever stale plan each resolved.
CountWithinLimit == used = 0 \/ \E limit \in Limits : used <= limit

\* "A failed create never spends a use": every use counted is of a handler that
\* had succeeded, and of another one each.
UsesWereMade == used <= created

\* Once the platform stops changing plans, the guard decides by the plan the
\* church has: neither a late fill nor a del that missed keeps an old one in
\* the cache for ever.
PlanTakesEffect == <>[](cache = Nothing \/ cache = catalog[planId])

=============================================================================
