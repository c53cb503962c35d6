-------------------------- MODULE PlanAccessProofs --------------------------
(* Metering for every set of plans, offers and requests and every number of *)
(* plan changes: the counter stays within the caps there have been, and     *)
(* counts only uses that were made.                                         *)
EXTENDS PlanAccess, FiniteSetTheorems, TLAPS

\* A request that is about to use a plan or a plan id has one.
Ready ==
  \A r \in Requests :
    /\ req[r].pc \in {"guardPlan", "consumePlan"} => req[r].seen \in Plans
    /\ req[r].pc \in {"decide", "spend"} => req[r].plan # Nothing

Typed == TypeOK /\ Ready

\* Whatever a request or the cache holds was once what some plan offered.
Known ==
  /\ \A p \in Plans : catalog[p] \in offered
  /\ cache \in offered \cup {Nothing}
  /\ \A r \in Requests : /\ req[r].plan \in offered \cup {Nothing}
                         /\ req[r].fill \in offered \cup {Nothing}

\* The requests whose handler succeeded and whose use is not counted yet.
Owing == {r \in Requests : req[r].pc \in {"consume", "consumePlan", "spend"}}

Accounted == used + Cardinality(Owing) <= created

-----------------------------------------------------------------------------
\* A step that writes only the fields of one request.
LEMMA OneRequest ==
  ASSUME TypeOK, NEW r \in Requests, NEW q \in Request,
         req' = [req EXCEPT ![r] = q]
  PROVE  /\ req' \in [Requests -> Request]
         /\ req'[r] = q
         /\ \A s \in Requests \ {r} : req'[s] = req[s]
  BY DEF TypeOK

LEMMA IdleIsRequest == Idle \in Request
  BY DEF Idle, Request

\* What each step of a resolution does to its request.
LEMMA ResolveStep ==
  ASSUME Typed, NEW r \in Requests, Resolve(r)
  PROVE  /\ req' \in [Requests -> Request]
         /\ \A s \in Requests \ {r} : req'[s] = req[s]
         /\ req'[r].pc \in {"guardPlan", "consumePlan"} => req'[r].seen \in Plans
         /\ req'[r].pc \in {"decide", "spend"} => req'[r].plan # Nothing
         /\ req'[r].plan \in {req[r].plan, cache} \cup {catalog[p] : p \in Plans}
         /\ req'[r].fill \in {req[r].fill} \cup {catalog[p] : p \in Plans}
         /\ req[r].pc \in {"guard", "guardPlan"} =>
              req'[r].pc \in {"guardPlan", "decide"}
         /\ req[r].pc \in {"consume", "consumePlan"} =>
              req'[r].pc \in {"consumePlan", "spend"}
         /\ req[r].pc \in {"guard", "guardPlan", "consume", "consumePlan"}
  <1> USE DEF Typed
  <1>1. /\ req[r] \in Request /\ req \in [Requests -> Request]
        /\ planId \in Plans /\ cache \in Offer \cup {Nothing}
        /\ catalog \in [Plans -> Offer]
        /\ Nothing \notin Offer
    BY AccessAssumption DEF TypeOK
  <1>2. PICK pc \in {"guard", "consume"} : Hit(r, pc) \/ Miss(r, pc) \/ Fetch(r, pc)
    BY DEF Resolve, Resolving
  <1>3. /\ Resolved["guard"] = "decide" /\ Resolved["consume"] = "spend"
        /\ Fetching["guard"] = "guardPlan" /\ Fetching["consume"] = "consumePlan"
    BY DEF Resolved, Fetching
  <1>4. CASE Hit(r, pc)
    <2>1. /\ req[r].pc = pc
          /\ req' = [req EXCEPT ![r] = [req[r] EXCEPT !.pc = Resolved[pc], !.plan = cache]]
          /\ cache # Nothing
      BY <1>1, <1>4 DEF Hit, At
    <2> QED BY <1>1, <1>2, <1>3, <2>1 DEF Request
  <1>5. CASE Miss(r, pc)
    <2>1. /\ req[r].pc = pc
          /\ req' = [req EXCEPT ![r] = [req[r] EXCEPT !.pc = Fetching[pc], !.seen = planId]]
      BY <1>1, <1>5 DEF Miss, At
    <2> QED BY <1>1, <1>2, <1>3, <2>1 DEF Request
  <1>6. CASE Fetch(r, pc)
    <2> DEFINE offer == Features(req[r].seen)
    <2>1. /\ req[r].pc = Fetching[pc]
          /\ req' = [req EXCEPT ![r] =
               [req[r] EXCEPT !.pc = Resolved[pc], !.seen = Nothing,
                              !.plan = offer, !.fill = offer]]
      BY <1>1, <1>6 DEF Fetch, At
    <2>2. req[r].seen \in Plans
      BY <1>2, <1>3, <2>1 DEF Ready
    <2>3. offer \in {catalog[p] : p \in Plans} /\ offer \in Offer
      BY <1>1, <2>2 DEF Features
    <2> HIDE DEF offer
    <2> QED BY <1>1, <1>2, <1>3, <2>1, <2>3 DEF Request
  <1> QED BY <1>2, <1>4, <1>5, <1>6

-----------------------------------------------------------------------------
(* Types *)

LEMMA TypedInit == Init => Typed
  BY AccessAssumption DEF Init, Typed, TypeOK, Ready, Idle, Request

LEMMA TypedRequest ==
  ASSUME Typed, NEW r \in Requests, Arrive(r) \/ RequestStep(r)
  PROVE  Typed'
  <1> USE DEF Typed, Data
  <1>1. CASE Resolve(r)
    BY <1>1, ResolveStep DEF Resolve, TypeOK, Ready
  <1>2. CASE Arrive(r)
    BY <1>2 DEF Arrive, Goto, At, TypeOK, Ready, Request
  <1>3. CASE Decide(r)
    BY <1>3 DEF Decide, Goto, At, TypeOK, Ready, Request
  <1>4. CASE HandlerFails(r)
    BY <1>4 DEF HandlerFails, AfterFailure, Goto, At, TypeOK, Ready, Request
  <1>5. CASE HandlerSucceeds(r)
    BY <1>5, AccessAssumption DEF HandlerSucceeds, Goto, At, TypeOK, Ready, Request
  <1>6. CASE Spend(r)
    BY <1>6 DEF Spend, Goto, At, TypeOK, Ready, Request
  <1>7. CASE Leave(r)
    BY <1>7, IdleIsRequest DEF Leave, TypeOK, Ready, Idle
  <1> QED BY <1>1, <1>2, <1>3, <1>4, <1>5, <1>6, <1>7 DEF RequestStep

LEMMA TypedPlans ==
  ASSUME Typed,
         \E p \in Plans : \/ \E scoped \in BOOLEAN : ChangePlan(p, scoped)
                          \/ \E offer \in Offers : EditPlan(p, offer)
  PROVE  Typed'
  <1> USE DEF Typed, TypeOK, Ready
  <1>1. ASSUME NEW p \in Plans, NEW scoped \in BOOLEAN, ChangePlan(p, scoped)
        PROVE  Typed'
    BY <1>1, AccessAssumption DEF ChangePlan
  <1>2. ASSUME NEW p \in Plans, NEW offer \in Offers, EditPlan(p, offer)
        PROVE  Typed'
    BY <1>2, AccessAssumption DEF EditPlan
  <1> QED BY <1>1, <1>2

LEMMA TypedBackground ==
  ASSUME Typed, Background
  PROVE  Typed'
  <1> USE DEF Typed, TypeOK, Ready, Data
  <1>1. ASSUME NEW r \in Requests, FillLands(r)
        PROVE  Typed'
    BY <1>1 DEF FillLands, Request
  <1>2. CASE Invalidate
    BY <1>2 DEF Invalidate
  <1>3. CASE FindSubscribers
    BY <1>3 DEF FindSubscribers
  <1>4. CASE Expire
    BY <1>4 DEF Expire
  <1> QED BY <1>1, <1>2, <1>3, <1>4 DEF Background

LEMMA TypedAlways == Spec => []Typed
  <1>1. Typed /\ [Next]_vars => Typed'
    <2> SUFFICES ASSUME Typed, [Next]_vars PROVE Typed'
      OBVIOUS
    <2>1. CASE UNCHANGED vars
      BY <2>1 DEF vars, Typed, TypeOK, Ready
    <2> QED BY <2>1, TypedRequest, TypedPlans, TypedBackground DEF Next
  <1> QED BY <1>1, TypedInit, PTL DEF Spec

\* Every variable of the metering keeps its type: in particular a request never
\* decides on, or caches, something that is not what a plan offers.
THEOREM TypeCorrect == Spec => []TypeOK
  BY TypedAlways, PTL DEF Typed

-----------------------------------------------------------------------------
(* Nothing but what was once offered is used *)

LEMMA KnownInit == Init => Known
  BY DEF Init, Known, Idle

LEMMA KnownNext ==
  ASSUME Typed, Known, [Next]_vars
  PROVE  Known' /\ offered \subseteq offered'
  <1> USE DEF Known, Data
  <1>0. req \in [Requests -> Request] /\ catalog \in [Plans -> Offer]
    BY DEF Typed, TypeOK
  <1>1. ASSUME NEW r \in Requests, Arrive(r) \/ RequestStep(r)
        PROVE  Known' /\ offered \subseteq offered'
    <2>1. CASE Resolve(r)
      BY <2>1, ResolveStep DEF Resolve
    <2>2. CASE Arrive(r)
      BY <1>0, <2>2 DEF Arrive, Goto, Request
    <2>3. CASE Decide(r)
      BY <1>0, <2>3 DEF Decide, Goto, Request
    <2>4. CASE HandlerFails(r)
      BY <1>0, <2>4 DEF HandlerFails, Goto, Request
    <2>5. CASE HandlerSucceeds(r)
      BY <1>0, <2>5 DEF HandlerSucceeds, Goto, Request
    <2>6. CASE Spend(r)
      BY <1>0, <2>6 DEF Spend, Goto, Request
    <2>7. CASE Leave(r)
      BY <1>0, <2>7 DEF Leave, Idle
    <2> QED BY <1>1, <2>1, <2>2, <2>3, <2>4, <2>5, <2>6, <2>7 DEF RequestStep
  <1>2. ASSUME NEW p \in Plans, NEW scoped \in BOOLEAN, ChangePlan(p, scoped)
        PROVE  Known' /\ offered \subseteq offered'
    BY <1>2 DEF ChangePlan
  <1>3. ASSUME NEW p \in Plans, NEW offer \in Offers, EditPlan(p, offer)
        PROVE  Known' /\ offered \subseteq offered'
    BY <1>0, <1>3 DEF EditPlan
  <1>4. CASE Background
    <2>1. ASSUME NEW r \in Requests, FillLands(r)
          PROVE  Known' /\ offered \subseteq offered'
      BY <1>0, <2>1 DEF FillLands, Request
    <2>2. CASE Invalidate \/ FindSubscribers \/ Expire
      BY <2>2 DEF Invalidate, FindSubscribers, Expire
    <2> QED BY <1>4, <2>1, <2>2 DEF Background
  <1>5. CASE UNCHANGED vars
    BY <1>5 DEF vars
  <1> QED BY <1>1, <1>2, <1>3, <1>4, <1>5 DEF Next

\* Only Spend counts a use.
LEMMA UsedNext ==
  ASSUME [Next]_vars
  PROVE  used' = used \/ \E r \in Requests : Spend(r)
  <1> USE DEF Data
  <1>1. ASSUME NEW r \in Requests, Arrive(r) \/ RequestStep(r), ~Spend(r)
        PROVE  used' = used
    BY <1>1 DEF RequestStep, Resolve, Arrive, Decide, HandlerFails,
                HandlerSucceeds, Leave
  <1>2. CASE Background
    BY <1>2 DEF Background, FillLands, Invalidate, FindSubscribers, Expire
  <1> QED BY <1>1, <1>2 DEF Next, vars, ChangePlan, EditPlan

\* The counter never passes the largest cap any plan ever set, although the cap
\* a request passes to the upsert may be that of a plan the church has left.
THEOREM CountHolds == Spec => []CountWithinLimit
  <1> DEFINE Inv == Known /\ CountWithinLimit
  <1>1. Init => Inv
    BY KnownInit DEF Init, CountWithinLimit
  <1>2. Typed /\ Inv /\ [Next]_vars => Inv'
    <2> SUFFICES ASSUME Typed, Known, CountWithinLimit, [Next]_vars
                 PROVE  Known' /\ CountWithinLimit'
      OBVIOUS
    <2>1. Known' /\ Limits \subseteq Limits'
      BY KnownNext DEF Limits
    <2>2. CASE used' = used
      BY <2>1, <2>2 DEF CountWithinLimit
    <2>3. ASSUME NEW r \in Requests, Spend(r), used' # used
          PROVE  CountWithinLimit'
      <3>1. /\ req[r].plan.limit # NoLimit /\ used < req[r].plan.limit
            /\ used' = used + 1 /\ req[r].pc = "spend"
        BY <2>3 DEF Spend, Left, At
      <3>2. req[r].plan \in offered /\ req[r].plan \in Offer /\ used \in Nat
        BY <3>1 DEF Typed, TypeOK, Ready, Known, Request
      <3>3. req[r].plan.limit \in Nat /\ req[r].plan.limit \in Limits
        BY <3>1, <3>2 DEF Offer, Limits
      <3> QED BY <2>1, <3>1, <3>2, <3>3 DEF CountWithinLimit
    <2> QED BY <2>1, <2>2, <2>3, UsedNext
  <1> HIDE DEF Inv
  <1>3. Inv => CountWithinLimit
    BY DEF Inv
  <1> QED BY <1>1, <1>2, <1>3, TypedAlways, PTL DEF Spec

-----------------------------------------------------------------------------
(* No use is counted that was not made *)

\* How the debts change when one request moves.
LEMMA OwingStep ==
  ASSUME NEW r \in Requests,
         \A s \in Requests \ {r} : req'[s].pc = req[s].pc
  PROVE  /\ IsFiniteSet(Owing) /\ Cardinality(Owing) \in Nat
         /\ Cardinality(Owing') =
              IF r \in Owing' THEN IF r \in Owing THEN Cardinality(Owing)
                                   ELSE Cardinality(Owing) + 1
              ELSE IF r \in Owing THEN Cardinality(Owing) - 1
                   ELSE Cardinality(Owing)
  <1>1. IsFiniteSet(Owing) /\ Cardinality(Owing) \in Nat
    BY AccessAssumption, FS_Subset, FS_CardinalityType DEF Owing
  <1>2. CASE r \in Owing'
    <2>1. Owing' = Owing \cup {r}
      BY <1>2 DEF Owing
    <2> QED BY <1>1, <1>2, <2>1, FS_AddElement
  <1>3. CASE r \notin Owing'
    <2>1. Owing' = Owing \ {r}
      BY <1>3 DEF Owing
    <2> QED BY <1>1, <1>3, <2>1, FS_RemoveElement
  <1> QED BY <1>1, <1>2, <1>3

LEMMA AccountedRequest ==
  ASSUME Typed, Accounted, NEW r \in Requests, Arrive(r) \/ RequestStep(r)
  PROVE  Accounted'
  <1>1. req \in [Requests -> Request] /\ used \in Nat /\ created \in Nat
    BY AccessAssumption DEF Typed, TypeOK
  <1>2. CASE Resolve(r)
    <2>1. /\ \A s \in Requests \ {r} : req'[s] = req[s]
          /\ r \in Owing' <=> r \in Owing
      BY <1>2, ResolveStep DEF Owing
    <2> QED BY <1>2, <2>1, OwingStep DEF Accounted, Resolve, Data
  <1>3. CASE Arrive(r) \/ Decide(r) \/ HandlerFails(r) \/ Leave(r)
    <2>1. /\ \A s \in Requests \ {r} : req'[s] = req[s]
          /\ r \notin Owing /\ r \notin Owing'
          /\ UNCHANGED <<used, created>>
      BY <1>1, <1>3 DEF Owing, Arrive, Decide, HandlerFails, AfterFailure, Leave,
                        Goto, At, Idle, Request
    <2> QED BY <2>1, OwingStep DEF Accounted
  <1>4. CASE HandlerSucceeds(r)
    <2>1. /\ \A s \in Requests \ {r} : req'[s] = req[s]
          /\ r \notin Owing /\ r \in Owing'
          /\ used' = used /\ created' = created + 1
      BY <1>1, <1>4 DEF Owing, HandlerSucceeds, Goto, At, Request
    <2> QED BY <1>1, <2>1, OwingStep DEF Accounted
  <1>5. CASE Spend(r)
    <2>1. /\ \A s \in Requests \ {r} : req'[s] = req[s]
          /\ r \in Owing /\ r \notin Owing'
          /\ used' \in {used, used + 1} /\ created' = created
      BY <1>1, <1>5 DEF Owing, Spend, Goto, At, Request
    <2> QED BY <1>1, <2>1, OwingStep DEF Accounted
  <1> QED BY <1>2, <1>3, <1>4, <1>5 DEF RequestStep

\* Every use counted is of a handler that had succeeded, another one each: the
\* requests that still owe a use are what keeps the count from overtaking.
THEOREM UsesHold == Spec => []UsesWereMade
  <1>1. Init => Accounted
    <2> SUFFICES ASSUME Init PROVE Accounted
      OBVIOUS
    <2>1. Owing = {}
      BY DEF Init, Owing, Idle
    <2> QED BY <2>1, FS_EmptySet DEF Init, Accounted
  <1>2. Typed /\ Accounted /\ [Next]_vars => Accounted'
    <2> SUFFICES ASSUME Typed, Accounted, [Next]_vars PROVE Accounted'
      OBVIOUS
    <2>1. ASSUME UNCHANGED <<used, created>>, Owing' = Owing
          PROVE  Accounted'
      BY <2>1 DEF Accounted
    <2>2. ASSUME NEW r \in Requests, FillLands(r)
          PROVE  Accounted'
      <3>1. Owing' = Owing
        BY <2>2 DEF FillLands, Owing, Typed, TypeOK, Request
      <3> QED BY <2>1, <2>2, <3>1 DEF FillLands
    <2>3. CASE \/ Invalidate \/ FindSubscribers \/ Expire \/ UNCHANGED vars
               \/ \E p \in Plans : \/ \E scoped \in BOOLEAN : ChangePlan(p, scoped)
                                   \/ \E offer \in Offers : EditPlan(p, offer)
      BY <2>1, <2>3 DEF Invalidate, FindSubscribers, Expire, vars, ChangePlan,
                        EditPlan, Owing
    <2> QED BY <2>2, <2>3, AccountedRequest DEF Next, Background
  <1>3. Typed /\ Accounted => UsesWereMade
    <2> SUFFICES ASSUME Typed, Accounted PROVE UsesWereMade
      OBVIOUS
    <2>1. Cardinality(Owing) \in Nat
      BY AccessAssumption, FS_Subset, FS_CardinalityType DEF Owing
    <2>2. used \in Nat /\ created \in Nat
      BY AccessAssumption DEF Typed, TypeOK
    <2> QED BY <2>1, <2>2 DEF Accounted, UsesWereMade
  <1> QED BY <1>1, <1>2, <1>3, TypedAlways, PTL DEF Spec

=============================================================================
